SPECIFICATION Spec
CONSTANTS
  i1 = i1 i2 = i2 a = a b = b c1 = c1 c2 = c2 c3 = c3
  None = None
  Id = {i1, i2}
  Caller = {a, b}
  Command = {c1, c2}
  MaxRestarts = 1
SYMMETRY Symmetry
INVARIANT TypeOK
INVARIANT TrailReplays
INVARIANT CommandTakesEffectOnce
INVARIANT NoStaleDecision
INVARIANT ProjectionAgrees
PROPERTY FinalStaysFinal
PROPERTY Implements
CHECK_DEADLOCK FALSE
