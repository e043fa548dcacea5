SPECIFICATION Spec
CONSTANTS
  d1 = d1 d2 = d2 None = None
  Decider = {d1, d2}
  MaxGates = 1
  Buttons = {1}
  MaxCrashes = 0
INVARIANT SucceededTaskIsAnswered
CHECK_DEADLOCK FALSE
