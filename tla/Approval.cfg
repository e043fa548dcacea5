SPECIFICATION FairSpec
CONSTANTS
  d1 = d1 d2 = d2 None = None
  Decider = {d1, d2}
  MaxGates = 2
  Buttons = {1}
  MaxCrashes = 1
INVARIANT EffectsAreApproved
INVARIANT OneResumer
INVARIANT OpenRequestParksRun
PROPERTY DecidedRunGoesOn
CHECK_DEADLOCK FALSE
