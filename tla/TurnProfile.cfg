SPECIFICATION TurnSpec
CONSTANTS
  MaxTurns = 1
  Actor = {a1}
  MaxCalls = 1
  MaxTurnCrashes = 0
INVARIANT SharedTurnsSeeNoProfile
CHECK_DEADLOCK FALSE
