SPECIFICATION Spec
CONSTANTS
  MaxTurns = 2
  Actor = {a1, a2}
  MaxCalls = 2
  MaxTurnCrashes = 1
  MaxPosts = 3
  MaxChanges = 1
  MaxConvFaults = 1
  SummaryInterval = 2
  RecentSize = 2
  ScriptOutput = {s1}
  WorkspaceOutput = {w1}
  Content = {"bad", "x", "y"}
  MaxRunnerCrashes = 1
  Post = {p1}
  Fact = {f1}
  MaxActive = 1
  MaxRevisions = 3
  MaxPersonaFaults = 1
  MaxPersonaEvents = 3
  Case = {c1, c2}
  Skill = {k1}
  MaxSaved = 1
  MaxCandidates = 1
  MaxSkillRevisions = 3
  ItemCount = 2
  Decider = {d1, d2}
  MaxDraftCrashes = 1
  Goal = {g1}
  Call = {u1, u2}
  MaxDay = 2
  MaxTokens = 1
INVARIANT TypeOK
INVARIANT ApprovalsStayWithTheirCall
INVARIANT SkillBoundsItsTurn
INVARIANT LogMirrorsChannel
INVARIANT ArtifactsArriveWhole
INVARIANT WithdrawnIsPaused
INVARIANT SkillsAreSound
INVARIANT DraftsKeepTheirWord
INVARIANT WindowsAreSound
CHECK_DEADLOCK FALSE
