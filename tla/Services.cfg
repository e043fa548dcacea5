SPECIFICATION Spec
CONSTANTS
  r1 = r1 r2 = r2 r3 = r3 r4 = r4 q1 = q1 q2 = q2 q3 = q3
  Run = {r1, r2, r3, r4}
  Reservation = {q1, q2, q3}
  ReservationOf <- Repeated
  Limit = 5
  Estimate = 2
  Costs = {1, 3}
  None = None
  ToolCall = {t1, t2}
  MaxGates = 2
  MaxCrashes = 1
  Opener = {o1, o2}
  Row = {m1, m2}
  MaxOpenerCrashes = 3
  Reply = {1, 2}
  MaxReplyCrashes = 1
  MaxDeploys = 2
  Agent = {1, 2, 3}
  Skill = {11, 12, 13, 14}
  Overlay = {21, 22, 23}
  Likings = {{}, {2, 14}}
  User = {"u1", "u2"}
  Word = {"minutes", "study", "compare"}
  Tool = {"read", "search", "crawl"}
  Release = {"first", "next", "alike"}
  AgentCard <- Agents
  SkillCard <- Skills
  OverlayCard <- Rows
  Deployment <- SomeTools
  MinutesWord = {"minutes"}
  MinutesAgent = 3
  MinutesSkill = 11
  Nil = Nil
INVARIANT TypeOK
INVARIANT BudgetIsKept
INVARIANT ToolCallsAnswerOnce
INVARIANT FamilyAgrees
INVARIANT MigratedOnce
INVARIANT PersonaSpeaksForItsOwner
INVARIANT ServedIsReleased
PROPERTY AnswersFit
PROPERTY WaitingEnds
CHECK_DEADLOCK FALSE
