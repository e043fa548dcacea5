SPECIFICATION Spec
CONSTANTS
  e1 = e1 e2 = e2 e3 = e3 c1 = c1 c2 = c2 s1 = s1
  None = None Stop = Stop
  Event = {e1, e2}
  Standalone = {}
  Conversation = {c1, c2}
  ConversationOf <- TwoConversations
  ThreadRoot <- OwnThreads
  MaxParts = 2
  Outcomes = {"reply", "error", "approval", "fatal", "silent"}
  MaxConcurrency = 1
  MaxPending = 2
  MaxProcessingAttempts = 1
  MaxDeliveryAttempts = 1
  MaxManualRetries = 0
  MaxStarts = 2
  SequentialIngress = TRUE
  MayClose = FALSE
INVARIANT TypeOK
INVARIANT PendingConserved
INVARIANT ConversationOrder
INVARIANT TaskVerdict
INVARIANT OnlyParkedRunsKillWorkers
PROPERTY SettledStaysSettled
CHECK_DEADLOCK FALSE
