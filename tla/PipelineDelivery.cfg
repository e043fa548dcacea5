SPECIFICATION FairSpec
CONSTANTS
  e1 = e1 e2 = e2 e3 = e3 c1 = c1 c2 = c2 s1 = s1
  None = None Stop = Stop
  Event = {e1}
  Standalone = {s1}
  Conversation = {c1, c2}
  ConversationOf <- TwoConversations
  ThreadRoot <- OwnThreads
  MaxParts = 2
  Outcomes = {"reply", "error"}
  MaxConcurrency = 1
  MaxPending = 1
  MaxProcessingAttempts = 2
  MaxDeliveryAttempts = 2
  MaxManualRetries = 1
  MaxStarts = 2
  SequentialIngress = TRUE
  MayClose = FALSE
INVARIANT OutboxTruthful
PROPERTY EveryDeliverySettles
CHECK_DEADLOCK FALSE
