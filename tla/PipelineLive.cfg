SPECIFICATION FairSpec
CONSTANTS
  e1 = e1 e2 = e2 e3 = e3 c1 = c1 c2 = c2 s1 = s1
  None = None Stop = Stop
  Event = {e1, e2}
  Standalone = {}
  Conversation = {c1, c2}
  ConversationOf <- TwoConversations
  ThreadRoot <- OwnThreads
  MaxParts = 1
  Outcomes = {"reply", "retryable"}
  MaxConcurrency = 1
  MaxPending = 1
  MaxProcessingAttempts = 2
  MaxDeliveryAttempts = 1
  MaxManualRetries = 0
  MaxStarts = 2
  SequentialIngress = TRUE
  MayClose = TRUE
PROPERTY EveryEventSettles
PROPERTY TaskSettlesWithoutCrash
PROPERTY CloseTerminates
CHECK_DEADLOCK FALSE
