SPECIFICATION WorkersSpec
CONSTANTS
  p1 = p1
  p2 = p2
  s1 = s1
  Senders = {s1}
  Concurrency = 2
  MaxIssued = 3
  IsQuery = TRUE
  NoSnapshot = NoSnapshot
  Producers <- ProducersValue
  Quota <- QuotaValue
  Copies = 1
  MaxTokens = 1
  MaxDepth = 1
  Window = 1
  WarmupCount = 1
  MaxFaults = 1
  Patterns = {"events", "events_store", "queue_stream", "queue_simple"}
  Config <- ConfigValue
INVARIANTS CountsAddUp VerdictIsEarned FailureHasCause RpcAccounted
PROPERTY ProducersGoOnAndEnd
CHECK_DEADLOCK FALSE
