SPECIFICATION WorkersSpec
CONSTANTS
  p1 = p1
  p2 = p2
  s1 = s1
  Senders = {}
  Concurrency = 2
  MaxIssued = 0
  IsQuery = TRUE
  NoSnapshot = NoSnapshot
  Producers <- ProducersValue
  Quota <- QuotaValue
  Copies = 2
  MaxTokens = 1
  MaxDepth = 1
  Window = 2
  WarmupCount = 2
  MaxFaults = 0
  Patterns = {"events"}
  Config <- ConfigValue
INVARIANTS FanoutIsCountedByConsumer
CHECK_DEADLOCK FALSE
