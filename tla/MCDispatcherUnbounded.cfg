SPECIFICATION Spec
CONSTANTS
  MaxConcurrent = 1
  MaxQueueDepth = 1
  DropOnHighWater = FALSE
  MaxMessages = 6
  MaxResubscribes = 1
INVARIANT NeverUnbounded
CHECK_DEADLOCK FALSE
