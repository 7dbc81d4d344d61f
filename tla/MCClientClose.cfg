SPECIFICATION FairCloseSpec
CONSTANTS
  MaxConcurrent = 2
  MaxQueueDepth = 1
  DropOnHighWater = FALSE
  MaxMessages = 4
  MaxResubscribes = 1
  Hanging = {2}
  MaxLate = 1
INVARIANTS PermitsConserved DeliveryOrder CloseIsOrderly
PROPERTIES ImplementsWork NothingStandsStill
CHECK_DEADLOCK FALSE
