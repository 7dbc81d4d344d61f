SPECIFICATION ConsumerSpec
CONSTANTS
  AutoAck = FALSE
  BatchSize = 2
  MaxTx = 3
  MaxStreams = 2
  MaxBulk = 1
INVARIANTS NeverStalls OneAtATime LoopsAreServed
CHECK_DEADLOCK FALSE
