SPECIFICATION Spec
CONSTANTS
  AutoAck = FALSE
  BatchSize = 2
  MaxTx = 3
  MaxStreams = 2
  MaxBulk = 1
INVARIANT SingleTransaction
CHECK_DEADLOCK FALSE
