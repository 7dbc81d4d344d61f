SPECIFICATION FairSpec
CONSTANTS
  Msgs = {t1, t2}
  Tracked = {t1, t2}
  Signalled = {}
  Keys = {t1, t2}
  KeyOf <- MCKeyOf
  MaxQueueSize = 2
  DrainBatch = 1
  MaxOutages = 1
  NoMsg = NoMsg
PROPERTIES PendingSettles CloseTerminates
CHECK_DEADLOCK FALSE
