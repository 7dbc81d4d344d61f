SPECIFICATION Spec
CONSTANTS
  Msgs = {t1, t2, u1}
  Tracked = {t1, t2}
  Signalled = {t2}
  Keys = {t1, t2}
  KeyOf <- MCKeyOf
  MaxQueueSize = 2
  DrainBatch = 1
  MaxOutages = 1
  NoMsg = NoMsg
INVARIANT NothingForgotten
PROPERTIES ImplementsRequestLine
CHECK_DEADLOCK FALSE
