SPECIFICATION FairSubSpec
CONSTANTS
  MaxAttempts <- Unlimited
  MaxOutages = 3
  Subs = {s1, s2, s3}
  StoreSubs = {s1}
  Consumers = {s3}
  MaxLog = 2
INVARIANTS HandlesAreTrue StoreInOrder
PROPERTIES StaysClosed LifecycleHeard ReconnectionEnds
CHECK_DEADLOCK FALSE
