SPECIFICATION FairPubSpec
CONSTANTS
  MaxAttempts <- Unlimited
  MaxOutages = 3
  Kinds = {"event", "store", "upstream"}
  Requests = {r1, r2}
INVARIANT OpenIsHeard
PROPERTIES OpensForAReason Heals
CHECK_DEADLOCK FALSE
