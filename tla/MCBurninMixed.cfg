SPECIFICATION Spec
CONSTANTS
  MaxRuns = 2
  MaxFaults = 0
  MaxDisconnects = 0
INVARIANT OneRunAtATime
CHECK_DEADLOCK FALSE
