SPECIFICATION CallsOrMessages
CONSTANTS
  Calls = {c1, c2}
  Operations <- OneOfEachKind
  Statuses = {"UNAVAILABLE", "DEADLINE_EXCEEDED", "UNKNOWN"}
  MaxRetries = 2
  MaxConcurrentRetries = 1
INVARIANT TransientsAreRetried
CHECK_DEADLOCK FALSE
