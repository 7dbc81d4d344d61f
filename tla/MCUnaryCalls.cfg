SPECIFICATION CallsOrMessages
CONSTANTS
  Calls = {c1, c2}
  Operations <- OneOfEachKind
  Statuses = {"UNAVAILABLE", "DEADLINE_EXCEEDED", "UNKNOWN"}
  MaxRetries = 2
  MaxConcurrentRetries = 1
INVARIANTS ThrottleCounts WhatIsAcceptedWorks
PROPERTIES RepeatsSafely CallsSettle
CHECK_DEADLOCK FALSE
