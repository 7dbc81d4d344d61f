SPECIFICATION TokenOrTlsOrBuffer
CONSTANTS
  Callers = {c1, c2, c3}
  MaxOutstanding = 3
  MaxRenewals = 2
  Buffered = {"small", "middle", "large", "oversized"}
  SizeOf <- SizeOfValue
  MaxSizeBytes = 3
INVARIANTS OneFetch RefreshArmed CredentialsAreFresh BufferIsSound
PROPERTY CallersAndLinksGoOn
CHECK_DEADLOCK FALSE
