\* One writer with retries and a context that may end, one batch worker; three
\* attempts, pauses of 1 and 2, the cap.
CONSTANTS
  c1 = c1
  w = w
  Callers = {c1}
  Deadline = {c1}
  Worker = w
  MaxAttempts = 3
  InitialBackoff = 1
  MaxBackoff = 2
  Multiplier = 3
  MaxCalls = 1
  BatchSize = 2
  MaxBatches = 1
  Unencodable <- SpoiltEvents
SPECIFICATION FairHTTPSpec
INVARIANTS HTTPTypeOK ResultMatches ExpiryStops AckedStored BatchesIntact CopiesExplained
PROPERTIES NobodyIsKept
CHECK_DEADLOCK FALSE
