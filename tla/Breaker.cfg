\* Three writers, more than the threshold of two; a window of two ticks.
CONSTANTS
  w1 = w1
  w2 = w2
  w3 = w3
  Writers = {w1, w2, w3}
  FailureThreshold = 2
  OpenTimeout = 2
SPECIFICATION FairBreakerSpec
INVARIANTS ClosedBelowThreshold
PROPERTIES EarlyCloseIsStale Recovers
