\* Two concurrent writers.
CONSTANTS
  w1 = w1
  w2 = w2
  Writers = {w1, w2}
  FailureThreshold = 2
  OpenTimeout = 2
SPECIFICATION FairBreakerSpec
PROPERTIES WindowRespected
