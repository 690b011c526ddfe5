\* Two goroutines with a call each, and children that fail and drop events.
CONSTANTS
  g1 = g1
  g2 = g2
  m3 = m3
  m1 = m1
  m2 = m2
  Goroutines = {g1, g2}
  LoggerLevel = 0
  MinLevel <- MCMinLevel
  Sampling <- MCSampling
  Interceptors <- TimedRecovery
  Faults = {"fail", "drop"}
  Logged <- MCLogged
  MaxCalls = 1
  MaxLoads = 0
SPECIFICATION Spec
INVARIANT FailuresRouted
CHECK_DEADLOCK FALSE
