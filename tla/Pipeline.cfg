\* Three goroutines with a call each, or two and one Snapshot; a processor rejects events,
\* children fail, drop and panic.  Levels: one that is sampled, one that is not,
\* one that is not valid; two messages, with a counter each.
CONSTANTS
  g1 = g1
  g2 = g2
  g3 = g3
  m3 = m3
  m1 = m1
  m2 = m2
  Goroutines = {g1, g2, g3}
  LoggerLevel = 0
  MinLevel <- MCMinLevel
  Sampling <- MCSampling
  Interceptors <- TimedRecovery
  Faults = {"fail", "drop", "panic", "reject"}
  Logged <- MCLogged
  MaxCalls = 1
  MaxLoads = 4
SPECIFICATION Spec
SYMMETRY Symmetry
CONSTRAINT BesideSnapshot
INVARIANTS ChildrenServed FailuresReported SnapshotInFlight 
CHECK_DEADLOCK FALSE
