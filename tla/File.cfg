\* Two callers with two calls each; the machine may go down once.
CONSTANTS
  c1 = c1
  c2 = c2
  Callers = {c1, c2}
  MaxCalls = 2
  MaxCrashes = 1
SPECIFICATION FairSpec
INVARIANTS AckedWhole SyncedSurvive
PROPERTIES CallsReturn
CHECK_DEADLOCK FALSE
