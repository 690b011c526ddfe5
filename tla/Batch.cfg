\* Batches of two for either kind of next sink; nobody's context ends.
CONSTANTS
  c1 = c1
  c2 = c2
  Callers = {c1, c2}
  Deadline = {}
  BufferSize = 1
  OverflowPolicy = "drop_newest"
  MaxCalls = 2
  MaxBatchSize = 2
SPECIFICATION FairSpec
INVARIANTS TypeOK AnswerIsBarrier StatsAccounted
PROPERTIES DeliversInOrder DeliversAll
CHECK_DEADLOCK FALSE
