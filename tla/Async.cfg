\* Two callers with two calls each, one of which may give up; writers wait for
\* room in the channel.
CONSTANTS
  c1 = c1
  c2 = c2
  Callers = {c1, c2}
  Deadline = {c1}
  BufferSize = 2
  OverflowPolicy = "block"
  MaxCalls = 2
SPECIFICATION FairSpec
INVARIANTS TypeOK ClosingOwned ResponseIsBarrier ErrorsReportedOnce AnswerCoversErrors
PROPERTIES ServesInOrder CallsReturn
CHECK_DEADLOCK FALSE
