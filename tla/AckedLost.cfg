\* A Write and a Close overlap.
CONSTANTS
  c1 = c1
  c2 = c2
  Callers = {c1, c2}
  Deadline = {}
  BufferSize = 2
  OverflowPolicy = "drop_newest"
  MaxCalls = 1
SPECIFICATION QueueSpec
INVARIANT AckedServed
CHECK_DEADLOCK FALSE
