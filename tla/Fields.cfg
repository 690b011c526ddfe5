\* Two goroutines; up to four loggers, or two loggers and two events.
CONSTANTS
  g1 = g1
  g2 = g2
  Goroutines = {g1, g2}
  Args <- MCArgs
  Boxes <- MCBoxes
  Contexts <- MCContexts
  Pipeline <- Chain
  Children <- Outputs
  Prefixed <- MCPrefixed
  Rank <- MCRank
  Values <- MCValues
  CaseInsensitive = TRUE
  RedactError = TRUE
  Names = {"n"}
  Errors <- MCErrors
  Spare = {2}
  MaxEvents = 2
  MaxMade = 4
  Keys = {"password", " token ", "error"}
  Trimmed <- MCTrimmed
  Lowered <- MCLowered
  Nesting <- MCNesting
SPECIFICATION Spec
SYMMETRY Symmetry
INVARIANTS TypeOK CallerUntouched RecordsFaithful OnlyOpaqueShared RedactionComplete
PROPERTIES LoggersImmutable
CHECK_DEADLOCK FALSE
