\* Thirteen configurations, two environments, files that cannot be opened, and a
\* program that registers two factories at any time.
CONSTANTS
  Documents <- MCDocuments
  Depth = 3
  Environments <- MCEnvironments
  Spelling <- MCSpelling
  Names = {"custom", "Custom ", "async", "FILE", ""}
  Factories = {"theirs", "failing", "nil"}
  Levels = {0, 1, 2, 3, 4}
  MaxRegistered = 2
SPECIFICATION Spec
INVARIANTS TypeOK EnvExpandedOnce RoutesByPath CloseReleasesAll
PROPERTIES BuildOutcome
CHECK_DEADLOCK FALSE
