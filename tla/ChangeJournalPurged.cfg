SPECIFICATION Spec
CONSTANTS
  Contents = {"a", "b"}
  Cap = 2
  PageSize = 1
  CleansPurged = TRUE
  MaxSeq = 5
INVARIANTS DrainedMirrorsStore
