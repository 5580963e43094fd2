SPECIFICATION FairSpec
CONSTANTS
  Events = {e1, e2}
  Workers = {w1, w2}
  Buffer = 1
  Media = TRUE
  MaxJobs = 2
CHECK_DEADLOCK FALSE
INVARIANT EndIsQuiet
PROPERTIES FreshIsComplete SyncReturns
