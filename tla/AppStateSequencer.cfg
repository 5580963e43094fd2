SPECIFICATION FairSpec
CONSTANTS
  MaxTickets = 3
  Kinds = {"live", "fetch", "local", "release"}
INVARIANTS SeesLiveEvents
PROPERTIES EveryWaitEnds CloseEnds WritesSafety
CHECK_DEADLOCK FALSE
