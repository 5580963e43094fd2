SPECIFICATION SyncSpec
CONSTANTS
  Modes = {"once", "follow", "stale"}
  MaxCalls = 1
  Events <- MCEvents
  Kind <- MCKind
  NoID = {"call"}
  Refused = {"t1"}
  Selections <- MCSelections
  Cap = 1
  Chats <- MCChats
  Names <- MCNames
  Filed <- MCFiled
  Depth = 2
  Requests = 2
  MaxRuns = 2
  MaxReplies = 2
INVARIANTS NeverAsleepDisconnected StoredAreAccounted RepliesAreKept
PROPERTIES ReconnectsAreDue LogoutEnds SyncGoesOn
CHECK_DEADLOCK FALSE
