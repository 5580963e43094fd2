SPECIFICATION Spec
CONSTANTS
  Chats = {c1, c2}
  MaxLog = 2
  MaxIds = 3
  MaxFails = 2
  MaxAsked = 1
  Beyond = FALSE
SYMMETRY Symmetry
INVARIANTS DebtKept TicketsOwned
CHECK_DEADLOCK FALSE
