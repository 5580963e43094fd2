SPECIFICATION Spec
CONSTANTS
  Requests = {r1, r2}
  Kinds = {"send", "backfill", "direct"}
  Budgets = {2, 4}
  Margin = 2
  Share = 2
  Lag = 1
  MinGap = 2
  MaxGap = 2
  Grace = 6
  MaxTime = 5
SYMMETRY Symmetry
CHECK_DEADLOCK FALSE
INVARIANTS RequestsAreKnown
PROPERTIES StartsAreDue
