SPECIFICATION Spec
CONSTANTS
  Requests = {r1, r2}
  Kinds = {"send", "appState"}
  Budgets = {1}
  Margin = 0
  Share = 1
  Lag = 0
  MinGap = 0
  MaxGap = 0
  Grace = 1
  MaxTime = 2
CHECK_DEADLOCK FALSE
INVARIANT StopIsQuiet
