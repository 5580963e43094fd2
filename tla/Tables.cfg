SPECIFICATION StoreSpec
CONSTANTS
  Parts = {"journal", "polls", "open"}
  Originals = {"", "original"}
  Edits <- MCEdits
  FromMe = TRUE
  EditTexts = {"mine"}
  OriginalTime = 1
  MaxTime = 2
  Copied = {"original"}
  m1 = m1
  m2 = m2
  M <- MCM
  Ts <- MCTs
  ReceiptCap = 1
  Reported = {0, 1}
  MaxCount = 2
  Bodies = {"a", "b"}
  JournalCap = 2
  PageSize = 1
  MaxSeq = 4
  Events = {"live"}
  Offered = {"a"}
  Option = "b"
  Ballots <- MCBallots
  Purgeable = {"v2"}
  MaxPurges = 1
  p1 = p1
  p2 = p2
  Script <- MCScript
  Processes <- MCProcesses
  Casts <- MCCasts
INVARIANTS OpensComplete TallyIsRight DrainedMirrorsStore
PROPERTIES UpgradeKeepsDebts ExportIsOneState
