SPECIFICATION RequestsSpec
CONSTANTS
  Procs = {"d1", "d2", "send", "local", "once", "auth", "maintain"}
  Role <- MCRole
  Casts <- MCProcesses
  MaxPins = 1
  MaxKills = 1
  Workers <- MCWorkers
  MaxVer = 2
  MaxEvents = 1
  m1 = m1
  m2 = m2
  Msgs = {m1, m2}
  MediaCasts <- MCMediaCasts
  Batch = 1
  MaxAnswers = 1
  MaxRuns = 2
  MaxDamage = 1
  Waiters = {"w1", "w2"}
  Devices = {1, 2}
  MaxStarts = 3
  MaxDrops = 1
  MaxFaults = 1
  Requests = {"r1", "r2"}
  Target <- MCTarget
  Earlier = {"u3"}
  Calls = {"c1", "c2", "p"}
  PushNames = {"p"}
  MaxWatched = 2
SYMMETRY Symmetry
INVARIANTS GoneIsConfirmed OutputsAreVerified RevokedStays LoginIsHeard DaemonIsAlone CallRunsOnce
PROPERTIES MembershipIsCurrent StaysAway
CHECK_DEADLOCK FALSE
