CONSTANTS
  N = 4
  Buffer = 2
  MaxCrashes = 2
  MaxFaults = 1
  MaxConnects = 2
SPECIFICATION Spec
INVARIANTS JournalOK NoGap
PROPERTY SyncEnds
CHECK_DEADLOCK FALSE
