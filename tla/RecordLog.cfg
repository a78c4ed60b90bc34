CONSTANTS
  N = 4
  MaxCrashes = 2
  MaxFaults = 1
SPECIFICATION Spec
INVARIANTS LogOK NothingLost
PROPERTY FlushEnds
CHECK_DEADLOCK FALSE
