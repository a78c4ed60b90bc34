CONSTANTS
  Task = {1}
  MaxCrashes = 3
  MaxFaults = 2
SPECIFICATION Spec
INVARIANTS HeardOnce NothingUntold
PROPERTIES VerdictKept StopEnds
CHECK_DEADLOCK FALSE
