CONSTANTS
  Task = {1}
  MaxCrashes = 2
  MaxFaults = 0
SPECIFICATION Spec
INVARIANT NoDoubleNotify
CHECK_DEADLOCK FALSE
