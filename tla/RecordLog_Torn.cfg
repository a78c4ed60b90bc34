CONSTANTS
  N = 3
  MaxCrashes = 2
  MaxFaults = 0
SPECIFICATION Spec
INVARIANT AlwaysReadable
CHECK_DEADLOCK FALSE
