CONSTANTS
  N = 3
  LaunchLimit = 1
  RampInterval = 1
  RetryBase = 1
  ShrinkInterval = 1
  RecoveryInterval = 1
  MaxConcurrency = 2
  MaxLimits = 2
SPECIFICATION Spec
INVARIANTS BatchOK NoStall NoneUnsupervised
PROPERTIES StepsOK BatchEnds
CHECK_DEADLOCK FALSE
