CONSTANTS
  Name = {"A", "a", "b"}
  Fold <- MCFold
  N = 3
  Key = {k1, k2, k3}
  NoKey = NoKey
  Depth = 2
  AccessSets <- MCTreeAndWrite
SPECIFICATION Spec
INVARIANTS TypeOK NoConflictingExecutions ConflictOrder NoLostWakeup
  RepeatsAnswered PairedResults ConflictIsSharedFile
PROPERTIES NoStartAfterAbort ImplementsOrder
SYMMETRY MCSymmetry
CHECK_DEADLOCK FALSE
