CONSTANTS
  Name = {"A", "a", "b"}
  Fold <- MCFold
  N = 3
  Key = {k1, k2}
  NoKey = NoKey
  Depth = 2
  AccessSets <- MCAll
SPECIFICATION Spec
PROPERTIES AlwaysEnds
CHECK_DEADLOCK FALSE
