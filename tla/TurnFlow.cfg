CONSTANTS
  Input = {x, y}
  x = x
  y = y
  MaxTurns = 3
  StopHook = TRUE
  Goals = TRUE
SPECIFICATION Spec
INVARIANTS TurnsOK InputsOnce
PROPERTIES NothingForgotten NoStepAfterCancel WaitsEnd
CHECK_DEADLOCK FALSE
