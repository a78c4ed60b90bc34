CONSTANTS
  Input = {x, y, z}
  x = x
  y = y
  z = z
  Service = {}
  Controls = {}
  NoPrompt = NoPrompt
  MaxTurns = 3
  StopHook = TRUE
  Goals = FALSE
  Interrupts = FALSE
  Failures = TRUE
SPECIFICATION ServiceSpec
INVARIANTS ActiveIsItsTurn ActiveGoesOn
CHECK_DEADLOCK FALSE
