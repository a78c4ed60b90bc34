CONSTANTS
  Input = {x, y}
  x = x
  y = y
  Service = {y}
  Controls = {x}
  NoPrompt = NoPrompt
  MaxTurns = 2
  StopHook = FALSE
  Goals = TRUE
  Interrupts = TRUE
  Failures = TRUE
SPECIFICATION ServiceSpec
INVARIANTS PromptsOK OnceEachWay
PROPERTIES QueueServed
CHECK_DEADLOCK FALSE
