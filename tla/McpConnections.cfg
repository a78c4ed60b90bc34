CONSTANTS
  N = 3
  Agent = {1}
SPECIFICATION Spec
INVARIANTS ServerOK ToolsOK
PROPERTIES SilentAfterShutdown AttemptsEnd
CHECK_DEADLOCK FALSE
