SPECIFICATION Spec
CONSTANTS
  MaxTurns = 2
  MaxMessages = 2
  MaxText = 1
  MaxTools = 1
  CutsToolUse = TRUE
INVARIANT RequestsAccepted
CHECK_DEADLOCK FALSE
