SPECIFICATION FairSpec
CONSTANTS
  MaxTurns = 2
  MaxMessages = 2
  MaxText = 2
  MaxTools = 2
  CutsToolUse = FALSE
INVARIANT TypeOK
INVARIANT NoRepeatedText
INVARIANT EventProtocol
INVARIANT RequestsAccepted
INVARIANT ModelCallsBounded
PROPERTY LastEventTells
PROPERTY EndsByDeadline
CHECK_DEADLOCK FALSE
