SPECIFICATION Spec
CONSTANTS
  MaxLines = 2
  MaxFrames = 2
INVARIANTS
  NoSendPanic
CHECK_DEADLOCK FALSE
