CONSTANTS
  Window = 3
  Poll = 1
  JoinTimeout = 1
  WaitTimeout = 2
  MaxLines = 3
  ExitCodes = {Success, Failure}
  Killed = Killed
  Interrupted = Interrupted
  None = None
SPECIFICATION Spec
INVARIANTS TypeOK ChildStoppedOnReturn
PROPERTIES ReturnsAfterExit StallDiagnosed
CHECK_DEADLOCK FALSE
