CONSTANTS
  Window = 3
  Poll = 1
  JoinTimeout = 1
  WaitTimeout = 2
  MaxLines = 3
  ExitCodes = {Success, Failure}
  Killed = Killed
  Interrupted = Interrupted
  None = None
SPECIFICATION Spec
INVARIANT ReaderFinishedBeforeReturn
CHECK_DEADLOCK FALSE
