CONSTANTS
  LogQ = 2
  LogBeta = 1
  Ns <- MCNs
  M0s <- MCM0s
  Infinity = Infinity
  NotReturned = NotReturned
SPECIFICATION Spec
INVARIANTS TypeOK LevelAffordable ReducedStillDense
CHECK_DEADLOCK FALSE
