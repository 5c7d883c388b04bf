CONSTANTS
  LogQ = 3
  NSet = {1, 2}
  LogBeta = 2
  MaxM = 5
  MinBlockSize = 2
  Scale = 4
  Costs = {1}
  Infinity = Infinity
  NotEvaluated = NotEvaluated
  Convex = TRUE
SPECIFICATION Spec
INVARIANTS
  TypeOK
  ScanSkipsOnlyInfeasible
  BisectBracket
  BoundaryWithinOne
  NoSilentInfinity
PROPERTIES
  Termination
CHECK_DEADLOCK FALSE
