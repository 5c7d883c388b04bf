CONSTANTS
  LogQ = 3
  LogNorm = 2
  SecretSize = 3
  MaxDegree = 4
  Target = 2
  MarginBkz = 0
  MarginCpw = 1
  Levels = {1, 2, 3}
  Strategy = Heuristic
  Heuristic = Heuristic
  Infinity = Infinity
  Raise = Raise
  NotEvaluated = NotEvaluated
  None = None
SPECIFICATION Spec
INVARIANT RecordReportsAcceptedEstimates
CHECK_DEADLOCK FALSE
