CONSTANTS
  LogQ = 2
  LogBeta = 1
  Tuples <- MCTuples
  M0s <- MCM0s
  Cutoff = 4
SPECIFICATION Spec
INVARIANTS TypeOK PartitionsExact RuntimeCoversRounds
PROPERTIES RuntimeGrows
CHECK_DEADLOCK FALSE
