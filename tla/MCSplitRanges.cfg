CONSTANTS
  Batch = 5
  Ints <- MCInts
  MaxRows = 3
SPECIFICATION Spec
INVARIANT TypeOK
PROPERTY SplitContract
CHECK_DEADLOCK FALSE
