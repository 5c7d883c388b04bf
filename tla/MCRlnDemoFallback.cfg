CONSTANTS
  FundPolls <- MCFundPolls
  MinePolls <- MCMinePolls
  None = None
SPECIFICATION Spec
INVARIANT FallbackOnlyAfterRejection
CHECK_DEADLOCK FALSE
