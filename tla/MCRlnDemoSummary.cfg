CONSTANTS
  FundPolls <- MCFundPolls
  MinePolls <- MCMinePolls
  None = None
SPECIFICATION Spec
INVARIANT SummaryOnlyIfMined
CHECK_DEADLOCK FALSE
