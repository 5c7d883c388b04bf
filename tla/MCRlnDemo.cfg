CONSTANTS
  FundPolls <- MCFundPolls
  MinePolls <- MCMinePolls
  None = None
SPECIFICATION Spec
INVARIANTS TypeOK ReportedSendAccepted
PROPERTIES DemoTerminates
CHECK_DEADLOCK FALSE
