SPECIFICATION FairSpec
CONSTANTS
  Paths <- MCPaths
  Plan <- MCPlan
  Restarts = 1
  MaxLen = 1
  Quota = 1
  MaxCalls = 2
  MaxTroubles = 1
INVARIANTS
  NamesLeadBack
  QuotaBound
  RowsAccountForTree
  RestartIsTold
  ToolsInv
PROPERTY SessionIsOver
CHECK_DEADLOCK FALSE
