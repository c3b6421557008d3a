SPECIFICATION Spec
CONSTANTS
  N = 2
  Columns <- MCColumns
  Outputs <- MCOutputs
  HistoryLen = 2
  TrendLen = 2
  MaxIter = 2
  RateLen = 1
  LogLen = 2
  Grain = 240000
  Parts <- MCParts
INVARIANTS
  ControlInv
  DownGetNothing
  ProjectionIsNearest
  OverloadedLoseWeight
  RatesMatchLog
