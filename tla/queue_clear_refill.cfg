SPECIFICATION FairClient
CONSTANTS
  Jobs <- MCJobs
  Priority <- MCPriority
  Weight <- MCWeight
  HighWater = 3
  StrategyChoice = {"overflow"}
  BucketSize = 2
  TokensPerInterval = 1
  MayClear = TRUE
CHECK_DEADLOCK FALSE
PROPERTY BucketIsRefilled
