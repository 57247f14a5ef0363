SPECIFICATION FairClient
CONSTANTS
  Jobs <- MCJobs
  Priority <- MCPriority
  Weight <- MCWeight
  HighWater = 2
  StrategyChoice = {"leak", "overflow", "overflow-priority", "block"}
  BucketSize = 2
  TokensPerInterval = 1
  MayClear = TRUE
CHECK_DEADLOCK FALSE
INVARIANTS
  PriorityThenAge
  RateBound
PROPERTIES
  DropsLessImportant
  EveryJobLeaves
