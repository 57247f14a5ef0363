SPECIFICATION FairSpec
CONSTANTS
  Jobs <- FourJobs
  Priority <- FourPriorities
  Weight <- FourWeights
  Concurrency = 2
  HasDelay = FALSE
  AutoStart = TRUE
  ClientOps = {}
  Cancellable = {1, 2, 3, 4}
  HighWater = 4
  StrategyChoice = {"leak"}
  BucketSize = 0
  TokensPerInterval = 1
CHECK_DEADLOCK FALSE
PROPERTY StartsWhenReady
