SPECIFICATION FairSpec
CONSTANTS
  Jobs <- ThreeJobs
  Priority <- ThreePriorities
  Weight <- ThreeWeights
  Concurrency = 2
  HasDelay = TRUE
  AutoStart = FALSE
  ClientOps = {"start", "stop", "clear", "waitUntilEmpty"}
  Cancellable = {1}
  HighWater = 2
  StrategyChoice = {"overflow-priority", "block"}
  BucketSize = 2
  TokensPerInterval = 1
CHECK_DEADLOCK FALSE
INVARIANTS
  CounterIsRunning
  ConcurrencyBound
  NoLostWakeup
PROPERTIES
  ResolvesDrained
  Implements
  EveryJobStarts
  WaiterResolves
