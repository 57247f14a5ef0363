SPECIFICATION Spec
CONSTANTS
  MaxObjects = 4
  MaxPending = 2
CHECK_DEADLOCK FALSE
INVARIANTS
  CurrentListens
  OnlyTheStateListens
  RunningIsHealthy
PROPERTY PromisesHold
