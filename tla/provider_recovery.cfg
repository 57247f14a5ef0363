SPECIFICATION Spec
CONSTANTS
  MaxObjects = 4
  MaxPending = 1
CHECK_DEADLOCK FALSE
INVARIANT HealthyIsHeard
