SPECIFICATION Spec
CHECK_DEADLOCK FALSE
CONSTANTS
  Consumers = {c1, c2}
  MaxCommands = 2
  MaxStops = 1
INVARIANT FailureEndsTheJob
