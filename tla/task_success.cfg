SPECIFICATION Spec
CONSTANTS
  Calls = {1, 2, 3}
  Attempts = 2
  HasTimeout = FALSE
  CanAbort = FALSE
  Children = 2
  MaxCancels = 0
  KindChoice = {"single"}
  StrategyChoice = {"failAfterSuccess"}
CHECK_DEADLOCK FALSE
PROPERTY FailsAfterSuccess
