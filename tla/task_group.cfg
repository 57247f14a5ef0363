SPECIFICATION Spec
CONSTANTS
  Calls = {1, 2, 3}
  Attempts = 2
  HasTimeout = FALSE
  CanAbort = FALSE
  Children = 2
  MaxCancels = 0
  KindChoice = {"group"}
  StrategyChoice = {"retry"}
CHECK_DEADLOCK FALSE
INVARIANT GroupOutcome
