SPECIFICATION FairSpec
CONSTANTS
  Calls = {1, 2, 3}
  Attempts = 2
  HasTimeout = TRUE
  CanAbort = TRUE
  Children = 2
  MaxCancels = 1
  KindChoice = {"single", "group", "groupAtLeastOne", "sequence"}
  StrategyChoice = {"retry", "failAfterSuccess", "failAfterExecuted", "notExecAfterSuccess"}
CHECK_DEADLOCK FALSE
INVARIANTS
  AttemptsBound
  OneExecution
  EveryEndIsTold
  OutcomeContract
PROPERTY EveryCallSettles
