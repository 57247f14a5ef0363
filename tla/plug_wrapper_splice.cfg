SPECIFICATION Spec
CHECK_DEADLOCK FALSE
CONSTANTS
  Jobs = {1, 2}
  MaxUnknownJobs = 1
  MaxChecks = 2
  MaxUncleaned = 2
INVARIANT UncleanedIsRegistered
