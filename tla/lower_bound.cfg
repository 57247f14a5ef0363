SPECIFICATION FairSearch
CONSTANTS
  Jobs <- MCJobs
  Priority <- MCPriority
  MaxLength = 5
CHECK_DEADLOCK FALSE
INVARIANTS
  FindsInsertionPoint
PROPERTY Terminates
