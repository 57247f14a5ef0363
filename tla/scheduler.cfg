SPECIFICATION FairSpec
CHECK_DEADLOCK FALSE
CONSTANTS
  Tasks = {"a", "b", "c"}
  GroupSeq <- MCGroupSeq
  Entries <- MCEntries
  ResourceOf <- MCResourceOf
  Concurrency <- MCConcurrency
  MainConcurrency = 1
  HighWater <- MCHighWater
  Strategy <- MCStrategy
  MaxStarts = 2
  MaxTimers = 1
  MaxLooks = 1
INVARIANTS
  SlotsAccounted
  PollingGoesOn
  OneLoop
PROPERTIES
  EveryTaskIsPolled
