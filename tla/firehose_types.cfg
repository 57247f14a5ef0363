SPECIFICATION Spec
CHECK_DEADLOCK FALSE
CONSTANTS
  Sinks <- MCSinks
  Jets <- MCJets
  Kinds = {"sequence", "flow", "credits"}
  SourceHighWater = 1
  EngineHighWater = 1
  SinkHighWater = 3
  FaultyJobs = {2}
  GivesUp = {"tap"}
  MaxJobs = 4
  MaxFailedStarts = 1
INVARIANTS
  TypeOK
  BuffersAreBounded
