SPECIFICATION Spec
CONSTANTS
  Workers = {w1, w2}
  Leaving = {w2}
  Kinds = {"health", "errors"}
  MaxClears = 1
  MaxInFlight = 2
  MaxRounds = 2
INVARIANTS
  TypeOK
