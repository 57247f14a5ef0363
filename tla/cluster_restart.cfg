SPECIFICATION Spec
CONSTANTS
  Workers = {w1}
  Leaving = {}
  Kinds = {"health"}
  MaxClears = 0
  MaxInFlight = 2
  MaxRounds = 2
INVARIANTS
  OnePolling
