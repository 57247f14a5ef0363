SPECIFICATION FairSpec
CONSTANTS
  Workers = {w1}
  Leaving = {w1}
  Kinds = {"health"}
  MaxClears = 0
  MaxInFlight = 2
  MaxRounds = 1
PROPERTIES
  GoneIsNotConnected
