SPECIFICATION FairSpec
CONSTANTS
  h1 = h1
  h2 = h2
  Helpers <- MCHelpers
  NoOne = NoOne
  MaxRuns = 2
  MaxKills = 1
  MaxFaults = 1
  MaxRestarts = 1
PROPERTIES
  FlockIsReleased
CHECK_DEADLOCK FALSE
