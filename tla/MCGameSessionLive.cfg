SPECIFICATION FairSpec
CONSTANTS
  Sessions = {s1, s2}
  NoOne = NoOne
  MaxSignals = 2
  MaxKills = 0
  MaxFaults = 1
  MaxChoices = 0
PROPERTIES
  StopIsHonoured
CHECK_DEADLOCK FALSE
