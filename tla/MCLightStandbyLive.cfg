SPECIFICATION FairSpec
CONSTANTS
  Timeouts = {}
  Choices = {"balanced"}
  MaxLids = 2
  MaxActs = 0
  MaxSleeps = 1
  MaxFaults = 1
  MaxCrashes = 1
  MaxBoots = 1
CHECK_DEADLOCK FALSE
PROPERTIES LidIsFollowed SleepGoesAhead DelayIsTaken
