SPECIFICATION Spec
CONSTANTS
  Timeouts = {60, 120}
  Choices = {"powersave", "balanced"}
  MaxLids = 2
  MaxActs = 2
  MaxSleeps = 0
  MaxFaults = 1
  MaxCrashes = 1
  MaxBoots = 2
CHECK_DEADLOCK FALSE
INVARIANTS TypeOK  DeadlineIsCurrent
