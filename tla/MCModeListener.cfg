SPECIFICATION FairSpec
CONSTANTS
  MaxPresses = 4
  MaxRepeats = 1
  MaxTests = 1
  MaxQueue = 2
  MaxFaults = 1
CHECK_DEADLOCK FALSE
INVARIANTS TypeOK SinglesAreTaps ChordsActOnce
PROPERTIES GestureHeals
