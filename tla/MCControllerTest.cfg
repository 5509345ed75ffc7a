SPECIFICATION FairSpec
CONSTANTS
  P1 = P1
  P2 = P2
  NoPage = NoPage
  Pages <- TwoPages
  MaxRequests = 3
  MaxPresses = 2
  MaxCrashes = 1
  MaxFaults = 1
  MaxUpsets = 1
CHECK_DEADLOCK FALSE
INVARIANTS TypeOK GateCoversCapture NoStuckOutput ConfigurationHolds GateIsCurrent
PROPERTIES ExpiredIsNotRevived GateReopens
