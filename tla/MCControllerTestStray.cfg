SPECIFICATION Spec
CONSTANTS
  P1 = P1
  P2 = P2
  NoPage = NoPage
  Pages <- TwoPages
  MaxRequests = 2
  MaxPresses = 0
  MaxCrashes = 0
  MaxFaults = 0
  MaxUpsets = 1
CHECK_DEADLOCK FALSE
INVARIANT OldValueStaysHome
