SPECIFICATION Spec
CONSTANTS
  Sessions = {s1, s2}
  NoOne = NoOne
  MaxSignals = 0
  MaxKills = 0
  MaxFaults = 0
  MaxChoices = 0
INVARIANTS
  ReceiptIsDurable
CHECK_DEADLOCK FALSE
