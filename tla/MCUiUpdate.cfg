SPECIFICATION Spec
CONSTANTS
  t1 = t1
  t2 = t2
  v1 = v1
  v2 = v2
  v3 = v3
  Transactions = {t1, t2}
  Versions = {v1, v2, v3}
  Installed = v1
  Plan <- MCPlan
  New <- MCNew
  MaxFaults = 2
  MaxEdits = 1
SYMMETRY Exchange
CHECK_DEADLOCK FALSE
INVARIANTS TypeOK ReportIsTrue UpdatesCanBeUndone
