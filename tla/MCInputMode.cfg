SPECIFICATION Spec
CONSTANTS
  h1 = h1
  h2 = h2
  Helpers <- MCHelpers
  NoOne = NoOne
  MaxRuns = 4
  MaxKills = 1
  MaxFaults = 1
  MaxRestarts = 1
INVARIANTS
  TypeOK
  OneWriter
  MutationIsAnnounced
  PublishedModeIsReal
  RetiredTokensStayRetired
  HapticsOnlyWhenSettled
  ReceiptBeforeMutation
  ClaimsAreResolved
PROPERTIES
  ImplementsLease
  OldLeaseReplacesNothing
  RecoveryKeepsToken
CHECK_DEADLOCK FALSE
