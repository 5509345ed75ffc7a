SPECIFICATION Spec
CONSTANTS
  Sessions = {s1, s2}
  NoOne = NoOne
  MaxSignals = 1
  MaxKills = 2
  MaxFaults = 1
  MaxChoices = 1
SYMMETRY Symmetry
INVARIANTS
  TypeOK
  JournaledLeaseSurvives
  GameIsJournaled
  PowerIsJournaled
  RecordIsValid
PROPERTIES
  GameKeepsItsSettings
  PhasesAreAllowed
CHECK_DEADLOCK FALSE
