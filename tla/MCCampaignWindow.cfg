SPECIFICATION FairSpec
CONSTANTS
  Profiles <- MCProfiles
  Scenarios <- MCScenarios
  MaxAttempts = 2
INVARIANTS
  TypeOK
  NeverAbandoned
  TruthfulVerdict
  NothingLeftBehind
  MeasuredAlone
PROPERTIES
  OutageEnds
CHECK_DEADLOCK FALSE
