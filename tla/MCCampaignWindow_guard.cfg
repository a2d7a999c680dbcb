SPECIFICATION FairSpec
CONSTANTS
  Profiles <- MCSteadyProfiles
  Scenarios <- MCGuardScenarios
  MaxAttempts = 1
PROPERTIES
  GuardKept
CHECK_DEADLOCK FALSE
