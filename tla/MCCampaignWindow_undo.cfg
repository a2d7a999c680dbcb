SPECIFICATION Spec
CONSTANTS
  Profiles <- MCSteadyProfiles
  Scenarios <- MCCrash
  MaxAttempts = 1
INVARIANTS
  WatchdogUndoes
CHECK_DEADLOCK FALSE
