SPECIFICATION Spec
CONSTANTS
  Profiles <- MCSteadyProfiles
  Scenarios <- MCStart
  MaxAttempts = 1
INVARIANTS
  RestoreFailurePagesUrgent
CHECK_DEADLOCK FALSE
