SPECIFICATION Spec
CONSTANTS
  Profiles <- MCSteadyProfiles
  Scenarios <- MCStopSignal
  MaxAttempts = 1
INVARIANTS
  NotApplicableMeansUp
CHECK_DEADLOCK FALSE
