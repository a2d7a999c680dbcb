SPECIFICATION AdvisorSpec
CONSTANTS
  None = None
  StaleAfter = 60
  BusyThreshold = 80
  RowIds = {1, 2, 3}
  Observations <- MCObservations
INVARIANTS
  QueuesOnlyIfAllDo
  ReasonsAreTrue
PROPERTY
  AdviceIsStable
