SPECIFICATION FairSpec
CONSTANTS
  None = None
  m1 = m1
  Models = {m1}
  Aggregate = aggregate
  Configs <- MCConfigs
  OfflineAfter = 2
  MaxCycle = 1
  StaleAfter = 2
  BusyThreshold = 80
  HintsMayLeave = FALSE
INVARIANTS
  ChoiceWasUsable
  OnlineIsRecent
PROPERTY
  Converges
