SPECIFICATION Spec
CONSTANTS
  Campaigns <- MCCampaigns
INVARIANTS
  CompletedIsComplete
  RecordsAreVerdicts
  WholeRunNotCollapsed
  GatedCellIsFounded
CHECK_DEADLOCK FALSE
