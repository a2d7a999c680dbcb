SPECIFICATION Spec
CONSTANTS
  Campaigns <- MCCampaigns
INVARIANTS
  CompleteCellsSkipped
CHECK_DEADLOCK FALSE
