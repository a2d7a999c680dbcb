SPECIFICATION Spec
CONSTANTS
  Campaigns <- MCCampaigns
INVARIANTS
  OnlyPassedDataFeeds
CHECK_DEADLOCK FALSE
