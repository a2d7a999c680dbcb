SPECIFICATION FairSpec
CONSTANTS
  None = None
  Kinds <- MCKinds
  OfflineAfter = 2
  GpuStaleAfter = 2
  MaxCycle = 1
INVARIANTS
  FrozenIsDropped
  GpuOnlyOnlineIsRecent
PROPERTIES
  KeepsLastGood
  Settles
