SPECIFICATION Spec
CONSTANTS
  None = None
  a = a
  b = b
  Engines = {a, b}
  Mux = TRUE
  Prompts <- MCPrompts
  Bounds = {1, 2}
  MaxDecode = 1
  MaxRequests <- MCRequests
  MaxLives = 2
  WinSamples = 2
  RingSamples = 2
  RingGap = 1
  RingSpan = 1
  MaxCycle = 1
INVARIANTS
  SpeedIsPhysical
  QuantilesHold
  NothingStraddles
  WorkAddsUp
PROPERTY
  TimerIsHonest
SYMMETRY Permuted
CHECK_DEADLOCK FALSE
