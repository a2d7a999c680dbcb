SPECIFICATION Spec
CONSTANTS
  None = None
  NoAnswer = NoAnswer
  NotLoaded = NotLoaded
  Servers <- MCServers
  Speeds = {1}
  MaxTokens = 2
  MaxOther = 1
  MaxLives = 2
  MaxSetbacks = 1
  RateDecay = 1
  StallAfter = 2
  MaxCycle = 1
INVARIANTS
  PromptsByTheirTime
