SPECIFICATION FairSpec
CONSTANTS
  None = None
  Clients = {c1, c2}
  Chatty = {c1}
  Questions <- MCQuestions
  Cap = 2
  MaxRuns = 2
  MaxChunks = 2
INVARIANTS
  LoadedStaysLoaded
  BatchIsolated
  StreamIsWhole
PROPERTY
  Responds
