CONSTANTS
  Cells <- MCCells
  LogClasses <- MCLogClasses
  Short = 200
SPECIFICATION Spec
INVARIANTS
  DocumentedNegativeStands
CHECK_DEADLOCK FALSE
