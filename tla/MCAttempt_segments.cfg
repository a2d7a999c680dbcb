CONSTANTS
  Cells <- MCCells
  LogClasses <- MCLogClasses
  Short = 200
SPECIFICATION Spec
INVARIANTS
  PassRanEverySegment
CHECK_DEADLOCK FALSE
