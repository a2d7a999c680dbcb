CONSTANTS
  Cells <- MCCells
  LogClasses <- MCLogClasses
  Short = 200
SPECIFICATION Spec
INVARIANTS
  PassIsEarned
  ViolationIsFact
  WallIsAnswer
  DeadServerHasNoNumbers
CHECK_DEADLOCK FALSE
