SPECIFICATION Spec
CONSTANTS
  Bounds <- SmallBounds
  MaxChecks = 1
CHECK_DEADLOCK FALSE
INVARIANTS VisInv EndedTestDrawn
PROPERTY HistoryKept
