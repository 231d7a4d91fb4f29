SPECIFICATION Spec
CONSTANTS
  Srv = {s1, s2}
  Tests <- RaftTests
  MaxGen = 2
  MaxIndex = 3
  SnapShotInterval = 2
CHECK_DEADLOCK FALSE
INVARIANTS CheckerInv NoFalseAlarm NoSilentDivergence
