SPECIFICATION Spec
CONSTANTS
  Workers = {w1, w2, w3}
  MaxRuns = 1
CHECK_DEADLOCK FALSE
INVARIANTS ParallelNoticed CountedRan
