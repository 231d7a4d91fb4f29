SPECIFICATION Spec
CONSTANTS
  Servers = {s1, s2}
  Delta = 1
  Gaps = {1}
  MaxTime = 6
CHECK_DEADLOCK FALSE
INVARIANTS AnnotationInv FaultShown
PROPERTY FaultKept
