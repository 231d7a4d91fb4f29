SPECIFICATION FairSpec
CONSTANTS
  NClnt = 2
  Tests <- KvTests
  MaxStray = 1
CHECK_DEADLOCK FALSE
INVARIANTS KvInv LogLinearizable
PROPERTIES PutAtLeastOnceStored TestEnds
