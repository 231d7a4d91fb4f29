CONSTANTS
  N = 3
  MaxGen = 2
SPECIFICATION GroupSpec
INVARIANTS
  ShutdownIsolates
