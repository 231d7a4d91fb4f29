CONSTANTS
  NoName = NoName
  Ends = {ec, ep}
  PeerEnds = {ep}
  Names = {n1}
  Srv = n1
  MaxServers = 3
  ReliableModes = {}
  ReorderModes = {TRUE}
  Calls = {c1}
  Stuck = {}
SPECIFICATION CrashSpec
INVARIANTS CrashInv AckedDurable SavedConsistent
PROPERTY SavedFrozenWhileDown
