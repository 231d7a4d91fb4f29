CONSTANTS
  NoName = NoName
  Ends = {e1}
  Names = {n1}
  MaxServers = 1
  ReliableModes = {FALSE}
  ReorderModes = {TRUE}
  Calls = {c1, c2}
  Stuck = {c2}
SPECIFICATION FairSpec
INVARIANTS IInv AckedBeforeDeleted CountsAgree
PROPERTIES RefinesRpc CallReturns HandlerGoroutineEnds KilledCallFails
