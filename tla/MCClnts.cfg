CHECK_DEADLOCK FALSE
SPECIFICATION FairSpec
CONSTANTS
  Clients = {c1}
  Servers = {s1, s2}
  Nil = Nil
INVARIANTS ClntsInv NoFatalDelete
PROPERTIES  DeletedPassesNone CleanupReturns
