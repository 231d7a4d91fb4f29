--------------------------- MODULE MCRaftChecker ---------------------------
(* RaftChecker on small instances of the Raft tests.                       *)
EXTENDS RaftChecker

ATest(snapshot, faulty, prompt, early, last) ==
  [snapshot |-> snapshot, faulty |-> faulty, prompt |-> prompt, early |-> early,
   last |-> last]

RaftTests == {
  ATest(TRUE, FALSE, TRUE, FALSE, 3), ATest(FALSE, FALSE, TRUE, FALSE, 3),
  ATest(TRUE, TRUE, FALSE, FALSE, 2), ATest(FALSE, TRUE, FALSE, TRUE, 2)}
=============================================================================
