------------------------------ MODULE MCKvTest ------------------------------
(* KvTest on small instances of the tests of the k/v labs.                 *)
EXTENDS KvTest

ATest(work, reliable, partitions, log, broken, maxIter, maxPuts) ==
  [work |-> work, reliable |-> reliable, partitions |-> partitions, log |-> log,
   broken |-> broken, maxIter |-> maxIter, maxPuts |-> maxPuts]

KvTests == {
  ATest("append", FALSE, FALSE, FALSE, FALSE, 2, 6),
  ATest("put", TRUE, FALSE, FALSE, FALSE, 2, 6),
  ATest("put", FALSE, FALSE, FALSE, FALSE, 2, 2),
  ATest("put", FALSE, TRUE, FALSE, FALSE, 1, 6),
  ATest("put", FALSE, FALSE, TRUE, FALSE, 1, 2),
  ATest("once", FALSE, FALSE, FALSE, FALSE, 2, 3),
  ATest("append", TRUE, FALSE, FALSE, TRUE, 1, 3),
  ATest("put", TRUE, TRUE, FALSE, TRUE, 1, 3),
  ATest("once", TRUE, FALSE, FALSE, TRUE, 2, 3)}
=============================================================================
