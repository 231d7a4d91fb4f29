-------------------------- MODULE MCShardProgress --------------------------
EXTENDS ShardProgress

\* Gid1, and the NJOIN = 4 groups that the test makes after it.
TestGroups == <<1, 2, 3, 4, 5>>
=============================================================================
