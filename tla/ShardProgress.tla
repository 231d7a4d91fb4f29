--------------------------- MODULE ShardProgress ---------------------------
(***************************************************************************)
(* How TestProgressJoin5A (shardkv1/shardkv_test.go) changes the           *)
(* configuration: groups join one after the other, and then one more group *)
(* joins and leaves again and again.  The test computes beforehand, on     *)
(* copies of the configuration, which shards do not move in the first join *)
(* and leave, and reads keys of those shards while the group comes and     *)
(* goes.                                                                   *)
(***************************************************************************)
EXTENDS ShardCfg

CONSTANTS
  Joiners,        \* the groups that join first, in this order
  NewGid          \* the group that comes and goes

ASSUME ProgressAssumption ==
  Joiners \in Seq(Gids) /\ NewGid \in Gids \ {Joiners[i] : i \in DOMAIN Joiners}

VARIABLE stable    \* the shards that the test takes to stay where they are

progressVars == <<shardVars, stable>>

ProgressInit == ShardInit /\ stable = {}

\* setupKVService() and joinGroups(): Num tells how many have joined.
JoinGroups ==
  /\ Num < Len(Joiners)
  /\ JoinBalance({Joiners[Num + 1]})
  /\ UNCHANGED stable

Coming == Num >= Len(Joiners) /\ NewGid \notin Groups /\ pc = "idle"
FirstCycleOver == Num = Len(Joiners) + 2 /\ pc = "idle" /\ stable = {}

\* newcfg1 is the configuration after the first join and leave, and its
\* op.from is newcfg: what did not move between the two is stable.
ComputeStable ==
  /\ FirstCycleOver
  /\ stable' = {s \in Tshid : Shards[s] = op.from[s]}
  /\ UNCHANGED shardVars

JoinLeave ==
  /\ ~FirstCycleOver
  /\ \/ Coming /\ JoinBalance({NewGid})
     \/ NewGid \in Groups /\ LeaveBalance(<<NewGid>>)
  /\ UNCHANGED stable

ProgressNext ==
  \/ JoinGroups \/ ComputeStable \/ JoinLeave
  \/ Rebalance /\ UNCHANGED stable

ProgressSpec == ProgressInit /\ [][ProgressNext]_progressVars

\* "compute which shards don't move and which groups are involved in moving
\* shards": a shard that is taken to be stable does not move in any later
\* join or leave of the group, so that reading its keys cannot block.
StableStay == [][\A s \in stable : Shards'[s] = Shards[s]]_progressVars
=============================================================================
