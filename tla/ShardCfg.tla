------------------------------ MODULE ShardCfg ------------------------------
(***************************************************************************)
(* The assignment of shards to groups kept by a ShardConfig of             *)
(* shardkv1/shardcfg/shardcfg.go, under JoinBalance() and LeaveBalance().  *)
(*                                                                         *)
(* Rebalance() runs one iteration of its loops at a time.  A group's list  *)
(* of servers is left out: callers name servers after their group, so that *)
(* no server is in two groups (Join() would end the program).              *)
(***************************************************************************)
EXTENDS Naturals, Sequences, FiniteSets

CONSTANTS
  NShards,        \* the number of shards
  Gids,           \* the groups that may join
  MaxNum,         \* bound on Num
  MaxArgs         \* bound on the groups given to one call

\* analyze() starts its minimum at 257, which no count may reach.
ASSUME ShardCfgAssumption ==
  /\ NShards \in 1 .. 256
  /\ Gids \subseteq Nat \ {0} /\ IsFiniteSet(Gids)
  /\ MaxNum \in Nat /\ MaxArgs \in Nat

VARIABLES
  Num, Shards, Groups,
  pc,             \* which loop of Rebalance() is running
  next,           \* the next shard for the first of them
  op              \* history: the call in progress, or the last one

shardVars == <<Num, Shards, Groups, pc, next, op>>

Tshid == 0 .. NShards - 1
Unassigned == 0
Assignment == [Tshid -> Gids \cup {Unassigned}]

\* sound: the configuration that the call was made on came from a call that
\* succeeded; from: what it was.
Op == [call : {"make", "join", "leave"}, gids : SUBSET Gids, ok : BOOLEAN,
       sound : BOOLEAN, from : Assignment]

ShardTypeOK ==
  /\ Num \in Nat
  /\ Shards \in Assignment
  /\ Groups \subseteq Gids
  /\ pc \in {"idle", "assign", "move"}
  /\ next \in Tshid
  /\ op \in Op

\* MakeShardConfig()
ShardInit ==
  /\ Num = 0
  /\ Shards = [s \in Tshid |-> Unassigned]
  /\ Groups = {}
  /\ pc = "idle" /\ next = 0
  /\ op = [call |-> "make", gids |-> {}, ok |-> TRUE, sound |-> TRUE,
           from |-> [s \in Tshid |-> Unassigned]]

-----------------------------------------------------------------------------
Owned(g) == {s \in Tshid : Shards[s] = g}
counts(g) == Cardinality(Owned(g))

\* Mutant of Most: a later group with as many shards is taken instead.
MostLater(g) ==
  /\ g \in Groups
  /\ \A h \in Groups : counts(h) <= counts(g) /\ (counts(h) = counts(g) => h <= g)

\* The two groups that analyze() finds: groups are looked at in ascending
\* order, and a later one has to be strictly better.
Most(g) ==
  /\ g \in Groups
  /\ \A h \in Groups : counts(h) <= counts(g) /\ (counts(h) = counts(g) => g <= h)

least(g) ==
  /\ g \in Groups
  /\ \A h \in Groups : counts(g) <= counts(h) /\ (counts(h) = counts(g) => g <= h)

-----------------------------------------------------------------------------
(* Join() and Leave(), and what they leave to Rebalance().                 *)

Begin(name, gids, ok) ==
  op' = [call |-> name, gids |-> gids, ok |-> ok, sound |-> op.ok,
         from |-> Shards]

Changed(name, gids) ==
  /\ Num < MaxNum
  /\ Num' = Num + 1
  /\ pc' = "assign" /\ next' = 0
  /\ Begin(name, gids, TRUE)
  /\ UNCHANGED Shards

Refused(name, gids) ==
  /\ Begin(name, gids, FALSE)
  /\ UNCHANGED <<Num, Shards, pc, next>>

JoinBalance(servers) ==
  /\ pc = "idle" /\ servers # {} /\ servers \cap Groups = {}
  /\ Groups' = Groups \cup servers
  /\ Changed("join", servers)

\* A group has joined already.  The map is iterated in no particular order:
\* some of the new groups may have been added before that was found.
ReJoin(servers) ==
  /\ pc = "idle" /\ servers \cap Groups # {}
  /\ \E added \in SUBSET (servers \ Groups) : Groups' = Groups \cup added
  /\ Refused("join", servers)

\* The groups that the first k iterations of Leave() delete.
Deleted(gids, k) == {gids[i] : i \in 1 .. k}
CanDelete(gids, k) ==
  \A i \in 1 .. k : gids[i] \in Groups \ Deleted(gids, i - 1)

LeaveBalance(gids) ==
  /\ pc = "idle" /\ gids # <<>>
  /\ CanDelete(gids, Len(gids))
  /\ Groups' = Groups \ Deleted(gids, Len(gids))
  /\ Changed("leave", Deleted(gids, Len(gids)))

\* The k-th group is not in the configuration, or not any more.
LeaveAbsent(gids) ==
  /\ pc = "idle"
  /\ \E k \in 1 .. Len(gids) :
       /\ CanDelete(gids, k - 1)
       /\ gids[k] \notin Groups \ Deleted(gids, k - 1)
       /\ Groups' = Groups \ Deleted(gids, k - 1)
  /\ Refused("leave", Deleted(gids, Len(gids)))

-----------------------------------------------------------------------------
(* Rebalance().                                                            *)

\* Mutant of UnassignAll: the shards of the last group stay with it.
UnassignNone ==
  /\ pc = "assign" /\ Groups = {}
  /\ pc' = "idle"
  /\ UNCHANGED <<Num, Shards, Groups, next, op>>

UnassignAll ==
  /\ pc = "assign" /\ Groups = {}
  /\ Shards' = [s \in Tshid |-> Unassigned]
  /\ pc' = "idle"
  /\ UNCHANGED <<Num, Groups, next, op>>

\* Mutant of Advance: the loop runs past the last shard.
AdvancePast ==
  IF next = NShards
  THEN pc' = "move" /\ next' = 0
  ELSE pc' = pc /\ next' = next + 1

Advance ==
  IF next + 1 = NShards
  THEN pc' = "move" /\ next' = 0
  ELSE pc' = pc /\ next' = next + 1

\* Mutant of Assign: shards go to the most loaded group.
AssignMost ==
  /\ pc = "assign" /\ Groups # {}
  /\ IF Shards[next] \in Groups
     THEN UNCHANGED Shards
     ELSE \E lg \in Groups : Most(lg) /\ Shards' = [Shards EXCEPT ![next] = lg]
  /\ Advance
  /\ UNCHANGED <<Num, Groups, op>>

\* Shards without a group, or whose group has left, go to the least loaded.
Assign ==
  /\ pc = "assign" /\ Groups # {}
  /\ IF Shards[next] \in Groups
     THEN UNCHANGED Shards
     ELSE \E lg \in Groups : least(lg) /\ Shards' = [Shards EXCEPT ![next] = lg]
  /\ Advance
  /\ UNCHANGED <<Num, Groups, op>>

First(g, s) == s \in Owned(g) /\ \A r \in Owned(g) : s <= r

\* Mutant of Move: it goes on while the most loaded has any shard more.
MoveEager ==
  /\ pc = "move"
  /\ \E mg, lg \in Groups :
       /\ Most(mg) /\ least(lg) /\ counts(mg) >= counts(lg) + 1
       /\ \E s \in Tshid : First(mg, s) /\ Shards' = [Shards EXCEPT ![s] = lg]
  /\ UNCHANGED <<Num, Groups, pc, next, op>>

\* From the most to the least heavily loaded group.
Move ==
  /\ pc = "move"
  /\ \E mg, lg \in Groups :
       /\ Most(mg) /\ least(lg) /\ counts(mg) >= counts(lg) + 2
       /\ \E s \in Tshid : First(mg, s) /\ Shards' = [Shards EXCEPT ![s] = lg]
  /\ UNCHANGED <<Num, Groups, pc, next, op>>

\* Mutant of Balanced: the loop ends one too early.
BalancedLoose ==
  /\ pc = "move"
  /\ \E mg, lg \in Groups : Most(mg) /\ least(lg) /\ counts(mg) < counts(lg) + 3
  /\ pc' = "idle"
  /\ UNCHANGED <<Num, Shards, Groups, next, op>>

Balanced ==
  /\ pc = "move"
  /\ \E mg, lg \in Groups : Most(mg) /\ least(lg) /\ counts(mg) < counts(lg) + 2
  /\ pc' = "idle"
  /\ UNCHANGED <<Num, Shards, Groups, next, op>>

Rebalance == UnassignAll \/ Assign \/ Move \/ Balanced

Arguments == UNION {[1 .. n -> Gids] : n \in 1 .. MaxArgs}

ShardNext ==
  \/ \E servers \in SUBSET Gids : JoinBalance(servers) \/ ReJoin(servers)
  \/ \E gids \in Arguments : LeaveBalance(gids) \/ LeaveAbsent(gids)
  \/ Rebalance

ShardSpec == ShardInit /\ [][ShardNext]_shardVars

\* Rebalance() is a loop that its caller waits for.
FairShardSpec == ShardSpec /\ WF_shardVars(Rebalance)

-----------------------------------------------------------------------------
(* Properties.                                                             *)

\* What CheckConfig() demands, apart from the groups it is told to expect.
Checked ==
  /\ Groups # {} => \A s \in Tshid : Shards[s] \in Groups
  /\ \A g, h \in Groups : counts(g) <= counts(h) + 1

\* A JoinBalance() or LeaveBalance() that succeeds leaves a configuration
\* that CheckConfig() accepts, and one without groups assigns no shard; also
\* on a configuration that an earlier, refused call changed in part.
ConfigChecked ==
  pc = "idle" /\ op.ok =>
    Checked /\ (Groups = {} => \A s \in Tshid : Shards[s] = Unassigned)

\* No shard is moved between two groups that stay: when groups join, a shard
\* that moves goes to one of them; when groups leave, a shard that moves
\* comes from one of them.
MovesOnlyWhatMust ==
  pc = "idle" /\ op.ok /\ op.sound =>
    \A s \in Tshid : Shards[s] # op.from[s] =>
      IF op.call = "join" THEN Shards[s] \in op.gids ELSE op.from[s] \in op.gids

\* The groups that neither join nor leave in the running call.
Kept == IF op.call = "join" THEN Groups \ op.gids ELSE Groups

\* What a shard that has moved may have done so far in the running call.
MovedRight ==
  \A s \in Tshid : Shards[s] # op.from[s] =>
    IF op.call = "join" THEN Shards[s] \in op.gids ELSE op.from[s] \in op.gids

\* In a call on a sound configuration the groups that stay are balanced among
\* themselves all along, and none that joins gets ahead of them.
CallSound ==
  /\ \A g, h \in Kept : counts(g) <= counts(h) + 1
  /\ MovedRight
  /\ op.call = "join" =>
       /\ op.gids # {} /\ op.gids \subseteq Groups
       /\ Kept # {} => \A s \in Tshid : Shards[s] \in Groups
       /\ \A n \in op.gids, g \in Kept : counts(n) <= counts(g) + 1
  /\ op.call = "leave" => \A s \in Tshid : Shards[s] \in Groups \cup op.gids

\* The inductive strengthening of the properties of a finished call: what
\* holds in between, loop by loop.
ShardInv ==
  /\ ShardTypeOK
  /\ pc # "idle" => op.ok /\ op.call \in {"join", "leave"}
  /\ pc = "assign" /\ Groups # {} =>
       \A s \in Tshid : s < next => Shards[s] \in Groups
  /\ pc = "move" => Groups # {} /\ \A s \in Tshid : Shards[s] \in Groups
  /\ pc # "idle" /\ op.sound => CallSound
  /\ ConfigChecked
  /\ MovesOnlyWhatMust

\* The tests' join and leave look at IsMember() to learn whether a change of
\* the configuration went through: a group that joined owns a shard, as long
\* as there are no more groups than shards, and one that left owns none.
MembersOwn ==
  pc = "idle" /\ op.ok =>
    /\ Cardinality(Groups) <= NShards =>
         \A g \in Groups : Owned(g) # {}
    /\ \A g \in Gids \ Groups : Owned(g) = {}

\* Rebalance() ends: the loop that moves shards reaches its break.
RebalanceEnds == pc # "idle" ~> pc = "idle"
=============================================================================
