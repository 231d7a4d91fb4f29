-------------------------- MODULE ShardCfg_proofs --------------------------
(***************************************************************************)
(* Proofs about ShardCfg, for every number of shards and set of groups.    *)
(***************************************************************************)
EXTENDS ShardCfg, FiniteSetTheorems, TLAPS

-----------------------------------------------------------------------------
(* Counting shards.                                                        *)

\* The shards are finitely many, and so counts are natural numbers.
LEMMA CountsNat ==
  /\ IsFiniteSet(Tshid) /\ Cardinality(Tshid) = NShards
  /\ \A g : IsFiniteSet(Owned(g)) /\ counts(g) \in Nat
<1>1. IsFiniteSet(Tshid) /\ Cardinality(Tshid) = NShards
  BY ShardCfgAssumption, FS_Interval DEF Tshid
<1>2. ASSUME NEW g
      PROVE  IsFiniteSet(Owned(g)) /\ counts(g) \in Nat
  <2>1. Owned(g) \in SUBSET Tshid
    BY DEF Owned
  <2>2. IsFiniteSet(Owned(g))
    BY <1>1, <2>1, FS_Subset
  <2> QED  BY <2>2, FS_CardinalityType DEF counts
<1> QED  BY <1>1, <1>2

\* A step that does not touch Shards changes no count.
LEMMA SameCounts ==
  ASSUME UNCHANGED Shards
  PROVE  \A g : counts(g)' = counts(g)
BY DEF counts, Owned

\* Giving shard s to l takes it from its group, if it had one, and leaves
\* every other group alone.
LEMMA MovedCounts ==
  ASSUME NEW s \in Tshid, NEW m, NEW l, m # l, Shards[s] = m, Shards'[s] = l,
         \A r \in Tshid : r # s => Shards'[r] = Shards[r]
  PROVE  /\ counts(l)' = counts(l) + 1
         /\ counts(m)' = counts(m) - 1
         /\ \A g : g # l /\ g # m => counts(g)' = counts(g)
<1>1. \A r \in Tshid : Shards'[r] = IF r = s THEN l ELSE Shards[r]
  OBVIOUS
<1>2. /\ Owned(l)' = Owned(l) \cup {s} /\ s \notin Owned(l)
      /\ Owned(m)' = Owned(m) \ {s} /\ s \in Owned(m)
  BY <1>1 DEF Owned
<1>3. \A g : g # l /\ g # m => Owned(g)' = Owned(g)
  BY <1>1 DEF Owned
<1>4. IsFiniteSet(Owned(l)) /\ IsFiniteSet(Owned(m))
  BY CountsNat
<1>5. Cardinality(Owned(l) \cup {s}) = Cardinality(Owned(l)) + 1
  BY <1>2, <1>4, FS_AddElement
<1>6. Cardinality(Owned(m) \ {s}) = Cardinality(Owned(m)) - 1
  BY <1>2, <1>4, FS_RemoveElement
<1> QED  BY <1>2, <1>3, <1>5, <1>6 DEF counts

-----------------------------------------------------------------------------
(* Calls that are refused, and the start of the others.                    *)

LEMMA InitInv == ShardInit => ShardInv
<1> SUFFICES ASSUME ShardInit PROVE ShardInv
  OBVIOUS
<1> USE ShardCfgAssumption
<1>1. ShardTypeOK
  BY DEF ShardInit, ShardTypeOK, Assignment, Op, Tshid
<1>2. ConfigChecked /\ MovesOnlyWhatMust
  BY DEF ShardInit, ConfigChecked, Checked, MovesOnlyWhatMust, Tshid
<1> QED  BY <1>1, <1>2 DEF ShardInv, ShardInit

\* A refused call leaves a configuration that nothing is promised of.
LEMMA RefusedInv ==
  ASSUME ShardInv, NEW name \in {"join", "leave"}, NEW gids \in SUBSET Gids,
         pc = "idle", Groups' \subseteq Gids, Refused(name, gids)
  PROVE  ShardInv'
<1>1. op' = [call |-> name, gids |-> gids, ok |-> FALSE, sound |-> op.ok,
             from |-> Shards]
  BY DEF Refused, Begin
<1>2. ShardTypeOK'
  BY <1>1 DEF ShardInv, ShardTypeOK, Op, Refused
<1>3. pc' = "idle" /\ ~op'.ok
  BY <1>1 DEF Refused
<1>4. ConfigChecked' /\ MovesOnlyWhatMust'
  BY <1>3 DEF ConfigChecked, MovesOnlyWhatMust
<1> QED  BY <1>2, <1>3, <1>4 DEF ShardInv

LEMMA ChangedInv ==
  ASSUME ShardInv, NEW name \in {"join", "leave"}, NEW gids \in SUBSET Gids,
         pc = "idle", Groups' \subseteq Gids, Changed(name, gids),
         op'.sound => CallSound'
  PROVE  ShardInv'
<1>1. op' = [call |-> name, gids |-> gids, ok |-> TRUE, sound |-> op.ok,
             from |-> Shards]
  BY DEF Changed, Begin
<1>2. ShardTypeOK'
  BY <1>1, ShardCfgAssumption DEF ShardInv, ShardTypeOK, Op, Changed, Tshid
<1>3. pc' = "assign" /\ next' = 0
  BY DEF Changed
<1>4. ConfigChecked' /\ MovesOnlyWhatMust'
  BY <1>3 DEF ConfigChecked, MovesOnlyWhatMust
<1>5. \A s \in Tshid : ~(s < next')
  BY <1>3, ShardCfgAssumption DEF Tshid
<1> QED  BY <1>1, <1>2, <1>3, <1>4, <1>5 DEF ShardInv

LEMMA JoinInv ==
  ASSUME ShardInv, NEW servers \in SUBSET Gids, JoinBalance(servers)
  PROVE  ShardInv'
<1>1. op' = [call |-> "join", gids |-> servers, ok |-> TRUE, sound |-> op.ok,
             from |-> Shards]
  BY DEF JoinBalance, Changed, Begin
<1>2. Kept' = Groups
  BY <1>1 DEF Kept, JoinBalance
<1>3. \A g : counts(g)' = counts(g)
  BY SameCounts DEF JoinBalance, Changed
<1>4. ASSUME op'.sound PROVE CallSound'
  <2>1. Checked
    BY <1>1, <1>4 DEF ShardInv, ConfigChecked, JoinBalance
  <2>2. \A g, h \in Kept' : counts(g)' <= counts(h)' + 1
    BY <1>2, <1>3, <2>1 DEF Checked
  <2>3. MovedRight'
    BY <1>1 DEF MovedRight, JoinBalance, Changed
  <2>4. Groups # {} => \A s \in Tshid : Shards'[s] \in Groups'
    BY <2>1 DEF Checked, JoinBalance, Changed
  <2>5. ASSUME NEW n \in servers, NEW g \in Groups
        PROVE  counts(n)' <= counts(g)' + 1
    <3>1. n \notin Groups
      BY DEF JoinBalance
    <3>2. Owned(n) = {}
      BY <2>1, <3>1 DEF Checked, Owned
    <3>3. counts(n) = 0
      BY <3>2, FS_EmptySet DEF counts
    <3> QED  BY <1>3, <3>3, CountsNat
  <2>6. servers # {} /\ servers \subseteq Groups'
    BY DEF JoinBalance
  <2>7. op'.call = "join" /\ op'.gids = servers
    BY <1>1
  <2> QED  BY <1>2, <2>2, <2>3, <2>4, <2>5, <2>6, <2>7 DEF CallSound
<1> QED  BY <1>4, ChangedInv DEF JoinBalance, ShardInv, ShardTypeOK

LEMMA LeaveInv ==
  ASSUME ShardInv, NEW gids \in Seq(Gids), LeaveBalance(gids)
  PROVE  ShardInv'
<1> DEFINE D == Deleted(gids, Len(gids))
<1>1. op' = [call |-> "leave", gids |-> D, ok |-> TRUE, sound |-> op.ok,
             from |-> Shards]
  BY DEF LeaveBalance, Changed, Begin
<1>2. Kept' = Groups' /\ Groups' = Groups \ D
  BY <1>1 DEF Kept, LeaveBalance
<1>3. \A g : counts(g)' = counts(g)
  BY SameCounts DEF LeaveBalance, Changed
<1>4. D \in SUBSET Gids
  BY DEF Deleted
<1>5. ASSUME op'.sound PROVE CallSound'
  <2>1. Checked
    BY <1>1, <1>5 DEF ShardInv, ConfigChecked, LeaveBalance
  <2>2. \A g, h \in Kept' : counts(g)' <= counts(h)' + 1
    BY <1>2, <1>3, <2>1 DEF Checked
  <2>3. MovedRight'
    BY <1>1 DEF MovedRight, LeaveBalance, Changed
  <2>4. Groups # {}
    <3>1. Len(gids) \in Nat \ {0}
      BY DEF LeaveBalance
    <3>2. gids[1] \in Groups \ Deleted(gids, 1 - 1)
      BY <3>1 DEF LeaveBalance, CanDelete
    <3> QED  BY <3>2
  <2>5. \A s \in Tshid : Shards'[s] \in Groups' \cup D
    BY <1>2, <2>1, <2>4 DEF Checked, LeaveBalance, Changed
  <2>6. op'.call = "leave" /\ op'.gids = D
    BY <1>1
  <2> QED  BY <2>2, <2>3, <2>5, <2>6 DEF CallSound
<1>6. Changed("leave", D) /\ pc = "idle"
  BY DEF LeaveBalance
<1>7. Groups' \subseteq Gids
  BY <1>2 DEF ShardInv, ShardTypeOK
<1> QED  BY <1>4, <1>5, <1>6, <1>7, ChangedInv

-----------------------------------------------------------------------------
(* Rebalance().                                                            *)

LEMMA UnassignAllInv == ASSUME ShardInv, UnassignAll PROVE ShardInv'
<1>1. Shards' = [s \in Tshid |-> Unassigned] /\ Groups' = {} /\ Groups = {}
  BY DEF UnassignAll
<1>2. pc = "assign" /\ pc' = "idle" /\ op' = op /\ next' = next /\ Num' = Num
  BY DEF UnassignAll
<1>3. ShardTypeOK'
  BY <1>1, <1>2 DEF ShardInv, ShardTypeOK, Assignment
<1>4. ConfigChecked'
  BY <1>1 DEF ConfigChecked, Checked
<1>5. ASSUME op.sound, NEW s \in Tshid
      PROVE  op.call # "join" /\ op.from[s] \in op.gids
  <2>1. CallSound /\ op.call \in {"join", "leave"}
    BY <1>2, <1>5 DEF ShardInv
  <2>2. op.call = "leave"
    BY <1>1, <2>1 DEF CallSound
  <2>3. Shards[s] \in op.gids
    BY <1>1, <2>1, <2>2 DEF CallSound
  <2>4. Shards[s] # op.from[s] => op.from[s] \in op.gids
    BY <2>1, <2>2 DEF CallSound, MovedRight
  <2> QED  BY <2>2, <2>3, <2>4
<1>6. MovesOnlyWhatMust'
  BY <1>2, <1>5 DEF MovesOnlyWhatMust
<1> QED  BY <1>2, <1>3, <1>4, <1>6 DEF ShardInv

\* One iteration of the first loop.  The shard goes to a least loaded group,
\* which cannot put that group more than one ahead of any other.
LEMMA AssignInv == ASSUME ShardInv, Assign PROVE ShardInv'
<1>1. /\ pc = "assign" /\ Groups # {} /\ Groups' = Groups
      /\ op' = op /\ Num' = Num
      /\ next' \in Tshid /\ pc' \in {"assign", "move"}
      /\ pc' = "assign" => next' = next + 1
      /\ pc' = "move" => next + 1 = NShards
  BY ShardCfgAssumption
     DEF Assign, Advance, ShardInv, ShardTypeOK, Tshid
<1>2. next \in Tshid /\ Shards \in Assignment /\ Groups \subseteq Gids
  BY DEF ShardInv, ShardTypeOK
<1>3. \/ Shards[next] \in Groups /\ Shards' = Shards
      \/ /\ Shards[next] \notin Groups
         /\ \E lg \in Groups :
              least(lg) /\ Shards' = [Shards EXCEPT ![next] = lg]
  BY DEF Assign
<1>4. Shards' \in Assignment
  BY <1>2, <1>3 DEF Assignment
<1>5. /\ Shards'[next] \in Groups
      /\ \A s \in Tshid : s # next => Shards'[s] = Shards[s]
  BY <1>2, <1>3 DEF Assignment
<1>6. ShardTypeOK'
  BY <1>1, <1>4 DEF ShardInv, ShardTypeOK
<1>7. \A s \in Tshid : s < next => Shards'[s] \in Groups
  BY <1>1, <1>5 DEF ShardInv
<1>8. pc' = "assign" => \A s \in Tshid : s < next' => Shards'[s] \in Groups'
  BY <1>1, <1>2, <1>5, <1>7, ShardCfgAssumption DEF Tshid
<1>9. pc' = "move" => \A s \in Tshid : Shards'[s] \in Groups'
  BY <1>1, <1>2, <1>5, <1>7, ShardCfgAssumption DEF Tshid
<1>10. ASSUME op.sound PROVE CallSound'
  <2>1. CallSound /\ op.call \in {"join", "leave"}
    BY <1>1, <1>10 DEF ShardInv
  <2>2. Kept' = Kept
    BY <1>1 DEF Kept
  <2>3. CASE Shards' = Shards
    <3>1. \A g : counts(g)' = counts(g)
      BY <2>3, SameCounts
    <3> QED  BY <1>1, <2>1, <2>2, <2>3, <3>1 DEF CallSound, MovedRight
  <2>4. CASE Shards' # Shards
    <3>1. Shards[next] \notin Groups
      BY <1>3, <2>4
    <3>2. PICK lg \in Groups :
            least(lg) /\ Shards' = [Shards EXCEPT ![next] = lg]
      BY <1>3, <2>4
    <3>3. /\ counts(lg)' = counts(lg) + 1
          /\ \A g : g # lg /\ g # Shards[next] => counts(g)' = counts(g)
      <4>1. PICK s \in Tshid : s = next
        BY <1>2
      <4>2. PICK m : m = Shards[next]
        OBVIOUS
      <4>3. Shards[s] = m /\ Shards'[s] = lg /\ m # lg
        BY <1>2, <3>1, <3>2, <4>1, <4>2 DEF Assignment
      <4>4. \A r \in Tshid : r # s => Shards'[r] = Shards[r]
        BY <1>5, <4>1
      <4>5. /\ counts(lg)' = counts(lg) + 1
            /\ \A g : g # lg /\ g # m => counts(g)' = counts(g)
        BY <4>3, <4>4, MovedCounts
      <4> QED  BY <4>2, <4>5
    <3>4. \A g \in Groups : counts(g)' = IF g = lg THEN counts(g) + 1 ELSE counts(g)
      BY <3>1, <3>3
    <3>5. \A g \in Groups : counts(lg) <= counts(g) /\ counts(g) \in Nat
      BY <3>2, CountsNat DEF least
    <3>6. Kept \subseteq Groups
      BY DEF Kept
    <3>7. CASE op.call = "join"
      <4>1. Kept = {}
        BY <1>2, <2>1, <3>1, <3>7 DEF CallSound
      <4>2. lg \in op.gids
        BY <3>7, <4>1 DEF Kept
      <4>3. MovedRight'
        BY <1>1, <1>5, <2>1, <3>2, <3>7, <4>2, <1>2
           DEF CallSound, MovedRight, Assignment
      <4> QED  BY <1>1, <2>1, <2>2, <3>7, <4>1, <4>3 DEF CallSound
    <3>8. CASE op.call = "leave"
      <4>1. \A g, h \in Kept : counts(g)' <= counts(h)' + 1
        BY <2>1, <3>4, <3>5, <3>6 DEF CallSound
      <4>2. Shards[next] \in op.gids
        BY <1>2, <2>1, <3>1, <3>8 DEF CallSound
      <4>3. MovedRight'
        BY <1>1, <1>5, <2>1, <3>8, <4>2 DEF CallSound, MovedRight
      <4>4. \A s \in Tshid : Shards'[s] \in Groups' \cup op'.gids
        BY <1>1, <1>5, <2>1, <3>8 DEF CallSound
      <4> QED  BY <1>1, <2>2, <3>8, <4>1, <4>3, <4>4 DEF CallSound
    <3> QED  BY <2>1, <3>7, <3>8
  <2> QED  BY <2>3, <2>4
<1>11. pc' # "idle"
  BY <1>1
<1>12. ConfigChecked' /\ MovesOnlyWhatMust'
  BY <1>11 DEF ConfigChecked, MovesOnlyWhatMust
<1> QED  BY <1>1, <1>6, <1>8, <1>9, <1>10, <1>12 DEF ShardInv

\* One iteration of the second loop.  In a sound call it only ever moves a
\* shard to a group that joins: among the groups that stay no two are two
\* apart, and none that joins is two ahead of one that stays.
LEMMA MoveInv == ASSUME ShardInv, Move PROVE ShardInv'
<1>1. /\ pc = "move" /\ pc' = pc /\ Groups' = Groups
      /\ op' = op /\ Num' = Num /\ next' = next
  BY DEF Move
<1>2. Shards \in Assignment /\ Groups \subseteq Gids
  BY DEF ShardInv, ShardTypeOK
<1>3. PICK mg \in Groups, lg \in Groups :
        /\ Most(mg) /\ least(lg) /\ counts(mg) >= counts(lg) + 2
        /\ \E s \in Tshid : First(mg, s) /\ Shards' = [Shards EXCEPT ![s] = lg]
  BY DEF Move
<1>4. PICK s \in Tshid : First(mg, s) /\ Shards' = [Shards EXCEPT ![s] = lg]
  BY <1>3
<1>5. /\ Shards[s] = mg /\ Shards'[s] = lg /\ Shards' \in Assignment
      /\ \A r \in Tshid : r # s => Shards'[r] = Shards[r]
  BY <1>2, <1>4 DEF First, Owned, Assignment
<1>6. \A g : counts(g) \in Nat
  BY CountsNat
<1>7. mg # lg
  BY <1>3, <1>6
<1>8. /\ counts(lg)' = counts(lg) + 1
      /\ counts(mg)' = counts(mg) - 1
      /\ \A g : g # lg /\ g # mg => counts(g)' = counts(g)
  BY <1>5, <1>7, MovedCounts
<1>9. \A g \in Groups : counts(lg) <= counts(g) /\ counts(g) <= counts(mg)
  BY <1>3 DEF Most, least
<1>10. ShardTypeOK'
  BY <1>1, <1>5 DEF ShardInv, ShardTypeOK
<1>11. \A r \in Tshid : Shards'[r] \in Groups'
  BY <1>1, <1>5 DEF ShardInv
<1>12. ASSUME op.sound PROVE CallSound'
  <2>1. CallSound /\ op.call \in {"join", "leave"}
    BY <1>1, <1>12 DEF ShardInv
  <2>2. Kept' = Kept /\ Kept \subseteq Groups
    BY <1>1 DEF Kept
  <2>3. lg \notin Kept
    <3>1. SUFFICES ASSUME lg \in Kept PROVE FALSE
      OBVIOUS
    <3>2. mg \notin Kept
      BY <1>3, <1>6, <2>1, <3>1 DEF CallSound
    <3>3. op.call = "join" /\ mg \in op.gids
      BY <2>1, <3>2 DEF Kept
    <3> QED  BY <1>3, <1>6, <2>1, <3>1, <3>3 DEF CallSound
  <2>4. op.call = "join" /\ lg \in op.gids
    BY <2>1, <2>3 DEF Kept
  <2>5. \A g, h \in Kept : counts(g)' <= counts(h)' + 1
    BY <1>6, <1>8, <1>9, <2>1, <2>2, <2>3 DEF CallSound
  <2>6. MovedRight'
    BY <1>1, <1>5, <2>1, <2>4 DEF CallSound, MovedRight
  <2>7. op.gids \subseteq Groups
    BY <2>1, <2>4 DEF CallSound
  <2>8. ASSUME NEW n \in op.gids, NEW g \in Kept
        PROVE  counts(n)' <= counts(g)' + 1
    <3>1. n \in Groups /\ g \in Groups /\ g # lg
      BY <2>2, <2>3, <2>7
    <3>2. counts(n) <= counts(g) + 1
      BY <2>1, <2>4 DEF CallSound
    <3>3. CASE n = lg
      BY <1>3, <1>6, <1>8, <1>9, <3>1, <3>3
    <3>4. CASE n # lg
      BY <1>3, <1>6, <1>8, <1>9, <3>1, <3>2, <3>4
    <3> QED  BY <3>3, <3>4
  <2>9. op.gids # {}
    BY <2>1, <2>4 DEF CallSound
  <2> QED
    BY <1>1, <1>11, <2>2, <2>4, <2>5, <2>6, <2>7, <2>8, <2>9 DEF CallSound
<1>13. ConfigChecked' /\ MovesOnlyWhatMust'
  BY <1>1 DEF ConfigChecked, MovesOnlyWhatMust
<1> QED  BY <1>1, <1>10, <1>11, <1>12, <1>13 DEF ShardInv

LEMMA BalancedInv == ASSUME ShardInv, Balanced PROVE ShardInv'
<1>1. /\ pc = "move" /\ pc' = "idle" /\ Shards' = Shards /\ Groups' = Groups
      /\ op' = op /\ Num' = Num /\ next' = next
  BY DEF Balanced
<1>2. PICK mg \in Groups, lg \in Groups :
        Most(mg) /\ least(lg) /\ counts(mg) < counts(lg) + 2
  BY DEF Balanced
<1>3. \A g : counts(g)' = counts(g) /\ counts(g) \in Nat
  BY <1>1, SameCounts, CountsNat
<1>4. \A g, h \in Groups : counts(g) <= counts(h) + 1
  BY <1>2, <1>3 DEF Most, least
<1>5. Groups # {} /\ \A s \in Tshid : Shards[s] \in Groups
  BY <1>1 DEF ShardInv
<1>6. ConfigChecked'
  BY <1>1, <1>3, <1>4, <1>5 DEF ConfigChecked, Checked
<1>7. MovesOnlyWhatMust'
  BY <1>1 DEF ShardInv, CallSound, MovedRight, MovesOnlyWhatMust
<1>8. ShardTypeOK'
  BY <1>1 DEF ShardInv, ShardTypeOK
<1> QED  BY <1>1, <1>6, <1>7, <1>8 DEF ShardInv

-----------------------------------------------------------------------------
(* The theorems.                                                           *)

LEMMA NextInv == ShardInv /\ [ShardNext]_shardVars => ShardInv'
<1> SUFFICES ASSUME ShardInv, [ShardNext]_shardVars PROVE ShardInv'
  OBVIOUS
<1>1. Groups \subseteq Gids
  BY DEF ShardInv, ShardTypeOK
<1>2. ASSUME NEW servers \in SUBSET Gids, ReJoin(servers) PROVE ShardInv'
  BY <1>1, <1>2, RefusedInv DEF ReJoin
<1>3. ASSUME NEW gids \in Arguments PROVE gids \in Seq(Gids)
  BY ShardCfgAssumption DEF Arguments
<1>4. ASSUME NEW gids \in Arguments, LeaveAbsent(gids) PROVE ShardInv'
  <2>1. Deleted(gids, Len(gids)) \in SUBSET Gids
    BY <1>3 DEF Deleted
  <2>2. Groups' \subseteq Gids
    BY <1>1, <1>4 DEF LeaveAbsent
  <2>3. pc = "idle" /\ Refused("leave", Deleted(gids, Len(gids)))
    BY <1>4 DEF LeaveAbsent
  <2> QED  BY <2>1, <2>2, <2>3, RefusedInv
<1>5. CASE Rebalance
  BY <1>5, UnassignAllInv, AssignInv, MoveInv, BalancedInv DEF Rebalance
<1>6. CASE UNCHANGED shardVars
  <2>1. \A g : counts(g)' = counts(g)
    BY <1>6, SameCounts DEF shardVars
  <2>2. CallSound' = CallSound /\ Checked' = Checked
    BY <1>6, <2>1 DEF shardVars, CallSound, Checked, MovedRight, Kept
  <2> QED
    BY <1>6, <2>2 DEF shardVars, ShardInv, ShardTypeOK, ConfigChecked,
                      MovesOnlyWhatMust
<1> QED
  BY <1>2, <1>3, <1>4, <1>5, <1>6, JoinInv, LeaveInv DEF ShardNext

\* The invariant of Rebalance()'s loops holds for every number of shards and
\* every set of groups, whatever the order of joins and leaves.
THEOREM ShardInvariantHolds == ShardSpec => []ShardInv
BY InitInv, NextInv, PTL DEF ShardSpec

\* A call that succeeds leaves a configuration that CheckConfig() accepts.
THEOREM ConfigCheckedHolds == ShardSpec => []ConfigChecked
<1>1. ShardInv => ConfigChecked
  BY DEF ShardInv
<1> QED  BY <1>1, ShardInvariantHolds, PTL

\* Rebalance() moves no shard between two groups that stay.
THEOREM MovesOnlyWhatMustHolds == ShardSpec => []MovesOnlyWhatMust
<1>1. ShardInv => MovesOnlyWhatMust
  BY DEF ShardInv
<1> QED  BY <1>1, ShardInvariantHolds, PTL

\* A balanced configuration with no more groups than shards leaves no group
\* without one: a group that owns none would force two shards on another.
LEMMA CheckedMembersOwn == ShardInv => MembersOwn
<1> SUFFICES ASSUME ShardInv, pc = "idle", op.ok
             PROVE  /\ Cardinality(Groups) <= NShards =>
                         \A g \in Groups : Owned(g) # {}
                    /\ \A g \in Gids \ Groups : Owned(g) = {}
  BY DEF MembersOwn
<1>1. /\ Checked /\ (Groups = {} => \A s \in Tshid : Shards[s] = Unassigned)
      /\ Shards \in Assignment /\ Groups \subseteq Gids
  BY DEF ShardInv, ConfigChecked, ShardTypeOK
<1>2. ASSUME NEW g \in Gids \ Groups PROVE Owned(g) = {}
  <2>1. g # Unassigned
    BY ShardCfgAssumption DEF Unassigned
  <2> QED  BY <1>1, <2>1 DEF Checked, Owned
<1>3. ASSUME Cardinality(Groups) <= NShards, NEW g \in Groups, Owned(g) = {}
      PROVE  FALSE
  <2>1. IsFiniteSet(Groups)
    BY <1>1, ShardCfgAssumption, FS_Subset
  <2>2. /\ IsFiniteSet(Groups \ {g}) /\ Cardinality(Groups) \in Nat
        /\ Cardinality(Groups \ {g}) = Cardinality(Groups) - 1
    BY <2>1, FS_RemoveElement, FS_CardinalityType
  <2>3. Cardinality(Groups \ {g}) < Cardinality(Tshid)
    BY <1>3, <2>2, CountsNat, ShardCfgAssumption
  <2>4. \A s \in Tshid : Shards[s] \in Groups \ {g}
    BY <1>1, <1>3 DEF Checked, Owned
  <2>5. Shards \in [Tshid -> Groups \ {g}]
    BY <1>1, <2>4 DEF Assignment
  <2>6. PICK x \in Tshid, y \in Tshid : x # y /\ Shards[x] = Shards[y]
    BY <2>2, <2>3, <2>5, CountsNat, FS_PigeonHole
  <2> DEFINE h == Shards[x]
  <2>7. {x, y} \in SUBSET Owned(h)
    BY <2>6 DEF Owned
  <2>8. Cardinality({x, y}) = 2
    <3>1. IsFiniteSet({x}) /\ Cardinality({x}) = 1
      BY FS_Singleton
    <3>2. Cardinality({x} \cup {y}) =
            IF y \in {x} THEN Cardinality({x}) ELSE Cardinality({x}) + 1
      BY <3>1, FS_AddElement, Zenon
    <3>3. {x} \cup {y} = {x, y}
      OBVIOUS
    <3> QED  BY <2>6, <3>1, <3>2, <3>3
  <2>9. counts(h) >= 2 /\ counts(h) \in Nat
    <3>1. IsFiniteSet(Owned(h)) /\ counts(h) \in Nat
      BY CountsNat
    <3>2. Cardinality({x, y}) <= Cardinality(Owned(h))
      BY <2>7, <3>1, FS_Subset
    <3> QED  BY <2>8, <3>1, <3>2 DEF counts
  <2>10. counts(g) = 0
    BY <1>3, FS_EmptySet DEF counts
  <2>11. counts(h) <= counts(g) + 1
    BY <1>1, <2>4 DEF Checked
  <2> HIDE DEF h
  <2> QED  BY <2>9, <2>10, <2>11
<1> QED  BY <1>2, <1>3

\* The tests may go by IsMember(): after a call that succeeds, the groups of
\* the configuration own shards and no other group does.
THEOREM MembersOwnHolds == ShardSpec => []MembersOwn
BY CheckedMembersOwn, ShardInvariantHolds, PTL
=============================================================================
