------------------------- MODULE RaftChecker_proofs -------------------------
(* The services of the Raft tests, for any number of servers, instances    *)
(* and commands.                                                           *)
EXTENDS RaftChecker, TLAPS

USE DEF testerVars, rfsrvVars, raftVars, Snap, Faulty, Prompt, Early, Whole

\* NoHole is left out: it follows from the rest.
IInv ==
  /\ TypeOK
  /\ \A i \in Inst : InstanceInv(i)
  /\ \A s \in Srv : ServerInv(s)
  /\ Converging
  /\ NoFalseAlarm

-----------------------------------------------------------------------------
(* Instances, maps, snapshots and messages.                                *)

LEMMA Bounds == MaxGen \in Nat \ {0} /\ MaxIndex \in Nat /\ SnapShotInterval \in Nat \ {0}
  BY RaftCheckerAssumption

LEMMA InstFacts ==
  /\ \A i \in Inst : i[1] \in Srv /\ i[2] \in 1..MaxGen /\ i = <<i[1], i[2]>>
  /\ \A s \in Srv, n \in 1..MaxGen : /\ <<s, n>> \in Inst
                                     /\ <<s, n>>[1] = s /\ <<s, n>>[2] = n
  BY DEF Inst

LEMMA CurrentFacts ==
  ASSUME srvs \in [Srv -> 1..MaxGen]
  PROVE  /\ \A s \in Srv : /\ Current(s) \in Inst /\ Current(s)[1] = s
                           /\ Current(s)[2] = srvs[s]
         /\ \A i \in Inst : srvs[i[1]] = i[2] <=> i = Current(i[1])
         /\ \A i \in Inst, s \in Srv : i = Current(s) => i[1] = s
  BY InstFacts DEF Current

\* A Go map from indices to commands.
LEMMA MapFacts ==
  \A f \in Maps : /\ DOMAIN f \subseteq 0..MaxIndex
                  /\ f = [k \in DOMAIN f |-> f[k]]
                  /\ \A k \in DOMAIN f : f[k] \in Vals
  BY DEF Maps

LEMMA MakesMap ==
  ASSUME NEW D \in SUBSET (0..MaxIndex), NEW f \in [D -> Vals]
  PROVE  f \in Maps
  BY DEF Maps

LEMMA EmptyMapFacts == EmptyMap \in Maps /\ DOMAIN EmptyMap = {} /\ Right(EmptyMap)
<1>1. EmptyMap \in [{} -> Vals] /\ DOMAIN EmptyMap = {}
  BY DEF EmptyMap
<1>2. QED
  BY <1>1, MakesMap DEF Right

LEMMA PutFacts ==
  ASSUME NEW f \in Maps, NEW k \in Index, NEW v \in Vals
  PROVE  /\ Put(f, k, v) \in Maps
         /\ DOMAIN Put(f, k, v) = DOMAIN f \cup {k}
         /\ Put(f, k, v)[k] = v
         /\ \A j \in DOMAIN f : j # k => Put(f, k, v)[j] = f[j]
<1>1. /\ DOMAIN f \cup {k} \in SUBSET (0..MaxIndex)
      /\ \A j \in DOMAIN f : f[j] \in Vals
  BY MapFacts, Bounds DEF Index
<1>2. Put(f, k, v) \in [DOMAIN f \cup {k} -> Vals]
  BY <1>1 DEF Put
<1>3. QED
  BY <1>1, <1>2, MakesMap DEF Put

LEMMA SnapFacts ==
  \A sn \in Snaps : /\ sn.last \in 0..MaxIndex /\ sn.xlog \in Maps
                    /\ Index \cap DOMAIN sn.xlog = 1..sn.last
<1> SUFFICES ASSUME NEW sn \in Snaps
             PROVE  /\ sn.last \in 0..MaxIndex /\ sn.xlog \in Maps
                    /\ Index \cap DOMAIN sn.xlog = 1..sn.last
  OBVIOUS
<1>1. CASE sn = NoSnap
  BY <1>1, EmptyMapFacts, Bounds DEF NoSnap
<1>2. CASE sn # NoSnap
  <2>1. PICK n \in Index : sn \in [last : {n}, xlog : [0..n -> Vals]]
    BY <1>2 DEF Snaps
  <2>2. sn.last = n /\ sn.xlog \in [0..n -> Vals] /\ n \in 1..MaxIndex
    BY <2>1 DEF Index
  <2>3. 0..n \in SUBSET (0..MaxIndex) /\ Index \cap (0..n) = 1..n /\ DOMAIN sn.xlog = 0..n
    BY <2>2, Bounds DEF Index
  <2>4. sn.xlog \in Maps
    BY <2>2, <2>3, MakesMap
  <2>5. QED
    BY <2>2, <2>3, <2>4, Bounds
<1>3. QED
  BY <1>1, <1>2

LEMMA NoSnapFacts == NoSnap \in Snaps /\ NoSnap.last = 0 /\ NoSnap.xlog = EmptyMap
  BY DEF NoSnap, Snaps

LEMMA MakesSnap ==
  ASSUME NEW n \in Index, NEW f \in [0..n -> Vals]
  PROVE  [last |-> n, xlog |-> f] \in Snaps
  BY DEF Snaps

LEMMA NoMsgFacts ==
  /\ NoMsg \in Msgs /\ NoMsg.kind = "none" /\ NoMsg.err = FALSE
  /\ NoMsg.index = 0 /\ NoMsg.val = 0 /\ NoMsg.snapshot = NoSnap
  BY NoSnapFacts, Bounds DEF NoMsg, Msg, Msgs, Vals, Nil

-----------------------------------------------------------------------------
LEMMA InitHolds == Init => IInv
<1> SUFFICES ASSUME Init
             PROVE  IInv
  OBVIOUS
<1>1. TypeOK
  BY Bounds, EmptyMapFacts, NoSnapFacts, NoMsgFacts DEF Init, TypeOK
<1>2. ASSUME NEW i \in Inst
      PROVE  InstanceInv(i)
  <2>1. Controlled(i)
    BY InstFacts, Bounds, NoMsgFacts, <1>2 DEF Init, Controlled, Newest
  <2>2. InSync(i)
    BY NoMsgFacts, NoSnapFacts, <1>2 DEF Init, InSync
  <2>3. HoldsRight(i)
    BY NoMsgFacts, NoSnapFacts, EmptyMapFacts, <1>2 DEF Init, HoldsRight
  <2>4. Undisturbed(i)
    BY NoMsgFacts, <1>2 DEF Init, Undisturbed
  <2>5. QED
    BY <2>1, <2>2, <2>3, <2>4 DEF InstanceInv
<1>3. ASSUME NEW s \in Srv
      PROVE  /\ Current(s) \in Inst /\ logs[Current(s)] = EmptyMap
             /\ lastApplied[Current(s)] = 0 /\ Kept(s) = NoSnap
             /\ msg[Current(s)] = NoMsg
  <2>1. Current(s) \in Inst
    BY <1>1, <1>3, CurrentFacts DEF TypeOK
  <2>2. QED
    BY <1>3, <2>1 DEF Init, Kept
<1>4. ASSUME NEW s \in Srv
      PROVE  ServerInv(s)
  BY <1>3, <1>4, NoSnapFacts, EmptyMapFacts DEF Init, ServerInv
<1>5. Converging
  <2>1. LogsMatch
    BY <1>3, EmptyMapFacts DEF LogsMatch, Matches
  <2>2. \A s \in Srv : Harmless(Kept(s))
    BY <1>3, EmptyMapFacts, NoSnapFacts DEF Harmless, Held, Matches
  <2>3. QED
    BY <1>3, <2>1, <2>2, NoMsgFacts DEF Converging
<1>6. NoFalseAlarm
  BY DEF Init, NoFalseAlarm
<1>7. QED
  BY <1>1, <1>2, <1>4, <1>5, <1>6 DEF IInv

-----------------------------------------------------------------------------
(* What an action leaves alone.                                            *)

\* An instance whose own state is the same, but for commands that checkLogs() has
\* put into its log.
LEMMA OtherInstance ==
  ASSUME NEW j \in Inst, InstanceInv(j), exit = "no", UNCHANGED test,
         srvs'[j[1]] = srvs[j[1]], lastApplied'[j] = lastApplied[j],
         life'[j[1]] = "made" <=> life[j[1]] = "made",
         life[j[1]] = "made" => saved'[j[1]] = saved[j[1]],
         raft'[j] = raft[j] \/ ~raft'[j], msg'[j] = msg[j], pc'[j] = pc[j],
         snap'[j] = snap[j], next'[j] = next[j],
         \/ logs'[j] = logs[j]
         \/ /\ j[2] = srvs[j[1]] /\ DOMAIN logs[j] \subseteq DOMAIN logs'[j]
            /\ ~Faulty /\ Whole => Right(logs'[j])
  PROVE  InstanceInv(j)'
<1>1. Controlled(j)'
  <2>1. Newest(j[1])' = Newest(j[1])
    BY DEF Newest
  <2>2. j[2] \in Nat
    BY InstFacts, Bounds
  <2>3. j[2] > srvs[j[1]] /\ j[2] = Newest(j[1]) =>
          life[j[1]] = "made" /\ logs'[j] = logs[j]
    BY <2>2 DEF Newest
  <2>4. j[2] > Newest(j[1]) => logs'[j] = logs[j]
    BY <2>2 DEF Newest
  <2>5. QED
    BY <2>1, <2>3, <2>4 DEF InstanceInv, Controlled, AsMade
<1>2. InSync(j)'
  BY DEF InstanceInv, InSync, Snap
<1>3. HoldsRight(j)'
  BY DEF InstanceInv, HoldsRight, Faulty, Right
<1>4. Undisturbed(j)'
  BY DEF InstanceInv, Undisturbed, Faulty, Prompt, Snap
<1>5. QED
  BY <1>1, <1>2, <1>3, <1>4 DEF InstanceInv

\* A server whose log and snapshots are the same.
LEMMA OtherServer ==
  ASSUME NEW s \in Srv, ServerInv(s), UNCHANGED test,
         srvs'[s] = srvs[s], saved'[s] = saved[s],
         life'[s] = life[s],
         raft'[Current(s)] = raft[Current(s)] \/ ~raft'[Current(s)],
         lastApplied'[Current(s)] = lastApplied[Current(s)],
         logs'[Current(s)] = logs[Current(s)]
  PROVE  ServerInv(s)'
<1>1. Current(s)' = Current(s)
  BY DEF Current
<1>2. QED
  BY <1>1 DEF ServerInv, Snap, Faulty, Right

\* No log of an instance in use, no snapshot to begin with and no snapshot that is
\* waiting changes.
LEMMA StillConverging ==
  ASSUME Converging, UNCHANGED <<test, srvs>>, Ended => Ended',
         \A s \in Srv : /\ logs'[Current(s)] = logs[Current(s)]
                        /\ lastApplied'[Current(s)] = lastApplied[Current(s)]
                        /\ Kept(s)' = Kept(s)
                        /\ \/ msg'[Current(s)].kind # "snapshot"
                           \/ msg'[Current(s)] = msg[Current(s)]
  PROVE  Converging'
<1> SUFFICES ASSUME ~Ended', Whole
             PROVE  /\ LogsMatch'
                    /\ \A s \in Srv : Harmless(Kept(s))'
                    /\ \A s \in Srv : msg'[Current(s)'].kind = "snapshot"
                                        => Harmless(msg[Current(s)].snapshot)'
  BY DEF Converging
<1>1. \A s \in Srv : Current(s)' = Current(s)
  BY DEF Current
<1>2. LogsMatch'
  BY <1>1 DEF LogsMatch, Converging
<1>3. \A n : Held(n) => Held(n)'
  BY <1>1 DEF Held
<1>4. \A s \in Srv : Harmless(Kept(s))'
  <2> SUFFICES ASSUME NEW s \in Srv
               PROVE  Held(Kept(s).last)' /\ \A t \in Srv : Matches(Kept(s).xlog, logs[Current(t)])'
    BY DEF Harmless
  <2>1. Held(Kept(s).last) /\ \A t \in Srv : Matches(Kept(s).xlog, logs[Current(t)])
    BY DEF Converging, Harmless
  <2>2. Kept(s)' = Kept(s)
    OBVIOUS
  <2>3. \E u \in Srv : Kept(s).last <= lastApplied[Current(u)] /\ Kept(s).last <= Kept(u).last
    BY <2>1 DEF Held
  <2>4. \E u \in Srv : Kept(s)'.last <= lastApplied'[Current(u)'] /\ Kept(s)'.last <= Kept(u)'.last
    BY <2>2, <2>3, <1>1
  <2>5. QED
    BY <1>1, <2>1, <2>2, <2>4 DEF Held, Matches
<1>5. ASSUME NEW s \in Srv, msg'[Current(s)'].kind = "snapshot"
      PROVE  Harmless(msg[Current(s)].snapshot)'
  <2> DEFINE sn == msg[Current(s)].snapshot
  <2>1. msg'[Current(s)'] = msg[Current(s)]
    BY <1>1, <1>5
  <2>2. Held(sn.last) /\ \A t \in Srv : Matches(sn.xlog, logs[Current(t)])
    BY <1>5, <2>1 DEF Converging, Harmless
  <2>3. \E u \in Srv : sn.last <= lastApplied[Current(u)] /\ sn.last <= Kept(u).last
    BY <2>2 DEF Held
  <2>4. \E u \in Srv : sn.last <= lastApplied'[Current(u)'] /\ sn.last <= Kept(u)'.last
    BY <2>3, <1>1
  <2>5. QED
    BY <1>1, <2>1, <2>2, <2>4 DEF Held, Matches, Harmless
<1>6. QED
  BY <1>2, <1>4, <1>5

\* Of two snapshots that do no harm, the entries that both have are in the log of
\* a server that holds all of the one, and so they are the same.
LEMMA HarmlessMatch ==
  ASSUME TypeOK, Whole, \A s \in Srv : ServerInv(s)
  PROVE  \A x, y \in Snaps : Harmless(x) /\ Harmless(y) => Matches(x.xlog, y.xlog)
<1> SUFFICES ASSUME NEW x \in Snaps, NEW y \in Snaps, Harmless(x), Harmless(y),
                    NEW k \in Index \cap DOMAIN x.xlog \cap DOMAIN y.xlog
             PROVE  x.xlog[k] = y.xlog[k]
  BY DEF Matches
<1>1. PICK u \in Srv : x.last <= lastApplied[Current(u)]
  BY DEF Harmless, Held
<1>2. k \in 1..x.last /\ x.last \in Nat /\ lastApplied[Current(u)] \in Nat
  BY SnapFacts, CurrentFacts, Bounds DEF TypeOK
<1>3. k \in 1..lastApplied[Current(u)]
  BY <1>1, <1>2
<1>4. k \in DOMAIN logs[Current(u)]
  BY <1>3 DEF ServerInv
<1>5. Matches(x.xlog, logs[Current(u)]) /\ Matches(y.xlog, logs[Current(u)])
  BY DEF Harmless
<1>6. QED
  BY <1>4, <1>5 DEF Matches

\* An applier that is busy belongs to an instance that is or was in Test.srvs.
LEMMA BusyInUse ==
  ASSUME TypeOK, NEW i \in Inst, InstanceInv(i), pc[i] \in {"got", "snapshot"},
         i[2] > srvs[i[1]]
  PROVE  Early
<1>1. i[1] \in Srv /\ i[2] \in Nat /\ srvs[i[1]] \in Nat
  BY InstFacts, Bounds DEF TypeOK
<1>2. i[2] > Newest(i[1]) \/ i[2] = Newest(i[1])
  BY <1>1 DEF Newest
<1>3. QED
  BY <1>2 DEF InstanceInv, Controlled, AsMade

-----------------------------------------------------------------------------
(* The peers.                                                              *)

LEMMA DeliverCommandKeeps ==
  ASSUME IInv, exit = "no", UNCHANGED test, NEW i \in Inst, DeliverCommand(i)
  PROVE  IInv'
<1>1. PICK k \in Index, v \in Cmd :
        /\ k = next[i] + 1 /\ (~Faulty => v = k)
        /\ Send(i, Msg("command", k, v, NoSnap))
        /\ next' = [next EXCEPT ![i] = k] /\ snap' = snap
  BY DEF DeliverCommand
<1> DEFINE m == Msg("command", k, v, NoSnap)
<1>2. /\ m \in Msgs /\ m.kind = "command" /\ m.index = k /\ m.val = v
      /\ m.snapshot = NoSnap /\ m.err = FALSE
  <2>1. k \in 0..MaxIndex /\ v \in Vals
    BY Bounds DEF Index, Vals
  <2>2. QED
    BY <2>1, NoSnapFacts DEF Msg, Msgs
<1>3. /\ TypeOK /\ InstanceInv(i) /\ pc[i] = "read" /\ i[1] \in Srv
      /\ IF Early THEN i[2] = Newest(i[1]) ELSE srvs[i[1]] = i[2]
  BY <1>1, InstFacts DEF IInv, Send
<1>4. /\ msg'[i] = m /\ pc'[i] = "got" /\ next'[i] = k
      /\ \A j \in Inst : j # i => /\ msg'[j] = msg[j] /\ pc'[j] = pc[j]
                                  /\ next'[j] = next[j]
  BY <1>1, <1>3 DEF Send, TypeOK
<1>5. TypeOK'
  BY <1>1, <1>2, <1>3, Bounds DEF Send, TypeOK, Index
<1>6. ASSUME NEW j \in Inst, j # i
      PROVE  InstanceInv(j)'
  BY <1>1, <1>4, <1>6, OtherInstance DEF Send, IInv
<1>7. InstanceInv(i)'
  <2>1. Controlled(i)'
    BY <1>1, <1>2, <1>3, <1>4, InstFacts, Bounds
       DEF Send, InstanceInv, Controlled, AsMade, Newest, TypeOK
  <2>2. InSync(i)'
    <3>1. /\ next[i] \in Nat /\ lastApplied[i] \in Nat /\ snap[i].last \in Nat /\ k \in Nat
      BY <1>3, SnapFacts, Bounds DEF TypeOK, Index
    <3>2. QED
      BY <1>1, <1>2, <1>3, <1>4, <3>1 DEF Send, InstanceInv, InSync, Snap
  <2>3. HoldsRight(i)'
    BY <1>1, <1>2, <1>3, <1>4, EmptyMapFacts, NoSnapFacts
       DEF Send, InstanceInv, HoldsRight, Faulty, Right
  <2>4. Undisturbed(i)'
    <3>1. \A n \in 1..k : n \in 1..next[i] \/ n = k
      BY <1>1, <1>3 DEF TypeOK, Index
    <3>2. QED
      BY <1>1, <1>2, <1>3, <1>4, <3>1 DEF Send, InstanceInv, Undisturbed, Faulty, Prompt, Snap
  <2>5. QED
    BY <2>1, <2>2, <2>3, <2>4 DEF InstanceInv
<1>8. ASSUME NEW s \in Srv
      PROVE  ServerInv(s)'
  BY <1>1, <1>8, OtherServer DEF Send, IInv
<1>9. Converging'
  <2>1. \A s \in Srv : Kept(s)' = Kept(s)
    BY <1>1 DEF Send, Kept, Current
  <2>2. Ended => Ended'
    BY <1>1, <1>2, <1>3, <1>4, NoMsgFacts DEF Send, Ended, InstanceInv, Controlled
  <2>3. \A s \in Srv : msg'[Current(s)].kind # "snapshot" \/ msg'[Current(s)] = msg[Current(s)]
    BY <1>2, <1>3, <1>4, CurrentFacts DEF TypeOK
  <2>4. QED
    BY <1>1, <2>1, <2>2, <2>3, StillConverging DEF Send, IInv
<1>10. NoFalseAlarm'
  BY <1>1 DEF Send, NoFalseAlarm
<1>11. QED
  BY <1>5, <1>6, <1>7, <1>8, <1>9, <1>10 DEF IInv

LEMMA DeliverSnapshotKeeps ==
  ASSUME IInv, exit = "no", UNCHANGED test, NEW i \in Inst, DeliverSnapshot(i)
  PROVE  IInv'
<1>1. PICK t \in Srv, k \in Index :
        /\ Snap /\ life[t] = "up"
        /\ snap[Current(t)].last > next[i] /\ (Faulty \/ k = snap[Current(t)].last)
        /\ Send(i, Msg("snapshot", k, Nil, snap[Current(t)]))
        /\ snap' = [snap EXCEPT ![i] = snap[Current(t)]]
        /\ next' = [next EXCEPT ![i] = snap[Current(t)].last]
  BY DEF DeliverSnapshot
<1> DEFINE sn == snap[Current(t)]
           m == Msg("snapshot", k, Nil, sn)
<1>2. /\ TypeOK /\ InstanceInv(i) /\ pc[i] = "read" /\ i[1] \in Srv
      /\ Current(t) \in Inst /\ InstanceInv(Current(t))
      /\ IF Early THEN i[2] = Newest(i[1]) ELSE srvs[i[1]] = i[2] /\ i = Current(i[1])
  BY <1>1, InstFacts, CurrentFacts DEF IInv, Send, TypeOK
<1>3. sn \in Snaps /\ sn.last \in 0..MaxIndex
  BY <1>2, SnapFacts DEF TypeOK
<1>4. /\ m \in Msgs /\ m.kind = "snapshot" /\ m.index = k /\ m.err = FALSE
      /\ m.snapshot = sn
  <2>1. k \in 0..MaxIndex /\ Nil \in Vals
    BY Bounds DEF Index, Vals
  <2>2. QED
    BY <1>3, <2>1 DEF Msg, Msgs
<1>5. /\ msg'[i] = m /\ pc'[i] = "got" /\ next'[i] = sn.last /\ snap'[i] = sn
      /\ \A j \in Inst : j # i => /\ msg'[j] = msg[j] /\ pc'[j] = pc[j]
                                  /\ next'[j] = next[j] /\ snap'[j] = snap[j]
  BY <1>1, <1>2 DEF Send, TypeOK
<1>6. TypeOK'
  BY <1>1, <1>2, <1>3, <1>4 DEF Send, TypeOK
<1>7. ASSUME NEW j \in Inst, j # i
      PROVE  InstanceInv(j)'
  BY <1>1, <1>5, <1>7, OtherInstance DEF Send, IInv
<1>8. InstanceInv(i)'
  <2>1. Controlled(i)'
    BY <1>1, <1>2, <1>4, <1>5, InstFacts, Bounds
       DEF Send, InstanceInv, Controlled, AsMade, Newest, TypeOK
  <2>2. InSync(i)'
    <3>1. /\ next[i] \in Nat /\ lastApplied[i] \in Nat
      BY <1>2, Bounds DEF TypeOK
    <3>2. lastApplied[i] = next[i]
      BY <1>1, <1>2 DEF InstanceInv, InSync
    <3>3. /\ sn.last \in Nat /\ lastApplied'[i] < sn.last /\ Snap'
          /\ pc'[i] = "got" /\ msg'[i].kind = "snapshot"
      BY <1>1, <1>3, <1>4, <1>5, <3>1, <3>2, Bounds DEF Send, Snap
    <3>4. QED
      BY <1>5, <3>3 DEF InSync
  <2>3. HoldsRight(i)'
    <3>1. ~Faulty /\ Whole => Right(sn.xlog) /\ Right(logs[i])
      BY <1>2 DEF InstanceInv, HoldsRight
    <3>2. QED
      BY <1>1, <1>4, <1>5, <3>1 DEF Send, HoldsRight, Faulty, Right
  <2>4. Undisturbed(i)'
    BY <1>1, <1>2, <1>4, <1>5 DEF Send, Undisturbed, Snap
  <2>5. QED
    BY <2>1, <2>2, <2>3, <2>4 DEF InstanceInv
<1>9. ASSUME NEW s \in Srv
      PROVE  ServerInv(s)'
  BY <1>1, <1>9, OtherServer DEF Send, IInv
<1>10. Converging'
  <2> SUFFICES ASSUME ~Ended', Whole
               PROVE  /\ LogsMatch'
                      /\ \A s \in Srv : Harmless(Kept(s))'
                      /\ \A s \in Srv : msg'[Current(s)'].kind = "snapshot"
                                          => Harmless(msg[Current(s)].snapshot)'
    BY DEF Converging
  <2>1. ~Ended
    BY <1>1, <1>2, <1>5, NoMsgFacts DEF Send, Ended, InstanceInv, Controlled
  <2>2. \A s \in Srv : /\ Current(s)' = Current(s) /\ logs'[Current(s)] = logs[Current(s)]
                       /\ lastApplied'[Current(s)] = lastApplied[Current(s)]
    BY <1>1 DEF Send, Current
  <2>3. ASSUME NEW s \in Srv
        PROVE  /\ Current(s) \in Inst /\ Kept(s).last <= Kept(s)'.last
               /\ Kept(s)' = Kept(s) \/ Kept(s)' = sn
               /\ Kept(s).last \in Nat /\ Kept(s)'.last \in Nat
               /\ lastApplied[Current(s)] \in Nat
    <3>1. Current(s) \in Inst /\ (Current(s) = i => i[1] = s)
      BY <1>2, CurrentFacts DEF TypeOK
    <3>2. /\ Kept(s) \in Snaps /\ lastApplied[Current(s)] \in 0..MaxIndex
          /\ Kept(s).last \in Nat /\ lastApplied[Current(s)] \in Nat /\ sn.last \in Nat
      BY <1>2, <1>3, <3>1, SnapFacts, Bounds DEF Kept, TypeOK
    <3>3. CASE Current(s) # i \/ life[s] # "up"
      BY <1>1, <1>2, <1>5, <2>2, <3>1, <3>2, <3>3 DEF Send, Kept
    <3>4. CASE Current(s) = i /\ life[s] = "up"
      <4>1. Kept(s) = snap[i] /\ Kept(s)' = sn
        BY <1>1, <1>2, <1>5, <2>2, <3>4 DEF Send, Kept
      <4>2. snap[i].last <= next[i] /\ next[i] \in Nat
        BY <1>2, Bounds DEF InstanceInv, InSync, TypeOK
      <4>3. QED
        BY <1>1, <3>1, <3>2, <4>1, <4>2
    <3>5. QED
      BY <3>3, <3>4
  <2>4. \A n \in Nat : Held(n) => Held(n)'
    BY <2>2, <2>3 DEF Held
  <2>5. \A x \in Snaps : Harmless(x) => Harmless(x)'
    <3> SUFFICES ASSUME NEW x \in Snaps, Harmless(x)
                 PROVE  Held(x.last)' /\ \A u \in Srv : Matches(x.xlog, logs[Current(u)])'
      BY DEF Harmless
    <3>1. x.last \in Nat
      BY SnapFacts, Bounds
    <3>2. QED
      BY <2>2, <2>4, <3>1 DEF Harmless, Matches
  <2>6. LogsMatch'
    BY <2>1, <2>2 DEF IInv, Converging, LogsMatch, Matches
  <2>7. Kept(t) = sn /\ Harmless(sn)
    BY <1>1, <2>1 DEF Kept, IInv, Converging
  <2>8. \A s \in Srv : Kept(s)' \in Snaps /\ Kept(s) \in Snaps /\ Harmless(Kept(s))
    BY <1>2, <1>3, <2>1, <2>3, CurrentFacts DEF IInv, Converging, Kept, TypeOK
  <2>9. ASSUME NEW s \in Srv
        PROVE  Harmless(Kept(s))'
    <3>1. PICK x \in Snaps : x = Kept(s)' /\ Harmless(x)
      BY <2>3, <2>7, <2>8, <1>3
    <3>2. Harmless(x)'
      BY <2>5, <3>1
    <3>3. QED
      BY <3>1, <3>2 DEF Harmless
  <2>10. ASSUME NEW s \in Srv, msg'[Current(s)'].kind = "snapshot"
         PROVE  Harmless(msg[Current(s)].snapshot)'
    <3>1. /\ msg'[Current(s)'].snapshot \in Snaps
          /\ Harmless(sn) /\ (msg[Current(s)].kind = "snapshot" =>
                                Harmless(msg[Current(s)].snapshot))
      BY <1>2, <1>6, <2>1, <2>2, <2>3, <2>7 DEF TypeOK, Msgs, IInv, Converging
    <3>2. PICK x \in Snaps : x = msg'[Current(s)'].snapshot /\ Harmless(x)
      <4>1. CASE Current(s) = i
        BY <1>3, <1>4, <1>5, <2>2, <2>7, <4>1
      <4>2. CASE Current(s) # i
        BY <1>5, <2>2, <2>3, <2>10, <3>1, <4>2
      <4>3. QED
        BY <4>1, <4>2
    <3>3. Harmless(x)'
      BY <2>5, <3>2
    <3>4. QED
      BY <3>2, <3>3 DEF Harmless
  <2>11. QED
    BY <2>6, <2>9, <2>10
<1>11. NoFalseAlarm'
  BY <1>1 DEF Send, NoFalseAlarm
<1>12. QED
  BY <1>6, <1>7, <1>8, <1>9, <1>10, <1>11 DEF IInv

-----------------------------------------------------------------------------
(* The tester.                                                             *)

LEMMA ShutdownKeeps ==
  ASSUME IInv, exit = "no", UNCHANGED test, NEW s \in Srv, Shutdown(s)
  PROVE  IInv'
<1>1. /\ TypeOK /\ Current(s) \in Inst /\ InstanceInv(Current(s)) /\ life[s] = "up"
  BY CurrentFacts DEF IInv, TypeOK, Shutdown, Step
<1>2. /\ saved'[s] = snap[Current(s)] /\ life'[s] = "copied"
      /\ \A t \in Srv : t # s => saved'[t] = saved[t] /\ life'[t] = life[t]
  BY <1>1 DEF Shutdown, Step, TypeOK
<1>3. TypeOK'
  BY <1>1 DEF Shutdown, Step, TypeOK
<1>4. ASSUME NEW j \in Inst
      PROVE  InstanceInv(j)'
  <2>1. /\ life'[j[1]] = "made" <=> life[j[1]] = "made"
        /\ life[j[1]] = "made" => saved'[j[1]] = saved[j[1]]
    BY <1>1, <1>2, <1>4, InstFacts
  <2>2. QED
    BY <1>4, <2>1, OtherInstance DEF Shutdown, IInv
<1>5. ASSUME NEW t \in Srv
      PROVE  ServerInv(t)'
  <2>1. CASE t # s
    BY <1>2, <1>5, <2>1, OtherServer DEF Shutdown, IInv
  <2>2. CASE t = s
    <3>1. Current(s)' = Current(s) /\ ServerInv(s)
      BY DEF Shutdown, Current, IInv
    <3>2. /\ ~Snap => saved'[s] = NoSnap
          /\ ~Faulty /\ Whole => Right(saved[s].xlog)'
      BY <1>1, <1>2 DEF InstanceInv, InSync, HoldsRight, Right
    <3>3. QED
      BY <1>2, <2>2, <3>1, <3>2 DEF Shutdown, ServerInv, Snap, Faulty
  <2>3. QED
    BY <2>1, <2>2
<1>6. Converging'
  <2>1. \A t \in Srv : Kept(t)' = Kept(t)
    BY <1>1, <1>2 DEF Shutdown, Kept, Current
  <2>2. QED
    BY <2>1, StillConverging DEF Shutdown, IInv, Ended
<1>7. NoFalseAlarm'
  BY DEF Shutdown, NoFalseAlarm
<1>8. QED
  BY <1>3, <1>4, <1>5, <1>6, <1>7 DEF IInv

LEMMA KillKeeps ==
  ASSUME IInv, exit = "no", UNCHANGED test, NEW s \in Srv, Kill(s)
  PROVE  IInv'
<1>1. /\ TypeOK /\ Current(s) \in Inst /\ life[s] = "copied"
  BY CurrentFacts DEF IInv, TypeOK, Kill, Step
<1>2. /\ life'[s] = "killed" /\ ~raft'[Current(s)]
      /\ \A t \in Srv : t # s => life'[t] = life[t]
      /\ \A j \in Inst : raft'[j] = raft[j] \/ ~raft'[j]
  BY <1>1 DEF Kill, Step, TypeOK
<1>3. TypeOK'
  BY <1>1 DEF Kill, Step, TypeOK
<1>4. ASSUME NEW j \in Inst
      PROVE  InstanceInv(j)'
  <2>1. life'[j[1]] = "made" <=> life[j[1]] = "made"
    BY <1>1, <1>2, <1>4, InstFacts
  <2>2. QED
    BY <1>2, <1>4, <2>1, OtherInstance DEF Kill, IInv
<1>5. ASSUME NEW t \in Srv
      PROVE  ServerInv(t)'
  <2>1. CASE t # s
    <3>1. Current(t) \in Inst
      BY <1>1, CurrentFacts DEF TypeOK
    <3>2. raft'[Current(t)] = raft[Current(t)] \/ ~raft'[Current(t)]
      BY <1>2, <3>1
    <3>3. QED
      BY <1>2, <1>5, <2>1, <3>2, OtherServer DEF Kill, IInv
  <2>2. CASE t = s
    <3>1. Current(s)' = Current(s) /\ ServerInv(s)
      BY DEF Kill, Current, IInv
    <3>2. QED
      BY <1>1, <1>2, <2>2, <3>1 DEF Kill, ServerInv, Snap, Faulty, Right
  <2>3. QED
    BY <2>1, <2>2
<1>6. Converging'
  <2>1. \A t \in Srv : Kept(t)' = Kept(t)
    BY <1>1, <1>2 DEF Kill, Kept, Current
  <2>2. QED
    BY <2>1, StillConverging DEF Kill, IInv, Ended
<1>7. NoFalseAlarm'
  BY DEF Kill, NoFalseAlarm
<1>8. QED
  BY <1>3, <1>4, <1>5, <1>6, <1>7 DEF IInv

LEMMA KillRaftKeeps ==
  ASSUME IInv, exit = "no", UNCHANGED test, NEW s \in Srv, KillRaft(s)
  PROVE  IInv'
<1>1. /\ TypeOK /\ Current(s) \in Inst /\ life[s] = "killed"
  BY CurrentFacts DEF IInv, TypeOK, KillRaft, Step
<1>2. life'[s] = "down" /\ \A t \in Srv : t # s => life'[t] = life[t]
  BY <1>1 DEF KillRaft, Step, TypeOK
<1>3. TypeOK'
  BY <1>1 DEF KillRaft, Step, TypeOK
<1>4. ASSUME NEW j \in Inst
      PROVE  InstanceInv(j)'
  <2>1. life'[j[1]] = "made" <=> life[j[1]] = "made"
    BY <1>1, <1>2, <1>4, InstFacts
  <2>2. QED
    BY <1>4, <2>1, OtherInstance DEF KillRaft, IInv
<1>5. ASSUME NEW t \in Srv
      PROVE  ServerInv(t)'
  <2>1. CASE t # s
    BY <1>2, <1>5, <2>1, OtherServer DEF KillRaft, IInv
  <2>2. CASE t = s
    <3>1. Current(s)' = Current(s) /\ ServerInv(s)
      BY DEF KillRaft, Current, IInv
    <3>2. QED
      BY <1>1, <1>2, <2>2, <3>1 DEF KillRaft, ServerInv, Snap, Faulty, Right
  <2>3. QED
    BY <2>1, <2>2
<1>6. Converging'
  <2>1. \A t \in Srv : Kept(t)' = Kept(t)
    BY <1>1, <1>2 DEF KillRaft, Kept, Current
  <2>2. QED
    BY <2>1, StillConverging DEF KillRaft, IInv, Ended
<1>7. NoFalseAlarm'
  BY DEF KillRaft, NoFalseAlarm
<1>8. QED
  BY <1>3, <1>4, <1>5, <1>6, <1>7 DEF IInv

\* The instance is new and nothing of the others changes.
LEMMA newRfsrvKeeps ==
  ASSUME IInv, exit = "no", UNCHANGED test, NEW s \in Srv, newRfsrv(s)
  PROVE  IInv'
<1>a. srvs[s] + 1 \in 1..MaxGen
  BY Bounds DEF IInv, ServerInv, TypeOK, newRfsrv, Step
<1>b. PICK i \in Inst : i = <<s, srvs[s] + 1>>
  BY <1>a, InstFacts
<1>c. PICK sn \in Snaps : sn = saved[s]
  BY DEF IInv, TypeOK
<1>1. /\ TypeOK /\ i[1] = s /\ i[2] = srvs[s] + 1 /\ InstanceInv(i)
      /\ ServerInv(s) /\ life[s] = "down" /\ srvs[s] \in Nat
      /\ sn.last \in 0..MaxIndex /\ sn.last \in Nat /\ sn.xlog \in Maps
  BY <1>a, <1>b, InstFacts, SnapFacts, Bounds DEF IInv, TypeOK, newRfsrv, Step
<1>2. /\ snap' = [snap EXCEPT ![i] = sn] /\ next' = [next EXCEPT ![i] = sn.last]
      /\ life' = [life EXCEPT ![s] = "made"]
      /\ UNCHANGED <<srvs, saved, applyErr, raft, msg, pc, dead, exit>>
      /\ sn = saved[s]
  BY <1>b, <1>c DEF newRfsrv, Step
<1>3. /\ snap'[i] = sn /\ next'[i] = sn.last /\ life'[s] = "made"
      /\ \A t \in Srv : t # s => life'[t] = life[t]
      /\ \A j \in Inst : j # i => snap'[j] = snap[j] /\ next'[j] = next[j]
  BY <1>1, <1>2 DEF TypeOK
<1>4. /\ logs[i] = EmptyMap /\ lastApplied[i] = 0 /\ pc[i] = "start" /\ msg[i] = NoMsg
  BY <1>1 DEF InstanceInv, Controlled, Newest
<1>5. /\ logs' \in [Inst -> Maps] /\ lastApplied' \in [Inst -> 0..MaxIndex]
      /\ logs'[i] = sn.xlog /\ lastApplied'[i] = sn.last
      /\ \A j \in Inst : j # i => logs'[j] = logs[j] /\ lastApplied'[j] = lastApplied[j]
  <2>1. ingestSaved(i, sn)
    BY <1>b, <1>c DEF newRfsrv
  <2>2. CASE Snap /\ sn # NoSnap
    BY <1>1, <2>1, <2>2 DEF ingestSaved, ingestSnap, TypeOK
  <2>3. CASE ~(Snap /\ sn # NoSnap)
    <3>1. sn = NoSnap
      BY <1>1, <1>2, <2>3 DEF ServerInv
    <3>2. QED
      BY <1>1, <1>4, <2>1, <2>3, <3>1, NoSnapFacts DEF ingestSaved, TypeOK
  <2>4. QED
    BY <2>2, <2>3
<1>6. TypeOK'
  BY <1>1, <1>2, <1>5 DEF TypeOK
<1>7. \A t \in Srv : /\ Current(t)' = Current(t) /\ Current(t) \in Inst /\ Current(t) # i
                     /\ Kept(t)' = Kept(t)
  <2>1. \A t \in Srv : /\ Current(t) \in Inst /\ Current(t)[1] = t /\ Current(t)[2] = srvs[t]
                       /\ Current(t)' = Current(t)
    BY <1>1, <1>2, CurrentFacts DEF TypeOK, Current
  <2>2. \A t \in Srv : Current(t) # i
    BY <1>1, <2>1
  <2>3. QED
    BY <1>1, <1>2, <1>3, <2>1, <2>2 DEF Kept
<1>8. ASSUME NEW j \in Inst, j # i
      PROVE  InstanceInv(j)'
  <2>1. CASE j[1] # s
    <3>1. life'[j[1]] = life[j[1]]
      BY <1>3, <2>1, <1>8, InstFacts
    <3>2. QED
      BY <1>2, <1>3, <1>5, <1>8, <3>1, OtherInstance DEF IInv
  <2>2. CASE j[1] = s
    <3>1. /\ j[2] # srvs[s] + 1 /\ j[2] \in Nat /\ InstanceInv(j)
      BY <1>b, <1>1, <1>8, <2>2, InstFacts DEF IInv
    <3>2. Controlled(j)'
      <4>1. /\ j[2] > Newest(s)' => j[2] > Newest(s)
            /\ Newest(s)' = srvs[s] + 1
        BY <1>1, <1>2, <1>3, <3>1 DEF Newest
      <4>2. QED
        BY <1>2, <1>3, <1>5, <1>8, <2>2, <3>1, <4>1 DEF InstanceInv, Controlled
    <3>3. InSync(j)'
      BY <1>2, <1>3, <1>5, <1>8, <3>1 DEF InstanceInv, InSync
    <3>4. HoldsRight(j)'
      BY <1>2, <1>3, <1>5, <1>8, <3>1 DEF InstanceInv, HoldsRight, Right
    <3>5. Undisturbed(j)'
      BY <1>2, <1>3, <1>5, <1>8, <3>1 DEF InstanceInv, Undisturbed
    <3>6. QED
      BY <3>2, <3>3, <3>4, <3>5 DEF InstanceInv
  <2>3. QED
    BY <2>1, <2>2
<1>9. InstanceInv(i)'
  <2>1. /\ pc'[i] = "start" /\ msg'[i] = NoMsg /\ i[2] > srvs'[i[1]]
        /\ ~(i[2] < srvs'[i[1]]) /\ i[2] # srvs'[i[1]]
    BY <1>1, <1>2, <1>4
  <2>2. Controlled(i)'
    <3>1. Newest(i[1])' = i[2] /\ ~(i[2] > Newest(i[1])')
      BY <1>1, <1>2, <1>3 DEF Newest
    <3>2. AsMade(i, saved[i[1]])'
      BY <1>1, <1>2, <1>3, <1>5, <2>1 DEF AsMade
    <3>3. QED
      BY <2>1, <3>1, <3>2, NoMsgFacts DEF Controlled
  <2>3. InSync(i)'
    <3>1. ~Snap => sn = NoSnap
      BY <1>1, <1>2 DEF ServerInv
    <3>2. QED
      BY <1>1, <1>2, <1>3, <1>5, <2>1, <3>1, NoMsgFacts, NoSnapFacts DEF InSync
  <2>4. HoldsRight(i)'
    <3>1. ~Faulty /\ Whole => Right(sn.xlog)
      BY <1>1, <1>2 DEF ServerInv
    <3>2. QED
      BY <1>3, <1>5, <2>1, <3>1, NoMsgFacts, NoSnapFacts, EmptyMapFacts DEF HoldsRight, Right
  <2>5. Undisturbed(i)'
    BY <2>1, NoMsgFacts DEF Undisturbed
  <2>6. QED
    BY <2>2, <2>3, <2>4, <2>5 DEF InstanceInv
<1>10. ASSUME NEW t \in Srv
       PROVE  ServerInv(t)'
  <2>1. CASE t # s
    BY <1>2, <1>3, <1>5, <1>7, <1>10, <2>1, OtherServer DEF IInv
  <2>2. CASE t = s
    BY <1>1, <1>2, <1>3, <1>5, <1>7, <2>2 DEF ServerInv, Right
  <2>3. QED
    BY <2>1, <2>2
<1>11. Converging'
  BY <1>2, <1>5, <1>7, StillConverging DEF IInv, Ended
<1>12. NoFalseAlarm'
  BY <1>2 DEF NoFalseAlarm
<1>13. QED
  BY <1>6, <1>8, <1>9, <1>10, <1>11, <1>12 DEF IInv

LEMMA mksrvKeeps ==
  ASSUME IInv, exit = "no", UNCHANGED test, NEW s \in Srv, mksrv(s)
  PROVE  IInv'
<1>a. srvs[s] + 1 \in 1..MaxGen
  BY Bounds DEF IInv, ServerInv, TypeOK, mksrv, Step
<1>b. PICK i \in Inst : i = <<s, srvs[s] + 1>>
  BY <1>a, InstFacts
<1>c. PICK sn \in Snaps : sn = saved[s]
  BY DEF IInv, TypeOK
<1>1. /\ TypeOK /\ i[1] = s /\ i[2] = srvs[s] + 1 /\ InstanceInv(i)
      /\ Current(s) \in Inst /\ ServerInv(s) /\ life[s] = "made"
      /\ srvs[s] \in Nat /\ sn.last \in 0..MaxIndex /\ sn.last \in Nat
      /\ sn.xlog \in Maps
  BY <1>a, <1>b, InstFacts, CurrentFacts, SnapFacts, Bounds DEF IInv, TypeOK, mksrv, Step
<1>2. /\ srvs' = [srvs EXCEPT ![s] = srvs[s] + 1] /\ life' = [life EXCEPT ![s] = "up"]
      /\ UNCHANGED <<saved, rfsrvVars, raftVars, exit>>
      /\ sn = saved[s]
  BY <1>c DEF mksrv, Step
<1>3. /\ srvs'[s] = srvs[s] + 1 /\ life'[s] = "up"
      /\ \A t \in Srv : t # s => srvs'[t] = srvs[t] /\ life'[t] = life[t]
  BY <1>1, <1>2 DEF TypeOK
<1>4. AsMade(i, sn) /\ (~Snap => sn = NoSnap /\ snap[i] = NoSnap /\ lastApplied[i] = 0)
  <2>1. i[2] > srvs[i[1]] /\ i[2] = Newest(i[1])
    BY <1>1 DEF Newest
  <2>2. QED
    BY <1>1, <1>2, <2>1 DEF InstanceInv, Controlled, InSync, ServerInv
<1>5. Whole => /\ logs[i] = sn.xlog /\ snap[i] = sn /\ lastApplied[i] = sn.last
               /\ msg[i].kind # "snapshot"
  <2>1. CASE Snap
    BY <1>1, <1>4, <2>1, NoMsgFacts DEF AsMade, InstanceInv, InSync, Controlled
  <2>2. CASE ~Snap
    BY <1>1, <1>4, <2>2, NoSnapFacts DEF AsMade, InstanceInv, Controlled
  <2>3. QED
    BY <2>1, <2>2
<1>6. TypeOK'
  BY <1>a, <1>1, <1>2 DEF TypeOK
<1>7. \A t \in Srv : /\ Current(t)' = IF t = s THEN i ELSE Current(t)
                     /\ Current(t) \in Inst /\ Current(t) # i
  <2>1. \A t \in Srv : Current(t)' = IF t = s THEN i ELSE Current(t)
    BY <1>b, <1>3 DEF Current
  <2>2. \A t \in Srv : Current(t) \in Inst /\ Current(t)[1] = t /\ Current(t)[2] = srvs[t]
    BY <1>1, CurrentFacts DEF TypeOK
  <2>3. QED
    BY <1>1, <2>1, <2>2
<1>8. ASSUME NEW j \in Inst, j # i
      PROVE  InstanceInv(j)'
  <2>1. CASE j[1] # s
    <3>1. srvs'[j[1]] = srvs[j[1]] /\ life'[j[1]] = life[j[1]]
      BY <1>3, <2>1, <1>8, InstFacts
    <3>2. QED
      BY <1>2, <1>8, <3>1, OtherInstance DEF IInv
  <2>2. CASE j[1] = s
    <3>1. /\ j[2] # srvs[s] + 1 /\ j[2] \in Nat /\ InstanceInv(j)
          /\ j[2] = srvs[s] => j = Current(s)
      BY <1>b, <1>1, <1>8, <2>2, InstFacts, CurrentFacts DEF TypeOK, IInv
    <3>2. Controlled(j)'
      <4>1. j[2] < srvs'[s] => ~raft[j]
        <5>1. j[2] < srvs'[s] => j[2] < srvs[s] \/ j[2] = srvs[s]
          BY <1>1, <1>3, <3>1
        <5>2. QED
          BY <1>1, <2>2, <3>1, <5>1 DEF ServerInv, InstanceInv, Controlled
      <4>2. /\ Newest(s)' = srvs'[s] /\ Newest(s) = srvs'[s]
            /\ ~(j[2] > srvs'[s] /\ j[2] = srvs'[s])
        BY <1>1, <1>3, <3>1 DEF Newest
      <4>3. QED
        BY <1>2, <1>3, <1>8, <2>2, <3>1, <4>1, <4>2 DEF InstanceInv, Controlled
    <3>3. InSync(j)'
      BY <1>2, <3>1 DEF InstanceInv, InSync
    <3>4. HoldsRight(j)'
      BY <1>2, <3>1 DEF InstanceInv, HoldsRight, Right
    <3>5. Undisturbed(j)'
      <4>1. ~Faulty /\ Prompt /\ ~Early => pc[j] \notin {"got", "snapshot"}
        <5>1. CASE j = Current(s)
          BY <5>1 DEF mksrv
        <5>2. CASE j # Current(s)
          BY <2>2, <3>1, <5>2 DEF InstanceInv, Undisturbed
        <5>3. QED
          BY <5>1, <5>2
      <4>2. j[2] # srvs'[s]
        BY <1>3, <3>1
      <4>3. QED
        BY <1>2, <2>2, <3>1, <4>1, <4>2 DEF InstanceInv, Undisturbed
    <3>6. QED
      BY <3>2, <3>3, <3>4, <3>5 DEF InstanceInv
  <2>3. QED
    BY <2>1, <2>2
<1>9. InstanceInv(i)'
  <2>1. i[2] = srvs'[i[1]] /\ ~(i[2] < srvs'[i[1]]) /\ ~(i[2] > srvs'[i[1]])
    BY <1>1, <1>3
  <2>2. Controlled(i)'
    <3>1. Newest(i[1])' = srvs'[i[1]]
      BY <1>1, <1>3 DEF Newest
    <3>2. QED
      BY <1>1, <1>2, <2>1, <3>1 DEF InstanceInv, Controlled
  <2>3. InSync(i)'
    BY <1>1, <1>2 DEF InstanceInv, InSync
  <2>4. HoldsRight(i)'
    BY <1>1, <1>2 DEF InstanceInv, HoldsRight, Right
  <2>5. Undisturbed(i)'
    <3>1. ~Early /\ ~Snap => next[i] = 0 /\ pc[i] \in {"start", "read", "returned"}
      BY <1>4, NoSnapFacts DEF AsMade
    <3>2. ~Early => ~msg[i].err /\ pc[i] \notin {"got", "snapshot"}
      BY <1>1, <1>4, NoMsgFacts DEF AsMade, InstanceInv, Controlled
    <3>3. QED
      BY <1>2, <3>1, <3>2 DEF Undisturbed
  <2>6. QED
    BY <2>2, <2>3, <2>4, <2>5 DEF InstanceInv
<1>10. ASSUME NEW t \in Srv
       PROVE  ServerInv(t)'
  <2>1. CASE t # s
    BY <1>2, <1>3, <1>7, <1>10, <2>1, OtherServer DEF IInv
  <2>2. CASE t = s
    <3>1. Current(s)' = i /\ 1..sn.last \subseteq DOMAIN sn.xlog
      BY <1>1, <1>7, SnapFacts
    <3>2. Whole => 1..lastApplied[i] \subseteq DOMAIN logs[i]
      BY <1>5, <3>1
    <3>3. QED
      BY <1>1, <1>2, <1>3, <2>2, <3>1, <3>2 DEF ServerInv, Right
  <2>3. QED
    BY <2>1, <2>2
<1>11. Converging'
  <2> SUFFICES ASSUME ~Ended', Whole
               PROVE  /\ LogsMatch'
                      /\ \A t \in Srv : Harmless(Kept(t))'
                      /\ \A t \in Srv : msg'[Current(t)'].kind = "snapshot"
                                          => Harmless(msg[Current(t)].snapshot)'
    BY DEF Converging
  <2>1. ~Ended
    BY <1>2 DEF Ended
  <2>2. Kept(s) = sn /\ Harmless(sn)
    BY <1>1, <1>2, <2>1 DEF Kept, IInv, Converging
  <2>3. /\ \A t \in Srv : Kept(t)' = Kept(t) /\ Kept(t) \in Snaps /\ Kept(t).last \in Nat
        /\ \A t \in Srv : lastApplied[Current(t)] \in Nat
    <3>1. \A t \in Srv : Kept(t)' = Kept(t)
      BY <1>1, <1>2, <1>3, <1>5, <1>7 DEF Kept
    <3>2. \A t \in Srv : Kept(t) \in Snaps /\ lastApplied[Current(t)] \in 0..MaxIndex
      BY <1>1, <1>7 DEF Kept, TypeOK
    <3>3. QED
      BY <3>1, <3>2, SnapFacts, Bounds
  <2>4. \A t \in Srv : logs'[Current(t)'] = IF t = s THEN sn.xlog ELSE logs[Current(t)]
    BY <1>2, <1>5, <1>7
  <2>5. \A n \in Nat : Held(n) => Held(n)'
    <3> SUFFICES ASSUME NEW n \in Nat, NEW u \in Srv,
                        n <= lastApplied[Current(u)], n <= Kept(u).last
                 PROVE  n <= lastApplied'[Current(u)'] /\ n <= Kept(u)'.last
      BY DEF Held
    <3>1. QED
      BY <1>2, <1>5, <1>7, <2>2, <2>3
  \* Of two snapshots that do no harm, the entries that both have are in the log
  \* of a server that holds all of the one.
  <2>6. \A x, y \in Snaps : Harmless(x) /\ Harmless(y) => Matches(x.xlog, y.xlog)
    BY HarmlessMatch DEF IInv
  <2>7. \A x \in Snaps : Harmless(x) => Harmless(x)'
    <3> SUFFICES ASSUME NEW x \in Snaps, Harmless(x)
                 PROVE  Held(x.last)' /\ \A t \in Srv : Matches(x.xlog, logs[Current(t)])'
      BY DEF Harmless
    <3>1. x.last \in Nat /\ Held(x.last) /\ Matches(x.xlog, sn.xlog)
          /\ \A t \in Srv : Matches(x.xlog, logs[Current(t)])
      BY <1>1, <2>2, <2>6, SnapFacts, Bounds DEF Harmless
    <3>2. QED
      BY <2>4, <2>5, <3>1 DEF Matches
  <2>8. LogsMatch'
    <3>1. LogsMatch /\ \A t \in Srv : Matches(sn.xlog, logs[Current(t)])
      BY <2>1, <2>2 DEF IInv, Converging, Harmless
    <3>2. QED
      BY <2>4, <3>1 DEF LogsMatch, Matches
  <2>9. ASSUME NEW t \in Srv
        PROVE  Harmless(Kept(t))'
    <3>1. PICK x \in Snaps : x = Kept(t)' /\ Harmless(x)
      BY <2>1, <2>3 DEF IInv, Converging
    <3>2. Harmless(x)'
      BY <2>7, <3>1
    <3>3. QED
      BY <3>1, <3>2 DEF Harmless
  <2>10. ASSUME NEW t \in Srv, msg'[Current(t)'].kind = "snapshot"
         PROVE  Harmless(msg[Current(t)].snapshot)'
    <3>1. t # s
      BY <1>2, <1>5, <1>7, <2>10
    <3>2. PICK x \in Snaps : x = msg'[Current(t)'].snapshot /\ Harmless(x)
      BY <1>1, <1>2, <1>7, <2>1, <2>10, <3>1 DEF TypeOK, Msgs, IInv, Converging
    <3>3. Harmless(x)'
      BY <2>7, <3>2
    <3>4. QED
      BY <3>2, <3>3 DEF Harmless
  <2>11. QED
    BY <2>8, <2>9, <2>10
<1>12. NoFalseAlarm'
  BY <1>2 DEF NoFalseAlarm
<1>13. QED
  BY <1>6, <1>8, <1>9, <1>10, <1>11, <1>12 DEF IInv

-----------------------------------------------------------------------------
(* The appliers.                                                           *)

LEMMA applierStartKeeps ==
  ASSUME IInv, exit = "no", UNCHANGED test, NEW i \in Inst, applierStart(i)
  PROVE  IInv'
<1>1. /\ TypeOK /\ InstanceInv(i) /\ pc[i] = "start" /\ i[1] \in Srv
      /\ ~(i[2] > Newest(i[1])) /\ msg[i] = NoMsg
  <2>1. i[2] \in Nat /\ i[1] \in Srv /\ Newest(i[1]) \in Nat
    BY InstFacts, Bounds DEF IInv, TypeOK, Newest
  <2>2. QED
    BY <2>1 DEF IInv, applierStart, InstanceInv, Controlled
<1>2. /\ pc'[i] \in {"returned", "read"}
      /\ \A j \in Inst : j # i => pc'[j] = pc[j]
  BY <1>1 DEF applierStart, TypeOK
<1>3. TypeOK'
  BY <1>1 DEF applierStart, TypeOK
<1>4. ASSUME NEW j \in Inst
      PROVE  InstanceInv(j)'
  <2>1. CASE j # i
    BY <1>2, <1>4, <2>1, OtherInstance DEF applierStart, IInv
  <2>2. CASE j = i
    <3>1. Controlled(i)'
      BY <1>1, <1>2, NoMsgFacts DEF applierStart, InstanceInv, Controlled, AsMade, Newest
    <3>2. InSync(i)'
      BY <1>1, <1>2, NoMsgFacts DEF applierStart, InstanceInv, InSync, Snap
    <3>3. HoldsRight(i)'
      BY <1>1 DEF applierStart, InstanceInv, HoldsRight, Faulty, Right
    <3>4. Undisturbed(i)'
      BY <1>1, <1>2 DEF applierStart, InstanceInv, Undisturbed, Faulty, Prompt, Snap
    <3>5. QED
      BY <2>2, <3>1, <3>2, <3>3, <3>4 DEF InstanceInv
  <2>3. QED
    BY <2>1, <2>2
<1>5. ASSUME NEW t \in Srv
      PROVE  ServerInv(t)'
  BY <1>5, OtherServer DEF applierStart, IInv
<1>6. Converging'
  <2>1. \A t \in Srv : Kept(t)' = Kept(t)
    BY DEF applierStart, Kept, Current
  <2>2. QED
    BY <2>1, StillConverging DEF applierStart, IInv, Ended
<1>7. NoFalseAlarm'
  BY DEF applierStart, NoFalseAlarm
<1>8. QED
  BY <1>3, <1>4, <1>5, <1>6, <1>7 DEF IInv

\* What checkLogs() does to the logs.
LEMMA checkLogsFacts ==
  ASSUME TypeOK, NEW s \in Srv, NEW k \in Index, NEW v \in Vals, NEW m,
         m.index = k, m.val = v, checkLogs(s, m)
  PROVE  /\ logs' \in [Inst -> Maps]
         /\ DOMAIN logs'[Current(s)] = DOMAIN logs[Current(s)] \cup {k}
         /\ logs'[Current(s)][k] = v
         /\ \A n \in DOMAIN logs[Current(s)] :
              n # k => logs'[Current(s)][n] = logs[Current(s)][n]
         /\ \A j \in Inst : j # Current(s) => logs'[j] = logs[j]
         /\ \A j \in Inst : DOMAIN logs[j] \subseteq DOMAIN logs'[j]
         /\ k = v => \A j \in Inst : Right(logs[j]) => Right(logs'[j])
<1>1. Current(s) \in Inst /\ logs \in [Inst -> Maps] /\ logs[Current(s)] \in Maps
  BY CurrentFacts DEF TypeOK
<1>2. /\ Put(logs[Current(s)], k, v) \in Maps
      /\ DOMAIN Put(logs[Current(s)], k, v) = DOMAIN logs[Current(s)] \cup {k}
      /\ Put(logs[Current(s)], k, v)[k] = v
      /\ \A j \in DOMAIN logs[Current(s)] :
           j # k => Put(logs[Current(s)], k, v)[j] = logs[Current(s)][j]
  BY <1>1, PutFacts
<1>3. /\ logs' = [logs EXCEPT ![Current(s)] = Put(logs[Current(s)], k, v)]
  BY DEF checkLogs
<1>4. /\ logs'[Current(s)] = Put(logs[Current(s)], k, v)
      /\ \A j \in Inst : j # Current(s) => logs'[j] = logs[j]
      /\ logs' \in [Inst -> Maps]
  BY <1>1, <1>2, <1>3
<1>5. \A j \in Inst : DOMAIN logs[j] \subseteq DOMAIN logs'[j]
  BY <1>2, <1>4
<1>6. k = v => \A j \in Inst : Right(logs[j]) => Right(logs'[j])
  BY <1>2, <1>4 DEF Right
<1>7. QED
  BY <1>2, <1>4, <1>5, <1>6

\* A command that checkLogs() has nothing against agrees with every snapshot that
\* may come back, because some server holds what the snapshot has at its index.
LEMMA CheckedConverging ==
  ASSUME IInv, UNCHANGED <<test, srvs>>, NEW s \in Srv, NEW k \in Index, NEW v \in Vals, NEW m,
         m.index = k, m.val = v, checkLogs(s, m),
         ~Ended' => ~Ended /\ ~Disagrees(s, m),
         lastApplied' \in [Inst -> 0..MaxIndex],
         \A t \in Srv : /\ lastApplied[Current(t)] <= lastApplied'[Current(t)]
                        /\ Kept(t)' = Kept(t)
                        /\ \/ msg'[Current(t)].kind # "snapshot"
                           \/ msg'[Current(t)] = msg[Current(t)]
  PROVE  Converging'
<1> SUFFICES ASSUME ~Ended', Whole
             PROVE  /\ LogsMatch'
                    /\ \A t \in Srv : Harmless(Kept(t))'
                    /\ \A t \in Srv : msg'[Current(t)'].kind = "snapshot"
                                        => Harmless(msg[Current(t)].snapshot)'
  BY DEF Converging
<1>1. ~Ended /\ ~Disagrees(s, m) /\ TypeOK
  BY DEF IInv
<1>2. \A t \in Srv : /\ Current(t)' = Current(t) /\ Current(t) \in Inst
                     /\ Current(t) = Current(s) => t = s
                     /\ lastApplied[Current(t)] \in Nat /\ lastApplied'[Current(t)] \in Nat
                     /\ Kept(t) \in Snaps /\ Kept(t).last \in Nat
  <2>1. \A t \in Srv : Current(t)' = Current(t) /\ Current(t) \in Inst /\ Current(t)[1] = t
    BY <1>1, CurrentFacts DEF Current, TypeOK
  <2>2. \A t \in Srv : Kept(t) \in Snaps /\ lastApplied[Current(t)] \in 0..MaxIndex
    BY <1>1, <2>1 DEF Kept, TypeOK
  <2>3. QED
    BY <2>1, <2>2, SnapFacts, Bounds
<1>3. /\ DOMAIN logs'[Current(s)] = DOMAIN logs[Current(s)] \cup {k}
      /\ logs'[Current(s)][k] = v
      /\ \A n \in DOMAIN logs[Current(s)] :
           n # k => logs'[Current(s)][n] = logs[Current(s)][n]
      /\ \A j \in Inst : j # Current(s) => logs'[j] = logs[j]
  BY <1>1, checkLogsFacts
<1>4. \A t \in Srv : k \in DOMAIN logs[Current(t)] => logs[Current(t)][k] = v
  BY <1>1 DEF Disagrees
<1>5. LogsMatch'
  <2>1. LogsMatch
    BY <1>1 DEF IInv, Converging
  <2> SUFFICES ASSUME NEW t \in Srv, NEW u \in Srv,
                      NEW n \in Index \cap DOMAIN logs'[Current(t)] \cap DOMAIN logs'[Current(u)]
               PROVE  logs'[Current(t)][n] = logs'[Current(u)][n]
    BY <1>2 DEF LogsMatch, Matches
  <2>2. CASE n = k
    BY <1>2, <1>3, <1>4, <2>2
  <2>3. CASE n # k
    <3>1. /\ n \in DOMAIN logs[Current(t)] /\ logs'[Current(t)][n] = logs[Current(t)][n]
          /\ n \in DOMAIN logs[Current(u)] /\ logs'[Current(u)][n] = logs[Current(u)][n]
      BY <1>2, <1>3, <2>3
    <3>2. QED
      BY <2>1, <3>1 DEF LogsMatch, Matches
  <2>4. QED
    BY <2>2, <2>3
<1>6. ASSUME NEW x \in Snaps, Harmless(x)
      PROVE  Harmless(x)'
  <2>1. PICK u \in Srv : x.last <= lastApplied[Current(u)] /\ x.last <= Kept(u).last
    BY <1>6 DEF Harmless, Held
  <2>2. x.last \in Nat /\ Index \cap DOMAIN x.xlog = 1..x.last
    BY SnapFacts, Bounds
  <2>3. x.last <= lastApplied'[Current(u)'] /\ x.last <= Kept(u)'.last
    BY <1>2, <2>1, <2>2
  <2>4. k \in DOMAIN x.xlog => x.xlog[k] = v
    <3> SUFFICES ASSUME k \in DOMAIN x.xlog
                 PROVE  x.xlog[k] = v
      OBVIOUS
    <3>1. k \in 1..lastApplied[Current(u)]
      BY <1>2, <2>1, <2>2
    <3>2. k \in DOMAIN logs[Current(u)]
      BY <3>1 DEF IInv, ServerInv
    <3>3. QED
      BY <1>4, <1>6, <3>2 DEF Harmless, Matches
  <2>5. ASSUME NEW t \in Srv, NEW n \in Index \cap DOMAIN x.xlog \cap DOMAIN logs'[Current(t)]
        PROVE  x.xlog[n] = logs'[Current(t)][n]
    <3>1. n # k => /\ n \in DOMAIN logs[Current(t)]
                   /\ logs'[Current(t)][n] = logs[Current(t)][n]
      BY <1>2, <1>3, <2>5
    <3>2. n = k => logs'[Current(t)][n] = v
      BY <1>2, <1>3, <1>4, <2>5
    <3>3. QED
      BY <1>6, <2>4, <2>5, <3>1, <3>2 DEF Harmless, Matches
  <2>6. QED
    BY <1>2, <2>3, <2>5 DEF Harmless, Held, Matches
<1>7. ASSUME NEW t \in Srv
      PROVE  Harmless(Kept(t))'
  <2>1. PICK x \in Snaps : x = Kept(t)' /\ Harmless(x)
    BY <1>1, <1>2 DEF IInv, Converging
  <2>2. Harmless(x)'
    BY <1>6, <2>1
  <2>3. QED
    BY <2>1, <2>2 DEF Harmless
<1>8. ASSUME NEW t \in Srv, msg'[Current(t)'].kind = "snapshot"
      PROVE  Harmless(msg[Current(t)].snapshot)'
  <2>1. PICK x \in Snaps : x = msg'[Current(t)'].snapshot /\ Harmless(x)
    BY <1>1, <1>2, <1>8 DEF TypeOK, Msgs, IInv, Converging
  <2>2. Harmless(x)'
    BY <1>6, <2>1
  <2>3. QED
    BY <2>1, <2>2 DEF Harmless
<1>9. QED
  BY <1>5, <1>7, <1>8

\* Peers that agree, read by prompt appliers, give checkLogs() nothing to report.
LEMMA NoCheckError ==
  ASSUME IInv, exit = "no", NEW i \in Inst, ~Faulty, Prompt, ~Early,
         pc[i] = "got", msg[i].kind = "command"
  PROVE  ~CheckError(i[1], msg[i])
<1> DEFINE k == msg[i].index
<1>1. /\ TypeOK /\ InstanceInv(i) /\ i[1] \in Srv /\ i = Current(i[1])
      /\ k \in Index /\ k = next[i] /\ msg[i].val = k
  BY InstFacts, CurrentFacts DEF IInv, TypeOK, InstanceInv, Controlled, HoldsRight, Undisturbed
<1>2. ~Disagrees(i[1], msg[i])
  <2>1. \A t \in Srv : Right(logs[Current(t)])
    BY <1>1, CurrentFacts DEF IInv, TypeOK, InstanceInv, HoldsRight
  <2>2. QED
    BY <1>1, <2>1 DEF Disagrees, Right
<1>3. ASSUME k > 1
      PROVE  Prevok(i[1], msg[i])
  <2>1. k \in Nat /\ k - 1 \in 1..next[i] /\ k - 1 # next[i]
    BY <1>1, <1>3, Bounds DEF Index
  <2>2. k - 1 \in DOMAIN logs[i]
    <3>1. CASE Snap
      <4>1. next[i] = lastApplied[i] + 1 /\ lastApplied[i] \in Nat
        BY <1>1, <3>1, Bounds DEF InstanceInv, InSync, TypeOK
      <4>2. k - 1 \in 1..lastApplied[i]
        BY <1>1, <2>1, <4>1
      <4>3. QED
        BY <1>1, <4>2 DEF IInv, ServerInv
    <3>2. CASE ~Snap
      <4>1. i[2] = srvs[i[1]]
        BY <1>1, CurrentFacts DEF TypeOK
      <4>2. QED
        BY <1>1, <2>1, <3>2, <4>1 DEF InstanceInv, Undisturbed
    <3>3. QED
      BY <3>1, <3>2
  <2>3. QED
    BY <1>1, <2>2 DEF Prevok
<1>4. QED
  BY <1>2, <1>3 DEF CheckError

\* An applier has put its command into the log of the instance in use, and every
\* other thing that it has changed is its own.
LEMMA AfterCheckLogs ==
  ASSUME IInv, exit = "no", UNCHANGED <<test, testerVars, raft, raftVars>>,
         NEW i \in Inst, pc[i] = "got", msg[i].kind = "command",
         checkLogs(i[1], msg[i]),
         lastApplied' \in [Inst -> 0..MaxIndex],
         Snap => lastApplied'[i] = msg[i].index, ~Snap => lastApplied'[i] = lastApplied[i],
         msg'[i].kind # "snapshot", Ended' \/ ~CheckError(i[1], msg[i]),
         \A j \in Inst : j # i => /\ lastApplied'[j] = lastApplied[j]
                                  /\ msg'[j] = msg[j] /\ pc'[j] = pc[j]
  PROVE  /\ logs' \in [Inst -> Maps]
         /\ \A j \in Inst : j # i => InstanceInv(j)'
         /\ \A t \in Srv : ServerInv(t)'
         /\ Converging'
         /\ ~Faulty /\ Whole => Right(logs'[i])
         /\ i[2] = srvs[i[1]] =>
              DOMAIN logs[i] \subseteq DOMAIN logs'[i] /\ next[i] \in DOMAIN logs'[i]
         /\ i[2] > srvs[i[1]] => Early /\ logs'[i] = logs[i]
<1>1. /\ TypeOK /\ InstanceInv(i) /\ i[1] \in Srv
      /\ msg[i].index \in Index /\ msg[i].val \in Vals /\ msg[i].index = next[i]
      /\ i[2] > srvs[i[1]] => Early
  <2>1. /\ TypeOK /\ InstanceInv(i) /\ i[1] \in Srv
        /\ msg[i].index \in Index /\ msg[i].val \in Vals /\ msg[i].index = next[i]
    BY InstFacts DEF IInv, InstanceInv, Controlled, TypeOK, Msgs
  <2>2. QED
    BY <2>1, BusyInUse
<1>2. PICK k \in Index, v \in Vals : k = msg[i].index /\ v = msg[i].val
  BY <1>1
<1>3. PICK s \in Srv : s = i[1]
  BY <1>1
<1>4. /\ Current(s) \in Inst /\ Current(s)[1] = s /\ Current(s)[2] = srvs[s]
      /\ i[2] = srvs[i[1]] => i = Current(s)
      /\ \A t \in Srv : Current(t) \in Inst /\ Current(t)' = Current(t)
      /\ \A t \in Srv : i = Current(t) => t = s
  BY <1>1, <1>3, CurrentFacts DEF TypeOK, Current
<1>5. /\ logs' \in [Inst -> Maps]
      /\ DOMAIN logs'[Current(s)] = DOMAIN logs[Current(s)] \cup {k}
      /\ \A j \in Inst : j # Current(s) => logs'[j] = logs[j]
      /\ \A j \in Inst : DOMAIN logs[j] \subseteq DOMAIN logs'[j]
      /\ k = v => \A j \in Inst : Right(logs[j]) => Right(logs'[j])
  <2>1. checkLogs(s, msg[i])
    BY <1>3
  <2>2. QED
    BY <1>1, <1>2, <2>1, checkLogsFacts
<1>6. \A j \in Inst : ~Faulty /\ Whole => Right(logs'[j])
  BY <1>1, <1>2, <1>5 DEF IInv, InstanceInv, HoldsRight
<1>7. ASSUME NEW j \in Inst, j # i
      PROVE  InstanceInv(j)'
  <2>1. \/ logs'[j] = logs[j]
        \/ j[2] = srvs[j[1]] /\ DOMAIN logs[j] \subseteq DOMAIN logs'[j]
    <3>1. CASE j # Current(s)
      BY <1>5, <1>7, <3>1
    <3>2. CASE j = Current(s)
      <4>1. j[2] \in Nat /\ j[2] = srvs[j[1]]
        BY <1>4, <1>7, <3>2, InstFacts
      <4>2. QED
        BY <1>5, <1>7, <4>1
    <3>3. QED
      BY <3>1, <3>2
  <2>2. QED
    BY <1>6, <1>7, <2>1, OtherInstance DEF IInv
<1>8. \A t \in Srv :
        /\ lastApplied[Current(t)] <= lastApplied'[Current(t)]
        /\ Whole => 1..lastApplied'[Current(t)] \subseteq DOMAIN logs'[Current(t)]
  <2> SUFFICES ASSUME NEW t \in Srv
               PROVE  /\ lastApplied[Current(t)] <= lastApplied'[Current(t)]
                      /\ Whole =>
                           1..lastApplied'[Current(t)] \subseteq DOMAIN logs'[Current(t)]
    OBVIOUS
  <2>1. /\ lastApplied[Current(t)] \in Nat /\ lastApplied'[Current(t)] \in Nat
        /\ Whole => 1..lastApplied[Current(t)] \subseteq DOMAIN logs[Current(t)]
    BY <1>1, <1>4, Bounds DEF TypeOK, IInv, ServerInv
  <2>2. CASE i = Current(t) /\ Snap
    <3>1. t = s /\ lastApplied'[i] = k /\ k = lastApplied[i] + 1
      BY <1>1, <1>2, <1>4, <2>2 DEF InstanceInv, InSync
    <3>2. 1..k = 1..lastApplied[i] \cup {k}
      BY <2>1, <2>2, <3>1
    <3>3. QED
      BY <1>4, <1>5, <2>1, <2>2, <3>1, <3>2
  <2>3. CASE ~(i = Current(t) /\ Snap)
    <3>1. lastApplied'[Current(t)] = lastApplied[Current(t)]
      BY <1>4, <2>3
    <3>2. QED
      BY <1>4, <1>5, <2>1, <3>1
  <2>4. QED
    BY <2>2, <2>3
<1>9. ASSUME NEW t \in Srv
      PROVE  ServerInv(t)'
  BY <1>4, <1>8, <1>9 DEF IInv, ServerInv, Snap, Faulty, Right
<1>10. Converging'
  <2>1. \A t \in Srv : Kept(t)' = Kept(t)
    BY <1>4 DEF Kept
  <2>2. \A t \in Srv : msg'[Current(t)].kind # "snapshot" \/ msg'[Current(t)] = msg[Current(t)]
    BY <1>4
  <2>3. ~Ended' => ~Ended /\ ~Disagrees(s, msg[i])
    <3>1. ~msg[i].err
      BY <1>1 DEF InstanceInv, Controlled
    <3>2. QED
      BY <1>3, <3>1 DEF Ended, CheckError
  <2>4. checkLogs(s, msg[i]) /\ srvs' = srvs
    BY <1>3
  <2>5. QED
    BY <1>2, <1>8, <2>1, <2>2, <2>3, <2>4, CheckedConverging
<1>11. i[2] > srvs[i[1]] => logs'[i] = logs[i]
  <2>1. i[2] \in Nat /\ srvs[i[1]] \in Nat
    BY <1>1, InstFacts, Bounds DEF TypeOK
  <2>2. QED
    BY <1>3, <1>4, <1>5, <2>1
<1>12. QED
  BY <1>1, <1>2, <1>4, <1>5, <1>6, <1>7, <1>9, <1>10, <1>11

LEMMA applierKeeps ==
  ASSUME IInv, exit = "no", UNCHANGED test, NEW i \in Inst, applier(i)
  PROVE  IInv'
<1>1. /\ TypeOK /\ InstanceInv(i) /\ i[1] \in Srv /\ ~Snap /\ pc[i] = "got"
      /\ msg[i].kind = "command"
  BY InstFacts DEF IInv, InstanceInv, Controlled, applier
<1>2. /\ msg'[i] = NoMsg /\ pc'[i] = "read"
      /\ \A j \in Inst : j # i => msg'[j] = msg[j] /\ pc'[j] = pc[j]
      /\ msg' \in [Inst -> Msgs]
      /\ pc' \in [Inst -> {"start", "read", "got", "snapshot", "returned"}]
  BY <1>1, NoMsgFacts DEF applier, ReadNext, TypeOK
<1>3. /\ exit' \in {"no", "fatal"} /\ applyErr' = applyErr
      /\ exit' = "no" <=> ~CheckError(i[1], msg[i])
  BY DEF applier, Fatal
<1>4. /\ logs' \in [Inst -> Maps]
      /\ \A j \in Inst : j # i => InstanceInv(j)'
      /\ \A t \in Srv : ServerInv(t)'
      /\ Converging'
      /\ ~Faulty /\ Whole => Right(logs'[i])
      /\ i[2] = srvs[i[1]] =>
           DOMAIN logs[i] \subseteq DOMAIN logs'[i] /\ next[i] \in DOMAIN logs'[i]
      /\ i[2] > srvs[i[1]] => Early /\ logs'[i] = logs[i]
  <2>1. /\ UNCHANGED <<testerVars, raft, raftVars>> /\ lastApplied' = lastApplied
        /\ lastApplied' \in [Inst -> 0..MaxIndex] /\ checkLogs(i[1], msg[i])
    BY <1>1 DEF applier, TypeOK
  <2>2. Ended' \/ ~CheckError(i[1], msg[i])
    BY <1>3 DEF Ended
  <2>3. QED
    BY <1>1, <1>2, <1>3, <2>1, <2>2, NoMsgFacts, AfterCheckLogs
<1>5. TypeOK'
  BY <1>1, <1>2, <1>3, <1>4 DEF applier, TypeOK
<1>6. InstanceInv(i)'
  <2>1. Controlled(i)'
    BY <1>1, <1>2, <1>4, NoMsgFacts, InstFacts, Bounds
       DEF applier, InstanceInv, Controlled, AsMade, Newest, TypeOK
  <2>2. InSync(i)'
    BY <1>1, <1>2, NoMsgFacts DEF applier, InstanceInv, InSync, Snap
  <2>3. HoldsRight(i)'
    BY <1>1, <1>2, <1>4, NoMsgFacts, NoSnapFacts, EmptyMapFacts
       DEF applier, InstanceInv, HoldsRight, Faulty, Right
  <2>4. Undisturbed(i)'
    BY <1>1, <1>2, <1>4, NoMsgFacts DEF applier, InstanceInv, Undisturbed, Faulty, Prompt, Snap
  <2>5. QED
    BY <2>1, <2>2, <2>3, <2>4 DEF InstanceInv
<1>7. NoFalseAlarm'
  BY <1>1, <1>3, NoCheckError DEF NoFalseAlarm, Faulty, Prompt
<1>8. QED
  BY <1>4, <1>5, <1>6, <1>7 DEF IInv

LEMMA applierSnapCommandKeeps ==
  ASSUME IInv, exit = "no", UNCHANGED test, NEW i \in Inst, applierSnapCommand(i)
  PROVE  IInv'
<1> DEFINE m == msg[i]
<1>1. /\ TypeOK /\ InstanceInv(i) /\ i[1] \in Srv /\ Snap /\ pc[i] = "got"
      /\ m.kind = "command" /\ m \in Msgs /\ m.index \in Index /\ m.index = next[i]
      /\ m.index = lastApplied[i] + 1
  BY InstFacts DEF IInv, InstanceInv, Controlled, InSync, applierSnapCommand, TypeOK
<1>2. /\ checkLogs(i[1], m) /\ lastApplied' = [lastApplied EXCEPT ![i] = m.index]
      /\ UNCHANGED <<testerVars, raft, raftVars, applyErr>>
  BY <1>1 DEF applierSnapCommand, Fatal
<1>3. /\ lastApplied' \in [Inst -> 0..MaxIndex] /\ lastApplied'[i] = m.index
      /\ \A j \in Inst : j # i => lastApplied'[j] = lastApplied[j]
  BY <1>1, <1>2, Bounds DEF TypeOK, Index
<1>4. /\ msg' \in [Inst -> Msgs]
      /\ pc' \in [Inst -> {"start", "read", "got", "snapshot", "returned"}]
      /\ exit' \in {"no", "fatal"}
      /\ \A j \in Inst : j # i => msg'[j] = msg[j] /\ pc'[j] = pc[j]
      /\ \/ /\ pc'[i] = "snapshot" /\ msg'[i].kind = "command" /\ exit' = "no"
            /\ msg'[i].index = m.index /\ msg'[i].val = m.val
            /\ msg'[i].snapshot = m.snapshot
            /\ msg'[i].err = CheckError(i[1], m)
         \/ /\ pc'[i] = "read" /\ msg'[i] = NoMsg
            /\ exit' = "no" <=> ~CheckError(i[1], m)
  <2>1. CheckError(i[1], m) \in BOOLEAN
    BY DEF CheckError, Disagrees, Prevok
  <2>2. CASE TakesSnapshot(m.index)
    <3>1. /\ msg' = [msg EXCEPT ![i].err = CheckError(i[1], m)]
          /\ pc' = [pc EXCEPT ![i] = "snapshot"] /\ exit' = exit
      BY <1>1, <2>1, <2>2 DEF applierSnapCommand
    <3>2. msg'[i] = [m EXCEPT !.err = CheckError(i[1], m)]
      BY <1>1, <3>1 DEF TypeOK
    <3>3. /\ msg'[i] \in Msgs /\ msg'[i].kind = "command" /\ msg'[i].index = m.index
          /\ msg'[i].val = m.val /\ msg'[i].snapshot = m.snapshot
          /\ msg'[i].err = CheckError(i[1], m)
      BY <1>1, <2>1, <3>2 DEF Msgs
    <3>4. QED
      BY <1>1, <3>1, <3>3 DEF TypeOK
  <2>3. CASE ~TakesSnapshot(m.index)
    <3>1. /\ ReadNext(i) /\ exit' \in {"no", "fatal"}
          /\ exit' = "no" <=> ~CheckError(i[1], m)
      BY <1>1, <2>3 DEF applierSnapCommand, Fatal
    <3>2. QED
      BY <1>1, <3>1, NoMsgFacts DEF ReadNext, TypeOK
  <2>4. QED
    BY <2>2, <2>3
<1>5. /\ logs' \in [Inst -> Maps]
      /\ \A j \in Inst : j # i => InstanceInv(j)'
      /\ \A t \in Srv : ServerInv(t)'
      /\ Converging'
      /\ ~Faulty /\ Whole => Right(logs'[i])
      /\ i[2] > srvs[i[1]] => Early /\ logs'[i] = logs[i]
  <2>1. Ended' \/ ~CheckError(i[1], m)
    BY <1>4, NoMsgFacts DEF Ended
  <2>2. msg'[i].kind # "snapshot"
    BY <1>4, NoMsgFacts
  <2>3. QED
    BY <1>1, <1>2, <1>3, <1>4, <2>1, <2>2, AfterCheckLogs
<1>6. TypeOK'
  BY <1>1, <1>2, <1>3, <1>4, <1>5 DEF TypeOK
<1>7. InstanceInv(i)'
  <2>1. Controlled(i)'
    BY <1>1, <1>2, <1>4, <1>5, NoMsgFacts, InstFacts, Bounds
       DEF InstanceInv, Controlled, AsMade, Newest, TypeOK
  <2>2. InSync(i)'
    BY <1>1, <1>2, <1>3, <1>4, NoMsgFacts DEF InstanceInv, InSync, Snap
  <2>3. HoldsRight(i)'
    BY <1>1, <1>2, <1>4, <1>5, NoMsgFacts, NoSnapFacts, EmptyMapFacts
       DEF InstanceInv, HoldsRight, Faulty, Right
  <2>4. Undisturbed(i)'
    <3>1. ~Faulty /\ Prompt /\ ~Early => ~CheckError(i[1], m)
      BY <1>1, NoCheckError
    <3>2. QED
      BY <1>1, <1>2, <1>4, <3>1, NoMsgFacts DEF InstanceInv, Undisturbed, Faulty, Prompt, Snap
  <2>5. QED
    BY <2>1, <2>2, <2>3, <2>4 DEF InstanceInv
<1>8. NoFalseAlarm'
  BY <1>1, <1>4, NoCheckError DEF NoFalseAlarm, Faulty, Prompt
<1>9. QED
  BY <1>5, <1>6, <1>7, <1>8 DEF IInv

LEMMA applierSnapIngestKeeps ==
  ASSUME IInv, exit = "no", UNCHANGED test, NEW i \in Inst, applierSnapIngest(i)
  PROVE  IInv'
<1>1. /\ TypeOK /\ InstanceInv(i) /\ i[1] \in Srv /\ Snap /\ pc[i] = "got"
      /\ msg[i].kind = "snapshot" /\ msg[i].snapshot \in Snaps
      /\ msg[i].snapshot.last = next[i] /\ lastApplied[i] < next[i]
      /\ i[2] > srvs[i[1]] => Early
  <2>1. /\ TypeOK /\ InstanceInv(i) /\ i[1] \in Srv /\ Snap /\ pc[i] = "got"
        /\ msg[i].kind = "snapshot" /\ msg[i].snapshot \in Snaps
        /\ msg[i].snapshot.last = next[i] /\ lastApplied[i] < next[i]
    BY InstFacts DEF IInv, InstanceInv, Controlled, InSync, applierSnapIngest, TypeOK, Msgs
  <2>2. QED
    BY <2>1, BusyInUse
<1>2. PICK sn \in Snaps : sn = msg[i].snapshot
  BY <1>1
<1>3. sn.last \in 0..MaxIndex /\ sn.last \in Nat /\ sn.xlog \in Maps /\ lastApplied[i] \in Nat
  BY <1>1, SnapFacts, Bounds DEF TypeOK
<1>4. /\ msg'[i] = NoMsg /\ pc'[i] = "read"
      /\ \A j \in Inst : j # i => msg'[j] = msg[j] /\ pc'[j] = pc[j]
      /\ msg' \in [Inst -> Msgs]
      /\ pc' \in [Inst -> {"start", "read", "got", "snapshot", "returned"}]
  BY <1>1, NoMsgFacts DEF applierSnapIngest, ReadNext, TypeOK
<1>5. UNCHANGED <<testerVars, raft, raftVars, applyErr>>
  BY DEF applierSnapIngest, Fatal
<1>6. \/ /\ exit' = "no" /\ logs' = [logs EXCEPT ![i] = sn.xlog]
         /\ lastApplied' = [lastApplied EXCEPT ![i] = sn.last]
      \/ /\ exit' = "fatal" /\ (Faulty \/ ~Whole)
         /\ logs' = logs /\ lastApplied' = lastApplied
  <2>1. ~Faulty /\ Whole => msg[i].index = msg[i].snapshot.last
    BY <1>1 DEF InstanceInv, HoldsRight
  <2>2. QED
    BY <1>2, <2>1 DEF applierSnapIngest, ingestSnap, Fatal
<1>7. /\ logs' \in [Inst -> Maps] /\ lastApplied' \in [Inst -> 0..MaxIndex]
      /\ \A j \in Inst : j # i => logs'[j] = logs[j] /\ lastApplied'[j] = lastApplied[j]
      /\ \/ exit' = "no" /\ logs'[i] = sn.xlog /\ lastApplied'[i] = sn.last
         \/ /\ exit' = "fatal" /\ (Faulty \/ ~Whole)
            /\ logs' = logs /\ lastApplied' = lastApplied
  BY <1>1, <1>3, <1>6 DEF TypeOK
<1>8. TypeOK'
  BY <1>1, <1>4, <1>5, <1>7 DEF TypeOK
<1>9. ASSUME NEW j \in Inst, j # i
      PROVE  InstanceInv(j)'
  BY <1>4, <1>5, <1>7, <1>9, OtherInstance DEF IInv
<1>10. InstanceInv(i)'
  <2>1. Controlled(i)'
    BY <1>1, <1>4, <1>5, NoMsgFacts, InstFacts, Bounds
       DEF InstanceInv, Controlled, AsMade, Newest, TypeOK
  <2>2. InSync(i)'
    BY <1>1, <1>2, <1>4, <1>5, <1>7, NoMsgFacts DEF InstanceInv, InSync, Snap
  <2>3. HoldsRight(i)'
    <3>1. ~Faulty /\ Whole => Right(sn.xlog)
      BY <1>1, <1>2 DEF InstanceInv, HoldsRight
    <3>2. QED
      BY <1>1, <1>4, <1>5, <1>7, <3>1, NoMsgFacts, NoSnapFacts, EmptyMapFacts
         DEF InstanceInv, HoldsRight, Faulty, Right
  <2>4. Undisturbed(i)'
    BY <1>1, <1>4, <1>5, NoMsgFacts DEF Undisturbed, Snap
  <2>5. QED
    BY <2>1, <2>2, <2>3, <2>4 DEF InstanceInv
<1>11. \A t \in Srv : /\ Current(t) \in Inst /\ Current(t)' = Current(t) /\ Kept(t)' = Kept(t)
                      /\ Current(t) = i => t = i[1]
                      /\ Kept(t) \in Snaps /\ Kept(t).last \in Nat
                      /\ lastApplied[Current(t)] \in Nat
  <2>1. \A t \in Srv : /\ Current(t) \in Inst /\ Current(t)[1] = t
                       /\ Current(t)' = Current(t)
    BY <1>1, <1>5, CurrentFacts DEF TypeOK, Current
  <2>2. \A t \in Srv : /\ Kept(t) \in Snaps /\ lastApplied[Current(t)] \in 0..MaxIndex
                       /\ Kept(t)' = Kept(t)
    BY <1>1, <1>5, <2>1 DEF Kept, TypeOK
  <2>3. QED
    BY <2>1, <2>2, SnapFacts, Bounds
<1>12. ASSUME NEW t \in Srv
       PROVE  ServerInv(t)'
  <2>1. 1..sn.last \subseteq DOMAIN sn.xlog
    BY SnapFacts
  <2>2. Whole => 1..lastApplied'[Current(t)] \subseteq DOMAIN logs'[Current(t)]
    BY <1>7, <1>11, <1>12, <2>1 DEF IInv, ServerInv
  <2>3. QED
    BY <1>5, <1>11, <1>12, <2>2 DEF IInv, ServerInv, Snap, Faulty, Right
<1>13. Converging'
  <2>1. CASE i # Current(i[1]) \/ exit' # "no"
    <3>1. \A t \in Srv : /\ logs'[Current(t)] = logs[Current(t)]
                         /\ lastApplied'[Current(t)] = lastApplied[Current(t)]
                         /\ \/ msg'[Current(t)].kind # "snapshot"
                            \/ msg'[Current(t)] = msg[Current(t)]
      BY <1>4, <1>7, <1>11, <2>1, NoMsgFacts
    <3>2. Ended => Ended'
      BY <1>1, <1>4, <1>5 DEF Ended, InstanceInv, Controlled
    <3>3. QED
      BY <1>5, <1>11, <3>1, <3>2, StillConverging DEF IInv
  <2>2. CASE i = Current(i[1]) /\ exit' = "no"
    <3> SUFFICES ASSUME ~Ended', Whole
                 PROVE  /\ LogsMatch'
                        /\ \A t \in Srv : Harmless(Kept(t))'
                        /\ \A t \in Srv : msg'[Current(t)'].kind = "snapshot"
                                            => Harmless(msg[Current(t)].snapshot)'
      BY DEF Converging
    <3>1. ~Ended
      BY <1>1, <1>4, <1>5 DEF Ended, InstanceInv, Controlled
    <3>2. Harmless(sn)
      BY <1>1, <1>2, <2>2, <3>1 DEF IInv, Converging
    <3>3. \A t \in Srv : /\ logs'[Current(t)'] = IF t = i[1] THEN sn.xlog ELSE logs[Current(t)]
                         /\ lastApplied[Current(t)] <= lastApplied'[Current(t)']
                         /\ lastApplied'[Current(t)'] \in Nat
      BY <1>1, <1>2, <1>3, <1>7, <1>11, <2>2
    <3>4. \A n \in Nat : Held(n) => Held(n)'
      <4> SUFFICES ASSUME NEW n \in Nat, NEW u \in Srv,
                          n <= lastApplied[Current(u)], n <= Kept(u).last
                   PROVE  n <= lastApplied'[Current(u)'] /\ n <= Kept(u)'.last
        BY DEF Held
      <4>1. QED
        BY <1>11, <3>3
    <3>5. \A x \in Snaps : Harmless(x) => Harmless(x)'
      <4> SUFFICES ASSUME NEW x \in Snaps, Harmless(x)
                   PROVE  Held(x.last)' /\ \A t \in Srv : Matches(x.xlog, logs[Current(t)])'
        BY DEF Harmless
      <4>1. x.last \in Nat /\ Held(x.last) /\ Matches(x.xlog, sn.xlog)
            /\ \A t \in Srv : Matches(x.xlog, logs[Current(t)])
        BY <3>2, HarmlessMatch, SnapFacts, Bounds DEF Harmless, IInv
      <4>2. QED
        BY <3>3, <3>4, <4>1 DEF Matches
    <3>6. LogsMatch'
      <4>1. LogsMatch /\ \A t \in Srv : Matches(sn.xlog, logs[Current(t)])
        BY <3>1, <3>2 DEF IInv, Converging, Harmless
      <4>2. QED
        BY <3>3, <4>1 DEF LogsMatch, Matches
    <3>7. ASSUME NEW t \in Srv
          PROVE  Harmless(Kept(t))'
      <4>1. PICK x \in Snaps : x = Kept(t)' /\ Harmless(x)
        BY <1>11, <3>1 DEF IInv, Converging
      <4>2. Harmless(x)'
        BY <3>5, <4>1
      <4>3. QED
        BY <4>1, <4>2 DEF Harmless
    <3>8. ASSUME NEW t \in Srv, msg'[Current(t)'].kind = "snapshot"
          PROVE  Harmless(msg[Current(t)].snapshot)'
      <4>1. msg'[Current(t)'] = msg[Current(t)]
        BY <1>4, <1>11, <3>8, NoMsgFacts
      <4>2. PICK x \in Snaps : x = msg'[Current(t)'].snapshot /\ Harmless(x)
        BY <1>1, <1>11, <3>1, <3>8, <4>1 DEF TypeOK, Msgs, IInv, Converging
      <4>3. Harmless(x)'
        BY <3>5, <4>2
      <4>4. QED
        BY <4>2, <4>3 DEF Harmless
    <3>9. QED
      BY <3>6, <3>7, <3>8
  <2>3. QED
    BY <2>1, <2>2
<1>14. NoFalseAlarm'
  BY <1>7 DEF NoFalseAlarm, Faulty
<1>15. QED
  BY <1>8, <1>9, <1>10, <1>12, <1>13, <1>14 DEF IInv

LEMMA applierSnapSnapshotKeeps ==
  ASSUME IInv, exit = "no", UNCHANGED test, NEW i \in Inst, applierSnapSnapshot(i)
  PROVE  IInv'
<1>1. /\ TypeOK /\ InstanceInv(i) /\ i[1] \in Srv /\ Snap /\ pc[i] = "snapshot"
      /\ msg[i].kind = "command" /\ msg[i].index \in Index /\ msg[i].index = next[i]
      /\ lastApplied[i] = next[i]
  BY InstFacts DEF IInv, InstanceInv, Controlled, InSync, applierSnapSnapshot, TypeOK
<1>2. PICK k \in Index : k = msg[i].index
  BY <1>1
<1>3. PICK sn \in Snaps : sn = [last |-> k, xlog |-> [j \in 0..k |-> Logs(i, j)]]
  <2>1. \A j \in 0..k : Logs(i, j) \in Vals
    BY <1>1, MapFacts DEF Logs, TypeOK, Vals
  <2>2. [j \in 0..k |-> Logs(i, j)] \in [0..k -> Vals]
    BY <2>1
  <2>3. QED
    BY <2>2, MakesSnap
<1>4. /\ msg'[i] = NoMsg /\ pc'[i] = "read"
      /\ \A j \in Inst : j # i => msg'[j] = msg[j] /\ pc'[j] = pc[j]
      /\ msg' \in [Inst -> Msgs]
      /\ pc' \in [Inst -> {"start", "read", "got", "snapshot", "returned"}]
  BY <1>1, NoMsgFacts DEF applierSnapSnapshot, ReadNext, TypeOK
<1>5. UNCHANGED <<testerVars, logs, lastApplied, raft, dead, next, applyErr>>
  BY DEF applierSnapSnapshot, Fatal
<1>6. \/ ~raft[i] /\ exit' = "panic" /\ snap' = snap
      \/ /\ raft[i] /\ snap' = [snap EXCEPT ![i] = sn]
         /\ exit' = IF msg[i].err THEN "fatal" ELSE "no"
  BY <1>2, <1>3 DEF applierSnapSnapshot, Fatal
<1>7. /\ snap' \in [Inst -> Snaps] /\ exit' \in {"no", "fatal", "panic"}
      /\ \A j \in Inst : j # i => snap'[j] = snap[j]
      /\ snap'[i] = snap[i] \/ (raft[i] /\ snap'[i] = sn)
      /\ exit' = "no" => raft[i] /\ ~msg[i].err /\ snap'[i] = sn
      /\ exit' = "fatal" => msg[i].err
  BY <1>1, <1>6 DEF TypeOK
<1>8. TypeOK'
  BY <1>1, <1>4, <1>5, <1>7 DEF TypeOK
<1>9. ASSUME NEW j \in Inst, j # i
      PROVE  InstanceInv(j)'
  BY <1>4, <1>5, <1>7, <1>9, OtherInstance DEF IInv
<1>10. /\ sn.last = k /\ k \in Nat
       /\ \A n \in Index \cap DOMAIN sn.xlog :
            n \in 1..k /\ (n \in DOMAIN logs[i] => sn.xlog[n] = logs[i][n])
  <2>1. /\ sn.last = k /\ DOMAIN sn.xlog = 0..k /\ k \in Nat
        /\ \A n \in 0..k : sn.xlog[n] = Logs(i, n)
    BY <1>3, Bounds DEF Index
  <2>2. QED
    BY <2>1, Bounds DEF Logs, Index
<1>11. raft[i] /\ Whole =>
         /\ i = Current(i[1]) /\ i[2] = srvs[i[1]]
         /\ 1..k \subseteq DOMAIN logs[i] /\ 1..lastApplied[i] \subseteq DOMAIN logs[i]
  <2>1. raft[i] /\ Whole => i[2] = srvs[i[1]]
    <3>1. i[2] \in Nat /\ srvs[i[1]] \in Nat
      BY <1>1, InstFacts, Bounds DEF TypeOK
    <3>2. QED
      BY <1>1, <3>1 DEF InstanceInv, Controlled, AsMade, Newest
  <2>2. raft[i] /\ Whole => i = Current(i[1])
    BY <1>1, <2>1, CurrentFacts DEF TypeOK
  <2>3. QED
    BY <1>1, <1>2, <2>1, <2>2 DEF IInv, ServerInv
<1>12. InstanceInv(i)'
  <2>1. Controlled(i)'
    BY <1>1, <1>4, <1>5, NoMsgFacts, InstFacts, Bounds
       DEF InstanceInv, Controlled, AsMade, Newest, TypeOK
  <2>2. InSync(i)'
    BY <1>1, <1>2, <1>4, <1>5, <1>7, <1>10, NoMsgFacts DEF InstanceInv, InSync, Snap
  <2>3. HoldsRight(i)'
    <3>1. ~Faulty /\ Whole => Right(snap'[i].xlog)
      <4>1. CASE snap'[i] = snap[i]
        BY <1>1, <4>1 DEF InstanceInv, HoldsRight
      <4>2. CASE raft[i] /\ snap'[i] = sn
        BY <1>1, <1>10, <1>11, <4>2 DEF InstanceInv, HoldsRight, Right
      <4>3. QED
        BY <1>7, <4>1, <4>2
    <3>2. QED
      BY <1>1, <1>4, <1>5, <3>1, NoMsgFacts, NoSnapFacts, EmptyMapFacts
         DEF InstanceInv, HoldsRight, Faulty, Right
  <2>4. Undisturbed(i)'
    BY <1>1, <1>4, <1>5, NoMsgFacts DEF Undisturbed, Snap
  <2>5. QED
    BY <2>1, <2>2, <2>3, <2>4 DEF InstanceInv
<1>13. ASSUME NEW t \in Srv
       PROVE  ServerInv(t)'
  BY <1>5, <1>13, OtherServer DEF IInv
<1>14. Converging'
  <2> SUFFICES ASSUME ~Ended', Whole
               PROVE  /\ LogsMatch'
                      /\ \A t \in Srv : Harmless(Kept(t))'
                      /\ \A t \in Srv : msg'[Current(t)'].kind = "snapshot"
                                          => Harmless(msg[Current(t)].snapshot)'
    BY DEF Converging
  <2>1. raft[i] /\ ~msg[i].err /\ snap'[i] = sn /\ ~Ended
    BY <1>4, <1>7 DEF Ended
  <2>2. ASSUME NEW t \in Srv
        PROVE  /\ Current(t) \in Inst /\ Current(t)' = Current(t)
               /\ Current(t) = i => t = i[1]
               /\ Kept(t) \in Snaps /\ Kept(t).last \in Nat
               /\ lastApplied[Current(t)] \in Nat
    <3>1. /\ Current(t) \in Inst /\ Current(t)[1] = t /\ Current(t)' = Current(t)
      BY <1>1, <1>5, <2>2, CurrentFacts DEF TypeOK, Current
    <3>2. Kept(t) \in Snaps /\ lastApplied[Current(t)] \in 0..MaxIndex
      BY <1>1, <2>2, <3>1 DEF Kept, TypeOK
    <3>3. QED
      BY <3>1, <3>2, SnapFacts, Bounds
  <2>3. ASSUME NEW t \in Srv
        PROVE  \/ Kept(t)' = Kept(t)
               \/ Current(t) = i /\ Kept(t)' = sn /\ Kept(t) = snap[i] /\ t = i[1]
    BY <1>5, <1>7, <2>1, <2>2, <2>3 DEF Kept
  <2>4. snap[i].last <= k
    BY <1>1, <1>2 DEF InstanceInv, InSync
  <2>5. \A n \in Nat : Held(n) => Held(n)'
    <3> SUFFICES ASSUME NEW n \in Nat, NEW u \in Srv,
                        n <= lastApplied[Current(u)], n <= Kept(u).last
                 PROVE  n <= lastApplied'[Current(u)'] /\ n <= Kept(u)'.last
      BY DEF Held
    <3>1. n <= lastApplied'[Current(u)']
      BY <1>5, <2>2
    <3>2. n <= Kept(u)'.last
      <4>1. CASE Kept(u)' = Kept(u)
        BY <4>1
      <4>2. CASE Kept(u)' = sn /\ Kept(u) = snap[i]
        BY <1>10, <2>2, <2>4, <4>2
      <4>3. QED
        BY <2>3, <4>1, <4>2
    <3>3. QED
      BY <3>1, <3>2
  <2>6. \A x \in Snaps : Harmless(x) => Harmless(x)'
    <3> SUFFICES ASSUME NEW x \in Snaps, Harmless(x)
                 PROVE  Held(x.last)' /\ \A t \in Srv : Matches(x.xlog, logs[Current(t)])'
      BY DEF Harmless
    <3>1. x.last \in Nat
      BY SnapFacts, Bounds
    <3>2. QED
      BY <1>5, <2>2, <2>5, <3>1 DEF Harmless, Matches
  <2>7. LogsMatch /\ LogsMatch'
    BY <1>5, <2>1, <2>2 DEF IInv, Converging, LogsMatch, Matches
  <2>8. ASSUME NEW t \in Srv
        PROVE  Harmless(Kept(t))'
    <3>1. CASE Kept(t)' = Kept(t)
      <4>1. PICK x \in Snaps : x = Kept(t)' /\ Harmless(x)
        BY <2>1, <2>2, <3>1 DEF IInv, Converging
      <4>2. Harmless(x)'
        BY <2>6, <4>1
      <4>3. QED
        BY <4>1, <4>2 DEF Harmless
    <3>2. CASE Current(t) = i /\ Kept(t)' = sn
      <4>1. sn.last <= lastApplied'[Current(t)'] /\ sn.last <= Kept(t)'.last
        BY <1>1, <1>2, <1>5, <1>10, <2>2, <3>2
      <4>2. \A u \in Srv : Matches(sn.xlog, logs'[Current(u)'])
        <5> SUFFICES ASSUME NEW u \in Srv,
                            NEW n \in Index \cap DOMAIN sn.xlog \cap DOMAIN logs[Current(u)]
                     PROVE  sn.xlog[n] = logs[Current(u)][n]
          BY <1>5, <2>2 DEF Matches
        <5>1. n \in DOMAIN logs[i] /\ sn.xlog[n] = logs[i][n]
          BY <1>10, <1>11, <2>1
        <5>2. QED
          BY <2>7, <3>2, <5>1 DEF LogsMatch, Matches
      <4>3. QED
        BY <3>2, <4>1, <4>2 DEF Harmless, Held, Matches
    <3>3. QED
      BY <2>3, <3>1, <3>2
  <2>9. ASSUME NEW t \in Srv, msg'[Current(t)'].kind = "snapshot"
        PROVE  Harmless(msg[Current(t)].snapshot)'
    <3>1. msg'[Current(t)'] = msg[Current(t)]
      BY <1>4, <2>2, <2>9, NoMsgFacts
    <3>2. PICK x \in Snaps : x = msg'[Current(t)'].snapshot /\ Harmless(x)
      BY <1>1, <2>1, <2>2, <2>9, <3>1 DEF TypeOK, Msgs, IInv, Converging
    <3>3. Harmless(x)'
      BY <2>6, <3>2
    <3>4. QED
      BY <3>2, <3>3 DEF Harmless
  <2>10. QED
    BY <2>7, <2>8, <2>9
<1>15. NoFalseAlarm'
  BY <1>1, <1>7 DEF NoFalseAlarm, InstanceInv, Undisturbed, Faulty, Prompt
<1>16. QED
  BY <1>8, <1>9, <1>12, <1>13, <1>14, <1>15 DEF IInv

-----------------------------------------------------------------------------
(* The theorems.                                                           *)

LEMMA NextKeeps == IInv /\ [Next]_vars => IInv'
<1> SUFFICES ASSUME IInv, [Next]_vars
             PROVE  IInv'
  OBVIOUS
<1>1. CASE Next
  <2>1. exit = "no" /\ UNCHANGED test
    BY <1>1 DEF Next
  <2>2. ASSUME NEW i \in Inst, DeliverCommand(i) \/ DeliverSnapshot(i) \/ Applier(i)
        PROVE  IInv'
    BY <2>1, <2>2, DeliverCommandKeeps, DeliverSnapshotKeeps, applierStartKeeps, applierKeeps,
       applierSnapIngestKeeps, applierSnapCommandKeeps, applierSnapSnapshotKeeps DEF Applier
  <2>3. ASSUME NEW s \in Srv, Shutdown(s) \/ Kill(s) \/ KillRaft(s)
                               \/ newRfsrv(s) \/ mksrv(s)
        PROVE  IInv'
    BY <2>1, <2>3, ShutdownKeeps, KillKeeps, KillRaftKeeps, newRfsrvKeeps, mksrvKeeps
  <2>4. QED
    BY <1>1, <2>2, <2>3 DEF Next
<1>2. CASE UNCHANGED vars
  <2>1. TypeOK'
    BY <1>2 DEF IInv, vars, TypeOK
  <2>2. \A i \in Inst : InstanceInv(i)'
    BY <1>2 DEF IInv, vars, InstanceInv, Controlled, AsMade, Newest, InSync, HoldsRight,
                Undisturbed, Right
  <2>3. \A s \in Srv : ServerInv(s)'
    BY <1>2 DEF IInv, vars, ServerInv, Current, Right, Snap, Faulty
  <2>4. Converging'
    BY <1>2 DEF IInv, vars, Converging, Ended, LogsMatch, Harmless, Held, Kept, Current, Matches
  <2>5. NoFalseAlarm'
    BY <1>2 DEF IInv, vars, NoFalseAlarm, Faulty, Prompt
  <2>6. QED
    BY <2>1, <2>2, <2>3, <2>4, <2>5 DEF IInv
<1>3. QED
  BY <1>1, <1>2

LEMMA NoHoleFollows == IInv => NoHole
<1> SUFFICES ASSUME IInv, ~Faulty, Whole
             PROVE  /\ \A i \in Inst, k \in Index : k <= snap[i].last => snap[i].xlog[k] = k
                    /\ Snap => \A s \in Srv, k \in Index :
                                 k <= lastApplied[Current(s)] => Logs(Current(s), k) = k
  BY DEF NoHole
<1>1. ASSUME NEW i \in Inst, NEW k \in Index, k <= snap[i].last
      PROVE  snap[i].xlog[k] = k
  <2>1. snap[i] \in Snaps /\ Right(snap[i].xlog)
    BY <1>1 DEF IInv, TypeOK, InstanceInv, HoldsRight
  <2>2. k \in 1..snap[i].last
    BY <1>1, <2>1, SnapFacts, Bounds DEF Index
  <2>3. QED
    BY <2>1, <2>2, SnapFacts DEF Right
<1>2. ASSUME NEW s \in Srv, NEW k \in Index, k <= lastApplied[Current(s)]
      PROVE  Logs(Current(s), k) = k
  <2>1. /\ Current(s) \in Inst /\ Right(logs[Current(s)])
        /\ lastApplied[Current(s)] \in 0..MaxIndex
    BY <1>2, CurrentFacts DEF IInv, TypeOK, InstanceInv, HoldsRight
  <2>2. k \in 1..lastApplied[Current(s)]
    BY <1>2, <2>1, Bounds DEF Index
  <2>3. QED
    BY <1>2, <2>1, <2>2 DEF IInv, ServerInv, Logs, Right
<1>3. QED
  BY <1>1, <1>2

\* A snapshot, made, installed or ingested, leaves no hole in the log of a server
\* and is complete itself; and what else the rfsrvs keep.
THEOREM CheckerInvHolds == Spec => []CheckerInv
<1>1. IInv => CheckerInv
  BY NoHoleFollows DEF IInv, CheckerInv
<1>2. QED
  BY <1>1, InitHolds, NextKeeps, PTL DEF Spec

\* The checks of applier() and applierSnap() do not accuse peers that agree and
\* deliver in order.
THEOREM NoFalseAlarmHolds == Spec => []NoFalseAlarm
<1>1. IInv => NoFalseAlarm
  BY DEF IInv
<1>2. QED
  BY <1>1, InitHolds, NextKeeps, PTL DEF Spec

\* Whatever commands the peers deliver, each in order, checkLogs() lets no two
\* servers in use hold different commands at one index, although snapshots bypass it
\* and it may use the instance that is being replaced.
THEOREM NoSilentDivergenceHolds == Spec => []NoSilentDivergence
<1>1. IInv => NoSilentDivergence
  BY DEF IInv, Converging, Ended, LogsMatch, Matches, NoSilentDivergence
<1>2. QED
  BY <1>1, InitHolds, NextKeeps, PTL DEF Spec
=============================================================================
