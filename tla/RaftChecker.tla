---------------------------- MODULE RaftChecker ----------------------------
(***************************************************************************)
(* The services of the Raft tests: rfsrv of src/src/raft1/server.go, which *)
(* reads what Raft applies, checks it with checkLogs of raft1/test.go and  *)
(* makes snapshots, while the tester kills and restarts servers.           *)
(*                                                                         *)
(* Raft itself is left to the reader of the labs.  Here its peers deliver  *)
(* the commands 1, 2, 3... that they agree on, in order and from the last  *)
(* snapshot on, or the snapshot of a peer that runs; if Faulty, each peer  *)
(* commands of its own, in order still.  A peer delivers nothing once it   *)
(* was killed, and, unless Early, nothing before mksrv() has returned: not *)
(* until then does StartServer() put its server on the network, and no end *)
(* of it is enabled (group.go:232-243), so it cannot hear of a commit.     *)
(*                                                                         *)
(* checkLogs is one step: it holds ts.mu, and an ingestSnap that runs      *)
(* meanwhile on another server could as well have run after it.            *)
(***************************************************************************)
EXTENDS Naturals, FiniteSets

CONSTANTS
  Srv,              \* the servers
  Tests,            \* the tests that may be run, see below
  MaxGen,           \* bound on the instances made of a server
  MaxIndex,         \* bound on the indices of Raft's log
  SnapShotInterval  \* 10 in the code

\* A test: whether it takes snapshots (Test.snapshot), whether the peers may
\* disagree, whether an applier is done with the message it has read before
\* Test.srvs has a next instance of its server, and whether a peer that starts
\* again delivers before that, from what it has kept; and a bound on Raft's log.
ASSUME RaftCheckerAssumption ==
  /\ IsFiniteSet(Srv) /\ MaxGen \in Nat \ {0} /\ MaxIndex \in Nat
  /\ SnapShotInterval \in Nat \ {0}
  /\ \A t \in Tests : /\ {t.snapshot, t.faulty, t.prompt, t.early} \subseteq BOOLEAN
                      /\ t.last \in 0..MaxIndex

Nil == 0
Index == 1..MaxIndex
Cmd == 1..MaxIndex
Inst == Srv \X (1..MaxGen)

VARIABLES
  test,         \* the test that is run
  srvs,         \* Test.srvs: srvs[s] is the number of the instance in use
  life,         \* life[s]: what the tester has done with s
  saved,        \* saved[s]: the snapshot in the tester's Persister of s
  logs, lastApplied, applyErr, raft,  \* of each rfsrv; raft: not nil
  msg,          \* the message its applier has read
  pc,           \* where its applier is
  dead, snap, next,  \* of each peer: Kill() was called, the snapshot in its
                     \* Persister, and the index it delivered last
  exit          \* how the process ended, if it has

testerVars == <<srvs, life, saved>>
rfsrvVars == <<logs, lastApplied, applyErr, raft, msg, pc>>
raftVars == <<dead, snap, next>>
vars == <<test, testerVars, rfsrvVars, raftVars, exit>>

Snap == test.snapshot
Faulty == test.faulty
Prompt == test.prompt
Early == test.early

EmptyMap == [k \in {} |-> Nil]
NoSnap == [last |-> 0, xlog |-> EmptyMap]

\* raftapi.ApplyMsg, and err: the applier has found an error in it.
Msg(kind, index, val, snapshot) ==
  [kind |-> kind, index |-> index, val |-> val, snapshot |-> snapshot, err |-> FALSE]
NoMsg == Msg("none", 0, Nil, NoSnap)

Current(s) == <<s, srvs[s]>>

\* The last instance that was made of s, in Test.srvs or not yet.
Newest(s) == IF life[s] = "made" THEN srvs[s] + 1 ELSE srvs[s]

Vals == Cmd \cup {Nil}
Maps == UNION {[D -> Vals] : D \in SUBSET (0..MaxIndex)}
Snaps == {NoSnap} \cup UNION {[last : {n}, xlog : [0..n -> Vals]] : n \in Index}
Msgs == [kind : {"none", "command", "snapshot"}, index : 0..MaxIndex, val : Vals,
         snapshot : Snaps, err : BOOLEAN]

TypeOK ==
  /\ test \in Tests
  /\ srvs \in [Srv -> 1..MaxGen]
  /\ life \in [Srv -> {"up", "copied", "killed", "down", "made"}]
  /\ saved \in [Srv -> Snaps] /\ snap \in [Inst -> Snaps]
  /\ logs \in [Inst -> Maps] /\ msg \in [Inst -> Msgs]
  /\ lastApplied \in [Inst -> 0..MaxIndex] /\ next \in [Inst -> 0..MaxIndex]
  /\ {applyErr, raft, dead} \subseteq [Inst -> BOOLEAN]
  /\ pc \in [Inst -> {"start", "read", "got", "snapshot", "returned"}]
  /\ exit \in {"no", "fatal", "panic"}

Init ==
  /\ test \in Tests
  /\ srvs = [s \in Srv |-> 1] /\ life = [s \in Srv |-> "up"]
  /\ saved = [s \in Srv |-> NoSnap]
  /\ logs = [i \in Inst |-> EmptyMap] /\ lastApplied = [i \in Inst |-> 0]
  /\ applyErr = [i \in Inst |-> FALSE] /\ raft = [i \in Inst |-> TRUE]
  /\ msg = [i \in Inst |-> NoMsg] /\ pc = [i \in Inst |-> "start"]
  /\ dead = [i \in Inst |-> FALSE] /\ snap = [i \in Inst |-> NoSnap]
  /\ next = [i \in Inst |-> 0]
  /\ exit = "no"

-----------------------------------------------------------------------------
(* The peers.                                                              *)

Send(i, m) ==
  /\ i[2] = (IF Early THEN Newest(i[1]) ELSE srvs[i[1]])
  /\ ~dead[i] /\ pc[i] = "read"
  /\ msg' = [msg EXCEPT ![i] = m]
  /\ pc' = [pc EXCEPT ![i] = "got"]
  /\ UNCHANGED <<testerVars, logs, lastApplied, applyErr, raft, dead, exit>>

DeliverCommand(i) ==
  \E k \in Index, v \in Cmd :
    /\ k = next[i] + 1 /\ k <= test.last
    /\ IF Faulty THEN v <= test.last ELSE v = k
    /\ Send(i, Msg("command", k, v, NoSnap))
    /\ next' = [next EXCEPT ![i] = k]
    /\ UNCHANGED snap

DeliverSnapshot(i) ==
  /\ Snap
  /\ \E t \in Srv, k \in Index : LET j == Current(t) IN
       /\ life[t] = "up"
       /\ snap[j].last > next[i] /\ (Faulty \/ k = snap[j].last)
       /\ Send(i, Msg("snapshot", k, Nil, snap[j]))
       /\ snap' = [snap EXCEPT ![i] = snap[j]]
       /\ next' = [next EXCEPT ![i] = snap[j].last]

-----------------------------------------------------------------------------
(* The appliers.                                                           *)

Logs(i, k) == IF k \in DOMAIN logs[i] THEN logs[i][k] ELSE Nil

\* Mutant of Disagrees: a server's entry is compared with its own only.
DisagreesSelf(s, m) ==
  m.index \in DOMAIN logs[Current(s)] /\ logs[Current(s)][m.index] # m.val

\* Some server has already committed a different value for this entry.
Disagrees(s, m) ==
  \E t \in Srv : /\ m.index \in DOMAIN logs[Current(t)]
                 /\ logs[Current(t)][m.index] # m.val

Prevok(s, m) == m.index - 1 \in DOMAIN logs[Current(s)]

Put(f, k, v) == [j \in DOMAIN f \cup {k} |-> IF j = k THEN v ELSE f[j]]

\* The command is stored in the instance that Test.srvs has for the server.
checkLogs(s, m) ==
  logs' = [logs EXCEPT ![Current(s)] = Put(@, m.index, m.val)]

CheckError(s, m) == Disagrees(s, m) \/ (m.index > 1 /\ ~Prevok(s, m))

\* log.Fatalf() ends the process: what comes after it is never reached.
Fatal == exit' = "fatal" /\ UNCHANGED applyErr

ReadNext(i) == pc' = [pc EXCEPT ![i] = "read"] /\ msg' = [msg EXCEPT ![i] = NoMsg]

\* An applierSnap that starts after Kill() returns at once.
applierStart(i) ==
  /\ pc[i] = "start" /\ i[2] <= Newest(i[1])
  /\ pc' = [pc EXCEPT ![i] = IF Snap /\ ~raft[i] THEN "returned" ELSE "read"]
  /\ UNCHANGED <<testerVars, logs, lastApplied, applyErr, raft, msg, raftVars, exit>>

applier(i) ==
  LET s == i[1]  m == msg[i] IN
  /\ ~Snap /\ pc[i] = "got"
  /\ checkLogs(s, m) /\ ReadNext(i)
  /\ IF CheckError(s, m) THEN Fatal ELSE UNCHANGED <<exit, applyErr>>
  /\ UNCHANGED <<testerVars, lastApplied, raft, raftVars>>

\* Mutant of ingestSnap: the entries stay those of before the snapshot.
IngestKeepsLogs(i, sn) ==
  /\ logs' = logs
  /\ lastApplied' = [lastApplied EXCEPT ![i] = sn.last]

ingestSnap(i, sn) ==
  /\ logs' = [logs EXCEPT ![i] = sn.xlog]
  /\ lastApplied' = [lastApplied EXCEPT ![i] = sn.last]

applierSnapIngest(i) ==
  /\ Snap /\ pc[i] = "got" /\ msg[i].kind = "snapshot"
  /\ ReadNext(i)
  /\ IF msg[i].index = msg[i].snapshot.last
     THEN ingestSnap(i, msg[i].snapshot) /\ UNCHANGED <<exit, applyErr>>
     ELSE Fatal /\ UNCHANGED <<logs, lastApplied>>
  /\ UNCHANGED <<testerVars, raft, raftVars>>

TakesSnapshot(k) == (k + 1) % SnapShotInterval = 0

applierSnapCommand(i) ==
  LET s == i[1]  m == msg[i]
      inOrder == m.index = lastApplied[i] + 1
      err == ~inOrder \/ CheckError(s, m) IN
  /\ Snap /\ pc[i] = "got" /\ m.kind = "command"
  /\ IF inOrder THEN checkLogs(s, m) ELSE UNCHANGED logs
  /\ lastApplied' = [lastApplied EXCEPT ![i] = m.index]
  /\ IF TakesSnapshot(m.index)
     THEN /\ msg' = [msg EXCEPT ![i].err = err]
          /\ pc' = [pc EXCEPT ![i] = "snapshot"]
          /\ UNCHANGED <<exit, applyErr>>
     ELSE /\ ReadNext(i)
          /\ IF err THEN Fatal ELSE UNCHANGED <<exit, applyErr>>
  /\ UNCHANGED <<testerVars, raft, raftVars>>

\* rs.raft.Snapshot(): rs.raft is read without rs.mu, and may be nil by now.
applierSnapSnapshot(i) ==
  LET k == msg[i].index IN
  /\ pc[i] = "snapshot" /\ ReadNext(i)
  /\ IF ~raft[i] THEN exit' = "panic" /\ UNCHANGED <<snap, applyErr>>
     ELSE /\ snap' = [snap EXCEPT ![i] = [last |-> k, xlog |-> [j \in 0..k |-> Logs(i, j)]]]
          /\ IF msg[i].err THEN Fatal ELSE UNCHANGED <<exit, applyErr>>
  /\ UNCHANGED <<testerVars, logs, lastApplied, raft, dead, next>>

-----------------------------------------------------------------------------
(* The tester.                                                             *)

Step(s, from, to) == life[s] = from /\ life' = [life EXCEPT ![s] = to]

\* shutdownServer(): the Persister is copied, then the services are killed,
\* the rfsrv first and its peer next.
Shutdown(s) ==
  /\ Step(s, "up", "copied") /\ srvs[s] < MaxGen
  /\ saved' = [saved EXCEPT ![s] = snap[Current(s)]]
  /\ UNCHANGED <<srvs, rfsrvVars, raftVars, exit>>

Kill(s) ==
  /\ Step(s, "copied", "killed")
  /\ raft' = [raft EXCEPT ![Current(s)] = FALSE]
  /\ UNCHANGED <<srvs, saved, logs, lastApplied, applyErr, msg, pc, raftVars, exit>>

KillRaft(s) ==
  /\ Step(s, "killed", "down")
  /\ dead' = [dead EXCEPT ![Current(s)] = TRUE]
  /\ UNCHANGED <<srvs, saved, rfsrvVars, snap, next, exit>>

\* Mutant of ingestSaved: the snapshot is left to Raft.
IngestSavedNot(i, sn) == UNCHANGED <<logs, lastApplied>>

\* The snapshot in the Persister is processed before the applier starts.
ingestSaved(i, sn) ==
  IF Snap /\ sn # NoSnap THEN ingestSnap(i, sn) ELSE UNCHANGED <<logs, lastApplied>>

\* The peer and the applier run when newRfsrv() returns, and Test.srvs still has
\* the instance of before, whose log checkLogs() goes on to use.
newRfsrv(s) ==
  LET i == <<s, srvs[s] + 1>> IN
  /\ Step(s, "down", "made")
  /\ ingestSaved(i, saved[s])
  /\ snap' = [snap EXCEPT ![i] = saved[s]]
  /\ next' = [next EXCEPT ![i] = saved[s].last]
  /\ UNCHANGED <<srvs, saved, applyErr, raft, msg, pc, dead, exit>>

mksrv(s) ==
  /\ Step(s, "made", "up")
  /\ Prompt => pc[Current(s)] \in {"start", "read", "returned"}
  /\ srvs' = [srvs EXCEPT ![s] = @ + 1]
  /\ UNCHANGED <<saved, rfsrvVars, raftVars, exit>>

Applier(i) ==
  applierStart(i) \/ applier(i) \/ applierSnapIngest(i)
  \/ applierSnapCommand(i) \/ applierSnapSnapshot(i)

Next ==
  /\ exit = "no" /\ UNCHANGED test
  /\ \/ \E i \in Inst : DeliverCommand(i) \/ DeliverSnapshot(i) \/ Applier(i)
     \/ \E s \in Srv : Shutdown(s) \/ Kill(s) \/ KillRaft(s)
                      \/ newRfsrv(s) \/ mksrv(s)

Spec == Init /\ [][Next]_vars

-----------------------------------------------------------------------------
(* Properties.                                                             *)

\* Peers that agree and deliver in order are never accused, neither by checkLogs
\* nor by the order checks of the appliers, although a restarted server begins
\* with its snapshot and the others have gone on: as long as no applier of an
\* instance that was killed is still busy when the next one is registered, nor
\* that of the next one before it is.
NoFalseAlarm == ~Faulty /\ Prompt /\ ~Early => exit # "fatal"

\* A command that is checked before its rfsrv is in Test.srvs is missing in the log
\* of that rfsrv, and so in the snapshots made from it.
Whole == Snap => ~Early

\* The snapshots that are handed to Raft hold every command up to their index,
\* and so does the log of the instance in use up to its last command: a
\* snapshot installed or ingested at a restart leaves no hole in it.
NoHole ==
  ~Faulty /\ Whole =>
    /\ \A i \in Inst, k \in Index : k <= snap[i].last => snap[i].xlog[k] = k
    /\ Snap => \A s \in Srv, k \in Index :
                 k <= lastApplied[Current(s)] => Logs(Current(s), k) = k

\* An instance that is not in Test.srvs yet has what it began with.
AsMade(i, sn) ==
  /\ Whole => logs[i] = sn.xlog /\ snap[i] = sn
  /\ ~Early => next[i] = sn.last /\ pc[i] \in {"start", "read", "returned"}

\* An instance that was replaced has its rfsrv killed, one that is not yet made is
\* as new, and the message of an applier is the one it is busy with, the last
\* of its peer.
Controlled(i) ==
  /\ i[2] < srvs[i[1]] => ~raft[i]
  /\ i[2] > Newest(i[1]) => /\ logs[i] = EmptyMap /\ lastApplied[i] = 0
                            /\ next[i] = 0 /\ snap[i] = NoSnap /\ pc[i] = "start"
  /\ i[2] > srvs[i[1]] /\ i[2] = Newest(i[1]) => AsMade(i, saved[i[1]])
  /\ pc[i] \in {"start", "read", "returned"} => msg[i] = NoMsg
  /\ pc[i] = "got" => ~msg[i].err /\ msg[i].kind \in {"command", "snapshot"}
  /\ pc[i] = "snapshot" => Snap /\ msg[i].kind = "command"
  /\ msg[i].kind = "command" => msg[i].index \in Index /\ msg[i].index = next[i]
  /\ msg[i].kind = "snapshot" => Snap /\ msg[i].snapshot.last = next[i]

\* An applier is behind its peer by the message it has read.  Without snapshots
\* there are none, and lastApplied is not used.
InSync(i) ==
  /\ ~Snap => snap[i] = NoSnap /\ lastApplied[i] = 0
  /\ exit = "no" =>
       /\ snap[i].last <= next[i]
       /\ Snap => /\ pc[i] # "got" => lastApplied[i] = next[i]
                  /\ msg[i].kind = "command" /\ pc[i] = "got" => next[i] = lastApplied[i] + 1
                  /\ msg[i].kind = "snapshot" => lastApplied[i] < next[i]

Right(f) == \A k \in Index \cap DOMAIN f : f[k] = k

\* Peers that agree: the command k is at index k wherever it has got to.
HoldsRight(i) ==
  ~Faulty /\ Whole
          => /\ Right(logs[i]) /\ Right(snap[i].xlog) /\ Right(msg[i].snapshot.xlog)
             /\ msg[i].kind = "command" => msg[i].val = msg[i].index
             /\ msg[i].kind = "snapshot" => msg[i].index = msg[i].snapshot.last

\* ... and if the appliers are prompt, those that are busy belong to instances in
\* use, whose logs hold all that was delivered before.
Undisturbed(i) ==
  ~Faulty /\ Prompt /\ ~Early /\ exit = "no" =>
    /\ ~msg[i].err
    /\ pc[i] \in {"got", "snapshot"} => i[2] = srvs[i[1]]
    /\ ~Snap /\ i[2] = srvs[i[1]] =>
         \A k \in 1..next[i] : k \in DOMAIN logs[i] \/ (pc[i] = "got" /\ k = next[i])

InstanceInv(i) == Controlled(i) /\ InSync(i) /\ HoldsRight(i) /\ Undisturbed(i)

\* The log of the instance in use has no hole, and what a next one begins with is
\* a snapshot like any other.
ServerInv(s) ==
  /\ Whole => 1..lastApplied[Current(s)] \subseteq DOMAIN logs[Current(s)]
  /\ life[s] # "up" => srvs[s] < MaxGen
  /\ life[s] \in {"killed", "down", "made"} => ~raft[Current(s)]
  /\ ~Snap => saved[s] = NoSnap
  /\ ~Faulty /\ Whole => Right(saved[s].xlog)

\* The snapshot that a next instance of s would begin with.
Kept(s) == IF life[s] = "up" THEN snap[Current(s)] ELSE saved[s]

\* Some server has applied n entries, and will have them again if it restarts.
Held(n) == \E u \in Srv : n <= lastApplied[Current(u)] /\ n <= Kept(u).last

\* Maps agree where both have an entry.
Matches(f, g) == \A k \in Index \cap DOMAIN f \cap DOMAIN g : f[k] = g[k]

Ended == exit # "no" \/ \E i \in Inst : msg[i].err

LogsMatch == \A s, t \in Srv : Matches(logs[Current(s)], logs[Current(t)])

\* A snapshot that may enter the log of a server agrees with every log, and some
\* server holds all of it, so that no log can come to disagree with it unnoticed.
Harmless(sn) == Held(sn.last) /\ \A t \in Srv : Matches(sn.xlog, logs[Current(t)])

Converging ==
  ~Ended /\ Whole
         => /\ LogsMatch
            /\ \A s \in Srv : Harmless(Kept(s))
            /\ \A s \in Srv : msg[Current(s)].kind = "snapshot"
                                => Harmless(msg[Current(s)].snapshot)

\* The types of the servers' state, NoHole, and the inductive invariant that it
\* and the properties around it follow from.
CheckerInv ==
  /\ TypeOK /\ NoHole
  /\ \A i \in Inst : InstanceInv(i)
  /\ \A s \in Srv : ServerInv(s)
  /\ Converging

\* Whatever commands the peers deliver, each in order, two servers never hold
\* different commands at one index unless the process has ended or is about to:
\* entries that enter the logs through a snapshot are not compared with those of
\* the others, and checkLogs() may use an instance that is being replaced.
NoSilentDivergence ==
  \/ ~Whole
  \/ exit # "no"
  \/ \E i \in Inst : msg[i].err
  \/ \A s, t \in Srv : \A k \in Index \cap DOMAIN logs[Current(s)] \cap DOMAIN logs[Current(t)] :
       logs[Current(s)][k] = logs[Current(t)][k]

-----------------------------------------------------------------------------
(* What comments of the code say and the code does not do: none of these   *)
(* holds, and no run checks them.  README.md tells how each is violated.   *)

\* server.go:113 and 168: after an error an applier keeps reading, and the test
\* finds the error in applyErr.
KeepsReading == exit = "fatal" => \E i \in Inst : applyErr[i]

\* raft.go:177-184: what runs on after Kill() costs memory and CPU time.
LateIsHarmless == exit # "panic"

\* server.go:107 and 139 say "apply out of order" of a peer that applied in
\* order, when Prompt is not assumed, or when it is Early.
NeverFalseAlarm == ~Faulty => exit # "fatal"

\* server.go:149-153: xlog has the commands up to the index.  If Early, it may have
\* a nil for one that was put into the log of the instance of before.
SnapshotsWhole ==
  ~Faulty => \A i \in Inst, k \in Index : k <= snap[i].last => snap[i].xlog[k] = k
=============================================================================
