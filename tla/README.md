# TLA+ models of the MIT 6.5840 lab framework

The repository is the framework of the 6.5840 labs: a simulated network
(`labrpc`), a tester that starts, kills, partitions and restarts servers
(`tester1`), test harnesses for each lab, and shard configurations
(`shardcfg`).  The labs themselves (Raft, the k/v servers, the shard controller,
MapReduce) are skeletons with empty handlers, so what carries logic, and what
every student's result rests on, is the framework.  These modules model it.

Paths below are relative to `src/src/`.

## 1. The system's parts

| Part | State | Operations | What is hard |
|---|---|---|---|
| **labrpc** `labrpc/labrpc.go` | ends, their connections and enabled flags, Server objects by name, reliability switches, counters; per call the locals of `processReq` | `Call`, `MakeEnd`, `DeleteEnd`, `Connect`, `Enable`, `AddServer`, `DeleteServer`, `Reliable`, `LongReordering`, `Cleanup` | three goroutines per call; values read under a lock and used after it; replies lost or delayed; handlers that outlive their server |
| **server life cycle** `tester1/srv.go`, `persister.go`, `raft1/server.go` | the instances of a server, their Persister objects, `saved` | `startServer`, `shutdownServer`, `Kill`, `Copy`, `Save` | a killed instance goes on running and saving |
| **server group** `tester1/group.go` | `connected`, the servers' sets of ends | `ConnectAll`, `DisconnectAll`, `Partition`, `MakePartition`, `StartServer`, `ShutdownServer`, `restart` (`raft1/test.go`) | long sequences of operations that each touch only some links |
| **shard configuration** `shardkv1/shardcfg/shardcfg.go` | `Num`, `Shards`, `Groups` | `Join`, `Leave`, `Rebalance` | loops that must end, calls refused half way |
| **clients** `tester1/clnts.go`, `config.go` | per client: ends made so far, allowed servers | lazy `makeEnd`, `ConnectAll`, `ConnectTo`, `Disconnect`, `DisconnectAll`, `DeleteClient`, `cleanup` | an end made after the operation that should cover it; calls that outlive their client |
| **annotations** `tester1/annotation.go` | open checker and continuous annotations, the time line | point, interval and continuous annotations, faults, `AnnotateTest`, `finalize`, `cleanup`, `captureSignal` | begin and end in different places; a file drawn by three goroutines from a shared slice |
| **Raft harness** `raft1/test.go`, `server.go` | each server's committed log | `checkLogs`, appliers, `ingestSnap`, `mksrv`, `Kill` | appliers of dead instances |
| **k/v harness** `kvtest1`, `models1` | counts of the clients, operation log, channels | `OneClientPut`, `OneClientAppend`, `PutAtLeastOnce`, `SpawnClientsAndWait`, `Partitioner`, the checks, `KvModel` | puts of unknown outcome; rendezvous on unbuffered channels |
| **rsm and shardkv harnesses** | as above | | |
| **MapReduce** `mr`, `mrapps`, `main` | files in a directory | `nparallel` (`mtiming`, `rtiming`) | processes that find each other through files; the rest skeletons and pure functions |

How they interact: a harness calls the group and the network switches of the
tester; the group calls `Enable`, `AddServer`, `DeleteServer` of labrpc and
`Persister.Copy`; services under test call `Call()` through ends they were
given at their start and `Save()` on the Persister they were given, for as long
as their goroutines run, which is beyond their shutdown.

What makes each part correct, in a sentence: labrpc delivers at most once and
never confirms an effect that went to a dead server; a restart starts from all
that was acknowledged; after an operation on the group exactly the links it
promises are up; a shard configuration is valid, balanced and changed no more
than needed; a client that was cut off reaches no server; the time line shows the
faults there were, and a failed test leaves a picture; a harness never blames a
correct service and catches a diverging one; its goroutines all come to an end.
`PROJECT.json` lists the hazards line by line.

## 2. Modules

    RpcAbs  <--refines--  LabRpc  <--extends--  CrashRestart
                                                    |
                                             CrashRestart_proofs
    ShardCfg  <--extends--  ShardProgress
        |
    ShardCfg_proofs
    ServerGroup, NParallel  <--extends--  ServerGroup_proofs
    Clnts                   <--extends--  Clnts_proofs
    Annotation              <--extends--  Annotation_proofs
    VisFile                 <--extends--  VisFile_proofs
    KvTest                  <--extends--  KvTest_proofs
    RaftChecker             <--extends--  RaftChecker_proofs

CrashRestart_proofs holds the proofs about LabRpc too, which those about
CrashRestart rest on.  ServerGroup and NParallel have nothing to do with each
other; their proofs share a file.

`MC*` modules and `.cfg` files are the instances for TLC.  Where one component is
exercised by tests of several kinds (VisFile, KvTest, RaftChecker), the kind is a
record that `Init` chooses from a constant set, so that one run covers all of
them; the MC module lists them.  Definitions whose
comment begins with "Mutant of" are deliberately wrong variants of the
definition that follows; no specification uses them.  They exist to show that
a property can fail.

### RpcAbs
What a user of `Call()` may rely on: a handler takes effect at most once,
possibly after the caller was told false; true means that it took effect.

### LabRpc
One thread per call: `pc[c]` walks through `Call()` and `processReq()`, with
the locals that `readEndnameInfo` returned in `servername`, `server`,
`callReliable`, `callReordering`.  The handler is a second thread, `handler[c]`.
Every section under `rn.mu` and every channel rendezvous is one action, named
after the code it stands for:

| pc | code |
|---|---|
| `sending` | the first select of `Call()`: `Accept` or `AbortSend` |
| `received` | the loop of `MakeNetwork` has the request; `StartReq` counts it and starts `processReq` |
| `accepted` | `readEndnameInfo`: one reading under the lock |
| `shortDelay` | the delay and the drop of a request; then `Dispatch` |
| `waiting` | the select loop: `ReceiveReply` or `Poll` |
| `checking` | the second `isServerDead()` |
| `replying`, `parked` | the reply, at once, dropped, or by `time.AfterFunc` |
| `failing` | a negative reply on its way |

`Dispatch` starts the handler's goroutine; its first step, `ServerDispatch`, counts
the request for its Server, some time later and perhaps after the caller was told
false.  The loop takes no further request before it has counted the last one
(`LoopWaits`).

Delays are asynchrony: any step may be taken late.  `LongDelays` changes a delay
only and is not modelled; nor are byte counts and argument encoding.  `late[c]`
is a history variable: the handler took effect after its Server was removed
from the network.  Servers are numbered by creation, so that object identity
(`rn.servers[servername] != server`) is comparison of numbers.

### CrashRestart
LabRpc's network with one server that the tester shuts down and restarts.
Persisters are objects: instance k is given `<<"inst", k>>`, and its shutdown
makes `<<"copy", k>>`.  The tester's thread (`tpc`) takes the steps of
`ShutdownServer` one at a time: disconnect the peers' ends, `DeleteServer`, copy
the Persister, `Kill` (read, read, save).  The services are external: their
handler changes memory and saves both Raft state and snapshot before it answers,
they take snapshots whenever they like, and an instance that was shut down keeps
doing so.

### ServerGroup
Which ends are enabled.  An end is `<<i, g, j>>`: from the g-th instance of
server i to server j.  An operation of the tester is the list of calls to
`connect`, `disconnect`, `DeleteServer` and `startServer` that it consists of
(`todo`), taken one at a time; operations do not overlap, as in the tests.
`goal` remembers what the last operation promises.  `connect` and `disconnect`
follow the code: `connect` enables only links whose both sides are marked,
`disconnect` clears the mark even when it cuts only some links.  `Slices` and
`Followers` are the lists that the `Partitioner` and `MakePartition` may make.
`GroupInv` says how far the running operation has come: what it has still to do
puts right what is not yet as promised (`CutsRejoin`, `AllProgress`,
`SplitProgress`).

### ShardCfg, ShardProgress
A `ShardConfig` under `JoinBalance` and `LeaveBalance`, with one step per
iteration of `Rebalance`'s loops.  `ReJoin` and `LeaveAbsent` are the calls that
return false after some of their groups have been added (in any order: a Go map
is iterated) or deleted (in order: a slice).  `analyze` is given by what it
finds: `Most` and `least`, with its tie-breaking.  Lists of servers are left out;
callers name servers after their group.  ShardProgress is the sequence of
configurations of `TestProgressJoin5A`.

### Clnts
Clients, the part of labrpc's tables that they write, and `Config.Cleanup`.  An
operation takes `clnt.mu` and then touches one end at a time (`EnableNext`,
`DeleteNext`), in any order, as the code ranges over a map.  A call is a thread
of its own: `makeEnd` under the lock, then `Send` and the two readings of the end
by `processReq` without it, so that it may hold an end that has been disabled or
deleted since.  `readEndnameInfo` only reads: a request that it lets pass is on its
way, and may reach its server up to 27 ms later, whatever happens to the end
meanwhile.  `isServerDead` reads the end again before an answer is passed on.
Whether a server is on the network is not the clients' doing and is left open; in
particular `Groups.cleanup` kills the services and leaves their servers on the
network, so `GroupsCleanup` changes nothing that a call could notice.
`DeleteEnd` of an unknown name is `log.Fatalf` in labrpc.  `ClntsInv` relates the
ends to the operation that holds the lock: which of them it has touched already
(`OpHalfDone`), that none is removed twice (`RemovedOnce`), that a call holds an
end that was made (`CallsHaveEnds`), and that the network connects only ends that
it has (`ConnectedMade`).

### Annotation, VisFile
Annotation is the time line: each operation takes `an.mu` and the clock once, so
it is one step.  A description is reduced to what it says about the servers.  The
guards on `AnnotateTwoPartitions` and `AnnotateConnection` are what the comments
of the code ask of its callers and the tests do.  `AnnotationInv` gives the types
of the entries (`Entries`) and that what is on the time line is past
(`FaultsPast`).

VisFile is what happens to it at the end of a test.  Go's slices are modelled as
such, a length and an array that several slices may share, with `append` writing
in place when there is room: `finalize` returns the slice itself, and appends
after it, by others and by its caller, meet in one array.  The tester
(`checkPorcupine`, `cleanup` from `Config.Cleanup`) and the goroutine of
`captureSignal` each go through checking the flag, finalizing, opening the file
(`OpenFile`, which empties it) and drawing (`Visualize`) in separate steps.  `pre[t]`
is a history variable: all that `finalize` handed out to t, the continuous
annotation that it appended itself included; `own[t]` is how much of it
`an.annotations` had.  `AnnotateCheckerFailureBeforeExit` does what the
interrupt handler does, from an applier.  `VisInv` says where the appends after
`finalize` go (`AppendsBehind`) and what the flag `finalized` tells about the file
in each state of the tester (`FlagTells`, `HistoryFinal`).

### KvTest
The clients of `SpawnClientsAndWait` running `OnePut`, `OneClientAppend` or
`PutAtLeastOnce`, the handshake on `done` and `ca`, the `Partitioner` and the
checks.  The service is external, as `kvsrv1` and `kvraft1` are empty: it does
what their comments ask, namely conditional puts on versions, and a clerk that
resends until it gets an answer and says `ErrMaybe` when an earlier attempt may
have been executed.  A request that was given up may be executed later (`strays`).
The service of a `broken` test loses the key now and then (`LoseKey`), so that a
client finds what it did not expect (`Unexpected`).  `Fatalf` then ends the client's
goroutine, which is what `FailNow` does when it is not called by the tester's, and
the tester goes on waiting on the client's channel; a check that fails ends the test
itself.  `Signal` is enabled once every client has begun.  That is an assumption
about timing, not guaranteed by the code: the tests give the clients a second or
more, and if none had begun by then the key would not be there for `GetJson`.
`log` of a test turns on the operation log; `Reach` is the set of states in which a
search of linearizations by `KvModel`'s `Step` can end.  `KvInv` says that `Works`
holds unless the service is broken; `Works` relates, client by client, where the client is, what its clerk is doing, what the service has stored
and what the client has counted: an answered put can no longer be executed
(`ReplyFits`), a late request that still can be is one its clerk is waiting for
(`StraysFit`), a client stored at most one version per iteration and at least one
for each it counts as done (`CountFits`), and the list grows by one entry per
version, with the numbers of a client rising (`ListFits`).

### RaftChecker
The instances of `rfsrv`, each with its log, `lastApplied` and its applier as a
thread (`pc`), against `Kill`, restart and a Raft that delivers agreed commands and
snapshots (external; in a `faulty` test, commands of each peer's own, in the order
of their indices still).  A restart is two steps: `newRfsrv` starts the peer and the
applier, `mksrv` publishes the instance in `ts.srvs`.  `checkLogs` writes into the
instance that is published when it runs, which need not be the one that read the
message: it may be the next one, and, in an `early` test, the one before.  `Msg` is `ApplyMsg`: a
command with its index, or a snapshot with the last index in it.  `CheckerInv` is
the inductive invariant, in parts on one instance (`InstanceInv`), on one server
(`ServerInv`) and on the logs together (`Converging`).

### NParallel
A step for each name that a worker's scan of the directory gets to, as the files
come and go meanwhile, and one for each `kill(pid, 0)`.  A process may end at any
time and leave its file; its pid is not used again.  `met` is a history variable.

## 3. Runs

| Run | Instance | Shows |
|---|---|---|
| `labrpc` | 2 calls on one end, one of which may hang in its handler, a Server added and deleted, unreliable network, delayed replies, fair | `AckedBeforeDeleted`; its inductive form `IInv`; `CountsAgree`; `RefinesRpc`; `CallReturns`, `HandlerGoroutineEnds`, `KilledCallFails` |
| `crash` | 1 call, 3 instances of the server, a client's and a peer's end, delayed replies | `AckedDurable`, `SavedConsistent`, their inductive form `CrashInv`; `SavedFrozenWhileDown` |
| `group` | 3 servers, 1 restart each | `PartitionExact`, `LeaderInMinority`; `GroupInv` (types, `DisconnectedIsolated`, `AllConnected` and what makes them and the two inductive) |
| `group_zombie` | the same | violates `ShutdownIsolates`, see below |
| `shardcfg` | 3 shards, 4 groups, 5 configurations, 2 groups per join or leave, fair | `ConfigChecked`, `MovesOnlyWhatMust`, `MembersOwn`, their inductive form `ShardInv`; `RebalanceEnds` |
| `shard_progress` | the test's 12 shards and groups 1-5 and 7 | `StableStay` |
| `clnts` | 1 client, 2 servers, fair | `ClntsInv` (types, `EndsFollowClient`, inductive), `NoFatalDelete`, `DisconnectedCut`, `DeletedPassesNone`, `CleanupReturns` |
| `annotation` | 2 servers, 5 operations | `AnnotationInv` (types, `FaultsApart`, inductive), `FaultShown`, `FaultKept` |
| `vis_file` | 1 test, 2 annotations and arrays with room to spare; 2 tests, 1 annotation | `VisInv` (types, `DrawnAsFinalized`, inductive), `EndedTestDrawn`, `HistoryKept` |
| `kv_test` | 2 clients; six tests: appends, puts on a reliable and an unreliable network, puts with the Partitioner, puts with the operation log, `PutAtLeastOnce`; and three of a service that loses its key: appends, puts with the Partitioner, `PutAtLeastOnce`; fair | `KvInv` (types, `NoFalseAlarm`, inductive), `LogLinearizable`, `PutAtLeastOnceStored`, `TestEnds` |
| `raft_checker` | 2 servers, 1 restart each, with and without snapshots every 2 entries, a correct Raft (3 entries) and one whose peers disagree (2 entries), without snapshots also early | `CheckerInv` (types, `NoHole`, inductive), `NoFalseAlarm`, `NoSilentDivergence` |
| `nparallel` | 3 workers, 1 run each | `ParallelNoticed`, `CountedRan` |

Bounds.  `MaxServers` bounds Server objects.  Three, in `crash`, let a server be
replaced twice under a call; `labrpc` has one, since its liveness properties are
about two calls of which one hangs, and since the theorems show its safety
properties for any number.  Two calls are needed for one to be acknowledged while
another is in flight; in `crash` they interact only through the Persister, and
`AckedDurable` is about each update by itself.  `MaxGen` bounds the sets of ends of
a server: the one made with the group, the first instance's, the second's.
`MaxNum` and `MaxArgs` bound the length of a behaviour and of an argument list;
fewer shards than groups is what makes a group own nothing.  `ReliableModes` and
`ReorderModes` are the values the tester passes to the two switches: `labrpc`
switches to an unreliable network and to delayed replies, `crash` to delayed
replies.  The theorems
below hold whatever the bounds.  `MakePartition` is checked for three servers;
all tests use an odd number.  `shard_progress` does not check deadlock: the test
stops after some cycles, here at `MaxNum`.

In Clnts clients share nothing but `clnts.mu`, so one with two servers has all
the cases.  `MaxTime` bounds the number of annotations: five operations are
enough to begin a fault, change it, clear it and begin the next.  In VisFile
`spare` is the room an array has after `append` allocates it, and `ann` the
annotations made meanwhile; two are needed for one to go into the array before
and one after it was handed out.  In KvTest `maxPuts` bounds the version up to
which messages are lost, and the versions that clients of a broken service try;
`maxIter` bounds the iterations of a client and `MaxStray` the late requests.  In RaftChecker `MaxIndex` is one more than `SnapShotInterval`, so
that entries follow a snapshot.  These systems stop when the test is over or the
bound is reached, so deadlock is not checked; that nobody is left waiting is
`CleanupReturns` and `TestEnds`.

Fairness.  `LabRpc!Fairness`: Go's scheduler and timers run every goroutine of
the network that can run, the receiving loop, that of each request and that of each
handler by itself, and a handler outside `Stuck` returns.  Nothing is
assumed of the tester: an end need not ever be enabled again.  There is no
fairness on the random choices: nothing relies on a reply not being dropped.
`FairShardSpec`: a loop that can take a step takes it.  `Clnts!Fairness`: every
goroutine that can run does, and `remove`, which waits for `clnt.mu`, gets it in
the end (strong fairness) although calls keep taking it: Go's `sync.Mutex` hands
the lock to a waiter after a millisecond.  `KvTest!Fairness`: tester, clients and
service go on, with a clerk whose messages are not lost for ever (`maxPuts`),
which is what the tests arrange by healing the network.

`prompt` in RaftChecker is an assumption of the tests with a correct Raft, not
something the code guarantees: an applier is done with the message it has read
before the next instance of its server is published.  It is what happens nearly
always, for one of two reasons.  Some tests restart servers without any pause
(`TestPersist13C`, `raft_test.go:773-783`; `TestSnapshotAllCrash3D`, `:1342-1344`;
`TestSnapshotInit3D`, `:1373-1383`),
but after a `one()` that returned only when all servers had applied, so that
appliers are idle unless a leader is just committing.  Others restart a server that
may be busy after some milliseconds or more (`TestPersist23C`, `:835-842`;
`TestFigure83C`, `:937-945`), and an applier needs microseconds.  `NeverFalseAlarm`
below is what happens otherwise.  The tests with a faulty Raft do without it.

Unless a test is `early`, a peer delivers nothing between `newRfsrv` and `mksrv`:
`StartServer` puts the server on the network only afterwards, and its ends are not
enabled (`group.go:232-243`), so that it cannot learn what is committed.  A Raft that
kept its commit index, or a group of one server, could.  Then `checkLogs` puts a
command into the instance of before: one of the two faulty tests has it, and
`SnapshotsWhole` below is what it does to snapshots.

`StableStay` is a fact about the test's own numbers, not about `Rebalance` in
general: with 3 shards, groups 1 and 2 and assignment (1, 2, 2), group 3 joins
and leaves to give (1, 1, 2), and the next time it joins another shard moves.
The test would be wrong for such numbers, or for other tie-breaking in
`analyze`.

### What comments say and the code does not do
`group_zombie` is a run: `tester1/group.go:254` says that a server is shut down
"by isolating it".  `restart(i)` of the Raft tests starts one server and calls
`ConnectAll()`, which connects every server of the group: those that are still
shut down are marked connected, and the ends of their dead instances are enabled
again, so that the goroutines of those instances can call live peers.
`TestPersist23C` does this each time it restarts servers one by one.  The
properties of the passing runs are stated so as not to depend on it.

Further statements stand at the end of their modules.  No run checks them; TLC
finds a counterexample when one is added to the `.cfg` of its module, for
`NeverFalseAlarm` together with a test that is neither `faulty` nor `prompt`, and for
`SnapshotsWhole` with one that takes snapshots and is `early` and not `faulty`.

* `Clnts!SrvsAsDocumented`.  `srvs` is documented as the servers that the client can
  connect to (`clnts.go:23-24`).  `ConnectTo` disables no end and `Disconnect` does
  not change `srvs` (`:84-107`).  The tests at this commit use neither, which is
  why it goes unnoticed.
* `Annotation!NothingToEnd`.  "Nothing to end" is not followed by a return
  (`annotation.go:490-491`).
* `Annotation!CheckerReset`.  The begin of a check is reset in a copy
  (`annotation.go:166`, `:175-176`).
* `VisFile!AllDrawnAsFinalized`.  `finalize` appends the continuous annotation that is
  going on to the shared array (`annotation.go:385-395`) and leaves `an.annotations` as
  short as it was, so that the next annotation (`:421`) is written over it, before it
  is drawn.  `DrawnAsFinalized` is what is left: what had been annotated before is
  drawn, and the continuous annotation too if nobody annotates meanwhile.
* `VisFile!HistoryNeverOverridden`.  The flag that is to protect the drawn history
  (`porcupine.go:183-185`) is checked in one step and set in another
  (`annotation.go:510`, `:545`), so that an interrupt can come between.
  `HistoryKept` is about behaviours without one.
* `VisFile!FailedTestDrawn`.  `GenericTest` sets the flag before anything was drawn
  (`kvraft_test.go:71`); what fails later leaves no picture, although
  `annotation.go:513-514` takes the flag to mean that there is one.
  `EndedTestDrawn` is therefore about tests that did not set it.
* `VisFile!LastIsInterval`.  The interval that has to come last (`annotation.go:77`,
  `:525`) can be overwritten in the array that the slice shares (`:88`, `:382`,
  `:422`).
* `VisFile!NeverNoFile`.  The file is opened (`porcupine.go:95-97`) before
  `VIS_ENABLE` is looked at (`:102`).
* `RaftChecker!KeepsReading`.  `log.Fatalf` (`raft1/server.go:111`, `:166`) precedes
  the code that is to keep Raft going (`:113-114`, `:168-169`).
* `RaftChecker!LateIsHarmless`.  `rs.raft` is nil (`raft1/server.go:68`) when a late
  applier calls `Snapshot` (`:155`); `raft.go:182-185` says of goroutines that run on
  after `Kill()` that they use memory and CPU time.
* `RaftChecker!NeverFalseAlarm`.  A late applier (`raft1/server.go:107`, `:139`) writes
  into the log of the next instance, as `checkLogs` goes by the server's number
  (`raft1/test.go:131`); an early one misses what it has put into that of before.
* `RaftChecker!SnapshotsWhole`.  `xlog` (`raft1/server.go:149-153`) has nil for a command
  that an early applier gave to `checkLogs` before `mksrv` published its instance
  (`raft1/test.go:53-54`).
* `KvTest!FailedTestEnds`.  A client whose `Fatalf` ends its goroutine
  (`tester1/config.go:166`) takes no signal and sends no result, so that the tester
  waits for it (`kvtest1/kvtest.go:161-166`) until the time limit of `go test`.  `TestEnds` is about
  tests in which no client has failed.

## 4. Proofs

TLAPS checks, for every value of the constants that satisfies the modules'
assumptions:

* `CrashRestart_proofs`, about LabRpc: `InvariantHolds`, `AckedBeforeDeletedHolds`,
  `CountsAgreeHolds`, `RefinementHolds`.  `AckedBeforeDeleted` is not inductive: it needs that a reply
  in flight belongs to a finished handler that was not late, that a Server object
  a call remembers is an old one (`server[c] <= made`), and that therefore an
  object that has been replaced never comes back (`late[c] => Superseded(c)`).
  `IInv` is that, call by call.  The refinement maps `pc` and `handler` to
  `status` and `executed`; every action is a step of RpcAbs or leaves both alone.
  For the counters: a call is taken (`Taken`) when the loop has counted it, which is
  before its goroutine exists, and begun (`Begun`) when its Server has, which is a
  step of a third goroutine; so at any moment the Servers' counts together (`Tally`)
  are as many as the begun calls, which are among the taken ones, and a call is
  answered positively only by a handler that has begun.
* `CrashRestart_proofs`, about CrashRestart: `CrashInvariantHolds`, `AckedDurableHolds`,
  `SavedConsistentHolds`, `SavedFrozenHolds`.  The argument: what a handler did is
  in its instance's memory; as long as the instance is the registered one its
  memory is what its Persister holds, and that Persister is `saved`; so when
  `FinalCheck` finds the Server registered, the update is in `saved`, and from
  then on `saved` only changes to copies of itself or by saves of an instance
  that still has the update.
* `ShardCfg_proofs`: `ShardInvariantHolds`, `ConfigCheckedHolds`,
  `MovesOnlyWhatMustHolds`, `MembersOwnHolds`.  `ShardInv` says what holds
  between the iterations: in a call on a sound configuration the groups that stay
  are balanced among themselves, and no group that joins is more than one ahead
  of one that stays; so `Move` can only ever pick a joining group as its target.
  `MembersOwn` follows by the pigeonhole principle.
* `ServerGroup_proofs`, about NParallel: `NInvariantHolds`, `ParallelNoticedHolds`,
  `CountedRanHolds`, for any set of workers.  The argument is that of a mutual
  exclusion with flags: each writes its file before it reads the other's, so of
  two workers inside that have read each other's name, the later one found it
  (`FoundOne`, which needs that the file of a worker inside is there:
  `FilesRight`); a name found stays to be looked for until it is counted, unless
  its process has died (`ScanRight`).  For `CountedRan`, a file belongs to a worker
  inside or to a dead one, and a dead one is not counted (`MetRight`).
* `ServerGroup_proofs`, about ServerGroup: `GroupInvariantHolds`, `PartitionExactHolds`,
  `LeaderInMinorityHolds`, for any number of servers and restarts.  An operation is
  half done in most states, so the invariant is about `todo`: a server that is not
  marked is isolated unless its `connect` comes next, which it does after every
  `disconnect` from some servers only (`CutsRejoin`, `UnmarkedIsolated`); when
  `ConnectAll` has n calls left, all servers but the last n are linked
  (`AllProgress`); in a partition, servers that have been cut off have no link to
  the other side and those that are done are linked within theirs
  (`SplitProgress`).  When `todo` is empty these say what the operation promises.
  `LeaderGoal`: the side that `MakePartition` gives the leader is the smaller one.
* `Clnts_proofs`: `ClntsInvHolds`, `NoFatalDeleteHolds`,
  `DisconnectedCutHolds`, `DeletedPassesNoneHolds`, for any clients and
  servers.  An end is in the state its client's `srvs` asks for, or it is among the
  ends that the operation in progress has still to touch; as that operation holds
  `clnt.mu`, no other end is made meanwhile.  `remove` deletes an end only once:
  every end of a registered client is on the network, except those that a `remove`
  in progress is done with (`RemovedOnce`).  The two action properties follow from
  what `readEndnameInfo` and `isServerDead` can find in a state that satisfies this:
  after `DisconnectAll` no end is enabled (`StaysDisconnected`), and an end that was
  deleted is not connected (`ConnectedMade`), even if `Enable` has made an entry for
  its name.
* `Annotation_proofs`: `AnnotationInvHolds`, `FaultShownHolds`, `FaultKeptHolds`, for
  any servers and any times between operations.  A fault that is over was put on
  the time line with the time it began at, all of them end before the one that is
  going on began, and so they are apart; and nothing but a new test removes one.
* `RaftChecker_proofs`: `CheckerInvHolds`, `NoFalseAlarmHolds`,
  `NoSilentDivergenceHolds`, for any number of servers and restarts, any
  interval between snapshots, and any tests.  An applier is behind its peer by
  exactly the message it has read (`InSync`), so what it gives to `checkLogs` is
  next in order and the log has no hole up to `lastApplied` (`ServerInv`).  If the
  peers agree, every log and snapshot has the agreed command at each index
  (`HoldsRight`), and with `prompt` appliers and no `early` peer one that is busy
  belongs to the published instance (`Undisturbed`), so there is nothing to raise an
  alarm about.  An instance that is made and not yet published has what it was made
  with (`AsMade`), as `checkLogs` does not write into it.  What is about snapshots is
  for peers that are not early (`Whole`).  If they do not, the danger is a snapshot: it replaces a log without
  being compared with the others.  Each snapshot that may still come into a log,
  saved or in a message that was read, agrees with every current log, and some
  server holds all of it (`Harmless`): a command that contradicts it is refused
  when `checkLogs` compares it with the log of that server, or, when that server
  is down, with what it starts from again.

* `VisFile_proofs`: `VisInvHolds`, `EndedTestDrawnHolds`, `HistoryKeptHolds`, for any
  number of tests, checks and annotations and any spare room that `append` leaves.
  The slice that was handed out is not shorter than what was finalized, and
  `an.annotations`, while it shares the array, not shorter than its part of it, so
  that an append through the one writes behind all of it and through the other behind
  that part (`AppendsBehind`): only the continuous annotation that `finalize` appended
  can be lost, and only to an annotation made after it (`DrawnAsFinalized`).  The
  other two are about the flag: it is set from the moment of finalizing until
  `clear`, and while the tester may still skip `cleanup` because of it, the file
  holds this test (`FlagTells`), and the history if it ever did (`HistoryFinal`).
  All are for behaviours without an interrupt, as section 3 explains.
* `KvTest_proofs`: `KvInvHolds`, `PutAtLeastOnceStoredHolds`, `LogLinearizableHolds`,
  for any number of clients, iterations, versions and late requests.  They are about
  services that are not broken; such a service gives no client a reason to call
  `Fatalf` (`NothingUnexpected`).
  + A step of the service or of a clerk either stores nothing (`Quiet`), or it
    stores the put of one clerk as the version that the clerk asked for (`Lands`);
    `ServeCases`, `ResendCases` and `StrayCases` reduce the three actions to these
    two, and `QuietStep` and `LandStep` show that they keep `Works`.  A step of a
    client gives new values to what is its own (`Moves`, `MovesStep`).
  + The checks at the end: the clients' versions are disjoint and together all
    there are, so their number is the sum of the clients' (`OwnersSum`), which lies
    between what they counted for certain and in all.  For the list,
    `CheckRunFacts` says what the loop of `CheckAppends` has in `expect` and
    `skipped` after n entries of a list whose numbers rise client by client.
  + `LogLinearizable`: every entry of the log is given the version at which it takes
    effect, and every version the entry that made it, or a clerk that has still to
    be answered (`Linearized`).  An answer that is not the landing itself gets the
    current version, except for a put that landed earlier: its `ErrMaybe` gets the
    version it made then, which was made after the call, so that the order in time
    is respected (`LinOrder`).  At the end no put is unanswered, and walking
    through the versions, within each first its maker and then the others in the
    order of the log, is a path of `Reach` (`NextVersion`, `NextEntry`, `LinReach`).
  + The recursive definitions (`Sum`, `CheckRun`, `Reach`) are functions, so that each
    proof begins by showing that the recursion has a solution (`SumExists`,
    `RunExists`, `ReachExists`).  These inductions, and those on the length of a
    list or log, are by least counterexample (`NatMin`, `UpTo`).

Assumptions: `LabRpcAssumption` (typing, and that nil is not a server name),
`CrashAssumption`, `ShardCfgAssumption` (1 to 256 shards, as `analyze` starts
its minimum at 257; group numbers are positive, as 0 means unassigned),
`NParallelAssumption`, `GroupAssumption` (at least one server and one set of
ends), `ClntsAssumption` (nil is neither a server nor a set of servers),
`AnnotationAssumption` (there are servers, and time passes between operations),
`RaftCheckerAssumption` (finitely many servers; `SnapShotInterval` and `MaxGen` are
positive), `VisFileAssumption` (typing; at least one test), `KvTestAssumption`
(typing; at least one client).  What KvTest takes for granted about the service and
the clerks is in its actions `handler`, `Serve`, `Resend` and `ExecuteStray`; its
theorems say nothing about a service that behaves otherwise.  What RaftChecker takes
for granted about Raft is in `DeliverCommand` and `DeliverSnapshot`: also a faulty
peer delivers commands in the order of their indices.

Only model-checked:

* liveness (`CallReturns`, `KilledCallFails`, `HandlerGoroutineEnds`,
  `RebalanceEnds`, `CleanupReturns`, `TestEnds`), which is out of the prover's reach;
* `StableStay`, a fact about one instance.

## 5. Not modelled, and the plan

Not modelled: the skeletons (Raft, k/v servers, rsm, shard controller and
groups, MapReduce coordinator and worker: empty handlers), `labgob` (reflection,
warnings only), the rsm harness (it polls an rsm whose body is empty), the old
command-line programs in `main` (their packages are not in the repository), and
the MapReduce applications that are pure functions on text or exit at random,
and `mrsequential`, one loop over a sorted list.  Of
the Raft harness, `checkOneLeader`, `checkTerms`, `nCommitted` and `one` only poll
a Raft that is not there; of the configuration, statistics and the time limit
are left out.

Every safety property that a passing run checks is proved, but for `StableStay`.
What is left, in this order: several keys in KvTest, to which `Partition` of KvModel
would apply; tests of services with other faults than a lost key, to show which
faults the checks notice; and the labs' own protocols, once a solution
stands in place of the skeletons.
