---------------------------- MODULE CrashRestart ----------------------------
(***************************************************************************)
(* A server that the tester shuts down and restarts while calls to it are  *)
(* in flight: ServerGrp.ShutdownServer/StartServer (tester1/group.go),     *)
(* Server.shutdownServer/startServer (tester1/srv.go), Persister           *)
(* (tester1/persister.go) and rfsrv.Kill (raft1/server.go), on top of the  *)
(* network of LabRpc.                                                      *)
(*                                                                         *)
(* A killed instance is only cut off: its goroutines go on, and go on      *)
(* saving into the Persister object they were given.  Server object k of   *)
(* LabRpc is the one of instance k, and the tester thread runs the program *)
(* tpc one network or Persister operation at a time.                       *)
(***************************************************************************)
EXTENDS LabRpc

CONSTANTS
  Srv,            \* the server's name
  PeerEnds        \* the ends of the other servers of the group to it

ASSUME CrashAssumption == Srv \in Names /\ PeerEnds \subseteq Ends

VARIABLES
  persister,      \* the Persister objects
  saved,          \* Server.saved: which of them the next start will copy
  mem,            \* mem[k]: what instance k has in memory
  tpc,            \* where the tester is in ShutdownServer or StartServer
  killRead        \* local variables raftlog and snapshot of rfsrv.Kill

crashVars == <<persister, saved, mem, tpc, killRead>>
allVars == <<vars, crashVars>>

\* Instance k is given <<"inst", k>>; shutting it down makes <<"copy", k>>.
Objects == {"inst", "copy"} \X ServerObjs
NoObject == <<"none", 0>>
Inst(k) == <<"inst", k>>

\* A Raft state is what was trimmed into the snapshot it goes with, and the
\* log of what came after; a persisted operation stands for its call.
RaftState == [base : SUBSET Calls, log : SUBSET Calls]
NoState == [base |-> {}, log |-> {}]
Contents == [raftstate : RaftState, snapshot : SUBSET Calls]
Empty == [raftstate |-> NoState, snapshot |-> {}]

CrashTypeOK ==
  /\ persister \in [Objects -> Contents]
  /\ saved \in Objects \cup {NoObject}
  /\ mem \in [ServerObjs -> RaftState]
  /\ tpc \in {"down", "started", "up", "disconnecting", "deleted", "copied",
              "killing", "killing2"}
  /\ killRead \in Contents

\* After makeSrvGrp and makeEnd: the ends to the server exist and are
\* connected to it, and no server has been started.
CrashInit ==
  /\ reliable = TRUE /\ longReordering = FALSE
  /\ ends = [e \in Ends |-> "made"]
  /\ enabled = [e \in Ends |-> e \notin PeerEnds]
  /\ connections = [e \in Ends |-> Srv]
  /\ servers = [n \in Names |-> Nil]
  /\ made = 0
  /\ done = FALSE /\ loopUp = TRUE
  /\ count = 0 /\ served = [k \in ServerObjs |-> 0]
  /\ pc = [c \in Calls |-> "idle"]
  /\ callEnd = [c \in Calls |-> NoName]
  /\ servername = [c \in Calls |-> NoName]
  /\ server = [c \in Calls |-> Nil]
  /\ callReliable = [c \in Calls |-> TRUE]
  /\ callReordering = [c \in Calls |-> FALSE]
  /\ replyOK = [c \in Calls |-> FALSE]
  /\ handler = [c \in Calls |-> "none"]
  /\ late = [c \in Calls |-> FALSE]
  /\ persister = [o \in Objects |-> Empty]
  /\ saved = NoObject
  /\ mem = [k \in ServerObjs |-> NoState]
  /\ tpc = "down"
  /\ killRead = Empty

-----------------------------------------------------------------------------
(* The services: code under test, known by how the tester uses it.  It     *)
(* persists what it has in memory before it answers, and restores it.      *)

\* Persister.Save of instance k: Raft state and snapshot in one action.
Save(k, m) ==
  /\ mem' = [mem EXCEPT ![k] = m]
  /\ persister' = [persister EXCEPT ![Inst(k)] =
                     [raftstate |-> m, snapshot |-> m.base]]

\* A handler that changes the state and persists it.
HandleAndPersist(c) ==
  /\ Execute(c)
  /\ Save(server[c], [mem[server[c]] EXCEPT !.log = @ \cup {c}])
  /\ UNCHANGED <<saved, tpc, killRead>>

\* An instance, current or not, takes a snapshot and trims its log.
TakeSnapshot(k) ==
  /\ mem[k].log # {}
  /\ Save(k, [base |-> mem[k].base \cup mem[k].log, log |-> {}])
  /\ UNCHANGED <<vars, saved, tpc, killRead>>

-----------------------------------------------------------------------------
(* The tester's thread.                                                    *)

Tgoto(from, to) == tpc = from /\ tpc' = to

\* startServer() and mks(): a fresh Persister with a copy of saved's state,
\* handed to a new instance, which reads it.
StartServer ==
  LET k == made + 1
      p == IF saved = NoObject THEN Empty ELSE persister[saved]
  IN
  /\ made < MaxServers
  /\ Tgoto("down", "started")
  /\ persister' = [persister EXCEPT ![Inst(k)] = p]
  /\ saved' = Inst(k)
  /\ mem' = [mem EXCEPT ![k] = p.raftstate]
  /\ UNCHANGED <<vars, killRead>>

\* The end of StartServer: net.AddServer with the new labrpc.Server.
StartAddServer ==
  /\ Tgoto("started", "up")
  /\ AddServer(Srv)
  /\ UNCHANGED <<persister, saved, mem, killRead>>

\* Mutant of ShutdownServer: the Persister is copied before DeleteServer().
ShutdownServerCopiesFirst ==
  /\ Tgoto("up", "disconnecting")
  /\ saved' = <<"copy", made>>
  /\ persister' = [persister EXCEPT ![<<"copy", made>>] = persister[saved]]
  /\ UNCHANGED <<vars, mem, killRead>>

ShutdownServer ==
  /\ Tgoto("up", "disconnecting")
  /\ UNCHANGED <<vars, persister, saved, mem, killRead>>

\* disconnect(i, all()), one end at a time; the clients' ends are left alone.
DisconnectEnd(e) ==
  /\ tpc = "disconnecting" /\ e \in PeerEnds /\ enabled[e]
  /\ Enable(e, FALSE)
  /\ UNCHANGED crashVars

\* Mutant of ShutdownDelete: the server stays on the network.
ShutdownDeleteMissing ==
  /\ \A e \in PeerEnds : ~enabled[e]
  /\ Tgoto("disconnecting", "deleted")
  /\ UNCHANGED <<vars, persister, saved, mem, killRead>>

ShutdownDelete ==
  /\ \A e \in PeerEnds : ~enabled[e]
  /\ Tgoto("disconnecting", "deleted")
  /\ DeleteServer(Srv)
  /\ UNCHANGED <<persister, saved, mem, killRead>>

\* Mutant of ShutdownCopy: the old instance and saved share a Persister.
ShutdownCopyMissing ==
  /\ Tgoto("deleted", "copied")
  /\ UNCHANGED <<vars, persister, saved, mem, killRead>>

\* s.saved = s.saved.Copy()
ShutdownCopy ==
  /\ Tgoto("deleted", "copied")
  /\ saved' = <<"copy", made>>
  /\ persister' = [persister EXCEPT ![<<"copy", made>>] = persister[saved]]
  /\ UNCHANGED <<vars, mem, killRead>>

\* svc.Kill(): three operations on the instance's own Persister.
KillReadRaftState ==
  /\ Tgoto("copied", "killing")
  /\ killRead' = [killRead EXCEPT !.raftstate = persister[Inst(made)].raftstate]
  /\ UNCHANGED <<vars, persister, saved, mem>>

KillReadSnapshot ==
  /\ Tgoto("killing", "killing2")
  /\ killRead' = [killRead EXCEPT !.snapshot = persister[Inst(made)].snapshot]
  /\ UNCHANGED <<vars, persister, saved, mem>>

KillSave ==
  /\ Tgoto("killing2", "down")
  /\ persister' = [persister EXCEPT ![Inst(made)] = killRead]
  /\ killRead' = Empty
  /\ UNCHANGED <<vars, saved, mem>>

\* Between two operations on the server the tester may cut and restore ends
\* and change the reliability of the network.
TesterNetwork ==
  /\ tpc \in {"down", "up"}
  /\ \/ \E e \in Ends, yes \in BOOLEAN : Enable(e, yes)
     \/ \E yes \in ReliableModes : Reliable(yes)
     \/ \E yes \in ReorderModes : LongReordering(yes)
  /\ UNCHANGED crashVars

CrashNext ==
  \/ NetworkStep /\ UNCHANGED crashVars
  \/ \E c \in Calls : HandleAndPersist(c)
  \/ \E k \in ServerObjs : TakeSnapshot(k)
  \/ StartServer \/ StartAddServer
  \/ ShutdownServer \/ ShutdownDelete \/ ShutdownCopy
  \/ \E e \in Ends : DisconnectEnd(e)
  \/ KillReadRaftState \/ KillReadSnapshot \/ KillSave
  \/ TesterNetwork

CrashSpec == CrashInit /\ [][CrashNext]_allVars

-----------------------------------------------------------------------------
(* Properties.                                                             *)

Recorded(o) == persister[o].raftstate.base \cup persister[o].raftstate.log

\* No acknowledged update is lost by a shutdown and restart: whatever the
\* state of the tester's thread, an update whose Call() returned true is in
\* the Persister that the next instance will start from, or is running on.
AckedDurable ==
  \A c \in Calls : pc[c] = "true" => saved # NoObject /\ c \in Recorded(saved)

\* The Raft state and the snapshot that a restart finds were saved together:
\* the non-atomic read and Save of rfsrv.Kill never gets into saved.
SavedConsistent ==
  saved # NoObject =>
    persister[saved].snapshot = persister[saved].raftstate.base

\* Where the tester's thread has left the server and its Persister.
TesterInv ==
  /\ tpc = "started" => made < MaxServers /\ saved = Inst(made + 1)
  /\ tpc \in {"up", "disconnecting", "deleted"} => saved = Inst(made)
  /\ tpc \in {"copied", "killing", "killing2"} => saved = <<"copy", made>>
  /\ tpc = "down" => \/ saved = NoObject /\ made = 0
                     \/ saved = <<"copy", made>> /\ made > 0
  /\ tpc # "down" /\ tpc # "started" => made > 0
  /\ servers[Srv] # Nil => tpc \in {"up", "disconnecting"} /\ servers[Srv] = made

\* The inductive strengthening of AckedDurable and SavedConsistent.  What
\* a handler did stays in its instance's memory; as long as the instance is
\* the registered one, its memory is what its Persister holds, and that
\* Persister is saved.
CrashInv ==
  /\ IInv /\ CrashTypeOK /\ TesterInv
  /\ \A e \in Ends : connections[e] = Srv
  /\ \A c \in Calls :
       /\ servername[c] \in {Srv, NoName}
       /\ handler[c] \in {"executed", "gone"} =>
            c \in mem[server[c]].base \cup mem[server[c]].log
       /\ pc[c] \in {"replying", "parked", "true"} =>
            saved # NoObject /\ c \in Recorded(saved)
  /\ \A k \in ServerObjs : saved = Inst(k) => persister[saved].raftstate = mem[k]
  /\ SavedConsistent

\* Between the copy in shutdownServer and the one in startServer.
Down == tpc \in {"copied", "killing", "killing2", "down"} /\ saved # NoObject

\* From the moment of the copy in shutdownServer an old instance cannot
\* change what the next one starts from, and that one starts from all of it.
SavedFrozenWhileDown ==
  [][Down => (persister'[saved'] = persister[saved])]_allVars
=============================================================================
