-------------------------------- MODULE Clnts --------------------------------
(***************************************************************************)
(* The clients of a test: src/src/tester1/clnts.go, with the parts of the  *)
(* network they use and Config.Cleanup() of config.go.                     *)
(*                                                                         *)
(* A clerk makes its ends lazily, on its first call to a server, while the *)
(* tester connects, disconnects and deletes the client.  Operations on one *)
(* client exclude each other (clnt.mu) but touch the network one end at a  *)
(* time, and calls that already have their end do not take clnt.mu.  A     *)
(* clerk's goroutine may go on after its client was deleted, as those of   *)
(* shardkv1/test.go do.                                                    *)
(***************************************************************************)
EXTENDS Naturals

CONSTANTS
  Clients,
  Servers,    \* names of servers
  Nil         \* the nil list: a client that may connect to all servers

ASSUME ClntsAssumption ==
  /\ Nil \notin Servers
  /\ \A S \in SUBSET Servers : Nil # S

VARIABLES
  \* Clnts and Config
  clerks,     \* the registered clients
  removing,   \* clients the holder of clnts.mu has still to remove()
  cfgpc,      \* where Config.Cleanup() is
  \* Clnt
  made,       \* the clients created so far
  srvs,       \* srvs[c]: a set of servers, or Nil
  ends,       \* ends[c]: the servers for which c has an end
  op,         \* op[c]: the operation holding clnt.mu, and its ends left
  last,       \* last[c]: the last connectivity operation that returned
  \* labrpc: the end of client c to server s is <<c, s>>
  netEnd,     \* "absent", "made" or "deleted"
  enabled, connected,
  done,       \* the network was cleaned up
  fatal,      \* DeleteEnd() hit an end that does not exist
  \* the clerk's goroutine
  call,       \* call[c]: <<step, server>>
  outcome     \* outcome[c]: the server that answered its last call, or Nil

clntsVars == <<clerks, removing, cfgpc, made>>
clntVars == <<srvs, ends, op, last>>
endVars == <<netEnd, enabled, connected>>
netVars == <<endVars, done, fatal>>
callVars == <<call, outcome>>
vars == <<clntsVars, clntVars, netVars, callVars>>

EndNames == Clients \X Servers
Names == {"none", "ConnectAll", "ConnectTo", "Disconnect", "DisconnectAll",
          "remove"}
Unlocked == [name |-> "none", left |-> {}]
Idle == <<"idle", Nil>>

TypeOK ==
  /\ clerks \subseteq made /\ made \subseteq Clients
  /\ removing \subseteq clerks
  /\ cfgpc \in {"running", "clnts", "groups", "net", "done"}
  /\ srvs \in [Clients -> {Nil} \cup SUBSET Servers]
  /\ ends \in [Clients -> SUBSET Servers]
  /\ op \in [Clients -> [name : Names, left : SUBSET Servers]]
  /\ last \in [Clients -> Names]
  /\ netEnd \in [EndNames -> {"absent", "made", "deleted"}]
  /\ enabled \in [EndNames -> BOOLEAN] /\ connected \in [EndNames -> BOOLEAN]
  /\ done \in BOOLEAN /\ fatal \in BOOLEAN
  /\ call \in [Clients -> {Idle} \cup ({"ended", "accepted", "passed"} \X Servers)]
  /\ outcome \in [Clients -> Servers \cup {Nil}]

Init ==
  /\ clerks = {} /\ removing = {} /\ cfgpc = "running" /\ made = {}
  /\ srvs = [c \in Clients |-> Nil]
  /\ ends = [c \in Clients |-> {}]
  /\ op = [c \in Clients |-> Unlocked]
  /\ last = [c \in Clients |-> "none"]
  /\ netEnd = [e \in EndNames |-> "absent"]
  /\ enabled = [e \in EndNames |-> FALSE]
  /\ connected = [e \in EndNames |-> FALSE]
  /\ done = FALSE /\ fatal = FALSE
  /\ call = [c \in Clients |-> Idle]
  /\ outcome = [c \in Clients |-> Nil]

Locked(c) == op[c].name # "none"

-----------------------------------------------------------------------------
(* Making clients and calling servers.                                     *)

\* MakeClient() is MakeClientTo(nil).  Called while the test runs: after
\* cleanup() the map clerks is nil.
MakeClientTo(c, list) ==
  /\ c \notin made /\ removing = {} /\ cfgpc = "running"
  /\ made' = made \cup {c}
  /\ clerks' = clerks \cup {c}
  /\ srvs' = [srvs EXCEPT ![c] = list]
  /\ UNCHANGED <<removing, cfgpc, ends, op, last, netVars, callVars>>

allowedL(c, s) == srvs[c] = Nil \/ s \in srvs[c]

\* Mutant of makeEnd: an end is made enabled, whatever the client may reach.
MakeEndEnabled(c, s) ==
  /\ ends' = [ends EXCEPT ![c] = @ \cup {s}]
  /\ IF s \in ends[c]
     THEN UNCHANGED endVars
     ELSE /\ netEnd' = [netEnd EXCEPT ![<<c, s>>] = "made"]
          /\ connected' = [connected EXCEPT ![<<c, s>>] = TRUE]
          /\ enabled' = [enabled EXCEPT ![<<c, s>>] = TRUE]

\* The end is not known to anybody before clnt.mu is released, so that
\* MakeEnd(), Connect() and Enable() are one step.  The end of a client that
\* was deleted stays in its map.
makeEnd(c, s) ==
  /\ ends' = [ends EXCEPT ![c] = @ \cup {s}]
  /\ IF s \in ends[c]
     THEN UNCHANGED endVars
     ELSE /\ netEnd' = [netEnd EXCEPT ![<<c, s>>] = "made"]
          /\ connected' = [connected EXCEPT ![<<c, s>>] = TRUE]
          /\ enabled' = [enabled EXCEPT ![<<c, s>>] = allowedL(c, s)]

\* Clnt.Call() up to the call of the end.
Call(c, s) ==
  /\ c \in made /\ call[c] = Idle /\ ~Locked(c)
  /\ makeEnd(c, s)
  /\ call' = [call EXCEPT ![c] = <<"ended", s>>]
  /\ outcome' = [outcome EXCEPT ![c] = Nil]
  /\ UNCHANGED <<clntsVars, srvs, op, last, done, fatal>>

\* ClientEnd.Call(): the network takes the request, unless it is going away.
Send(c) ==
  /\ call[c][1] = "ended"
  /\ \E next \in {<<"accepted", call[c][2]>>} \cup (IF done THEN {Idle} ELSE {}) :
       call' = [call EXCEPT ![c] = next]
  /\ UNCHANGED <<clntsVars, clntVars, netVars, outcome>>

\* processReq() reads the end once under rn.mu.  A request that it lets pass is
\* on its way to the server from then on, with a delay, or is dropped.  Whether
\* the server is on the network is not up to the client.
readEndnameInfo(c) ==
  LET s == call[c][2] IN
  /\ call[c][1] = "accepted"
  /\ \E next \in {Idle} \cup
         (IF enabled[<<c, s>>] /\ connected[<<c, s>>] THEN {<<"passed", s>>} ELSE {}) :
       call' = [call EXCEPT ![c] = next]
  /\ UNCHANGED <<clntsVars, clntVars, netVars, outcome>>

\* The end is read again before an answer is passed on, from the name that the
\* request came with: whether it is enabled, not what it is connected to.  The
\* answer may be lost, and the server deleted.
isServerDead(c) ==
  LET s == call[c][2] IN
  /\ call[c][1] = "passed"
  /\ \E answer \in {Nil} \cup (IF enabled[<<c, s>>] THEN {s} ELSE {}) :
       outcome' = [outcome EXCEPT ![c] = answer]
  /\ call' = [call EXCEPT ![c] = Idle]
  /\ UNCHANGED <<clntsVars, clntVars, netVars>>

-----------------------------------------------------------------------------
(* Connecting and disconnecting, under clnt.mu, end by end.                *)

Lock(c, name, left) ==
  /\ c \in made /\ ~Locked(c)
  /\ op' = [op EXCEPT ![c] = [name |-> name, left |-> left]]
  /\ UNCHANGED <<clntsVars, ends, last, netVars, callVars>>

ConnectAll(c) == Lock(c, "ConnectAll", ends[c]) /\ UNCHANGED srvs

\* Disables nothing.
ConnectTo(c, S) ==
  /\ srvs' = [srvs EXCEPT ![c] = S]
  /\ Lock(c, "ConnectTo", ends[c] \cap S)

\* Leaves srvs alone.
Disconnect(c, s) == Lock(c, "Disconnect", ends[c] \cap {s}) /\ UNCHANGED srvs

DisconnectAll(c) == Lock(c, "DisconnectAll", ends[c]) /\ UNCHANGED srvs

\* One iteration: net.Enable(), which creates a map entry if there is none.
EnableNext(c) ==
  /\ op[c].name \notin {"none", "remove"}
  /\ \E s \in op[c].left :
       /\ op' = [op EXCEPT ![c].left = @ \ {s}]
       /\ enabled' = [enabled EXCEPT ![<<c, s>>] =
                        op[c].name \in {"ConnectAll", "ConnectTo"}]
  /\ UNCHANGED <<clntsVars, srvs, ends, last, netEnd, connected, done, fatal>>
  /\ UNCHANGED callVars

\* Mutant of Unlock: DisconnectAll() leaves srvs as it was.
UnlockKeepsSrvs(c) ==
  /\ op[c].name \notin {"none", "remove"} /\ op[c].left = {}
  /\ srvs' = [srvs EXCEPT ![c] = IF op[c].name = "ConnectAll" THEN Nil ELSE @]
  /\ last' = [last EXCEPT ![c] = op[c].name]
  /\ op' = [op EXCEPT ![c] = Unlocked]
  /\ UNCHANGED <<clntsVars, ends, netVars, callVars>>

\* Mutant of Unlock: Disconnect() returns with clnt.mu locked.
UnlockForgotten(c) == op[c].name # "Disconnect" /\ UnlockKeepsSrvs(c)

Unlock(c) ==
  /\ op[c].name \notin {"none", "remove"} /\ op[c].left = {}
  /\ srvs' = [srvs EXCEPT ![c] =
       CASE op[c].name = "ConnectAll" -> Nil
         [] op[c].name = "DisconnectAll" -> {}
         [] OTHER -> @]
  /\ last' = [last EXCEPT ![c] = op[c].name]
  /\ op' = [op EXCEPT ![c] = Unlocked]
  /\ UNCHANGED <<clntsVars, ends, netVars, callVars>>

-----------------------------------------------------------------------------
(* Removing clients, under clnts.mu, and the end of the test.              *)

DeleteClient(c) ==
  /\ c \in clerks /\ removing = {} /\ cfgpc = "running"
  /\ removing' = {c}
  /\ UNCHANGED <<clerks, cfgpc, made, clntVars, netVars, callVars>>

\* Clnts.cleanup(), called by Config.Cleanup().
Cleanup ==
  /\ cfgpc = "running" /\ removing = {}
  /\ cfgpc' = "clnts"
  /\ removing' = clerks
  /\ UNCHANGED <<clerks, made, clntVars, netVars, callVars>>

remove(c) ==
  /\ c \in removing /\ ~Locked(c)
  /\ op' = [op EXCEPT ![c] = [name |-> "remove", left |-> ends[c]]]
  /\ UNCHANGED <<clntsVars, srvs, ends, last, netVars, callVars>>

\* Mutant of DeleteEnd: rn.connections keeps the end.
DeleteEndKeepsConnection(c, s) ==
  /\ fatal' = (fatal \/ netEnd[<<c, s>>] # "made")
  /\ netEnd' = [netEnd EXCEPT ![<<c, s>>] = "deleted"]
  /\ enabled' = [enabled EXCEPT ![<<c, s>>] = FALSE]
  /\ UNCHANGED connected

\* labrpc: fatal when there is no such end.
DeleteEnd(c, s) ==
  /\ fatal' = (fatal \/ netEnd[<<c, s>>] # "made")
  /\ netEnd' = [netEnd EXCEPT ![<<c, s>>] = "deleted"]
  /\ enabled' = [enabled EXCEPT ![<<c, s>>] = FALSE]
  /\ connected' = [connected EXCEPT ![<<c, s>>] = FALSE]

DeleteNext(c) ==
  /\ op[c].name = "remove"
  /\ \E s \in op[c].left :
       DeleteEnd(c, s) /\ op' = [op EXCEPT ![c].left = @ \ {s}]
  /\ UNCHANGED <<clntsVars, srvs, ends, last, done, callVars>>

\* Mutant of Removed: DeleteClient() leaves the client registered.
RemovedStays(c) ==
  /\ op[c].name = "remove" /\ op[c].left = {}
  /\ op' = [op EXCEPT ![c] = Unlocked]
  /\ removing' = removing \ {c}
  /\ UNCHANGED <<clerks, cfgpc, made, srvs, ends, last, netVars, callVars>>

\* remove() returns; DeleteClient() then deletes the client from the map.
Removed(c) ==
  /\ op[c].name = "remove" /\ op[c].left = {}
  /\ op' = [op EXCEPT ![c] = Unlocked]
  /\ removing' = removing \ {c}
  /\ clerks' = IF cfgpc = "running" THEN clerks \ {c} ELSE clerks
  /\ UNCHANGED <<cfgpc, made, srvs, ends, last, netVars, callVars>>

\* clnts.clerks = nil
ClntsCleaned ==
  /\ cfgpc = "clnts" /\ removing = {}
  /\ clerks' = {} /\ cfgpc' = "groups"
  /\ UNCHANGED <<removing, made, clntVars, netVars, callVars>>

\* Groups.cleanup() kills the services and leaves their servers on the network.
GroupsCleanup ==
  /\ cfgpc = "groups"
  /\ cfgpc' = "net"
  /\ UNCHANGED <<clerks, removing, made, clntVars, netVars, callVars>>

\* net.Cleanup() closes rn.done.
NetCleanup ==
  /\ cfgpc = "net"
  /\ done' = TRUE /\ cfgpc' = "done"
  /\ UNCHANGED <<clerks, removing, made, clntVars, endVars, fatal, callVars>>

-----------------------------------------------------------------------------

Client(c) ==
  \/ \E list \in {Nil} \cup SUBSET Servers : MakeClientTo(c, list)
  \/ \E s \in Servers : Call(c, s)
  \/ Send(c) \/ readEndnameInfo(c) \/ isServerDead(c)
  \/ ConnectAll(c) \/ DisconnectAll(c)
  \/ \E S \in SUBSET Servers : ConnectTo(c, S)
  \/ \E s \in Servers : Disconnect(c, s)
  \/ EnableNext(c) \/ Unlock(c)
  \/ DeleteClient(c) \/ remove(c) \/ DeleteNext(c) \/ Removed(c)

Next ==
  \/ \E c \in Clients : Client(c)
  \/ Cleanup \/ ClntsCleaned \/ GroupsCleanup \/ NetCleanup

\* The network loop and the goroutines under a lock run on; nobody has to
\* call anything, but Cleanup() once begun goes through.
Fairness ==
  /\ WF_vars(ClntsCleaned) /\ WF_vars(GroupsCleanup) /\ WF_vars(NetCleanup)
  /\ \A c \in Clients :
       /\ SF_vars(remove(c))
       /\ WF_vars(Send(c)) /\ WF_vars(readEndnameInfo(c)) /\ WF_vars(isServerDead(c))
       /\ WF_vars(EnableNext(c)) /\ WF_vars(Unlock(c))
       /\ WF_vars(DeleteNext(c)) /\ WF_vars(Removed(c))

Spec == Init /\ [][Next]_vars
FairSpec == Spec /\ Fairness

-----------------------------------------------------------------------------
(* Properties.                                                             *)

\* As long as a client is connected and disconnected as a whole, which is what
\* the tests do, each of its ends is enabled exactly if the client may reach
\* that server, ends made after the operation included.  After ConnectTo(), the
\* ends of the servers listed are enabled; others may be so from before.
EndsFollowClient ==
  \A c \in clerks \ removing : \A s \in ends[c] :
    cfgpc = "running" /\ ~Locked(c) =>
      /\ last[c] \in {"none", "ConnectAll", "DisconnectAll"} =>
           enabled[<<c, s>>] = allowedL(c, s)
      /\ last[c] = "ConnectTo" /\ allowedL(c, s) => enabled[<<c, s>>]

\* A call that has its end has it from ends, and a client has no end, operation
\* or history before it is made.
CallsHaveEnds == \A c \in Clients : call[c] # Idle => call[c][2] \in ends[c]
NothingBeforeMade ==
  \A c \in Clients \ made : ends[c] = {} /\ op[c] = Unlocked /\ last[c] = "none"

\* An operation under clnt.mu has set the ends that it has been to.
OpHalfDone ==
  \A c \in Clients :
    /\ op[c].left \subseteq ends[c]
    /\ op[c].name = "ConnectAll" => \A s \in ends[c] \ op[c].left : enabled[<<c, s>>]
    /\ op[c].name = "DisconnectAll" => \A s \in ends[c] \ op[c].left : ~enabled[<<c, s>>]
    /\ op[c].name = "ConnectTo" =>
         \A s \in ends[c] \ op[c].left : allowedL(c, s) => enabled[<<c, s>>]

\* From DisconnectAll() on, remove() included, the client has no enabled end.
StaysDisconnected ==
  \A c \in Clients : last[c] = "DisconnectAll" /\ op[c].name \in {"none", "remove"} =>
    srvs[c] = {} /\ \A s \in ends[c] : ~enabled[<<c, s>>]

\* What has not been removed has its ends on the network, and only clients of
\* the holder of clnts.mu are being removed.
RemovedOnce ==
  \A c \in Clients :
    /\ op[c].name = "remove" => c \in removing
    /\ c \in removing \/ (c \in clerks /\ cfgpc = "running") =>
         \A s \in ends[c] : \/ netEnd[<<c, s>>] = "made"
                            \/ op[c].name = "remove" /\ s \notin op[c].left

\* The network's two tables agree on which ends there are.
ConnectedMade == \A e \in EndNames : connected[e] => netEnd[e] = "made"

\* The types of the clients' state, EndsFollowClient, and the inductive invariant
\* that it and the properties below follow from.
ClntsInv ==
  /\ TypeOK /\ EndsFollowClient
  /\ CallsHaveEnds /\ NothingBeforeMade /\ OpHalfDone /\ StaysDisconnected
  /\ RemovedOnce /\ ConnectedMade

\* From the return of DisconnectAll() to the next operation on the client the
\* network lets none of its requests pass, be it on an end made before or after,
\* and no answer either: a request that had passed before may still reach its
\* server, but the clerk is not told so.
DisconnectedCut ==
  [][\A c \in Clients : last[c] = "DisconnectAll" /\ ~Locked(c) =>
       /\ call'[c][1] = "passed" => call[c][1] = "passed"
       /\ outcome'[c] \in {outcome[c], Nil}]_vars

\* remove() meets every end at most once, whatever order DeleteClient() and
\* Cleanup() come in: DeleteEnd() never ends the test with log.Fatalf.
NoFatalDelete == ~fatal

\* An end that was deleted lets no request pass again, although the clerk keeps
\* it in its map and Enable() makes an entry for its name: a clerk that outlives
\* its client, or Cleanup(), gets through only on an end that it makes later.
DeletedPassesNone ==
  [][\A c \in Clients : call[c][1] = "accepted" /\ call'[c][1] = "passed" =>
       netEnd[<<c, call[c][2]>>] = "made"]_vars

\* Cleanup() returns: it waits for a client's lock only while an operation on
\* that client is running, and clerks that go on calling cannot keep it out.
CleanupReturns == (cfgpc = "clnts") ~> (cfgpc = "done")

-----------------------------------------------------------------------------
(* What a comment of the code says and the code does not do: this does not *)
(* hold, and no run checks it.  README.md tells how it is violated.        *)

\* clnts.go:23-24, of the field srvs: "if nil client can connect to all
\* servers; if len(srvs) = 0, client cannot connect to any servers".
SrvsAsDocumented ==
  \A c \in clerks \ removing : cfgpc = "running" /\ ~Locked(c) =>
    /\ srvs[c] = Nil => \A s \in ends[c] : enabled[<<c, s>>]
    /\ srvs[c] = {} => \A s \in ends[c] : ~enabled[<<c, s>>]
=============================================================================
