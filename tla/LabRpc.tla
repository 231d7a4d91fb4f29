------------------------------- MODULE LabRpc -------------------------------
(***************************************************************************)
(* The simulated network of src/src/labrpc/labrpc.go.                      *)
(*                                                                         *)
(* Every Call() is a thread of its own (the caller, blocked on replyCh,    *)
(* together with the processReq goroutine that serves it) with a program   *)
(* counter pc[c] and the local variables that processReq reads once, under *)
(* rn.mu, and then uses after unlocking.  The handler runs in a second     *)
(* goroutine, handler[c], which processReq may abandon.  Each mutex-held   *)
(* section and each channel rendezvous is one step.  Delays (SHORTDELAY,   *)
(* LONGDELAY, the 100 ms poll, the 200..2200 ms reply delay) are           *)
(* asynchrony: a step may be taken late.                                   *)
(***************************************************************************)
EXTENDS Naturals, FiniteSets

CONSTANTS
  Calls,          \* Call() invocations; each is made at most once
  Ends,           \* names of ClientEnds
  Names,          \* server names
  NoName,         \* the nil connection of an end
  MaxServers,     \* bound: labrpc.Server objects are 1..MaxServers
  Stuck,          \* the calls whose handler may never return
  ReliableModes, ReorderModes  \* what the tester may pass to Reliable() and
                               \* LongReordering()

ASSUME LabRpcAssumption ==
  /\ MaxServers \in Nat
  /\ NoName \notin Names
  /\ Stuck \subseteq Calls
  /\ ReliableModes \subseteq BOOLEAN
  /\ ReorderModes \subseteq BOOLEAN

VARIABLES
  \* Network
  reliable, longReordering,
  ends,           \* ends[e]: "absent", "made" or "deleted"
  enabled,        \* enabled[e]; a missing map entry reads FALSE
  connections,    \* connections[e]: server name or NoName
  servers,        \* servers[n]: the Server object, 0 for nil
  made,           \* Server objects created so far
  done,           \* the done channel is closed
  loopUp,         \* the goroutine of MakeNetwork is in its loop
  count,          \* RPCs the loop accepted
  served,         \* served[k]: Server k's count of incoming RPCs
  \* Call() and processReq
  pc, callEnd, servername, server, callReliable, callReordering, replyOK,
  \* the goroutine that runs the handler
  handler,
  \* history: the effect took place after Server was removed from the net
  late

netConf == <<reliable, longReordering, ends, enabled, connections>>
srvVars == <<servers, made>>
loopVars == <<done, loopUp, count>>
captured == <<callEnd, servername, server, callReliable, callReordering>>
handlerVars == <<handler, late>>
netVars == <<netConf, srvVars, loopVars, served>>
callVars == <<pc, captured, replyOK, handlerVars>>
vars == <<netVars, callVars>>

Nil == 0
ServerObjs == 1 .. MaxServers
EndState == {"absent", "made", "deleted"}
Handler == {"none", "started", "running", "executed", "gone"}
PC == {"idle", "sending", "received", "accepted", "shortDelay", "waiting", "checking",
       "replying", "parked", "failing", "true", "false"}
Returned == {"true", "false"}

TypeOK ==
  /\ reliable \in BOOLEAN /\ longReordering \in BOOLEAN
  /\ ends \in [Ends -> EndState]
  /\ enabled \in [Ends -> BOOLEAN]
  /\ connections \in [Ends -> Names \cup {NoName}]
  /\ servers \in [Names -> ServerObjs \cup {Nil}]
  /\ made \in 0 .. MaxServers
  /\ done \in BOOLEAN /\ loopUp \in BOOLEAN
  /\ count \in Nat /\ served \in [ServerObjs -> Nat]
  /\ pc \in [Calls -> PC]
  /\ callEnd \in [Calls -> Ends \cup {NoName}]
  /\ servername \in [Calls -> Names \cup {NoName}]
  /\ server \in [Calls -> ServerObjs \cup {Nil}]
  /\ callReliable \in [Calls -> BOOLEAN]
  /\ callReordering \in [Calls -> BOOLEAN]
  /\ replyOK \in [Calls -> BOOLEAN]
  /\ handler \in [Calls -> Handler]
  /\ late \in [Calls -> BOOLEAN]

\* MakeNetwork(): an empty, reliable network and its loop goroutine.
Init ==
  /\ reliable = TRUE /\ longReordering = FALSE
  /\ ends = [e \in Ends |-> "absent"]
  /\ enabled = [e \in Ends |-> FALSE]
  /\ connections = [e \in Ends |-> NoName]
  /\ servers = [n \in Names |-> Nil]
  /\ made = 0
  /\ done = FALSE /\ loopUp = TRUE
  /\ count = 0 /\ served = [k \in ServerObjs |-> 0]
  /\ pc = [c \in Calls |-> "idle"]
  /\ callEnd = [c \in Calls |-> NoName]
  /\ servername = [c \in Calls |-> NoName]
  /\ server = [c \in Calls |-> Nil]
  /\ callReliable = [c \in Calls |-> TRUE]
  /\ callReordering = [c \in Calls |-> FALSE]
  /\ replyOK = [c \in Calls |-> FALSE]
  /\ handler = [c \in Calls |-> "none"]
  /\ late = [c \in Calls |-> FALSE]

-----------------------------------------------------------------------------
(* Operations on the network, each under rn.mu, called by the tester.      *)

Reliable(yes) ==
  /\ reliable' = yes
  /\ UNCHANGED <<longReordering, ends, enabled, connections>>
  /\ UNCHANGED <<srvVars, loopVars, served, callVars>>

LongReordering(yes) ==
  /\ longReordering' = yes
  /\ UNCHANGED <<reliable, ends, enabled, connections>>
  /\ UNCHANGED <<srvVars, loopVars, served, callVars>>

\* Fatal when the name is in rn.ends; a deleted name may be made again.
MakeEnd(e) ==
  /\ ends[e] # "made"
  /\ ends' = [ends EXCEPT ![e] = "made"]
  /\ enabled' = [enabled EXCEPT ![e] = FALSE]
  /\ connections' = [connections EXCEPT ![e] = NoName]
  /\ UNCHANGED <<reliable, longReordering>>
  /\ UNCHANGED <<srvVars, loopVars, served, callVars>>

DeleteEnd(e) ==
  /\ ends[e] = "made"
  /\ ends' = [ends EXCEPT ![e] = "deleted"]
  /\ enabled' = [enabled EXCEPT ![e] = FALSE]
  /\ connections' = [connections EXCEPT ![e] = NoName]
  /\ UNCHANGED <<reliable, longReordering>>
  /\ UNCHANGED <<srvVars, loopVars, served, callVars>>

\* "a ClientEnd can only be connected once in its lifetime": every caller
\* connects an end right after making it, and never again.
Connect(e, n) ==
  /\ ends[e] = "made" /\ connections[e] = NoName
  /\ connections' = [connections EXCEPT ![e] = n]
  /\ UNCHANGED <<reliable, longReordering, ends, enabled>>
  /\ UNCHANGED <<srvVars, loopVars, served, callVars>>

Enable(e, yes) ==
  /\ ends[e] = "made"
  /\ enabled' = [enabled EXCEPT ![e] = yes]
  /\ UNCHANGED <<reliable, longReordering, ends, connections>>
  /\ UNCHANGED <<srvVars, loopVars, served, callVars>>

\* MakeServer() and AddServer(): a Server object is added once, under one
\* name, when it is new.
AddServer(n) ==
  /\ made < MaxServers
  /\ made' = made + 1
  /\ servers' = [servers EXCEPT ![n] = made + 1]
  /\ UNCHANGED <<netConf, loopVars, served, callVars>>

DeleteServer(n) ==
  /\ servers' = [servers EXCEPT ![n] = Nil]
  /\ UNCHANGED <<made, netConf, loopVars, served, callVars>>

\* Closing rn.done twice would panic; config.go cleans up once.
Cleanup ==
  /\ ~done
  /\ done' = TRUE
  /\ UNCHANGED <<loopUp, count, netConf, srvVars, served, callVars>>

\* The loop is in its select, and not between receiving a request and counting
\* it.
LoopWaits == loopUp /\ \A c \in Calls : pc[c] # "received"

LoopExit ==
  /\ done /\ LoopWaits
  /\ loopUp' = FALSE
  /\ UNCHANGED <<done, count, netConf, srvVars, served, callVars>>

-----------------------------------------------------------------------------
(* ClientEnd.Call() and Network.processReq().                              *)

Goto(c, from, to) ==
  /\ pc[c] = from
  /\ pc' = [pc EXCEPT ![c] = to]

\* processReq() will not look at its copies of reliable and longreordering any
\* more.
Forget(c) ==
  /\ callReliable' = [callReliable EXCEPT ![c] = TRUE]
  /\ callReordering' = [callReordering EXCEPT ![c] = FALSE]
  /\ UNCHANGED <<callEnd, servername, server>>

\* The caller holds a *ClientEnd, which it may use after DeleteEnd().
Invoke(c, e) ==
  /\ ends[e] # "absent"
  /\ Goto(c, "idle", "sending")
  /\ callEnd' = [callEnd EXCEPT ![c] = e]
  /\ UNCHANGED <<servername, server, callReliable, callReordering>>
  /\ UNCHANGED <<replyOK, handlerVars, netVars>>

\* case e.ch <- req, received by the loop.
Accept(c) ==
  /\ LoopWaits
  /\ Goto(c, "sending", "received")
  /\ UNCHANGED <<captured, replyOK, handlerVars, netVars>>

\* Mutant of StartReq: the loop forgets to count the request.
StartReqUncounted(c) ==
  /\ Goto(c, "received", "accepted")
  /\ UNCHANGED <<captured, replyOK, handlerVars, netVars>>

\* The loop counts the request and then starts processReq.
StartReq(c) ==
  /\ Goto(c, "received", "accepted")
  /\ count' = count + 1
  /\ UNCHANGED <<done, loopUp, netConf, srvVars, served>>
  /\ UNCHANGED <<captured, replyOK, handlerVars>>

\* Mutant of AbortSend: Call() without the <-e.done case.
AbortSendMissing(c) == FALSE /\ UNCHANGED vars

\* case <-e.done
AbortSend(c) ==
  /\ done
  /\ Goto(c, "sending", "false")
  /\ UNCHANGED <<captured, replyOK, handlerVars, netVars>>

Serving(e) ==
  enabled[e] /\ connections[e] # NoName /\ servers[connections[e]] # Nil

\* readEndnameInfo() takes one consistent reading; everything after it goes
\* by this reading, however old.  It is not used any more when it makes the call
\* fail.
ReadEndnameInfo(c) ==
  LET e == callEnd[c] IN
  /\ pc[c] = "accepted"
  /\ \/ /\ Serving(e)
        /\ pc' = [pc EXCEPT ![c] = "shortDelay"]
        /\ servername' = [servername EXCEPT ![c] = connections[e]]
        /\ server' = [server EXCEPT ![c] = servers[connections[e]]]
        /\ callReliable' = [callReliable EXCEPT ![c] = reliable]
        /\ callReordering' = [callReordering EXCEPT ![c] = longReordering]
        /\ UNCHANGED callEnd
     \/ /\ ~Serving(e)
        /\ pc' = [pc EXCEPT ![c] = "failing"]
        /\ UNCHANGED captured
  /\ UNCHANGED <<replyOK, handlerVars, netVars>>

DropRequest(c) ==
  /\ ~callReliable[c]
  /\ Goto(c, "shortDelay", "false")
  /\ Forget(c)
  /\ UNCHANGED <<replyOK, handlerVars, netVars>>

\* go server.dispatch(req) on the Server read earlier, which may have been
\* deleted since.
Dispatch(c) ==
  /\ Goto(c, "shortDelay", "waiting")
  /\ handler' = [handler EXCEPT ![c] = "started"]
  /\ UNCHANGED <<captured, replyOK, late, netVars>>

\* Server.dispatch(), in the handler's goroutine, counts the request under rs.mu
\* before it calls the service.  By then the caller may have its answer.
ServerDispatch(c) ==
  /\ handler[c] = "started"
  /\ handler' = [handler EXCEPT ![c] = "running"]
  /\ served' = [served EXCEPT ![server[c]] = @ + 1]
  /\ UNCHANGED <<pc, captured, replyOK, late, netConf, srvVars, loopVars>>

Superseded(c) == servers[servername[c]] # server[c]

ServerDead(c) == ~enabled[callEnd[c]] \/ Superseded(c)

\* The handler's effect, also for a request that was given up.
Execute(c) ==
  /\ handler[c] = "running"
  /\ handler' = [handler EXCEPT ![c] = "executed"]
  /\ late' = [late EXCEPT ![c] = Superseded(c)]
  /\ UNCHANGED <<pc, captured, replyOK, netVars>>

\* Mutant of ReceiveReply: a result is taken from a handler still running.
ReceiveReplyEarly(c) ==
  /\ handler[c] \in {"running", "executed"}
  /\ Goto(c, "waiting", "checking")
  /\ replyOK' = [replyOK EXCEPT ![c] = TRUE]
  /\ UNCHANGED <<captured, handlerVars, netVars>>

\* The handler returns and its result is taken from ech.
ReceiveReply(c) ==
  /\ handler[c] = "executed"
  /\ Goto(c, "waiting", "checking")
  /\ handler' = [handler EXCEPT ![c] = "gone"]
  /\ replyOK' = [replyOK EXCEPT ![c] = TRUE]
  /\ UNCHANGED <<captured, late, netVars>>

\* Mutant of Poll: it looks at the end but not at the server.
PollEndOnly(c) ==
  /\ Goto(c, "waiting", "checking")
  /\ ~enabled[callEnd[c]]
  /\ UNCHANGED <<captured, replyOK, handlerVars, netVars>>

\* The 100 ms poll finds the server dead and stops waiting; a poll that
\* finds it alive changes nothing.
Poll(c) ==
  /\ Goto(c, "waiting", "checking")
  /\ ServerDead(c)
  /\ Forget(c)
  /\ UNCHANGED <<replyOK, handlerVars, netVars>>

\* Mutant of Drain: nobody drains ech.
DrainMissing(c) == FALSE /\ UNCHANGED vars

\* The goroutine that Poll leaves behind to drain ech.
Drain(c) ==
  /\ handler[c] = "executed"
  /\ pc[c] # "waiting"
  /\ handler' = [handler EXCEPT ![c] = "gone"]
  /\ UNCHANGED <<pc, captured, replyOK, late, netVars>>

\* Mutant of FinalCheck: no second isServerDead().
FinalCheckReplyOnly(c) ==
  /\ pc[c] = "checking"
  /\ pc' = [pc EXCEPT ![c] = IF ~replyOK[c] THEN "failing" ELSE "replying"]
  /\ UNCHANGED <<captured, replyOK, handlerVars, netVars>>

\* The second isServerDead(); rn.mu is released before the reply is sent.
FinalCheck(c) ==
  /\ pc[c] = "checking"
  /\ \/ /\ ~replyOK[c] \/ ServerDead(c)
        /\ pc' = [pc EXCEPT ![c] = "failing"]
        /\ Forget(c)
     \/ /\ replyOK[c] /\ ~ServerDead(c)
        /\ pc' = [pc EXCEPT ![c] = "replying"]
        /\ UNCHANGED captured
  /\ UNCHANGED <<replyOK, handlerVars, netVars>>

DropReply(c) ==
  /\ ~callReliable[c]
  /\ Goto(c, "replying", "false")
  /\ Forget(c)
  /\ UNCHANGED <<replyOK, handlerVars, netVars>>

\* time.AfterFunc: the reply is on its way whatever happens meanwhile.
DelayReply(c) ==
  /\ callReordering[c]
  /\ Goto(c, "replying", "parked")
  /\ Forget(c)
  /\ UNCHANGED <<replyOK, handlerVars, netVars>>

ReplyTrue(c) ==
  /\ pc[c] \in {"replying", "parked"}
  /\ pc' = [pc EXCEPT ![c] = "true"]
  /\ Forget(c)
  /\ UNCHANGED <<replyOK, handlerVars, netVars>>

ReplyFalse(c) ==
  /\ Goto(c, "failing", "false")
  /\ Forget(c)
  /\ UNCHANGED <<replyOK, handlerVars, netVars>>

-----------------------------------------------------------------------------
Tester ==
  \/ \E yes \in ReliableModes : Reliable(yes)
  \/ \E yes \in ReorderModes : LongReordering(yes)
  \/ \E e \in Ends : MakeEnd(e) \/ DeleteEnd(e)
  \/ \E e \in Ends, n \in Names : Connect(e, n)
  \/ \E e \in Ends, yes \in BOOLEAN : Enable(e, yes)
  \/ \E n \in Names : AddServer(n) \/ DeleteServer(n)
  \/ Cleanup

\* The steps of the goroutines that serve call c.
ProcessReq(c) ==
  \/ ReadEndnameInfo(c) \/ DropRequest(c) \/ Dispatch(c)
  \/ ReceiveReply(c) \/ Poll(c) \/ FinalCheck(c)
  \/ DropReply(c) \/ DelayReply(c) \/ ReplyTrue(c) \/ ReplyFalse(c)

\* Everything the network's goroutines and the callers do.
NetworkStep ==
  \/ LoopExit
  \/ \E c \in Calls, e \in Ends : Invoke(c, e)
  \/ \E c \in Calls : \/ Accept(c) \/ StartReq(c) \/ AbortSend(c)
                      \/ ProcessReq(c) \/ ServerDispatch(c) \/ Drain(c)

Next == Tester \/ NetworkStep \/ \E c \in Calls : Execute(c)

Spec == Init /\ [][Next]_vars

\* The goroutines: the loop of MakeNetwork(), those of Call() and then of
\* processReq(), and the handler's, which need not return if it is stuck.
Loop == LoopExit \/ \E c \in Calls : Accept(c) \/ StartReq(c)
Serve(c) ==
  \/ AbortSend(c)
  \/ ReadEndnameInfo(c) \/ Dispatch(c) \/ Poll(c) \/ FinalCheck(c)
  \/ ReplyTrue(c) \/ ReplyFalse(c)
  \/ c \notin Stuck /\ ReceiveReply(c)
Handle(c) == ServerDispatch(c) \/ (c \notin Stuck /\ (Execute(c) \/ Drain(c)))

\* The Go scheduler and timers keep every goroutine of the network moving.
\* Nothing is assumed of the tester.
Fairness ==
  /\ WF_vars(Loop)
  /\ \A c \in Calls : WF_vars(Serve(c)) /\ WF_vars(Handle(c))

FairSpec == Spec /\ Fairness

-----------------------------------------------------------------------------
(* Properties.                                                             *)

\* A positive reply is only given for an effect that took place while the
\* Server was still on the network: the second isServerDead() in processReq
\* rejects the results of a handler that outlived DeleteServer().  This is
\* what keeps an acknowledged update out of a superseded Persister.
AckedBeforeDeleted ==
  \A c \in Calls : pc[c] = "true" => handler[c] = "gone" /\ ~late[c]

\* Server objects are numbered in the order they were made.
ServersOld == \A n \in Names : servers[n] <= made

\* What holds of a call at each point of processReq.
CallInv(c) ==
  /\ pc[c] # "idle" => callEnd[c] \in Ends
  /\ pc[c] \in {"idle", "sending", "received", "accepted", "shortDelay"} =>
       handler[c] = "none"
  /\ pc[c] \in {"shortDelay", "waiting", "checking"} \/ handler[c] # "none" =>
       servername[c] \in Names /\ server[c] \in 1 .. made
  /\ pc[c] = "waiting" => handler[c] \in {"started", "running", "executed"}
  /\ replyOK[c] => handler[c] = "gone"
  /\ late[c] => handler[c] # "none" /\ Superseded(c)
  /\ pc[c] \in {"replying", "parked", "true"} => replyOK[c] /\ ~late[c]

\* The inductive strengthening of AckedBeforeDeleted: the Server that
\* processReq remembers is an old object, so once it is off the network it
\* stays off; and a reply in flight belongs to a handler that has finished.
IInv ==
  /\ TypeOK
  /\ ServersOld
  /\ \A c \in Calls : CallInv(c)

\* The calls that Server k has answered positively, and the requests that the
\* Servers have counted, numbered Server by Server.
Answered(k) == {c \in Calls : pc[c] = "true" /\ server[c] = k}
Tally == UNION {{k} \X (1 .. served[k]) : k \in ServerObjs}

\* The counters are written by three goroutines and read by the tester at any
\* moment.  A call that has returned true is in its Server's GetCount(), also
\* when the reply was delayed or the Server deleted, and what all Servers report
\* together is at most GetTotalCount().  (A call that has returned false may be
\* counted by its Server later, or never.)  Tests subtract two readings of these
\* counters.
CountsAgree ==
  /\ \A k \in ServerObjs : Cardinality(Answered(k)) <= served[k]
  /\ Cardinality(Tally) <= count

\* The caller's view of the network: see RpcAbs.
CallStatus(p) ==
  IF p = "idle" THEN "idle"
  ELSE IF p = "true" THEN "ok" ELSE IF p = "false" THEN "failed" ELSE "open"

Rpc == INSTANCE RpcAbs WITH
  status <- [c \in Calls |-> CallStatus(pc[c])],
  executed <- {c \in Calls : handler[c] \in {"executed", "gone"}}

\* labrpc implements at-most-once calls whose true result proves execution.
RefinesRpc == Rpc!Spec

\* "Call() is guaranteed to return (perhaps after a delay) *except* if the
\* handler function on the server side does not return": also when ends are
\* disabled and enabled, servers come and go, and the network is cleaned up.
CallReturns ==
  \A c \in Calls \ Stuck : pc[c] = "sending" ~> pc[c] \in Returned

\* A call whose handler may never return gets its false once the Server is
\* deleted or replaced under it.
KilledCallFails ==
  \A c \in Stuck : pc[c] = "waiting" /\ Superseded(c) ~> pc[c] = "false"

\* The goroutine started for a handler ends, also when processReq gave the
\* call up before the handler returned (the draining goroutine).
HandlerGoroutineEnds ==
  \A c \in Calls \ Stuck : handler[c] = "started" ~> handler[c] = "gone"
=============================================================================
