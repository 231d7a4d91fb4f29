------------------------ MODULE CrashRestart_proofs ------------------------
(***************************************************************************)
(* Proofs about LabRpc, for any number of calls, ends, names and Server    *)
(* objects, and then about CrashRestart, which is built on it, for any     *)
(* number of restarts.                                                     *)
(***************************************************************************)
EXTENDS CrashRestart, FiniteSetTheorems, TLAPS

-----------------------------------------------------------------------------
(* LabRpc: the inductive invariant.                                        *)

\* The empty network of MakeNetwork() satisfies the inductive invariant.
LEMMA IInvInit == Init => IInv
<1> SUFFICES ASSUME Init
             PROVE  IInv
  OBVIOUS
<1>1. TypeOK
  <2>1. /\ made \in 0 .. MaxServers /\ count \in Nat
        /\ served \in [ServerObjs -> Nat]
        /\ servers \in [Names -> ServerObjs \cup {Nil}]
        /\ server \in [Calls -> ServerObjs \cup {Nil}]
    BY LabRpcAssumption DEF Init
  <2>2. /\ ends \in [Ends -> EndState]
        /\ connections \in [Ends -> Names \cup {NoName}]
        /\ pc \in [Calls -> PC] /\ handler \in [Calls -> Handler]
        /\ callEnd \in [Calls -> Ends \cup {NoName}]
        /\ servername \in [Calls -> Names \cup {NoName}]
    BY DEF Init, EndState, PC, Handler
  <2>3. /\ reliable \in BOOLEAN /\ longReordering \in BOOLEAN
        /\ done \in BOOLEAN /\ loopUp \in BOOLEAN
        /\ enabled \in [Ends -> BOOLEAN]
        /\ callReliable \in [Calls -> BOOLEAN]
        /\ callReordering \in [Calls -> BOOLEAN]
        /\ replyOK \in [Calls -> BOOLEAN] /\ late \in [Calls -> BOOLEAN]
    BY DEF Init
  <2>4. QED
    BY <2>1, <2>2, <2>3 DEF TypeOK
<1>2. ServersOld
  BY DEF Init, ServersOld, Nil
<1>3. ASSUME NEW c \in Calls
      PROVE  CallInv(c)
  BY DEF Init, CallInv
<1>4. QED
  BY <1>1, <1>2, <1>3 DEF IInv

\* The tester's operations on reliability and on ends leave the servers and
\* the calls alone.
LEMMA ConfStep ==
  ASSUME IInv,
         \/ \E yes \in ReliableModes : Reliable(yes)
         \/ \E yes \in ReorderModes : LongReordering(yes)
         \/ \E e \in Ends : MakeEnd(e) \/ DeleteEnd(e)
         \/ \E e \in Ends, n \in Names : Connect(e, n)
         \/ \E e \in Ends, yes \in BOOLEAN : Enable(e, yes)
         \/ Cleanup
         \/ LoopExit
  PROVE  IInv'
<1>1. UNCHANGED <<srvVars, served, callVars, count>>
  BY DEF Reliable, LongReordering, MakeEnd, DeleteEnd, Connect, Enable,
         Cleanup, LoopExit, loopVars, netConf
<1>2. TypeOK'
  <2>1. CASE \/ \E yes \in ReliableModes : Reliable(yes)
             \/ \E yes \in ReorderModes : LongReordering(yes)
    BY <2>1, <1>1, LabRpcAssumption
    DEF IInv, TypeOK, Reliable, LongReordering, srvVars, loopVars, callVars,
        captured, handlerVars
  <2>2. CASE \E e \in Ends : MakeEnd(e) \/ DeleteEnd(e)
    BY <2>2, <1>1
    DEF IInv, TypeOK, MakeEnd, DeleteEnd, srvVars, loopVars, callVars,
        captured, handlerVars, EndState
  <2>3. CASE \/ \E e \in Ends, n \in Names : Connect(e, n)
             \/ \E e \in Ends, yes \in BOOLEAN : Enable(e, yes)
    BY <2>3, <1>1
    DEF IInv, TypeOK, Connect, Enable, srvVars, loopVars, callVars, captured,
        handlerVars
  <2>4. CASE Cleanup \/ LoopExit
    BY <2>4, <1>1
    DEF IInv, TypeOK, Cleanup, LoopExit, netConf, srvVars, callVars, captured,
        handlerVars
  <2>5. QED
    BY <2>1, <2>2, <2>3, <2>4
<1>3. ServersOld'
  BY <1>1 DEF IInv, ServersOld, srvVars
<1>4. ASSUME NEW c \in Calls
      PROVE  CallInv(c)'
  BY <1>1, <1>4
  DEF IInv, CallInv, Superseded, srvVars, callVars, captured, handlerVars
<1>5. QED
  BY <1>2, <1>3, <1>4 DEF IInv

\* Adding or deleting a server cannot bring back an object that some call
\* remembers: a new object has a new number.
LEMMA ServerStep ==
  ASSUME IInv, NEW n \in Names, AddServer(n) \/ DeleteServer(n)
  PROVE  IInv'
<1>1. UNCHANGED <<netConf, loopVars, served, callVars>>
  BY DEF AddServer, DeleteServer
<1>2. /\ made \in Nat /\ made' \in 0 .. MaxServers /\ made <= made'
      /\ servers \in [Names -> ServerObjs \cup {Nil}]
      /\ servers' \in [Names -> ServerObjs \cup {Nil}]
  <2>1. made \in 0 .. MaxServers /\ servers \in [Names -> ServerObjs \cup {Nil}]
    BY DEF IInv, TypeOK
  <2>2. CASE AddServer(n)
    BY <2>1, <2>2, LabRpcAssumption DEF AddServer, ServerObjs
  <2>3. CASE DeleteServer(n)
    BY <2>1, <2>3, LabRpcAssumption DEF DeleteServer
  <2>4. QED
    BY <2>2, <2>3
<1>3. TypeOK'
  BY <1>1, <1>2
  DEF IInv, TypeOK, netConf, loopVars, callVars, captured, handlerVars
<1>4. \A m \in Names : servers'[m] = servers[m] \/ servers'[m] = Nil
                         \/ (servers'[m] = made + 1 /\ made' = made + 1)
  BY <1>2 DEF AddServer, DeleteServer
<1>5. ServersOld'
  BY <1>2, <1>4, LabRpcAssumption
  DEF IInv, ServersOld, ServerObjs, Nil
<1>6. ASSUME NEW c \in Calls
      PROVE  CallInv(c)'
  <2>1. CallInv(c)
    BY DEF IInv
  <2>2. late[c] => handler[c] # "none" /\ Superseded(c)'
    <3>1. SUFFICES ASSUME late[c]
                   PROVE  handler[c] # "none" /\ Superseded(c)'
      OBVIOUS
    <3>2. /\ handler[c] # "none" /\ Superseded(c)
          /\ servername[c] \in Names /\ server[c] \in 1 .. made
      BY <2>1, <3>1 DEF CallInv
    <3>3. QED
      BY <1>1, <1>2, <1>4, <3>2
      DEF Superseded, callVars, captured, Nil
  <2>3. QED
    BY <1>1, <1>2, <2>1, <2>2 DEF CallInv, callVars, captured, handlerVars
<1>7. QED
  BY <1>3, <1>5, <1>6 DEF IInv
-----------------------------------------------------------------------------
(* Steps of a call.                                                        *)

\* What a step of call c leaves alone: the servers, and every other call.
OthersKept(c) ==
  /\ UNCHANGED srvVars
  /\ \A d \in Calls \ {c} :
       /\ pc'[d] = pc[d] /\ callEnd'[d] = callEnd[d]
       /\ servername'[d] = servername[d] /\ server'[d] = server[d]
       /\ replyOK'[d] = replyOK[d] /\ handler'[d] = handler[d]
       /\ late'[d] = late[d]

\* So such a step needs to be checked for call c only.
LEMMA OneCall ==
  ASSUME IInv, NEW c \in Calls, OthersKept(c), TypeOK', CallInv(c)'
  PROVE  IInv'
<1>1. ServersOld'
  BY DEF IInv, ServersOld, OthersKept, srvVars
<1>2. ASSUME NEW d \in Calls, d # c
      PROVE  CallInv(d)'
  BY <1>2 DEF IInv, CallInv, OthersKept, Superseded, srvVars
<1>3. QED
  BY <1>1, <1>2 DEF IInv

\* The steps that only move the program counter of a call on, some of which
\* give up the locals of processReq.
LEMMA PcStep ==
  ASSUME IInv, NEW c \in Calls,
         \/ DropRequest(c) \/ DropReply(c) \/ DelayReply(c) \/ ReplyTrue(c)
         \/ ReplyFalse(c) \/ AbortSend(c) \/ Poll(c) \/ FinalCheck(c)
  PROVE  IInv'
<1>1. /\ UNCHANGED <<callEnd, servername, server, replyOK, handlerVars, netVars>>
      /\ callReliable' \in [Calls -> BOOLEAN]
      /\ callReordering' \in [Calls -> BOOLEAN]
  <2>1. Forget(c) \/ UNCHANGED captured
    BY DEF DropRequest, DropReply, DelayReply, ReplyTrue, ReplyFalse, AbortSend,
           Poll, FinalCheck
  <2>2. UNCHANGED <<replyOK, handlerVars, netVars>>
    BY DEF DropRequest, DropReply, DelayReply, ReplyTrue, ReplyFalse, AbortSend,
           Poll, FinalCheck
  <2>3. QED
    BY <2>1, <2>2 DEF IInv, TypeOK, Forget, captured
<1>2. /\ pc' \in [Calls -> PC]
      /\ \A d \in Calls \ {c} : pc'[d] = pc[d]
  BY DEF IInv, TypeOK, PC, Goto, DropRequest, DropReply, DelayReply, ReplyTrue,
         ReplyFalse, AbortSend, Poll, FinalCheck
<1>3. TypeOK'
  BY <1>1, <1>2
  DEF IInv, TypeOK, captured, handlerVars, netVars, netConf, srvVars, loopVars
<1>4. OthersKept(c)
  BY <1>1, <1>2 DEF OthersKept, captured, handlerVars, netVars
<1>5. CallInv(c)'
  <2>1. CallInv(c) /\ pc \in [Calls -> PC] /\ late \in [Calls -> BOOLEAN]
    BY DEF IInv, TypeOK
  <2>2. CASE \/ DropRequest(c) \/ DropReply(c) \/ DelayReply(c)
             \/ ReplyTrue(c) \/ ReplyFalse(c) \/ AbortSend(c) \/ Poll(c)
    BY <1>1, <2>1, <2>2
    DEF CallInv, Superseded, Goto, DropRequest, DropReply, DelayReply, ReplyTrue,
        ReplyFalse, AbortSend, Poll, captured, handlerVars, netVars, srvVars, PC
  <2>3. CASE FinalCheck(c)
    <3>1. pc'[c] = "replying" => replyOK[c] /\ ~late[c]
      BY <2>1, <2>3 DEF FinalCheck, CallInv, ServerDead
    <3>2. pc[c] = "checking" /\ pc'[c] \in {"failing", "replying"}
      BY <2>1, <2>3 DEF FinalCheck
    <3>3. QED
      BY <1>1, <2>1, <3>1, <3>2
      DEF CallInv, Superseded, captured, handlerVars, netVars, srvVars
  <2>4. QED
    BY <2>2, <2>3
<1>6. QED
  BY <1>3, <1>4, <1>5, OneCall

\* Call() hands its request over.
LEMMA SendStep ==
  ASSUME IInv, NEW c \in Calls,
         Accept(c) \/ StartReq(c) \/ \E e \in Ends : Invoke(c, e)
  PROVE  IInv'
<1>1. UNCHANGED <<servername, server, callReliable, callReordering, replyOK,
                  handlerVars, netConf, srvVars, served, done, loopUp>>
  BY DEF Accept, StartReq, Invoke, netVars, loopVars, captured
<1>2. /\ pc' \in [Calls -> PC] /\ callEnd' \in [Calls -> Ends \cup {NoName}]
      /\ count' \in Nat
      /\ pc[c] \in {"idle", "sending", "received"}
      /\ pc'[c] \in {"sending", "received", "accepted"}
      /\ callEnd'[c] \in Ends
      /\ \A d \in Calls \ {c} : pc'[d] = pc[d] /\ callEnd'[d] = callEnd[d]
  BY DEF IInv, TypeOK, CallInv, PC, Goto, Accept, StartReq, Invoke, captured,
         netVars, loopVars
<1>3. TypeOK'
  BY <1>1, <1>2 DEF IInv, TypeOK, handlerVars, netConf, srvVars
<1>4. OthersKept(c)
  BY <1>1, <1>2 DEF OthersKept, handlerVars
<1>5. CallInv(c)'
  BY <1>1, <1>2 DEF IInv, CallInv, Superseded, handlerVars, srvVars
<1>6. QED
  BY <1>3, <1>4, <1>5, OneCall

\* processReq takes its reading of the network.
LEMMA ReadStep ==
  ASSUME IInv, NEW c \in Calls, ReadEndnameInfo(c)
  PROVE  IInv'
<1>1. UNCHANGED <<callEnd, replyOK, handlerVars, netVars>>
  BY DEF ReadEndnameInfo, captured
<1>2. callEnd[c] \in Ends /\ handler[c] = "none" /\ ~late[c] /\ ~replyOK[c]
  BY DEF IInv, CallInv, ReadEndnameInfo
<1>3. /\ pc' \in [Calls -> PC]
      /\ pc'[c] \in {"shortDelay", "failing"}
      /\ servername' \in [Calls -> Names \cup {NoName}]
      /\ server' \in [Calls -> ServerObjs \cup {Nil}]
      /\ \A d \in Calls \ {c} : /\ pc'[d] = pc[d] /\ server'[d] = server[d]
                                 /\ servername'[d] = servername[d]
  BY <1>2, LabRpcAssumption
  DEF IInv, TypeOK, PC, ReadEndnameInfo, Serving, captured
<1>4. pc'[c] = "shortDelay" => servername'[c] \in Names /\ server'[c] \in 1 .. made
  BY <1>2, LabRpcAssumption
  DEF IInv, TypeOK, ServersOld, Serving, ReadEndnameInfo, ServerObjs, Nil
<1>5. /\ callReliable' \in [Calls -> BOOLEAN]
      /\ callReordering' \in [Calls -> BOOLEAN]
  BY DEF IInv, TypeOK, ReadEndnameInfo, captured
<1>6. TypeOK'
  BY <1>1, <1>3, <1>5
  DEF IInv, TypeOK, handlerVars, netVars, netConf, srvVars, loopVars
<1>7. OthersKept(c)
  BY <1>1, <1>3 DEF OthersKept, handlerVars, netVars
<1>8. CallInv(c)'
  BY <1>1, <1>2, <1>3, <1>4 DEF CallInv, handlerVars, netVars, srvVars
<1>9. QED
  BY <1>6, <1>7, <1>8, OneCall

\* The handler's goroutine: started, executing, its result taken or drained.
LEMMA HandlerStep ==
  ASSUME IInv, NEW c \in Calls,
         \/ Dispatch(c) \/ ServerDispatch(c) \/ Execute(c)
         \/ ReceiveReply(c) \/ Drain(c)
  PROVE  IInv'
<1>1. UNCHANGED <<captured, netConf, srvVars, loopVars>>
  BY DEF Dispatch, ServerDispatch, Execute, ReceiveReply, Drain, netVars
<1>2. CallInv(c)
  BY DEF IInv
<1>3. /\ pc' \in [Calls -> PC] /\ handler' \in [Calls -> Handler]
      /\ \A d \in Calls \ {c} : pc'[d] = pc[d] /\ handler'[d] = handler[d]
  BY DEF IInv, TypeOK, PC, Handler, Goto, Dispatch, ServerDispatch, Execute,
         ReceiveReply, Drain
<1>4. /\ replyOK' \in [Calls -> BOOLEAN] /\ late' \in [Calls -> BOOLEAN]
      /\ \A d \in Calls \ {c} : replyOK'[d] = replyOK[d] /\ late'[d] = late[d]
  BY DEF IInv, TypeOK, Superseded, Dispatch, ServerDispatch, Execute, ReceiveReply,
         Drain
<1>5. served' \in [ServerObjs -> Nat]
  BY DEF IInv, TypeOK, Dispatch, ServerDispatch, Execute, ReceiveReply,
         Drain, netVars
<1>6. TypeOK'
  BY <1>1, <1>3, <1>4, <1>5
  DEF IInv, TypeOK, captured, netConf, srvVars, loopVars
<1>7. OthersKept(c)
  BY <1>1, <1>3, <1>4 DEF OthersKept, captured
<1>8. CallInv(c)'
  <2>1. /\ pc \in [Calls -> PC] /\ handler \in [Calls -> Handler]
        /\ replyOK \in [Calls -> BOOLEAN] /\ late \in [Calls -> BOOLEAN]
    BY DEF IInv, TypeOK
  <2>2. CASE Dispatch(c)
    BY <1>1, <1>2, <2>1, <2>2
    DEF CallInv, Superseded, Dispatch, Goto, captured, srvVars
  <2>3. CASE Execute(c)
    BY <1>1, <1>2, <2>1, <2>3
    DEF CallInv, Superseded, Execute, captured, srvVars
  <2>4. CASE ReceiveReply(c)
    BY <1>1, <1>2, <2>1, <2>4
    DEF CallInv, Superseded, ReceiveReply, Goto, captured, srvVars
  <2>5. CASE Drain(c)
    BY <1>1, <1>2, <2>1, <2>5
    DEF CallInv, Superseded, Drain, captured, srvVars
  <2>6. CASE ServerDispatch(c)
    BY <1>1, <1>2, <2>1, <2>6
    DEF CallInv, Superseded, ServerDispatch, captured, srvVars
  <2>7. QED
    BY <2>2, <2>3, <2>4, <2>5, <2>6
<1>9. QED
  BY <1>6, <1>7, <1>8, OneCall

-----------------------------------------------------------------------------
\* Every step of the network and of the tester preserves the invariant.
LEMMA IInvNext == IInv /\ [Next]_vars => IInv'
<1> SUFFICES ASSUME IInv, [Next]_vars
             PROVE  IInv'
  OBVIOUS
<1>1. CASE Tester \/ LoopExit
  BY <1>1, ConfStep, ServerStep DEF Tester
<1>2. CASE \E c \in Calls, e \in Ends : Invoke(c, e)
  BY <1>2, SendStep
<1>3. CASE \E c \in Calls : \/ Accept(c) \/ StartReq(c) \/ AbortSend(c)
                            \/ ProcessReq(c) \/ ServerDispatch(c) \/ Execute(c)
                            \/ Drain(c)
  BY <1>3, PcStep, SendStep, ReadStep, HandlerStep DEF ProcessReq
<1>4. CASE UNCHANGED vars
  BY <1>4
  DEF IInv, TypeOK, ServersOld, CallInv, Superseded, vars, netVars, netConf,
      srvVars, loopVars, callVars, captured, handlerVars
<1>5. QED
  BY <1>1, <1>2, <1>3, <1>4 DEF Next, NetworkStep

\* The inductive invariant holds in every reachable state.
THEOREM InvariantHolds == Spec => []IInv
<1>1. QED
  BY IInvInit, IInvNext, PTL DEF Spec

\* processReq answers true only for a handler that took effect while its
\* Server was still on the network, for any number of calls and restarts.
THEOREM AckedBeforeDeletedHolds == Spec => []AckedBeforeDeleted
<1>1. IInv => AckedBeforeDeleted
  BY DEF IInv, CallInv, AckedBeforeDeleted
<1>2. QED
  BY <1>1, InvariantHolds, PTL

-----------------------------------------------------------------------------
(* The counters.  A counter may run behind or ahead of the goroutines it is *)
(* compared with, so the argument goes by the calls that have passed the    *)
(* statement that counts them.  They are finitely many at any time,         *)
(* whatever the set Calls is.                                               *)

\* The calls that the loop has counted and that are not known to be lost, and
\* those whose handler has got past the counting in Server.dispatch().
Taken ==
  {c \in Calls : pc[c] \in {"accepted", "shortDelay"} \/ handler[c] # "none"}
Begun == {c \in Calls : handler[c] \notin {"none", "started"}}
BegunAt(k) == {c \in Begun : server[c] = k}

CountInv ==
  /\ IsFiniteSet(Taken) /\ Cardinality(Taken) <= count
  /\ \A k \in ServerObjs : served[k] = Cardinality(BegunAt(k))
  /\ IsFiniteSet(Tally) /\ Cardinality(Tally) = Cardinality(Begun)

\* A step that counts nothing keeps the counters right, whatever calls are lost.
LEMMA CountKept ==
  ASSUME IInv, CountInv, count' = count, served' = served,
         Taken' \subseteq Taken, Begun' = Begun,
         \A k \in ServerObjs : BegunAt(k)' = BegunAt(k)
  PROVE  CountInv'
<1>1. IsFiniteSet(Taken') /\ Cardinality(Taken') <= Cardinality(Taken)
  BY FS_Subset DEF CountInv
<1>2. Cardinality(Taken) \in Nat /\ Cardinality(Taken') \in Nat /\ count \in Nat
  BY <1>1, FS_CardinalityType DEF CountInv, IInv, TypeOK
<1>3. \A k \in ServerObjs : served'[k] = Cardinality(BegunAt(k)')
  BY DEF CountInv
<1>4. Cardinality(Taken') <= count'
  BY <1>1, <1>2 DEF CountInv
<1>5. Tally' = Tally
  BY DEF Tally
<1>6. IsFiniteSet(Tally') /\ Cardinality(Tally') = Cardinality(Begun')
  BY <1>5 DEF CountInv
<1>7. QED
  BY <1>1, <1>3, <1>4, <1>6 DEF CountInv

\* All steps but the two that count leave the counters alone.
LEMMA CountOther ==
  ASSUME IInv, CountInv,
         \/ Tester \/ LoopExit
         \/ \E c \in Calls, e \in Ends : Invoke(c, e)
         \/ \E c \in Calls : \/ Accept(c) \/ AbortSend(c) \/ ProcessReq(c)
                             \/ Execute(c) \/ Drain(c)
         \/ UNCHANGED vars
  PROVE  CountInv'
<1>1. count' = count /\ served' = served
  BY DEF Tester, Reliable, LongReordering, MakeEnd, DeleteEnd, Connect, Enable,
         AddServer, DeleteServer, Cleanup, LoopExit, Invoke, Accept, AbortSend,
         ProcessReq, ReadEndnameInfo, DropRequest, Dispatch, ReceiveReply, Poll,
         FinalCheck, DropReply, DelayReply, ReplyTrue, ReplyFalse, Execute, Drain,
         vars, netVars, loopVars
<1>2. \A c \in Calls : /\ handler'[c] \in {"none", "started"}
                            <=> handler[c] \in {"none", "started"}
                       /\ handler'[c] # "none" =>
                            \/ handler[c] # "none"
                            \/ pc[c] \in {"accepted", "shortDelay"}
                       /\ handler[c] # "none" => server'[c] = server[c]
                       /\ pc'[c] \in {"accepted", "shortDelay"} =>
                            pc[c] \in {"accepted", "shortDelay"}
  <2>1. CASE Tester \/ LoopExit \/ UNCHANGED vars
    BY <2>1
    DEF Tester, Reliable, LongReordering, MakeEnd, DeleteEnd, Connect, Enable,
        AddServer, DeleteServer, Cleanup, LoopExit, vars, callVars, captured,
        handlerVars
  <2>2. CASE \/ \E c \in Calls, e \in Ends : Invoke(c, e)
             \/ \E c \in Calls : Accept(c)
    BY <2>2 DEF IInv, TypeOK, Invoke, Accept, Goto, captured, handlerVars
  <2>3. CASE \E c \in Calls : ReadEndnameInfo(c)
    BY <2>3 DEF IInv, TypeOK, CallInv, ReadEndnameInfo, captured, handlerVars
  <2>4. CASE \E c \in Calls : Dispatch(c) \/ Execute(c) \/ ReceiveReply(c) \/ Drain(c)
    BY <2>4
    DEF IInv, TypeOK, CallInv, Dispatch, Execute, ReceiveReply, Drain, Goto, captured
  <2>5. CASE \E c \in Calls : \/ AbortSend(c) \/ DropRequest(c) \/ Poll(c)
                              \/ FinalCheck(c) \/ DropReply(c) \/ DelayReply(c)
                              \/ ReplyTrue(c) \/ ReplyFalse(c)
    BY <2>5
    DEF IInv, TypeOK, AbortSend, DropRequest, Poll, FinalCheck, DropReply,
        DelayReply, ReplyTrue, ReplyFalse, Goto, Forget, captured, handlerVars
  <2>6. QED
    BY <2>1, <2>2, <2>3, <2>4, <2>5 DEF ProcessReq
<1>3. Taken' \subseteq Taken /\ Begun' = Begun
  BY <1>2 DEF Taken, Begun
<1>4. \A k \in ServerObjs : BegunAt(k)' = BegunAt(k)
  BY <1>2, <1>3 DEF BegunAt, Begun
<1>5. QED
  BY <1>1, <1>3, <1>4, CountKept

\* The loop counts a request before processReq() begins.
LEMMA CountStart ==
  ASSUME IInv, CountInv, NEW c \in Calls, StartReq(c)
  PROVE  CountInv'
<1>1. /\ Taken' = Taken \cup {c} /\ Begun' = Begun
      /\ \A k \in ServerObjs : BegunAt(k)' = BegunAt(k)
  BY DEF IInv, TypeOK, StartReq, Goto, Taken, Begun, BegunAt, captured, handlerVars
<1>2. /\ IsFiniteSet(Taken \cup {c})
      /\ Cardinality(Taken \cup {c}) <= Cardinality(Taken) + 1
      /\ Cardinality(Taken) \in Nat
  <2>1. IsFiniteSet(Taken)
    BY DEF CountInv
  <2>2. Cardinality(Taken) \in Nat
    BY <2>1, FS_CardinalityType
  <2>3. /\ IsFiniteSet(Taken \cup {c})
        /\ Cardinality(Taken \cup {c}) =
             IF c \in Taken THEN Cardinality(Taken) ELSE Cardinality(Taken) + 1
    BY <2>1, FS_AddElement
  <2>4. QED
    BY <2>2, <2>3
<1>3. count' = count + 1 /\ served' = served /\ count \in Nat
  BY DEF IInv, TypeOK, StartReq
<1>4. Cardinality(Taken \cup {c}) \in Nat /\ Cardinality(Taken) <= count
  BY <1>2, FS_CardinalityType DEF CountInv
<1>5. IsFiniteSet(Taken') /\ Cardinality(Taken') <= count'
  BY <1>1, <1>2, <1>3, <1>4
<1>6. Tally' = Tally
  BY <1>3 DEF Tally
<1>7. IsFiniteSet(Tally') /\ Cardinality(Tally') = Cardinality(Begun')
  BY <1>1, <1>6 DEF CountInv
<1>8. \A k \in ServerObjs : served'[k] = Cardinality(BegunAt(k)')
  BY <1>1, <1>3 DEF CountInv
<1>9. QED
  BY <1>5, <1>7, <1>8 DEF CountInv

\* Server.dispatch() counts a request once, and the loop has counted it before.
LEMMA CountServer ==
  ASSUME IInv, CountInv, NEW c \in Calls, ServerDispatch(c)
  PROVE  CountInv'
<1>1. PICK k : k = server[c]
  OBVIOUS
<1>2. PICK x : x = <<k, served[k] + 1>>
  OBVIOUS
<1>3. /\ handler[c] = "started" /\ k \in ServerObjs
      /\ served \in [ServerObjs -> Nat] /\ served' = [served EXCEPT ![k] = served[k] + 1]
  BY <1>1, LabRpcAssumption
  DEF IInv, TypeOK, CallInv, ServerDispatch, ServerObjs
<1>4. /\ Taken' = Taken /\ count' = count
      /\ Begun' = Begun \cup {c} /\ c \notin Begun
      /\ \A j \in ServerObjs :
           BegunAt(j)' = IF j = k THEN BegunAt(j) \cup {c} ELSE BegunAt(j)
  BY <1>1, <1>3
  DEF IInv, TypeOK, ServerDispatch, Taken, Begun, BegunAt, captured, loopVars
<1>5. IsFiniteSet(Begun) /\ \A j \in ServerObjs : IsFiniteSet(BegunAt(j))
  <2>1. Begun \subseteq Taken /\ \A j \in ServerObjs : BegunAt(j) \subseteq Taken
    BY DEF Taken, Begun, BegunAt
  <2>2. QED
    BY <2>1, FS_Subset DEF CountInv
<1>6. \A j \in ServerObjs : served'[j] = Cardinality(BegunAt(j)')
  <2>1. c \notin BegunAt(k)
    BY <1>4 DEF BegunAt
  <2>2. Cardinality(BegunAt(k) \cup {c}) = Cardinality(BegunAt(k)) + 1
    BY <1>3, <1>5, <2>1, FS_AddElement
  <2>3. \A j \in ServerObjs : served[j] = Cardinality(BegunAt(j))
    BY DEF CountInv
  <2>4. QED
    BY <1>3, <1>4, <2>2, <2>3
<1>7. Tally' = Tally \cup {x} /\ x \notin Tally
  <2>1. \A y : y \in Tally <=>
          \E j \in ServerObjs, n \in Nat : y = <<j, n>> /\ 1 <= n /\ n <= served[j]
    BY <1>3 DEF Tally
  <2>2. \A y : y \in Tally' <=>
          \E j \in ServerObjs, n \in Nat : y = <<j, n>> /\ 1 <= n /\ n <= served'[j]
    BY <1>3 DEF Tally
  <2>3. x \notin Tally /\ x \in Tally'
    BY <1>2, <1>3, <2>1, <2>2
  <2>4. ASSUME NEW y \in Tally
        PROVE  y \in Tally'
    <3>1. PICK j \in ServerObjs, n \in Nat : y = <<j, n>> /\ 1 <= n /\ n <= served[j]
      BY <2>1, <2>4
    <3>2. n <= served'[j]
      BY <1>3, <3>1
    <3>3. QED
      BY <2>2, <3>1, <3>2
  <2>5. ASSUME NEW y \in Tally', y # x
        PROVE  y \in Tally
    <3>1. PICK j \in ServerObjs, n \in Nat : y = <<j, n>> /\ 1 <= n /\ n <= served'[j]
      BY <2>2, <2>5
    <3>2. n <= served[j]
      BY <1>2, <1>3, <2>5, <3>1
    <3>3. QED
      BY <2>1, <3>1, <3>2
  <2>6. QED
    BY <2>3, <2>4, <2>5
<1>8. IsFiniteSet(Tally') /\ Cardinality(Tally') = Cardinality(Begun')
  <2>1. IsFiniteSet(Tally) /\ Cardinality(Tally) = Cardinality(Begun)
    BY DEF CountInv
  <2>2. /\ IsFiniteSet(Tally \cup {x})
        /\ Cardinality(Tally \cup {x}) = Cardinality(Tally) + 1
    BY <1>7, <2>1, FS_AddElement
  <2>3. Cardinality(Begun \cup {c}) = Cardinality(Begun) + 1
    BY <1>4, <1>5, FS_AddElement
  <2>4. QED
    BY <1>4, <1>7, <2>1, <2>2, <2>3
<1>9. IsFiniteSet(Taken') /\ Cardinality(Taken') <= count'
  BY <1>4 DEF CountInv
<1>10. QED
  BY <1>6, <1>8, <1>9 DEF CountInv

\* A call that has returned true is among those its Server has counted, and the
\* Servers have counted no more calls than the loop.
LEMMA CountsFollow ==
  ASSUME IInv, CountInv
  PROVE  CountsAgree
<1>1. ASSUME NEW k \in ServerObjs
      PROVE  Cardinality(Answered(k)) <= served[k]
  <2>1. Answered(k) \subseteq BegunAt(k)
    BY DEF IInv, CallInv, Answered, BegunAt, Begun
  <2>2. BegunAt(k) \subseteq Taken
    BY DEF Taken, Begun, BegunAt
  <2>3. IsFiniteSet(BegunAt(k))
    BY <2>2, FS_Subset DEF CountInv
  <2>4. Cardinality(Answered(k)) <= Cardinality(BegunAt(k))
    BY <2>1, <2>3, FS_Subset
  <2>5. QED
    BY <2>4 DEF CountInv
<1>2. Cardinality(Tally) <= count
  <2>1. Begun \subseteq Taken
    BY DEF Taken, Begun
  <2>2. IsFiniteSet(Begun) /\ Cardinality(Begun) <= Cardinality(Taken)
    BY <2>1, FS_Subset DEF CountInv
  <2>3. Cardinality(Begun) \in Nat /\ Cardinality(Taken) \in Nat /\ count \in Nat
    BY <2>2, FS_CardinalityType DEF CountInv, IInv, TypeOK
  <2>4. Cardinality(Taken) <= count /\ Cardinality(Tally) = Cardinality(Begun)
    BY DEF CountInv
  <2>5. QED
    BY <2>2, <2>3, <2>4
<1>3. QED
  BY <1>1, <1>2 DEF CountsAgree

\* Whenever the tester reads them, GetCount() includes every call its Server has
\* answered, and GetTotalCount() is at least the sum of all GetCount().
THEOREM CountsAgreeHolds == Spec => []CountsAgree
<1>1. Init => CountInv
  <2> SUFFICES ASSUME Init
               PROVE  CountInv
    OBVIOUS
  <2>1. Taken = {} /\ Begun = {} /\ \A k \in ServerObjs : BegunAt(k) = {}
    BY DEF Init, Taken, Begun, BegunAt
  <2>2. IsFiniteSet({}) /\ Cardinality({}) = 0
    BY FS_EmptySet
  <2>3. count = 0 /\ \A k \in ServerObjs : served[k] = 0
    BY DEF Init
  <2>4. Tally = {}
    BY <2>3 DEF Tally
  <2>5. QED
    BY <2>1, <2>2, <2>3, <2>4 DEF CountInv
<1>2. IInv /\ CountInv /\ [Next]_vars => CountInv'
  BY CountOther, CountStart, CountServer DEF Next, NetworkStep
<1>3. IInv /\ CountInv => CountsAgree
  BY CountsFollow
<1>4. QED
  BY <1>1, <1>2, <1>3, InvariantHolds, PTL DEF Spec

-----------------------------------------------------------------------------
(* LabRpc implements RpcAbs.                                               *)

\* A step of call c changes the abstract state of c only.
LEMMA AbstractCallStep ==
  ASSUME IInv, NEW c \in Calls,
         \/ \E e \in Ends : Invoke(c, e)
         \/ Accept(c) \/ StartReq(c) \/ AbortSend(c) \/ ProcessReq(c)
         \/ ServerDispatch(c) \/ Execute(c) \/ Drain(c)
  PROVE  Rpc!Next \/ UNCHANGED Rpc!vars
<1> DEFINE st == [d \in Calls |-> CallStatus(pc[d])]
           ex == {d \in Calls : handler[d] \in {"executed", "gone"}}
<1>1. pc \in [Calls -> PC] /\ handler \in [Calls -> Handler] /\ CallInv(c)
  BY DEF IInv, TypeOK
<1>2. CASE \/ Accept(c) \/ StartReq(c) \/ ReadEndnameInfo(c) \/ Dispatch(c)
           \/ ServerDispatch(c) \/ ReceiveReply(c) \/ Poll(c) \/ FinalCheck(c)
           \/ DelayReply(c) \/ Drain(c)
  <2>1. \A d \in Calls : /\ CallStatus(pc'[d]) = CallStatus(pc[d])
                         /\ handler'[d] \in {"executed", "gone"}
                              <=> handler[d] \in {"executed", "gone"}
    BY <1>1, <1>2
    DEF CallStatus, CallInv, Goto, Accept, StartReq, ReadEndnameInfo, Dispatch,
        ServerDispatch, ReceiveReply, Poll, FinalCheck, DelayReply, Drain, handlerVars
  <2>2. st' = st /\ ex' = ex
    BY <2>1
  <2>3. QED
    BY <2>2 DEF Rpc!vars
<1>3. CASE \E e \in Ends : Invoke(c, e)
  <2>1. /\ pc[c] = "idle" /\ pc' = [pc EXCEPT ![c] = "sending"]
        /\ UNCHANGED handler
    BY <1>3 DEF Invoke, Goto, handlerVars
  <2>2. st[c] = "idle" /\ st' = [st EXCEPT ![c] = "open"] /\ ex' = ex
    BY <1>1, <2>1 DEF CallStatus
  <2>3. QED
    BY <2>2 DEF Rpc!Next, Rpc!Invoke
<1>4. CASE Execute(c)
  <2>1. /\ handler[c] = "running" /\ UNCHANGED pc
        /\ handler' = [handler EXCEPT ![c] = "executed"]
        /\ pc[c] # "idle"
    BY <1>1, <1>4 DEF Execute, CallInv
  <2>2. st[c] # "idle" /\ st' = st /\ c \notin ex /\ ex' = ex \cup {c}
    BY <1>1, <2>1 DEF CallStatus
  <2>3. QED
    BY <2>2 DEF Rpc!Next, Rpc!Execute
<1>5. CASE ReplyTrue(c)
  <2>1. /\ pc[c] \in {"replying", "parked"} /\ pc' = [pc EXCEPT ![c] = "true"]
        /\ UNCHANGED handler /\ handler[c] = "gone"
    BY <1>1, <1>5 DEF ReplyTrue, CallInv, handlerVars
  <2>2. st[c] = "open" /\ c \in ex /\ st' = [st EXCEPT ![c] = "ok"] /\ ex' = ex
    BY <1>1, <2>1 DEF CallStatus
  <2>3. QED
    BY <2>2 DEF Rpc!Next, Rpc!ReturnTrue
<1>6. CASE AbortSend(c) \/ DropRequest(c) \/ DropReply(c) \/ ReplyFalse(c)
  <2>1. /\ pc[c] \in {"sending", "shortDelay", "replying", "failing"}
        /\ pc' = [pc EXCEPT ![c] = "false"] /\ UNCHANGED handler
    BY <1>6 DEF AbortSend, DropRequest, DropReply, ReplyFalse, Goto, handlerVars
  <2>2. st[c] = "open" /\ st' = [st EXCEPT ![c] = "failed"] /\ ex' = ex
    BY <1>1, <2>1 DEF CallStatus
  <2>3. QED
    BY <2>2 DEF Rpc!Next, Rpc!ReturnFalse
<1>7. QED
  BY <1>2, <1>3, <1>4, <1>5, <1>6 DEF ProcessReq

\* Every step of LabRpc is a step of RpcAbs or leaves the callers' view alone.
LEMMA AbstractStep == IInv /\ [Next]_vars => [Rpc!Next]_(Rpc!vars)
<1> SUFFICES ASSUME IInv, [Next]_vars
             PROVE  Rpc!Next \/ UNCHANGED Rpc!vars
  OBVIOUS
<1>1. CASE Tester \/ LoopExit \/ UNCHANGED vars
  <2>1. UNCHANGED <<pc, handler>>
    BY <1>1
    DEF Tester, Reliable, LongReordering, MakeEnd, DeleteEnd, Connect, Enable,
        AddServer, DeleteServer, Cleanup, LoopExit, vars, callVars, handlerVars
  <2>2. QED
    BY <2>1 DEF Rpc!vars
<1>2. CASE \E c \in Calls, e \in Ends : Invoke(c, e)
  BY <1>2, AbstractCallStep
<1>3. CASE \E c \in Calls : \/ Accept(c) \/ StartReq(c) \/ AbortSend(c)
                            \/ ProcessReq(c) \/ ServerDispatch(c) \/ Execute(c)
                            \/ Drain(c)
  BY <1>3, AbstractCallStep
<1>4. QED
  BY <1>1, <1>2, <1>3 DEF Next, NetworkStep

\* labrpc gives its callers at-most-once execution, and true only after the
\* handler has run: LabRpc implements RpcAbs.
THEOREM RefinementHolds == Spec => RefinesRpc
<1>1. Init => Rpc!Init
  <2> SUFFICES ASSUME Init
               PROVE  Rpc!Init
    OBVIOUS
  <2>1. \A c \in Calls : pc[c] = "idle" /\ handler[c] = "none"
    BY DEF Init
  <2>2. \A c \in Calls : /\ CallStatus(pc[c]) = "idle"
                         /\ handler[c] \notin {"executed", "gone"}
    BY <2>1 DEF CallStatus
  <2>3. QED
    BY <2>2 DEF Rpc!Init
<1>2. QED
  BY <1>1, AbstractStep, InvariantHolds, PTL DEF Spec, RefinesRpc, Rpc!Spec

-----------------------------------------------------------------------------
(* CrashRestart.                                                           *)

\* The network part of CrashRestart only takes steps of LabRpc, so that the
\* invariant of LabRpc carries over.
LEMMA NetworkPart == CrashNext => [Next]_vars
  BY CrashAssumption
  DEF CrashNext, HandleAndPersist, TakeSnapshot, StartServer, StartAddServer,
      ShutdownServer, DisconnectEnd, ShutdownDelete, ShutdownCopy,
      KillReadRaftState, KillReadSnapshot, KillSave, TesterNetwork, Next, Tester

\* The invariant of LabRpc holds initially here, too.
LEMMA CrashInitIInv == CrashInit => IInv
<1> SUFFICES ASSUME CrashInit
             PROVE  IInv
  OBVIOUS
<1>1. TypeOK
  <2>1. /\ made \in 0 .. MaxServers /\ count \in Nat
        /\ served \in [ServerObjs -> Nat]
        /\ servers \in [Names -> ServerObjs \cup {Nil}]
        /\ server \in [Calls -> ServerObjs \cup {Nil}]
    BY LabRpcAssumption DEF CrashInit
  <2>2. /\ ends \in [Ends -> EndState]
        /\ connections \in [Ends -> Names \cup {NoName}]
        /\ pc \in [Calls -> PC] /\ handler \in [Calls -> Handler]
        /\ callEnd \in [Calls -> Ends \cup {NoName}]
        /\ servername \in [Calls -> Names \cup {NoName}]
    BY CrashAssumption DEF CrashInit, EndState, PC, Handler
  <2>3. /\ reliable \in BOOLEAN /\ longReordering \in BOOLEAN
        /\ done \in BOOLEAN /\ loopUp \in BOOLEAN
        /\ enabled \in [Ends -> BOOLEAN]
        /\ callReliable \in [Calls -> BOOLEAN]
        /\ callReordering \in [Calls -> BOOLEAN]
        /\ replyOK \in [Calls -> BOOLEAN] /\ late \in [Calls -> BOOLEAN]
    BY DEF CrashInit
  <2>4. QED
    BY <2>1, <2>2, <2>3 DEF TypeOK
<1>2. ServersOld
  BY DEF CrashInit, ServersOld, Nil
<1>3. ASSUME NEW c \in Calls
      PROVE  CallInv(c)
  BY DEF CrashInit, CallInv
<1>4. QED
  BY <1>1, <1>2, <1>3 DEF IInv

\* The state after makeSrvGrp satisfies the inductive invariant.
LEMMA CrashInitInv == CrashInit => CrashInv
<1> SUFFICES ASSUME CrashInit
             PROVE  CrashInv
  OBVIOUS
<1>1. CrashTypeOK
  BY DEF CrashInit, CrashTypeOK, Contents, Empty, RaftState, NoState
<1>2. TesterInv
  BY CrashAssumption DEF CrashInit, TesterInv, Nil
<1>3. NoObject \notin {Inst(k) : k \in ServerObjs}
  BY DEF NoObject, Inst
<1>4. QED
  BY <1>1, <1>2, <1>3, CrashInitIInv
  DEF CrashInit, CrashInv, SavedConsistent

\* Facts about the Persister objects that the steps below use.
LEMMA ObjectFacts ==
  ASSUME NEW j \in ServerObjs, NEW k \in ServerObjs
  PROVE  /\ Inst(j) \in Objects /\ <<"copy", j>> \in Objects
         /\ Inst(j) # <<"copy", k>> /\ Inst(j) # NoObject
         /\ <<"copy", j>> # NoObject
         /\ Inst(j) = Inst(k) => j = k
  BY DEF Inst, Objects, NoObject

\* Network steps other than a handler's effect: the final check lets a reply
\* through only when the server that executed it is the registered one.
LEMMA NetStepInv ==
  ASSUME CrashInv, NetworkStep \/ TesterNetwork \/ \E e \in Ends : DisconnectEnd(e),
         UNCHANGED <<persister, saved, mem, tpc, killRead>>
  PROVE  CrashInv'
<1>1. IInv'
  BY IInvNext
  DEF CrashInv, Next, Tester, TesterNetwork, DisconnectEnd
<1>2. UNCHANGED <<servers, made, connections>>
  BY DEF NetworkStep, TesterNetwork, DisconnectEnd, LoopExit, Invoke, Accept,
         StartReq, AbortSend, ProcessReq, ServerDispatch, Drain, ReadEndnameInfo, DropRequest, Dispatch,
         ReceiveReply, Poll, FinalCheck, DropReply, DelayReply, ReplyTrue,
         ReplyFalse, Enable, Reliable, LongReordering, netVars, netConf, srvVars,
         loopVars
<1>3. CrashTypeOK' /\ TesterInv' /\ SavedConsistent'
  BY <1>2 DEF CrashInv, CrashTypeOK, TesterInv, SavedConsistent
<1>4. \A k \in ServerObjs : saved' = Inst(k) => persister'[saved'].raftstate = mem'[k]
  BY DEF CrashInv
<1>5. ASSUME NEW c \in Calls
      PROVE  /\ servername'[c] \in {Srv, NoName}
             /\ handler'[c] \in {"executed", "gone"} =>
                  /\ c \in mem[server[c]].base \cup mem[server[c]].log
                  /\ server'[c] = server[c]
             /\ pc'[c] \in {"replying", "parked", "true"} =>
                  saved # NoObject /\ c \in Recorded(saved)
  <2>1. /\ CallInv(c) /\ pc \in [Calls -> PC] /\ handler \in [Calls -> Handler]
        /\ servername \in [Calls -> Names \cup {NoName}]
        /\ server \in [Calls -> ServerObjs \cup {Nil}]
        /\ servername[c] \in {Srv, NoName}
        /\ handler[c] \in {"executed", "gone"} =>
             c \in mem[server[c]].base \cup mem[server[c]].log
        /\ pc[c] \in {"replying", "parked", "true"} =>
             saved # NoObject /\ c \in Recorded(saved)
    BY DEF CrashInv, IInv, TypeOK
  <2>2. CASE UNCHANGED <<pc, servername, server, handler>>
    BY <2>1, <2>2
  <2>3. CASE \E d \in Calls, e \in Ends : Invoke(d, e)
    BY <2>1, <2>3 DEF Invoke, Goto, handlerVars
  <2>4. CASE \E d \in Calls :
               \/ Accept(d) \/ StartReq(d) \/ AbortSend(d) \/ DropRequest(d)
               \/ Dispatch(d) \/ ServerDispatch(d)
               \/ ReceiveReply(d) \/ Poll(d) \/ DropReply(d) \/ DelayReply(d)
               \/ ReplyTrue(d) \/ ReplyFalse(d) \/ Drain(d)
    BY <2>1, <2>4
    DEF Goto, Accept, StartReq, AbortSend, DropRequest, Dispatch, ServerDispatch,
        ReceiveReply, Poll, DropReply, DelayReply, ReplyTrue, ReplyFalse, Drain, Forget, captured,
        handlerVars
  <2>5. CASE \E d \in Calls : ReadEndnameInfo(d)
    <3>1. PICK d \in Calls : ReadEndnameInfo(d)
      BY <2>5
    <3>2. UNCHANGED handler /\ pc'[c] \in {pc[c], "shortDelay", "failing"}
      BY <2>1, <3>1 DEF ReadEndnameInfo, handlerVars
    <3>3. c # d => server'[c] = server[c] /\ servername'[c] = servername[c]
      BY <2>1, <3>1 DEF ReadEndnameInfo, captured
    <3>4. c = d => handler[c] = "none" /\ servername'[c] \in {Srv, NoName}
      BY <2>1, <3>1 DEF ReadEndnameInfo, CallInv, CrashInv, captured
    <3>5. QED
      BY <2>1, <3>2, <3>3, <3>4
  <2>6. CASE \E d \in Calls : FinalCheck(d)
    <3>1. PICK d \in Calls : FinalCheck(d)
      BY <2>6
    <3>2. UNCHANGED <<handler, server, servername>>
      BY <3>1 DEF FinalCheck, Forget, handlerVars, captured
    <3>3. c # d => pc'[c] = pc[c]
      BY <2>1, <3>1 DEF FinalCheck
    <3>4. ASSUME c = d, pc'[c] = "replying"
          PROVE  saved # NoObject /\ c \in Recorded(saved)
      <4>1. /\ replyOK[c] /\ pc[c] = "checking"
            /\ servers[servername[c]] = server[c]
        BY <2>1, <3>1, <3>4 DEF FinalCheck, ServerDead, Superseded
      <4>2. /\ servername[c] = Srv /\ server[c] \in 1 .. made
            /\ handler[c] = "gone"
        BY <2>1, <4>1, LabRpcAssumption DEF CallInv
      <4>3. server[c] = made /\ saved = Inst(made) /\ made \in ServerObjs
        BY <2>1, <4>1, <4>2, LabRpcAssumption
        DEF CrashInv, TesterInv, IInv, TypeOK, Nil, ServerObjs
      <4>4. persister[saved].raftstate = mem[server[c]]
        BY <4>3 DEF CrashInv
      <4>5. saved # NoObject
        BY <4>3, ObjectFacts
      <4>6. QED
        BY <2>1, <4>2, <4>4, <4>5 DEF Recorded
    <3>5. c = d => pc'[c] \in {"replying", "failing"}
      BY <2>1, <3>1 DEF FinalCheck
    <3>6. QED
      BY <2>1, <3>2, <3>3, <3>4, <3>5
  <2>7. CASE TesterNetwork \/ LoopExit \/ \E e \in Ends : DisconnectEnd(e)
    <3>1. UNCHANGED callVars
      BY <2>7 DEF TesterNetwork, LoopExit, DisconnectEnd, Enable, Reliable,
                  LongReordering
    <3>2. QED
      BY <2>2, <3>1 DEF callVars, captured, handlerVars
  <2>8. QED
    BY <2>3, <2>4, <2>5, <2>6, <2>7 DEF NetworkStep, ProcessReq
<1>6. QED
  BY <1>1, <1>2, <1>3, <1>4, <1>5 DEF CrashInv, Recorded
\* A Save of instance k, of a memory that only grows, keeps what is saved.
LEMMA SaveFacts ==
  ASSUME CrashInv, NEW k \in ServerObjs, NEW m \in RaftState, Save(k, m),
         mem[k].base \cup mem[k].log \subseteq m.base \cup m.log,
         UNCHANGED <<saved, tpc, killRead>>
  PROVE  /\ CrashTypeOK'
         /\ \A j \in ServerObjs :
              mem[j].base \cup mem[j].log \subseteq mem'[j].base \cup mem'[j].log
         /\ \A j \in ServerObjs :
              saved' = Inst(j) => persister'[saved'].raftstate = mem'[j]
         /\ saved # NoObject => Recorded(saved) \subseteq Recorded(saved)'
         /\ SavedConsistent'
<1>1. /\ persister \in [Objects -> Contents] /\ mem \in [ServerObjs -> RaftState]
      /\ saved \in Objects \cup {NoObject} /\ Inst(k) \in Objects
  BY ObjectFacts DEF CrashInv, CrashTypeOK
<1>2. /\ mem' \in [ServerObjs -> RaftState] /\ mem'[k] = m
      /\ \A j \in ServerObjs \ {k} : mem'[j] = mem[j]
  BY <1>1 DEF Save
<1>3. [raftstate |-> m, snapshot |-> m.base] \in Contents
  BY DEF Contents, RaftState
<1>4. /\ persister' \in [Objects -> Contents]
      /\ persister'[Inst(k)] = [raftstate |-> m, snapshot |-> m.base]
      /\ \A o \in Objects \ {Inst(k)} : persister'[o] = persister[o]
  BY <1>1, <1>3 DEF Save
<1>5. CrashTypeOK'
  BY <1>2, <1>4 DEF CrashInv, CrashTypeOK
<1>6. \A j \in ServerObjs :
        mem[j].base \cup mem[j].log \subseteq mem'[j].base \cup mem'[j].log
  BY <1>2
<1>7. ASSUME NEW j \in ServerObjs, saved' = Inst(j)
      PROVE  persister'[saved'].raftstate = mem'[j]
  <2>1. Inst(j) \in Objects /\ (Inst(j) = Inst(k) => j = k) /\ saved = Inst(j)
    BY <1>7, ObjectFacts
  <2>2. persister[saved].raftstate = mem[j]
    BY <2>1 DEF CrashInv
  <2>3. CASE j = k
    BY <1>2, <1>4, <1>7, <2>3
  <2>4. CASE j # k
    BY <1>2, <1>4, <1>7, <2>1, <2>2, <2>4
  <2>5. QED
    BY <2>3, <2>4
<1>8. saved = Inst(k) => persister[saved].raftstate = mem[k]
  BY DEF CrashInv
<1>9. saved # NoObject => Recorded(saved) \subseteq Recorded(saved)'
  BY <1>1, <1>4, <1>8 DEF Recorded
<1>10. SavedConsistent'
  BY <1>1, <1>4 DEF CrashInv, SavedConsistent
<1>11. QED
  BY <1>5, <1>6, <1>7, <1>9, <1>10

\* The services' own steps, of the current instance or of a killed one.
LEMMA ServiceStepInv ==
  ASSUME CrashInv,
         \/ \E c \in Calls : HandleAndPersist(c)
         \/ \E k \in ServerObjs : TakeSnapshot(k)
  PROVE  CrashInv'
<1>1. CASE \E k \in ServerObjs : TakeSnapshot(k)
  <2>1. PICK k \in ServerObjs : TakeSnapshot(k)
    BY <1>1
  <2> DEFINE m == [base |-> mem[k].base \cup mem[k].log, log |-> {}]
  <2>2. mem[k] \in RaftState
    BY DEF CrashInv, CrashTypeOK
  <2>3. m \in RaftState /\ mem[k].base \cup mem[k].log \subseteq m.base \cup m.log
    BY <2>2 DEF RaftState
  <2>4. Save(k, m) /\ UNCHANGED <<vars, saved, tpc, killRead>>
    BY <2>1 DEF TakeSnapshot
  <2>5. /\ CrashTypeOK' /\ SavedConsistent'
        /\ \A j \in ServerObjs :
             mem[j].base \cup mem[j].log \subseteq mem'[j].base \cup mem'[j].log
        /\ \A j \in ServerObjs :
             saved' = Inst(j) => persister'[saved'].raftstate = mem'[j]
        /\ saved # NoObject => Recorded(saved) \subseteq Recorded(saved)'
    <3> HIDE DEF m
    <3>1. QED
      BY <2>3, <2>4, SaveFacts
  <2>6. IInv'
    BY <2>4, IInvNext DEF CrashInv
  <2>7. TesterInv' /\ \A e \in Ends : connections'[e] = Srv
    BY <2>4 DEF CrashInv, TesterInv, vars, netVars, netConf, srvVars
  <2>8. UNCHANGED <<pc, handler, server, servername>>
    BY <2>4 DEF vars, callVars, captured, handlerVars
  <2>9. ASSUME NEW c \in Calls
        PROVE  /\ servername'[c] \in {Srv, NoName}
               /\ handler'[c] \in {"executed", "gone"} =>
                    c \in mem'[server'[c]].base \cup mem'[server'[c]].log
               /\ pc'[c] \in {"replying", "parked", "true"} =>
                    saved' # NoObject /\ c \in Recorded(saved)'
    <3>1. handler[c] \in {"executed", "gone"} => server[c] \in ServerObjs
      BY LabRpcAssumption DEF CrashInv, IInv, TypeOK, CallInv, ServerObjs
    <3>2. QED
      BY <2>4, <2>5, <2>8, <3>1 DEF CrashInv
  <2>10. QED
    BY <2>5, <2>6, <2>7, <2>9 DEF CrashInv, Recorded
<1>2. CASE \E c \in Calls : HandleAndPersist(c)
  <2>1. PICK c \in Calls : HandleAndPersist(c)
    BY <1>2
  <2> DEFINE k == server[c]
             m == [mem[k] EXCEPT !.log = @ \cup {c}]
  <2>2. k \in ServerObjs /\ handler[c] = "running"
    BY <2>1, LabRpcAssumption
    DEF HandleAndPersist, Execute, CrashInv, IInv, TypeOK, CallInv, ServerObjs
  <2>3. mem[k] \in RaftState
    BY <2>2 DEF CrashInv, CrashTypeOK
  <2>4. /\ m \in RaftState /\ mem[k].base \cup mem[k].log \subseteq m.base \cup m.log
        /\ c \in m.base \cup m.log
    BY <2>3 DEF RaftState
  <2>5. /\ Save(k, m) /\ Execute(c) /\ UNCHANGED <<saved, tpc, killRead>>
        /\ mem' = [mem EXCEPT ![k] = m]
    BY <2>1 DEF HandleAndPersist, Save
  <2>6. /\ CrashTypeOK' /\ SavedConsistent'
        /\ \A j \in ServerObjs :
             mem[j].base \cup mem[j].log \subseteq mem'[j].base \cup mem'[j].log
        /\ \A j \in ServerObjs :
             saved' = Inst(j) => persister'[saved'].raftstate = mem'[j]
        /\ saved # NoObject => Recorded(saved) \subseteq Recorded(saved)'
    <3> HIDE DEF m, k
    <3>1. QED
      BY <2>2, <2>4, <2>5, SaveFacts
  <2>7. mem'[k] = m
    BY <2>2, <2>5 DEF CrashInv, CrashTypeOK
  <2>8. IInv'
    BY <2>5, IInvNext DEF CrashInv, Next
  <2>9. TesterInv' /\ \A e \in Ends : connections'[e] = Srv
    BY <2>5 DEF CrashInv, TesterInv, Execute, netVars, netConf, srvVars
  <2>10. /\ UNCHANGED <<pc, server, servername>>
         /\ \A d \in Calls \ {c} : handler'[d] = handler[d]
    BY <2>5 DEF CrashInv, IInv, TypeOK, Execute, captured
  <2>11. ASSUME NEW d \in Calls
         PROVE  /\ servername'[d] \in {Srv, NoName}
                /\ handler'[d] \in {"executed", "gone"} =>
                     d \in mem'[server'[d]].base \cup mem'[server'[d]].log
                /\ pc'[d] \in {"replying", "parked", "true"} =>
                     saved' # NoObject /\ d \in Recorded(saved)'
    <3>1. handler[d] \in {"executed", "gone"} => server[d] \in ServerObjs
      BY LabRpcAssumption DEF CrashInv, IInv, TypeOK, CallInv, ServerObjs
    <3>2. CASE d = c
      BY <2>4, <2>5, <2>6, <2>7, <2>10, <3>2 DEF CrashInv
    <3>3. CASE d # c
      BY <2>5, <2>6, <2>10, <3>1, <3>3 DEF CrashInv
    <3>4. QED
      BY <3>2, <3>3
  <2>12. QED
    BY <2>6, <2>8, <2>9, <2>11 DEF CrashInv, Recorded
<1>3. QED
  BY <1>1, <1>2

\* The tester's steps that do not write a Persister.
LEMMA TesterStepInv ==
  ASSUME CrashInv,
         \/ StartAddServer \/ ShutdownServer \/ ShutdownDelete
         \/ KillReadRaftState \/ KillReadSnapshot
  PROVE  CrashInv'
<1>1. /\ UNCHANGED <<persister, saved, mem>>
      /\ UNCHANGED <<pc, handler, server, servername, connections>>
  BY DEF StartAddServer, ShutdownServer, ShutdownDelete, KillReadRaftState,
         KillReadSnapshot, AddServer, DeleteServer, vars, netVars, netConf,
         callVars, captured, handlerVars
<1>2. IInv'
  BY IInvNext, CrashAssumption
  DEF CrashInv, StartAddServer, ShutdownServer, ShutdownDelete,
      KillReadRaftState, KillReadSnapshot, Next, Tester
<1>3. tpc # "down" /\ tpc # "started" => made \in ServerObjs
  BY LabRpcAssumption DEF CrashInv, IInv, TypeOK, TesterInv, ServerObjs
<1>4. CrashTypeOK'
  <2>1. killRead' \in Contents
    <3>1. CASE KillReadRaftState \/ KillReadSnapshot
      <4>1. persister[Inst(made)] \in Contents /\ killRead \in Contents
        BY <1>3, <3>1, ObjectFacts
        DEF CrashInv, CrashTypeOK, KillReadRaftState, KillReadSnapshot, Tgoto
      <4>2. QED
        BY <3>1, <4>1 DEF KillReadRaftState, KillReadSnapshot, Contents
    <3>2. CASE StartAddServer \/ ShutdownServer \/ ShutdownDelete
      BY <3>2 DEF StartAddServer, ShutdownServer, ShutdownDelete, CrashInv,
                  CrashTypeOK
    <3>3. QED
      BY <3>1, <3>2
  <2>2. QED
    BY <1>1, <2>1
    DEF CrashInv, CrashTypeOK, StartAddServer, ShutdownServer, ShutdownDelete,
        KillReadRaftState, KillReadSnapshot, Tgoto
<1>5. TesterInv'
  <2>1. made \in Nat /\ servers \in [Names -> ServerObjs \cup {Nil}]
    BY LabRpcAssumption DEF CrashInv, IInv, TypeOK
  <2>2. CASE StartAddServer
    BY <1>1, <2>1, <2>2, CrashAssumption
    DEF CrashInv, TesterInv, StartAddServer, Tgoto, AddServer, Nil
  <2>3. CASE ShutdownDelete
    BY <1>1, <2>1, <2>3, CrashAssumption
    DEF CrashInv, TesterInv, ShutdownDelete, Tgoto, DeleteServer, Nil
  <2>4. CASE ShutdownServer \/ KillReadRaftState \/ KillReadSnapshot
    BY <1>1, <2>1, <2>4
    DEF CrashInv, TesterInv, ShutdownServer, KillReadRaftState, KillReadSnapshot,
        Tgoto, vars, netVars, srvVars
  <2>5. QED
    BY <2>2, <2>3, <2>4
<1>6. QED
  BY <1>1, <1>2, <1>4, <1>5 DEF CrashInv, SavedConsistent, Recorded

\* The tester's steps that write a Persister: the copies of startServer and
\* shutdownServer take over what saved held, and the Save of Kill goes to an
\* object that saved no longer points to.
LEMMA CopyStepInv ==
  ASSUME CrashInv, StartServer \/ ShutdownCopy \/ KillSave
  PROVE  CrashInv'
<1>1. UNCHANGED vars
  BY DEF StartServer, ShutdownCopy, KillSave
<1>2. IInv' /\ \A e \in Ends : connections'[e] = Srv
  BY <1>1, IInvNext DEF CrashInv, vars, netVars, netConf
<1>3. UNCHANGED <<pc, handler, server, servername, servers, made>>
  BY <1>1 DEF vars, netVars, srvVars, callVars, captured, handlerVars
<1>4. /\ made \in Nat /\ made <= MaxServers
      /\ tpc # "down" /\ tpc # "started" => made \in ServerObjs
      /\ persister \in [Objects -> Contents] /\ mem \in [ServerObjs -> RaftState]
      /\ \A c \in Calls : handler[c] # "none" => server[c] \in 1 .. made
      /\ killRead \in Contents
  BY LabRpcAssumption
  DEF CrashInv, CrashTypeOK, IInv, TypeOK, CallInv, TesterInv, ServerObjs
<1>5. Empty \in Contents
  BY DEF Empty, Contents, RaftState, NoState
<1>6. CASE StartServer
  <2> DEFINE k == made + 1
             p == IF saved = NoObject THEN Empty ELSE persister[saved]
  <2>1. k \in ServerObjs /\ p \in Contents /\ Inst(k) \in Objects /\ saved' = Inst(k)
    <3>1. k \in ServerObjs /\ saved' = Inst(k)
      BY <1>4, <1>6, LabRpcAssumption DEF StartServer, ServerObjs
    <3>2. Inst(k) \in Objects
      BY <3>1, ObjectFacts
    <3>3. p \in Contents
      BY <1>4, <1>5 DEF CrashInv, CrashTypeOK
    <3>4. QED
      BY <3>1, <3>2, <3>3
  <2>2. /\ persister' \in [Objects -> Contents] /\ persister'[Inst(k)] = p
        /\ mem' \in [ServerObjs -> RaftState] /\ mem'[k] = p.raftstate
        /\ \A j \in ServerObjs \ {k} : mem'[j] = mem[j]
    BY <1>4, <1>6, <2>1 DEF StartServer, Contents
  <2>3. CrashTypeOK'
    BY <1>6, <2>1, <2>2 DEF StartServer, Tgoto, CrashTypeOK, CrashInv
  <2>4. TesterInv'
    BY <1>3, <1>4, <1>6, <2>1 DEF StartServer, Tgoto, TesterInv, CrashInv
  <2>5. saved' # NoObject
    BY <2>1, ObjectFacts
  <2>6. p.snapshot = p.raftstate.base
    BY DEF CrashInv, SavedConsistent, Empty, NoState
  <2>7. SavedConsistent'
    BY <2>1, <2>2, <2>6 DEF SavedConsistent
  <2>8. \A j \in ServerObjs : saved' = Inst(j) => persister'[saved'].raftstate = mem'[j]
    BY <2>1, <2>2, ObjectFacts
  <2>9. saved # NoObject => Recorded(saved)' = Recorded(saved)
    BY <2>1, <2>2 DEF Recorded
  <2>10. ASSUME NEW c \in Calls
         PROVE  /\ handler[c] \in {"executed", "gone"} =>
                     c \in mem'[server[c]].base \cup mem'[server[c]].log
                /\ pc[c] \in {"replying", "parked", "true"} =>
                     c \in Recorded(saved)'
    <3>1. handler[c] \in {"executed", "gone"} =>
            server[c] \in ServerObjs \ {k} /\ server[c] \in 1 .. made
      BY <1>4, LabRpcAssumption DEF ServerObjs
    <3>2. QED
      BY <2>2, <2>9, <3>1 DEF CrashInv
  <2>11. QED
    BY <1>2, <1>3, <2>3, <2>4, <2>5, <2>7, <2>8, <2>10 DEF CrashInv, Recorded
<1>7. CASE ShutdownCopy
  <2>1. /\ saved = Inst(made) /\ made \in ServerObjs /\ made > 0
        /\ saved' = <<"copy", made>>
    BY <1>4, <1>7 DEF ShutdownCopy, Tgoto, CrashInv, TesterInv
  <2>2. /\ Inst(made) \in Objects /\ <<"copy", made>> \in Objects
        /\ saved # NoObject /\ saved' # NoObject
        /\ \A j \in ServerObjs : saved' # Inst(j)
    BY <2>1, ObjectFacts
  <2>3. /\ persister' \in [Objects -> Contents]
        /\ persister'[saved'] = persister[saved] /\ UNCHANGED mem
    BY <1>4, <1>7, <2>1, <2>2 DEF ShutdownCopy
  <2>4. CrashTypeOK'
    BY <1>7, <2>1, <2>2, <2>3 DEF ShutdownCopy, Tgoto, CrashTypeOK, CrashInv
  <2>5. TesterInv'
    BY <1>3, <1>7, <2>1 DEF ShutdownCopy, Tgoto, TesterInv, CrashInv
  <2>6. SavedConsistent'
    BY <2>2, <2>3 DEF CrashInv, SavedConsistent
  <2>7. QED
    BY <1>2, <1>3, <2>2, <2>3, <2>4, <2>5, <2>6 DEF CrashInv, Recorded
<1>8. CASE KillSave
  <2>1. /\ saved = <<"copy", made>> /\ made \in ServerObjs /\ made > 0
    BY <1>4, <1>8 DEF KillSave, Tgoto, CrashInv, TesterInv
  <2>2. /\ Inst(made) \in Objects /\ saved \in Objects /\ saved # Inst(made)
        /\ \A j \in ServerObjs : saved # Inst(j)
    BY <2>1, ObjectFacts
  <2>3. /\ persister' \in [Objects -> Contents]
        /\ persister'[saved] = persister[saved] /\ UNCHANGED <<mem, saved>>
    BY <1>4, <1>8, <2>2 DEF KillSave
  <2>4. CrashTypeOK'
    BY <1>5, <1>8, <2>3 DEF KillSave, Tgoto, CrashTypeOK, CrashInv
  <2>5. TesterInv'
    BY <1>3, <1>8, <2>1, <2>3 DEF KillSave, Tgoto, TesterInv, CrashInv
  <2>6. QED
    BY <1>2, <1>3, <2>2, <2>3, <2>4, <2>5
    DEF CrashInv, Recorded, SavedConsistent
<1>9. QED
  BY <1>6, <1>7, <1>8

-----------------------------------------------------------------------------
\* Every step preserves the inductive invariant.
LEMMA CrashInvNext == CrashInv /\ [CrashNext]_allVars => CrashInv'
<1> SUFFICES ASSUME CrashInv, [CrashNext]_allVars
             PROVE  CrashInv'
  OBVIOUS
<1>1. CASE UNCHANGED allVars
  <2>1. UNCHANGED vars /\ UNCHANGED crashVars
    BY <1>1 DEF allVars
  <2>2. IInv'
    BY <2>1, IInvNext DEF CrashInv
  <2>3. QED
    BY <2>1, <2>2
    DEF CrashInv, CrashTypeOK, TesterInv, SavedConsistent, Recorded, crashVars,
        vars, netVars, netConf, srvVars, callVars, captured, handlerVars
<1>2. CASE \/ NetworkStep /\ UNCHANGED crashVars
           \/ TesterNetwork \/ \E e \in Ends : DisconnectEnd(e)
  BY <1>2, NetStepInv DEF crashVars, TesterNetwork, DisconnectEnd
<1>3. QED
  BY <1>1, <1>2, ServiceStepInv, TesterStepInv, CopyStepInv DEF CrashNext

\* The inductive invariant holds in every reachable state.
THEOREM CrashInvariantHolds == CrashSpec => []CrashInv
<1>1. QED
  BY CrashInitInv, CrashInvNext, PTL DEF CrashSpec

\* An update whose Call() returned true survives every shutdown and restart,
\* however the calls, the killed instances and the tester interleave.
THEOREM AckedDurableHolds == CrashSpec => []AckedDurable
<1>1. CrashInv => AckedDurable
  BY DEF CrashInv, AckedDurable
<1>2. QED
  BY <1>1, CrashInvariantHolds, PTL

\* A restart never finds a Raft state and a snapshot that were not saved
\* together.
THEOREM SavedConsistentHolds == CrashSpec => []SavedConsistent
<1>1. CrashInv => SavedConsistent
  BY DEF CrashInv
<1>2. QED
  BY <1>1, CrashInvariantHolds, PTL

\* While the server is down, no step changes the contents of saved.
LEMMA SavedKept ==
  ASSUME CrashInv, [CrashNext]_allVars, Down
  PROVE  persister'[saved'] = persister[saved]
<1>1. /\ saved = <<"copy", made>> /\ made \in ServerObjs
      /\ saved \in Objects /\ persister \in [Objects -> Contents]
  <2>1. saved = <<"copy", made>> /\ made > 0 /\ made \in 0 .. MaxServers
    BY DEF Down, CrashInv, TesterInv, IInv, TypeOK
  <2>2. made \in ServerObjs
    BY <2>1, LabRpcAssumption DEF ServerObjs
  <2>3. QED
    BY <2>1, <2>2, ObjectFacts DEF CrashInv, CrashTypeOK
<1>2. \A k \in ServerObjs : Inst(k) # saved /\ Inst(k) \in Objects
  BY <1>1, ObjectFacts
<1>3. CASE \E c \in Calls : HandleAndPersist(c)
  <2>1. PICK c \in Calls : HandleAndPersist(c)
    BY <1>3
  <2>2. server[c] \in ServerObjs
    BY <2>1, LabRpcAssumption
    DEF HandleAndPersist, Execute, CrashInv, IInv, TypeOK, CallInv, ServerObjs
  <2>3. QED
    BY <1>1, <1>2, <2>1, <2>2 DEF HandleAndPersist, Save
<1>4. CASE \E k \in ServerObjs : TakeSnapshot(k)
  BY <1>1, <1>2, <1>4 DEF TakeSnapshot, Save
<1>5. CASE StartServer
  <2>1. made + 1 \in ServerObjs
    BY <1>1, <1>5, LabRpcAssumption DEF StartServer, ServerObjs
  <2>2. QED
    BY <1>1, <1>2, <1>5, <2>1 DEF StartServer, Down
<1>6. CASE KillSave
  BY <1>1, <1>2, <1>6 DEF KillSave
<1>7. CASE \/ NetworkStep /\ UNCHANGED crashVars
           \/ TesterNetwork \/ \E e \in Ends : DisconnectEnd(e)
           \/ KillReadRaftState \/ KillReadSnapshot \/ UNCHANGED allVars
           \/ StartAddServer \/ ShutdownServer \/ ShutdownDelete
  BY <1>7
  DEF crashVars, allVars, TesterNetwork, DisconnectEnd, KillReadRaftState,
      KillReadSnapshot, StartAddServer, ShutdownServer, ShutdownDelete
<1>8. ~ShutdownCopy
  BY DEF Down, ShutdownCopy, Tgoto
<1>9. QED
  BY <1>3, <1>4, <1>5, <1>6, <1>7, <1>8 DEF CrashNext

\* From the copy in shutdownServer to the one in startServer, a killed
\* instance cannot touch what the next instance starts from.
THEOREM SavedFrozenHolds == CrashSpec => SavedFrozenWhileDown
<1>1. CrashInv /\ [CrashNext]_allVars
        => [Down => (persister'[saved'] = persister[saved])]_allVars
  BY SavedKept
<1>2. QED
  BY <1>1, CrashInvariantHolds, PTL DEF CrashSpec, SavedFrozenWhileDown

=============================================================================
