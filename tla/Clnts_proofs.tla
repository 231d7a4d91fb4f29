---------------------------- MODULE Clnts_proofs ----------------------------
(* What the clients of a test keep while the tester connects, disconnects  *)
(* and deletes them: for any number of clients and servers.  One lemma per *)
(* action says that it preserves ClntsInv.                                 *)
EXTENDS Clnts, TLAPS

USE DEF clntsVars, clntVars, netVars, endVars, callVars

LEMMA InitHolds == Init => ClntsInv
<1> SUFFICES ASSUME Init
             PROVE  ClntsInv
  OBVIOUS
<1>1. TypeOK
  BY DEF Init, TypeOK, EndNames, Names, Unlocked, Idle
<1>2. /\ EndsFollowClient /\ CallsHaveEnds /\ NothingBeforeMade /\ OpHalfDone
      /\ StaysDisconnected /\ RemovedOnce /\ ConnectedMade
  BY DEF Init, EndsFollowClient, CallsHaveEnds, NothingBeforeMade, OpHalfDone,
         StaysDisconnected, RemovedOnce, ConnectedMade, Unlocked, Idle
<1>3. QED
  BY <1>1, <1>2 DEF ClntsInv

LEMMA MakeClientToKeeps ==
  ASSUME ClntsInv, NEW c \in Clients, NEW list \in {Nil} \cup SUBSET Servers,
         MakeClientTo(c, list)
  PROVE  ClntsInv'
<1>1. /\ ends[c] = {} /\ last[c] = "none" /\ op[c].name = "none"
      /\ \A d \in Clients : d # c => srvs'[d] = srvs[d]
      /\ clerks' = clerks \cup {c}
  BY DEF ClntsInv, NothingBeforeMade, TypeOK, MakeClientTo, Unlocked
<1>2. TypeOK'
  BY DEF MakeClientTo, ClntsInv, TypeOK, EndNames, Names, Idle
<1>3. EndsFollowClient'
  BY <1>1 DEF MakeClientTo, ClntsInv, TypeOK, EndsFollowClient, Locked, allowedL
<1>4. NothingBeforeMade'
  BY DEF MakeClientTo, ClntsInv, TypeOK, NothingBeforeMade, Unlocked
<1>5. StaysDisconnected'
  BY <1>1 DEF MakeClientTo, ClntsInv, StaysDisconnected
<1>6. RemovedOnce'
  BY <1>1 DEF MakeClientTo, ClntsInv, TypeOK, RemovedOnce
<1>7. CallsHaveEnds' /\ ConnectedMade'
  BY DEF MakeClientTo, ClntsInv, CallsHaveEnds, ConnectedMade
<1>8. OpHalfDone'
  BY <1>1 DEF MakeClientTo, ClntsInv, OpHalfDone, allowedL
<1>9. QED
  BY <1>2, <1>3, <1>4, <1>5, <1>6, <1>7, <1>8 DEF ClntsInv

LEMMA CallKeeps ==
  ASSUME ClntsInv, NEW c \in Clients, NEW s \in Servers, Call(c, s)
  PROVE  ClntsInv'
<1>1. /\ c \in made /\ op[c].name = "none"
      /\ ends' = [ends EXCEPT ![c] = @ \cup {s}]
  BY DEF Call, makeEnd, Locked
<1>2. /\ ends'[c] = ends[c] \cup {s}
      /\ \A d \in Clients : d # c => ends'[d] = ends[d]
  BY <1>1 DEF ClntsInv, TypeOK
<1>3. /\ netEnd' \in [EndNames -> {"absent", "made", "deleted"}]
      /\ enabled' \in [EndNames -> BOOLEAN] /\ connected' \in [EndNames -> BOOLEAN]
  <2>1. allowedL(c, s) \in BOOLEAN /\ <<c, s>> \in EndNames
    BY DEF allowedL, EndNames
  <2>2. QED
    BY <2>1 DEF Call, makeEnd, ClntsInv, TypeOK
<1>4. \A d \in Clients, t \in Servers : <<d, t>> # <<c, s>> \/ s \in ends[c] =>
        enabled'[<<d, t>>] = enabled[<<d, t>>] /\ netEnd'[<<d, t>>] = netEnd[<<d, t>>]
  BY DEF Call, makeEnd, ClntsInv, TypeOK, EndNames
<1>5. s \notin ends[c] =>
        enabled'[<<c, s>>] = allowedL(c, s) /\ netEnd'[<<c, s>>] = "made"
  BY DEF Call, makeEnd, ClntsInv, TypeOK, EndNames
<1>6. TypeOK'
  BY <1>1, <1>3 DEF Call, ClntsInv, TypeOK, Idle
<1>7. EndsFollowClient'
  <2> SUFFICES ASSUME NEW d \in clerks \ removing, NEW t \in ends'[d],
                      cfgpc = "running", ~Locked(d)
               PROVE  /\ last[d] \in {"none", "ConnectAll", "DisconnectAll"} =>
                           enabled'[<<d, t>>] = allowedL(d, t)
                      /\ last[d] = "ConnectTo" /\ allowedL(d, t) => enabled'[<<d, t>>]
    BY DEF Call, EndsFollowClient, Locked, allowedL
  <2>1. d \in Clients /\ t \in Servers
    BY <1>2 DEF ClntsInv, TypeOK
  <2>2. CASE d = c /\ t = s /\ s \notin ends[c]
    BY <1>5, <2>2
  <2>3. CASE ~(d = c /\ t = s /\ s \notin ends[c])
    <3>1. t \in ends[d] /\ enabled'[<<d, t>>] = enabled[<<d, t>>]
      BY <1>2, <1>4, <2>1, <2>3
    <3>2. QED
      BY <3>1 DEF ClntsInv, EndsFollowClient
  <2>4. QED
    BY <2>2, <2>3
<1>8. CallsHaveEnds'
  BY DEF Call, makeEnd, ClntsInv, TypeOK, CallsHaveEnds, Idle
<1>9. NothingBeforeMade'
  BY DEF Call, makeEnd, ClntsInv, TypeOK, NothingBeforeMade, Unlocked
<1>10. OpHalfDone'
  <2> SUFFICES ASSUME NEW d \in Clients
               PROVE  /\ op[d].left \subseteq ends'[d]
                      /\ op[d].name = "ConnectAll" =>
                           \A t \in ends'[d] \ op[d].left : enabled'[<<d, t>>]
                      /\ op[d].name = "DisconnectAll" =>
                           \A t \in ends'[d] \ op[d].left : ~enabled'[<<d, t>>]
                      /\ op[d].name = "ConnectTo" =>
                           \A t \in ends'[d] \ op[d].left :
                             allowedL(d, t) => enabled'[<<d, t>>]
    BY DEF Call, OpHalfDone, allowedL
  <2>1. CASE d = c
    BY <1>1, <1>2, <2>1 DEF ClntsInv, OpHalfDone
  <2>2. CASE d # c
    <3>1. \A t \in ends'[d] : t \in Servers /\ enabled'[<<d, t>>] = enabled[<<d, t>>]
      BY <1>2, <1>4, <2>2 DEF ClntsInv, TypeOK
    <3>2. QED
      BY <1>2, <2>2, <3>1 DEF ClntsInv, OpHalfDone
  <2>3. QED
    BY <2>1, <2>2
<1>11. StaysDisconnected'
  <2> SUFFICES ASSUME NEW d \in Clients, last[d] = "DisconnectAll",
                      op[d].name \in {"none", "remove"}
               PROVE  srvs[d] = {} /\ \A t \in ends'[d] : ~enabled'[<<d, t>>]
    BY DEF Call, StaysDisconnected
  <2>1. srvs[d] = {} /\ \A t \in ends[d] : ~enabled[<<d, t>>]
    BY DEF ClntsInv, StaysDisconnected
  <2>2. Nil # {}
    BY ClntsAssumption
  <2>3. ASSUME NEW t \in ends'[d]
        PROVE  ~enabled'[<<d, t>>]
    <3>1. t \in Servers
      BY <1>2 DEF ClntsInv, TypeOK
    <3>2. CASE d = c /\ t = s /\ s \notin ends[c]
      BY <1>5, <2>1, <2>2, <3>2 DEF allowedL
    <3>3. CASE ~(d = c /\ t = s /\ s \notin ends[c])
      BY <1>2, <1>4, <2>1, <3>1, <3>3
    <3>4. QED
      BY <3>2, <3>3
  <2>4. QED
    BY <2>1, <2>3
<1>12. RemovedOnce'
  <2> SUFFICES ASSUME NEW d \in Clients
               PROVE  /\ op[d].name = "remove" => d \in removing
                      /\ d \in removing \/ (d \in clerks /\ cfgpc = "running") =>
                           \A t \in ends'[d] :
                             \/ netEnd'[<<d, t>>] = "made"
                             \/ op[d].name = "remove" /\ t \notin op[d].left
    BY DEF Call, RemovedOnce
  <2>1. /\ op[d].name = "remove" => d \in removing
        /\ d \in removing \/ (d \in clerks /\ cfgpc = "running") =>
             \A t \in ends[d] : \/ netEnd[<<d, t>>] = "made"
                                \/ op[d].name = "remove" /\ t \notin op[d].left
    BY DEF ClntsInv, RemovedOnce
  <2>2. ASSUME NEW t \in ends'[d]
        PROVE  \/ netEnd'[<<d, t>>] = "made"
               \/ t \in ends[d] /\ netEnd'[<<d, t>>] = netEnd[<<d, t>>]
    <3>1. t \in Servers
      BY <1>2 DEF ClntsInv, TypeOK
    <3>2. CASE d = c /\ t = s /\ s \notin ends[c]
      BY <1>5, <3>2
    <3>3. CASE ~(d = c /\ t = s /\ s \notin ends[c])
      BY <1>2, <1>4, <3>1, <3>3
    <3>4. QED
      BY <3>2, <3>3
  <2>3. QED
    BY <2>1, <2>2
<1>13. ConnectedMade'
  <2>1. <<c, s>> \in EndNames
    BY DEF EndNames
  <2>2. CASE s \in ends[c]
    BY <2>2 DEF Call, makeEnd, ClntsInv, ConnectedMade
  <2>3. CASE s \notin ends[c]
    <3>1. \A e \in EndNames :
            /\ e # <<c, s>> => connected'[e] = connected[e] /\ netEnd'[e] = netEnd[e]
            /\ netEnd'[<<c, s>>] = "made"
      BY <2>1, <2>3 DEF Call, makeEnd, ClntsInv, TypeOK
    <3>2. QED
      BY <3>1 DEF ClntsInv, ConnectedMade
  <2>4. QED
    BY <2>2, <2>3
<1>14. QED
  BY <1>6, <1>7, <1>8, <1>9, <1>10, <1>11, <1>12, <1>13 DEF ClntsInv

LEMMA SendKeeps ==
  ASSUME ClntsInv, NEW c \in Clients, Send(c)
  PROVE  ClntsInv'
<1>1. TypeOK'
  BY DEF Send, ClntsInv, TypeOK, EndNames, Names, Idle
<1>2. CallsHaveEnds'
  BY DEF Send, ClntsInv, TypeOK, CallsHaveEnds, Idle
<1>3. /\ EndsFollowClient' /\ NothingBeforeMade' /\ OpHalfDone'
      /\ StaysDisconnected' /\ RemovedOnce' /\ ConnectedMade'
  BY DEF Send, ClntsInv, EndsFollowClient, NothingBeforeMade, OpHalfDone,
         StaysDisconnected, RemovedOnce, ConnectedMade, Locked, allowedL,
         Unlocked
<1>4. QED
  BY <1>1, <1>2, <1>3 DEF ClntsInv

LEMMA ReadKeeps ==
  ASSUME ClntsInv, NEW c \in Clients, readEndnameInfo(c)
  PROVE  ClntsInv'
<1>1. TypeOK'
  BY DEF readEndnameInfo, ClntsInv, TypeOK, EndNames, Names, Idle
<1>2. CallsHaveEnds'
  BY DEF readEndnameInfo, ClntsInv, TypeOK, CallsHaveEnds, Idle
<1>3. /\ EndsFollowClient' /\ NothingBeforeMade' /\ OpHalfDone'
      /\ StaysDisconnected' /\ RemovedOnce' /\ ConnectedMade'
  BY DEF readEndnameInfo, ClntsInv, EndsFollowClient, NothingBeforeMade,
         OpHalfDone, StaysDisconnected, RemovedOnce, ConnectedMade, Locked,
         allowedL, Unlocked
<1>4. QED
  BY <1>1, <1>2, <1>3 DEF ClntsInv

LEMMA DeadKeeps ==
  ASSUME ClntsInv, NEW c \in Clients, isServerDead(c)
  PROVE  ClntsInv'
<1>1. TypeOK'
  BY DEF isServerDead, ClntsInv, TypeOK, EndNames, Names, Idle
<1>2. CallsHaveEnds'
  BY DEF isServerDead, ClntsInv, TypeOK, CallsHaveEnds, Idle
<1>3. /\ EndsFollowClient' /\ NothingBeforeMade' /\ OpHalfDone'
      /\ StaysDisconnected' /\ RemovedOnce' /\ ConnectedMade'
  BY DEF isServerDead, ClntsInv, EndsFollowClient, NothingBeforeMade,
         OpHalfDone, StaysDisconnected, RemovedOnce, ConnectedMade, Locked,
         allowedL, Unlocked
<1>4. QED
  BY <1>1, <1>2, <1>3 DEF ClntsInv

LEMMA LockKeeps ==
  ASSUME ClntsInv, NEW c \in Clients, NEW left \in SUBSET ends[c],
         NEW name \in {"ConnectAll", "Disconnect", "DisconnectAll"},
         name # "Disconnect" => left = ends[c], Lock(c, name, left), UNCHANGED srvs
  PROVE  ClntsInv'
<1>1. TypeOK'
  BY DEF Lock, Locked, ClntsInv, TypeOK, EndNames, Names, Idle
<1>2. EndsFollowClient'
  BY DEF Lock, Locked, ClntsInv, TypeOK, EndsFollowClient, allowedL
<1>3. NothingBeforeMade'
  BY DEF Lock, Locked, ClntsInv, TypeOK, NothingBeforeMade, Unlocked
<1>4. OpHalfDone'
  BY DEF Lock, Locked, ClntsInv, TypeOK, OpHalfDone, allowedL
<1>5. StaysDisconnected'
  BY DEF Lock, Locked, ClntsInv, TypeOK, StaysDisconnected
<1>6. RemovedOnce'
  BY DEF Lock, Locked, ClntsInv, TypeOK, RemovedOnce
<1>7. CallsHaveEnds' /\ ConnectedMade'
  BY DEF Lock, Locked, ClntsInv, CallsHaveEnds, ConnectedMade, Idle
<1>8. QED
  BY <1>1, <1>2, <1>3, <1>4, <1>5, <1>6, <1>7 DEF ClntsInv

LEMMA ConnectToKeeps ==
  ASSUME ClntsInv, NEW c \in Clients, NEW S \in SUBSET Servers, ConnectTo(c, S)
  PROVE  ClntsInv'
<1>1. TypeOK'
  BY DEF ConnectTo, Lock, Locked, ClntsInv, TypeOK, EndNames, Names, Idle
<1>2. EndsFollowClient'
  BY DEF ConnectTo, Lock, Locked, ClntsInv, TypeOK, EndsFollowClient, allowedL
<1>3. NothingBeforeMade'
  BY DEF ConnectTo, Lock, Locked, ClntsInv, TypeOK, NothingBeforeMade,
         Unlocked
<1>4. OpHalfDone'
  <2>1. /\ op'[c] = [name |-> "ConnectTo", left |-> ends[c] \cap S]
        /\ srvs'[c] = S /\ Nil # S
        /\ \A d \in Clients : d # c => op'[d] = op[d] /\ srvs'[d] = srvs[d]
        /\ UNCHANGED <<ends, enabled>>
    BY ClntsAssumption DEF ConnectTo, Lock, ClntsInv, TypeOK
  <2>2. QED
    BY <2>1 DEF ClntsInv, OpHalfDone, allowedL
<1>5. StaysDisconnected'
  BY DEF ConnectTo, Lock, Locked, ClntsInv, TypeOK, StaysDisconnected
<1>6. RemovedOnce'
  BY DEF ConnectTo, Lock, Locked, ClntsInv, TypeOK, RemovedOnce
<1>7. CallsHaveEnds' /\ ConnectedMade'
  BY DEF ConnectTo, Lock, Locked, ClntsInv, CallsHaveEnds, ConnectedMade, Idle
<1>8. QED
  BY <1>1, <1>2, <1>3, <1>4, <1>5, <1>6, <1>7 DEF ClntsInv

LEMMA EnableNextKeeps ==
  ASSUME ClntsInv, NEW c \in Clients, EnableNext(c)
  PROVE  ClntsInv'
<1>1. c \in made
  BY DEF EnableNext, ClntsInv, NothingBeforeMade, Unlocked
<1>2. PICK s \in op[c].left :
        /\ op' = [op EXCEPT ![c].left = @ \ {s}]
        /\ enabled' = [enabled EXCEPT ![<<c, s>>] =
                         op[c].name \in {"ConnectAll", "ConnectTo"}]
  BY DEF EnableNext
<1>3. /\ op'[c].name = op[c].name /\ op'[c].left = op[c].left \ {s}
      /\ \A d \in Clients : d # c => op'[d] = op[d]
  BY <1>2 DEF ClntsInv, TypeOK
<1>4. /\ enabled'[<<c, s>>] = (op[c].name \in {"ConnectAll", "ConnectTo"})
      /\ \A d \in Clients, t \in Servers : d # c \/ t # s =>
           enabled'[<<d, t>>] = enabled[<<d, t>>]
  BY <1>2 DEF ClntsInv, TypeOK, EndNames
<1>5. TypeOK'
  BY DEF EnableNext, ClntsInv, TypeOK, EndNames, Names, Idle
<1>6. EndsFollowClient'
  BY DEF EnableNext, ClntsInv, TypeOK, EndsFollowClient, Locked, allowedL
<1>7. NothingBeforeMade'
  BY <1>1, <1>3 DEF EnableNext, ClntsInv, NothingBeforeMade
<1>8. OpHalfDone'
  <2> SUFFICES ASSUME NEW d \in Clients
               PROVE  /\ op'[d].left \subseteq ends[d]
                      /\ op'[d].name = "ConnectAll" =>
                           \A t \in ends[d] \ op'[d].left : enabled'[<<d, t>>]
                      /\ op'[d].name = "DisconnectAll" =>
                           \A t \in ends[d] \ op'[d].left : ~enabled'[<<d, t>>]
                      /\ op'[d].name = "ConnectTo" =>
                           \A t \in ends[d] \ op'[d].left :
                             allowedL(d, t) => enabled'[<<d, t>>]
    BY DEF EnableNext, OpHalfDone, allowedL
  <2>1. /\ op[d].left \subseteq ends[d] /\ ends[d] \subseteq Servers
        /\ op[d].name = "ConnectAll" =>
             \A t \in ends[d] \ op[d].left : enabled[<<d, t>>]
        /\ op[d].name = "DisconnectAll" =>
             \A t \in ends[d] \ op[d].left : ~enabled[<<d, t>>]
        /\ op[d].name = "ConnectTo" =>
             \A t \in ends[d] \ op[d].left : allowedL(d, t) => enabled[<<d, t>>]
    BY DEF ClntsInv, TypeOK, OpHalfDone
  <2>2. CASE d # c
    BY <1>3, <1>4, <2>1, <2>2
  <2>3. CASE d = c
    <3>1. \A t \in ends[c] \ op'[c].left :
            \/ t \in ends[c] \ op[c].left /\ enabled'[<<c, t>>] = enabled[<<c, t>>]
            \/ t = s
      BY <1>3, <1>4, <2>1, <2>3
    <3>2. QED
      BY <1>3, <1>4, <2>1, <2>3, <3>1
  <2>4. QED
    BY <2>2, <2>3
<1>9. StaysDisconnected'
  BY DEF EnableNext, ClntsInv, TypeOK, StaysDisconnected
<1>10. RemovedOnce'
  BY DEF EnableNext, ClntsInv, TypeOK, RemovedOnce
<1>11. CallsHaveEnds' /\ ConnectedMade'
  BY DEF EnableNext, ClntsInv, CallsHaveEnds, ConnectedMade, Idle
<1>12. QED
  BY <1>5, <1>6, <1>7, <1>8, <1>9, <1>10, <1>11 DEF ClntsInv

LEMMA UnlockKeeps ==
  ASSUME ClntsInv, NEW c \in Clients, Unlock(c)
  PROVE  ClntsInv'
<1>1. c \in made
  BY DEF Unlock, ClntsInv, NothingBeforeMade, Unlocked
<1>2. /\ op[c].left = {} /\ op[c].name \notin {"none", "remove"}
      /\ last'[c] = op[c].name /\ op'[c].name = "none" /\ op'[c].left = {}
      /\ op[c].name = "ConnectAll" => srvs'[c] = Nil
      /\ op[c].name = "DisconnectAll" => srvs'[c] = {}
      /\ op[c].name = "ConnectTo" => srvs'[c] = srvs[c]
  BY DEF Unlock, Unlocked, ClntsInv, TypeOK
<1>3. \A d \in Clients : d # c =>
        op'[d] = op[d] /\ last'[d] = last[d] /\ srvs'[d] = srvs[d]
  BY DEF Unlock, ClntsInv, TypeOK
<1>4. /\ op[c].name = "ConnectAll" => \A s \in ends[c] : enabled[<<c, s>>]
      /\ op[c].name = "DisconnectAll" => \A s \in ends[c] : ~enabled[<<c, s>>]
      /\ op[c].name = "ConnectTo" =>
           \A s \in ends[c] : (srvs[c] = Nil \/ s \in srvs[c]) => enabled[<<c, s>>]
  BY <1>2 DEF ClntsInv, OpHalfDone, allowedL
<1>5. TypeOK'
  BY DEF Unlock, ClntsInv, TypeOK, EndNames, Names, Idle, Unlocked
<1>6. EndsFollowClient'
  <2> SUFFICES ASSUME NEW d \in clerks \ removing, NEW s \in ends[d],
                      cfgpc = "running", ~Locked(d)'
               PROVE  /\ last'[d] \in {"none", "ConnectAll", "DisconnectAll"} =>
                           enabled[<<d, s>>] = (srvs'[d] = Nil \/ s \in srvs'[d])
                      /\ last'[d] = "ConnectTo" /\ (srvs'[d] = Nil \/ s \in srvs'[d]) =>
                           enabled[<<d, s>>]
    BY DEF EndsFollowClient, allowedL, Unlock
  <2>1. d \in Clients /\ s \in Servers /\ enabled[<<d, s>>] \in BOOLEAN
    BY DEF ClntsInv, TypeOK, EndNames
  <2>2. CASE d # c
    <3>1. ~Locked(d)
      BY <1>3, <2>1, <2>2 DEF Locked
    <3>2. QED
      BY <1>3, <2>1, <2>2, <3>1 DEF ClntsInv, EndsFollowClient, allowedL
  <2>3. CASE d = c /\ op[c].name \in {"ConnectAll", "ConnectTo"}
    BY <1>2, <1>4, <2>1, <2>3
  <2>4. CASE d = c /\ op[c].name = "DisconnectAll"
    <3>1. Nil # {}
      BY ClntsAssumption
    <3>2. QED
      BY <1>2, <1>4, <2>1, <2>4, <3>1
  <2>5. CASE d = c /\ op[c].name \notin {"ConnectAll", "ConnectTo", "DisconnectAll"}
    BY <1>2, <2>5
  <2>6. QED
    BY <2>2, <2>3, <2>4, <2>5
<1>7. NothingBeforeMade'
  BY <1>1, <1>3 DEF Unlock, ClntsInv, NothingBeforeMade
<1>8. OpHalfDone'
  BY DEF Unlock, ClntsInv, TypeOK, OpHalfDone, allowedL, Unlocked
<1>9. StaysDisconnected'
  BY <1>2, <1>3, <1>4 DEF Unlock, ClntsInv, StaysDisconnected
<1>10. RemovedOnce'
  BY DEF Unlock, ClntsInv, TypeOK, RemovedOnce, Unlocked
<1>11. CallsHaveEnds' /\ ConnectedMade'
  BY DEF Unlock, ClntsInv, CallsHaveEnds, ConnectedMade, Idle
<1>12. QED
  BY <1>5, <1>6, <1>7, <1>8, <1>9, <1>10, <1>11 DEF ClntsInv

LEMMA DeleteKeeps ==
  ASSUME ClntsInv, NEW c \in Clients, DeleteClient(c)
  PROVE  ClntsInv'
<1>1. TypeOK'
  BY DEF DeleteClient, ClntsInv, TypeOK, EndNames, Names, Idle
<1>2. EndsFollowClient'
  BY DEF DeleteClient, ClntsInv, TypeOK, EndsFollowClient, Locked, allowedL
<1>3. RemovedOnce'
  BY DEF DeleteClient, ClntsInv, TypeOK, RemovedOnce
<1>4. /\ CallsHaveEnds' /\ NothingBeforeMade' /\ OpHalfDone'
      /\ StaysDisconnected' /\ ConnectedMade'
  BY DEF DeleteClient, ClntsInv, CallsHaveEnds, NothingBeforeMade, OpHalfDone,
         StaysDisconnected, ConnectedMade, Idle, Unlocked, allowedL
<1>5. QED
  BY <1>1, <1>2, <1>3, <1>4 DEF ClntsInv

LEMMA CleanupKeeps ==
  ASSUME ClntsInv, Cleanup
  PROVE  ClntsInv'
<1>1. TypeOK'
  BY DEF Cleanup, ClntsInv, TypeOK, EndNames, Names, Idle
<1>2. EndsFollowClient'
  BY DEF Cleanup, ClntsInv, TypeOK, EndsFollowClient, Locked, allowedL
<1>3. RemovedOnce'
  BY DEF Cleanup, ClntsInv, TypeOK, RemovedOnce
<1>4. ConnectedMade'
  BY DEF Cleanup, ClntsInv, TypeOK, ConnectedMade
<1>5. /\ CallsHaveEnds' /\ NothingBeforeMade' /\ OpHalfDone'
      /\ StaysDisconnected'
  BY DEF Cleanup, ClntsInv, CallsHaveEnds, NothingBeforeMade, OpHalfDone,
         StaysDisconnected, Idle, Unlocked, allowedL
<1>6. QED
  BY <1>1, <1>2, <1>3, <1>4, <1>5 DEF ClntsInv

LEMMA removeKeeps ==
  ASSUME ClntsInv, NEW c \in Clients, remove(c)
  PROVE  ClntsInv'
<1>1. TypeOK'
  BY DEF remove, Locked, ClntsInv, TypeOK, EndNames, Names, Idle
<1>2. EndsFollowClient'
  BY DEF remove, Locked, ClntsInv, TypeOK, EndsFollowClient, allowedL
<1>3. NothingBeforeMade'
  BY DEF remove, Locked, ClntsInv, TypeOK, NothingBeforeMade, Unlocked
<1>4. OpHalfDone'
  BY DEF remove, Locked, ClntsInv, TypeOK, OpHalfDone, allowedL
<1>5. StaysDisconnected'
  BY DEF remove, Locked, ClntsInv, TypeOK, StaysDisconnected
<1>6. RemovedOnce'
  BY DEF remove, Locked, ClntsInv, TypeOK, RemovedOnce
<1>7. CallsHaveEnds' /\ ConnectedMade'
  BY DEF remove, Locked, ClntsInv, CallsHaveEnds, ConnectedMade, Idle
<1>8. QED
  BY <1>1, <1>2, <1>3, <1>4, <1>5, <1>6, <1>7 DEF ClntsInv

LEMMA DeleteNextKeeps ==
  ASSUME ClntsInv, NEW c \in Clients, DeleteNext(c)
  PROVE  ClntsInv'
<1>1. c \in made /\ c \in removing
  BY DEF DeleteNext, ClntsInv, NothingBeforeMade, RemovedOnce, Unlocked
<1>2. PICK s \in op[c].left : DeleteEnd(c, s) /\ op' = [op EXCEPT ![c].left = @ \ {s}]
  BY DEF DeleteNext
<1>3. /\ op'[c].name = "remove" /\ op'[c].left = op[c].left \ {s}
      /\ \A d \in Clients : d # c => op'[d] = op[d]
  BY <1>2 DEF DeleteNext, ClntsInv, TypeOK
<1>4. \A d \in Clients, t \in Servers : d # c =>
        enabled'[<<d, t>>] = enabled[<<d, t>>]
  BY <1>2 DEF DeleteEnd, ClntsInv, TypeOK, EndNames
<1>5. TypeOK'
  BY DEF DeleteNext, DeleteEnd, ClntsInv, TypeOK, EndNames, Names, Idle
<1>6. EndsFollowClient'
  BY <1>1, <1>3, <1>4 DEF DeleteNext, ClntsInv, TypeOK, EndsFollowClient,
                          Locked, allowedL
<1>7. NothingBeforeMade'
  BY <1>1, <1>3 DEF DeleteNext, ClntsInv, NothingBeforeMade
<1>8. OpHalfDone'
  BY DEF DeleteNext, DeleteEnd, ClntsInv, TypeOK, OpHalfDone, allowedL
<1>9. StaysDisconnected'
  BY DEF DeleteNext, DeleteEnd, ClntsInv, TypeOK, StaysDisconnected
<1>10. RemovedOnce'
  BY DEF DeleteNext, DeleteEnd, ClntsInv, TypeOK, RemovedOnce
<1>11. CallsHaveEnds' /\ ConnectedMade'
  <2>1. /\ <<c, s>> \in EndNames => ~connected'[<<c, s>>]
        /\ \A e \in EndNames : e # <<c, s>> =>
             connected'[e] = connected[e] /\ netEnd'[e] = netEnd[e]
    BY <1>2 DEF DeleteEnd, ClntsInv, TypeOK
  <2>2. ConnectedMade'
    BY <2>1 DEF ClntsInv, ConnectedMade
  <2>3. CallsHaveEnds'
    BY DEF DeleteNext, ClntsInv, CallsHaveEnds
  <2>4. QED
    BY <2>2, <2>3
<1>12. QED
  BY <1>5, <1>6, <1>7, <1>8, <1>9, <1>10, <1>11 DEF ClntsInv

LEMMA RemovedKeeps ==
  ASSUME ClntsInv, NEW c \in Clients, Removed(c)
  PROVE  ClntsInv'
<1>1. TypeOK'
  BY DEF Removed, ClntsInv, TypeOK, EndNames, Names, Idle, Unlocked
<1>2. EndsFollowClient'
  BY DEF Removed, ClntsInv, TypeOK, EndsFollowClient, Locked, allowedL,
         Unlocked
<1>3. NothingBeforeMade'
  BY DEF Removed, ClntsInv, TypeOK, NothingBeforeMade, Unlocked
<1>4. OpHalfDone'
  BY DEF Removed, ClntsInv, TypeOK, OpHalfDone, allowedL, Unlocked
<1>5. StaysDisconnected'
  BY DEF Removed, ClntsInv, TypeOK, StaysDisconnected, Unlocked
<1>6. RemovedOnce'
  BY DEF Removed, ClntsInv, TypeOK, RemovedOnce, Unlocked
<1>7. CallsHaveEnds' /\ ConnectedMade'
  BY DEF Removed, ClntsInv, CallsHaveEnds, ConnectedMade, Idle
<1>8. QED
  BY <1>1, <1>2, <1>3, <1>4, <1>5, <1>6, <1>7 DEF ClntsInv

LEMMA CleanedKeeps ==
  ASSUME ClntsInv, ClntsCleaned \/ GroupsCleanup \/ NetCleanup
  PROVE  ClntsInv'
<1>1. TypeOK'
  BY DEF ClntsCleaned, GroupsCleanup, NetCleanup, ClntsInv, TypeOK, EndNames,
         Names, Idle
<1>2. EndsFollowClient'
  BY DEF ClntsCleaned, GroupsCleanup, NetCleanup, ClntsInv, TypeOK,
         EndsFollowClient, Locked, allowedL
<1>3. RemovedOnce'
  BY DEF ClntsCleaned, GroupsCleanup, NetCleanup, ClntsInv, TypeOK,
         RemovedOnce
<1>4. ConnectedMade'
  BY DEF ClntsCleaned, GroupsCleanup, NetCleanup, ClntsInv, TypeOK, ConnectedMade
<1>5. /\ CallsHaveEnds' /\ NothingBeforeMade' /\ OpHalfDone'
      /\ StaysDisconnected'
  BY DEF ClntsCleaned, GroupsCleanup, NetCleanup, ClntsInv, CallsHaveEnds,
         NothingBeforeMade, OpHalfDone, StaysDisconnected, Idle, Unlocked, allowedL
<1>6. QED
  BY <1>1, <1>2, <1>3, <1>4, <1>5 DEF ClntsInv

-----------------------------------------------------------------------------

LEMMA NextKeeps ==
  ASSUME ClntsInv, [Next]_vars
  PROVE  ClntsInv'
<1>1. ASSUME NEW c \in Clients, Client(c)
      PROVE  ClntsInv'
  <2>1. CASE \/ \E list \in {Nil} \cup SUBSET Servers : MakeClientTo(c, list)
             \/ \E s \in Servers : Call(c, s)
             \/ Send(c) \/ readEndnameInfo(c) \/ isServerDead(c)
    BY <2>1, MakeClientToKeeps, CallKeeps, SendKeeps, ReadKeeps, DeadKeeps
  <2>2. CASE ConnectAll(c) \/ DisconnectAll(c)
    <3>1. ends[c] \in SUBSET ends[c]
      OBVIOUS
    <3>2. QED
      BY <2>2, <3>1, LockKeeps DEF ConnectAll, DisconnectAll
  <2>3. ASSUME NEW s \in Servers, Disconnect(c, s)
        PROVE  ClntsInv'
    <3>1. ends[c] \cap {s} \in SUBSET ends[c]
      OBVIOUS
    <3>2. QED
      BY <2>3, <3>1, LockKeeps DEF Disconnect
  <2>4. CASE \/ \E S \in SUBSET Servers : ConnectTo(c, S)
             \/ EnableNext(c) \/ Unlock(c)
    BY <2>4, ConnectToKeeps, EnableNextKeeps, UnlockKeeps
  <2>5. CASE DeleteClient(c) \/ remove(c) \/ DeleteNext(c) \/ Removed(c)
    BY <2>5, DeleteKeeps, removeKeeps, DeleteNextKeeps, RemovedKeeps
  <2>6. QED
    BY <1>1, <2>1, <2>2, <2>3, <2>4, <2>5 DEF Client
<1>2. CASE Cleanup \/ ClntsCleaned \/ GroupsCleanup \/ NetCleanup
  BY <1>2, CleanupKeeps, CleanedKeeps
<1>3. CASE UNCHANGED vars
  BY <1>3 DEF vars, ClntsInv, TypeOK, EndsFollowClient, CallsHaveEnds,
              NothingBeforeMade, OpHalfDone, StaysDisconnected, RemovedOnce,
              ConnectedMade, Locked, allowedL
<1>4. QED
  BY <1>1, <1>2, <1>3 DEF Next

\* For any clients and servers: while a client is connected and disconnected as a
\* whole, each of its ends is enabled exactly if the client may reach the server,
\* whatever calls make ends in the middle of those operations.
THEOREM ClntsInvHolds == Spec => []ClntsInv
BY InitHolds, NextKeeps, PTL DEF Spec

\* DeleteEnd() finds every end that remove() deletes, whichever of DeleteClient()
\* and Cleanup() gets to the client, so log.Fatalf is never reached.
THEOREM NoFatalDeleteHolds == Spec => []NoFatalDelete
<1>1. Init => NoFatalDelete
  BY DEF Init, NoFatalDelete
<1>2. ClntsInv /\ NoFatalDelete /\ [Next]_vars => NoFatalDelete'
  <2> SUFFICES ASSUME ClntsInv, NoFatalDelete, [Next]_vars
               PROVE  NoFatalDelete'
    OBVIOUS
  <2>1. ASSUME NEW c \in Clients, DeleteNext(c)
        PROVE  ~fatal'
    <3>1. PICK s \in op[c].left : DeleteEnd(c, s)
      BY <2>1 DEF DeleteNext
    <3>2. op[c].name = "remove"
      BY <2>1 DEF DeleteNext
    <3>3. c \in removing /\ s \in ends[c]
      BY <3>2 DEF ClntsInv, RemovedOnce, OpHalfDone
    <3>4. netEnd[<<c, s>>] = "made"
      BY <3>3 DEF ClntsInv, RemovedOnce
    <3>5. QED
      BY <3>1, <3>4 DEF DeleteEnd, NoFatalDelete
  <2>2. CASE ~\E c \in Clients : DeleteNext(c)
    <3>1. fatal' = fatal
      BY <2>2 DEF Next, Client, vars, MakeClientTo, Call, makeEnd, Send,
                  readEndnameInfo, isServerDead, Lock, ConnectAll,
                  ConnectTo, Disconnect, DisconnectAll, EnableNext, Unlock, DeleteClient, remove, Removed,
                  Cleanup, ClntsCleaned, GroupsCleanup, NetCleanup
    <3>2. QED
      BY <3>1 DEF NoFatalDelete
  <2>3. QED
    BY <2>1, <2>2 DEF NoFatalDelete
<1>3. QED
  BY <1>1, <1>2, ClntsInvHolds, PTL DEF Spec

\* Only these steps let a request or an answer pass.
LEMMA PassingSteps ==
  ASSUME ClntsInv, [Next]_vars, NEW c \in Clients
  PROVE  /\ call'[c][1] = "passed" /\ call[c][1] # "passed" => readEndnameInfo(c)
         /\ outcome'[c] \notin {outcome[c], Nil} => isServerDead(c)
<1>1. ASSUME NEW d \in Clients, NEW s \in Servers, Call(d, s)
      PROVE  outcome'[c] \in {outcome[c], Nil} /\ call'[c] \in {call[c], <<"ended", s>>}
  BY <1>1 DEF Call, ClntsInv, TypeOK
<1>2. ASSUME NEW d \in Clients, Send(d)
      PROVE  /\ outcome' = outcome
             /\ call'[c] \in {call[c], Idle} \/ call'[c][1] = "accepted"
  BY <1>2 DEF Send, ClntsInv, TypeOK
<1>3. ASSUME NEW d \in Clients, readEndnameInfo(d)
      PROVE  outcome' = outcome /\ (d = c \/ call'[c] = call[c])
  BY <1>3 DEF readEndnameInfo, ClntsInv, TypeOK
<1>4. ASSUME NEW d \in Clients, isServerDead(d)
      PROVE  /\ d = c \/ outcome'[c] = outcome[c]
             /\ call'[c] \in {call[c], Idle}
  BY <1>4 DEF isServerDead, ClntsInv, TypeOK
<1>5. \/ call' = call /\ outcome' = outcome
      \/ \E d \in Clients : \/ \E s \in Servers : Call(d, s)
                            \/ Send(d) \/ readEndnameInfo(d) \/ isServerDead(d)
  BY DEF Next, Client, vars, MakeClientTo, Lock, ConnectAll, ConnectTo,
         Disconnect, DisconnectAll, EnableNext, Unlock, DeleteClient, remove,
         DeleteNext, Removed, Cleanup, ClntsCleaned, GroupsCleanup, NetCleanup
<1>6. QED
  BY <1>1, <1>2, <1>3, <1>4, <1>5 DEF Idle

\* What readEndnameInfo() and isServerDead() need of the end.
LEMMA PassingEnds ==
  ASSUME ClntsInv, NEW c \in Clients
  PROVE  /\ readEndnameInfo(c) /\ call'[c][1] = "passed" =>
              /\ call[c][2] \in ends[c]
              /\ enabled[<<c, call[c][2]>>] /\ connected[<<c, call[c][2]>>]
         /\ isServerDead(c) /\ outcome'[c] # Nil =>
              call[c][2] \in ends[c] /\ enabled[<<c, call[c][2]>>]
<1>1. call[c][1] \in {"accepted", "passed"} => call[c][2] \in ends[c]
  BY DEF ClntsInv, CallsHaveEnds, Idle
<1>2. ASSUME readEndnameInfo(c), call'[c][1] = "passed"
      PROVE  /\ enabled[<<c, call[c][2]>>] /\ connected[<<c, call[c][2]>>]
             /\ call[c][1] = "accepted"
  BY <1>2 DEF readEndnameInfo, ClntsInv, TypeOK, Idle
<1>3. ASSUME isServerDead(c), outcome'[c] # Nil
      PROVE  enabled[<<c, call[c][2]>>] /\ call[c][1] = "passed"
  BY <1>3 DEF isServerDead, ClntsInv, TypeOK
<1>4. QED
  BY <1>1, <1>2, <1>3

\* After DisconnectAll() has returned the network lets no request of the client
\* pass, those included that it had accepted before, and no answer to one that
\* had passed before.
THEOREM DisconnectedCutHolds == Spec => DisconnectedCut
<1> DEFINE A == \A c \in Clients : last[c] = "DisconnectAll" /\ ~Locked(c) =>
                  /\ call'[c][1] = "passed" => call[c][1] = "passed"
                  /\ outcome'[c] \in {outcome[c], Nil}
<1>1. ClntsInv /\ [Next]_vars => A
  <2> SUFFICES ASSUME ClntsInv, [Next]_vars, NEW c \in Clients,
                      last[c] = "DisconnectAll", ~Locked(c)
               PROVE  /\ call'[c][1] = "passed" => call[c][1] = "passed"
                      /\ outcome'[c] \in {outcome[c], Nil}
    OBVIOUS
  <2>1. \A s \in ends[c] : ~enabled[<<c, s>>]
    BY DEF ClntsInv, StaysDisconnected, Locked
  <2>2. QED
    BY <2>1, PassingSteps, PassingEnds
<1>2. ClntsInv /\ [Next]_vars => [A]_vars
  BY <1>1
<1>3. QED
  BY <1>2, ClntsInvHolds, PTL DEF Spec, DisconnectedCut

\* No request passes on an end that DeleteEnd() has deleted, whatever calls
\* Enable() on its name afterwards.
THEOREM DeletedPassesNoneHolds == Spec => DeletedPassesNone
<1> DEFINE A == \A c \in Clients : call[c][1] = "accepted" /\ call'[c][1] = "passed" =>
                  netEnd[<<c, call[c][2]>>] = "made"
<1>1. ClntsInv /\ [Next]_vars => A
  <2> SUFFICES ASSUME ClntsInv, [Next]_vars, NEW c \in Clients,
                      call[c][1] = "accepted", call'[c][1] = "passed"
               PROVE  netEnd[<<c, call[c][2]>>] = "made"
    OBVIOUS
  <2>1. call[c][2] \in ends[c] /\ connected[<<c, call[c][2]>>]
    BY PassingSteps, PassingEnds
  <2>2. <<c, call[c][2]>> \in EndNames
    BY <2>1 DEF ClntsInv, TypeOK, EndNames
  <2>3. QED
    BY <2>1, <2>2 DEF ClntsInv, ConnectedMade
<1>2. ClntsInv /\ [Next]_vars => [A]_vars
  BY <1>1
<1>3. QED
  BY <1>2, ClntsInvHolds, PTL DEF Spec, DeletedPassesNone
=============================================================================
