---------------------------- MODULE ServerGroup ----------------------------
(***************************************************************************)
(* Who can talk to whom: the connectivity that ServerGrp (tester1/group.go *)
(* and tester1/srv.go) keeps among the servers of a group, through         *)
(* partitions, shutdowns and restarts.                                     *)
(*                                                                         *)
(* Every start of a server makes a fresh set of ClientEnds; an instance    *)
(* that was shut down keeps the ends it had.  An operation of the tester   *)
(* is a program of calls to connect(), disconnect(), DeleteServer() and    *)
(* startServer(), run one call at a time; todo holds the rest of it.       *)
(***************************************************************************)
EXTENDS Integers, Sequences, FiniteSets

CONSTANTS
  N,              \* number of servers in the group
  MaxGen          \* bound: sets of ClientEnds made for one server

ASSUME GroupAssumption == N \in Nat \ {0} /\ MaxGen \in Nat \ {0}

VARIABLES
  connected,      \* the servers i with sg.connected[i]
  registered,     \* the servers that the network has an object for
  gen,            \* gen[i]: the set of ends that sg.srvs[i] holds
  on,             \* the enabled ends <<i, g, j>>: from i's g-th set, to j
  todo,           \* the calls that the running operation still has to make
  goal            \* history: what the last completed operation was to do

groupVars == <<connected, registered, gen, on, todo, goal>>

Servers == 0 .. N - 1
AllEnds == Servers \X (0 .. MaxGen) \X Servers
End(i, j) == <<i, gen[i], j>>
all == [k \in 1 .. N |-> k - 1]

Prims ==
  [call : {"connect", "disconnect"}, i : Servers, to : SUBSET Servers]
    \cup [call : {"deleteServer", "startServer"}, i : Servers]
Goals == {<<"none">>, <<"all">>} \cup ({"split"} \X (SUBSET Servers) \X (-1 .. N - 1))

GroupTypeOK ==
  /\ connected \subseteq Servers
  /\ registered \subseteq Servers
  /\ gen \in [Servers -> 0 .. MaxGen]
  /\ on \subseteq AllEnds
  /\ todo \in Seq(Prims)
  /\ goal \in Goals

\* makeSrvGrp(): ends are made, nothing is connected or started.
GroupInit ==
  /\ connected = {}
  /\ registered = {}
  /\ gen = [i \in Servers |-> 0]
  /\ on = {}
  /\ todo = <<>>
  /\ goal = <<"none">>

-----------------------------------------------------------------------------
(* The calls an operation consists of.                                     *)

\* connect(i, to): only links whose two sides are marked connected.
connect(i, to) ==
  LET up == to \cap (connected \cup {i}) IN
  /\ connected' = connected \cup {i}
  /\ on' = on \cup {End(i, j) : j \in up} \cup {End(j, i) : j \in up}
  /\ UNCHANGED <<registered, gen>>

\* Mutant of disconnect: the incoming ends are forgotten.
disconnectOutgoing(i, from) ==
  /\ connected' = connected \ {i}
  /\ on' = on \ {End(i, j) : j \in from}
  /\ UNCHANGED <<registered, gen>>

disconnect(i, from) ==
  /\ connected' = connected \ {i}
  /\ on' = on \ ({End(i, j) : j \in from} \cup {End(j, i) : j \in from})
  /\ UNCHANGED <<registered, gen>>

\* DeleteServer() and shutdownServer(), whose work on the Persister and the
\* services is in CrashRestart; the ends stay as they are.
deleteServer(i) ==
  /\ registered' = registered \ {i}
  /\ UNCHANGED <<connected, gen, on>>

\* startServer(): fresh ends, not enabled; then mks() and AddServer().
startServer(i) ==
  /\ gen' = [gen EXCEPT ![i] = @ + 1]
  /\ registered' = registered \cup {i}
  /\ UNCHANGED <<connected, on>>

Step ==
  /\ todo # <<>>
  /\ LET p == Head(todo) IN
       \/ p.call = "connect" /\ connect(p.i, p.to)
       \/ p.call = "disconnect" /\ disconnect(p.i, p.to)
       \/ p.call = "deleteServer" /\ deleteServer(p.i)
       \/ p.call = "startServer" /\ startServer(p.i)
  /\ todo' = Tail(todo)
  /\ UNCHANGED goal

-----------------------------------------------------------------------------
(* The operations of the tester.                                           *)

Con(i, to) == [call |-> "connect", i |-> i, to |-> to]
Dis(i, from) == [call |-> "disconnect", i |-> i, to |-> from]
Del(i) == [call |-> "deleteServer", i |-> i]
Start(i) == [call |-> "startServer", i |-> i]

conAll == [k \in 1 .. N |-> Con(all[k], Servers)]
startAll == [k \in 1 .. N |-> Start(all[k])] \o conAll

Begin(program, g) ==
  /\ todo = <<>>
  /\ todo' = program
  /\ goal' = g
  /\ UNCHANGED <<connected, registered, gen, on>>

CanStart(i) == i \notin registered /\ gen[i] < MaxGen

\* The tests call ConnectAll() of a running group, connect a server after
\* they have restarted it if need be, and partition a running group.
ConnectAll == registered = Servers /\ Begin(conAll, <<"all">>)
ConnectOne(i) == i \in registered /\ Begin(<<Con(i, Servers)>>, <<"none">>)
DisconnectAll(i) == Begin(<<Dis(i, Servers)>>, <<"none">>)

StartServer(i) == CanStart(i) /\ Begin(<<Start(i)>>, <<"none">>)

StartServers ==
  /\ \A i \in Servers : CanStart(i)
  /\ Begin(startAll, <<"all">>)

ShutdownServer(i) == Begin(<<Dis(i, Servers), Del(i)>>, <<"none">>)

\* restart(i) of the Raft tests: StartServer(i), then ConnectAll().
restart(i) == CanStart(i) /\ Begin(<<Start(i)>> \o conAll, <<"all">>)

Shutdown ==
  Begin([k \in 1 .. 2 * N |->
           LET i == all[(k + 1) \div 2]
           IN IF k % 2 = 1 THEN Dis(i, Servers) ELSE Del(i)], <<"none">>)

Members(p) == {p[k] : k \in 1 .. Len(p)}

\* Mutant of Side: the sides are joined but not cut off from each other.
SideUncut(p, own, other) == [k \in 1 .. Len(p) |-> Con(p[k], own)]

\* One side of a partition: cut off from the other side, joined to its own.
Side(p, own, other) ==
  [k \in 1 .. 2 * Len(p) |->
     LET i == p[(k + 1) \div 2]
     IN IF k % 2 = 1 THEN Dis(i, other) ELSE Con(i, own)]

\* l is the leader that the partition is to isolate, -1 for none.
Partition(p1, p2, l) ==
  LET P1 == Members(p1)
      P2 == Members(p2)
  IN /\ registered = Servers
     /\ Begin(Side(p1, P1, P2) \o Side(p2, P2, P1), <<"split", P1, l>>)

\* The members of S in ascending order.
Slices(S) ==
  {p \in [1 .. Cardinality(S) -> S] :
     Members(p) = S /\ \A k, m \in DOMAIN p : k < m => p[k] < p[m]}

\* A random split, as kvtest's Partitioner draws it: two ascending slices.
RandomPartition(S) ==
  \E p1 \in Slices(S), p2 \in Slices(Servers \ S) : Partition(p1, p2, -1)

\* The servers other than l, in ascending order.
Followers(l) == [k \in 1 .. N - 1 |-> IF k <= l THEN k - 1 ELSE k]

\* Mutant of MakePartition: the first slice is one short.
MakePartitionShort(l) ==
  LET half == N \div 2
  IN <<SubSeq(Followers(l), 1, half),
       Append(SubSeq(Followers(l), half + 1, N - 1), l)>>

\* The first N/2+1 servers other than the leader l, and the others with l.
\* The two slices add up to N only when N is odd, as it is in every test.
MakePartition(l) ==
  LET half == N \div 2 + 1
  IN <<SubSeq(Followers(l), 1, half),
       Append(SubSeq(Followers(l), half + 1, N - 1), l)>>

PartitionLeader(l) ==
  /\ N % 2 = 1 /\ N > 1
  /\ Partition(MakePartition(l)[1], MakePartition(l)[2], l)

\* MakeGroupStart() goes from makeSrvGrp() straight to StartServers().
GroupNext ==
  \/ Step
  \/ StartServers
  \/ /\ \A i \in Servers : gen[i] > 0
     /\ \/ ConnectAll \/ Shutdown
        \/ \E i \in Servers :
             \/ ConnectOne(i) \/ DisconnectAll(i)
             \/ StartServer(i) \/ ShutdownServer(i) \/ restart(i)
             \/ PartitionLeader(i)
        \/ \E S \in SUBSET Servers : RandomPartition(S)

GroupSpec == GroupInit /\ [][GroupNext]_groupVars

-----------------------------------------------------------------------------
(* Properties.                                                             *)

Idle == todo = <<>>
Linked(i, j) == End(i, j) \in on

\* When no operation is running, a server that is not marked connected has
\* no enabled end, in either direction, to any server of the group, and so
\* tests may take connected for the set of servers that can take part.
DisconnectedIsolated ==
  Idle => \A i \in Servers \ connected, j \in Servers :
            ~Linked(i, j) /\ ~Linked(j, i)

\* After ConnectAll (also as the end of StartServers and restart) every
\* server has an enabled end to every other, whichever were cut off before
\* and although connect() skips the servers that are not yet marked.
AllConnected ==
  Idle /\ goal = <<"all">> => \A i, j \in Servers : Linked(i, j)

\* After Partition(p1, p2) two servers are linked exactly when they are on
\* the same side, whatever was connected, cut off or shut down before.
PartitionExact ==
  Idle /\ goal[1] = "split" =>
    \A i, j \in Servers : Linked(i, j) <=> (i \in goal[2] <=> j \in goal[2])

\* After Partition(MakePartition(l)) the leader l can reach fewer than half of
\* the servers, itself included, and the servers it cannot reach can all
\* reach each other and are enough to go on without it.
LeaderInMinority ==
  Idle /\ goal[1] = "split" /\ goal[3] # -1 =>
    LET reach == {j \in Servers : Linked(goal[3], j)}
        rest == Servers \ reach
    IN /\ 2 * Cardinality(reach) < N
       /\ \A i, j \in rest : Linked(i, j)

-----------------------------------------------------------------------------
(* The inductive invariant: what holds between the calls of an operation.  *)

\* startServer() finds no end of the set that it makes, and stays in bounds.
EndsKnown == \A e \in on : e[2] <= gen[e[1]]
StartsNew ==
  \A k \in 1 .. Len(todo) : todo[k].call = "startServer" =>
    /\ gen[todo[k].i] < MaxGen
    /\ \A m \in 1 .. Len(todo) :
         todo[m].call = "startServer" /\ todo[m].i = todo[k].i => m = k

\* A server that is cut off from some others only is connected right after.
CutsRejoin ==
  \A k \in 1 .. Len(todo) : todo[k].call = "disconnect" /\ todo[k].to # Servers =>
    /\ k + 1 \in 1 .. Len(todo)
    /\ todo[k + 1].call = "connect" /\ todo[k + 1].i = todo[k].i

\* In between, and only then, it has links without being marked connected.
UnmarkedIsolated ==
  \A i \in Servers \ connected, j \in Servers : Linked(i, j) \/ Linked(j, i) =>
    todo # <<>> /\ todo[1].call = "connect" /\ todo[1].i = i

\* When ConnectAll() has n calls left, the first N - n servers are connected.
AllProgress ==
  goal = <<"all">> =>
    LET n == Len(todo) IN
    /\ \A k \in 1 .. n : IF k > n - N THEN todo[k] = Con(k - 1 - (n - N), Servers)
                         ELSE todo[k].call = "startServer"
    /\ \A i, j \in Servers : i < N - n /\ j < N - n => i \in connected /\ Linked(i, j)

Own(i) == IF i \in goal[2] THEN goal[2] ELSE Servers \ goal[2]
Waits(i) == \E k \in 1 .. Len(todo) : todo[k].i = i
CutWaits(i) == \E k \in 1 .. Len(todo) : todo[k].call = "disconnect" /\ todo[k].i = i

\* Partition() has cut off the servers that it has come to from the other side,
\* and linked those that it is done with to each other.
SplitProgress ==
  goal[1] = "split" =>
    /\ \A k \in 1 .. Len(todo) :
         \/ todo[k].call = "connect" /\ todo[k].to = Own(todo[k].i)
         \/ todo[k].call = "disconnect" /\ todo[k].to = Servers \ Own(todo[k].i)
    /\ \A i \in Servers : ~CutWaits(i) =>
         \A j \in Servers \ Own(i) : ~Linked(i, j) /\ ~Linked(j, i)
    /\ \A i \in Servers : ~Waits(i) =>
         /\ i \in connected
         /\ \A j \in Own(i) : ~Waits(j) => Linked(i, j)

LeaderGoal ==
  goal[1] = "split" /\ goal[3] # -1 =>
    goal[3] \in Servers \ goal[2] /\ 2 * Cardinality(Servers \ goal[2]) < N

\* The types of the group's state, what holds when no operation is running, and
\* what holds in the middle of one.
GroupInv ==
  /\ GroupTypeOK /\ DisconnectedIsolated /\ AllConnected
  /\ EndsKnown /\ StartsNew /\ CutsRejoin /\ UnmarkedIsolated
  /\ AllProgress /\ SplitProgress /\ LeaderGoal

-----------------------------------------------------------------------------
(* What a comment of the code says and the code does not do.               *)

\* "Shutdown a server by isolating it": from its shutdown on, an instance has
\* no enabled end to any server.
ShutdownIsolates ==
  Idle => \A i \in Servers, g \in 1 .. MaxGen, j \in Servers :
            (g < gen[i] \/ i \notin registered) => <<i, g, j>> \notin on
=============================================================================
