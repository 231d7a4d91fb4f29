------------------------- MODULE ServerGroup_proofs -------------------------
(* That the links of a group are as the last operation on it promises, for *)
(* any number of servers and any sequence of operations; and, at the end,  *)
(* the proofs about NParallel, with which ServerGroup shares no name.      *)
EXTENDS ServerGroup, NParallel, FiniteSetTheorems, SequenceTheorems, TLAPS

\* The part of GroupInv that the rest follows from.
Core ==
  /\ GroupTypeOK /\ EndsKnown /\ StartsNew /\ CutsRejoin /\ UnmarkedIsolated
  /\ AllProgress /\ SplitProgress /\ LeaderGoal

LEMMA CoreSuffices == Core => GroupInv
<1> SUFFICES ASSUME Core
             PROVE  GroupInv
  OBVIOUS
<1>1. DisconnectedIsolated
  BY DEF Core, UnmarkedIsolated, DisconnectedIsolated, Idle
<1>2. AllConnected
  <2>1. Idle => Len(todo) = 0
    BY DEF Idle
  <2>2. QED
    BY <2>1, GroupAssumption DEF Core, AllProgress, AllConnected, Servers
<1>3. QED
  BY <1>1, <1>2 DEF Core, GroupInv

LEMMA CoreInit == GroupInit => Core
<1> SUFFICES ASSUME GroupInit
             PROVE  Core
  OBVIOUS
<1>1. GroupTypeOK
  BY GroupAssumption DEF GroupInit, GroupTypeOK, Goals, AllEnds
<1>2. EndsKnown /\ StartsNew /\ CutsRejoin /\ UnmarkedIsolated
  BY DEF GroupInit, EndsKnown, StartsNew, CutsRejoin, UnmarkedIsolated, Linked
<1>3. AllProgress /\ SplitProgress /\ LeaderGoal
  BY DEF GroupInit, AllProgress, SplitProgress, LeaderGoal
<1>4. QED
  BY <1>1, <1>2, <1>3 DEF Core

-----------------------------------------------------------------------------
(* One call of an operation.                                               *)

LEMMA PrimFacts ==
  ASSUME NEW p \in Prims
  PROVE  /\ p.call \in {"connect", "disconnect", "deleteServer", "startServer"}
         /\ p.i \in Servers
         /\ p.call \in {"connect", "disconnect"} => p.to \subseteq Servers
BY DEF Prims

LEMMA TailFacts ==
  ASSUME todo \in Seq(Prims), todo # <<>>, todo' = Tail(todo)
  PROVE  /\ todo' \in Seq(Prims)
         /\ Head(todo) = todo[1] /\ todo[1] \in Prims
         /\ Len(todo) \in Nat \ {0} /\ Len(todo') = Len(todo) - 1
         /\ \A k \in 1 .. Len(todo') : /\ k + 1 \in 1 .. Len(todo)
                                       /\ todo'[k] = todo[k + 1]
         /\ \A k \in 1 .. Len(todo) : k # 1 =>
              k - 1 \in 1 .. Len(todo') /\ todo'[k - 1] = todo[k]
OBVIOUS

\* What is left of a program is as the program was.
LEMMA TailKept ==
  ASSUME Core, todo # <<>>, todo' = Tail(todo), UNCHANGED goal
  PROVE  /\ CutsRejoin'
         /\ goal[1] = "split" => \A k \in 1 .. Len(todo') :
              \/ todo'[k].call = "connect" /\ todo'[k].to = Own(todo'[k].i)
              \/ /\ todo'[k].call = "disconnect"
                 /\ todo'[k].to = Servers \ Own(todo'[k].i)
         /\ LeaderGoal'
<1>1. /\ Len(todo) \in Nat \ {0} /\ Len(todo') = Len(todo) - 1
      /\ \A k \in 1 .. Len(todo') : k + 1 \in 1 .. Len(todo) /\ todo'[k] = todo[k + 1]
      /\ \A k \in 1 .. Len(todo) : k # 1 =>
           k - 1 \in 1 .. Len(todo') /\ todo'[k - 1] = todo[k]
  BY TailFacts DEF Core, GroupTypeOK
<1>2. CutsRejoin'
  BY <1>1 DEF Core, CutsRejoin
<1>3. goal[1] = "split" => \A k \in 1 .. Len(todo') :
        \/ todo'[k].call = "connect" /\ todo'[k].to = Own(todo'[k].i)
        \/ todo'[k].call = "disconnect" /\ todo'[k].to = Servers \ Own(todo'[k].i)
  BY <1>1 DEF Core, SplitProgress
<1>4. LeaderGoal'
  BY DEF Core, LeaderGoal
<1>5. QED
  BY <1>2, <1>3, <1>4

\* The links after connect() and disconnect().
LEMMA ConnectLinks ==
  ASSUME GroupTypeOK, NEW i \in Servers, NEW to \in SUBSET Servers, connect(i, to)
  PROVE  /\ connected' = connected \cup {i} /\ gen' = gen
         /\ \A a, b \in Servers : Linked(a, b)' <=>
              \/ Linked(a, b)
              \/ a = i /\ b \in to \cap (connected \cup {i})
              \/ b = i /\ a \in to \cap (connected \cup {i})
BY DEF connect, Linked, End, GroupTypeOK

LEMMA DisconnectLinks ==
  ASSUME GroupTypeOK, NEW i \in Servers, NEW from \in SUBSET Servers,
         disconnect(i, from)
  PROVE  /\ connected' = connected \ {i} /\ gen' = gen
         /\ \A a, b \in Servers : Linked(a, b)' <=>
              Linked(a, b) /\ ~(a = i /\ b \in from) /\ ~(b = i /\ a \in from)
BY DEF disconnect, Linked, End, GroupTypeOK

LEMMA StartLinks ==
  ASSUME Core, NEW i \in Servers, startServer(i)
  PROVE  /\ connected' = connected
         /\ \A a, b \in Servers : Linked(a, b)' <=> Linked(a, b) /\ a # i
<1>1. \A b \in Servers : <<i, gen[i] + 1, b>> \notin on
  BY DEF Core, EndsKnown, GroupTypeOK
<1>2. gen'[i] = gen[i] + 1 /\ \A a \in Servers : a # i => gen'[a] = gen[a]
  BY DEF startServer, Core, GroupTypeOK
<1>3. QED
  BY <1>1, <1>2 DEF startServer, Linked, End

LEMMA StartsKept ==
  ASSUME Core, todo # <<>>, todo' = Tail(todo), gen' = gen
  PROVE  StartsNew'
<1>1. \A k \in 1 .. Len(todo') : k + 1 \in 1 .. Len(todo) /\ todo'[k] = todo[k + 1]
  BY TailFacts DEF Core, GroupTypeOK
<1> SUFFICES ASSUME NEW k \in 1 .. Len(todo'), todo'[k].call = "startServer"
             PROVE  /\ gen[todo'[k].i] < MaxGen
                    /\ \A m \in 1 .. Len(todo') :
                         todo'[m].call = "startServer" /\ todo'[m].i = todo'[k].i
                           => m = k
  BY DEF StartsNew
<1>2. /\ gen[todo[k + 1].i] < MaxGen
      /\ \A m \in 1 .. Len(todo) :
           todo[m].call = "startServer" /\ todo[m].i = todo[k + 1].i => m = k + 1
  BY <1>1 DEF Core, StartsNew
<1>3. ASSUME NEW m \in 1 .. Len(todo'), todo'[m].call = "startServer",
             todo'[m].i = todo'[k].i
      PROVE  m = k
  <2>1. m + 1 = k + 1
    BY <1>1, <1>2, <1>3
  <2>2. QED
    BY <2>1
<1>4. QED
  BY <1>1, <1>2, <1>3

LEMMA TypesKept ==
  ASSUME Core, Step
  PROVE  GroupTypeOK' /\ EndsKnown' /\ StartsNew'
<1> DEFINE p == Head(todo)
<1>1. /\ todo' \in Seq(Prims) /\ p = todo[1] /\ p \in Prims /\ p.i \in Servers
      /\ Len(todo) \in Nat \ {0}
      /\ \A k \in 1 .. Len(todo') : k + 1 \in 1 .. Len(todo) /\ todo'[k] = todo[k + 1]
  BY TailFacts, PrimFacts DEF Core, GroupTypeOK, Step
<1>2. goal' \in Goals
  BY DEF Core, GroupTypeOK, Step
<1>3. CASE p.call = "connect" /\ connect(p.i, p.to)
  <2>1. /\ connected' \subseteq Servers /\ registered' \subseteq Servers /\ gen' = gen
    BY <1>1, <1>3 DEF connect, Core, GroupTypeOK
  <2>2. p.to \subseteq Servers
    BY <1>1, <1>3, PrimFacts
  <2>3. on' \subseteq AllEnds
    BY <1>1, <1>3, <2>2 DEF connect, Core, GroupTypeOK, AllEnds, End
  <2>4. EndsKnown'
    <3>1. \A e \in on' : \/ e \in on
                         \/ \E a \in Servers, b \in Servers : e = <<a, gen[a], b>>
      BY <1>1, <1>3, <2>2 DEF connect, End
    <3>2. \A a \in Servers : gen[a] <= gen[a]
      BY DEF Core, GroupTypeOK
    <3>3. ASSUME NEW e \in on'
          PROVE  e[2] <= gen[e[1]]
      <4>1. CASE e \in on
        BY <4>1 DEF Core, EndsKnown
      <4>2. ASSUME NEW a \in Servers, NEW b \in Servers, e = <<a, gen[a], b>>
            PROVE  e[2] <= gen[e[1]]
        BY <3>2, <4>2
      <4>3. QED
        BY <3>1, <4>1, <4>2
    <3>4. QED
      BY <2>1, <3>3 DEF EndsKnown
  <2>5. StartsNew'
    BY <2>1, StartsKept DEF Step
  <2>6. QED
    BY <1>1, <1>2, <2>1, <2>3, <2>4, <2>5 DEF GroupTypeOK, Core
<1>4. CASE \/ p.call = "disconnect" /\ disconnect(p.i, p.to)
           \/ p.call = "deleteServer" /\ deleteServer(p.i)
  <2>1. /\ connected' \subseteq Servers /\ registered' \subseteq Servers
        /\ gen' = gen /\ on' \subseteq on
    BY <1>1, <1>4 DEF disconnect, deleteServer, Core, GroupTypeOK
  <2>2. EndsKnown' /\ StartsNew'
    BY <2>1, StartsKept DEF Step, Core, EndsKnown
  <2>3. QED
    BY <1>1, <1>2, <2>1, <2>2 DEF GroupTypeOK, Core
<1>5. CASE p.call = "startServer" /\ startServer(p.i)
  <2>1. gen[p.i] \in 0 .. MaxGen /\ gen[p.i] < MaxGen
    BY <1>1, <1>5 DEF Core, GroupTypeOK, StartsNew
  <2>2. /\ connected' \subseteq Servers /\ registered' \subseteq Servers
        /\ gen' \in [Servers -> 0 .. MaxGen] /\ on' = on
        /\ gen'[p.i] = gen[p.i] + 1
        /\ \A j \in Servers : j # p.i => gen'[j] = gen[j]
    BY <1>1, <1>5, <2>1, GroupAssumption DEF startServer, Core, GroupTypeOK
  <2>3. EndsKnown'
    BY <1>1, <2>1, <2>2 DEF Core, GroupTypeOK, EndsKnown, AllEnds
  <2>4. StartsNew'
    <3> SUFFICES ASSUME NEW k \in 1 .. Len(todo'), todo'[k].call = "startServer"
                 PROVE  /\ gen'[todo'[k].i] < MaxGen
                        /\ \A m \in 1 .. Len(todo') :
                             todo'[m].call = "startServer" /\ todo'[m].i = todo'[k].i
                               => m = k
      BY DEF StartsNew
    <3>1. todo'[k] = todo[k + 1] /\ k + 1 \in 1 .. Len(todo) /\ k \in Nat
      BY <1>1
    <3>2. /\ gen[todo[k + 1].i] < MaxGen
          /\ \A m \in 1 .. Len(todo) :
               todo[m].call = "startServer" /\ todo[m].i = todo[k + 1].i => m = k + 1
      BY <3>1 DEF Core, StartsNew
    <3>3. todo[k + 1].i # p.i
      BY <1>1, <1>5, <3>1, <3>2
    <3>4. todo[k + 1].i \in Servers
      BY <3>1, PrimFacts DEF Core, GroupTypeOK
    <3>5. gen'[todo'[k].i] < MaxGen
      BY <2>2, <3>1, <3>2, <3>3, <3>4
    <3>6. ASSUME NEW m \in 1 .. Len(todo'), todo'[m].call = "startServer",
                 todo'[m].i = todo'[k].i
          PROVE  m = k
      <4>1. m + 1 \in 1 .. Len(todo) /\ todo'[m] = todo[m + 1]
        BY <1>1
      <4>2. m + 1 = k + 1
        BY <3>1, <3>2, <3>6, <4>1
      <4>3. QED
        BY <4>2
    <3>7. QED
      BY <3>5, <3>6
  <2>5. QED
    BY <1>1, <1>2, <2>2, <2>3, <2>4 DEF GroupTypeOK, Core
<1>6. QED
  BY <1>3, <1>4, <1>5 DEF Step

\* The call that a step makes, and its effect on the marks and links.
LEMMA StepCases ==
  ASSUME Core, Step
  PROVE  /\ todo # <<>> /\ todo' = Tail(todo) /\ goal' = goal
         /\ todo[1] \in Prims /\ todo[1].i \in Servers
         /\ \/ /\ todo[1].call = "connect" /\ connect(todo[1].i, todo[1].to)
               /\ todo[1].to \in SUBSET Servers
            \/ /\ todo[1].call = "disconnect" /\ disconnect(todo[1].i, todo[1].to)
               /\ todo[1].to \in SUBSET Servers
            \/ /\ todo[1].call \in {"deleteServer", "startServer"}
               /\ connected' = connected
               /\ \A a, b \in Servers : Linked(a, b)' => Linked(a, b)
<1>1. /\ todo # <<>> /\ todo' = Tail(todo) /\ goal' = goal
  BY DEF Step
<1>2. Head(todo) = todo[1] /\ todo[1] \in Prims
  BY <1>1, TailFacts DEF Core, GroupTypeOK
<1>3. /\ todo[1].i \in Servers
      /\ todo[1].call \in {"connect", "disconnect"} => todo[1].to \in SUBSET Servers
  BY <1>2, PrimFacts
<1>4. CASE todo[1].call = "deleteServer" /\ deleteServer(todo[1].i)
  <2>1. connected' = connected /\ gen' = gen /\ on' = on
    BY <1>4 DEF deleteServer
  <2>2. QED
    BY <1>1, <1>2, <1>3, <1>4, <2>1 DEF Linked, End
<1>5. CASE todo[1].call = "startServer" /\ startServer(todo[1].i)
  BY <1>1, <1>2, <1>3, <1>5, StartLinks
<1>6. QED
  BY <1>1, <1>2, <1>3, <1>4, <1>5 DEF Step

LEMMA UnmarkedKept ==
  ASSUME Core, Step
  PROVE  UnmarkedIsolated'
<1> DEFINE i == todo[1].i
           to == todo[1].to
<1>1. /\ i \in Servers /\ todo # <<>>
      /\ Len(todo) \in Nat \ {0} /\ Len(todo') = Len(todo) - 1
      /\ todo' \in Seq(Prims)
      /\ \A k \in 1 .. Len(todo) : k # 1 =>
           k - 1 \in 1 .. Len(todo') /\ todo'[k - 1] = todo[k]
  BY StepCases, TailFacts DEF Core, GroupTypeOK
<1> SUFFICES ASSUME NEW x \in Servers, x \notin connected', NEW y \in Servers,
                    Linked(x, y)' \/ Linked(y, x)'
             PROVE  todo' # <<>> /\ todo'[1].call = "connect" /\ todo'[1].i = x
  BY DEF UnmarkedIsolated
<1>2. x \notin connected /\ (Linked(x, y) \/ Linked(y, x))
        => todo[1].call = "connect" /\ i = x
  BY DEF Core, UnmarkedIsolated
<1>3. CASE todo[1].call = "connect" /\ connect(i, to) /\ to \in SUBSET Servers
  <2>1. x # i /\ x \notin connected /\ (Linked(x, y) \/ Linked(y, x))
    BY <1>1, <1>3, ConnectLinks DEF Core
  <2>2. QED
    BY <1>2, <2>1
<1>4. CASE todo[1].call = "disconnect" /\ disconnect(i, to) /\ to \in SUBSET Servers
  <2>1. /\ Linked(x, y) \/ Linked(y, x)
        /\ x \notin connected \/ x = i
        /\ x = i => y \notin to
    BY <1>1, <1>4, DisconnectLinks DEF Core
  <2>2. x = i /\ to # Servers
    BY <1>2, <1>4, <2>1
  <2>3. 2 \in 1 .. Len(todo) /\ todo[2].call = "connect" /\ todo[2].i = i
    <3>1. 1 \in 1 .. Len(todo)
      BY <1>1
    <3>2. 1 + 1 \in 1 .. Len(todo) /\ todo[1 + 1].call = "connect" /\ todo[1 + 1].i = i
      BY <1>4, <2>2, <3>1 DEF Core, CutsRejoin
    <3>3. QED
      BY <3>2
  <2>4. todo'[1] = todo[2] /\ Len(todo') # 0
    BY <1>1, <2>3
  <2>5. QED
    BY <1>1, <2>2, <2>3, <2>4
<1>5. CASE /\ todo[1].call \in {"deleteServer", "startServer"}
           /\ connected' = connected
           /\ \A a, b \in Servers : Linked(a, b)' => Linked(a, b)
  BY <1>2, <1>5
<1>6. QED
  BY <1>3, <1>4, <1>5, StepCases

LEMMA AllKept ==
  ASSUME Core, Step
  PROVE  AllProgress'
<1> SUFFICES ASSUME goal' = <<"all">>
             PROVE  AllProgress'
  BY DEF AllProgress
<1> DEFINE n == Len(todo)
<1>1. /\ n \in Nat \ {0} /\ Len(todo') = n - 1 /\ N \in Nat \ {0}
      /\ \A k \in 1 .. Len(todo') : k + 1 \in 1 .. n /\ todo'[k] = todo[k + 1]
  BY StepCases, TailFacts, GroupAssumption DEF Core, GroupTypeOK
<1>2. /\ \A k \in 1 .. n : IF k > n - N THEN todo[k] = Con(k - 1 - (n - N), Servers)
                           ELSE todo[k].call = "startServer"
      /\ \A i, j \in Servers : i < N - n /\ j < N - n => i \in connected /\ Linked(i, j)
  <2>1. goal = <<"all">>
    BY StepCases
  <2>2. QED
    BY <2>1 DEF Core, AllProgress
<1>3. ASSUME NEW k \in 1 .. n - 1
      PROVE  IF k > n - 1 - N THEN todo'[k] = Con(k - 1 - (n - 1 - N), Servers)
             ELSE todo'[k].call = "startServer"
  <2>1. k + 1 \in 1 .. n /\ todo'[k] = todo[k + 1]
    BY <1>1
  <2>2. k + 1 - 1 - (n - N) = k - 1 - (n - 1 - N) /\ (k + 1 > n - N <=> k > n - 1 - N)
    BY <1>1
  <2>3. CASE k + 1 > n - N
    <3>1. todo[k + 1] = Con(k + 1 - 1 - (n - N), Servers)
      BY <1>1, <1>2, <2>1, <2>3
    <3>2. QED
      BY <2>1, <2>2, <2>3, <3>1
  <2>4. CASE ~(k + 1 > n - N)
    <3>1. todo[k + 1].call = "startServer"
      BY <1>2, <2>1, <2>4
    <3>2. QED
      BY <2>1, <2>2, <2>4, <3>1
  <2>5. QED
    BY <2>3, <2>4
<1>4. ASSUME NEW a \in Servers, NEW b \in Servers, a < N - (n - 1), b < N - (n - 1)
      PROVE  a \in connected' /\ Linked(a, b)'
  <2>1. n <= N /\ N - n \in Servers /\ a \in Nat /\ b \in Nat
    BY <1>1, <1>4 DEF Servers
  <2>2. todo[1] = Con(N - n, Servers)
    <3>1. 1 \in 1 .. n /\ 1 > n - N /\ 1 - 1 - (n - N) = N - n
      BY <1>1, <2>1
    <3>2. QED
      BY <1>2, <3>1
  <2>3. connect(N - n, Servers)
    BY <2>2, StepCases DEF Con
  <2>4. /\ connected' = connected \cup {N - n}
        /\ Linked(a, b)' <=> \/ Linked(a, b)
                             \/ a = N - n /\ b \in connected \cup {N - n}
                             \/ b = N - n /\ a \in connected \cup {N - n}
    <3>1. Servers \in SUBSET Servers /\ GroupTypeOK
      BY DEF Core
    <3>2. /\ connected' = connected \cup {N - n}
          /\ \A x, y \in Servers : Linked(x, y)' <=>
               \/ Linked(x, y)
               \/ x = N - n /\ y \in Servers \cap (connected \cup {N - n})
               \/ y = N - n /\ x \in Servers \cap (connected \cup {N - n})
      BY <2>1, <2>3, <3>1, ConnectLinks
    <3>3. QED
      BY <3>2
  <2>5. /\ (a = N - n \/ a < N - n)
        /\ (b = N - n \/ b < N - n)
    <3>1. n \in Int /\ N \in Int /\ a \in Int /\ b \in Int
      BY <1>1, <2>1
    <3>2. QED
      BY <1>4, <3>1
  <2>6. /\ a < N - n => a \in connected
        /\ b < N - n => b \in connected
        /\ a < N - n /\ b < N - n => Linked(a, b)
    BY <1>2
  <2>7. QED
    BY <2>4, <2>5, <2>6
<1>5. QED
  BY <1>1, <1>3, <1>4 DEF AllProgress

LEMMA SplitKept ==
  ASSUME Core, Step
  PROVE  SplitProgress'
<1> SUFFICES ASSUME goal'[1] = "split"
             PROVE  SplitProgress'
  BY DEF SplitProgress
<1> DEFINE i == todo[1].i
           to == todo[1].to
<1>1. /\ goal' = goal /\ goal[1] = "split" /\ todo # <<>> /\ i \in Servers
      /\ Len(todo) \in Nat \ {0} /\ 1 \in 1 .. Len(todo)
      /\ \A k \in 1 .. Len(todo) : k # 1 =>
           k - 1 \in 1 .. Len(todo') /\ todo'[k - 1] = todo[k]
  BY StepCases, TailFacts DEF Core, GroupTypeOK
<1>2. /\ \/ todo[1].call = "connect" /\ to = Own(i)
         \/ todo[1].call = "disconnect" /\ to = Servers \ Own(i)
      /\ \A x \in Servers : ~CutWaits(x) =>
           \A y \in Servers \ Own(x) : ~Linked(x, y) /\ ~Linked(y, x)
      /\ \A x \in Servers : ~Waits(x) =>
           x \in connected /\ \A y \in Own(x) : ~Waits(y) => Linked(x, y)
  BY <1>1 DEF Core, SplitProgress
<1>3. \A x \in Servers : Own(x)' = Own(x)
  BY <1>1 DEF Own
<1>4. /\ \A x \in Servers : x \in Own(x) /\ Own(x) \subseteq Servers
      /\ \A x, y \in Servers : x \in Own(y) <=> y \in Own(x)
  BY <1>1 DEF Own, Core, GroupTypeOK, Goals
<1>5. \A x \in Servers : ~Waits(x)' => ~Waits(x) \/ x = i
  BY <1>1 DEF Waits
<1>6. \A x \in Servers : ~CutWaits(x)' =>
        ~CutWaits(x) \/ (x = i /\ todo[1].call = "disconnect")
  BY <1>1 DEF CutWaits
<1>7. SUFFICES /\ \A x \in Servers : ~CutWaits(x)' =>
                    \A y \in Servers \ Own(x) : ~Linked(x, y)' /\ ~Linked(y, x)'
               /\ \A x \in Servers : ~Waits(x)' =>
                    /\ x \in connected'
                    /\ \A y \in Own(x) : ~Waits(y)' => Linked(x, y)'
  <2>1. \A k \in 1 .. Len(todo') :
          \/ todo'[k].call = "connect" /\ todo'[k].to = Own(todo'[k].i)
          \/ todo'[k].call = "disconnect" /\ todo'[k].to = Servers \ Own(todo'[k].i)
    BY <1>1, StepCases, TailKept
  <2>2. \A k \in 1 .. Len(todo') : todo'[k].i \in Servers
    BY <1>1, StepCases, TailFacts, PrimFacts DEF Core, GroupTypeOK
  <2>3. QED
    BY <1>3, <1>7, <2>1, <2>2 DEF SplitProgress
<1>8. CASE todo[1].call = "connect"
  <2>1. /\ connected' = connected \cup {i}
        /\ \A a, b \in Servers : Linked(a, b)' <=>
             \/ Linked(a, b)
             \/ a = i /\ b \in Own(i) \cap (connected \cup {i})
             \/ b = i /\ a \in Own(i) \cap (connected \cup {i})
    <3>1. connect(i, Own(i)) /\ Own(i) \in SUBSET Servers
      BY <1>2, <1>8, StepCases
    <3>2. QED
      BY <1>1, <3>1, ConnectLinks DEF Core
  <2>2. ASSUME NEW x \in Servers, ~CutWaits(x)', NEW y \in Servers \ Own(x)
        PROVE  ~Linked(x, y)' /\ ~Linked(y, x)'
    BY <1>2, <1>4, <1>6, <1>8, <2>1, <2>2
  <2>3. ASSUME NEW x \in Servers, ~Waits(x)'
        PROVE  x \in connected'
    BY <1>2, <1>5, <2>1, <2>3
  <2>4. ASSUME NEW x \in Servers, ~Waits(x)', NEW y \in Own(x), ~Waits(y)'
        PROVE  Linked(x, y)'
    <3>1. y \in Servers
      BY <1>4
    <3>2. x = i \/ (x \in connected /\ ~Waits(x))
      BY <1>2, <1>5, <2>4
    <3>3. y = i \/ (y \in connected /\ ~Waits(y))
      BY <1>2, <1>5, <2>4, <3>1
    <3>4. QED
      BY <1>1, <1>2, <1>4, <2>1, <3>1, <3>2, <3>3
  <2>5. QED
    BY <2>2, <2>3, <2>4
<1>9. CASE todo[1].call = "disconnect"
  <2>1. /\ connected' = connected \ {i}
        /\ \A a, b \in Servers : Linked(a, b)' <=>
             /\ Linked(a, b)
             /\ ~(a = i /\ b \in Servers \ Own(i)) /\ ~(b = i /\ a \in Servers \ Own(i))
    <3>1. disconnect(i, Servers \ Own(i)) /\ Servers \ Own(i) \in SUBSET Servers
      BY <1>2, <1>9, StepCases
    <3>2. QED
      BY <1>1, <3>1, DisconnectLinks DEF Core
  <2>2. ASSUME NEW x \in Servers, ~CutWaits(x)', NEW y \in Servers \ Own(x)
        PROVE  ~Linked(x, y)' /\ ~Linked(y, x)'
    BY <1>2, <1>4, <1>6, <2>1, <2>2
  <2>3. \E k \in 1 .. Len(todo') : todo'[k].i = i
    <3>1. to # Servers
      BY <1>1, <1>2, <1>4, <1>9
    <3>2. 1 + 1 \in 1 .. Len(todo) /\ todo[1 + 1].i = i
      BY <1>1, <1>9, <3>1 DEF Core, CutsRejoin
    <3>3. 1 + 1 # 1 /\ 1 + 1 - 1 = 1
      OBVIOUS
    <3>4. 1 \in 1 .. Len(todo') /\ todo'[1] = todo[1 + 1]
      BY <1>1, <3>2, <3>3
    <3>5. QED
      BY <3>2, <3>4
  <2>4. \A x \in Servers : ~Waits(x)' => ~Waits(x) /\ x # i
    <3>1. \A x \in Servers : x = i => Waits(x)'
      BY <2>3 DEF Waits
    <3>2. QED
      BY <1>5, <3>1
  <2>5. QED
    BY <1>2, <1>4, <2>1, <2>2, <2>4
<1>10. QED
  BY <1>2, <1>8, <1>9

LEMMA CoreStep ==
  ASSUME Core, Step
  PROVE  Core'
<1>1. todo # <<>> /\ todo' = Tail(todo) /\ UNCHANGED goal
  BY DEF Step
<1>2. CutsRejoin' /\ LeaderGoal'
  BY <1>1, TailKept
<1>3. QED
  BY <1>2, TypesKept, UnmarkedKept, AllKept, SplitKept DEF Core

-----------------------------------------------------------------------------
(* The start of an operation, between operations.                          *)

LEMMA CoreBegin ==
  ASSUME Core, NEW program \in Seq(Prims), NEW g \in Goals, Begin(program, g),
         (StartsNew /\ CutsRejoin /\ AllProgress /\ SplitProgress /\ LeaderGoal)'
  PROVE  Core'
<1>1. GroupTypeOK'
  BY DEF Core, GroupTypeOK, Begin
<1>2. EndsKnown'
  BY DEF Core, EndsKnown, Begin
<1>3. UnmarkedIsolated'
  BY DEF Core, UnmarkedIsolated, Linked, End, Begin
<1>4. QED
  BY <1>1, <1>2, <1>3 DEF Core

\* The calls that a program may have in any operation.
LEMMA PrimsMade ==
  ASSUME NEW i \in Servers, NEW to \in SUBSET Servers
  PROVE  /\ Con(i, to) \in Prims /\ Con(i, to).call = "connect"
         /\ Dis(i, to) \in Prims /\ Dis(i, to).call = "disconnect"
         /\ Del(i) \in Prims /\ Del(i).call = "deleteServer"
         /\ Start(i) \in Prims /\ Start(i).call = "startServer"
         /\ Con(i, to).i = i /\ Dis(i, to).i = i /\ Start(i).i = i
         /\ Con(i, to).to = to /\ Dis(i, to).to = to
BY DEF Con, Dis, Del, Start, Prims

LEMMA PlainBegin ==
  ASSUME Core, NEW program \in Seq(Prims), Begin(program, <<"none">>),
         \A k \in 1 .. Len(program) :
           /\ program[k].call = "startServer" =>
                gen[program[k].i] < MaxGen /\ Len(program) = 1
           /\ program[k].call = "disconnect" => program[k].to = Servers
  PROVE  Core'
<1>1. todo' = program /\ goal' = <<"none">> /\ gen' = gen /\ Len(program) \in Nat
  BY DEF Begin
<1>2. StartsNew' /\ CutsRejoin'
  BY <1>1 DEF StartsNew, CutsRejoin
<1>3. goal'[1] # "split" /\ goal' # <<"all">> /\ goal' \in Goals
  BY <1>1 DEF Goals
<1>4. AllProgress' /\ SplitProgress' /\ LeaderGoal'
  BY <1>3 DEF AllProgress, SplitProgress, LeaderGoal
<1>5. QED
  BY <1>1, <1>2, <1>3, <1>4, CoreBegin

\* m servers are started, each at most once, then all servers connected.
LEMMA AllBegin ==
  ASSUME Core, NEW starts \in Seq(Prims), Begin(starts \o conAll, <<"all">>),
         \A k \in 1 .. Len(starts) :
           /\ starts[k].call = "startServer" /\ gen[starts[k].i] < MaxGen
           /\ \A m \in 1 .. Len(starts) : starts[m].i = starts[k].i => m = k
  PROVE  Core'
<1> DEFINE m == Len(starts)
           program == starts \o conAll
<1>1. /\ conAll \in Seq(Prims) /\ Len(conAll) = N /\ N \in Nat /\ m \in Nat
      /\ \A k \in 1 .. N : conAll[k] = Con(k - 1, Servers) /\ k - 1 \in Servers
  <2>1. \A k \in 1 .. N : all[k] = k - 1 /\ k - 1 \in Servers
    BY GroupAssumption DEF all, Servers
  <2>2. \A k \in 1 .. N : Con(all[k], Servers) \in Prims
    BY <2>1, PrimsMade
  <2>3. conAll \in Seq(Prims) /\ Len(conAll) = N
    BY <2>2, GroupAssumption DEF conAll
  <2>4. QED
    BY <2>1, <2>3, GroupAssumption DEF conAll
<1>2. /\ program \in Seq(Prims) /\ Len(program) = m + N
      /\ \A k \in 1 .. Len(program) :
           IF k <= m THEN k \in 1 .. m /\ program[k] = starts[k]
           ELSE /\ program[k] = Con(k - m - 1, Servers)
                /\ k - m - 1 \in Servers
  <2>1. /\ program \in Seq(Prims) /\ Len(program) = m + N
        /\ \A k \in 1 .. m + N :
             program[k] = IF k <= m THEN starts[k] ELSE conAll[k - m]
    BY <1>1, ConcatProperties
  <2>2. ASSUME NEW k \in 1 .. Len(program), k <= m
        PROVE  k \in 1 .. m /\ program[k] = starts[k]
    BY <1>1, <2>1, <2>2
  <2>3. ASSUME NEW k \in 1 .. Len(program), ~(k <= m)
        PROVE  program[k] = Con(k - m - 1, Servers) /\ k - m - 1 \in Servers
    <3>1. k - m \in 1 .. N /\ program[k] = conAll[k - m]
      BY <1>1, <2>1, <2>3
    <3>2. QED
      BY <1>1, <3>1
  <2>4. QED
    BY <2>1, <2>2, <2>3
<1>3. todo' = program /\ goal' = <<"all">> /\ gen' = gen
  BY DEF Begin
<1>4. \A k \in 1 .. Len(program) :
        IF k <= m THEN k \in 1 .. m /\ program[k].call = "startServer"
        ELSE program[k].call = "connect"
  BY <1>2, PrimsMade
<1>5. CutsRejoin'
  BY <1>3, <1>4 DEF CutsRejoin
<1>6. StartsNew'
  <2>1. \A k \in 1 .. Len(program) : program[k].call = "startServer" =>
          k \in 1 .. m /\ program[k] = starts[k]
    BY <1>2, <1>4
  <2>2. QED
    BY <1>3, <2>1 DEF StartsNew
<1>7. AllProgress'
  <2>1. ASSUME NEW k \in 1 .. Len(program)
        PROVE  IF k > m THEN program[k] = Con(k - 1 - m, Servers)
               ELSE program[k].call = "startServer"
    <3>1. k - m - 1 = k - 1 - m /\ (k <= m <=> ~(k > m))
      BY <1>1, <1>2
    <3>2. QED
      BY <1>2, <1>4, <3>1
  <2>2. /\ Len(program) - N = m
        /\ \A i, j \in Servers : ~(i < N - Len(program))
    BY <1>1, <1>2 DEF Servers
  <2>3. QED
    BY <1>3, <2>1, <2>2 DEF AllProgress
<1>8. goal'[1] # "split" /\ goal' \in Goals
  BY <1>3 DEF Goals
<1>9. SplitProgress' /\ LeaderGoal'
  BY <1>8 DEF SplitProgress, LeaderGoal
<1>10. QED
  BY <1>2, <1>3, <1>5, <1>6, <1>7, <1>8, <1>9, CoreBegin

\* One side of a partition: for every server of p a cut, then a connect.
LEMMA SideFacts ==
  ASSUME NEW p \in Seq(Servers), NEW own \in SUBSET Servers,
         NEW other \in SUBSET Servers
  PROVE  LET q == Side(p, own, other) IN
         /\ q \in Seq(Prims) /\ Len(q) = 2 * Len(p)
         /\ \A k \in 1 .. Len(p) :
              /\ 2 * k - 1 \in 1 .. Len(q) /\ q[2 * k - 1] = Dis(p[k], other)
              /\ 2 * k \in 1 .. Len(q) /\ q[2 * k] = Con(p[k], own)
         /\ \A m \in 1 .. Len(q) : \E k \in 1 .. Len(p) : m = 2 * k - 1 \/ m = 2 * k
<1> DEFINE q == Side(p, own, other)
           n == Len(p)
<1>1. n \in Nat /\ \A k \in 1 .. n : p[k] \in Servers
  OBVIOUS
<1>2. \A m \in 1 .. 2 * n : (m + 1) \div 2 \in 1 .. n
  BY <1>1
<1>3. \A m \in 1 .. 2 * n : q[m] = IF m % 2 = 1 THEN Dis(p[(m + 1) \div 2], other)
                                   ELSE Con(p[(m + 1) \div 2], own)
  BY DEF Side
<1>4. q \in Seq(Prims) /\ Len(q) = 2 * n
  <2>1. \A m \in 1 .. 2 * n : q[m] \in Prims
    <3> SUFFICES ASSUME NEW m \in 1 .. 2 * n
                 PROVE  q[m] \in Prims
      OBVIOUS
    <3>1. p[(m + 1) \div 2] \in Servers
      BY <1>1, <1>2
    <3>2. /\ Dis(p[(m + 1) \div 2], other) \in Prims
          /\ Con(p[(m + 1) \div 2], own) \in Prims
      BY <3>1, PrimsMade
    <3>3. QED
      BY <1>3, <3>2
  <2>2. q = [m \in 1 .. 2 * n |-> q[m]] /\ 2 * n \in Nat
    BY <1>1 DEF Side
  <2>3. QED
    BY <2>1, <2>2
<1>5. ASSUME NEW k \in 1 .. n
      PROVE  /\ 2 * k - 1 \in 1 .. 2 * n /\ q[2 * k - 1] = Dis(p[k], other)
             /\ 2 * k \in 1 .. 2 * n /\ q[2 * k] = Con(p[k], own)
  <2>1. /\ 2 * k - 1 \in 1 .. 2 * n /\ 2 * k \in 1 .. 2 * n
        /\ (2 * k - 1 + 1) \div 2 = k /\ (2 * k + 1) \div 2 = k
        /\ (2 * k - 1) % 2 = 1 /\ (2 * k) % 2 # 1
    BY <1>1
  <2>2. QED
    BY <1>3, <2>1
<1>6. ASSUME NEW m \in 1 .. 2 * n
      PROVE  \E k \in 1 .. n : m = 2 * k - 1 \/ m = 2 * k
  <2>1. LET k == (m + 1) \div 2 IN k \in 1 .. n /\ (m = 2 * k - 1 \/ m = 2 * k)
    BY <1>1
  <2>2. QED
    BY <2>1
<1>7. QED
  BY <1>4, <1>5, <1>6

LEMMA SplitBegin ==
  ASSUME Core, NEW p1 \in Seq(Servers), NEW p2 \in Seq(Servers), NEW l \in -1 .. N - 1,
         Partition(p1, p2, l), Members(p2) = Servers \ Members(p1),
         l # -1 => l \in Members(p2) /\ 2 * Cardinality(Members(p2)) < N
  PROVE  Core'
<1> DEFINE P1 == Members(p1)
           P2 == Members(p2)
           q1 == Side(p1, P1, P2)
           q2 == Side(p2, P2, P1)
           program == q1 \o q2
           h == Len(q1)
<1>1. P1 \in SUBSET Servers /\ P2 \in SUBSET Servers
  BY DEF Members
<1>2. Begin(program, <<"split", P1, l>>)
  BY DEF Partition
<1>3. /\ q1 \in Seq(Prims) /\ Len(q1) = 2 * Len(p1)
      /\ \A k \in 1 .. Len(p1) :
           /\ 2 * k - 1 \in 1 .. Len(q1) /\ q1[2 * k - 1] = Dis(p1[k], P2)
           /\ 2 * k \in 1 .. Len(q1) /\ q1[2 * k] = Con(p1[k], P1)
      /\ \A m \in 1 .. Len(q1) : \E k \in 1 .. Len(p1) : m = 2 * k - 1 \/ m = 2 * k
  BY <1>1, SideFacts
<1>4. /\ q2 \in Seq(Prims) /\ Len(q2) = 2 * Len(p2)
      /\ \A k \in 1 .. Len(p2) :
           /\ 2 * k - 1 \in 1 .. Len(q2) /\ q2[2 * k - 1] = Dis(p2[k], P1)
           /\ 2 * k \in 1 .. Len(q2) /\ q2[2 * k] = Con(p2[k], P2)
      /\ \A m \in 1 .. Len(q2) : \E k \in 1 .. Len(p2) : m = 2 * k - 1 \/ m = 2 * k
  BY <1>1, SideFacts
<1>5. /\ program \in Seq(Prims) /\ Len(program) = Len(q1) + Len(q2)
      /\ h \in Nat /\ Len(q2) \in Nat
      /\ \A m \in 1 .. h : m \in 1 .. Len(program) /\ program[m] = q1[m]
      /\ \A m \in 1 .. Len(q2) :
           h + m \in 1 .. Len(program) /\ program[h + m] = q2[m]
      /\ \A m \in 1 .. Len(program) : m \in 1 .. h \/ m - h \in 1 .. Len(q2)
  <2>1. /\ program \in Seq(Prims) /\ Len(program) = Len(q1) + Len(q2)
        /\ \A m \in 1 .. Len(q1) + Len(q2) :
             program[m] = IF m <= h THEN q1[m] ELSE q2[m - h]
    BY <1>3, <1>4, ConcatProperties
  <2>2. h \in Nat /\ Len(q2) \in Nat
    BY <1>3, <1>4
  <2>3. ASSUME NEW m \in 1 .. Len(q2)
        PROVE  h + m \in 1 .. Len(program) /\ program[h + m] = q2[m]
    <3>1. h + m \in 1 .. Len(q1) + Len(q2) /\ ~(h + m <= h) /\ h + m - h = m
      BY <2>2
    <3>2. QED
      BY <2>1, <3>1
  <2>4. ASSUME NEW m \in 1 .. h
        PROVE  m \in 1 .. Len(program) /\ program[m] = q1[m]
    BY <2>1, <2>2
  <2>5. \A m \in 1 .. Len(program) : m \in 1 .. h \/ m - h \in 1 .. Len(q2)
    BY <2>1, <2>2
  <2>6. QED
    BY <2>1, <2>2, <2>3, <2>4, <2>5
<1> DEFINE O(i) == IF i \in P1 THEN P1 ELSE Servers \ P1
<1>6. /\ \A k \in 1 .. Len(p1) : p1[k] \in Servers /\ p1[k] \in P1
      /\ \A k \in 1 .. Len(p2) : p2[k] \in Servers /\ p2[k] \in P2
  BY DEF Members
\* Every call of the program is a cut with the connect after it, or that connect.
<1>7. ASSUME NEW m \in 1 .. Len(program)
      PROVE  \E i \in Servers :
               \/ program[m] = Con(i, O(i))
               \/ /\ program[m] = Dis(i, Servers \ O(i))
                  /\ m + 1 \in 1 .. Len(program)
                  /\ program[m + 1] = Con(i, O(i))
  <2>1. CASE m \in 1 .. h
    <3>1. PICK k \in 1 .. Len(p1) : m = 2 * k - 1 \/ m = 2 * k
      BY <1>3, <2>1
    <3>2. P1 = O(p1[k]) /\ P2 = Servers \ O(p1[k]) /\ p1[k] \in Servers
      BY <1>6
    <3>3. 2 * k - 1 + 1 = 2 * k
      OBVIOUS
    <3>4. /\ program[2 * k - 1] = Dis(p1[k], P2) /\ program[2 * k] = Con(p1[k], P1)
          /\ 2 * k \in 1 .. Len(program)
      BY <1>3, <1>5
    <3>5. QED
      BY <3>1, <3>2, <3>3, <3>4
  <2>2. CASE m - h \in 1 .. Len(q2)
    <3>1. PICK k \in 1 .. Len(p2) : m - h = 2 * k - 1 \/ m - h = 2 * k
      BY <1>4, <2>2
    <3>2. P2 = O(p2[k]) /\ P1 = Servers \ O(p2[k]) /\ p2[k] \in Servers
      BY <1>1, <1>6
    <3>3. /\ program[h + (2 * k - 1)] = Dis(p2[k], P1)
          /\ program[h + 2 * k] = Con(p2[k], P2)
          /\ h + 2 * k \in 1 .. Len(program)
      BY <1>4, <1>5
    <3>4. /\ m = h + (2 * k - 1) \/ m = h + 2 * k
          /\ h + (2 * k - 1) + 1 = h + 2 * k
      BY <1>5, <3>1
    <3>5. QED
      BY <3>2, <3>3, <3>4
  <2>3. QED
    BY <1>5, <2>1, <2>2
\* And every server has its cut.
<1>8. ASSUME NEW i \in Servers
      PROVE  \E m \in 1 .. Len(program) :
               program[m].call = "disconnect" /\ program[m].i = i
  <2>1. CASE i \in P1
    <3>1. PICK k \in 1 .. Len(p1) : i = p1[k]
      BY <2>1 DEF Members
    <3>2. 2 * k - 1 \in 1 .. Len(program) /\ program[2 * k - 1] = Dis(i, P2)
      BY <1>3, <1>5, <3>1
    <3>3. Dis(i, P2).call = "disconnect" /\ Dis(i, P2).i = i
      BY <1>1, PrimsMade
    <3>4. QED
      BY <3>2, <3>3
  <2>2. CASE i \in P2
    <3>1. PICK k \in 1 .. Len(p2) : i = p2[k]
      BY <2>2 DEF Members
    <3>2. /\ h + (2 * k - 1) \in 1 .. Len(program)
          /\ program[h + (2 * k - 1)] = Dis(i, P1)
      BY <1>4, <1>5, <3>1
    <3>3. Dis(i, P1).call = "disconnect" /\ Dis(i, P1).i = i
      BY <1>1, PrimsMade
    <3>4. QED
      BY <3>2, <3>3
  <2>3. QED
    BY <2>1, <2>2
<1>9. todo' = program /\ goal' = <<"split", P1, l>>
  BY <1>2 DEF Begin
<1>10. \A i \in Servers : O(i) \in SUBSET Servers /\ Own(i)' = O(i)
  BY <1>1, <1>9 DEF Own
<1>11. \A m \in 1 .. Len(program) :
         \/ program[m].call = "connect" /\ program[m].to = O(program[m].i)
         \/ /\ program[m].call = "disconnect"
            /\ program[m].to = Servers \ O(program[m].i)
            /\ m + 1 \in 1 .. Len(program)
            /\ program[m + 1].call = "connect" /\ program[m + 1].i = program[m].i
  <2> SUFFICES ASSUME NEW m \in 1 .. Len(program)
               PROVE  \/ /\ program[m].call = "connect"
                         /\ program[m].to = O(program[m].i)
                      \/ /\ program[m].call = "disconnect"
                         /\ program[m].to = Servers \ O(program[m].i)
                         /\ m + 1 \in 1 .. Len(program)
                         /\ program[m + 1].call = "connect"
                         /\ program[m + 1].i = program[m].i
    OBVIOUS
  <2>1. PICK i \in Servers :
               \/ program[m] = Con(i, O(i))
               \/ /\ program[m] = Dis(i, Servers \ O(i))
                  /\ m + 1 \in 1 .. Len(program)
                  /\ program[m + 1] = Con(i, O(i))
    BY <1>7
  <2>2. O(i) \in SUBSET Servers /\ Servers \ O(i) \in SUBSET Servers
    BY <1>10
  <2>3. /\ Con(i, O(i)).call = "connect" /\ Con(i, O(i)).i = i
        /\ Con(i, O(i)).to = O(i)
        /\ Dis(i, Servers \ O(i)).call = "disconnect" /\ Dis(i, Servers \ O(i)).i = i
        /\ Dis(i, Servers \ O(i)).to = Servers \ O(i)
    BY <2>2, PrimsMade
  <2>4. QED
    BY <2>1, <2>3
<1>12. StartsNew' /\ CutsRejoin'
  BY <1>9, <1>11 DEF StartsNew, CutsRejoin
<1>13. SplitProgress'
  <2>1. \A i \in Servers : CutWaits(i)' /\ Waits(i)'
    BY <1>8, <1>9 DEF CutWaits, Waits
  <2>2. \A m \in 1 .. Len(program) : program[m].i \in Servers
    BY <1>5, PrimFacts
  <2>3. (\A k \in 1 .. Len(todo) :
           \/ todo[k].call = "connect" /\ todo[k].to = Own(todo[k].i)
           \/ todo[k].call = "disconnect" /\ todo[k].to = Servers \ Own(todo[k].i))'
    <3>1. ASSUME NEW k \in 1 .. Len(program)
          PROVE  \/ program[k].call = "connect" /\ program[k].to = Own(program[k].i)'
                 \/ /\ program[k].call = "disconnect"
                    /\ program[k].to = Servers \ Own(program[k].i)'
      <4>1. Own(program[k].i)' = O(program[k].i)
        BY <1>10, <2>2
      <4>2. QED
        BY <1>11, <4>1
    <3>2. QED
      BY <1>9, <3>1
  <2>4. QED
    BY <2>1, <2>3 DEF SplitProgress
<1>14. AllProgress'
  BY <1>9 DEF AllProgress
<1>15. LeaderGoal'
  BY <1>1, <1>9 DEF LeaderGoal
<1>16. <<"split", P1, l>> \in Goals
  BY <1>1 DEF Goals
<1>17. QED
  BY <1>2, <1>5, <1>12, <1>13, <1>14, <1>15, <1>16, CoreBegin

\* The two sides that isolate the leader l of an odd number of servers.
LEMMA MakePartitionFacts ==
  ASSUME NEW l \in Servers, N % 2 = 1, N > 1
  PROVE  LET p1 == MakePartition(l)[1]
             p2 == MakePartition(l)[2]
         IN /\ p1 \in Seq(Servers) /\ p2 \in Seq(Servers)
            /\ Members(p2) = Servers \ Members(p1)
            /\ l \in Members(p2) /\ 2 * Cardinality(Members(p2)) < N
<1> DEFINE f == Followers(l)
           half == N \div 2 + 1
           p1 == SubSeq(f, 1, half)
           r == SubSeq(f, half + 1, N - 1)
           p2 == Append(r, l)
<1>1. /\ N \in Nat /\ half \in Nat /\ half >= 1 /\ half <= N - 1
      /\ 2 * (N - half) < N /\ N - half \in Nat
  BY GroupAssumption
<1>2. \A k \in 1 .. N - 1 : /\ f[k] \in Servers /\ f[k] # l
                            /\ f[k] = IF k <= l THEN k - 1 ELSE k
  BY <1>1 DEF Followers, Servers
<1>3. /\ \A k, m \in 1 .. N - 1 : f[k] = f[m] => k = m
      /\ \A x \in Servers : x # l => \E k \in 1 .. N - 1 : f[k] = x
  <2>1. \A k, m \in 1 .. N - 1 : f[k] = f[m] => k = m
    BY <1>1, <1>2 DEF Servers
  <2>2. ASSUME NEW x \in Servers, x # l
        PROVE  \E k \in 1 .. N - 1 : f[k] = x
    <3>1. CASE x < l
      <4>1. /\ x + 1 \in 1 .. N - 1 /\ x + 1 <= l /\ x + 1 - 1 = x
            /\ x \in Int /\ l \in Int
        BY <1>1, <3>1 DEF Servers
      <4>2. f[x + 1] = x + 1 - 1
        BY <1>2, <4>1
      <4>3. QED
        BY <4>1, <4>2
    <3>2. CASE x > l
      <4>1. x \in 1 .. N - 1 /\ ~(x <= l)
        BY <1>1, <3>2 DEF Servers
      <4>2. QED
        BY <1>2, <4>1
    <3>3. QED
      BY <1>1, <2>2, <3>1, <3>2 DEF Servers
  <2>3. QED
    BY <2>1, <2>2
<1>4. /\ p1 \in Seq(Servers) /\ Len(p1) = half
      /\ \A k \in 1 .. half : p1[k] = f[k]
  <2>1. \A k \in 1 .. half : f[k] \in Servers
    BY <1>1, <1>2
  <2>2. /\ p1 \in Seq(Servers) /\ Len(p1) = IF 1 <= half THEN half - 1 + 1 ELSE 0
        /\ \A k \in 1 .. half - 1 + 1 : p1[k] = f[1 + k - 1]
    BY <1>1, <2>1, SubSeqProperties
  <2>3. QED
    BY <1>1, <2>2
<1>5. /\ r \in Seq(Servers) /\ Len(r) = N - 1 - half
      /\ \A k \in 1 .. N - 1 - half : r[k] = f[half + k]
  <2>1. \A k \in half + 1 .. N - 1 : f[k] \in Servers
    BY <1>1, <1>2
  <2>2. /\ r \in Seq(Servers)
        /\ Len(r) = IF half + 1 <= N - 1 THEN N - 1 - (half + 1) + 1 ELSE 0
        /\ \A k \in 1 .. N - 1 - (half + 1) + 1 : r[k] = f[half + 1 + k - 1]
    BY <1>1, <2>1, SubSeqProperties
  <2>3. QED
    BY <1>1, <2>2
<1>6. /\ p2 \in Seq(Servers) /\ Len(p2) = N - half
      /\ \A k \in 1 .. N - 1 - half : p2[k] = f[half + k]
      /\ p2[N - half] = l
  <2>1. /\ p2 \in Seq(Servers) /\ Len(p2) = Len(r) + 1
        /\ \A k \in 1 .. Len(r) : p2[k] = r[k]
        /\ p2[Len(r) + 1] = l
    BY <1>5, AppendProperties
  <2>2. Len(r) + 1 = N - half
    BY <1>1, <1>5
  <2>3. QED
    BY <1>5, <2>1, <2>2
<1>7. Members(p1) = {f[k] : k \in 1 .. half}
  BY <1>4 DEF Members
<1>8. \A x : x \in Members(p2) <=> x = l \/ \E k \in half + 1 .. N - 1 : x = f[k]
  <2>1. ASSUME NEW x \in Members(p2)
        PROVE  x = l \/ \E k \in half + 1 .. N - 1 : x = f[k]
    <3>1. PICK k \in 1 .. N - half : x = p2[k]
      BY <1>6 DEF Members
    <3>2. CASE k = N - half
      BY <1>6, <3>1, <3>2
    <3>3. CASE k # N - half
      <4>1. k \in 1 .. N - 1 - half /\ half + k \in half + 1 .. N - 1
        BY <1>1, <3>3
      <4>2. QED
        BY <1>6, <3>1, <4>1
    <3>4. QED
      BY <3>2, <3>3
  <2>2. l \in Members(p2)
    <3>1. N - half \in 1 .. Len(p2)
      BY <1>1, <1>6
    <3>2. QED
      BY <1>6, <3>1 DEF Members
  <2>3. ASSUME NEW k \in half + 1 .. N - 1
        PROVE  f[k] \in Members(p2)
    <3>1. k - half \in 1 .. N - 1 - half /\ half + (k - half) = k
      BY <1>1
    <3>2. k - half \in 1 .. Len(p2)
      BY <1>1, <1>6, <3>1
    <3>3. QED
      BY <1>6, <3>1, <3>2 DEF Members
  <2>4. QED
    BY <2>1, <2>2, <2>3
<1>9. Members(p2) = Servers \ Members(p1)
  <2>1. ASSUME NEW x \in Members(p2)
        PROVE  x \in Servers \ Members(p1)
    <3>1. CASE x = l
      BY <1>1, <1>2, <1>7, <3>1
    <3>2. ASSUME NEW k \in half + 1 .. N - 1, x = f[k]
          PROVE  x \in Servers \ Members(p1)
      <4>1. k \in 1 .. N - 1 /\ \A m \in 1 .. half : m \in 1 .. N - 1 /\ m # k
        BY <1>1
      <4>2. QED
        BY <1>2, <1>3, <1>7, <3>2, <4>1
    <3>3. QED
      BY <1>8, <3>1, <3>2
  <2>2. ASSUME NEW x \in Servers, x \notin Members(p1), x # l
        PROVE  x \in Members(p2)
    <3>1. PICK k \in 1 .. N - 1 : f[k] = x
      BY <1>3, <2>2
    <3>2. k \in half + 1 .. N - 1
      BY <1>1, <1>7, <2>2, <3>1
    <3>3. QED
      BY <1>8, <3>1, <3>2
  <2>3. QED
    BY <1>8, <2>1, <2>2
<1>10. 2 * Cardinality(Members(p2)) < N
  <2>1. p2 \in Surjection(1 .. N - half, Members(p2))
    <3>1. DOMAIN p2 = 1 .. N - half /\ p2 = [k \in 1 .. N - half |-> p2[k]]
      BY <1>6
    <3>2. /\ \A k \in 1 .. N - half : p2[k] \in Members(p2)
          /\ \A x \in Members(p2) : \E k \in 1 .. N - half : p2[k] = x
      BY <1>6 DEF Members
    <3>3. p2 \in [1 .. N - half -> Members(p2)]
      BY <3>1, <3>2
    <3>4. QED
      BY <3>2, <3>3 DEF Surjection
  <2>2. Cardinality(Members(p2)) <= N - half
    BY <1>1, <2>1, FS_SurjCardinalityBound DEF ExistsSurjection
  <2>3. Cardinality(Members(p2)) \in Nat
    <3>1. IsFiniteSet(1 .. N - half)
      BY <1>1, FS_Interval
    <3>2. QED
      BY <2>1, <3>1, FS_Surjection, FS_CardinalityType
  <2>4. QED
    BY <1>1, <2>2, <2>3
<1>11. MakePartition(l)[1] = p1 /\ MakePartition(l)[2] = p2
  BY DEF MakePartition
<1>12. QED
  BY <1>4, <1>6, <1>8, <1>9, <1>10, <1>11

-----------------------------------------------------------------------------
(* The operations.                                                         *)

LEMMA PlainOps ==
  ASSUME Core, NEW i \in Servers,
         ConnectOne(i) \/ DisconnectAll(i) \/ StartServer(i) \/ ShutdownServer(i)
  PROVE  Core'
<1>0. Servers \in SUBSET Servers
  OBVIOUS
<1>1. CASE ConnectOne(i)
  <2>1. <<Con(i, Servers)>> \in Seq(Prims) /\ Con(i, Servers).call = "connect"
    BY <1>0, PrimsMade
  <2>2. Len(<<Con(i, Servers)>>) = 1 /\ \A k \in 1 .. 1 : <<Con(i, Servers)>>[k] = Con(i, Servers)
    OBVIOUS
  <2>3. Begin(<<Con(i, Servers)>>, <<"none">>)
    BY <1>1 DEF ConnectOne
  <2>4. QED
    BY <2>1, <2>2, <2>3, PlainBegin
<1>2. CASE DisconnectAll(i)
  <2>1. /\ <<Dis(i, Servers)>> \in Seq(Prims) /\ Dis(i, Servers).call = "disconnect"
        /\ Dis(i, Servers).to = Servers
    BY <1>0, PrimsMade
  <2>2. Len(<<Dis(i, Servers)>>) = 1 /\ \A k \in 1 .. 1 : <<Dis(i, Servers)>>[k] = Dis(i, Servers)
    OBVIOUS
  <2>3. Begin(<<Dis(i, Servers)>>, <<"none">>)
    BY <1>2 DEF DisconnectAll
  <2>4. QED
    BY <2>1, <2>2, <2>3, PlainBegin
<1>3. CASE StartServer(i)
  <2>1. /\ <<Start(i)>> \in Seq(Prims) /\ Start(i).call = "startServer"
        /\ Start(i).i = i /\ gen[i] < MaxGen
    BY <1>0, <1>3, PrimsMade DEF StartServer, CanStart
  <2>2. Len(<<Start(i)>>) = 1 /\ \A k \in 1 .. 1 : <<Start(i)>>[k] = Start(i)
    OBVIOUS
  <2>3. Begin(<<Start(i)>>, <<"none">>)
    BY <1>3 DEF StartServer
  <2>4. QED
    BY <2>1, <2>2, <2>3, PlainBegin
<1>4. CASE ShutdownServer(i)
  <2>1. /\ <<Dis(i, Servers), Del(i)>> \in Seq(Prims)
        /\ Dis(i, Servers).call = "disconnect" /\ Dis(i, Servers).to = Servers
        /\ Del(i).call = "deleteServer"
    BY <1>0, PrimsMade
  <2>2. /\ Len(<<Dis(i, Servers), Del(i)>>) = 2
        /\ \A k \in 1 .. 2 : \/ <<Dis(i, Servers), Del(i)>>[k] = Dis(i, Servers)
                             \/ <<Dis(i, Servers), Del(i)>>[k] = Del(i)
    OBVIOUS
  <2>3. Begin(<<Dis(i, Servers), Del(i)>>, <<"none">>)
    BY <1>4 DEF ShutdownServer
  <2>4. QED
    BY <2>1, <2>2, <2>3, PlainBegin
<1>5. QED
  BY <1>1, <1>2, <1>3, <1>4

LEMMA ShutdownOp ==
  ASSUME Core, Shutdown
  PROVE  Core'
<1> DEFINE q == [k \in 1 .. 2 * N |->
                   LET i == all[(k + 1) \div 2]
                   IN IF k % 2 = 1 THEN Dis(i, Servers) ELSE Del(i)]
<1>1. \A k \in 1 .. 2 * N : \E i \in Servers : q[k] = Dis(i, Servers) \/ q[k] = Del(i)
  <2> SUFFICES ASSUME NEW k \in 1 .. 2 * N
               PROVE  \E i \in Servers : q[k] = Dis(i, Servers) \/ q[k] = Del(i)
    OBVIOUS
  <2>1. all[(k + 1) \div 2] \in Servers
    BY GroupAssumption DEF all, Servers
  <2>2. QED
    BY <2>1
<1>2. ASSUME NEW k \in 1 .. 2 * N
      PROVE  /\ q[k] \in Prims
             /\ \/ q[k].call = "disconnect" /\ q[k].to = Servers
                \/ q[k].call = "deleteServer"
  <2>1. PICK i \in Servers : q[k] = Dis(i, Servers) \/ q[k] = Del(i)
    BY <1>1
  <2>2. QED
    BY <2>1, PrimsMade
<1>3. q \in Seq(Prims) /\ Len(q) = 2 * N
  BY <1>2, GroupAssumption
<1>4. QED
  BY <1>2, <1>3, PlainBegin DEF Shutdown

LEMMA AllOps ==
  ASSUME Core, ConnectAll \/ StartServers \/ \E i \in Servers : restart(i)
  PROVE  Core'
<1>1. CASE ConnectAll
  <2>1. <<>> \in Seq(Prims) /\ Len(<<>>) = 0
    OBVIOUS
  <2>2. <<>> \o conAll = conAll
    BY GroupAssumption DEF conAll
  <2>3. Begin(<<>> \o conAll, <<"all">>)
    BY <1>1, <2>2 DEF ConnectAll
  <2>4. \A k \in 1 .. Len(<<>>) : FALSE
    BY <2>1
  <2>5. QED
    BY <2>1, <2>3, <2>4, AllBegin
<1>2. CASE StartServers
  <2> DEFINE q == [k \in 1 .. N |-> Start(all[k])]
  <2>1. \A k \in 1 .. N : all[k] = k - 1 /\ k - 1 \in Servers
    BY GroupAssumption DEF all, Servers
  <2>2. \A k \in 1 .. N :
          /\ q[k] \in Prims /\ q[k].call = "startServer" /\ q[k].i = k - 1
          /\ gen[q[k].i] < MaxGen
    BY <1>2, <2>1, PrimsMade DEF StartServers, CanStart
  <2>3. q \in Seq(Prims) /\ Len(q) = N
    BY <2>2, GroupAssumption
  <2>4. \A k, m \in 1 .. N : q[m].i = q[k].i => m = k
    BY <2>2, GroupAssumption
  <2>5. QED
    BY <1>2, <2>2, <2>3, <2>4, AllBegin DEF StartServers, startAll
<1>3. ASSUME NEW i \in Servers, restart(i)
      PROVE  Core'
  <2>1. /\ <<Start(i)>> \in Seq(Prims) /\ Start(i).call = "startServer"
        /\ Start(i).i = i /\ gen[i] < MaxGen
    BY <1>3, PrimsMade DEF restart, CanStart
  <2>2. /\ Len(<<Start(i)>>) = 1
        /\ \A k \in 1 .. 1 : <<Start(i)>>[k] = Start(i) /\ k = 1
    OBVIOUS
  <2>3. Begin(<<Start(i)>> \o conAll, <<"all">>)
    BY <1>3 DEF restart
  <2>4. QED
    BY <2>1, <2>2, <2>3, AllBegin
<1>4. QED
  BY <1>1, <1>2, <1>3

LEMMA SplitOps ==
  ASSUME Core, \/ \E l \in Servers : PartitionLeader(l)
               \/ \E S \in SUBSET Servers : RandomPartition(S)
  PROVE  Core'
<1>1. ASSUME NEW l \in Servers, PartitionLeader(l)
      PROVE  Core'
  <2> DEFINE p1 == MakePartition(l)[1]
             p2 == MakePartition(l)[2]
  <2>1. N % 2 = 1 /\ N > 1 /\ Partition(p1, p2, l)
    BY <1>1 DEF PartitionLeader
  <2>2. /\ p1 \in Seq(Servers) /\ p2 \in Seq(Servers)
        /\ Members(p2) = Servers \ Members(p1)
        /\ l \in Members(p2) /\ 2 * Cardinality(Members(p2)) < N
    BY <2>1, MakePartitionFacts
  <2>3. l \in -1 .. N - 1
    BY GroupAssumption DEF Servers
  <2>4. QED
    BY <2>1, <2>2, <2>3, SplitBegin
<1>2. ASSUME NEW S \in SUBSET Servers, RandomPartition(S)
      PROVE  Core'
  <2>1. PICK p1 \in Slices(S), p2 \in Slices(Servers \ S) : Partition(p1, p2, -1)
    BY <1>2 DEF RandomPartition
  <2>2. \A T \in SUBSET Servers : Cardinality(T) \in Nat
    <3>1. IsFiniteSet(Servers)
      BY FS_Interval, GroupAssumption DEF Servers
    <3>2. QED
      BY <3>1, FS_Subset, FS_CardinalityType
  <2>3. \A T \in SUBSET Servers : \A p \in Slices(T) : p \in Seq(Servers) /\ Members(p) = T
    BY <2>2 DEF Slices
  <2>4. /\ p1 \in Seq(Servers) /\ Members(p1) = S
        /\ p2 \in Seq(Servers) /\ Members(p2) = Servers \ S
    BY <2>1, <2>3
  <2>5. -1 \in -1 .. N - 1
    BY GroupAssumption
  <2>6. QED
    BY <2>1, <2>4, <2>5, SplitBegin
<1>3. QED
  BY <1>1, <1>2

\* Core is inductive.
LEMMA CoreHolds == GroupSpec => []Core
<1>1. Core /\ [GroupNext]_groupVars => Core'
  <2> SUFFICES ASSUME Core, [GroupNext]_groupVars
               PROVE  Core'
    OBVIOUS
  <2>1. CASE Step
    BY <2>1, CoreStep
  <2>2. CASE StartServers \/ ConnectAll \/ \E i \in Servers : restart(i)
    BY <2>2, AllOps
  <2>3. CASE Shutdown
    BY <2>3, ShutdownOp
  <2>4. ASSUME NEW i \in Servers,
               ConnectOne(i) \/ DisconnectAll(i) \/ StartServer(i) \/ ShutdownServer(i)
        PROVE  Core'
    BY <2>4, PlainOps
  <2>5. CASE \/ \E l \in Servers : PartitionLeader(l)
             \/ \E S \in SUBSET Servers : RandomPartition(S)
    BY <2>5, SplitOps
  <2>6. CASE UNCHANGED groupVars
    BY <2>6 DEF groupVars, Core, GroupTypeOK, EndsKnown, StartsNew, CutsRejoin,
                UnmarkedIsolated, AllProgress, SplitProgress, LeaderGoal, Linked, End,
                Own, Waits, CutWaits
  <2>7. QED
    BY <2>1, <2>2, <2>3, <2>4, <2>5, <2>6 DEF GroupNext
<1>2. QED
  BY <1>1, CoreInit, PTL DEF GroupSpec

\* For every number of servers: between operations a server that is not marked
\* connected has no enabled end in either direction, ConnectAll() and restart()
\* have linked every pair, and each operation is as far as its remaining calls say.
THEOREM GroupInvariantHolds == GroupSpec => []GroupInv
BY CoreHolds, CoreSuffices, PTL

LEMMA CoreSplit ==
  ASSUME Core, Idle, goal[1] = "split"
  PROVE  /\ goal[2] \in SUBSET Servers /\ goal[3] \in -1 .. N - 1
         /\ \A i, j \in Servers : Linked(i, j) <=> (i \in goal[2] <=> j \in goal[2])
<1>1. goal[2] \in SUBSET Servers /\ goal[3] \in -1 .. N - 1
  BY DEF Core, GroupTypeOK, Goals
<1>2. \A i \in Servers : ~Waits(i) /\ ~CutWaits(i)
  BY DEF Idle, Waits, CutWaits
<1>3. QED
  BY <1>1, <1>2 DEF Core, SplitProgress, Own

\* For every number of servers and every pair of slices that make up the group:
\* once Partition() is done two servers are linked exactly when they are on the
\* same side, whatever was connected, cut off or shut down before.
THEOREM PartitionExactHolds == GroupSpec => []PartitionExact
<1>1. Core => PartitionExact
  BY CoreSplit DEF PartitionExact
<1>2. QED
  BY <1>1, CoreHolds, PTL

\* For every odd number of servers above one: once the group is partitioned by
\* MakePartition(l), l reaches a minority and the others can all reach each other.
THEOREM LeaderInMinorityHolds == GroupSpec => []LeaderInMinority
<1>1. Core => LeaderInMinority
  <2> SUFFICES ASSUME Core, Idle, goal[1] = "split", goal[3] # -1
               PROVE  LET reach == {j \in Servers : Linked(goal[3], j)}
                          rest == Servers \ reach
                      IN /\ 2 * Cardinality(reach) < N
                         /\ \A i, j \in rest : Linked(i, j)
    BY DEF LeaderInMinority
  <2>1. goal[3] \in Servers \ goal[2] /\ 2 * Cardinality(Servers \ goal[2]) < N
    BY DEF Core, LeaderGoal
  <2>2. {j \in Servers : Linked(goal[3], j)} = Servers \ goal[2]
    BY <2>1, CoreSplit
  <2>3. QED
    BY <2>1, <2>2, CoreSplit
<1>2. QED
  BY <1>1, CoreHolds, PTL
-----------------------------------------------------------------------------
(* nparallel(): for any set of worker processes and any number of runs,    *)
(* workers that sleep together have not overlooked each other, and nobody  *)
(* counts a process that was killed before.                                *)

USE NParallelAssumption

\* Nobody is inside, so that every part of the invariant holds vacuously.
LEMMA InitNInv == Init => NInv
BY DEF Init, NInv, TypeOK, PCs, FilesRight, FoundOne, ScanRight, MetRight, Inside, Alive

\* A worker that enters creates its file, has read nothing and counted nobody.
LEMMA WriteFileNInv ==
  ASSUME NInv, NEW w \in Workers, WriteFile(w)
  PROVE  NInv'
<1>1. TypeOK'
  BY DEF NInv, TypeOK, PCs, WriteFile, Inside
<1>2. FilesRight'
  BY DEF NInv, TypeOK, FilesRight, WriteFile, Inside
<1>3. FoundOne'
  BY DEF NInv, TypeOK, FoundOne, WriteFile, Inside
<1>4. ScanRight'
  BY DEF NInv, TypeOK, ScanRight, WriteFile, Inside, Alive
<1>5. MetRight'
  BY DEF NInv, TypeOK, MetRight, WriteFile, Inside, Alive
<1> QED
  BY <1>1, <1>2, <1>3, <1>4, <1>5 DEF NInv

\* A name that is there when the scan gets to it is that of a worker inside,
\* or of a process that was killed.  If w gets to x last of the two, the file
\* of x is there.
LEMMA ReadNameNInv ==
  ASSUME NInv, NEW w \in Workers, NEW x \in Workers, ReadName(w, x)
  PROVE  NInv'
<1>1. TypeOK'
  BY DEF NInv, TypeOK, PCs, ReadName
<1>2. FilesRight'
  BY DEF NInv, FilesRight, ReadName, Inside
<1>3. FoundOne'
  BY DEF NInv, TypeOK, FilesRight, FoundOne, ReadName, Inside
<1>4. ScanRight'
  BY DEF NInv, TypeOK, FilesRight, ScanRight, ReadName, Inside, Alive
<1>5. MetRight'
  BY DEF NInv, TypeOK, FilesRight, MetRight, ReadName, Inside, Alive
<1> QED
  BY <1>1, <1>2, <1>3, <1>4, <1>5 DEF NInv

\* All names that were found are to be looked for.
LEMMA ScanEndsNInv ==
  ASSUME NInv, NEW w \in Workers, ScanEnds(w)
  PROVE  NInv'
<1>1. TypeOK'
  BY DEF NInv, TypeOK, PCs, ScanEnds
<1>2. FilesRight'
  BY DEF NInv, TypeOK, FilesRight, ScanEnds, Inside
<1>3. FoundOne'
  BY DEF NInv, TypeOK, FoundOne, ScanEnds, Inside
<1>4. ScanRight'
  BY DEF NInv, TypeOK, ScanRight, ScanEnds, Inside, Alive
<1>5. MetRight'
  BY DEF NInv, TypeOK, MetRight, ScanEnds, Inside, Alive
<1> QED
  BY <1>1, <1>2, <1>3, <1>4, <1>5 DEF NInv

\* A process that is looked for is counted if it is alive.
LEMMA Kill0NInv ==
  ASSUME NInv, NEW w \in Workers, NEW x \in Workers, Kill0(w, x)
  PROVE  NInv'
<1>1. TypeOK'
  BY DEF NInv, TypeOK, PCs, Kill0
<1>2. FilesRight'
  BY DEF NInv, FilesRight, Kill0, Inside
<1>3. FoundOne'
  BY DEF NInv, FoundOne, Kill0, Inside
<1>4. ScanRight'
  BY DEF NInv, TypeOK, ScanRight, Kill0, Counts, Inside, Alive
<1>5. MetRight'
  BY DEF NInv, TypeOK, ScanRight, MetRight, Kill0, Counts, Inside, Alive
<1> QED
  BY <1>1, <1>2, <1>3, <1>4, <1>5 DEF NInv

\* Nobody is left to be looked for, so that all that are alive were counted.
LEMMA SleepNInv ==
  ASSUME NInv, NEW w \in Workers, Sleep(w)
  PROVE  NInv'
<1>1. TypeOK'
  BY DEF NInv, TypeOK, PCs, Sleep
<1>2. FilesRight'
  BY DEF NInv, TypeOK, FilesRight, Sleep, Inside
<1>3. FoundOne'
  BY DEF NInv, TypeOK, FoundOne, Sleep, Inside
<1>4. ScanRight'
  BY DEF NInv, TypeOK, ScanRight, Sleep, Inside, Alive
<1>5. MetRight'
  BY DEF NInv, TypeOK, MetRight, Sleep, Inside, Alive
<1> QED
  BY <1>1, <1>2, <1>3, <1>4, <1>5 DEF NInv

\* A worker that leaves takes its own file along.
LEMMA RemoveNInv ==
  ASSUME NInv, NEW w \in Workers, Remove(w)
  PROVE  NInv'
<1>1. TypeOK'
  BY DEF NInv, TypeOK, PCs, Remove
<1>2. FilesRight'
  BY DEF NInv, TypeOK, FilesRight, Remove, Inside
<1>3. FoundOne'
  BY DEF NInv, TypeOK, FoundOne, Remove, Inside
<1>4. ScanRight'
  BY DEF NInv, TypeOK, ScanRight, Remove, Inside, Alive
<1>5. MetRight'
  BY DEF NInv, TypeOK, MetRight, Remove, Inside, Alive
<1> QED
  BY <1>1, <1>2, <1>3, <1>4, <1>5 DEF NInv

\* A process that ends leaves what it did as it is, its file included.
LEMMA CrashNInv ==
  ASSUME NInv, NEW w \in Workers, Crash(w)
  PROVE  NInv'
<1>1. TypeOK'
  BY DEF NInv, TypeOK, PCs, Crash
<1>2. FilesRight'
  BY DEF NInv, TypeOK, FilesRight, Crash, Inside
<1>3. FoundOne'
  BY DEF NInv, TypeOK, FoundOne, Crash, Inside
<1>4. ScanRight'
  BY DEF NInv, TypeOK, ScanRight, Crash, Inside, Alive
<1>5. MetRight'
  BY DEF NInv, TypeOK, MetRight, Crash, Inside, Alive
<1> QED
  BY <1>1, <1>2, <1>3, <1>4, <1>5 DEF NInv

\* Every step of a worker, and every step of the rest of the world, keeps the
\* invariant.
LEMMA NextNInv == NInv /\ [Next]_vars => NInv'
<1> SUFFICES ASSUME NInv, [Next]_vars PROVE NInv'
  OBVIOUS
<1>1. CASE Next
  <2>1. PICK w \in Workers : Worker(w)
    BY <1>1 DEF Next
  <2>2. CASE WriteFile(w) \/ ScanEnds(w) \/ Sleep(w) \/ Remove(w) \/ Crash(w)
    BY <2>2, WriteFileNInv, ScanEndsNInv, SleepNInv, RemoveNInv, CrashNInv
  <2>3. CASE \E x \in Workers : ReadName(w, x) \/ Kill0(w, x)
    BY <2>3, ReadNameNInv, Kill0NInv
  <2> QED
    BY <2>1, <2>2, <2>3 DEF Worker
<1>2. CASE UNCHANGED vars
  BY <1>2 DEF vars, NInv, TypeOK, FilesRight, FoundOne, ScanRight, MetRight, Inside, Alive
<1> QED
  BY <1>1, <1>2

\* The invariant of the directory, the scans and the counts of nparallel()
\* holds for any set of workers and any number of runs.
THEOREM NInvariantHolds == Spec => []NInv
BY InitNInv, NextNInv, PTL DEF Spec

\* Two workers that sleep in nparallel() at the same time have not overlooked
\* each other: of the two scans, the one that got to the other's name last
\* found its file, and the process was alive when it was looked for.
THEOREM ParallelNoticedHolds == Spec => []ParallelNoticed
<1>1. NInv => ParallelNoticed
  BY DEF NInv, FoundOne, ScanRight, ParallelNoticed, Inside, Alive
<1> QED
  BY <1>1, NInvariantHolds, PTL

\* A worker counts itself, and otherwise only processes that were in
\* nparallel() together with it: a file that a killed process left does not
\* count.
THEOREM CountedRanHolds == Spec => []CountedRan
<1>1. NInv => CountedRan
  BY DEF NInv, TypeOK, ScanRight, MetRight, CountedRan, Inside, Alive
<1> QED
  BY <1>1, NInvariantHolds, PTL
=============================================================================
