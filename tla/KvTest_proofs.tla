--------------------------- MODULE KvTest_proofs ---------------------------
(***************************************************************************)
(* Proofs about KvTest, for any number of clients, iterations, versions    *)
(* and requests given up: with a service and clerks that do what the labs  *)
(* ask for, no check of the harness fails a test, and the log is           *)
(* linearizable.                                                           *)
(***************************************************************************)
EXTENDS KvTest, FiniteSetTheorems, SequenceTheorems, WellFoundedInduction, TLAPS

-----------------------------------------------------------------------------
(* Induction.  A set of naturals has a least element, so that a set with 0 *)
(* that has the successors of its elements up to n holds all of 0 .. n.    *)

NatOrder == {p \in Nat \X Nat : p[1] < p[2]}

LEMMA NatMin ==
  ASSUME NEW T \in SUBSET Nat, T # {}
  PROVE  \E m \in T : \A k \in T : m <= k
<1>1. OpToRel(<, Nat) = NatOrder
  BY DEF OpToRel, NatOrder
<1>2. IsWellFoundedOn(NatOrder, Nat)
  BY <1>1, NatLessThanWellFounded
<1>3. PICK m \in T : \A k \in T : ~(<<k, m>> \in NatOrder)
  BY <1>2, WFMin
<1>4. \A k \in T : k \in Nat /\ m \in Nat /\ ~(k < m)
  BY <1>3 DEF NatOrder
<1>5. QED
  BY <1>4

LEMMA UpTo ==
  ASSUME NEW n \in Nat, NEW T, 0 \in T,
         \A k \in 0 .. n : k \in T /\ k < n => k + 1 \in T
  PROVE  \A k \in 0 .. n : k \in T
<1> DEFINE U == {k \in 0 .. n : k \notin T}
<1> SUFFICES ASSUME U # {} PROVE FALSE
  OBVIOUS
<1>1. PICK m \in U : \A k \in U : m <= k
  <2>1. U \in SUBSET Nat
    OBVIOUS
  <2> HIDE DEF U
  <2>2. QED
    BY <2>1, NatMin
<1>2. m # 0 /\ m - 1 \in 0 .. n /\ m - 1 \notin U
  BY <1>1
<1>3. QED
  BY <1>1, <1>2

LEMMA CardDisjoint ==
  ASSUME NEW S, NEW T, IsFiniteSet(S), IsFiniteSet(T), S \cap T = {}
  PROVE  Cardinality(S \cup T) = Cardinality(S) + Cardinality(T)
<1>1. Cardinality(S \cup T) = Cardinality(S) + Cardinality(T) - Cardinality(S \cap T)
  BY FS_Union
<1>2. Cardinality(S \cap T) = 0
  BY FS_EmptySet
<1>3. Cardinality(S) \in Nat /\ Cardinality(T) \in Nat
  BY FS_CardinalityType
<1>4. QED
  BY <1>1, <1>2, <1>3

-----------------------------------------------------------------------------
(* The sums of CheckPutConcurrent().                                       *)

IsSum(s, f, n) == s = [k \in 0 .. n |-> IF k = 0 THEN 0 ELSE s[k - 1] + f[k]]

\* The recursion of Sum has a solution.
LEMMA SumExists ==
  ASSUME NEW f PROVE \E s : IsSum(s, f, NClnt)
<1> DEFINE T == {k \in 0 .. NClnt : \E s : IsSum(s, f, k)}
<1>0. NClnt \in Nat
  BY KvTestAssumption
<1>1. 0 \in T
  <2> DEFINE s == [k \in 0 .. 0 |-> 0]
  <2>1. IsSum(s, f, 0)
    BY DEF IsSum
  <2>2. QED
    BY <1>0, <2>1
<1>2. ASSUME NEW k \in 0 .. NClnt, k \in T, k < NClnt PROVE k + 1 \in T
  <2>1. PICK s : IsSum(s, f, k)
    BY <1>2
  <2> DEFINE g == [j \in 0 .. k + 1 |-> IF j = k + 1 THEN s[k] + f[k + 1] ELSE s[j]]
  <2>2. IsSum(g, f, k + 1)
    BY <1>0, <2>1 DEF IsSum
  <2> HIDE DEF g
  <2>3. k + 1 \in 0 .. NClnt
    BY <1>0, <1>2
  <2>4. QED
    BY <2>2, <2>3
<1>3. NClnt \in T
  <2> HIDE DEF T
  <2>1. QED
    BY <1>0, <1>1, <1>2, UpTo
<1>4. QED
  BY <1>3

LEMMA SumFacts ==
  ASSUME NEW f \in [Clnt -> Nat]
  PROVE  \E s \in [0 .. NClnt -> Nat] :
           /\ Sum(f) = s[NClnt] /\ s[0] = 0
           /\ \A k \in 0 .. NClnt : k < NClnt => s[k + 1] = s[k] + f[k + 1]
<1> DEFINE s == CHOOSE s : IsSum(s, f, NClnt)
<1>0. NClnt \in Nat /\ NClnt \in 0 .. NClnt /\ 0 \in 0 .. NClnt
  BY KvTestAssumption
<1>1. Sum(f) = s[NClnt]
  BY DEF Sum, IsSum
<1>2. IsSum(s, f, NClnt)
  BY SumExists
<1> HIDE DEF s
<1>3. /\ DOMAIN s = 0 .. NClnt /\ s = [k \in 0 .. NClnt |-> s[k]] /\ s[0] = 0
      /\ \A k \in 0 .. NClnt : k < NClnt => s[k + 1] = s[k] + f[k + 1]
  BY <1>0, <1>2 DEF IsSum
<1>4. \A k \in 0 .. NClnt : s[k] \in Nat
  <2> DEFINE T == {k \in 0 .. NClnt : s[k] \in Nat}
  <2>1. 0 \in T
    BY <1>0, <1>3
  <2>2. ASSUME NEW k \in 0 .. NClnt, k \in T, k < NClnt PROVE k + 1 \in T
    <3>1. k + 1 \in Clnt /\ k + 1 \in 0 .. NClnt
      BY <1>0, <2>2 DEF Clnt
    <3>2. QED
      BY <1>3, <2>2, <3>1
  <2> HIDE DEF T
  <2>3. \A k \in 0 .. NClnt : k \in T
    BY <1>0, <2>1, <2>2, UpTo
  <2>4. QED
    BY <2>3 DEF T
<1>5. s \in [0 .. NClnt -> Nat]
  BY <1>3, <1>4
<1>6. QED
  BY <1>1, <1>3, <1>5

\* Versions that each have an owner are as many as the owners have together.
LEMMA OwnersSum ==
  ASSUME NEW v \in Nat, NEW own \in [1 .. v -> Clnt], NEW f \in [Clnt -> Nat],
         \A c \in Clnt : Cardinality({k \in 1 .. v : own[k] = c}) = f[c]
  PROVE  v = Sum(f)
<1> DEFINE A(n) == {k \in 1 .. v : own[k] \in 1 .. n}
           O(c) == {k \in 1 .. v : own[k] = c}
<1>0. NClnt \in Nat /\ Clnt = 1 .. NClnt
  BY KvTestAssumption DEF Clnt
<1>1. PICK s \in [0 .. NClnt -> Nat] :
        /\ Sum(f) = s[NClnt] /\ s[0] = 0
        /\ \A k \in 0 .. NClnt : k < NClnt => s[k + 1] = s[k] + f[k + 1]
  BY SumFacts
<1>3. IsFiniteSet(1 .. v) /\ Cardinality(1 .. v) = v
  BY FS_Interval
<1>4. /\ \A n : IsFiniteSet(A(n)) /\ Cardinality(A(n)) \in Nat
      /\ \A c : IsFiniteSet(O(c)) /\ Cardinality(O(c)) \in Nat
  BY <1>3, FS_Subset, FS_CardinalityType
<1>5. A(0) = {} /\ A(NClnt) = 1 .. v
  BY <1>0
<1>6. ASSUME NEW n \in 0 .. NClnt, n < NClnt
      PROVE  /\ n + 1 \in Clnt /\ n + 1 \in 0 .. NClnt
             /\ A(n + 1) = A(n) \cup O(n + 1) /\ A(n) \cap O(n + 1) = {}
             /\ Cardinality(O(n + 1)) = f[n + 1]
  <2>1. n + 1 \in Clnt /\ n + 1 \in 0 .. NClnt
    BY <1>0, <1>6
  <2>2. 1 .. n + 1 = (1 .. n) \cup {n + 1} /\ n + 1 \notin 1 .. n
    BY n \in Nat
  <2>3. A(n + 1) = A(n) \cup O(n + 1) /\ A(n) \cap O(n + 1) = {}
    BY <2>2, Zenon
  <2>4. QED
    BY <2>1, <2>3
<1> HIDE DEF A, O
<1> DEFINE T == {n \in 0 .. NClnt : Cardinality(A(n)) = s[n]}
<1>7. 0 \in T
  <2>1. Cardinality(A(0)) = 0
    BY <1>5, FS_EmptySet, Zenon
  <2>2. QED
    BY <1>0, <1>1, <2>1
<1>8. ASSUME NEW n \in 0 .. NClnt, n \in T, n < NClnt PROVE n + 1 \in T
  <2>1. Cardinality(A(n + 1)) = Cardinality(A(n)) + Cardinality(O(n + 1))
    BY <1>4, <1>6, <1>8, CardDisjoint
  <2>2. s[n + 1] = s[n] + f[n + 1]
    BY <1>1, <1>8
  <2>3. Cardinality(A(n)) = s[n] /\ Cardinality(O(n + 1)) = f[n + 1]
    BY <1>6, <1>8
  <2>5. QED
    BY <1>6, <1>8, <2>1, <2>2, <2>3
<1> HIDE DEF T
<1>9. \A k \in 0 .. NClnt : k \in T
  BY <1>0, <1>7, <1>8, UpTo
<1>10. Cardinality(A(NClnt)) = s[NClnt]
  BY <1>0, <1>9 DEF T
<1>11. QED
  BY <1>1, <1>3, <1>5, <1>10

LEMMA SumLeq ==
  ASSUME NEW h \in [Clnt -> Nat], NEW f \in [Clnt -> Nat], NEW g \in [Clnt -> Nat],
         \A c \in Clnt : h[c] <= f[c] + g[c]
  PROVE  Sum(h) <= Sum(f) + Sum(g)
<1>0. NClnt \in Nat /\ Clnt = 1 .. NClnt
  BY KvTestAssumption DEF Clnt
<1>1. PICK s \in [0 .. NClnt -> Nat] :
        /\ Sum(f) = s[NClnt] /\ s[0] = 0
        /\ \A k \in 0 .. NClnt : k < NClnt => s[k + 1] = s[k] + f[k + 1]
  BY SumFacts
<1>2. PICK r \in [0 .. NClnt -> Nat] :
        /\ Sum(g) = r[NClnt] /\ r[0] = 0
        /\ \A k \in 0 .. NClnt : k < NClnt => r[k + 1] = r[k] + g[k + 1]
  BY SumFacts
<1>3. PICK q \in [0 .. NClnt -> Nat] :
        /\ Sum(h) = q[NClnt] /\ q[0] = 0
        /\ \A k \in 0 .. NClnt : k < NClnt => q[k + 1] = q[k] + h[k + 1]
  BY SumFacts
<1> DEFINE T == {n \in 0 .. NClnt : q[n] <= s[n] + r[n]}
<1>7. 0 \in T
  BY <1>0, <1>1, <1>2, <1>3
<1>8. ASSUME NEW n \in 0 .. NClnt, n \in T, n < NClnt PROVE n + 1 \in T
  <2>1. n + 1 \in Clnt /\ n + 1 \in 0 .. NClnt
    BY <1>0, <1>8
  <2>2. /\ s[n + 1] = s[n] + f[n + 1] /\ r[n + 1] = r[n] + g[n + 1]
        /\ q[n + 1] = q[n] + h[n + 1]
    BY <1>1, <1>2, <1>3, <1>8
  <2>3. q[n] <= s[n] + r[n] /\ h[n + 1] <= f[n + 1] + g[n + 1]
    BY <1>8, <2>1
  <2>4. /\ s[n] \in Nat /\ r[n] \in Nat /\ q[n] \in Nat
        /\ f[n + 1] \in Nat /\ g[n + 1] \in Nat /\ h[n + 1] \in Nat
    BY <2>1
  <2>5. q[n + 1] <= s[n + 1] + r[n + 1]
    BY <2>2, <2>3, <2>4
  <2>6. QED
    BY <2>1, <2>5
<1> HIDE DEF T
<1>9. \A k \in 0 .. NClnt : k \in T
  BY <1>0, <1>7, <1>8, UpTo
<1>10. QED
  BY <1>0, <1>1, <1>2, <1>3, <1>9 DEF T

-----------------------------------------------------------------------------
(* The list that CheckAppends() walks through.                             *)

IsRun(r, es, n) ==
  r = [k \in 0 .. n |-> IF k = 0 THEN CheckStart ELSE CheckEntry(r[k - 1], es[k])]

\* The recursion of CheckRun has a solution.
LEMMA RunExists ==
  ASSUME NEW es, Len(es) \in Nat PROVE \E r : IsRun(r, es, Len(es))
<1> DEFINE N == Len(es)
           T == {k \in 0 .. N : \E r : IsRun(r, es, k)}
<1>1. 0 \in T
  <2> DEFINE r == [k \in 0 .. 0 |-> CheckStart]
  <2>1. IsRun(r, es, 0)
    BY DEF IsRun
  <2>2. QED
    BY <2>1
<1>2. ASSUME NEW k \in 0 .. N, k \in T, k < N PROVE k + 1 \in T
  <2>1. PICK r : IsRun(r, es, k)
    BY <1>2
  <2> DEFINE g == [j \in 0 .. k + 1 |->
                     IF j = k + 1 THEN CheckEntry(r[k], es[k + 1]) ELSE r[j]]
  <2>2. IsRun(g, es, k + 1)
    BY <2>1 DEF IsRun
  <2> HIDE DEF g
  <2>3. k + 1 \in 0 .. N
    BY <1>2
  <2>4. QED
    BY <2>2, <2>3
<1> HIDE DEF T
<1>3. \A k \in 0 .. N : k \in T
  BY <1>1, <1>2, UpTo
<1>4. QED
  BY <1>3 DEF T

\* How many of the first n entries are of client c.
EntriesOf(es, c, n) == {k \in 1 .. n : es[k][1] = c}

LEMMA EntriesGrow ==
  ASSUME NEW es, NEW c, NEW n \in Nat
  PROVE  /\ Cardinality(EntriesOf(es, c, n)) \in Nat
         /\ Cardinality(EntriesOf(es, c, 0)) = 0
         /\ es[n + 1][1] = c => Cardinality(EntriesOf(es, c, n + 1)) =
                                  Cardinality(EntriesOf(es, c, n)) + 1
         /\ es[n + 1][1] # c => EntriesOf(es, c, n + 1) = EntriesOf(es, c, n)
<1>1. IsFiniteSet(EntriesOf(es, c, n))
  <2>1. IsFiniteSet(1 .. n)
    BY FS_Interval
  <2>2. EntriesOf(es, c, n) \subseteq 1 .. n
    BY DEF EntriesOf
  <2>3. QED
    BY <2>1, <2>2, FS_Subset
<1>2. Cardinality(EntriesOf(es, c, n)) \in Nat
  BY <1>1, FS_CardinalityType
<1>3. EntriesOf(es, c, 0) = {}
  BY DEF EntriesOf
<1>4. EntriesOf(es, c, n + 1) = IF es[n + 1][1] = c THEN EntriesOf(es, c, n) \cup {n + 1}
                                ELSE EntriesOf(es, c, n)
  <2>1. \A k : k \in 1 .. n + 1 <=> k \in 1 .. n \/ k = n + 1
    OBVIOUS
  <2>2. QED
    BY <2>1 DEF EntriesOf
<1>5. n + 1 \notin EntriesOf(es, c, n)
  BY DEF EntriesOf
<1>6. Cardinality(EntriesOf(es, c, n) \cup {n + 1}) = Cardinality(EntriesOf(es, c, n)) + 1
  BY <1>1, <1>5, FS_AddElement
<1>7. Cardinality(EntriesOf(es, c, 0)) = 0
  BY <1>3, FS_EmptySet
<1>8. QED
  BY <1>2, <1>4, <1>6, <1>7

\* After a prefix of n entries: nothing was found, and what was skipped of a client
\* and what was seen of it add up to what is expected next.
RunFits(a, es, n) ==
  /\ a.bad = FALSE /\ a.expect \in [Clnt -> Nat] /\ a.skipped \in [Clnt -> Nat]
  /\ \A c \in Clnt :
       /\ a.skipped[c] + Cardinality(EntriesOf(es, c, n)) = a.expect[c]
       /\ a.expect[c] = 0 \/ \E j \in 1 .. n : es[j][1] = c /\ es[j][2] + 1 = a.expect[c]

\* If the numbers of each client go up in the list.
Rising(es) ==
  /\ \A j \in 1 .. Len(es) : es[j] \in Clnt \X Nat
  /\ \A j, k \in 1 .. Len(es) : j < k /\ es[j][1] = es[k][1] => es[j][2] < es[k][2]

LEMMA RunStep ==
  ASSUME NEW es, Len(es) \in Nat, Rising(es), NEW n \in 0 .. Len(es), n < Len(es), NEW a,
         RunFits(a, es, n)
  PROVE  RunFits(CheckEntry(a, es[n + 1]), es, n + 1)
<1> DEFINE d == es[n + 1][1]
           m == es[n + 1][2]
           b == CheckEntry(a, es[n + 1])
<1>1. n \in Nat /\ n + 1 \in 1 .. Len(es) /\ d \in Clnt /\ m \in Nat
  BY DEF Rising
<1>2. a.expect[d] \in Nat /\ a.skipped[d] \in Nat /\ a.expect[d] <= m
  <2>1. a.expect[d] \in Nat /\ a.skipped[d] \in Nat
    BY <1>1 DEF RunFits
  <2>2. CASE a.expect[d] = 0
    BY <1>1, <2>1, <2>2
  <2>3. CASE a.expect[d] # 0
    <3>1. PICK j \in 1 .. n : es[j][1] = d /\ es[j][2] + 1 = a.expect[d]
      BY <1>1, <2>3 DEF RunFits
    <3>2. j \in 1 .. Len(es) /\ j < n + 1
      BY <1>1
    <3>3. es[j][2] < m /\ es[j][2] \in Nat
      BY <1>1, <3>1, <3>2 DEF Rising
    <3> HIDE DEF d, m
    <3>4. QED
      BY <1>1, <3>1, <3>3, <2>1
  <2>4. QED
    BY <2>1, <2>2, <2>3
<1>3. b = [bad |-> a.bad \/ a.expect[d] > m,
           expect |-> [a.expect EXCEPT ![d] = m + 1],
           skipped |-> [a.skipped EXCEPT ![d] = @ + (m - a.expect[d])]]
  BY DEF CheckEntry
<1> HIDE DEF b
<1>4. b.bad = FALSE
  <2> HIDE DEF d, m
  <2>1. a.bad = FALSE
    BY DEF RunFits
  <2>2. ~(a.expect[d] > m)
    BY <1>1, <1>2
  <2>3. b.bad = (a.bad \/ a.expect[d] > m)
    BY <1>3
  <2>4. QED
    BY <2>1, <2>2, <2>3
<1>5. /\ b.expect = [a.expect EXCEPT ![d] = m + 1]
      /\ b.skipped = [a.skipped EXCEPT ![d] = a.skipped[d] + (m - a.expect[d])]
  BY <1>1, <1>3 DEF RunFits
<1>6. a.skipped[d] + (m - a.expect[d]) \in Nat
  BY <1>1, <1>2
<1>7. b.expect \in [Clnt -> Nat] /\ b.skipped \in [Clnt -> Nat]
  <2>1. a.expect \in [Clnt -> Nat] /\ a.skipped \in [Clnt -> Nat]
    BY DEF RunFits
  <2> HIDE DEF d, m
  <2>2. QED
    BY <1>1, <1>5, <1>6, <2>1
<1>8. ASSUME NEW c \in Clnt
      PROVE  /\ b.skipped[c] + Cardinality(EntriesOf(es, c, n + 1)) = b.expect[c]
             /\ b.expect[c] = 0 \/ \E j \in 1 .. n + 1 : es[j][1] = c /\ es[j][2] + 1 = b.expect[c]
  <2>1. a.skipped[c] + Cardinality(EntriesOf(es, c, n)) = a.expect[c]
    BY DEF RunFits
  <2>2. a.expect \in [Clnt -> Nat] /\ a.skipped \in [Clnt -> Nat]
    BY DEF RunFits
  <2>3. /\ Cardinality(EntriesOf(es, c, n)) \in Nat
        /\ d = c => Cardinality(EntriesOf(es, c, n + 1)) = Cardinality(EntriesOf(es, c, n)) + 1
        /\ d # c => EntriesOf(es, c, n + 1) = EntriesOf(es, c, n)
    BY <1>1, EntriesGrow
  <2>4. CASE c = d
    <3>1. b.skipped[c] = a.skipped[c] + (m - a.expect[c]) /\ b.expect[c] = m + 1
      BY <1>1, <1>5, <2>2, <2>4
    <3>2. a.skipped[c] \in Nat /\ a.expect[c] \in Nat
      BY <2>2
    <3>3. b.skipped[c] + Cardinality(EntriesOf(es, c, n + 1)) = b.expect[c]
      BY <1>1, <2>1, <2>3, <2>4, <3>1, <3>2
    <3>4. n + 1 \in 1 .. n + 1
      BY <1>1
    <3>5. QED
      BY <2>4, <3>1, <3>3, <3>4
  <2>5. CASE c # d
    <3>1. b.skipped[c] = a.skipped[c] /\ b.expect[c] = a.expect[c]
      BY <1>5, <2>2, <2>5
    <3>2. a.expect[c] = 0 \/ \E j \in 1 .. n : es[j][1] = c /\ es[j][2] + 1 = a.expect[c]
      BY DEF RunFits
    <3>3. 1 .. n \subseteq 1 .. n + 1
      BY <1>1
    <3>4. Cardinality(EntriesOf(es, c, n + 1)) = Cardinality(EntriesOf(es, c, n))
      BY <2>3, <2>5
    <3>5. QED
      BY <2>1, <3>1, <3>2, <3>3, <3>4
  <2>6. QED
    BY <2>4, <2>5
<1>9. QED
  BY <1>4, <1>7, <1>8 DEF RunFits, b

LEMMA CheckRunFacts ==
  ASSUME NEW es, Len(es) \in Nat, Rising(es)
  PROVE  RunFits(CheckRun(es)[Len(es)], es, Len(es))
<1> DEFINE r == CHOOSE r : IsRun(r, es, Len(es))
<1>1. CheckRun(es) = r
  BY DEF CheckRun, IsRun
<1>2. IsRun(r, es, Len(es))
  BY RunExists
<1> HIDE DEF r
<1>3. /\ r[0] = CheckStart
      /\ \A k \in 0 .. Len(es) : k < Len(es) => r[k + 1] = CheckEntry(r[k], es[k + 1])
  BY <1>2 DEF IsRun
<1> DEFINE T == {k \in 0 .. Len(es) : RunFits(r[k], es, k)}
<1>4. 0 \in T
  <2>1. \A c \in Clnt : Cardinality(EntriesOf(es, c, 0)) = 0
    BY EntriesGrow
  <2>2. RunFits(CheckStart, es, 0)
    BY <2>1 DEF RunFits, CheckStart
  <2>3. QED
    BY <1>3, <2>2
<1>5. ASSUME NEW k \in 0 .. Len(es), k \in T, k < Len(es) PROVE k + 1 \in T
  <2>1. RunFits(CheckEntry(r[k], es[k + 1]), es, k + 1)
    BY <1>5, RunStep
  <2>2. k + 1 \in 0 .. Len(es)
    BY <1>5
  <2>3. QED
    BY <1>3, <1>5, <2>1, <2>2
<1> HIDE DEF T
<1>6. \A k \in 0 .. Len(es) : k \in T
  BY <1>4, <1>5, UpTo
<1>7. QED
  BY <1>1, <1>6 DEF T

-----------------------------------------------------------------------------
(* The service and the clerks.  A step of theirs lands the put of p, as the *)
(* version that p asked for, or is quiet: it stores nothing.                *)

Lands(p) ==
  /\ Pending(p) /\ op[p].kind = "put" /\ op[p].ver = Len(puts)
  /\ puts' = Append(puts, op[p].val)
  /\ \A q \in Procs : q # p => op'[q] = op[q] /\ reply'[q] = reply[q]
  /\ op'[p].kind = "put" /\ op'[p].val = op[p].val /\ op'[p].ver = op[p].ver
  /\ \/ reply'[p] = NoReply /\ ~op'[p].first
     \/ reply'[p] # NoReply /\ reply'[p].err = "OK"
  /\ strays' \subseteq strays /\ (Reliable => op'[p].first = op[p].first)

QuietReply(q) ==
  IF op[q].kind = "put"
  THEN op[q].ver < Len(puts) /\ reply'[q].err = IF op[q].first THEN "ErrVersion" ELSE "ErrMaybe"
  ELSE /\ puts # <<>> /\ reply'[q].err = "OK"
       /\ reply'[q].ver = Len(puts) /\ reply'[q].val = puts[Len(puts)]

QuietFor(q) ==
  /\ op'[q].kind = op[q].kind /\ op'[q].val = op[q].val /\ op'[q].ver = op[q].ver
  /\ \/ op'[q].first = op[q].first
     \/ Pending(q) /\ reply'[q] = reply[q] /\ ~op'[q].first /\ ~Reliable
  /\ \/ reply'[q] = reply[q]
     \/ Pending(q) /\ reply'[q] # NoReply /\ op'[q] = op[q] /\ QuietReply(q)

Quiet ==
  /\ puts' = puts /\ \A q \in Procs : QuietFor(q)
  /\ \A o \in strays' : \/ o \in strays
                        \/ /\ ~Reliable
                           /\ \E p \in Procs : /\ Pending(p) /\ o = op[p] /\ op[p].kind = "put"
                                               /\ reply'[p] = reply[p] /\ ~op'[p].first

LEMMA HandlerFacts ==
  ASSUME NEW o, puts \in Seq(Val), o.ver \in Nat
  PROVE  /\ o.kind = "get" /\ puts # <<>> =>
              handler(o) = [err |-> "OK", val |-> puts[Len(puts)], ver |-> Len(puts)]
         /\ o.kind = "put" /\ o.ver = Len(puts) =>
              handler(o) = [err |-> "OK", val |-> <<>>, ver |-> 0]
         /\ o.kind = "put" /\ o.ver < Len(puts) =>
              handler(o) = [err |-> "ErrVersion", val |-> <<>>, ver |-> 0]
<1>1. Len(puts) \in Nat /\ (puts = <<>> => Len(puts) = 0)
  OBVIOUS
<1>2. ASSUME o.kind = "get", puts # <<>>
      PROVE  handler(o) = [err |-> "OK", val |-> puts[Len(puts)], ver |-> Len(puts)]
  BY <1>2 DEF handler, CurrentVal
<1>3. ASSUME o.kind = "put", o.ver = Len(puts)
      PROVE  handler(o) = [err |-> "OK", val |-> <<>>, ver |-> 0]
  BY <1>3 DEF handler
<1>4. ASSUME o.kind = "put", o.ver < Len(puts)
      PROVE  handler(o) = [err |-> "ErrVersion", val |-> <<>>, ver |-> 0]
  <2>1. o.ver # Len(puts) /\ puts # <<>>
    BY <1>1, <1>4
  <2>2. QED
    BY <1>4, <2>1 DEF handler
<1>5. QED
  BY <1>2, <1>3, <1>4

LEMMA ExecuteFacts ==
  ASSUME NEW o \in Op, puts \in Seq(Val), Execute(o), o.kind \in {"get", "put"},
         o.kind = "get" => puts # <<>>, o.kind = "put" => o.ver <= Len(puts)
  PROVE  puts' = IF o.kind = "put" /\ o.ver = Len(puts) THEN Append(puts, o.val) ELSE puts
<1>1. o.ver \in Nat /\ Len(puts) \in Nat
  BY DEF Op
<1>2. CASE o.kind = "put" /\ o.ver = Len(puts)
  BY <1>1, <1>2, HandlerFacts DEF Execute
<1>3. CASE o.kind = "put" /\ o.ver < Len(puts)
  BY <1>1, <1>3, HandlerFacts DEF Execute
<1>4. CASE o.kind = "get"
  BY <1>4 DEF Execute
<1>5. QED
  BY <1>1, <1>2, <1>3, <1>4

LEMMA TypeFacts ==
  ASSUME TypeOK
  PROVE  /\ puts \in Seq(Val) /\ Len(puts) \in Nat
         /\ \A p \in Procs :
              /\ op[p] \in Op /\ op[p].kind \in {"none", "get", "put"} /\ op[p].val \in Val
              /\ op[p].ver \in Nat /\ op[p].first \in BOOLEAN /\ op[p].call \in Nat
              /\ reply[p] \in Reply /\ reply[p].err \in Err /\ reply[p].val \in Val
              /\ reply[p].ver \in Nat /\ ver[p] \in Nat
         /\ \A c \in Clnt :
              /\ c \in Procs /\ c # Tester /\ c \in Nat
              /\ i[c] \in Nat /\ err[c] \in Err /\ res[c] \in [nok : Nat, nmaybe : Nat]
              /\ res[c].nok \in Nat /\ res[c].nmaybe \in Nat
              /\ res[c].nok + res[c].nmaybe = i[c]
              /\ pc[c] \in {"loop", "get", "put", "send", "deleted", "ended"}
         /\ Tester \in Procs
<1>1. puts \in Seq(Val) /\ Len(puts) \in Nat
  BY DEF TypeOK
<1>2. ASSUME NEW p \in Procs
      PROVE  /\ op[p] \in Op /\ reply[p] \in Reply /\ ver[p] \in Nat
  BY DEF TypeOK
<1>3. ASSUME NEW c \in Clnt
      PROVE  /\ c \in Procs /\ c # Tester /\ c \in Nat
             /\ i[c] \in Nat /\ err[c] \in Err /\ res[c] \in [nok : Nat, nmaybe : Nat]
             /\ res[c].nok + res[c].nmaybe = i[c]
             /\ pc[c] \in {"loop", "get", "put", "send", "deleted", "ended"}
  <2>1. c \in Procs /\ c # Tester /\ c \in Nat
    BY KvTestAssumption DEF Procs, Clnt, Tester
  <2>2. QED
    BY <2>1 DEF TypeOK
<1>4. QED
  BY <1>1, <1>2, <1>3 DEF Op, Reply, Procs

LEMMA ServeCases ==
  ASSUME TypeOK, OpsFit, NEW p \in Procs, Serve(p)
  PROVE  \/ Quiet /\ reply'[p] # NoReply /\ QuietReply(p)
         \/ Lands(p) /\ reply'[p].err = "OK"
<1>0. /\ puts \in Seq(Val) /\ Len(puts) \in Nat /\ op[p] \in Op /\ op[p].ver \in Nat
      /\ op[p].kind \in {"none", "get", "put"} /\ op[p].first \in BOOLEAN
      /\ DOMAIN reply = Procs
  BY TypeFacts DEF TypeOK
<1>1. /\ Pending(p) /\ Execute(op[p]) /\ op' = op /\ strays' = strays
      /\ op[p].kind \in {"get", "put"} /\ (op[p].kind = "get" => puts # <<>>)
      /\ op[p].kind = "put" => op[p].ver <= Len(puts)
  BY <1>0 DEF Serve, OpsFit, OpFits, Pending
<1>2. puts' = IF op[p].kind = "put" /\ op[p].ver = Len(puts) THEN Append(puts, op[p].val) ELSE puts
  BY <1>0, <1>1, ExecuteFacts
<1> DEFINE r == handler(op[p])
           e == IF r.err = "ErrVersion" /\ ~op[p].first THEN "ErrMaybe" ELSE r.err
<1>3. \A q \in Procs : q # p => reply'[q] = reply[q]
  BY <1>0 DEF Serve
<1>4. reply'[p] = [r EXCEPT !.err = e]
  BY <1>0 DEF Serve
<1>5. CASE op[p].kind = "put" /\ op[p].ver = Len(puts)
  <2>1. r = [err |-> "OK", val |-> <<>>, ver |-> 0]
    BY <1>0, <1>5, HandlerFacts
  <2>2. reply'[p].err = "OK"
    BY <1>4, <2>1
  <2>3. reply'[p] # NoReply
    BY <2>2 DEF NoReply
  <2>4. Lands(p)
    BY <1>1, <1>2, <1>3, <1>5, <2>2, <2>3 DEF Lands
  <2>5. QED
    BY <2>2, <2>4
<1>6. CASE op[p].kind = "put" /\ op[p].ver # Len(puts)
  <2>0. op[p].ver < Len(puts)
    BY <1>0, <1>1, <1>6
  <2>1. r = [err |-> "ErrVersion", val |-> <<>>, ver |-> 0]
    BY <1>0, <1>6, <2>0, HandlerFacts
  <2>2. reply'[p].err = IF op[p].first THEN "ErrVersion" ELSE "ErrMaybe"
    BY <1>0, <1>4, <2>1
  <2>3. reply'[p] # NoReply
    BY <1>0, <2>2 DEF NoReply
  <2>4. QuietReply(p)
    BY <1>6, <2>0, <2>2 DEF QuietReply
  <2>5. puts' = puts
    BY <1>2, <1>6
  <2>6. QED
    BY <1>1, <1>3, <2>3, <2>4, <2>5 DEF Quiet, QuietFor
<1>7. CASE op[p].kind = "get"
  <2>1. r = [err |-> "OK", val |-> puts[Len(puts)], ver |-> Len(puts)]
    BY <1>0, <1>1, <1>7, HandlerFacts
  <2>2. reply'[p] = [err |-> "OK", val |-> puts[Len(puts)], ver |-> Len(puts)]
    BY <1>4, <2>1
  <2>3. reply'[p] # NoReply
    BY <2>2 DEF NoReply
  <2>4. QuietReply(p)
    BY <1>1, <1>7, <2>2 DEF QuietReply
  <2>5. puts' = puts
    BY <1>2, <1>7
  <2>6. QED
    BY <1>1, <1>3, <2>3, <2>4, <2>5 DEF Quiet, QuietFor
<1>8. QED
  BY <1>1, <1>5, <1>6, <1>7

LEMMA ResendCases ==
  ASSUME TypeOK, OpsFit, NEW p \in Procs, Resend(p)
  PROVE  Quiet \/ Lands(p)
<1>0. /\ puts \in Seq(Val) /\ Len(puts) \in Nat /\ op[p] \in Op /\ op[p].ver \in Nat
      /\ op[p].kind \in {"none", "get", "put"} /\ DOMAIN op = Procs
  BY TypeFacts DEF TypeOK
<1>1. /\ Pending(p) /\ ~Reliable /\ reply' = reply
      /\ op[p].kind \in {"get", "put"} /\ (op[p].kind = "get" => puts # <<>>)
      /\ op[p].kind = "put" => op[p].ver <= Len(puts)
  BY <1>0 DEF Resend, OpsFit, OpFits, Pending
<1>2. \A q \in Procs : q # p => op'[q] = op[q]
  BY <1>0 DEF Resend
<1>3. op'[p] = [op[p] EXCEPT !.first = FALSE]
  BY <1>0 DEF Resend
<1>4. op'[p].kind = op[p].kind /\ op'[p].val = op[p].val /\ op'[p].ver = op[p].ver /\ ~op'[p].first
  BY <1>0, <1>3 DEF Op
<1>5. \A q \in Procs : QuietFor(q)
  BY <1>1, <1>2, <1>4 DEF QuietFor
<1>6. CASE Execute(op[p]) /\ UNCHANGED strays
  <2>1. puts' = IF op[p].kind = "put" /\ op[p].ver = Len(puts) THEN Append(puts, op[p].val) ELSE puts
    BY <1>0, <1>1, <1>6, ExecuteFacts
  <2>2. CASE op[p].kind = "put" /\ op[p].ver = Len(puts)
    BY <1>1, <1>2, <1>4, <1>6, <2>1, <2>2 DEF Lands, Pending
  <2>3. CASE ~(op[p].kind = "put" /\ op[p].ver = Len(puts))
    BY <1>5, <1>6, <2>1, <2>3 DEF Quiet
  <2>4. QED
    BY <2>2, <2>3
<1>7. CASE op[p].kind = "put" /\ strays' = strays \cup {op[p]} /\ UNCHANGED puts
  BY <1>1, <1>4, <1>5, <1>7 DEF Quiet
<1>8. QED
  BY <1>6, <1>7 DEF Resend

LEMMA StrayCases ==
  ASSUME TypeOK, OpsFit, StraysFit, NothingMaybe, ExecuteStray
  PROVE  Quiet \/ \E p \in Procs : Lands(p)
<1>0. puts \in Seq(Val) /\ Len(puts) \in Nat /\ strays \subseteq Op
  BY TypeFacts DEF TypeOK
<1>1. PICK o \in strays : Execute(o) /\ strays' = strays \ {o}
  BY DEF ExecuteStray
<1>2. op' = op /\ reply' = reply /\ strays' \subseteq strays
  BY <1>1 DEF ExecuteStray
<1>3. o \in Op /\ o.kind = "put" /\ o.ver <= Len(puts) /\ o.ver \in Nat
  BY <1>0 DEF StraysFit, Op
<1>4. puts' = IF o.kind = "put" /\ o.ver = Len(puts) THEN Append(puts, o.val) ELSE puts
  BY <1>0, <1>1, <1>3, ExecuteFacts
<1>5. CASE o.ver = Len(puts)
  <2>1. PICK p \in Procs : /\ Pending(p) /\ op[p].kind = "put" /\ op[p].ver = o.ver
                           /\ op[p].val = o.val /\ ~op[p].first
    BY <1>5 DEF StraysFit, Resending
  <2>2. puts' = Append(puts, op[p].val)
    BY <1>3, <1>4, <1>5, <2>1
  <2>3. Lands(p)
    BY <1>2, <1>5, <2>1, <2>2 DEF Lands, Pending
  <2>4. QED
    BY <2>3
<1>6. CASE o.ver # Len(puts)
  <2>1. puts' = puts
    BY <1>4, <1>6
  <2>2. QED
    BY <1>2, <2>1 DEF Quiet, QuietFor
<1>7. QED
  BY <1>5, <1>6

-----------------------------------------------------------------------------
(* What the clerks' steps preserve.                                        *)

ClerkFrame == UNCHANGED <<clntVars, testerVars, fatal, test>>

LEMMA HandlerType ==
  ASSUME NEW o \in Op, puts \in Seq(Val), o.kind \in {"get", "put"},
         o.kind = "get" => puts # <<>>, o.kind = "put" => o.ver <= Len(puts)
  PROVE  /\ handler(o).err \in {"OK", "ErrVersion"}
         /\ handler(o) = [err |-> handler(o).err, val |-> handler(o).val, ver |-> handler(o).ver]
         /\ handler(o).val \in Val /\ handler(o).ver \in Nat
<1>1. o.ver \in Nat /\ Len(puts) \in Nat /\ <<>> \in Val
  BY DEF Op, Val
<1>2. CASE o.kind = "put" /\ o.ver = Len(puts)
  BY <1>1, <1>2, HandlerFacts
<1>3. CASE o.kind = "put" /\ o.ver < Len(puts)
  BY <1>1, <1>3, HandlerFacts
<1>4. CASE o.kind = "get"
  <2>1. puts # <<>> /\ puts[Len(puts)] \in Val
    BY <1>4
  <2>2. QED
    BY <1>1, <1>4, <2>1, HandlerFacts
<1>5. QED
  BY <1>1, <1>2, <1>3, <1>4

LEMMA ClerkType ==
  ASSUME TypeOK, ~Broken, OpsFit, StraysFit, Clerks, ClerkFrame
  PROVE  TypeOK'
<1>0. /\ puts \in Seq(Val) /\ Len(puts) \in Nat /\ strays \subseteq Op /\ IsFiniteSet(strays)
      /\ Cardinality(strays) <= MaxStray /\ MaxStray \in Nat
      /\ op \in [Procs -> Op] /\ reply \in [Procs -> Reply]
      /\ oplog \in Seq([in : Op, out : Reply])
  BY KvTestAssumption DEF TypeOK
<1>1. /\ test' = test /\ pc' = pc /\ i' = i /\ ver' = ver /\ err' = err /\ res' = res
      /\ tpc' = tpc /\ signals' = signals /\ rs' = rs /\ part' = part /\ fatal' = fatal
  BY DEF ClerkFrame, clntVars, testerVars
<1> DEFINE Typed == /\ puts' \in Seq(Val) /\ op' \in [Procs -> Op] /\ reply' \in [Procs -> Reply]
                    /\ strays' \subseteq Op /\ IsFiniteSet(strays')
                    /\ Cardinality(strays') <= MaxStray
                    /\ oplog' \in Seq([in : Op, out : Reply])
<1>2. ASSUME NEW o \in Op, Execute(o) PROVE puts' \in Seq(Val)
  <2>1. o.val \in Val
    BY DEF Op
  <2>2. Append(puts, o.val) \in Seq(Val)
    BY <1>0, <2>1, AppendProperties
  <2>3. QED
    BY <1>0, <1>2, <2>2 DEF Execute
<1>3. ASSUME NEW p \in Procs, Serve(p) PROVE Typed
  <2>1. /\ Execute(op[p]) /\ op' = op /\ strays' = strays /\ op[p] \in Op
        /\ op[p].kind \in {"get", "put"} /\ (op[p].kind = "get" => puts # <<>>)
        /\ (op[p].kind = "put" => op[p].ver <= Len(puts))
    BY <1>0, <1>3, TypeFacts DEF Serve, OpsFit, OpFits, Pending
  <2> DEFINE r == handler(op[p])
             e == IF r.err = "ErrVersion" /\ ~op[p].first THEN "ErrMaybe" ELSE r.err
  <2>2. /\ r.err \in {"OK", "ErrVersion"} /\ r = [err |-> r.err, val |-> r.val, ver |-> r.ver]
        /\ r.val \in Val /\ r.ver \in Nat
    BY <1>0, <2>1, HandlerType
  <2>3. reply' = [reply EXCEPT ![p] = [r EXCEPT !.err = e]]
    BY <1>3 DEF Serve
  <2>4. [r EXCEPT !.err = e] \in Reply
    <3> HIDE DEF r
    <3>1. e \in Err
      BY <2>2 DEF Err
    <3> HIDE DEF e
    <3>2. [r EXCEPT !.err = e] = [err |-> e, val |-> r.val, ver |-> r.ver]
      BY <2>2
    <3>3. QED
      BY <2>2, <3>1, <3>2 DEF Reply
  <2>5. reply' \in [Procs -> Reply] /\ reply'[p] \in Reply
    <3> HIDE DEF r, e
    <3>1. QED
      BY <1>0, <2>3, <2>4
  <2>6. oplog' \in Seq([in : Op, out : Reply])
    <3>1. [in |-> op[p], out |-> reply'[p]] \in [in : Op, out : Reply]
      BY <2>1, <2>5
    <3>2. Append(oplog, [in |-> op[p], out |-> reply'[p]]) \in Seq([in : Op, out : Reply])
      BY <1>0, <3>1, AppendProperties
    <3>3. oplog' = Append(oplog, [in |-> op[p], out |-> reply'[p]]) \/ oplog' = oplog
      BY <1>3 DEF Serve
    <3>4. QED
      BY <1>0, <3>2, <3>3
  <2>7. QED
    BY <1>0, <1>2, <2>1, <2>5, <2>6
<1>4. ASSUME NEW p \in Procs, Resend(p) PROVE Typed
  <2>1. op[p] \in Op /\ op' = [op EXCEPT ![p].first = FALSE] /\ reply' = reply /\ oplog' = oplog
    BY <1>0, <1>4 DEF Resend
  <2>2. op' \in [Procs -> Op]
    BY <1>0, <2>1 DEF Op
  <2>3. puts' \in Seq(Val)
    BY <1>0, <1>2, <1>4, <2>1 DEF Resend
  <2>4. \/ strays' = strays
        \/ strays' = strays \cup {op[p]} /\ Cardinality(strays \cup {op[p]}) <= MaxStray
    BY <1>4 DEF Resend
  <2>5. IsFiniteSet(strays \cup {op[p]})
    BY <1>0, FS_AddElement
  <2>6. QED
    BY <1>0, <2>1, <2>2, <2>3, <2>4, <2>5
<1>5. ASSUME ExecuteStray PROVE Typed
  <2>1. PICK o \in strays : Execute(o) /\ strays' = strays \ {o}
    BY <1>5 DEF ExecuteStray
  <2>2. puts' \in Seq(Val)
    BY <1>0, <1>2, <2>1
  <2>3. IsFiniteSet(strays \ {o}) /\ Cardinality(strays \ {o}) = Cardinality(strays) - 1
    BY <1>0, FS_RemoveElement
  <2>4. Cardinality(strays) \in Nat
    BY <1>0, FS_CardinalityType
  <2>5. op' = op /\ reply' = reply /\ oplog' = oplog
    BY <1>5 DEF ExecuteStray
  <2>6. QED
    BY <1>0, <2>1, <2>2, <2>3, <2>4, <2>5
<1>6. Typed
  BY <1>3, <1>4, <1>5 DEF Clerks, LoseKey
<1> HIDE DEF Typed
<1>7. QED
  BY <1>1, <1>6 DEF Typed, TypeOK

\* A quiet step keeps what was certain certain, and what may be so possible.
LEMMA QuietStored ==
  ASSUME TypeOK, OpsFit, RepliesFit, Quiet, ClerkFrame, NEW c \in Clnt
  PROVE  /\ Mine(c)' = Mine(c)
         /\ Stored(c)' => Stored(c)
         /\ MaybeStored(c) => MaybeStored(c)'
<1>0. /\ c \in Procs /\ op[c].first \in BOOLEAN /\ puts' = puts /\ test' = test
      /\ pc' = pc /\ err' = err
  BY TypeFacts DEF Quiet, ClerkFrame, clntVars
<1>1. Mine(c)' = Mine(c)
  BY <1>0 DEF Mine
<1>2. QuietFor(c) /\ (pc[c] = "put" => op[c].kind = "put")
  BY <1>0 DEF Quiet, OpsFit, ClntOpFits
<1>3. Stored(c)' => Stored(c)
  <2>1. ASSUME pc[c] = "put", reply'[c].err = "OK" PROVE reply[c].err = "OK"
    <3>1. CASE reply'[c] = reply[c]
      BY <2>1, <3>1
    <3>2. CASE QuietReply(c)
      BY <1>0, <1>2, <2>1, <3>2 DEF QuietReply
    <3>3. QED
      BY <1>2, <3>1, <3>2 DEF QuietFor
  <2>2. QED
    BY <1>0, <2>1 DEF Stored, Work
<1>4. ASSUME pc[c] = "put", op[c].ver < Len(puts),
             IF Answered(c) THEN reply[c].err \in {"OK", "ErrMaybe"} ELSE ~op[c].first
      PROVE  /\ op'[c].ver < Len(puts)
             /\ IF reply'[c] # NoReply THEN reply'[c].err \in {"OK", "ErrMaybe"} ELSE ~op'[c].first
  <2>1. CASE reply'[c] = reply[c]
    BY <1>2, <1>4, <2>1 DEF QuietFor, Answered, Pending
  <2>2. CASE Pending(c) /\ reply'[c] # NoReply /\ op'[c] = op[c] /\ QuietReply(c)
    BY <1>2, <1>4, <2>2 DEF QuietReply, Answered, Pending
  <2>3. QED
    BY <1>2, <2>1, <2>2 DEF QuietFor
<1>5. MaybeStored(c) => MaybeStored(c)'
  BY <1>0, <1>4 DEF MaybeStored, Answered, CountsPut, Work
<1>6. QED
  BY <1>1, <1>3, <1>5

LEMMA QuietStep ==
  ASSUME Works, TypeOK', Quiet, ClerkFrame
  PROVE  Works'
<1>0. /\ TypeOK /\ NoFalseAlarm /\ OpsFit /\ RepliesFit /\ StraysFit /\ Counted
      /\ VersionsFit /\ ListFits /\ NothingMaybe /\ TesterFits
  BY DEF Works
<1>1. /\ puts' = puts /\ test' = test /\ pc' = pc /\ i' = i /\ ver' = ver /\ err' = err
      /\ res' = res /\ tpc' = tpc /\ rs' = rs /\ fatal' = fatal
  BY DEF Quiet, ClerkFrame, clntVars, testerVars
<1>2. /\ puts \in Seq(Val) /\ Len(puts) \in Nat
      /\ \A p \in Procs : /\ op[p].kind \in {"none", "get", "put"} /\ op[p].ver \in Nat
                          /\ op[p].first \in BOOLEAN /\ op'[p].first \in BOOLEAN
      /\ \A c \in Clnt : c \in Procs
      /\ Tester \in Procs
  <2>1. \A p \in Procs : op'[p].first \in BOOLEAN
    BY DEF TypeOK, Op
  <2>2. QED
    BY <1>0, <2>1, TypeFacts
<1>3. \A p \in Procs : QuietFor(p)
  BY DEF Quiet
<1>4. \A p \in Procs : op'[p].kind = op[p].kind /\ op'[p].val = op[p].val /\ op'[p].ver = op[p].ver
  BY <1>3 DEF QuietFor
<1>5. \A c \in Clnt : /\ Mine(c)' = Mine(c) /\ (Stored(c)' => Stored(c))
                      /\ (MaybeStored(c) => MaybeStored(c)')
  BY <1>0, QuietStored
<1>6. OpsFit'
  <2>1. ASSUME NEW p \in Procs PROVE OpFits(p)'
    BY <1>0, <1>1, <1>3, <1>4 DEF OpsFit, OpFits, QuietFor, Pending
  <2>2. ASSUME NEW c \in Clnt PROVE ClntOpFits(c)'
    <3>1. ClntOpFits(c)
      BY <1>0 DEF OpsFit
    <3>2. QED
      BY <1>1, <1>2, <1>4, <3>1 DEF ClntOpFits, Work
  <2>3. QED
    BY <1>0, <1>1, <1>2, <1>4, <2>1, <2>2 DEF OpsFit, Work
<1>7. RepliesFit'
  <2> SUFFICES ASSUME NEW p \in Procs, reply'[p] # NoReply PROVE ReplyFits(p)'
    BY DEF RepliesFit, Answered
  <2>1. CASE reply'[p] = reply[p]
    <3>1. ReplyFits(p) /\ op'[p].first = op[p].first
      BY <1>0, <1>3, <2>1 DEF RepliesFit, Answered, QuietFor, Pending
    <3>2. QED
      BY <1>1, <1>4, <2>1, <3>1 DEF ReplyFits
  <2>2. CASE op'[p] = op[p] /\ QuietReply(p)
    <3>1. CASE op[p].kind = "put"
      BY <1>1, <1>2, <2>2, <3>1 DEF QuietReply, ReplyFits
    <3>2. CASE op[p].kind # "put"
      <4>1. Len(puts) \in DOMAIN puts
        BY <1>2, <2>2, <3>2 DEF QuietReply
      <4>2. QED
        BY <1>1, <2>2, <3>2, <4>1 DEF QuietReply, ReplyFits
    <3>3. QED
      BY <3>1, <3>2
  <2>3. QED
    BY <1>3, <2>1, <2>2 DEF QuietFor
<1>8. StraysFit'
  <2>1. ASSUME NEW o \in strays, o.ver = Len(puts) PROVE \E p \in Procs : Resending(p, o)'
    <3>1. PICK p \in Procs : Resending(p, o)
      BY <1>0, <2>1 DEF StraysFit
    <3>2. reply'[p] = reply[p]
      BY <1>2, <1>3, <2>1, <3>1 DEF QuietFor, QuietReply, Resending
    <3>3. ~op'[p].first
      BY <1>3, <3>1 DEF QuietFor, Resending
    <3>4. Resending(p, o)'
      BY <1>4, <3>1, <3>2, <3>3 DEF Resending, Pending
    <3>5. QED
      BY <3>4
  <2>2. ASSUME NEW o, NEW p \in Procs, Pending(p), o = op[p], op[p].kind = "put",
               reply'[p] = reply[p], ~op'[p].first
        PROVE  o.ver <= Len(puts) /\ Resending(p, o)'
    BY <1>0, <1>4, <2>2 DEF OpsFit, OpFits, Resending, Pending
  <2>3. ASSUME NEW o \in strays'
        PROVE  /\ o.kind = "put" /\ o.ver <= Len(puts)
               /\ o.ver = Len(puts) => \E p \in Procs : Resending(p, o)'
    <3>1. CASE o \in strays
      BY <1>0, <2>1, <3>1 DEF StraysFit
    <3>2. CASE o \notin strays
      <4>1. PICK p \in Procs : /\ Pending(p) /\ o = op[p] /\ op[p].kind = "put"
                               /\ reply'[p] = reply[p] /\ ~op'[p].first
        BY <3>2 DEF Quiet
      <4>2. QED
        BY <2>2, <4>1
    <3>3. QED
      BY <3>1, <3>2
  <2>4. QED
    BY <1>1, <2>3 DEF StraysFit
<1>9. Counted'
  <2>1. ASSUME NEW c \in Clnt, CountFits(c) PROVE CountFits(c)'
    BY <1>1, <1>5, <2>1 DEF CountFits
  <2>2. QED
    BY <1>0, <1>1, <2>1 DEF Counted, Work
<1>10. VersionsFit'
  <2>1. ASSUME NEW c \in Clnt PROVE VersionFits(c)'
    BY <1>0, <1>1 DEF VersionsFit, VersionFits, Work
  <2>2. QED
    BY <1>0, <1>1, <1>5, <2>1 DEF VersionsFit, Work
<1>11. ListFits'
  <2>1. \A j : Entry(j)' = Entry(j)
    BY <1>1 DEF Entry
  <2>2. \A es, n : Extends(es, n) => /\ Len(es) = n
                                     /\ \A j \in 1..n - 1 : es[j] = Entry(j)'
    BY <2>1 DEF Extends
  <2>3. ASSUME NEW j, EntryFits(j) PROVE EntryFits(j)'
    BY <1>1, <1>5, <2>1, <2>3 DEF EntryFits
  <2>4. SUFFICES ASSUME Work = "append" PROVE ListFits'
    BY <1>1 DEF ListFits, Work
  <2>5. ASSUME NEW k \in DOMAIN puts PROVE Extends(puts[k], k - 1)'
    BY <1>0, <1>1, <2>1, <2>4 DEF ListFits, Extends
  <2>6. ASSUME NEW c \in Clnt, pc[c] = "put"
        PROVE  Extends(op[c].val, op[c].ver)' /\ op'[c].val[op'[c].ver] = <<c, i[c]>>
    <3>1. Extends(op[c].val, op[c].ver) /\ op[c].val[op[c].ver] = <<c, i[c]>>
      BY <1>0, <2>4, <2>6 DEF ListFits
    <3>2. QED
      BY <1>2, <1>4, <2>1, <3>1 DEF Extends
  <2>7. QED
    BY <1>0, <1>1, <2>1, <2>3, <2>4, <2>5, <2>6 DEF ListFits, Work
<1>12. NothingMaybe'
  <2>1. SUFFICES ASSUME Reliable PROVE NothingMaybe'
    BY <1>1 DEF NothingMaybe, Reliable
  <2>2. strays' = {}
    BY <1>0, <2>1 DEF Quiet, NothingMaybe
  <2>3. \A p \in Procs : op'[p].first
    BY <1>0, <1>3, <2>1 DEF QuietFor, NothingMaybe
  <2>4. QED
    BY <1>0, <1>1, <2>1, <2>2, <2>3 DEF NothingMaybe
<1>13. TesterFits'
  <2>1. ASSUME tpc = "check", reply'[Tester] # NoReply PROVE reply'[Tester].ver = Len(puts)
    <3>1. CASE reply'[Tester] = reply[Tester]
      BY <1>0, <2>1, <3>1 DEF TesterFits, Answered
    <3>2. CASE QuietReply(Tester)
      BY <1>0, <2>1, <3>2 DEF QuietReply, OpsFit
    <3>3. QED
      BY <1>2, <1>3, <3>1, <3>2 DEF QuietFor
  <2>2. QED
    BY <1>0, <1>1, <2>1 DEF TesterFits, Answered, Work
<1>14. NoFalseAlarm'
  BY <1>0, <1>1 DEF NoFalseAlarm
<1>15. QED
  BY <1>6, <1>7, <1>8, <1>9, <1>10, <1>11, <1>12, <1>13, <1>14 DEF Works

LEMMA Grown ==
  ASSUME NEW S, NEW s \in Seq(S), NEW x \in S, NEW t, t = Append(s, x)
  PROVE  /\ t \in Seq(S) /\ Len(s) \in Nat /\ Len(t) = Len(s) + 1 /\ t # <<>>
         /\ DOMAIN t = DOMAIN s \cup {Len(s) + 1} /\ Len(s) + 1 \notin DOMAIN s
         /\ \A k \in DOMAIN s : t[k] = s[k]
         /\ t[Len(s) + 1] = x
<1>1. /\ t \in Seq(S) /\ Len(s) \in Nat /\ Len(t) = Len(s) + 1 /\ t # <<>>
      /\ \A k \in 1 .. Len(s) : t[k] = s[k]
      /\ t[Len(s) + 1] = x
  BY AppendProperties
<1>2. DOMAIN s = 1 .. Len(s) /\ DOMAIN t = 1 .. Len(s) + 1
  BY <1>1
<1>3. 1 .. Len(s) + 1 = (1 .. Len(s)) \cup {Len(s) + 1} /\ Len(s) + 1 \notin 1 .. Len(s)
  BY <1>1
<1>4. QED
  BY <1>1, <1>2, <1>3

LEMMA MineFinite ==
  ASSUME TypeOK, NEW c PROVE IsFiniteSet(Mine(c)) /\ Cardinality(Mine(c)) \in Nat
<1>1. DOMAIN puts = 1 .. Len(puts) /\ Len(puts) \in Nat
  BY DEF TypeOK
<1>2. IsFiniteSet(DOMAIN puts)
  BY <1>1, FS_Interval
<1>3. Mine(c) \subseteq DOMAIN puts
  BY DEF Mine
<1>4. QED
  BY <1>2, <1>3, FS_Subset, FS_CardinalityType

\* Who may land a put: a client in the state "put", or the tester the first version.
LEMMA Lander ==
  ASSUME TypeOK, OpsFit, NEW p \in Procs, Lands(p)
  PROVE  \/ p \in Clnt /\ pc[p] = "put"
         \/ p = Tester /\ Work = "append" /\ tpc = "start" /\ puts = <<>> /\ op[p].val = <<>>
<1>1. op[p].kind = "put" /\ op[p].ver = Len(puts) /\ puts \in Seq(Val)
  BY DEF Lands, TypeOK
<1>2. CASE p \in Clnt
  <2>1. ClntOpFits(p) /\ pc[p] \in {"loop", "get", "put", "send", "deleted", "ended"}
    BY <1>2, TypeFacts DEF OpsFit
  <2>2. QED
    BY <1>1, <1>2, <2>1 DEF ClntOpFits
<1>3. CASE p = Tester
  BY <1>1, <1>3 DEF OpsFit
<1>4. QED
  BY <1>2, <1>3 DEF Procs

\* The landing of p's put: p's count goes up by one, from one that left room for it.
LEMMA LandsStored ==
  ASSUME TypeOK, OpsFit, NEW p \in Procs, Lands(p), ClerkFrame, NEW c \in Clnt
  PROVE  /\ c # p => /\ Mine(c)' = Mine(c)
                     /\ Stored(c)' = Stored(c) /\ (MaybeStored(c) => MaybeStored(c)')
         /\ c = p => /\ Mine(c)' = Mine(c) \cup {Len(puts) + 1}
                     /\ Cardinality(Mine(c)') = Cardinality(Mine(c)) + 1
                     /\ ~MaybeStored(c) /\ MaybeStored(c)'
<1>0. /\ puts \in Seq(Val) /\ Len(puts) \in Nat /\ op[p].val \in Val /\ c \in Procs
      /\ op[p].ver \in Nat /\ op[c].ver \in Nat /\ c # Tester
  BY TypeFacts
<1>1. /\ puts' = Append(puts, op[p].val) /\ test' = test /\ pc' = pc /\ err' = err
      /\ op[p].ver = Len(puts) /\ op[p].kind = "put" /\ op'[p].ver = op[p].ver
  BY DEF Lands, ClerkFrame, clntVars
<1>2. /\ Len(puts') = Len(puts) + 1 /\ Len(puts) + 1 \notin DOMAIN puts
      /\ DOMAIN puts' = DOMAIN puts \cup {Len(puts) + 1}
      /\ \A k \in DOMAIN puts : puts'[k] = puts[k]
      /\ puts'[Len(puts) + 1] = op[p].val
  BY <1>0, <1>1, Grown
<1>3. \/ p \in Clnt /\ pc[p] = "put" /\ op[p].val # <<>> /\ op[p].val[Len(op[p].val)][1] = p
      \/ p = Tester /\ op[p].val = <<>>
  BY Lander DEF OpsFit, ClntOpFits
<1>4. Mine(c)' = IF c = p THEN Mine(c) \cup {Len(puts) + 1} ELSE Mine(c)
  <2> DEFINE L == Len(puts) + 1
             In(s) == s # <<>> /\ s[Len(s)][1] = c
  <2>1. In(op[p].val) <=> c = p
    BY <1>0, <1>3
  <2>2. Mine(c) = {k \in DOMAIN puts : In(puts[k])}
    BY DEF Mine
  <2>3. Mine(c)' = {k \in DOMAIN puts' : In(puts'[k])}
    BY DEF Mine
  <2> HIDE DEF In, L
  <2>4. /\ DOMAIN puts' = DOMAIN puts \cup {L} /\ L \notin DOMAIN puts
        /\ \A k \in DOMAIN puts : puts'[k] = puts[k]
        /\ puts'[L] = op[p].val
    BY <1>2 DEF L
  <2>5. \A k : k \in Mine(c)' <=> k \in Mine(c) \/ (k = L /\ c = p)
    BY <2>1, <2>2, <2>3, <2>4
  <2>6. QED
    BY <2>5 DEF L
<1>5. CASE c # p
  <2>1. op'[c] = op[c] /\ reply'[c] = reply[c]
    BY <1>0, <1>5 DEF Lands
  <2>2. Stored(c)' = Stored(c)
    BY <1>1, <2>1 DEF Stored, Work
  <2>3. op[c].ver < Len(puts) => op[c].ver < Len(puts')
    BY <1>0, <1>2
  <2>4. MaybeStored(c) => MaybeStored(c)'
    BY <1>1, <2>1, <2>3 DEF MaybeStored, Work, CountsPut, Answered
  <2>5. QED
    BY <1>4, <1>5, <2>2, <2>4
<1>6. CASE c = p
  <2>1. pc[c] = "put"
    BY <1>0, <1>3, <1>6
  <2>2. ~MaybeStored(c)
    BY <1>0, <1>1, <1>6, <2>1 DEF MaybeStored
  <2>3. op'[c].ver < Len(puts')
    BY <1>0, <1>1, <1>2, <1>6
  <2>4. IF reply'[c] # NoReply THEN reply'[c].err \in {"OK", "ErrMaybe"} ELSE ~op'[c].first
    BY <1>6 DEF Lands
  <2>5. MaybeStored(c)'
    BY <1>1, <2>1, <2>3, <2>4 DEF MaybeStored, Answered
  <2>6. Len(puts) + 1 \notin Mine(c) /\ IsFiniteSet(Mine(c))
    BY <1>2, MineFinite DEF Mine
  <2>7. Cardinality(Mine(c) \cup {Len(puts) + 1}) = Cardinality(Mine(c)) + 1
    BY <2>6, FS_AddElement
  <2>8. QED
    BY <1>4, <1>6, <2>2, <2>5, <2>7
<1>7. QED
  BY <1>5, <1>6

LEMMA LandStep ==
  ASSUME Works, TypeOK', NEW p \in Procs, Lands(p), ClerkFrame
  PROVE  Works'
<1>0. /\ TypeOK /\ NoFalseAlarm /\ OpsFit /\ RepliesFit /\ StraysFit /\ Counted
      /\ VersionsFit /\ ListFits /\ NothingMaybe /\ TesterFits
  BY DEF Works
<1>1. /\ test' = test /\ pc' = pc /\ i' = i /\ ver' = ver /\ err' = err
      /\ res' = res /\ tpc' = tpc /\ rs' = rs /\ fatal' = fatal
  BY DEF ClerkFrame, clntVars, testerVars
<1>2. /\ puts \in Seq(Val) /\ Len(puts) \in Nat /\ op[p].val \in Val /\ Tester \in Procs
      /\ \A q \in Procs : op[q].ver \in Nat /\ reply[q].ver \in Nat /\ ver[q] \in Nat
      /\ \A c \in Clnt : c \in Procs /\ i[c] \in Nat /\ res[c].nok \in Nat /\ c # Tester
      /\ \A o \in strays : o.ver \in Nat
  BY <1>0, TypeFacts DEF TypeOK, Op
<1>3. /\ Pending(p) /\ op[p].kind = "put" /\ op[p].ver = Len(puts)
      /\ puts' = Append(puts, op[p].val) /\ strays' \subseteq strays
      /\ \A q \in Procs : q # p => op'[q] = op[q] /\ reply'[q] = reply[q]
      /\ op'[p].kind = "put" /\ op'[p].val = op[p].val /\ op'[p].ver = op[p].ver
      /\ \/ reply'[p] = NoReply /\ ~op'[p].first
         \/ reply'[p] # NoReply /\ reply'[p].err = "OK"
  BY DEF Lands
<1>9. PICK L \in Nat : Len(puts) = L
  BY <1>2
<1>4. /\ Len(puts') = L + 1 /\ puts' # <<>> /\ L + 1 \notin DOMAIN puts
      /\ DOMAIN puts' = DOMAIN puts \cup {L + 1}
      /\ \A k \in DOMAIN puts : puts'[k] = puts[k]
      /\ puts'[L + 1] = op[p].val
  BY <1>2, <1>3, <1>9, Grown
<1>5. DOMAIN puts = 1 .. L /\ DOMAIN puts' = 1 .. L + 1
  BY <1>2, <1>4, <1>9
<1>6. \A q \in Procs : op'[q].kind = op[q].kind /\ op'[q].val = op[q].val /\ op'[q].ver = op[q].ver
  BY <1>3
<1>7. \/ p \in Clnt /\ pc[p] = "put"
      \/ p = Tester /\ Work = "append" /\ tpc = "start" /\ puts = <<>> /\ op[p].val = <<>>
  BY <1>0, Lander
<1>8. \A c \in Clnt :
        /\ c # p => /\ Mine(c)' = Mine(c)
                    /\ Stored(c)' = Stored(c) /\ (MaybeStored(c) => MaybeStored(c)')
        /\ c = p => /\ Mine(c)' = Mine(c) \cup {L + 1}
                    /\ Cardinality(Mine(c)') = Cardinality(Mine(c)) + 1
                    /\ ~MaybeStored(c) /\ MaybeStored(c)'
  BY <1>0, <1>9, LandsStored
<1>10. OpsFit'
  <2>1. ASSUME NEW q \in Procs PROVE OpFits(q)'
    <3>1. OpFits(q)
      BY <1>0 DEF OpsFit
    <3>2. CASE q = p
      BY <1>2, <1>3, <1>4, <1>9, <3>2 DEF OpFits
    <3>3. CASE q # p
      BY <1>2, <1>3, <1>4, <1>9, <3>1, <3>3 DEF OpFits
    <3>4. QED
      BY <3>2, <3>3
  <2>2. ASSUME NEW c \in Clnt PROVE ClntOpFits(c)'
    <3>1. ClntOpFits(c)
      BY <1>0 DEF OpsFit
    <3>2. QED
      BY <1>1, <1>2, <1>6, <3>1 DEF ClntOpFits, Work
  <2>3. QED
    BY <1>0, <1>1, <1>2, <1>6, <2>1, <2>2 DEF OpsFit, Work
<1>11. RepliesFit'
  <2> SUFFICES ASSUME NEW q \in Procs, reply'[q] # NoReply PROVE ReplyFits(q)'
    BY DEF RepliesFit, Answered
  <2>1. CASE q = p
    BY <1>2, <1>3, <1>4, <1>9, <2>1 DEF ReplyFits
  <2>2. CASE q # p
    <3>1. ReplyFits(q) /\ op'[q] = op[q] /\ reply'[q] = reply[q]
      BY <1>0, <1>3, <2>2 DEF RepliesFit, Answered
    <3>2. CASE op[q].kind = "put"
      <4>1. op[q].ver + 1 \in DOMAIN puts /\ op[q].ver < L + 1
        BY <1>2, <1>5, <1>9, <3>1, <3>2 DEF ReplyFits
      <4>2. QED
        BY <1>4, <3>1, <3>2, <4>1 DEF ReplyFits
    <3>3. CASE op[q].kind # "put"
      BY <1>4, <3>1, <3>3 DEF ReplyFits
    <3>4. QED
      BY <3>2, <3>3
  <2>3. QED
    BY <2>1, <2>2
<1>12. StraysFit'
  <2>1. ASSUME NEW o \in strays' PROVE o.kind = "put" /\ o.ver <= L + 1 /\ o.ver # L + 1
    BY <1>0, <1>2, <1>3, <1>9 DEF StraysFit
  <2>2. QED
    BY <1>4, <2>1 DEF StraysFit
<1>13. Counted'
  <2>1. ASSUME NEW c \in Clnt, CountFits(c) PROVE CountFits(c)'
    <3>1. CASE c # p
      BY <1>1, <1>8, <2>1, <3>1 DEF CountFits
    <3>2. CASE c = p
      <4>1. Cardinality(Mine(c)) \in Nat /\ res[c].nok \in Nat /\ i[c] \in Nat
        BY <1>0, <1>2, MineFinite
      <4>2. /\ Cardinality(Mine(c)') = Cardinality(Mine(c)) + 1
            /\ ~MaybeStored(c) /\ MaybeStored(c)'
        BY <1>8, <3>2
      <4>3. res[c].nok <= Cardinality(Mine(c)) /\ Cardinality(Mine(c)) <= i[c]
        BY <2>1, <4>2 DEF CountFits
      <4>4. res[c].nok < Cardinality(Mine(c)') /\ Cardinality(Mine(c)') <= i[c] + 1
            /\ res[c].nok <= Cardinality(Mine(c)')
        BY <4>1, <4>2, <4>3
      <4>5. QED
        BY <1>1, <4>2, <4>4 DEF CountFits
    <3>3. QED
      BY <3>1, <3>2
  <2>2. QED
    BY <1>0, <1>1, <2>1 DEF Counted, Work
<1>14. VersionsFit'
  <2>1. ASSUME NEW c \in Clnt PROVE VersionFits(c)'
    <3>1. VersionFits(c) /\ c \in Procs /\ ver[c] \in Nat
      BY <1>0, <1>2 DEF VersionsFit
    <3>2. ver[c] <= L + 1 /\ (ver[c] < L => ver[c] < L + 1 /\ ver[c] + 1 \in DOMAIN puts)
      BY <1>5, <1>9, <3>1 DEF VersionFits
    <3>3. QED
      BY <1>1, <1>4, <1>9, <3>1, <3>2 DEF VersionFits, Work
  <2>2. ASSUME Work = "put", NEW k \in DOMAIN puts' PROVE \E c \in Clnt : k \in Mine(c)'
    <3>1. CASE k = L + 1
      BY <1>7, <1>8, <2>2, <3>1
    <3>2. CASE k \in DOMAIN puts
      <4>1. PICK c \in Clnt : k \in Mine(c)
        BY <1>0, <2>2, <3>2 DEF VersionsFit
      <4>2. k \in Mine(c)'
        BY <1>8, <4>1
      <4>3. QED
        BY <4>2
    <3>3. QED
      BY <1>4, <3>1, <3>2
  <2>3. QED
    BY <1>1, <2>1, <2>2 DEF VersionsFit, Work
<1>16. NothingMaybe'
  <2>1. SUFFICES ASSUME Reliable PROVE NothingMaybe'
    BY <1>1 DEF NothingMaybe, Reliable
  <2>2. op'[p].first = op[p].first
    BY <2>1 DEF Lands
  <2>3. QED
    BY <1>0, <1>1, <1>3, <2>1, <2>2 DEF NothingMaybe
<1>17. TesterFits'
  <2>1. tpc # "check"
    <3>1. SUFFICES ASSUME tpc = "check", p \in Clnt, pc[p] = "put" PROVE FALSE
      BY <1>7
    <3>2. p \in 1 .. Len(rs)
      BY <1>0, <3>1 DEF TesterFits, Clnt
    <3>3. QED
      BY <1>0, <3>1, <3>2 DEF TesterFits
  <2>2. QED
    BY <1>0, <1>1, <1>4, <2>1 DEF TesterFits, Work
<1>18. NoFalseAlarm'
  BY <1>0, <1>1 DEF NoFalseAlarm
<1>15. ListFits'
  <2>0. SUFFICES ASSUME Work = "append" PROVE ListFits'
    BY <1>1 DEF ListFits, Work
  <2>1. ASSUME NEW j \in 1 .. L - 1 PROVE Entry(j)' = Entry(j)
    <3>1. j + 1 \in DOMAIN puts
      BY <1>5, <1>9
    <3>2. QED
      BY <1>4, <3>1 DEF Entry
  <2>2. ASSUME NEW es, NEW n \in 0 .. L, Extends(es, n)
        PROVE  Len(es) = n /\ \A j \in 1 .. n - 1 : es[j] = Entry(j)'
    <3>1. \A j \in 1 .. n - 1 : j \in 1 .. L - 1
      BY <1>9
    <3>2. QED
      BY <2>1, <2>2, <3>1 DEF Extends
  <2>3. ASSUME NEW c \in Clnt, pc[c] = "put"
        PROVE  /\ Extends(op[c].val, op[c].ver)' /\ op'[c].val[op'[c].ver] = <<c, i[c]>>
               /\ Extends(op[c].val, op[c].ver) /\ op[c].val[op[c].ver] = <<c, i[c]>>
    <3>1. Extends(op[c].val, op[c].ver) /\ op[c].val[op[c].ver] = <<c, i[c]>>
      BY <1>0, <2>0, <2>3 DEF ListFits
    <3>2. op[c].ver \in 0 .. L
      BY <1>0, <1>2, <1>9, <2>3 DEF OpsFit, OpFits, ClntOpFits
    <3>3. /\ Len(op[c].val) = op[c].ver
          /\ \A j \in 1 .. op[c].ver - 1 : op[c].val[j] = Entry(j)'
      BY <2>2, <3>1, <3>2
    <3>4. op'[c].val = op[c].val /\ op'[c].ver = op[c].ver
      BY <1>2, <1>6
    <3>5. Extends(op[c].val, op[c].ver)'
      BY <3>3, <3>4 DEF Extends
    <3>6. QED
      BY <3>1, <3>4, <3>5
  <2>4. ASSUME NEW k \in DOMAIN puts' PROVE Extends(puts[k], k - 1)'
    <3>1. CASE k \in DOMAIN puts
      <4>1. Extends(puts[k], k - 1) /\ k - 1 \in 0 .. L /\ puts'[k] = puts[k]
        BY <1>0, <1>4, <1>5, <1>9, <2>0, <3>1 DEF ListFits
      <4>2. Len(puts[k]) = k - 1 /\ \A j \in 1 .. (k - 1) - 1 : puts[k][j] = Entry(j)'
        BY <2>2, <4>1
      <4>3. QED
        BY <4>1, <4>2 DEF Extends
    <3>2. CASE k = L + 1
      <4>1. k - 1 = L /\ L \in 0 .. L
        BY <1>9, <3>2
      <4>2. Extends(op[p].val, L)
        <5>1. CASE p \in Clnt /\ pc[p] = "put"
          BY <1>3, <1>9, <2>3, <5>1
        <5>2. CASE puts = <<>> /\ op[p].val = <<>>
          <6>1. L = 0
            BY <1>9, <5>2
          <6>2. QED
            BY <5>2, <6>1 DEF Extends
        <5>3. QED
          BY <1>7, <5>1, <5>2
      <4>3. Len(op[p].val) = L /\ \A j \in 1 .. L - 1 : op[p].val[j] = Entry(j)'
        BY <2>2, <4>1, <4>2
      <4>4. QED
        BY <1>4, <3>2, <4>1, <4>3 DEF Extends
    <3>3. QED
      BY <1>4, <3>1, <3>2
  <2>5. ASSUME NEW j \in 1 .. L - 1, EntryFits(j) PROVE EntryFits(j)'
    <3>1. \A c \in Clnt : MaybeStored(c) => MaybeStored(c)'
      BY <1>8
    <3>2. QED
      BY <1>1, <2>1, <2>5, <3>1 DEF EntryFits
  <2>6. ASSUME L \in 1 .. L
        PROVE  p \in Clnt /\ Entry(L)' = <<p, i[p]>>
    <3>1. p \in Clnt /\ pc[p] = "put"
      <4>1. puts # <<>>
        BY <1>9, <2>6
      <4>2. QED
        BY <1>7, <4>1
    <3>2. op[p].val[L] = <<p, i[p]>>
      BY <1>3, <1>9, <2>3, <3>1
    <3>3. QED
      BY <1>4, <3>1, <3>2 DEF Entry
  <2>7. ASSUME NEW j \in 1 .. L PROVE EntryFits(j)'
    <3>1. CASE j = L
      <4>1. p \in Clnt /\ Entry(L)' = <<p, i[p]>> /\ i[p] \in Nat /\ MaybeStored(p)'
        BY <1>2, <1>8, <2>6, <3>1
      <4>2. QED
        BY <1>1, <3>1, <4>1 DEF EntryFits
    <3>2. CASE j # L
      <4>1. j \in 1 .. L - 1
        BY <1>9, <3>2
      <4>2. EntryFits(j)
        BY <1>0, <1>9, <2>0, <4>1 DEF ListFits
      <4>3. QED
        BY <2>5, <4>1, <4>2
    <3>3. QED
      BY <3>1, <3>2
  <2>8. ASSUME NEW j \in 1 .. L, NEW k \in 1 .. L, j < k, Entry(j)'[1] = Entry(k)'[1]
        PROVE  Entry(j)'[2] < Entry(k)'[2]
    <3>1. j \in 1 .. L - 1 /\ Entry(j)' = Entry(j)
      BY <1>9, <2>1, <2>8
    <3>2. CASE k \in 1 .. L - 1
      <4>1. Entry(k)' = Entry(k)
        BY <2>1, <3>2
      <4>2. QED
        BY <1>0, <1>9, <2>0, <2>8, <3>1, <3>2, <4>1 DEF ListFits
    <3>3. CASE k = L
      <4>1. p \in Clnt /\ Entry(k)' = <<p, i[p]>> /\ ~MaybeStored(p) /\ i[p] \in Nat
        BY <1>2, <1>8, <2>6, <3>3
      <4>2. EntryFits(j) /\ Entry(j)[1] = p
        BY <1>0, <1>9, <2>0, <2>8, <3>1, <4>1 DEF ListFits
      <4>3. Entry(j)[2] <= i[p] /\ Entry(j)[2] # i[p]
        BY <4>1, <4>2 DEF EntryFits
      <4>4. Entry(j)[2] \in Nat
        <5>1. j + 1 \in DOMAIN puts /\ Extends(puts[j + 1], (j + 1) - 1)
          BY <1>0, <1>5, <1>9, <2>0, <3>1 DEF ListFits
        <5>2. puts[j + 1] \in Val /\ Len(puts[j + 1]) = j
          BY <1>2, <3>1, <5>1 DEF Extends
        <5>3. puts[j + 1][j] \in Procs \X Nat
          BY <3>1, <5>2 DEF Val
        <5>4. QED
          BY <5>3 DEF Entry
      <4>5. QED
        BY <3>1, <4>1, <4>3, <4>4
    <3>4. QED
      BY <1>9, <2>8, <3>2, <3>3
  <2>9. Len(puts') - 1 = L
    BY <1>4, <1>9
  <2>10. QED
    BY <1>1, <2>3, <2>4, <2>7, <2>8, <2>9 DEF ListFits
<1>19. QED
  BY <1>10, <1>11, <1>12, <1>13, <1>14, <1>15, <1>16, <1>17, <1>18 DEF Works

LEMMA ClerkStep ==
  ASSUME Works, ~Broken, Clerks, UNCHANGED test
  PROVE  Works'
<1>0. TypeOK /\ OpsFit /\ StraysFit /\ NothingMaybe
  BY DEF Works
<1>1. ClerkFrame
  BY DEF Clerks, Serve, Resend, ExecuteStray, LoseKey, ClerkFrame
<1>2. TypeOK'
  BY <1>0, <1>1, ClerkType
<1>3. Quiet \/ \E p \in Procs : Lands(p)
  BY <1>0, ServeCases, ResendCases, StrayCases DEF Clerks, LoseKey
<1>4. QED
  BY <1>1, <1>2, <1>3, QuietStep, LandStep

-----------------------------------------------------------------------------
(* The clients.  A step of client c gives new values to what is c's: its   *)
(* operation o, which is not answered, where it is (w), its iteration n,   *)
(* version v, error e and result r.                                        *)

Moves(c, o, w, n, v, e, r) ==
  /\ op' = [op EXCEPT ![c] = o] /\ reply' = [reply EXCEPT ![c] = NoReply]
  /\ pc' = [pc EXCEPT ![c] = w] /\ i' = [i EXCEPT ![c] = n]
  /\ ver' = [ver EXCEPT ![c] = v] /\ err' = [err EXCEPT ![c] = e]
  /\ res' = [res EXCEPT ![c] = r]
  /\ UNCHANGED <<puts, strays, oplog, tpc, rs, part, test, fatal>> /\ signals' \in 0..NClnt

NewTyped(o, w, n, v, e, r) ==
  /\ o \in Op /\ w \in {"loop", "get", "put", "send"} /\ n \in Nat /\ v \in Nat /\ e \in Err
  /\ r \in [nok : Nat, nmaybe : Nat] /\ r.nok + r.nmaybe = n

NewOpFits(c, o, w, v) ==
  /\ w \in {"loop", "send"} => o.kind = "none"
  /\ w = "get" => o.kind = "get" /\ puts # <<>>
  /\ w = "put" => /\ o.kind = "put" /\ o.first /\ o.ver <= Len(puts)
                  /\ o.val # <<>> /\ o.val[Len(o.val)][1] = c
                  /\ Work # "append" => o.ver = v
                  /\ Work = "put" => o.val = <<<<c, v>>>>

NewCounts(c, w, n, e, r) ==
  LET m == Cardinality(Mine(c)) IN
  /\ r.nok <= m /\ (Work = "put" /\ w = "get" /\ e = "OK" => r.nok < m)
  /\ m <= n + 1 /\ (~(Work = "put" /\ w = "get" /\ e \in {"OK", "ErrMaybe"}) => m <= n)

NewVersion(c, w, n, v, e) ==
  /\ v <= Len(puts) /\ (n > 0 => puts # <<>>)
  /\ Work = "put" /\ w = "get" => /\ v < Len(puts) /\ e \in {"OK", "ErrVersion", "ErrMaybe"}
                                  /\ e = "OK" => puts[v + 1] = <<<<c, v>>>>

NewEntry(c, o, w, n) ==
  /\ w = "put" => Extends(o.val, o.ver) /\ o.val[o.ver] = <<c, n>>
  /\ \A j \in 1..Len(puts) - 1 : Entry(j)[1] = c => Entry(j)[2] <= n /\ Entry(j)[2] # n

NewFits(c, o, w, n, v, e, r) ==
  /\ NewTyped(o, w, n, v, e, r) /\ NewOpFits(c, o, w, v) /\ NewVersion(c, w, n, v, e)
  /\ Work # "once" => NewCounts(c, w, n, e, r) /\ tpc # "start"
  /\ Work = "append" => NewEntry(c, o, w, n)
  /\ Reliable => o.first /\ e # "ErrMaybe" /\ r.nmaybe = 0
  /\ w \in {"get", "put"} \/ n > 0

LEMMA MovesType ==
  ASSUME TypeOK, NEW c \in Clnt, NEW o, NEW w, NEW n, NEW v, NEW e, NEW r,
         Moves(c, o, w, n, v, e, r), NewTyped(o, w, n, v, e, r)
  PROVE  TypeOK'
<1>1. NoReply \in Reply /\ c \in Procs
  BY TypeFacts DEF NoReply, Reply, Err, Val
<1>2. /\ op' \in [Procs -> Op] /\ reply' \in [Procs -> Reply] /\ ver' \in [Procs -> Nat]
  BY <1>1 DEF TypeOK, Moves, NewTyped
<1>3. /\ pc' \in [Clnt -> {"loop", "get", "put", "send", "deleted", "ended"}]
      /\ i' \in [Clnt -> Nat] /\ err' \in [Clnt -> Err]
      /\ res' \in [Clnt -> [nok : Nat, nmaybe : Nat]]
  BY DEF TypeOK, Moves, NewTyped
<1>4. ASSUME NEW d \in Clnt PROVE res'[d].nok + res'[d].nmaybe = i'[d]
  <2>1. CASE d = c
    <3>1. res'[d] = r /\ i'[d] = n
      BY <2>1 DEF TypeOK, Moves
    <3>2. QED
      BY <3>1 DEF NewTyped
  <2>2. CASE d # c
    <3>1. res'[d] = res[d] /\ i'[d] = i[d]
      BY <2>2 DEF TypeOK, Moves
    <3>2. QED
      BY <3>1 DEF TypeOK
  <2>3. QED
    BY <2>1, <2>2
<1>5. /\ puts' = puts /\ strays' = strays /\ oplog' = oplog /\ tpc' = tpc /\ rs' = rs
      /\ part' = part /\ test' = test /\ fatal' = fatal /\ signals' \in 0..NClnt
  BY DEF Moves
<1>6. QED
  BY <1>2, <1>3, <1>4, <1>5 DEF TypeOK

LEMMA MovesStep ==
  ASSUME Works, NEW c \in Clnt, NEW o, NEW w, NEW n, NEW v, NEW e, NEW r,
         Moves(c, o, w, n, v, e, r), NewFits(c, o, w, n, v, e, r),
         ~Pending(c), pc[c] # "deleted"
  PROVE  Works'
<1>0. /\ TypeOK /\ NoFalseAlarm /\ OpsFit /\ RepliesFit /\ StraysFit /\ Counted
      /\ VersionsFit /\ ListFits /\ NothingMaybe /\ TesterFits
  BY DEF Works
<1>1. /\ puts' = puts /\ strays' = strays /\ oplog' = oplog /\ tpc' = tpc /\ rs' = rs
      /\ part' = part /\ test' = test /\ fatal' = fatal
  BY DEF Moves
<1>2. TypeOK' /\ NewTyped(o, w, n, v, e, r)
  BY <1>0, MovesType DEF NewFits
<1>3. /\ c \in Procs /\ c # Tester /\ Tester \in Procs /\ \A d \in Clnt : d \in Procs
      /\ Len(puts) \in Nat
  BY <1>0, TypeFacts
<1>4. /\ op'[c] = o /\ reply'[c] = NoReply /\ pc'[c] = w /\ i'[c] = n /\ ver'[c] = v
      /\ err'[c] = e /\ res'[c] = r
  BY <1>0, <1>3 DEF TypeOK, Moves
<1>5. /\ \A q \in Procs : q # c => op'[q] = op[q] /\ reply'[q] = reply[q] /\ ver'[q] = ver[q]
      /\ \A d \in Clnt : d # c => /\ pc'[d] = pc[d] /\ i'[d] = i[d] /\ err'[d] = err[d]
                                  /\ res'[d] = res[d]
  BY <1>0 DEF TypeOK, Moves
<1>6. \A d : Mine(d)' = Mine(d)
  BY <1>1 DEF Mine
<1>7. \A d \in Clnt : d # c => Stored(d)' = Stored(d) /\ MaybeStored(d)' = MaybeStored(d)
  BY <1>1, <1>3, <1>5 DEF Stored, MaybeStored, Answered, CountsPut, Work
<1>8. /\ Stored(c)' <=> Work = "put" /\ w = "get" /\ e = "OK"
      /\ MaybeStored(c)' <=> Work = "put" /\ w = "get" /\ e \in {"OK", "ErrMaybe"}
  BY <1>1, <1>4
  DEF Stored, MaybeStored, Answered, CountsPut, Work, NoReply, NewFits, NewOpFits
<1>9. OpsFit'
  <2>1. ASSUME NEW q \in Procs PROVE OpFits(q)'
    <3>1. CASE q = c
      BY <1>1, <1>2, <1>4, <3>1 DEF OpFits, NewFits, NewOpFits, NewTyped
    <3>2. CASE q # c
      BY <1>0, <1>1, <1>5, <3>2 DEF OpsFit, OpFits
    <3>3. QED
      BY <3>1, <3>2
  <2>2. ASSUME NEW d \in Clnt PROVE ClntOpFits(d)'
    <3>1. CASE d = c
      BY <1>1, <1>2, <1>4, <3>1 DEF ClntOpFits, NewFits, NewOpFits, NewTyped, Work
    <3>2. CASE d # c
      BY <1>0, <1>1, <1>3, <1>5, <3>2 DEF OpsFit, ClntOpFits, Work
    <3>3. QED
      BY <3>1, <3>2
  <2>3. QED
    BY <1>0, <1>1, <1>3, <1>5, <2>1, <2>2 DEF OpsFit, Work
<1>10. RepliesFit'
  <2>1. ASSUME NEW q \in Procs, reply'[q] # NoReply PROVE ReplyFits(q)'
    <3>1. q # c
      BY <1>4, <2>1
    <3>2. ReplyFits(q)
      BY <1>0, <1>5, <2>1, <3>1 DEF RepliesFit, Answered
    <3>3. QED
      BY <1>1, <1>5, <3>1, <3>2 DEF ReplyFits
  <2>2. QED
    BY <2>1 DEF RepliesFit, Answered
<1>11. StraysFit'
  <2>1. ASSUME NEW x, NEW p \in Procs, Resending(p, x) PROVE Resending(p, x)'
    <3>1. p # c
      BY <2>1 DEF Resending
    <3>2. QED
      BY <1>5, <2>1, <3>1 DEF Resending, Pending
  <2>2. QED
    BY <1>0, <1>1, <2>1 DEF StraysFit
<1>12. Counted'
  <2>1. SUFFICES ASSUME Work # "once", NEW d \in Clnt PROVE CountFits(d)'
    BY <1>1 DEF Counted, Work
  <2>2. CASE d = c
    BY <1>4, <1>6, <1>8, <2>1, <2>2 DEF CountFits, NewFits, NewCounts
  <2>3. CASE d # c
    BY <1>0, <1>5, <1>6, <1>7, <2>1, <2>3 DEF Counted, CountFits
  <2>4. QED
    BY <2>2, <2>3
<1>13. VersionsFit'
  <2>1. ASSUME NEW d \in Clnt PROVE VersionFits(d)'
    <3>1. CASE d = c
      BY <1>1, <1>4, <3>1 DEF VersionFits, NewFits, NewVersion, Work
    <3>2. CASE d # c
      BY <1>0, <1>1, <1>3, <1>5, <3>2 DEF VersionsFit, VersionFits, Work
    <3>3. QED
      BY <3>1, <3>2
  <2>2. QED
    BY <1>0, <1>1, <1>6, <2>1 DEF VersionsFit, Work
<1>14. ListFits'
  <2>1. SUFFICES ASSUME Work = "append" PROVE ListFits'
    BY <1>1 DEF ListFits, Work
  <2>2. \A j : Entry(j)' = Entry(j)
    BY <1>1 DEF Entry
  <2>3. \A es, m : Extends(es, m) => Len(es) = m /\ \A j \in 1..m - 1 : es[j] = Entry(j)'
    BY <2>2 DEF Extends
  <2>4. ASSUME NEW k \in DOMAIN puts PROVE Extends(puts[k], k - 1)'
    BY <1>0, <1>1, <2>1, <2>2 DEF ListFits, Extends
  <2>5. ASSUME NEW d \in Clnt, pc'[d] = "put"
        PROVE  Extends(op[d].val, op[d].ver)' /\ op'[d].val[op'[d].ver] = <<d, i'[d]>>
    <3>1. Extends(op'[d].val, op'[d].ver) /\ op'[d].val[op'[d].ver] = <<d, i'[d]>>
      <4>1. CASE d = c
        BY <1>4, <2>1, <2>5, <4>1 DEF NewFits, NewEntry
      <4>2. CASE d # c
        BY <1>0, <1>3, <1>5, <2>1, <2>5, <4>2 DEF ListFits
      <4>3. QED
        BY <4>1, <4>2
    <3>2. QED
      BY <2>2, <3>1 DEF Extends
  <2>6. ASSUME NEW j \in 1..Len(puts) - 1 PROVE EntryFits(j)'
    <3>1. EntryFits(j)
      BY <1>0, <2>1 DEF ListFits
    <3>2. CASE Entry(j)[1] = c
      <4>1. Entry(j)[2] <= n /\ Entry(j)[2] # n
        BY <2>1, <3>2 DEF NewFits, NewEntry
      <4>2. QED
        BY <1>4, <2>2, <3>2, <4>1 DEF EntryFits
    <3>3. CASE Entry(j)[1] # c
      BY <1>5, <1>7, <2>2, <3>1, <3>3 DEF EntryFits
    <3>4. QED
      BY <3>2, <3>3
  <2>7. QED
    BY <1>0, <1>1, <2>1, <2>2, <2>4, <2>5, <2>6 DEF ListFits
<1>15. NothingMaybe'
  <2>1. SUFFICES ASSUME Reliable PROVE NothingMaybe'
    BY <1>1 DEF NothingMaybe, Reliable
  <2>2. QED
    BY <1>0, <1>1, <1>4, <1>5, <2>1 DEF NothingMaybe, NewFits
<1>16. TesterFits'
  <2>1. Work # "once" => tpc # "start"
    BY DEF NewFits
  <2>2. ASSUME NEW d \in Clnt, tpc \notin {"start", "sleep"} \/ pc'[d] \in {"send", "deleted"}
        PROVE  pc'[d] \in {"put", "get", "ended"} \/ i'[d] > 0
    <3>1. CASE d = c
      BY <1>4, <3>1 DEF NewFits
    <3>2. CASE d # c
      BY <1>0, <1>5, <2>2, <3>2 DEF TesterFits
    <3>3. QED
      BY <3>1, <3>2
  <2>3. ASSUME NEW d \in 1..Len(rs) PROVE rs[d] = res'[d] /\ pc'[d] = "deleted"
    <3>1. d \in Clnt
      BY <1>0, KvTestAssumption DEF TypeOK, Clnt
    <3>2. d # c
      BY <1>0 DEF TesterFits
    <3>3. QED
      BY <1>0, <1>5, <3>1, <3>2 DEF TesterFits
  <2>4. reply'[Tester] = reply[Tester]
    BY <1>3, <1>5
  <2>5. QED
    BY <1>0, <1>1, <2>1, <2>2, <2>3, <2>4 DEF TesterFits, Answered, Work
<1>17. NoFalseAlarm'
  BY <1>0, <1>1 DEF NoFalseAlarm
<1>18. QED
  BY <1>2, <1>9, <1>10, <1>11, <1>12, <1>13, <1>14, <1>15, <1>16, <1>17 DEF Works

LEMMA EntryType ==
  ASSUME TypeOK, ListFits, Work = "append", NEW j \in 1..Len(puts) - 1
  PROVE  Entry(j) \in Procs \X Nat /\ Entry(j)[2] \in Nat
<1>1. puts \in Seq(Val) /\ Len(puts) \in Nat /\ j \in Nat
  BY DEF TypeOK
<1>2. j + 1 \in DOMAIN puts
  BY <1>1
<1>3. Extends(puts[j + 1], (j + 1) - 1)
  BY <1>2 DEF ListFits
<1>4. puts[j + 1] \in Val /\ Len(puts[j + 1]) = j
  BY <1>1, <1>2, <1>3 DEF Extends
<1>5. puts[j + 1][j] \in Procs \X Nat
  BY <1>1, <1>4 DEF Val
<1>6. QED
  BY <1>5 DEF Entry

\* What the invariant says of one client.
LEMMA ClientView ==
  ASSUME Works, NEW c \in Clnt
  PROVE  /\ OpFits(c) /\ ClntOpFits(c) /\ VersionFits(c) /\ (reply[c] # NoReply => ReplyFits(c))
         /\ Work # "once" => CountFits(c)
         /\ Reliable => op[c].first /\ err[c] # "ErrMaybe" /\ res[c].nmaybe = 0
         /\ Work # "once" /\ pc[c] # "loop" => tpc # "start"
         /\ pc[c] \notin {"put", "get"} => ~Stored(c) /\ ~MaybeStored(c)
         /\ pc[c] \notin {"put", "get"} => op[c].kind = "none" /\ reply[c] = NoReply
<1>1. c \in Procs /\ pc[c] \in {"loop", "get", "put", "send", "deleted", "ended"}
  BY TypeFacts DEF Works
<1>2. OpFits(c) /\ ClntOpFits(c)
  BY <1>1 DEF Works, OpsFit
<1>3. VersionFits(c) /\ (reply[c] # NoReply => ReplyFits(c))
  BY <1>1 DEF Works, VersionsFit, RepliesFit, Answered
<1>4. Work # "once" => CountFits(c)
  BY DEF Works, Counted
<1>5. Reliable => op[c].first /\ err[c] # "ErrMaybe" /\ res[c].nmaybe = 0
  BY <1>1 DEF Works, NothingMaybe
<1>6. Work # "once" /\ pc[c] # "loop" => tpc # "start"
  BY DEF Works, TesterFits
<1>7. pc[c] \notin {"put", "get"} => ~Stored(c) /\ ~MaybeStored(c)
  BY DEF Stored, MaybeStored
<1>8. pc[c] \notin {"put", "get"} => op[c].kind = "none" /\ reply[c] = NoReply
  BY <1>1, <1>2 DEF OpFits, ClntOpFits
<1>9. QED
  BY <1>2, <1>3, <1>4, <1>5, <1>6, <1>7, <1>8

LEMMA EntriesBelow ==
  ASSUME Works, NEW c \in Clnt, Work = "append"
  PROVE  \A j \in 1..Len(puts) - 1 : Entry(j)[1] = c =>
           /\ Entry(j)[2] <= i[c] + 1 /\ Entry(j)[2] # i[c] + 1
           /\ ~MaybeStored(c) => Entry(j)[2] <= i[c] /\ Entry(j)[2] # i[c]
<1> SUFFICES ASSUME NEW j \in 1..Len(puts) - 1, Entry(j)[1] = c
             PROVE  /\ Entry(j)[2] <= i[c] + 1 /\ Entry(j)[2] # i[c] + 1
                    /\ ~MaybeStored(c) => Entry(j)[2] <= i[c] /\ Entry(j)[2] # i[c]
  OBVIOUS
<1>1. Entry(j)[2] \in Nat /\ i[c] \in Nat
  BY EntryType, TypeFacts DEF Works
<1>2. EntryFits(j)
  BY DEF Works, ListFits
<1>3. QED
  BY <1>1, <1>2 DEF EntryFits

\* The iteration goes on, or ends: the counts fit the new state.
LEMMA CountsFacts ==
  ASSUME Works, NEW c \in Clnt, Work # "once"
  PROVE  /\ \A w, e : ~MaybeStored(c) /\ (Work = "put" /\ w = "get" => e # "OK")
                      => NewCounts(c, w, i[c], e, res[c])
         /\ \A w, e, r : /\ r.nok = res[c].nok + 1 => Stored(c)
                         /\ r.nok \in {res[c].nok, res[c].nok + 1} /\ w = "loop"
                         => NewCounts(c, w, i[c] + 1, e, r)
<1>1. /\ res[c].nok \in Nat /\ i[c] \in Nat /\ Cardinality(Mine(c)) \in Nat
  BY TypeFacts, MineFinite DEF Works
<1>2. CountFits(c)
  BY DEF Works, Counted
<1>3. ASSUME NEW w, NEW e, ~MaybeStored(c), Work = "put" /\ w = "get" => e # "OK"
      PROVE  NewCounts(c, w, i[c], e, res[c])
  BY <1>1, <1>2, <1>3 DEF CountFits, NewCounts
<1>4. ASSUME NEW w, NEW e, NEW r, r.nok = res[c].nok + 1 => Stored(c),
             r.nok \in {res[c].nok, res[c].nok + 1}, w = "loop"
      PROVE  NewCounts(c, w, i[c] + 1, e, r)
  BY <1>1, <1>2, <1>4 DEF CountFits, NewCounts
<1>5. QED
  BY <1>3, <1>4

\* A call that a client makes, as the new value of its operation.
NewOp(kind, val, v) == [kind |-> kind, val |-> val, ver |-> v, first |-> TRUE, call |-> Len(oplog)]

LEMMA NewOpFacts ==
  ASSUME TypeOK
  PROVE  /\ \A kind \in {"get", "put"}, val \in Val, v \in Nat :
              /\ NewOp(kind, val, v) \in Op
              /\ NewOp(kind, val, v).kind = kind /\ NewOp(kind, val, v).val = val
              /\ NewOp(kind, val, v).ver = v /\ NewOp(kind, val, v).first
         /\ NoOp \in Op /\ NoOp.kind = "none" /\ NoOp.first /\ <<>> \in Val
         /\ \A c \in Clnt, n \in Nat : <<<<c, n>>>> \in Val
<1>1. Len(oplog) \in Nat /\ <<>> \in Val
  BY DEF TypeOK, Val
<1>2. \A c \in Clnt, n \in Nat : <<<<c, n>>>> \in Val
  BY DEF Val, Procs
<1>3. QED
  BY <1>1, <1>2 DEF NewOp, NoOp, Op

\* The parts of the state that a client's step leaves alone.
LEMMA Same ==
  ASSUME TypeOK, NEW c \in Clnt
  PROVE  /\ op = [op EXCEPT ![c] = op[c]] /\ reply = [reply EXCEPT ![c] = reply[c]]
         /\ pc = [pc EXCEPT ![c] = pc[c]] /\ i = [i EXCEPT ![c] = i[c]]
         /\ ver = [ver EXCEPT ![c] = ver[c]] /\ err = [err EXCEPT ![c] = err[c]]
         /\ res = [res EXCEPT ![c] = res[c]] /\ signals \in 0..NClnt
BY DEF TypeOK

LEMMA DoneStep ==
  ASSUME Works, NEW c \in Clnt, Done(c), UNCHANGED test
  PROVE  Works'
<1>0. TypeOK
  BY DEF Works
<1>1. /\ pc[c] = "loop" /\ Work # "once" /\ tpc = "signal" /\ signals < NClnt
      /\ signals' = signals + 1 /\ pc' = [pc EXCEPT ![c] = "send"]
      /\ UNCHANGED <<clerkVars, i, ver, err, res, tpc, rs, part, fatal>>
  BY DEF Done, Signalling
<1>2. /\ OpFits(c) /\ VersionFits(c) /\ op[c].kind = "none" /\ reply[c] = NoReply
      /\ (Reliable => op[c].first /\ err[c] # "ErrMaybe" /\ res[c].nmaybe = 0)
      /\ ~MaybeStored(c)
  BY <1>1, ClientView
<1>3. signals' \in 0..NClnt
  BY <1>0, <1>1, KvTestAssumption DEF TypeOK
<1>4. Moves(c, op[c], "send", i[c], ver[c], err[c], res[c])
  BY <1>0, <1>1, <1>2, <1>3, Same DEF Moves, clerkVars
<1>5. NewTyped(op[c], "send", i[c], ver[c], err[c], res[c])
  BY <1>0, TypeFacts DEF NewTyped
<1>6. NewVersion(c, "send", i[c], ver[c], err[c])
  BY <1>2 DEF NewVersion, VersionFits
<1>7. NewCounts(c, "send", i[c], err[c], res[c])
  BY <1>1, <1>2, CountsFacts
<1>8. Work = "append" => NewEntry(c, op[c], "send", i[c])
  BY <1>2, EntriesBelow DEF NewEntry
<1>9. i[c] > 0
  BY <1>1 DEF Works, TesterFits
<1>10. NewFits(c, op[c], "send", i[c], ver[c], err[c], res[c])
  BY <1>1, <1>2, <1>5, <1>6, <1>7, <1>8, <1>9 DEF NewFits, NewOpFits
<1>11. QED
  BY <1>1, <1>2, <1>4, <1>10, MovesStep DEF Pending

\* The results of EndIteration.
NewRes(c, e) ==
  IF e = "OK" THEN [nok |-> res[c].nok + 1, nmaybe |-> res[c].nmaybe]
  ELSE [nok |-> res[c].nok, nmaybe |-> res[c].nmaybe + 1]

LEMMA EndFacts ==
  ASSUME TypeOK, NEW c \in Clnt, NEW e
  PROVE  /\ NewRes(c, e) \in [nok : Nat, nmaybe : Nat]
         /\ NewRes(c, e).nok + NewRes(c, e).nmaybe = i[c] + 1
         /\ NewRes(c, e).nok \in {res[c].nok, res[c].nok + 1}
         /\ NewRes(c, e).nok = res[c].nok + 1 => e = "OK"
         /\ e = "OK" => NewRes(c, e).nmaybe = res[c].nmaybe
         /\ i[c] + 1 \in Nat /\ i[c] + 1 > 0
         /\ EndIteration(c, e) => /\ i' = [i EXCEPT ![c] = i[c] + 1]
                                  /\ res' = [res EXCEPT ![c] = NewRes(c, e)]
<1>1. /\ res[c] \in [nok : Nat, nmaybe : Nat] /\ res[c].nok \in Nat /\ res[c].nmaybe \in Nat
      /\ res[c].nok + res[c].nmaybe = i[c] /\ i[c] \in Nat
      /\ DOMAIN res = Clnt /\ DOMAIN i = Clnt /\ res \in [Clnt -> [nok : Nat, nmaybe : Nat]]
  BY TypeFacts DEF TypeOK
<1>2. EndIteration(c, e) => /\ i' = [i EXCEPT ![c] = i[c] + 1]
                            /\ res' = [res EXCEPT ![c] = NewRes(c, e)]
  <2>1. SUFFICES ASSUME EndIteration(c, e)
                 PROVE  i' = [i EXCEPT ![c] = i[c] + 1] /\ res' = [res EXCEPT ![c] = NewRes(c, e)]
    OBVIOUS
  <2>2. i' = [i EXCEPT ![c] = i[c] + 1]
    BY <1>1, <2>1 DEF EndIteration
  <2>3. res' = [res EXCEPT ![c] = NewRes(c, e)]
    <3>1. CASE e = "OK"
      <4>1. [res[c] EXCEPT !.nok = res[c].nok + 1] = NewRes(c, e)
        BY <1>1, <3>1 DEF NewRes
      <4>2. res' = [res EXCEPT ![c] = [res[c] EXCEPT !.nok = res[c].nok + 1]]
        BY <1>1, <2>1, <3>1 DEF EndIteration
      <4>3. QED
        BY <4>1, <4>2
    <3>2. CASE e # "OK"
      <4>1. [res[c] EXCEPT !.nmaybe = res[c].nmaybe + 1] = NewRes(c, e)
        BY <1>1, <3>2 DEF NewRes
      <4>2. res' = [res EXCEPT ![c] = [res[c] EXCEPT !.nmaybe = res[c].nmaybe + 1]]
        BY <1>1, <2>1, <3>2 DEF EndIteration
      <4>3. QED
        BY <4>1, <4>2
    <3>3. QED
      BY <3>1, <3>2
  <2>4. QED
    BY <2>2, <2>3
<1>3. CASE e = "OK"
  <2>1. NewRes(c, e) = [nok |-> res[c].nok + 1, nmaybe |-> res[c].nmaybe]
    BY <1>1, <1>3 DEF NewRes
  <2> HIDE DEF NewRes
  <2>2. QED
    BY <1>1, <1>2, <1>3, <2>1
<1>4. CASE e # "OK"
  <2>1. NewRes(c, e) = [nok |-> res[c].nok, nmaybe |-> res[c].nmaybe + 1]
    BY <1>1, <1>4 DEF NewRes
  <2> HIDE DEF NewRes
  <2>2. QED
    BY <1>1, <1>2, <1>4, <2>1
<1>5. QED
  BY <1>3, <1>4

LEMMA AppendStep ==
  ASSUME Works, NEW c \in Clnt, OneClientAppend(c), UNCHANGED test
  PROVE  Works'
<1>0. TypeOK /\ ListFits /\ Work = "append"
  BY DEF Works, OneClientAppend
<1>1. UNCHANGED <<puts, strays, oplog, ver, err, tpc, signals, rs, part, fatal>>
  BY DEF OneClientAppend, testerVars
<1>2. /\ OpFits(c) /\ ClntOpFits(c) /\ VersionFits(c) /\ (reply[c] # NoReply => ReplyFits(c))
      /\ (Reliable => op[c].first /\ err[c] # "ErrMaybe" /\ res[c].nmaybe = 0)
      /\ (pc[c] # "loop" => tpc # "start")
      /\ (pc[c] \notin {"put", "get"} => ~MaybeStored(c) /\ op[c].kind = "none" /\ reply[c] = NoReply)
  BY <1>0, ClientView
<1>3. /\ puts \in Seq(Val) /\ Len(puts) \in Nat /\ c \in Procs /\ c \in Nat
      /\ ver[c] \in Nat /\ err[c] \in Err /\ i[c] \in Nat /\ res[c] \in [nok : Nat, nmaybe : Nat]
      /\ res[c].nok + res[c].nmaybe = i[c]
      /\ op[c].ver \in Nat /\ op[c].first \in BOOLEAN
      /\ reply[c].val \in Val /\ reply[c].ver \in Nat
  BY <1>0, TypeFacts
<1>4. \A j \in 1..Len(puts) - 1 : Entry(j)[1] = c =>
           /\ Entry(j)[2] <= i[c] + 1 /\ Entry(j)[2] # i[c] + 1
           /\ ~MaybeStored(c) => Entry(j)[2] <= i[c] /\ Entry(j)[2] # i[c]
  BY <1>0, EntriesBelow
<1>5. \A w, e : ~MaybeStored(c) => NewCounts(c, w, i[c], e, res[c])
  BY <1>0, CountsFacts
<1> DEFINE g == NewOp("get", <<>>, 0)
<1>6. g \in Op /\ g.kind = "get" /\ g.first
  BY <1>0, NewOpFacts
<1>7. ASSUME Call(c, "get", <<>>, 0), pc' = [pc EXCEPT ![c] = "get"], UNCHANGED <<i, res>>,
             puts # <<>>, ~MaybeStored(c), ~Pending(c), tpc # "start", pc[c] # "deleted"
      PROVE  Works'
  <2>1. Moves(c, g, "get", i[c], ver[c], err[c], res[c])
    BY <1>0, <1>1, <1>7, Same DEF Moves, Call, NewOp
  <2> HIDE DEF g
  <2>2. NewTyped(g, "get", i[c], ver[c], err[c], res[c])
    BY <1>3, <1>6 DEF NewTyped
  <2>3. NewOpFits(c, g, "get", ver[c])
    BY <1>6, <1>7 DEF NewOpFits
  <2>4. NewVersion(c, "get", i[c], ver[c], err[c])
    BY <1>0, <1>2 DEF NewVersion, VersionFits
  <2>5. NewEntry(c, g, "get", i[c])
    BY <1>4, <1>7 DEF NewEntry
  <2>6. NewFits(c, g, "get", i[c], ver[c], err[c], res[c])
    BY <1>0, <1>2, <1>5, <1>6, <1>7, <2>2, <2>3, <2>4, <2>5 DEF NewFits
  <2>7. QED
    BY <1>7, <2>1, <2>6, MovesStep
<1>8. ASSUME MayIterate(c), tpc \in {"sleep", "signal"},
             Call(c, "get", <<>>, 0), pc' = [pc EXCEPT ![c] = "get"], UNCHANGED <<i, res>>
      PROVE  Works'
  <2>1. pc[c] = "loop" /\ puts # <<>>
    BY <1>0, <1>8 DEF MayIterate, Works, TesterFits
  <2>2. QED
    BY <1>2, <1>7, <1>8, <2>1 DEF Pending
<1>9. ASSUME pc[c] = "get", Answered(c),
             Call(c, "put", Append(reply[c].val, <<c, i[c]>>), reply[c].ver),
             pc' = [pc EXCEPT ![c] = "put"], UNCHANGED <<i, res>>
      PROVE  Works'
  <2> DEFINE a == Append(reply[c].val, <<c, i[c]>>)
             o == NewOp("put", a, reply[c].ver)
  <2>1. op[c].kind = "get" /\ ReplyFits(c)
    BY <1>2, <1>9 DEF ClntOpFits, Answered
  <2>2. /\ reply[c].err = "OK" /\ reply[c].ver \in DOMAIN puts /\ reply[c].val = puts[reply[c].ver]
    BY <2>1 DEF ReplyFits
  <2>3. Extends(reply[c].val, reply[c].ver - 1)
    BY <1>0, <2>2 DEF ListFits
  <2>4. reply[c].val \in Seq(Procs \X Nat) /\ <<c, i[c]>> \in Procs \X Nat
    BY <1>3 DEF Val
  <2>5. /\ a \in Val /\ a # <<>> /\ Len(a) = Len(reply[c].val) + 1
        /\ \A j \in 1..Len(reply[c].val) : a[j] = reply[c].val[j]
        /\ a[Len(reply[c].val) + 1] = <<c, i[c]>>
    BY <2>4, AppendProperties DEF Val
  <2> HIDE DEF a
  <2>6. Len(reply[c].val) = reply[c].ver - 1 /\ reply[c].ver >= 1 /\ reply[c].ver <= Len(puts)
    BY <1>3, <2>2, <2>3 DEF Extends
  <2>7. Len(a) = reply[c].ver /\ a[reply[c].ver] = <<c, i[c]>>
    BY <1>3, <2>5, <2>6
  <2>8. \A j \in 1..reply[c].ver - 1 : a[j] = Entry(j)
    <3>2. ASSUME NEW j \in 1..reply[c].ver - 1 PROVE a[j] = Entry(j)
      <4>1. a[j] = reply[c].val[j]
        BY <2>5, <2>6
      <4>2. CASE j \in 1..(reply[c].ver - 1) - 1
        BY <2>3, <4>1, <4>2 DEF Extends
      <4>3. CASE j = reply[c].ver - 1
        <5>1. j + 1 = reply[c].ver
          BY <1>3, <4>3
        <5>2. QED
          BY <2>2, <4>1, <5>1 DEF Entry
      <4>4. j \in 1..(reply[c].ver - 1) - 1 \/ j = reply[c].ver - 1
        BY <1>3
      <4>5. QED
        BY <4>2, <4>3, <4>4
    <3>3. QED
      BY <3>2
  <2>9. o \in Op /\ o.kind = "put" /\ o.val = a /\ o.ver = reply[c].ver /\ o.first
    BY <1>0, <1>3, <2>5, NewOpFacts
  <2>10. ~MaybeStored(c) /\ ~Pending(c) /\ tpc # "start"
    BY <1>0, <1>2, <1>9 DEF MaybeStored, Pending, Answered
  <2>12. Moves(c, o, "put", i[c], ver[c], err[c], res[c])
    BY <1>0, <1>1, <1>9, Same DEF Moves, Call, NewOp, a
  <2> HIDE DEF o
  <2>13. NewTyped(o, "put", i[c], ver[c], err[c], res[c])
    BY <1>3, <2>9 DEF NewTyped
  <2>14. NewOpFits(c, o, "put", ver[c])
    BY <1>0, <2>5, <2>6, <2>7, <2>9 DEF NewOpFits
  <2>15. NewVersion(c, "put", i[c], ver[c], err[c])
    BY <1>2 DEF NewVersion, VersionFits
  <2>16. NewEntry(c, o, "put", i[c])
    BY <1>4, <2>7, <2>8, <2>9, <2>10 DEF NewEntry, Extends
  <2>17. NewFits(c, o, "put", i[c], ver[c], err[c], res[c])
    BY <1>0, <1>2, <1>5, <2>9, <2>10, <2>13, <2>14, <2>15, <2>16 DEF NewFits
  <2>18. QED
    BY <1>9, <2>10, <2>12, <2>17, MovesStep
<1>10. ASSUME pc[c] = "put", reply[c].err \in {"OK", "ErrMaybe"},
              EndIteration(c, reply[c].err), CallReturns(c),
              pc' = [pc EXCEPT ![c] = "loop"]
       PROVE  Works'
  <2> DEFINE r == NewRes(c, reply[c].err)
  <2>1. reply[c] # NoReply /\ op[c].kind = "put" /\ ReplyFits(c)
    BY <1>2, <1>10 DEF ClntOpFits, NoReply
  <2>2. op[c].ver < Len(puts) /\ puts # <<>>
    BY <1>3, <2>1 DEF ReplyFits
  <2>3. reply[c].err = "OK" => Stored(c)
    BY <1>10 DEF Stored
  <2>4. NewCounts(c, "loop", i[c] + 1, err[c], r)
    BY <1>0, <2>3, EndFacts, CountsFacts
  <2>5. Reliable => reply[c].err = "OK"
    BY <1>2, <1>10, <2>1 DEF ReplyFits
  <2>6. Moves(c, NoOp, "loop", i[c] + 1, ver[c], err[c], r)
    BY <1>0, <1>1, <1>10, Same, EndFacts DEF Moves, CallReturns
  <2>7. NewTyped(NoOp, "loop", i[c] + 1, ver[c], err[c], r)
    BY <1>0, <1>3, EndFacts, NewOpFacts DEF NewTyped
  <2>8. NewOpFits(c, NoOp, "loop", ver[c])
    BY <1>0, NewOpFacts DEF NewOpFits
  <2>9. NewVersion(c, "loop", i[c] + 1, ver[c], err[c])
    BY <1>2, <2>2 DEF NewVersion, VersionFits
  <2>10. NewEntry(c, NoOp, "loop", i[c] + 1)
    BY <1>4 DEF NewEntry
  <2>11. Reliable => NoOp.first /\ err[c] # "ErrMaybe" /\ r.nmaybe = 0
    BY <1>0, <1>2, <2>5, EndFacts, NewOpFacts
  <2>12. ~Pending(c) /\ tpc # "start" /\ i[c] + 1 > 0
    BY <1>2, <1>3, <1>10, <2>1 DEF Pending
  <2>13. NewFits(c, NoOp, "loop", i[c] + 1, ver[c], err[c], r)
    BY <1>0, <2>4, <2>7, <2>8, <2>9, <2>10, <2>11, <2>12 DEF NewFits
  <2>14. QED
    BY <1>10, <2>6, <2>12, <2>13, MovesStep
<1>11. ASSUME pc[c] = "put", reply[c].err \in {"ErrVersion", "ErrNoKey"},
              Call(c, "get", <<>>, 0), pc' = [pc EXCEPT ![c] = "get"], UNCHANGED <<i, res>>
       PROVE  Works'
  <2>1. reply[c] # NoReply /\ op[c].kind = "put" /\ ReplyFits(c)
    BY <1>2, <1>11 DEF ClntOpFits, NoReply
  <2>2. op[c].ver < Len(puts) /\ puts # <<>>
    BY <1>3, <2>1 DEF ReplyFits
  <2>3. ~MaybeStored(c)
    BY <1>0, <1>11, <2>1 DEF MaybeStored, Answered
  <2>4. QED
    BY <1>2, <1>7, <1>11, <2>1, <2>2, <2>3 DEF Pending
<1>12. QED
  BY <1>8, <1>9, <1>10, <1>11 DEF OneClientAppend

LEMMA SingleVal ==
  ASSUME NEW x, NEW y
  PROVE  <<<<x, y>>>> # <<>> /\ <<<<x, y>>>>[Len(<<<<x, y>>>>)][1] = x /\ <<<<x, y>>>>[1][1] = x
OBVIOUS

LEMMA PutStep ==
  ASSUME Works, NEW c \in Clnt, OneClientPut(c), UNCHANGED test
  PROVE  Works'
<1>0. TypeOK /\ Work = "put"
  BY DEF Works, OneClientPut, TypeOK
<1>1. UNCHANGED <<puts, strays, oplog, tpc, signals, rs, part, fatal>>
  BY DEF OneClientPut, testerVars
<1>2. /\ OpFits(c) /\ ClntOpFits(c) /\ VersionFits(c) /\ (reply[c] # NoReply => ReplyFits(c))
      /\ (Reliable => op[c].first /\ err[c] # "ErrMaybe" /\ res[c].nmaybe = 0)
      /\ (pc[c] # "loop" => tpc # "start")
      /\ (pc[c] \notin {"put", "get"} => ~MaybeStored(c) /\ op[c].kind = "none" /\ reply[c] = NoReply)
      /\ CountFits(c)
  BY <1>0, ClientView
<1>3. /\ puts \in Seq(Val) /\ Len(puts) \in Nat /\ c \in Procs
      /\ ver[c] \in Nat /\ err[c] \in Err /\ i[c] \in Nat /\ res[c] \in [nok : Nat, nmaybe : Nat]
      /\ res[c].nok + res[c].nmaybe = i[c]
      /\ op[c].ver \in Nat /\ op[c].first \in BOOLEAN
      /\ reply[c].val \in Val /\ reply[c].ver \in Nat /\ reply[c].err \in Err
  BY <1>0, TypeFacts
<1>4. ASSUME NEW v \in Nat, v <= Len(puts), Call(c, "put", <<<<c, v>>>>, v),
             pc' = [pc EXCEPT ![c] = "put"], ver' = [ver EXCEPT ![c] = v],
             UNCHANGED <<i, err, res>>,
             ~MaybeStored(c), ~Pending(c), tpc # "start", pc[c] # "deleted"
      PROVE  Works'
  <2> DEFINE x == <<<<c, v>>>>
             o == NewOp("put", x, v)
  <2>0. x \in Val
    BY <1>0, NewOpFacts
  <2>1. o \in Op /\ o.kind = "put" /\ o.val = x /\ o.ver = v /\ o.first
    <3> HIDE DEF x
    <3>1. QED
      BY <1>0, <2>0, NewOpFacts
  <2>2. Moves(c, o, "put", i[c], v, err[c], res[c])
    BY <1>0, <1>1, <1>4, Same DEF Moves, Call, NewOp
  <2> HIDE DEF o
  <2>3. NewTyped(o, "put", i[c], v, err[c], res[c])
    BY <1>3, <2>1 DEF NewTyped
  <2>4. NewOpFits(c, o, "put", v)
    BY <1>0, <1>4, <2>1, SingleVal DEF NewOpFits
  <2>5. NewVersion(c, "put", i[c], v, err[c])
    BY <1>2, <1>4 DEF NewVersion, VersionFits
  <2>6. NewCounts(c, "put", i[c], err[c], res[c])
    BY <1>0, <1>4, CountsFacts
  <2>7. NewFits(c, o, "put", i[c], v, err[c], res[c])
    BY <1>0, <1>2, <1>4, <2>1, <2>3, <2>4, <2>5, <2>6 DEF NewFits
  <2>8. QED
    BY <1>4, <2>2, <2>7, MovesStep
<1>5. ASSUME MayIterate(c), tpc \in {"sleep", "signal"},
             Call(c, "put", <<<<c, ver[c]>>>>, ver[c]),
             pc' = [pc EXCEPT ![c] = "put"], UNCHANGED <<i, ver, err, res>>
      PROVE  Works'
  <2>1. pc[c] = "loop" /\ ver[c] <= Len(puts) /\ ver' = [ver EXCEPT ![c] = ver[c]]
    BY <1>0, <1>2, <1>5, Same DEF MayIterate, VersionFits
  <2>2. QED
    BY <1>2, <1>3, <1>4, <1>5, <2>1 DEF Pending
<1>6. ASSUME pc[c] = "put", Answered(c), err' = [err EXCEPT ![c] = reply[c].err],
             Call(c, "get", <<>>, 0), pc' = [pc EXCEPT ![c] = "get"], UNCHANGED <<i, ver, res>>
      PROVE  Works'
  <2> DEFINE o == NewOp("get", <<>>, 0)
  <2>1. /\ op[c].kind = "put" /\ ReplyFits(c) /\ reply[c] # NoReply
        /\ op[c].ver = ver[c] /\ op[c].val = <<<<c, ver[c]>>>>
    BY <1>0, <1>2, <1>6 DEF ClntOpFits, Answered
  <2>2. /\ ver[c] < Len(puts) /\ reply[c].err \in {"OK", "ErrVersion", "ErrMaybe"}
        /\ (reply[c].err = "OK" => puts[ver[c] + 1] = <<<<c, ver[c]>>>>)
        /\ (reply[c].err = "ErrMaybe" => ~op[c].first)
    BY <2>1 DEF ReplyFits
  <2>3. puts # <<>>
    BY <1>3, <2>2
  <2>4. o \in Op /\ o.kind = "get" /\ o.first
    BY <1>0, NewOpFacts
  <2>5. Moves(c, o, "get", i[c], ver[c], reply[c].err, res[c])
    BY <1>0, <1>1, <1>6, Same DEF Moves, Call, NewOp
  <2> HIDE DEF o
  <2>6. NewTyped(o, "get", i[c], ver[c], reply[c].err, res[c])
    BY <1>3, <2>4 DEF NewTyped
  <2>7. NewOpFits(c, o, "get", ver[c])
    BY <2>3, <2>4 DEF NewOpFits
  <2>8. NewVersion(c, "get", i[c], ver[c], reply[c].err)
    BY <1>2, <2>2, <2>3 DEF NewVersion, VersionFits
  <2>9. /\ Stored(c) <=> reply[c].err = "OK"
        /\ MaybeStored(c) <=> reply[c].err \in {"OK", "ErrMaybe"}
    BY <1>0, <1>6, <2>1, <2>2 DEF Stored, MaybeStored, Answered
  <2>10. NewCounts(c, "get", i[c], reply[c].err, res[c])
    BY <1>0, <1>2, <2>9 DEF NewCounts, CountFits
  <2>11. ~Pending(c) /\ tpc # "start"
    BY <1>2, <1>6, <2>1 DEF Pending
  <2>12. NewFits(c, o, "get", i[c], ver[c], reply[c].err, res[c])
    BY <1>0, <1>2, <2>2, <2>4, <2>6, <2>7, <2>8, <2>10, <2>11 DEF NewFits
  <2>13. QED
    BY <1>6, <2>5, <2>11, <2>12, MovesStep
<1>7. ASSUME pc[c] = "get", Answered(c),
             ver' = [ver EXCEPT ![c] = reply[c].ver],
             IF CountsPut(c)
             THEN EndIteration(c, err[c]) /\ CallReturns(c) /\ pc' = [pc EXCEPT ![c] = "loop"]
             ELSE /\ Call(c, "put", <<<<c, reply[c].ver>>>>, reply[c].ver)
                  /\ pc' = [pc EXCEPT ![c] = "put"] /\ UNCHANGED <<i, res>>,
             UNCHANGED err
      PROVE  Works'
  <2>1. op[c].kind = "get" /\ ReplyFits(c) /\ reply[c] # NoReply /\ ~Pending(c) /\ tpc # "start"
    BY <1>2, <1>7 DEF ClntOpFits, Answered, Pending
  <2>2. /\ reply[c].err = "OK" /\ reply[c].ver \in DOMAIN puts
        /\ reply[c].val = puts[reply[c].ver]
    BY <2>1 DEF ReplyFits
  <2>3. /\ ver[c] < Len(puts) /\ err[c] \in {"OK", "ErrVersion", "ErrMaybe"}
        /\ (err[c] = "OK" => puts[ver[c] + 1] = <<<<c, ver[c]>>>>)
    BY <1>0, <1>2, <1>7 DEF VersionFits
  <2>5. reply[c].ver <= Len(puts) /\ puts # <<>>
    BY <1>3, <2>2
  <2>6. Stored(c) <=> err[c] = "OK"
    BY <1>0, <1>7 DEF Stored
  <2>7. MaybeStored(c) <=> CountsPut(c)
    BY <1>0, <1>7 DEF MaybeStored
  <2>8. CASE CountsPut(c)
    <3> DEFINE r == NewRes(c, err[c])
    <3>1. EndIteration(c, err[c]) /\ CallReturns(c) /\ pc' = [pc EXCEPT ![c] = "loop"]
      BY <1>7, <2>8
    <3>2. NewCounts(c, "loop", i[c] + 1, err[c], r)
      BY <1>0, <2>6, EndFacts, CountsFacts
    <3>3. Moves(c, NoOp, "loop", i[c] + 1, reply[c].ver, err[c], r)
      BY <1>0, <1>1, <1>7, <3>1, Same, EndFacts DEF Moves, CallReturns
    <3>4. NewTyped(NoOp, "loop", i[c] + 1, reply[c].ver, err[c], r)
      BY <1>0, <1>3, EndFacts, NewOpFacts DEF NewTyped
    <3>5. NewOpFits(c, NoOp, "loop", reply[c].ver)
      BY <1>0, NewOpFacts DEF NewOpFits
    <3>6. NewVersion(c, "loop", i[c] + 1, reply[c].ver, err[c])
      BY <2>5 DEF NewVersion
    <3>7. Reliable => err[c] = "OK"
      BY <1>2, <2>8 DEF CountsPut
    <3>8. Reliable => NoOp.first /\ err[c] # "ErrMaybe" /\ r.nmaybe = 0
      BY <1>0, <1>2, <3>7, EndFacts, NewOpFacts
    <3>9. NewFits(c, NoOp, "loop", i[c] + 1, reply[c].ver, err[c], r)
      BY <1>0, <1>3, <2>1, <3>2, <3>4, <3>5, <3>6, <3>8 DEF NewFits
    <3>10. QED
      BY <1>7, <2>1, <3>3, <3>9, MovesStep
  <2>9. CASE ~CountsPut(c)
    BY <1>3, <1>4, <1>7, <2>1, <2>5, <2>7, <2>9
  <2>10. QED
    BY <2>8, <2>9
<1>8. QED
  BY <1>5, <1>6, <1>7 DEF OneClientPut

LEMMA OnceStep ==
  ASSUME Works, NEW c \in Clnt, PutAtLeastOnce(c), UNCHANGED test
  PROVE  Works'
<1>0. TypeOK /\ Work = "once"
  BY DEF Works, PutAtLeastOnce, TypeOK
<1>1. UNCHANGED <<puts, strays, oplog, err, tpc, signals, rs, part, fatal>>
  BY DEF PutAtLeastOnce, testerVars
<1>2. /\ OpFits(c) /\ ClntOpFits(c) /\ VersionFits(c) /\ (reply[c] # NoReply => ReplyFits(c))
      /\ (Reliable => op[c].first /\ err[c] # "ErrMaybe" /\ res[c].nmaybe = 0)
      /\ (pc[c] \notin {"put", "get"} => op[c].kind = "none" /\ reply[c] = NoReply)
  BY <1>0, ClientView
<1>3. /\ puts \in Seq(Val) /\ Len(puts) \in Nat /\ c \in Procs
      /\ ver[c] \in Nat /\ err[c] \in Err /\ i[c] \in Nat /\ res[c] \in [nok : Nat, nmaybe : Nat]
      /\ res[c].nok + res[c].nmaybe = i[c]
      /\ op[c].ver \in Nat /\ op[c].val \in Val /\ reply[c].err \in Err
  BY <1>0, TypeFacts
<1>4. ASSUME NEW x \in Val, NEW v \in Nat, x # <<>>, x[Len(x)][1] = c, v <= Len(puts),
             Call(c, "put", x, v), pc' = [pc EXCEPT ![c] = "put"],
             ver' = [ver EXCEPT ![c] = v], UNCHANGED <<i, res>>,
             ~Pending(c), pc[c] # "deleted"
      PROVE  Works'
  <2> DEFINE o == NewOp("put", x, v)
  <2>1. o \in Op /\ o.kind = "put" /\ o.val = x /\ o.ver = v /\ o.first
    BY <1>0, NewOpFacts
  <2>2. Moves(c, o, "put", i[c], v, err[c], res[c])
    BY <1>0, <1>1, <1>4, Same DEF Moves, Call, NewOp
  <2> HIDE DEF o
  <2>3. NewTyped(o, "put", i[c], v, err[c], res[c])
    BY <1>3, <2>1 DEF NewTyped
  <2>4. NewOpFits(c, o, "put", v)
    BY <1>0, <1>4, <2>1 DEF NewOpFits
  <2>5. NewVersion(c, "put", i[c], v, err[c])
    BY <1>2, <1>4 DEF NewVersion, VersionFits
  <2>6. NewFits(c, o, "put", i[c], v, err[c], res[c])
    BY <1>0, <1>2, <2>1, <2>3, <2>4, <2>5 DEF NewFits
  <2>7. QED
    BY <1>4, <2>2, <2>6, MovesStep
<1>5. ASSUME pc[c] = "loop", Call(c, "put", <<<<c, i[c]>>>>, ver[c]),
             pc' = [pc EXCEPT ![c] = "put"], UNCHANGED <<i, ver, res>>
      PROVE  Works'
  <2>1. ver[c] <= Len(puts) /\ ver' = [ver EXCEPT ![c] = ver[c]]
    BY <1>0, <1>2, <1>5, Same DEF VersionFits
  <2>2. <<<<c, i[c]>>>> \in Val
    BY <1>0, <1>3, NewOpFacts
  <2>3. ~Pending(c)
    BY <1>2, <1>5 DEF Pending
  <2> DEFINE x == <<<<c, i[c]>>>>
  <2>4. x \in Val /\ x # <<>> /\ x[Len(x)][1] = c /\ Call(c, "put", x, ver[c])
    BY <1>5, <2>2, SingleVal
  <2> HIDE DEF x
  <2>5. QED
    BY <1>3, <1>4, <1>5, <2>1, <2>3, <2>4
<1>6. ASSUME pc[c] = "put", Answered(c),
             ver' = [ver EXCEPT ![c] = IF reply[c].err = "ErrNoKey" THEN @ ELSE @ + 1],
             IF PutDone(reply[c].err)
             THEN /\ EndIteration(c, reply[c].err) /\ CallReturns(c)
                  /\ pc' = [pc EXCEPT ![c] = "loop"]
             ELSE Call(c, "put", op[c].val, ver'[c]) /\ UNCHANGED <<pc, i, res>>
      PROVE  Works'
  <2>1. /\ op[c].kind = "put" /\ ReplyFits(c) /\ reply[c] # NoReply /\ op[c].ver = ver[c]
        /\ op[c].val # <<>> /\ op[c].val[Len(op[c].val)][1] = c /\ ~Pending(c)
    BY <1>0, <1>2, <1>6 DEF ClntOpFits, Answered, Pending
  <2>2. ver[c] < Len(puts) /\ reply[c].err \in {"OK", "ErrVersion", "ErrMaybe"}
    BY <2>1 DEF ReplyFits
  <2>3. /\ ver' = [ver EXCEPT ![c] = ver[c] + 1]
        /\ ver[c] + 1 <= Len(puts) /\ ver[c] + 1 \in Nat /\ puts # <<>>
    <3>1. reply[c].err # "ErrNoKey"
      BY <2>2
    <3>2. ver' = [ver EXCEPT ![c] = ver[c] + 1]
      BY <1>6, <3>1
    <3>4. ver[c] + 1 <= Len(puts) /\ ver[c] + 1 \in Nat /\ puts # <<>>
      BY <1>3, <2>2
    <3>5. QED
      BY <3>2, <3>4
  <2>4. CASE PutDone(reply[c].err)
    <3> DEFINE r == NewRes(c, reply[c].err)
    <3>1. /\ EndIteration(c, reply[c].err) /\ CallReturns(c) /\ pc' = [pc EXCEPT ![c] = "loop"]
          /\ reply[c].err = "OK"
      BY <1>6, <2>4 DEF PutDone
    <3>2. Moves(c, NoOp, "loop", i[c] + 1, ver[c] + 1, err[c], r)
      BY <1>0, <1>1, <2>3, <3>1, Same, EndFacts DEF Moves, CallReturns
    <3>3. NewTyped(NoOp, "loop", i[c] + 1, ver[c] + 1, err[c], r)
      BY <1>0, <1>3, <2>3, EndFacts, NewOpFacts DEF NewTyped
    <3>4. NewOpFits(c, NoOp, "loop", ver[c] + 1)
      BY <1>0, NewOpFacts DEF NewOpFits
    <3>5. NewVersion(c, "loop", i[c] + 1, ver[c] + 1, err[c])
      BY <2>3 DEF NewVersion
    <3>6. Reliable => NoOp.first /\ err[c] # "ErrMaybe" /\ r.nmaybe = 0
      BY <1>0, <1>2, <3>1, EndFacts, NewOpFacts
    <3>7. NewFits(c, NoOp, "loop", i[c] + 1, ver[c] + 1, err[c], r)
      BY <1>0, <1>3, <3>3, <3>4, <3>5, <3>6 DEF NewFits
    <3>8. QED
      BY <1>6, <2>1, <3>2, <3>7, MovesStep
  <2>5. CASE ~PutDone(reply[c].err)
    <3>1. ver'[c] = ver[c] + 1
      BY <1>0, <1>3, <2>3 DEF TypeOK
    <3>2. Call(c, "put", op[c].val, ver[c] + 1) /\ UNCHANGED <<pc, i, res>>
      BY <1>6, <2>5, <3>1
    <3>3. pc' = [pc EXCEPT ![c] = "put"]
      BY <1>0, <1>6, <3>2, Same
    <3>4. QED
      BY <1>3, <1>4, <1>6, <2>1, <2>3, <3>2, <3>3
  <2>6. QED
    BY <2>4, <2>5
<1>7. QED
  BY <1>5, <1>6 DEF PutAtLeastOnce

\* No client gets an answer for which it calls Fatalf().
LEMMA NothingUnexpected ==
  ASSUME Works, NEW c \in Clnt, Answered(c)
  PROVE  ~Unexpected(c)
<1>1. ClntOpFits(c) /\ VersionFits(c) /\ ReplyFits(c)
  BY ClientView DEF Answered
<1>2. CASE pc[c] = "get"
  <2>1. op[c].kind = "get"
    BY <1>1, <1>2 DEF ClntOpFits
  <2>2. reply[c].err = "OK" /\ reply[c].val = puts[reply[c].ver]
    BY <1>1, <2>1 DEF ReplyFits
  <2>3. Work = "put" /\ err[c] = "OK" /\ reply[c].ver = ver[c] + 1 => reply[c].val[1][1] = c
    BY <1>1, <1>2, <2>2, SingleVal DEF VersionFits
  <2>4. QED
    BY <1>2, <2>2, <2>3 DEF Unexpected
<1>3. CASE pc[c] = "put"
  <2>1. op[c].kind = "put"
    BY <1>1, <1>3 DEF ClntOpFits
  <2>2. reply[c].err # "ErrNoKey"
    BY <1>1, <2>1 DEF ReplyFits
  <2>3. QED
    BY <1>3, <2>2 DEF Unexpected
<1>4. QED
  BY <1>2, <1>3 DEF Unexpected

LEMMA ClientStep ==
  ASSUME Works, NEW c \in Clnt, Client(c), UNCHANGED test
  PROVE  Works'
<1>1. ~Fatalf(c)
  BY NothingUnexpected DEF Fatalf
<1>2. QED
  BY <1>1, DoneStep, AppendStep, PutStep, OnceStep DEF Client

-----------------------------------------------------------------------------
(* The checks: what the tester finds when all the clients have reported.   *)

\* Every client has reported, and no put can land any more.
LEMMA AtCheck ==
  ASSUME Works, tpc = "check", Answered(Tester)
  PROVE  /\ reply[Tester].err = "OK" /\ reply[Tester].ver = Len(puts)
         /\ Len(puts) \in DOMAIN puts /\ reply[Tester].val = puts[Len(puts)]
         /\ Work # "once"
         /\ \A c \in Clnt : /\ rs[c] = res[c] /\ rs[c].nok \in Nat /\ rs[c].nmaybe \in Nat
                            /\ rs[c].nok + rs[c].nmaybe = i[c] /\ ~MaybeStored(c)
                            /\ Cardinality(Mine(c)) \in Nat
                            /\ rs[c].nok <= Cardinality(Mine(c))
                            /\ Cardinality(Mine(c)) <= rs[c].nok + rs[c].nmaybe
<1>0. /\ TypeOK /\ OpsFit /\ RepliesFit /\ Counted /\ TesterFits /\ Tester \in Procs
  BY TypeFacts DEF Works
<1>1. op[Tester].kind = "get"
  <2>1. op[Tester].kind \in {"none", "get", "put"}
    BY <1>0, TypeFacts
  <2>2. op[Tester].kind # "put" /\ (op[Tester].kind = "none" => reply[Tester] = NoReply)
    BY <1>0 DEF OpsFit, OpFits
  <2>3. QED
    BY <2>1, <2>2 DEF Answered
<1>2. ReplyFits(Tester) /\ reply[Tester].ver = Len(puts) /\ Work # "once" /\ Len(rs) = NClnt
  BY <1>0 DEF RepliesFit, TesterFits
<1>3. /\ reply[Tester].err = "OK" /\ reply[Tester].ver \in DOMAIN puts
      /\ reply[Tester].val = puts[reply[Tester].ver]
  BY <1>1, <1>2 DEF ReplyFits
<1>4. ASSUME NEW c \in Clnt
      PROVE  /\ rs[c] = res[c] /\ rs[c].nok \in Nat /\ rs[c].nmaybe \in Nat
             /\ rs[c].nok + rs[c].nmaybe = i[c] /\ ~MaybeStored(c)
             /\ Cardinality(Mine(c)) \in Nat
             /\ rs[c].nok <= Cardinality(Mine(c))
             /\ Cardinality(Mine(c)) <= rs[c].nok + rs[c].nmaybe
  <2>1. c \in 1..Len(rs)
    BY <1>2 DEF Clnt
  <2>2. rs[c] = res[c] /\ pc[c] = "deleted"
    BY <1>0, <2>1 DEF TesterFits
  <2>3. ~MaybeStored(c)
    BY <2>2 DEF MaybeStored
  <2>4. CountFits(c)
    BY <1>0, <1>2 DEF Counted
  <2>5. res[c].nok <= Cardinality(Mine(c)) /\ Cardinality(Mine(c)) <= i[c]
    BY <2>3, <2>4 DEF CountFits
  <2>6. /\ res[c].nok \in Nat /\ res[c].nmaybe \in Nat /\ res[c].nok + res[c].nmaybe = i[c]
        /\ Cardinality(Mine(c)) \in Nat
    BY <1>0, TypeFacts, MineFinite
  <2>7. QED
    BY <2>2, <2>3, <2>5, <2>6
<1>5. QED
  BY <1>2, <1>3, <1>4

\* CheckPutConcurrent(): the versions are as many as the clients say.
LEMMA PutsAddUp ==
  ASSUME Works, tpc = "check", Answered(Tester), Work = "put"
  PROVE  CheckPutConcurrent(reply[Tester].ver)
<1>0. /\ reply[Tester].ver = Len(puts)
      /\ \A c \in Clnt : /\ rs[c].nok \in Nat /\ rs[c].nmaybe \in Nat
                         /\ rs[c].nok + rs[c].nmaybe = i[c] /\ rs[c] = res[c]
                         /\ Cardinality(Mine(c)) \in Nat
                         /\ rs[c].nok <= Cardinality(Mine(c))
                         /\ Cardinality(Mine(c)) <= rs[c].nok + rs[c].nmaybe
  BY AtCheck
<1>1. Len(puts) \in Nat /\ DOMAIN puts = 1..Len(puts)
  BY DEF Works, TypeOK
<1> DEFINE N == Len(puts)
           own == [k \in 1..N |-> puts[k][Len(puts[k])][1]]
           h == [c \in Clnt |-> Cardinality(Mine(c))]
           f == [c \in Clnt |-> rs[c].nok]
           g == [c \in Clnt |-> rs[c].nmaybe]
<1>2. \A k \in 1..N : puts[k] # <<>> /\ own[k] \in Clnt
  <2>1. ASSUME NEW k \in 1..N PROVE puts[k] # <<>> /\ own[k] \in Clnt
    <3>1. PICK c \in Clnt : k \in Mine(c)
      BY <1>1 DEF Works, VersionsFit
    <3>2. QED
      BY <3>1 DEF Mine
  <2>2. QED
    BY <2>1
<1>3. own \in [1..N -> Clnt]
  BY <1>2
<1>4. \A c \in Clnt : {k \in 1..N : own[k] = c} = Mine(c)
  BY <1>1, <1>2 DEF Mine
<1>5. h \in [Clnt -> Nat] /\ f \in [Clnt -> Nat] /\ g \in [Clnt -> Nat]
  BY <1>0
<1>6. \A c \in Clnt : Cardinality({k \in 1..N : own[k] = c}) = h[c]
  BY <1>4
<1>7. N = Sum(h)
  <2> HIDE DEF own, h
  <2>1. QED
    BY <1>1, <1>3, <1>5, <1>6, OwnersSum
<1>8. CASE Reliable
  <2>1. ASSUME NEW c \in Clnt PROVE h[c] = f[c]
    <3>1. rs[c].nmaybe = 0
      BY <1>0, <1>8 DEF Works, NothingMaybe
    <3>2. QED
      BY <1>0, <3>1
  <2>2. h = f
    BY <2>1
  <2>3. QED
    BY <1>0, <1>7, <1>8, <2>2 DEF CheckPutConcurrent, Nok
<1>9. CASE ~Reliable
  <2>1. \A c \in Clnt : h[c] <= f[c] + g[c]
    BY <1>0
  <2>2. Sum(h) <= Sum(f) + Sum(g)
    <3> HIDE DEF f, g, h
    <3>1. QED
      BY <1>5, <2>1, SumLeq
  <2>3. QED
    BY <1>0, <1>7, <1>9, <2>2 DEF CheckPutConcurrent, Nok, Nmaybe
<1>10. QED
  BY <1>8, <1>9

\* CheckAppends(): the entries of each client are in order, and no more of them are
\* missing than it was unsure of.
LEMMA ListChecks ==
  ASSUME Works, tpc = "check", Answered(Tester), Work = "append"
  PROVE  CheckAppends(reply[Tester].val, reply[Tester].ver)
<1>0. /\ reply[Tester].ver = Len(puts) /\ Len(puts) \in DOMAIN puts
      /\ reply[Tester].val = puts[Len(puts)]
      /\ \A c \in Clnt : /\ rs[c].nok \in Nat /\ rs[c].nmaybe \in Nat
                         /\ rs[c].nok + rs[c].nmaybe = i[c] /\ ~MaybeStored(c)
                         /\ Cardinality(Mine(c)) \in Nat
                         /\ rs[c].nok <= Cardinality(Mine(c))
  BY AtCheck
<1>1. /\ Len(puts) \in Nat /\ DOMAIN puts = 1..Len(puts) /\ TypeOK /\ ListFits
      /\ puts \in Seq(Val)
  BY DEF Works, TypeOK
<1> DEFINE N == Len(puts)
           es == puts[N]
           seen == CheckRun(es)[Len(es)]
<1>2. Extends(es, N - 1) /\ N >= 1
  BY <1>0, <1>1 DEF ListFits
<1>3. Len(es) = N - 1 /\ Len(es) \in Nat /\ Len(es) + 1 = N /\ N \in Nat
  <2>1. Len(es) = N - 1 /\ N \in Nat /\ N >= 1
    BY <1>1, <1>2 DEF Extends
  <2> HIDE DEF N, es
  <2>2. QED
    BY <2>1
<1>4. \A j \in 1..N - 1 : es[j] = Entry(j)
  <2>1. ASSUME NEW j \in 1..N - 1 PROVE es[j] = Entry(j)
    <3>1. CASE j = N - 1
      <4>1. j + 1 = N
        BY <1>1, <3>1
      <4>2. QED
        BY <4>1 DEF Entry
    <3>2. CASE j \in 1..(N - 1) - 1
      BY <1>2, <3>2 DEF Extends
    <3>3. j = N - 1 \/ j \in 1..(N - 1) - 1
      <4> HIDE DEF N
      <4>1. QED
        BY <1>3
    <3>4. QED
      BY <3>1, <3>2, <3>3
  <2>2. QED
    BY <2>1
<1>5. \A j \in 1..N - 1 : Entry(j) \in Clnt \X Nat
  <2>1. ASSUME NEW j \in 1..N - 1 PROVE Entry(j) \in Clnt \X Nat
    <3>1. Entry(j) \in Procs \X Nat /\ EntryFits(j)
      BY <1>1, EntryType DEF ListFits
    <3>2. Entry(j)[1] \in Clnt
      BY <3>1 DEF EntryFits
    <3>3. QED
      BY <3>1, <3>2
  <2>2. QED
    BY <2>1
<1> HIDE DEF es
<1>6. Rising(es)
  <2>1. ASSUME NEW j \in 1..N - 1, NEW k \in 1..N - 1, j < k, Entry(j)[1] = Entry(k)[1]
        PROVE  Entry(j)[2] < Entry(k)[2]
    BY <1>1, <2>1 DEF ListFits
  <2>2. 1..Len(es) = 1..N - 1
    BY <1>3
  <2> HIDE DEF N
  <2>3. ASSUME NEW j \in 1..Len(es) PROVE es[j] = Entry(j) /\ es[j] \in Clnt \X Nat
    BY <1>4, <1>5, <2>2
  <2>4. ASSUME NEW j \in 1..Len(es), NEW k \in 1..Len(es), j < k, es[j][1] = es[k][1]
        PROVE  es[j][2] < es[k][2]
    <3>1. es[j] = Entry(j) /\ es[k] = Entry(k) /\ j \in 1..N - 1 /\ k \in 1..N - 1
      BY <2>2, <2>3
    <3>2. Entry(j)[1] = Entry(k)[1]
      BY <2>4, <3>1
    <3>3. QED
      BY <2>1, <2>4, <3>1, <3>2
  <2>5. QED
    BY <2>3, <2>4 DEF Rising
<1>7. RunFits(seen, es, Len(es))
  BY <1>3, <1>6, CheckRunFacts
<1> HIDE DEF seen
<1>8. ASSUME NEW c \in Clnt
      PROVE  /\ seen.skipped[c] <= rs[c].nmaybe /\ seen.expect[c] <= rs[c].nok + rs[c].nmaybe
  <2> DEFINE E == EntriesOf(es, c, N - 1)
             b == [j \in E |-> j + 1]
  <2>1. /\ seen.skipped[c] \in Nat /\ seen.expect[c] \in Nat
        /\ seen.skipped[c] + Cardinality(E) = seen.expect[c]
        /\ (seen.expect[c] = 0 \/ \E j \in 1..N - 1 : es[j][1] = c /\ es[j][2] + 1 = seen.expect[c])
    BY <1>3, <1>7 DEF RunFits
  <2>2. seen.expect[c] <= i[c]
    <3>1. i[c] \in Nat
      BY <1>0
    <3>2. CASE seen.expect[c] = 0
      BY <3>1, <3>2
    <3>3. ASSUME NEW j \in 1..N - 1, es[j][1] = c, es[j][2] + 1 = seen.expect[c]
          PROVE  seen.expect[c] <= i[c]
      <4>1. Entry(j)[1] = c /\ Entry(j)[2] + 1 = seen.expect[c] /\ Entry(j)[2] \in Nat
        BY <1>4, <1>5, <3>3
      <4>2. Entry(j)[2] <= i[c] /\ Entry(j)[2] # i[c]
        BY <1>0, <4>1, EntriesBelow
      <4>3. QED
        BY <3>1, <4>1, <4>2
    <3>4. QED
      BY <2>1, <3>2, <3>3
  <2>3. Mine(c) = {j + 1 : j \in E}
    <3>1. \A k \in 1..N : Len(puts[k]) = k - 1
      BY <1>1 DEF ListFits, Extends
    <3>2. \A k \in 2..N : puts[k][Len(puts[k])] = Entry(k - 1) /\ puts[k] # <<>>
      <4>1. ASSUME NEW k \in 2..N PROVE puts[k][Len(puts[k])] = Entry(k - 1) /\ puts[k] # <<>>
        <5>1. k \in 1..N /\ k \in Nat /\ (k - 1) + 1 = k /\ k - 1 # 0
          BY <1>1
        <5>2. Len(puts[k]) = k - 1
          BY <3>1, <5>1
        <5>3. QED
          BY <5>1, <5>2 DEF Entry
      <4>2. QED
        BY <4>1
    <3>3. puts[1] = <<>>
      <4>1. 1 \in 1..N /\ Len(puts[1]) = 0 /\ puts[1] \in Val
        BY <1>1, <1>2, <3>1
      <4>2. QED
        BY <4>1 DEF Val
    <3>4. \A k : k \in Mine(c) <=> k \in 2..N /\ Entry(k - 1)[1] = c
      <4>1. \A k : k \in 1..N <=> k = 1 \/ k \in 2..N
        BY <1>1, <1>2
      <4>2. QED
        BY <1>1, <3>2, <3>3, <4>1 DEF Mine
    <3>5. \A j : j \in E <=> j \in 1..N - 1 /\ Entry(j)[1] = c
      BY <1>4 DEF EntriesOf
    <3>6. ASSUME NEW k \in Mine(c) PROVE k \in {j + 1 : j \in E}
      <4>1. k \in 2..N /\ k - 1 \in 1..N - 1 /\ (k - 1) + 1 = k
        BY <1>1, <3>4
      <4>2. k - 1 \in E
        BY <3>4, <3>5, <4>1
      <4>3. QED
        BY <4>1, <4>2
    <3>7. ASSUME NEW j \in E PROVE j + 1 \in Mine(c)
      <4>1. j \in 1..N - 1 /\ j + 1 \in 2..N /\ (j + 1) - 1 = j
        BY <1>1, <3>5
      <4>2. QED
        BY <3>4, <3>5, <4>1
    <3>8. QED
      BY <3>6, <3>7
  <2>4. IsFiniteSet(E) /\ Cardinality(E) \in Nat
    <3>0. N - 1 \in Nat
      BY <1>3
    <3>1. E \subseteq 1..N - 1 /\ IsFiniteSet(1..N - 1)
      BY <3>0, FS_Interval DEF EntriesOf
    <3>2. QED
      BY <3>1, FS_Subset, FS_CardinalityType
  <2>5. Cardinality(Mine(c)) <= Cardinality(E)
    <3>1. b \in [E -> Mine(c)] /\ \A k \in Mine(c) : \E j \in E : b[j] = k
      BY <2>3
    <3> HIDE DEF b, E
    <3>2. b \in Surjection(E, Mine(c))
      BY <3>1 DEF Surjection
    <3>3. QED
      BY <2>4, <3>2, FS_Surjection
  <2> HIDE DEF E
  <2>6. QED
    BY <1>0, <2>1, <2>2, <2>4, <2>5
<1>9. CheckAppends(es, N)
  BY <1>3, <1>7, <1>8 DEF CheckAppends, seen, RunFits
<1>10. QED
  BY <1>0, <1>9 DEF es

-----------------------------------------------------------------------------
(* The tester, the Partitioner and the steps that change nothing.          *)

LEMMA TesterMove ==
  ASSUME Works, TypeOK', TesterFits', NoFalseAlarm',
         UNCHANGED <<puts, strays, test, i, ver, err, res>>,
         \A c \in Clnt : op'[c] = op[c] /\ reply'[c] = reply[c],
         \A c \in Clnt : pc'[c] = pc[c] \/ (pc[c] = "send" /\ pc'[c] = "deleted"),
         \/ op' = op /\ reply' = reply
         \/ /\ reply'[Tester] = NoReply /\ (Reliable => op'[Tester].first)
            /\ ~(Pending(Tester) /\ op[Tester].kind = "put"),
         op'[Tester].kind = "get" => puts # <<>> /\ tpc' = "check",
         op'[Tester].kind = "put" => /\ Work = "append" /\ tpc' = "start"
                                     /\ op'[Tester].ver = 0 /\ op'[Tester].val = <<>>
  PROVE  Works'
<1>0. /\ TypeOK /\ OpsFit /\ RepliesFit /\ StraysFit /\ Counted
      /\ VersionsFit /\ ListFits /\ NothingMaybe
  BY DEF Works
<1>1. /\ puts' = puts /\ strays' = strays /\ test' = test /\ i' = i /\ ver' = ver /\ err' = err
      /\ res' = res /\ Len(puts) \in Nat
  BY <1>0, TypeFacts
<1>2. Procs = {Tester} \cup Clnt /\ \A c \in Clnt : c \in Procs
  BY DEF Procs
<1>3. \A d : Mine(d)' = Mine(d)
  BY <1>1 DEF Mine
<1>4. \A c \in Clnt : Stored(c)' = Stored(c) /\ MaybeStored(c)' = MaybeStored(c)
  BY <1>1 DEF Stored, MaybeStored, Answered, CountsPut, Work
<1>5. OpsFit'
  <2>1. OpFits(Tester)'
    <3>1. op'[Tester].kind = "none" => reply'[Tester] = NoReply
      BY <1>0, <1>2 DEF OpsFit, OpFits
    <3>2. QED
      BY <1>1, <3>1 DEF OpFits
  <2>2. ASSUME NEW c \in Clnt PROVE OpFits(c)' /\ ClntOpFits(c)'
    <3>1. OpFits(c) /\ ClntOpFits(c)
      BY <1>0, <1>2 DEF OpsFit
    <3>2. QED
      BY <1>1, <3>1 DEF OpFits, ClntOpFits, Work
  <2>3. QED
    BY <1>1, <1>2, <2>1, <2>2 DEF OpsFit, Work
<1>6. RepliesFit'
  <2>1. ASSUME NEW q \in Procs, reply'[q] # NoReply PROVE ReplyFits(q)'
    <3>1. op'[q] = op[q] /\ reply'[q] = reply[q]
      BY <1>2, <2>1
    <3>2. ReplyFits(q)
      BY <1>0, <2>1, <3>1 DEF RepliesFit, Answered
    <3>3. QED
      BY <1>1, <3>1, <3>2 DEF ReplyFits
  <2>2. QED
    BY <2>1 DEF RepliesFit, Answered
<1>7. StraysFit'
  <2>1. ASSUME NEW x, NEW p \in Procs, Resending(p, x) PROVE Resending(p, x)'
    <3>1. op'[p] = op[p] /\ reply'[p] = reply[p]
      BY <1>2, <2>1 DEF Resending
    <3>2. QED
      BY <2>1, <3>1 DEF Resending, Pending
  <2>2. QED
    BY <1>0, <1>1, <2>1 DEF StraysFit
<1>8. Counted'
  <2>1. ASSUME NEW c \in Clnt, CountFits(c) PROVE CountFits(c)'
    BY <1>1, <1>3, <1>4, <2>1 DEF CountFits
  <2>2. QED
    BY <1>0, <1>1, <2>1 DEF Counted, Work
<1>9. VersionsFit'
  <2>1. ASSUME NEW c \in Clnt PROVE VersionFits(c)'
    BY <1>0, <1>1 DEF VersionsFit, VersionFits, Work
  <2>2. QED
    BY <1>0, <1>1, <1>3, <2>1 DEF VersionsFit, Work
<1>10. ListFits'
  <2>1. SUFFICES ASSUME Work = "append" PROVE ListFits'
    BY <1>1 DEF ListFits, Work
  <2>2. \A j : Entry(j)' = Entry(j)
    BY <1>1 DEF Entry
  <2>3. ASSUME NEW k \in DOMAIN puts PROVE Extends(puts[k], k - 1)'
    BY <1>0, <1>1, <2>1, <2>2 DEF ListFits, Extends
  <2>4. ASSUME NEW d \in Clnt, pc'[d] = "put"
        PROVE  Extends(op[d].val, op[d].ver)' /\ op'[d].val[op'[d].ver] = <<d, i[d]>>
    <3>1. Extends(op[d].val, op[d].ver) /\ op[d].val[op[d].ver] = <<d, i[d]>>
      BY <1>0, <2>1, <2>4 DEF ListFits
    <3>2. QED
      BY <2>2, <3>1 DEF Extends
  <2>5. ASSUME NEW j \in 1..Len(puts) - 1 PROVE EntryFits(j)'
    <3>1. EntryFits(j)
      BY <1>0, <2>1 DEF ListFits
    <3>2. QED
      BY <1>1, <1>4, <2>2, <3>1 DEF EntryFits
  <2>6. QED
    BY <1>0, <1>1, <2>1, <2>2, <2>3, <2>4, <2>5 DEF ListFits
<1>11. NothingMaybe'
  <2>1. SUFFICES ASSUME Reliable PROVE NothingMaybe'
    BY <1>1 DEF NothingMaybe, Reliable
  <2>2. \A p \in Procs : op'[p].first
    BY <1>0, <1>2, <2>1 DEF NothingMaybe
  <2>3. QED
    BY <1>0, <1>1, <2>1, <2>2 DEF NothingMaybe
<1>12. QED
  BY <1>5, <1>6, <1>7, <1>8, <1>9, <1>10, <1>11 DEF Works

\* Steps of the tester that call no clerk and collect no result.
LEMMA PlainStep ==
  ASSUME Works, UNCHANGED <<clerkVars, clntVars, signals, rs, fatal, test>>,
         part' \in {"off", "running", "done"},
         tpc' \in {"start", "sleep", "signal", "collect", "check", "stop", "wait", "end", "failed"},
         \/ tpc' = tpc
         \/ /\ tpc \notin {"start", "check"} /\ tpc' \notin {"start", "check"}
            /\ tpc' \in {"stop", "wait", "end"} => tpc \in {"stop", "wait", "end"}
            /\ \A c \in Clnt : pc[c] \in {"put", "get", "ended"} \/ i[c] > 0
  PROVE  Works'
<1>0. TypeOK /\ OpsFit /\ TesterFits /\ NoFalseAlarm
  BY DEF Works
<1>1. /\ puts' = puts /\ strays' = strays /\ op' = op /\ reply' = reply /\ oplog' = oplog
      /\ pc' = pc /\ i' = i /\ ver' = ver /\ err' = err /\ res' = res
      /\ signals' = signals /\ rs' = rs /\ fatal' = fatal /\ test' = test
  BY DEF clerkVars, clntVars
<1>2. TypeOK' /\ NoFalseAlarm'
  BY <1>0, <1>1 DEF TypeOK, NoFalseAlarm
<1>3. TesterFits'
  BY <1>0, <1>1 DEF TesterFits, Answered, Work
<1>4. Tester \in Procs
  BY DEF Procs
<1>5. /\ op'[Tester].kind = "get" => puts # <<>> /\ tpc' = "check"
      /\ op'[Tester].kind = "put" => /\ Work = "append" /\ tpc' = "start"
                                     /\ op'[Tester].ver = 0 /\ op'[Tester].val = <<>>
  BY <1>0, <1>1, <1>4 DEF OpsFit, OpFits
<1>6. QED
  BY <1>1, <1>2, <1>3, <1>5, TesterMove

\* A step in which the tester calls its clerk (o), or ends the call.
LEMMA TesterCalls ==
  ASSUME Works, NEW o \in Op, o.first,
         op' = [op EXCEPT ![Tester] = o], reply' = [reply EXCEPT ![Tester] = NoReply],
         tpc' \in {"start", "sleep", "signal", "collect", "check", "stop", "wait", "end", "failed"},
         UNCHANGED <<puts, strays, oplog, clntVars, signals, rs, part, test, fatal>>,
         o.kind = "get" => puts # <<>> /\ tpc' = "check",
         o.kind = "put" => Work = "append" /\ tpc' = "start" /\ o.ver = 0 /\ o.val = <<>>,
         ~(Pending(Tester) /\ op[Tester].kind = "put"),
         Work # "once",
         tpc' # "start" /\ Work = "append" => puts # <<>>,
         tpc' = "start" => tpc = "start",
         tpc' \notin {"start", "sleep"} => tpc \notin {"start", "sleep"},
         tpc' \in {"check", "stop", "wait", "end"} => Len(rs) = NClnt
  PROVE  Works'
<1>0. TypeOK /\ TesterFits /\ NoFalseAlarm /\ Tester \in Procs
  BY DEF Works, Procs
<1>1. /\ puts' = puts /\ strays' = strays /\ oplog' = oplog
      /\ pc' = pc /\ i' = i /\ ver' = ver /\ err' = err /\ res' = res
      /\ signals' = signals /\ rs' = rs /\ fatal' = fatal /\ test' = test /\ part' = part
  BY DEF clntVars
<1>2. NoReply \in Reply
  BY DEF NoReply, Reply, Err, Val
<1>3. op' \in [Procs -> Op] /\ reply' \in [Procs -> Reply]
  BY <1>0, <1>2 DEF TypeOK
<1>4. TypeOK' /\ NoFalseAlarm'
  BY <1>0, <1>1, <1>3 DEF TypeOK, NoFalseAlarm
<1>5. op'[Tester] = o /\ reply'[Tester] = NoReply
  BY <1>0 DEF TypeOK
<1>6. \A c \in Clnt : op'[c] = op[c] /\ reply'[c] = reply[c]
  BY <1>0, TypeFacts DEF TypeOK
<1>7. TesterFits'
  BY <1>0, <1>1, <1>5 DEF TesterFits, Answered, Work
<1>8. QED
  BY <1>1, <1>4, <1>5, <1>6, <1>7, TesterMove

LEMMA StartStep ==
  ASSUME Works, Start, UNCHANGED test
  PROVE  Works'
<1>0. /\ TypeOK /\ OpsFit /\ RepliesFit /\ Tester \in Procs
      /\ tpc = "start" /\ Work # "once" /\ Work \in {"append", "put", "once"}
  BY KvTestAssumption DEF Works, Start, Procs, TypeOK, Work
<1>1. UNCHANGED <<puts, strays, oplog, clntVars, signals, rs, part, fatal>>
  BY DEF Start
<1>2. NoOp \in Op /\ NoOp.kind = "none" /\ NoOp.first
  BY <1>0, NewOpFacts
<1> DEFINE o == NewOp("put", <<>>, 0)
<1>3. o \in Op /\ o.kind = "put" /\ o.val = <<>> /\ o.ver = 0 /\ o.first
  BY <1>0, NewOpFacts
<1>4. CASE /\ Work = "append" /\ (op[Tester] = NoOp \/ Answered(Tester))
           /\ Call(Tester, "put", <<>>, 0) /\ UNCHANGED tpc
  <2>1. /\ op' = [op EXCEPT ![Tester] = o] /\ reply' = [reply EXCEPT ![Tester] = NoReply]
        /\ tpc' = "start"
    BY <1>0, <1>4 DEF Call, NewOp
  <2>2. ~Pending(Tester)
    BY <1>2, <1>4 DEF Pending, Answered
  <2> HIDE DEF o
  <2>3. QED
    BY <1>0, <1>1, <1>3, <1>4, <2>1, <2>2, TesterCalls
<1>5. CASE /\ Work = "put" \/ Answered(Tester)
           /\ CallReturns(Tester) /\ tpc' = "sleep"
  <2>1. op[Tester].kind = "put" => Work = "append" /\ ~Pending(Tester)
    BY <1>0, <1>5 DEF OpsFit, Pending, Answered
  <2>2. Work = "append" => puts # <<>>
    <3>1. SUFFICES ASSUME Work = "append" PROVE puts # <<>>
      OBVIOUS
    <3>2. Answered(Tester)
      BY <1>5, <3>1
    <3>3. op[Tester].kind = "put"
      <4>1. op[Tester].kind \in {"none", "get", "put"}
        BY <1>0, TypeFacts
      <4>2. QED
        BY <1>0, <3>2, <4>1 DEF OpsFit, OpFits, Answered
    <3>4. op[Tester].ver < Len(puts) /\ op[Tester].ver = 0
      BY <1>0, <3>2, <3>3 DEF RepliesFit, ReplyFits, OpsFit
    <3>5. QED
      BY <1>0, <3>4 DEF TypeOK
  <2>3. /\ op' = [op EXCEPT ![Tester] = NoOp] /\ reply' = [reply EXCEPT ![Tester] = NoReply]
        /\ tpc' = "sleep"
    BY <1>5 DEF CallReturns
  <2>4. ~(Pending(Tester) /\ op[Tester].kind = "put")
    BY <2>1
  <2>5. UNCHANGED <<puts, strays, oplog, clntVars, signals, rs, part, test, fatal>>
    BY <1>1
  <2>6. QED
    BY <1>0, <1>2, <2>2, <2>3, <2>4, <2>5, TesterCalls
<1>6. QED
  BY <1>4, <1>5 DEF Start

LEMMA GetForCheckStep ==
  ASSUME Works, GetForCheck, UNCHANGED test
  PROVE  Works'
<1>0. /\ TypeOK /\ OpsFit /\ VersionsFit /\ TesterFits
      /\ tpc = "collect" /\ Len(rs) = NClnt /\ tpc' = "check"
      /\ Call(Tester, "get", <<>>, 0)
      /\ UNCHANGED <<puts, strays, oplog, clntVars, signals, rs, part, fatal>>
  BY DEF Works, GetForCheck
<1>1. 1 \in Clnt /\ 1 \in 1..Len(rs)
  BY <1>0, KvTestAssumption DEF Clnt
<1>2. i[1] > 0
  BY <1>0, <1>1 DEF TesterFits
<1>3. puts # <<>>
  BY <1>0, <1>1, <1>2 DEF VersionsFit, VersionFits
<1> DEFINE o == NewOp("get", <<>>, 0)
<1>4. o \in Op /\ o.kind = "get" /\ o.first
  BY <1>0, NewOpFacts
<1>5. op' = [op EXCEPT ![Tester] = o] /\ reply' = [reply EXCEPT ![Tester] = NoReply]
  BY <1>0 DEF Call, NewOp
<1>6. op[Tester].kind # "put" /\ Work # "once"
  BY <1>0 DEF OpsFit, TesterFits
<1> HIDE DEF o
<1>7. UNCHANGED <<puts, strays, oplog, clntVars, signals, rs, part, test, fatal>>
  BY <1>0
<1>8. tpc = "collect" /\ tpc' = "check" /\ Len(rs) = NClnt
  BY <1>0
<1>9. QED
  BY <1>3, <1>4, <1>5, <1>6, <1>7, <1>8, TesterCalls

LEMMA CheckStep ==
  ASSUME Works, Check, UNCHANGED test
  PROVE  Works'
<1>0. /\ TypeOK /\ OpsFit /\ TesterFits
      /\ tpc = "check" /\ Answered(Tester) /\ CallReturns(Tester)
      /\ UNCHANGED <<puts, strays, oplog, clntVars, signals, rs, part>>
  BY DEF Works, Check
<1>1. reply[Tester].err = "OK" /\ Work # "once" /\ Len(puts) \in DOMAIN puts
  BY <1>0, AtCheck
<1>2. Work \in {"append", "put"}
  BY <1>0, <1>1, KvTestAssumption DEF TypeOK, Work
<1>3. IF Work = "append" THEN CheckAppends(reply[Tester].val, reply[Tester].ver)
      ELSE CheckPutConcurrent(reply[Tester].ver)
  BY <1>0, <1>2, PutsAddUp, ListChecks
<1>4. fatal' = fatal /\ tpc' \in {"stop", "end"}
  BY <1>1, <1>3 DEF Check, Passed
<1>5. NoOp \in Op /\ NoOp.kind = "none" /\ NoOp.first
  BY <1>0, NewOpFacts
<1>6. puts # <<>> /\ ~Pending(Tester) /\ Len(rs) = NClnt
  BY <1>0, <1>1 DEF Pending, Answered, TesterFits
<1>7. QED
  BY <1>0, <1>1, <1>4, <1>5, <1>6, TesterCalls DEF CallReturns

LEMMA ResultStep ==
  ASSUME Works, Result, UNCHANGED test
  PROVE  Works'
<1>1. PICK c \in Clnt : /\ c = Len(rs) + 1 /\ tpc = "collect" /\ pc[c] = "send"
                        /\ rs' = Append(rs, res[c]) /\ pc' = [pc EXCEPT ![c] = "deleted"]
  BY DEF Result
<1>2. /\ puts' = puts /\ strays' = strays /\ op' = op /\ reply' = reply /\ oplog' = oplog
      /\ i' = i /\ ver' = ver /\ err' = err /\ res' = res /\ tpc' = tpc
      /\ signals' = signals /\ fatal' = fatal /\ test' = test /\ part' = part
  BY DEF Result, clerkVars
<1>3. /\ TypeOK /\ OpsFit /\ TesterFits /\ NoFalseAlarm
      /\ rs \in Seq([nok : Nat, nmaybe : Nat]) /\ res[c] \in [nok : Nat, nmaybe : Nat]
      /\ NClnt \in Nat
  BY KvTestAssumption DEF Works, TypeOK
<1>4. /\ rs' \in Seq([nok : Nat, nmaybe : Nat]) /\ Len(rs) \in Nat /\ Len(rs') = Len(rs) + 1
      /\ \A k \in 1..Len(rs) : rs'[k] = rs[k]
      /\ rs'[Len(rs) + 1] = res[c]
  BY <1>1, <1>3, AppendProperties
<1>5. pc'[c] = "deleted" /\ \A d \in Clnt : d # c => pc'[d] = pc[d]
  BY <1>1, <1>3 DEF TypeOK
<1>6. Len(rs') <= NClnt
  BY <1>1, <1>3, <1>4 DEF Clnt
<1>7. pc' \in [Clnt -> {"loop", "get", "put", "send", "deleted", "ended"}]
  BY <1>1, <1>3 DEF TypeOK
<1>8. TypeOK' /\ NoFalseAlarm'
  BY <1>2, <1>3, <1>4, <1>6, <1>7 DEF TypeOK, NoFalseAlarm
<1>9. ASSUME NEW d \in 1..Len(rs') PROVE rs'[d] = res[d] /\ pc'[d] = "deleted"
  <2>1. CASE d = c
    BY <1>1, <1>4, <1>5, <2>1
  <2>2. CASE d # c
    <3>1. d \in 1..Len(rs)
      BY <1>1, <1>4, <2>2
    <3>2. d \in Clnt
      BY <1>3, <3>1 DEF Clnt, TypeOK
    <3>3. QED
      BY <1>3, <1>4, <1>5, <2>2, <3>1, <3>2 DEF TesterFits
  <2>3. QED
    BY <2>1, <2>2
<1>10. i[c] > 0
  BY <1>1, <1>3 DEF TesterFits
<1>11. ASSUME NEW d \in Clnt PROVE pc'[d] \in {"put", "get", "ended"} \/ i[d] > 0
  BY <1>1, <1>3, <1>5, <1>10 DEF TesterFits
<1>12. TesterFits'
  BY <1>1, <1>2, <1>3, <1>9, <1>11 DEF TesterFits, Answered, Work
<1>13. op[Tester].kind \notin {"get", "put"}
  BY <1>1, <1>3 DEF OpsFit
<1>14. QED
  BY <1>1, <1>2, <1>5, <1>8, <1>12, <1>13, TesterMove

LEMMA TesterNextStep ==
  ASSUME Works, TesterNext \/ PartitionerStarts, UNCHANGED test
  PROVE  Works'
<1>0. TypeOK /\ TesterFits
  BY DEF Works
<1>1. CASE Signal
  <2>1. /\ tpc = "sleep" /\ tpc' = "signal" /\ UNCHANGED <<clerkVars, clntVars, signals, rs, part, fatal>>
    BY <1>1 DEF Signal, TesterStep, clntVars
  <2>2. \A c \in Clnt : pc[c] \in {"put", "get", "ended"} \/ i[c] > 0
    <3>1. \A c \in Clnt : pc[c] \in {"loop", "get", "put", "send", "deleted", "ended"}
      BY <1>0 DEF TypeOK
    <3>2. QED
      BY <1>0, <1>1, <3>1 DEF Signal, TesterFits
  <2>3. QED
    BY <1>0, <2>1, <2>2, PlainStep DEF TypeOK
<1>2. CASE Collect
  <2>1. /\ tpc = "signal" /\ tpc' = "collect" /\ UNCHANGED <<clerkVars, clntVars, signals, rs, part, fatal>>
    BY <1>2 DEF Collect
  <2>2. \A c \in Clnt : pc[c] \in {"put", "get", "ended"} \/ i[c] > 0
    BY <1>0, <2>1 DEF TesterFits
  <2>3. QED
    BY <1>0, <2>1, <2>2, PlainStep DEF TypeOK
<1>3. CASE StopPartitioner \/ PartitionerStopped
  <2>1. /\ tpc \in {"stop", "wait"} /\ tpc' \in {"wait", "end"}
        /\ part' \in {"off", "running", "done"}
        /\ UNCHANGED <<clerkVars, clntVars, signals, rs, fatal>>
    BY <1>0, <1>3 DEF StopPartitioner, PartitionerStopped, TesterStep, clntVars, TypeOK
  <2>2. \A c \in Clnt : pc[c] \in {"put", "get", "ended"} \/ i[c] > 0
    BY <1>0, <2>1 DEF TesterFits
  <2>3. QED
    BY <2>1, <2>2, PlainStep
<1>4. CASE PartitionerStarts
  <2>1. /\ tpc' = tpc /\ part' = "running"
        /\ UNCHANGED <<clerkVars, clntVars, signals, rs, fatal>>
    BY <1>4 DEF PartitionerStarts
  <2>2. tpc \in {"start", "sleep", "signal", "collect", "check", "stop", "wait", "end", "failed"}
    BY <1>0 DEF TypeOK
  <2>3. QED
    BY <2>1, <2>2, PlainStep
<1>5. QED
  BY <1>1, <1>2, <1>3, <1>4, StartStep, ResultStep, GetForCheckStep, CheckStep DEF TesterNext

-----------------------------------------------------------------------------
(* The theorems.                                                           *)

LEMMA InitFits == Init => Works
<1> SUFFICES ASSUME Init PROVE Works
  OBVIOUS
<1>0. /\ puts = <<>> /\ strays = {} /\ rs = <<>> /\ Len(puts) = 0 /\ DOMAIN puts = {} /\ Len(rs) = 0
      /\ \A p \in Procs : op[p] = NoOp /\ reply[p] = NoReply /\ ver[p] = 0
      /\ \A c \in Clnt : /\ pc[c] = "loop" /\ i[c] = 0 /\ err[c] = "none" /\ res[c] = NoRes
                         /\ c \in Procs
      /\ tpc = "start" /\ fatal = FALSE /\ Tester \in Procs /\ NClnt \in Nat
  BY KvTestAssumption DEF Init, Procs
<1>1. TypeOK
  <2>1. NoOp \in Op /\ NoReply \in Reply /\ NoRes \in [nok : Nat, nmaybe : Nat] /\ "none" \in Err
    BY DEF NoOp, NoReply, NoRes, Op, Reply, Err, Val
  <2>2. IsFiniteSet(strays) /\ Cardinality(strays) <= MaxStray
    BY <1>0, FS_EmptySet, KvTestAssumption
  <2>3. /\ op \in [Procs -> Op] /\ reply \in [Procs -> Reply] /\ ver \in [Procs -> Nat]
        /\ i \in [Clnt -> Nat] /\ err \in [Clnt -> Err]
        /\ res \in [Clnt -> [nok : Nat, nmaybe : Nat]]
        /\ pc \in [Clnt -> {"loop", "get", "put", "send", "deleted", "ended"}]
    BY <2>1 DEF Init
  <2>4. \A c \in Clnt : res[c].nok + res[c].nmaybe = i[c]
    BY <1>0 DEF NoRes
  <2>5. puts \in Seq(Val) /\ oplog \in Seq([in : Op, out : Reply]) /\ rs \in Seq([nok : Nat, nmaybe : Nat])
    BY DEF Init
  <2>6. /\ test \in Tests /\ strays \subseteq Op /\ signals \in 0..NClnt /\ Len(rs) <= NClnt
        /\ tpc = "start" /\ part = "off" /\ fatal \in BOOLEAN
    <3>1. 0 \in 0..NClnt /\ 0 <= NClnt
      BY <1>0
    <3>2. QED
      BY <1>0, <3>1 DEF Init
  <2>7. QED
    BY <2>2, <2>3, <2>4, <2>5, <2>6 DEF TypeOK
<1>2. NoFalseAlarm /\ OpsFit /\ RepliesFit /\ StraysFit
  BY <1>0 DEF NoFalseAlarm, OpsFit, OpFits, ClntOpFits, RepliesFit, Answered, StraysFit, NoOp
<1>3. \A c \in Clnt : Mine(c) = {} /\ ~Stored(c)
  BY <1>0 DEF Mine, Stored
<1>4. Counted
  <2>1. Cardinality({}) = 0
    BY FS_EmptySet
  <2>2. ASSUME NEW c \in Clnt PROVE CountFits(c)
    <3>1. Cardinality(Mine(c)) = 0 /\ res[c].nok = 0 /\ i[c] = 0 /\ ~Stored(c)
      <4>1. Cardinality(Mine(c)) = 0
        BY <1>3, <2>1, Zenon
      <4>2. QED
        BY <1>0, <1>3, <4>1 DEF NoRes
    <3>2. QED
      BY <3>1 DEF CountFits
  <2>3. QED
    BY <2>2 DEF Counted
<1>5. VersionsFit
  BY <1>0 DEF VersionsFit, VersionFits
<1>6. ListFits
  BY <1>0 DEF ListFits
<1>7. NothingMaybe
  BY <1>0 DEF NothingMaybe, NoOp, NoRes
<1>8. TesterFits
  BY <1>0 DEF TesterFits
<1>9. QED
  BY <1>1, <1>2, <1>4, <1>5, <1>6, <1>7, <1>8 DEF Works

LEMMA TestStays == [Next]_vars => test' = test /\ Broken' = Broken
BY DEF Next, vars, Broken

LEMMA StepFits == Works /\ ~Broken /\ [Next]_vars => Works'
<1> SUFFICES ASSUME Works, ~Broken, [Next]_vars PROVE Works'
  OBVIOUS
<1>1. CASE Next
  BY <1>1, ClerkStep, ClientStep, TesterNextStep DEF Next
<1>2. CASE UNCHANGED vars
  <2>1. UNCHANGED <<clerkVars, clntVars, signals, rs, fatal, test, tpc, part>>
    BY <1>2 DEF vars, runVars, testerVars
  <2>2. /\ part \in {"off", "running", "done"}
        /\ tpc \in {"start", "sleep", "signal", "collect", "check", "stop", "wait", "end", "failed"}
    BY DEF Works, TypeOK
  <2>3. QED
    BY <2>1, <2>2, PlainStep
<1>3. QED
  BY <1>1, <1>2

\* With a service and clerks that do what the labs ask for, no check of kvtest.go
\* calls Fatalf(), for any number of clients, whatever is lost, resent or executed
\* late; and every iteration of a client is counted once.
THEOREM KvInvHolds == Spec => []KvInv
<1>1. Init => KvInv
  BY InitFits DEF KvInv
<1>2. KvInv /\ [Next]_vars => KvInv'
  BY StepFits, TestStays DEF KvInv
<1>3. QED
  BY <1>1, <1>2, PTL DEF Spec

\* The version that PutAtLeastOnce() of kvtest.go returns is one under which the
\* service stored the value.
THEOREM PutAtLeastOnceStoredHolds == Spec => PutAtLeastOnceStored
<1>1. ASSUME Works, ~Broken, [Next]_vars, NEW c \in Clnt, Work = "once", i'[c] > i[c]
      PROVE  ver'[c] <= Len(puts) /\ puts[ver'[c]] = op[c].val
  <2>0. TypeOK /\ i[c] \in Nat /\ ver[c] \in Nat /\ c \in Procs
    BY <1>1, TypeFacts DEF Works
  <2>1. tpc = "start"
    BY <1>1 DEF Works, TesterFits
  <2>2. i' # i
    BY <1>1, <2>0
  <2>3. \E d \in Clnt : Client(d)
    BY <1>1, <2>2 DEF Next, vars, runVars, clntVars, Clerks, Serve, Resend, ExecuteStray,
      LoseKey, TesterNext, Start, Signal, Collect, Result, GetForCheck, Check, StopPartitioner,
      PartitionerStopped, PartitionerStarts, TesterStep
  <2>4. PICK d \in Clnt : PutAtLeastOnce(d)
    BY <1>1, <2>1, <2>3, NothingUnexpected DEF Client, Done, Fatalf, OneClientAppend,
      OneClientPut, Signalling
  <2>5. /\ pc[d] = "put" /\ Answered(d) /\ PutDone(reply[d].err)
        /\ ver' = [ver EXCEPT ![d] = IF reply[d].err = "ErrNoKey" THEN @ ELSE @ + 1]
        /\ EndIteration(d, reply[d].err)
    BY <2>2, <2>4 DEF PutAtLeastOnce
  <2>6. d = c
    BY <1>1, <2>0, <2>5 DEF EndIteration, TypeOK
  <2>7. ver'[c] = ver[c] + 1 /\ reply[c].err = "OK"
    BY <2>0, <2>5, <2>6 DEF PutDone, TypeOK
  <2>8. ClntOpFits(c) /\ ReplyFits(c)
    BY <1>1, <2>5, <2>6, ClientView DEF Answered
  <2>9. op[c].kind = "put" /\ op[c].ver = ver[c]
    BY <1>1, <2>5, <2>6, <2>8 DEF ClntOpFits
  <2>10. ver[c] < Len(puts) /\ puts[ver[c] + 1] = op[c].val
    BY <2>7, <2>8, <2>9 DEF ReplyFits
  <2>11. Len(puts) \in Nat
    BY <2>0, TypeFacts
  <2>12. QED
    BY <2>0, <2>7, <2>10, <2>11
<1>2. KvInv /\ [Next]_vars =>
        [\A c \in Clnt : ~Broken /\ Work = "once" /\ i'[c] > i[c]
           => ver'[c] <= Len(puts) /\ puts[ver'[c]] = op[c].val]_vars
  BY <1>1 DEF KvInv
<1>3. QED
  BY <1>2, KvInvHolds, PTL DEF Spec, PutAtLeastOnceStored

-----------------------------------------------------------------------------
(* The log of a service that does what the labs ask for is linearizable.   *)
(* An entry k of the log takes effect at the version pos[k].  A version v  *)
(* is put by the entry own[v] or, if own[v] is 0, by a clerk that has no   *)
(* answer yet.  The order is that of the versions, the put that made a     *)
(* version before the other entries of that version.                       *)

Putting(pos, v, p) ==
  /\ Pending(p) /\ op[p].kind = "put" /\ op[p].ver + 1 = v /\ op[p].val = puts[v]
  /\ ~op[p].first
  /\ \A j \in DOMAIN oplog : j <= op[p].call => pos[j] < v

LinEntry(pos, own, k) ==
  /\ pos[k] \in DOMAIN puts /\ oplog[k].in.call < k
  /\ oplog[k].in.kind = "get" => oplog[k].out.val = puts[pos[k]]
  /\ oplog[k].in.kind # "get" =>
       /\ oplog[k].in.kind = "put" /\ oplog[k].in.ver < pos[k]
       /\ oplog[k].out.err \in {"OK", "ErrVersion", "ErrMaybe"}
       /\ oplog[k].out.err = "OK" => own[pos[k]] = k

Owns(pos, v, k) ==
  /\ k \in DOMAIN oplog /\ pos[k] = v
  /\ oplog[k].in.kind = "put" /\ oplog[k].in.ver + 1 = v /\ oplog[k].in.val = puts[v]
  /\ oplog[k].out.err \in {"OK", "ErrMaybe"}

LinVersion(pos, own, v) ==
  \/ Owns(pos, v, own[v])
  \/ own[v] = 0 /\ \E p \in Procs : Putting(pos, v, p)

LinOrder(pos, own, j, k) ==
  j <= oplog[k].in.call => pos[j] <= pos[k] /\ (own[pos[k]] = k => pos[j] < pos[k])

Linearized(pos, own) ==
  /\ pos \in [DOMAIN oplog -> Nat] /\ own \in [DOMAIN puts -> Nat]
  /\ \A k \in DOMAIN oplog : LinEntry(pos, own, k)
  /\ \A v \in DOMAIN puts : LinVersion(pos, own, v)
  /\ \A j, k \in DOMAIN oplog : LinOrder(pos, own, j, k)

LinInv ==
  /\ ~Log => oplog = <<>>
  /\ \A p \in Procs : op[p].call <= Len(oplog)
  /\ Log => \E pos, own : Linearized(pos, own)

LEMMA LogFacts ==
  ASSUME TypeOK
  PROVE  /\ oplog \in Seq([in : Op, out : Reply]) /\ Len(oplog) \in Nat
         /\ DOMAIN oplog = 1..Len(oplog) /\ DOMAIN puts = 1..Len(puts)
         /\ \A k \in DOMAIN oplog : /\ oplog[k].in.call \in Nat /\ oplog[k].in.ver \in Nat
                                    /\ oplog[k].in \in Op /\ oplog[k].out \in Reply
<1>1. /\ oplog \in Seq([in : Op, out : Reply]) /\ Len(oplog) \in Nat
      /\ DOMAIN oplog = 1..Len(oplog) /\ DOMAIN puts = 1..Len(puts)
  BY DEF TypeOK
<1>2. \A k \in DOMAIN oplog : oplog[k] \in [in : Op, out : Reply]
  <2> DEFINE R == [in : Op, out : Reply]
  <2>1. oplog \in Seq(R)
    BY <1>1
  <2> HIDE DEF R
  <2>2. \A k \in 1..Len(oplog) : oplog[k] \in R
    BY <2>1, ElementOfSeq
  <2>3. QED
    BY <1>1, <2>2 DEF R
<1>3. QED
  BY <1>1, <1>2 DEF Op

\* A step that neither stores a value nor logs an operation.
LEMMA LinSame ==
  ASSUME LinInv, oplog' = oplog, puts' = puts, test' = test,
         \A p \in Procs : op'[p].call <= Len(oplog),
         \A p \in Procs : Pending(p) /\ op[p].kind = "put" =>
           /\ reply'[p] = reply[p] /\ op'[p].kind = op[p].kind /\ op'[p].ver = op[p].ver
           /\ op'[p].val = op[p].val /\ op'[p].call = op[p].call
           /\ ~op[p].first => ~op'[p].first
  PROVE  LinInv'
<1>1. ASSUME NEW pos, NEW own, Linearized(pos, own) PROVE Linearized(pos, own)'
  <2>1. ASSUME NEW v, NEW p \in Procs, Putting(pos, v, p) PROVE Putting(pos, v, p)'
    BY <2>1 DEF Putting, Pending
  <2>2. ASSUME NEW v \in DOMAIN puts PROVE LinVersion(pos, own, v)'
    <3>1. LinVersion(pos, own, v)
      BY <1>1 DEF Linearized
    <3>2. Owns(pos, v, own[v])' = Owns(pos, v, own[v])
      BY DEF Owns
    <3>3. QED
      BY <2>1, <3>1, <3>2 DEF LinVersion
  <2>3. ASSUME NEW k \in DOMAIN oplog PROVE LinEntry(pos, own, k)'
    BY <1>1 DEF Linearized, LinEntry
  <2>4. ASSUME NEW j \in DOMAIN oplog, NEW k \in DOMAIN oplog PROVE LinOrder(pos, own, j, k)'
    BY <1>1 DEF Linearized, LinOrder
  <2>5. QED
    BY <1>1, <2>2, <2>3, <2>4 DEF Linearized
<1>2. QED
  BY <1>1 DEF LinInv, Log


\* The clerk of q, which is not waiting for the answer to a put, gets a new call or
\* none.
Recalls(q) ==
  /\ \A p \in Procs : p # q => op'[p] = op[p] /\ reply'[p] = reply[p]
  /\ op'[q].call <= Len(oplog)

LEMMA CallFacts ==
  ASSUME TypeOK, NEW q \in Procs
  PROVE  /\ \A kind, val, v : Call(q, kind, val, v) => Recalls(q)
         /\ CallReturns(q) => Recalls(q)
<1>1. Len(oplog) \in Nat /\ DOMAIN op = Procs /\ DOMAIN reply = Procs
  BY LogFacts DEF TypeOK
<1>2. ASSUME NEW kind, NEW val, NEW v, Call(q, kind, val, v) PROVE Recalls(q)
  BY <1>1, <1>2 DEF Call, Recalls
<1>3. ASSUME CallReturns(q) PROVE Recalls(q)
  BY <1>1, <1>3 DEF CallReturns, Recalls, NoOp
<1>4. QED
  BY <1>2, <1>3

LEMMA LinRecall ==
  ASSUME LinInv, NEW q \in Procs, Recalls(q), ~(Pending(q) /\ op[q].kind = "put"),
         oplog' = oplog, puts' = puts, test' = test
  PROVE  LinInv'
<1>1. \A p \in Procs : op[p].call <= Len(oplog)
  BY DEF LinInv
<1>2. \A p \in Procs : op'[p].call <= Len(oplog)
  BY <1>1 DEF Recalls
<1>3. ASSUME NEW p \in Procs, Pending(p), op[p].kind = "put"
      PROVE  op'[p] = op[p] /\ reply'[p] = reply[p]
  BY <1>3 DEF Recalls
<1>4. QED
  BY <1>2, <1>3, LinSame

LEMMA LinIdle ==
  ASSUME LinInv, UNCHANGED <<clerkVars, test>>
  PROVE  LinInv'
<1>1. op' = op /\ reply' = reply /\ oplog' = oplog /\ puts' = puts /\ test' = test
  BY DEF clerkVars
<1>2. \A p \in Procs : op[p].call <= Len(oplog)
  BY DEF LinInv
<1>3. QED
  BY <1>1, <1>2, LinSame

LEMMA LinClient ==
  ASSUME Works, LinInv, NEW c \in Clnt, Client(c), UNCHANGED test
  PROVE  LinInv'
<1>0. TypeOK /\ c \in Procs
  BY TypeFacts DEF Works
<1>1. CASE Done(c)
  BY <1>1, LinIdle DEF Done
<1>2. ~Fatalf(c)
  BY NothingUnexpected DEF Fatalf
<1>3. CASE OneClientAppend(c) \/ OneClientPut(c) \/ PutAtLeastOnce(c)
  <2>1. oplog' = oplog /\ puts' = puts /\ test' = test
    BY <1>3 DEF OneClientAppend, OneClientPut, PutAtLeastOnce
  <2>2. \/ CallReturns(c)
        \/ \E kind, val, v : Call(c, kind, val, v)
    BY <1>3 DEF OneClientAppend, OneClientPut, PutAtLeastOnce
  <2>3. pc[c] = "loop" \/ reply[c] # NoReply
    BY <1>3 DEF OneClientAppend, OneClientPut, PutAtLeastOnce, MayIterate, Answered, NoReply
  <2>4. ~(Pending(c) /\ op[c].kind = "put")
    BY <2>3, ClientView DEF Pending
  <2>5. QED
    BY <1>0, <2>1, <2>2, <2>4, CallFacts, LinRecall
<1>4. QED
  BY <1>1, <1>2, <1>3 DEF Client

LEMMA LinTester ==
  ASSUME Works, LinInv, TesterNext \/ PartitionerStarts, UNCHANGED test
  PROVE  LinInv'
<1>0. TypeOK /\ Tester \in Procs
  BY TypeFacts DEF Works
<1>1. CASE Start \/ GetForCheck \/ Check
  <2>1. oplog' = oplog /\ puts' = puts /\ test' = test
    BY <1>1 DEF Start, GetForCheck, Check
  <2>2. \/ CallReturns(Tester)
        \/ \E kind, val, v : Call(Tester, kind, val, v)
    BY <1>1 DEF Start, GetForCheck, Check
  <2>3. op[Tester].kind = "put" => Work = "append" /\ tpc = "start"
    BY DEF Works, OpsFit
  <2>4. ~(Pending(Tester) /\ op[Tester].kind = "put")
    BY <1>1, <2>3 DEF Start, GetForCheck, Check, Pending, Answered, NoOp
  <2>5. QED
    BY <1>0, <2>1, <2>2, <2>4, CallFacts, LinRecall
<1>2. CASE Signal \/ Collect \/ Result \/ StopPartitioner \/ PartitionerStopped \/ PartitionerStarts
  BY <1>2, LinIdle DEF Signal, Collect, Result, StopPartitioner, PartitionerStopped, PartitionerStarts
<1>3. QED
  BY <1>1, <1>2 DEF TesterNext

\* A step that stores nothing and answers nobody.
LEMMA LinUnanswered ==
  ASSUME Works, LinInv, puts' = puts, UNCHANGED test,
         ExecuteStray \/ \E p \in Procs : Resend(p)
  PROVE  LinInv'
<1>0. TypeOK /\ DOMAIN op = Procs
  BY DEF Works, TypeOK
<1>1. oplog' = oplog /\ reply' = reply
  BY DEF ExecuteStray, Resend
<1>2. \A p \in Procs : op[p].call <= Len(oplog) /\ op[p] \in Op
  BY <1>0, TypeFacts DEF LinInv
<1>3. \A p \in Procs : op'[p] = op[p] \/ op'[p] = [op[p] EXCEPT !.first = FALSE]
  BY <1>0 DEF ExecuteStray, Resend
<1>4. \A p \in Procs : /\ op'[p].kind = op[p].kind /\ op'[p].ver = op[p].ver
                       /\ op'[p].val = op[p].val /\ op'[p].call = op[p].call
                       /\ ~op[p].first => ~op'[p].first
  BY <1>2, <1>3 DEF Op
<1>5. QED
  BY <1>1, <1>2, <1>4, LinSame

\* A put lands whose clerk gets no answer.
LEMMA LinLand ==
  ASSUME Works, LinInv, NEW p \in Procs, Lands(p), UNCHANGED test,
         oplog' = oplog, reply' = reply, \A q \in Procs : op'[q].call = op[q].call
  PROVE  LinInv'
<1>0. /\ TypeOK /\ puts \in Seq(Val) /\ Len(puts) \in Nat /\ op[p].val \in Val
      /\ op[p].ver \in Nat /\ op[p].call \in Nat
  BY TypeFacts DEF Works
<1>1. /\ DOMAIN oplog = 1..Len(oplog) /\ DOMAIN puts = 1..Len(puts) /\ Len(oplog) \in Nat
  BY <1>0, LogFacts
<1>2. PICK L : L = Len(puts) + 1
  OBVIOUS
<1>3. /\ L \in Nat /\ DOMAIN puts' = 1..L /\ puts'[L] = op[p].val /\ L \notin DOMAIN puts
      /\ DOMAIN puts \subseteq DOMAIN puts' /\ \A v \in DOMAIN puts : puts'[v] = puts[v]
  BY <1>0, <1>1, <1>2 DEF Lands
<1>4. /\ Pending(p) /\ op[p].kind = "put" /\ op[p].ver + 1 = L
      /\ reply'[p] = NoReply /\ ~op'[p].first
      /\ op'[p].kind = "put" /\ op'[p].val = op[p].val /\ op'[p].ver = op[p].ver
      /\ \A q \in Procs : q # p => op'[q] = op[q]
  BY <1>0, <1>2 DEF Lands, Pending
<1>5. ASSUME NEW pos, NEW own, Linearized(pos, own)
      PROVE  \E own2 : Linearized(pos, own2)'
  <2>0. /\ pos \in [DOMAIN oplog -> Nat] /\ own \in [DOMAIN puts -> Nat]
        /\ \A k \in DOMAIN oplog : LinEntry(pos, own, k)
        /\ \A v \in DOMAIN puts : LinVersion(pos, own, v)
        /\ \A j, k \in DOMAIN oplog : LinOrder(pos, own, j, k)
    BY <1>5 DEF Linearized
  <2>1. \A j \in DOMAIN oplog : pos[j] \in DOMAIN puts /\ pos[j] < L
    BY <1>1, <1>2, <2>0 DEF LinEntry
  <2>2. PICK own2 : own2 = [v \in 1..L |-> IF v = L THEN 0 ELSE own[v]]
    OBVIOUS
  <2>3. /\ own2 \in [1..L -> Nat] /\ own2[L] = 0
        /\ \A v \in DOMAIN puts : own2[v] = own[v]
    BY <1>0, <1>1, <1>2, <1>3, <2>0, <2>2
  <2>4. ASSUME NEW k \in DOMAIN oplog PROVE LinEntry(pos, own2, k)'
    <3>1. LinEntry(pos, own, k) /\ pos[k] \in DOMAIN puts
      BY <2>0, <2>1
    <3>2. QED
      BY <1>3, <2>3, <3>1 DEF LinEntry
  <2>5. ASSUME NEW j \in DOMAIN oplog, NEW k \in DOMAIN oplog PROVE LinOrder(pos, own2, j, k)'
    BY <2>0, <2>1, <2>3 DEF LinOrder
  <2>6. ASSUME NEW v \in DOMAIN puts, NEW q \in Procs, Putting(pos, v, q)
        PROVE  Putting(pos, v, q)'
    <3>1. q # p
      BY <1>1, <1>2, <1>3, <1>4, <2>6 DEF Putting
    <3>2. QED
      BY <1>3, <1>4, <2>6, <3>1 DEF Putting, Pending
  <2>7. Putting(pos, L, p)'
    BY <1>3, <1>4, <2>1 DEF Putting, Pending
  <2>8. ASSUME NEW v \in 1..L PROVE LinVersion(pos, own2, v)'
    <3>1. CASE v = L
      BY <2>3, <2>7, <3>1 DEF LinVersion
    <3>2. CASE v # L
      <4>1. v \in DOMAIN puts
        BY <1>0, <1>1, <1>2, <3>2
      <4>2. LinVersion(pos, own, v) /\ own2[v] = own[v] /\ puts'[v] = puts[v]
        BY <1>3, <2>0, <2>3, <4>1
      <4>3. CASE Owns(pos, v, own[v])
        <5>1. Owns(pos, v, own2[v])'
          BY <4>2, <4>3 DEF Owns
        <5>2. QED
          BY <5>1 DEF LinVersion
      <4>4. CASE own[v] = 0 /\ \E q \in Procs : Putting(pos, v, q)
        BY <2>6, <4>1, <4>2, <4>4 DEF LinVersion
      <4>5. QED
        BY <4>2, <4>3, <4>4 DEF LinVersion
    <3>3. QED
      BY <3>1, <3>2
  <2>9. Linearized(pos, own2)'
    BY <1>3, <2>0, <2>3, <2>4, <2>5, <2>8 DEF Linearized
  <2>10. QED
    BY <2>9
<1>6. QED
  BY <1>5 DEF LinInv, Log

\* The answer to p is logged and takes effect at version x; the versions' entries are
\* then own2.
Logged(pos, own, p, x, own2) ==
  /\ own2 \in [DOMAIN puts' -> Nat] /\ x \in DOMAIN puts' /\ x \in Nat
  /\ DOMAIN puts \subseteq DOMAIN puts' /\ \A v \in DOMAIN puts : puts'[v] = puts[v]
  /\ \A v \in DOMAIN puts' :
       \/ v \in DOMAIN puts /\ own2[v] = own[v]
       \/ /\ own2[v] = Len(oplog) + 1 /\ v = x /\ op[p].kind = "put" /\ op[p].ver + 1 = v
          /\ op[p].val = puts'[v] /\ reply'[p].err \in {"OK", "ErrMaybe"}
          /\ v \in DOMAIN puts => own[v] = 0
  /\ \A v \in DOMAIN puts : own2[v] = 0 => ~Putting(pos, v, p)
  /\ op[p].kind = "get" => reply'[p].val = puts'[x]
  /\ op[p].kind # "get" =>
       /\ op[p].kind = "put" /\ op[p].ver < x
       /\ reply'[p].err \in {"OK", "ErrVersion", "ErrMaybe"}
       /\ reply'[p].err = "OK" => own2[x] = Len(oplog) + 1
  /\ \A j \in DOMAIN oplog : j <= op[p].call =>
       pos[j] <= x /\ (own2[x] = Len(oplog) + 1 => pos[j] < x)

LEMMA LinLogged ==
  ASSUME TypeOK, TypeOK', NEW pos, NEW own, Linearized(pos, own), NEW p \in Procs,
         oplog' = Append(oplog, [in |-> op[p], out |-> reply'[p]]), op' = op,
         \A q \in Procs : op[q].call <= Len(oplog),
         \A q \in Procs : q # p => reply'[q] = reply[q],
         NEW x, NEW own2, Logged(pos, own, p, x, own2)
  PROVE  \E pos2 : Linearized(pos2, own2)'
<1>0. /\ DOMAIN oplog = 1..Len(oplog) /\ DOMAIN puts = 1..Len(puts) /\ Len(oplog) \in Nat
      /\ oplog \in Seq([in : Op, out : Reply])
      /\ \A k \in DOMAIN oplog : oplog[k].in.call \in Nat
      /\ op[p] \in Op /\ reply'[p] \in Reply /\ Len(puts) \in Nat
      /\ \A q \in Procs : op[q].call \in Nat
  BY LogFacts, TypeFacts DEF TypeOK
<1>1. PICK K : K = Len(oplog) + 1
  OBVIOUS
<1>2. /\ DOMAIN oplog' = DOMAIN oplog \cup {K} /\ K \notin DOMAIN oplog /\ K \in Nat
      /\ oplog'[K] = [in |-> op[p], out |-> reply'[p]]
      /\ \A k \in DOMAIN oplog : oplog'[k] = oplog[k] /\ k \in Nat /\ k < K /\ k # 0
  <2>1. [in |-> op[p], out |-> reply'[p]] \in [in : Op, out : Reply]
    BY <1>0
  <2> DEFINE R == [in : Op, out : Reply]
             e == [in |-> op[p], out |-> reply'[p]]
  <2>2. oplog \in Seq(R) /\ e \in R /\ oplog' = Append(oplog, e)
    BY <1>0, <2>1
  <2> HIDE DEF R, e
  <2>3. /\ DOMAIN oplog' = DOMAIN oplog \cup {K} /\ K \notin DOMAIN oplog
        /\ \A k \in DOMAIN oplog : oplog'[k] = oplog[k]
        /\ oplog'[K] = e
    BY <1>1, <2>2, Grown
  <2>4. QED
    BY <1>0, <1>1, <2>3 DEF e
<1>3. /\ pos \in [DOMAIN oplog -> Nat] /\ own \in [DOMAIN puts -> Nat]
      /\ \A k \in DOMAIN oplog : LinEntry(pos, own, k)
      /\ \A v \in DOMAIN puts : LinVersion(pos, own, v)
      /\ \A j, k \in DOMAIN oplog : LinOrder(pos, own, j, k)
  BY DEF Linearized
<1>4. PICK pos2 : pos2 = [k \in DOMAIN oplog \cup {K} |-> IF k = K THEN x ELSE pos[k]]
  OBVIOUS
<1>5. /\ pos2 \in [DOMAIN oplog' -> Nat] /\ pos2[K] = x
      /\ \A k \in DOMAIN oplog : pos2[k] = pos[k]
  BY <1>2, <1>3, <1>4 DEF Logged
<1>6. \A k \in DOMAIN oplog : pos[k] \in DOMAIN puts /\ pos[k] \in DOMAIN puts' /\ pos[k] \in Nat
  BY <1>3 DEF LinEntry, Logged
<1>7. \A v \in DOMAIN puts : own[v] # K
  BY <1>2, <1>3 DEF LinVersion, Owns
<1>8. ASSUME NEW v \in DOMAIN puts PROVE own2[v] = own[v] \/ (own2[v] = K /\ v = x)
  <2>1. v \in DOMAIN puts'
    BY DEF Logged
  <2>2. QED
    BY <1>1, <2>1 DEF Logged
<1>9. ASSUME NEW k \in DOMAIN oplog PROVE LinEntry(pos2, own2, k)'
  <2>1. LinEntry(pos, own, k) /\ pos[k] \in DOMAIN puts
    BY <1>3, <1>6
  <2>2. oplog[k].out.err = "OK" /\ oplog[k].in.kind # "get" => own2[pos[k]] = k
    <3>1. SUFFICES ASSUME oplog[k].out.err = "OK", oplog[k].in.kind # "get"
                   PROVE  own2[pos[k]] = k
      OBVIOUS
    <3>2. own[pos[k]] = k
      BY <2>1, <3>1 DEF LinEntry
    <3>3. QED
      BY <1>1, <1>2, <2>1, <3>2 DEF Logged
  <2>3. puts'[pos[k]] = puts[pos[k]] /\ pos[k] \in DOMAIN puts' /\ oplog'[k] = oplog[k] /\ pos2[k] = pos[k]
    BY <1>2, <1>5, <1>6, <2>1 DEF Logged
  <2>4. QED
    BY <2>1, <2>2, <2>3 DEF LinEntry
<1>10. LinEntry(pos2, own2, K)'
  <2>1. oplog'[K].in = op[p] /\ oplog'[K].out = reply'[p]
    BY <1>2
  <2>2. op[p].call < K
    BY <1>0, <1>1
  <2>3. QED
    BY <1>1, <1>5, <2>1, <2>2 DEF LinEntry, Logged
<1>11. ASSUME NEW v \in DOMAIN puts, NEW q \in Procs, Putting(pos, v, q), q # p
       PROVE  Putting(pos2, v, q)'
  <2>1. ASSUME NEW j \in DOMAIN oplog', j <= op[q].call PROVE pos2[j] < v
    <3>1. j \in DOMAIN oplog
      BY <1>0, <1>1, <1>2, <2>1
    <3>2. QED
      BY <1>5, <1>11, <2>1, <3>1 DEF Putting
  <2>2. puts'[v] = puts[v]
    BY DEF Logged
  <2>3. QED
    BY <1>11, <2>1, <2>2 DEF Putting, Pending
<1>12. ASSUME NEW v \in DOMAIN puts' PROVE LinVersion(pos2, own2, v)'
  <2>1. CASE v \in DOMAIN puts /\ own2[v] = own[v]
    <3>1. LinVersion(pos, own, v) /\ puts'[v] = puts[v]
      BY <1>3, <2>1 DEF Logged
    <3>2. CASE Owns(pos, v, own[v])
      <4>1. own[v] \in DOMAIN oplog /\ oplog'[own[v]] = oplog[own[v]] /\ pos2[own[v]] = pos[own[v]]
        BY <1>2, <1>5, <3>2 DEF Owns
      <4>2. Owns(pos2, v, own2[v])'
        BY <1>2, <2>1, <3>1, <3>2, <4>1 DEF Owns
      <4>3. QED
        BY <4>2 DEF LinVersion
    <3>3. CASE own[v] = 0 /\ \E q \in Procs : Putting(pos, v, q)
      <4>1. PICK q \in Procs : Putting(pos, v, q)
        BY <3>3
      <4>2. q # p
        BY <2>1, <3>3, <4>1 DEF Logged
      <4>3. QED
        BY <1>11, <2>1, <3>3, <4>1, <4>2 DEF LinVersion
    <3>4. QED
      BY <3>1, <3>2, <3>3 DEF LinVersion
  <2>2. CASE ~(v \in DOMAIN puts /\ own2[v] = own[v])
    <3>1. /\ own2[v] = K /\ v = x /\ op[p].kind = "put" /\ op[p].ver + 1 = v
          /\ op[p].val = puts'[v] /\ reply'[p].err \in {"OK", "ErrMaybe"}
      BY <1>1, <2>2 DEF Logged
    <3>2. oplog'[K].in = op[p] /\ oplog'[K].out = reply'[p] /\ K \in DOMAIN oplog'
      BY <1>2
    <3>3. Owns(pos2, v, own2[v])'
      BY <1>5, <3>1, <3>2 DEF Owns
    <3>4. QED
      BY <3>3 DEF LinVersion
  <2>3. QED
    BY <2>1, <2>2
<1>13. ASSUME NEW j \in DOMAIN oplog', NEW k \in DOMAIN oplog' PROVE LinOrder(pos2, own2, j, k)'
  <2> SUFFICES ASSUME j <= oplog'[k].in.call
               PROVE  pos2[j] <= pos2[k] /\ (own2[pos2[k]] = k => pos2[j] < pos2[k])
    BY DEF LinOrder
  <2>1. CASE k = K
    <3>1. oplog'[k].in = op[p]
      BY <1>2, <2>1
    <3>2. j \in DOMAIN oplog
      BY <1>0, <1>1, <1>2, <3>1
    <3>3. QED
      BY <1>1, <1>5, <2>1, <3>1, <3>2 DEF Logged
  <2>2. CASE k # K
    <3>1. k \in DOMAIN oplog /\ oplog'[k] = oplog[k]
      BY <1>2, <2>2
    <3>2. oplog[k].in.call < k
      BY <1>3, <3>1 DEF LinEntry
    <3>3. j \in DOMAIN oplog
      BY <1>0, <1>1, <1>2, <3>1, <3>2
    <3>4. LinOrder(pos, own, j, k) /\ pos[k] \in DOMAIN puts
      BY <1>3, <1>6, <3>1, <3>3
    <3>5. own2[pos[k]] = k => own[pos[k]] = k
      BY <1>8, <2>2, <3>4
    <3>6. QED
      BY <1>5, <3>1, <3>3, <3>4, <3>5 DEF LinOrder
  <2>3. QED
    BY <2>1, <2>2
<1>14. own2 \in [DOMAIN puts' -> Nat]
  BY DEF Logged
<1>15. \A k \in DOMAIN oplog' : LinEntry(pos2, own2, k)'
  BY <1>2, <1>9, <1>10
<1>16. Linearized(pos2, own2)'
  BY <1>5, <1>12, <1>13, <1>14, <1>15 DEF Linearized
<1>17. QED
  BY <1>16

\* The answer to a put that lands now.
LEMMA LoggedLanding ==
  ASSUME TypeOK, NEW pos, NEW own, Linearized(pos, own), NEW p \in Procs,
         Lands(p), reply'[p].err = "OK"
  PROVE  \E x, own2 : Logged(pos, own, p, x, own2)
<1>0. /\ puts \in Seq(Val) /\ Len(puts) \in Nat /\ op[p].val \in Val /\ op[p].ver \in Nat
      /\ DOMAIN oplog = 1..Len(oplog) /\ DOMAIN puts = 1..Len(puts) /\ Len(oplog) \in Nat
  BY TypeFacts, LogFacts
<1>1. PICK L : L = Len(puts) + 1
  OBVIOUS
<1>2. /\ L \in Nat /\ DOMAIN puts' = DOMAIN puts \cup {L} /\ puts'[L] = op[p].val
      /\ L \notin DOMAIN puts /\ \A v \in DOMAIN puts : puts'[v] = puts[v]
  BY <1>0, <1>1, Grown DEF Lands
<1>3. /\ own \in [DOMAIN puts -> Nat]
      /\ \A k \in DOMAIN oplog : LinEntry(pos, own, k)
  BY DEF Linearized
<1>4. \A k \in DOMAIN oplog : pos[k] \in Nat /\ pos[k] < L
  BY <1>0, <1>1, <1>3 DEF LinEntry
<1>5. PICK own2 : own2 = [v \in DOMAIN puts \cup {L} |-> IF v = L THEN Len(oplog) + 1 ELSE own[v]]
  OBVIOUS
<1>6. /\ own2 \in [DOMAIN puts' -> Nat] /\ own2[L] = Len(oplog) + 1
      /\ \A v \in DOMAIN puts : own2[v] = own[v]
  BY <1>0, <1>2, <1>3, <1>5
<1>7. op[p].kind = "put" /\ op[p].ver + 1 = L /\ op[p].ver < L
  BY <1>0, <1>1 DEF Lands
<1>8. \A v \in DOMAIN puts : ~Putting(pos, v, p)
  BY <1>2, <1>7 DEF Putting
<1>9. Logged(pos, own, p, L, own2)
  BY <1>2, <1>4, <1>6, <1>7, <1>8 DEF Logged
<1>10. QED
  BY <1>9

\* The answer to a get, or to a put that landed before, or never will.
LEMMA LoggedQuiet ==
  ASSUME TypeOK, NEW pos, NEW own, Linearized(pos, own), NEW p \in Procs,
         Pending(p), puts' = puts, QuietReply(p)
  PROVE  \E x, own2 : Logged(pos, own, p, x, own2)
<1>0. /\ puts \in Seq(Val) /\ Len(puts) \in Nat /\ op[p].ver \in Nat
      /\ DOMAIN oplog = 1..Len(oplog) /\ DOMAIN puts = 1..Len(puts) /\ Len(oplog) \in Nat
      /\ (puts = <<>> => Len(puts) = 0) /\ op[p].kind \in {"get", "put"}
  BY TypeFacts, LogFacts DEF Pending
<1>1. /\ own \in [DOMAIN puts -> Nat]
      /\ \A k \in DOMAIN oplog : LinEntry(pos, own, k)
      /\ \A v \in DOMAIN puts : LinVersion(pos, own, v)
  BY DEF Linearized
<1>2. \A k \in DOMAIN oplog : pos[k] \in Nat /\ pos[k] <= Len(puts)
  BY <1>0, <1>1 DEF LinEntry
<1>3. \A v \in DOMAIN puts : own[v] # Len(oplog) + 1
  <2>1. Len(oplog) + 1 \notin DOMAIN oplog /\ Len(oplog) + 1 # 0
    BY <1>0
  <2>2. QED
    BY <1>1, <2>1 DEF LinVersion, Owns
<1>4. /\ Len(puts) \in DOMAIN puts
      /\ op[p].kind = "put" => op[p].ver + 1 \in DOMAIN puts /\ op[p].ver < Len(puts)
  <2>1. CASE op[p].kind = "put"
    BY <1>0, <2>1 DEF QuietReply
  <2>2. CASE op[p].kind = "get"
    <3>1. puts # <<>>
      BY <2>2 DEF QuietReply
    <3>2. Len(puts) # 0
      BY <1>0, <3>1, EmptySeq
    <3>3. QED
      BY <1>0, <2>2, <3>2
  <2>3. QED
    BY <1>0, <2>1, <2>2
<1>5. PICK v0 : v0 = op[p].ver + 1
  OBVIOUS
<1>6. CASE op[p].kind = "put" /\ own[v0] = 0 /\ Putting(pos, v0, p)
  <2>1. PICK own2 : own2 = [own EXCEPT ![v0] = Len(oplog) + 1]
    OBVIOUS
  <2>2. /\ own2 \in [DOMAIN puts -> Nat] /\ own2[v0] = Len(oplog) + 1
        /\ \A v \in DOMAIN puts : v # v0 => own2[v] = own[v]
    BY <1>0, <1>1, <1>4, <1>5, <1>6, <2>1
  <2>3. v0 \in DOMAIN puts /\ v0 \in Nat /\ op[p].ver < v0
    BY <1>0, <1>4, <1>5, <1>6
  <2>4. /\ op[p].val = puts[v0] /\ reply'[p].err = "ErrMaybe"
        /\ \A j \in DOMAIN oplog : j <= op[p].call => pos[j] < v0
    BY <1>6 DEF Putting, QuietReply
  <2>5. \A v \in DOMAIN puts : own2[v] = 0 => ~Putting(pos, v, p)
    BY <1>0, <1>5, <2>2 DEF Putting
  <2>6. \A j \in DOMAIN oplog : j <= op[p].call => pos[j] <= v0
    BY <1>2, <2>3, <2>4
  <2>7. Logged(pos, own, p, v0, own2)
    BY <1>5, <1>6, <2>2, <2>3, <2>4, <2>5, <2>6 DEF Logged
  <2>8. QED
    BY <2>7
<1>7. CASE ~(op[p].kind = "put" /\ own[v0] = 0 /\ Putting(pos, v0, p))
  <2>1. \A v \in DOMAIN puts : own[v] = 0 => ~Putting(pos, v, p)
    BY <1>5, <1>7 DEF Putting
  <2>2. op[p].kind = "get" => reply'[p].val = puts[Len(puts)]
    BY DEF QuietReply
  <2>3. op[p].kind = "put" => reply'[p].err \in {"ErrVersion", "ErrMaybe"}
    BY DEF QuietReply
  <2>4. Logged(pos, own, p, Len(puts), own)
    BY <1>0, <1>1, <1>2, <1>3, <1>4, <2>1, <2>2, <2>3 DEF Logged
  <2>5. QED
    BY <2>4
<1>8. QED
  BY <1>6, <1>7

LEMMA LinServe ==
  ASSUME Works, TypeOK', LinInv, NEW p \in Procs, Serve(p), UNCHANGED test
  PROVE  LinInv'
<1>0. TypeOK /\ OpsFit /\ Len(oplog) \in Nat /\ oplog \in Seq([in : Op, out : Reply])
  BY LogFacts DEF Works
<1>1. /\ Pending(p) /\ op' = op
      /\ oplog' = IF Log THEN Append(oplog, [in |-> op[p], out |-> reply'[p]]) ELSE oplog
  BY DEF Serve
<1>2. \A q \in Procs : q # p => reply'[q] = reply[q]
  BY <1>0 DEF Serve, TypeOK
<1>3. \A q \in Procs : op[q].call <= Len(oplog) /\ op[q].call \in Nat
  BY <1>0, TypeFacts DEF LinInv
<1>4. CASE ~Log
  BY <1>1, <1>3, <1>4 DEF LinInv, Log
<1>5. CASE Log
  <2>1. oplog' = Append(oplog, [in |-> op[p], out |-> reply'[p]])
    BY <1>1, <1>5
  <2>2. Len(oplog') = Len(oplog) + 1
    BY <1>0, <2>1
  <2>3. PICK pos, own : Linearized(pos, own)
    BY <1>5 DEF LinInv
  <2>4. \/ Lands(p) /\ reply'[p].err = "OK"
        \/ puts' = puts /\ QuietReply(p)
    BY <1>0, ServeCases DEF Quiet
  <2>5. PICK x, own2 : Logged(pos, own, p, x, own2)
    BY <1>0, <1>1, <2>3, <2>4, LoggedLanding, LoggedQuiet
  <2>6. \E pos2 : Linearized(pos2, own2)'
    BY <1>0, <1>1, <1>2, <1>3, <2>1, <2>3, <2>5, LinLogged
  <2>7. \E pos2, own3 : Linearized(pos2, own3)'
    BY <2>6
  <2>8. \A q \in Procs : op'[q].call <= Len(oplog')
    BY <1>0, <1>1, <1>3, <2>2
  <2>9. QED
    BY <1>5, <2>7, <2>8 DEF LinInv, Log
<1>6. QED
  BY <1>4, <1>5

LEMMA LinClerk ==
  ASSUME Works, ~Broken, TypeOK', LinInv, Clerks, UNCHANGED test
  PROVE  LinInv'
<1>0. TypeOK /\ OpsFit /\ StraysFit /\ NothingMaybe /\ DOMAIN op = Procs
  BY DEF Works, TypeOK
<1>1. CASE \E p \in Procs : Serve(p)
  BY <1>1, LinServe
<1>2. CASE ExecuteStray \/ \E p \in Procs : Resend(p)
  <2>1. Quiet \/ \E p \in Procs : Lands(p)
    BY <1>0, <1>2, ResendCases, StrayCases
  <2>2. CASE Quiet
    BY <1>2, <2>2, LinUnanswered DEF Quiet
  <2>3. ASSUME NEW p \in Procs, Lands(p) PROVE LinInv'
    <3>1. oplog' = oplog /\ reply' = reply
      BY <1>2 DEF ExecuteStray, Resend
    <3>2. \A q \in Procs : op'[q] = op[q] \/ op'[q] = [op[q] EXCEPT !.first = FALSE]
      BY <1>0, <1>2 DEF ExecuteStray, Resend
    <3>3. \A q \in Procs : op'[q].call = op[q].call
      BY <1>0, <3>2, TypeFacts DEF Op
    <3>4. QED
      BY <2>3, <3>1, <3>3, LinLand
  <2>4. QED
    BY <2>1, <2>2, <2>3
<1>3. QED
  BY <1>1, <1>2 DEF Clerks, LoseKey

LEMMA LinStep == Works /\ ~Broken /\ LinInv /\ [Next]_vars => LinInv'
<1> SUFFICES ASSUME Works, ~Broken, LinInv, [Next]_vars PROVE LinInv'
  OBVIOUS
<1>1. TypeOK'
  BY StepFits DEF Works
<1>2. CASE Next
  BY <1>1, <1>2, LinClerk, LinClient, LinTester DEF Next
<1>3. CASE UNCHANGED vars
  BY <1>3, LinIdle DEF vars, runVars
<1>4. QED
  BY <1>2, <1>3

LEMMA LinInit == Init => LinInv
<1> SUFFICES ASSUME Init PROVE LinInv
  OBVIOUS
<1>1. oplog = <<>> /\ puts = <<>> /\ Len(oplog) = 0 /\ DOMAIN oplog = {} /\ DOMAIN puts = {}
  BY DEF Init
<1>2. \A p \in Procs : op[p].call <= Len(oplog)
  BY <1>1 DEF Init, NoOp
<1>3. Linearized(<<>>, <<>>)
  BY <1>1 DEF Linearized
<1>4. QED
  BY <1>1, <1>2, <1>3 DEF LinInv

-----------------------------------------------------------------------------
(* What Reach holds.                                                       *)

After(G, k) == {StepNext(st, oplog[k]) : st \in {st \in G : StepOk(st, oplog[k])}}
CanEnd(S) == {k \in S : \A j \in S \ {k} : oplog[j].in.call < k}
ReachBody(g, S) ==
  IF S = {} THEN {KvInit} ELSE UNION {After(g[S \ {k}], k) : k \in CanEnd(S)}
IsReach(g, D) == g = [S \in D |-> ReachBody(g, S)]

LEMMA ReachBodySame ==
  ASSUME NEW g, NEW h, NEW S, \A k \in S : g[S \ {k}] = h[S \ {k}]
  PROVE  ReachBody(g, S) = ReachBody(h, S)
<1>1. \A k \in CanEnd(S) : After(g[S \ {k}], k) = After(h[S \ {k}], k)
  BY DEF CanEnd
<1>2. {After(g[S \ {k}], k) : k \in CanEnd(S)} = {After(h[S \ {k}], k) : k \in CanEnd(S)}
  BY <1>1
<1>3. QED
  BY <1>2 DEF ReachBody

\* The recursion of Reach has a solution.
LEMMA ReachExists ==
  ASSUME TypeOK PROVE \E g : IsReach(g, SUBSET DOMAIN oplog)
<1> DEFINE D(n) == {S \in SUBSET DOMAIN oplog : Cardinality(S) <= n}
           N == Len(oplog)
           T == {n \in 0..N : \E g : IsReach(g, D(n))}
<1>0. N \in Nat /\ DOMAIN oplog = 1..N /\ 0 \in 0..N /\ N \in 0..N
  BY LogFacts
<1>1. \A S \in SUBSET DOMAIN oplog : IsFiniteSet(S) /\ Cardinality(S) \in 0..N
  <2> HIDE DEF N
  <2>1. IsFiniteSet(1..N) /\ Cardinality(1..N) = IF 1 > N THEN 0 ELSE N - 1 + 1
    BY <1>0, FS_Interval
  <2>2. Cardinality(1..N) = N
    BY <1>0, <2>1
  <2>3. QED
    BY <1>0, <2>1, <2>2, FS_Subset, FS_CardinalityType
<1>2. 0 \in T
  <2> DEFINE g == [S \in D(0) |-> {KvInit}]
  <2>1. \A S \in D(0) : S = {}
    BY <1>1, FS_EmptySet
  <2>2. IsReach(g, D(0))
    BY <2>1 DEF IsReach, ReachBody
  <2> HIDE DEF g, D, N
  <2>3. QED
    BY <1>0, <2>2
<1>3. ASSUME NEW n \in 0..N, n \in T, n < N PROVE n + 1 \in T
  <2>1. PICK g : IsReach(g, D(n))
    BY <1>3
  <2> DEFINE h == [S \in D(n + 1) |-> IF S \in D(n) THEN g[S] ELSE ReachBody(g, S)]
  <2>2. ASSUME NEW S \in D(n + 1) PROVE h[S] = ReachBody(h, S)
    <3>1. \A k \in S : S \ {k} \in D(n)
      <4>1. ASSUME NEW k \in S PROVE Cardinality(S \ {k}) <= n
        <5>1. IsFiniteSet(S) /\ Cardinality(S) \in Nat /\ Cardinality(S) <= n + 1
          BY <1>1, <2>2
        <5>2. Cardinality(S \ {k}) = Cardinality(S) - 1
          BY <5>1, FS_RemoveElement
        <5>3. QED
          BY <1>3, <5>1, <5>2
      <4>2. QED
        BY <4>1
    <3>2. D(n) \subseteq D(n + 1)
      BY <1>0, <1>1, <1>3
    <3> HIDE DEF D
    <3>3. \A k \in S : h[S \ {k}] = g[S \ {k}]
      BY <3>1, <3>2
    <3>4. ReachBody(h, S) = ReachBody(g, S)
      <4> HIDE DEF h
      <4>1. QED
        BY <3>3, ReachBodySame
    <3>5. S \in D(n) => g[S] = ReachBody(g, S)
      BY <2>1 DEF IsReach
    <3>6. h[S] = ReachBody(g, S)
      BY <2>2, <3>5
    <3>7. QED
      BY <3>4, <3>6
  <2>3. IsReach(h, D(n + 1))
    <3>1. h = [S \in D(n + 1) |-> h[S]]
      OBVIOUS
    <3> HIDE DEF h, D
    <3>2. QED
      BY <2>2, <3>1 DEF IsReach
  <2> HIDE DEF h
  <2>4. n + 1 \in 0..N
    BY <1>0, <1>3
  <2>5. QED
    BY <2>3, <2>4
<1>4. N \in T
  <2> HIDE DEF T, N
  <2>1. QED
    BY <1>0, <1>2, <1>3, UpTo
<1>5. D(N) = SUBSET DOMAIN oplog
  BY <1>1
<1>6. QED
  BY <1>4, <1>5

LEMMA ReachFacts ==
  ASSUME TypeOK
  PROVE  /\ KvInit \in Reach[{}]
         /\ \A S \in SUBSET DOMAIN oplog, k \in DOMAIN oplog : \A st :
              /\ k \in S /\ (\A j \in S \ {k} : oplog[j].in.call < k)
              /\ st \in Reach[S \ {k}] /\ StepOk(st, oplog[k])
              => StepNext(st, oplog[k]) \in Reach[S]
<1>1. Reach = CHOOSE g : IsReach(g, SUBSET DOMAIN oplog)
  BY DEF Reach, IsReach, ReachBody, After, CanEnd
<1>2. IsReach(Reach, SUBSET DOMAIN oplog)
  BY <1>1, ReachExists
<1>3. \A S \in SUBSET DOMAIN oplog : Reach[S] = ReachBody(Reach, S)
  BY <1>2 DEF IsReach
<1>4. KvInit \in Reach[{}]
  BY <1>3 DEF ReachBody
<1>5. ASSUME NEW S \in SUBSET DOMAIN oplog, NEW k \in S, NEW st,
             \A j \in S \ {k} : oplog[j].in.call < k,
             st \in Reach[S \ {k}], StepOk(st, oplog[k])
      PROVE  StepNext(st, oplog[k]) \in Reach[S]
  <2>1. k \in CanEnd(S)
    BY <1>5 DEF CanEnd
  <2>2. StepNext(st, oplog[k]) \in After(Reach[S \ {k}], k)
    BY <1>5 DEF After
  <2>3. StepNext(st, oplog[k]) \in ReachBody(Reach, S)
    BY <2>1, <2>2 DEF ReachBody
  <2>4. QED
    BY <1>3, <2>3
<1>6. QED
  BY <1>4, <1>5

-----------------------------------------------------------------------------
(* The order of a linearized log is one that Reach allows: the entries of  *)
(* the versions below n, the one that made version n, then those at n up   *)
(* to number m lead to version n.                                          *)

Before(pos, own, n, m) ==
  {k \in DOMAIN oplog : pos[k] < n \/ (pos[k] = n /\ (own[n] = k \/ k <= m))}
Version(n) == [val |-> IF n = 0 THEN NoVal ELSE puts[n], ver |-> n]

AllAnswered(pos, own) ==
  /\ Linearized(pos, own)
  /\ \A p \in Procs : ~(Pending(p) /\ op[p].kind = "put")

LEMMA LinView ==
  ASSUME TypeOK, NEW pos, NEW own, AllAnswered(pos, own)
  PROVE  /\ Len(oplog) \in Nat /\ DOMAIN oplog = 1..Len(oplog)
         /\ Len(puts) \in Nat /\ DOMAIN puts = 1..Len(puts)
         /\ \A k \in DOMAIN oplog : /\ pos[k] \in DOMAIN puts /\ pos[k] \in Nat
                                    /\ oplog[k].in.call \in Nat /\ oplog[k].in.call < k
                                    /\ oplog[k].in.ver \in Nat /\ k \in Nat
                                    /\ LinEntry(pos, own, k)
         /\ \A v \in DOMAIN puts : Owns(pos, v, own[v])
         /\ \A j, k \in DOMAIN oplog : LinOrder(pos, own, j, k)
<1>1. /\ Len(oplog) \in Nat /\ DOMAIN oplog = 1..Len(oplog)
      /\ Len(puts) \in Nat /\ DOMAIN puts = 1..Len(puts)
      /\ \A k \in DOMAIN oplog : /\ oplog[k].in.call \in Nat /\ oplog[k].in.ver \in Nat
                                 /\ k \in Nat
  BY LogFacts, TypeFacts
<1>2. /\ \A k \in DOMAIN oplog : LinEntry(pos, own, k)
      /\ \A v \in DOMAIN puts : LinVersion(pos, own, v)
      /\ \A j, k \in DOMAIN oplog : LinOrder(pos, own, j, k)
  BY DEF AllAnswered, Linearized
<1>3. \A v \in DOMAIN puts : Owns(pos, v, own[v])
  BY <1>2 DEF LinVersion, Putting, AllAnswered
<1>4. \A k \in DOMAIN oplog : pos[k] \in DOMAIN puts /\ pos[k] \in Nat /\ oplog[k].in.call < k
  BY <1>1, <1>2 DEF LinEntry
<1>5. QED
  BY <1>1, <1>2, <1>3, <1>4

\* One entry more at version n.
LEMMA NextEntry ==
  ASSUME TypeOK, NEW pos, NEW own, AllAnswered(pos, own), NEW n \in DOMAIN puts,
         NEW m \in 0..Len(oplog), m < Len(oplog),
         Version(n) \in Reach[Before(pos, own, n, m)]
  PROVE  Version(n) \in Reach[Before(pos, own, n, m + 1)]
<1>0. /\ Len(oplog) \in Nat /\ DOMAIN oplog = 1..Len(oplog)
      /\ Len(puts) \in Nat /\ DOMAIN puts = 1..Len(puts)
      /\ \A k \in DOMAIN oplog : /\ pos[k] \in Nat /\ k \in Nat
                                 /\ oplog[k].in.call \in Nat /\ oplog[k].in.call < k
  BY LinView
<1>1. PICK k : k = m + 1
  OBVIOUS
<1>2. k \in DOMAIN oplog /\ n \in Nat /\ n # 0 /\ m \in Nat
  BY <1>0, <1>1
<1>3. \A j \in DOMAIN oplog : j <= k <=> j <= m \/ j = k
  BY <1>0, <1>1, <1>2
<1>4. CASE pos[k] # n \/ own[n] = k
  <2>1. Before(pos, own, n, k) = Before(pos, own, n, m)
    BY <1>3, <1>4 DEF Before
  <2>2. QED
    BY <1>1, <2>1
<1>5. CASE pos[k] = n /\ own[n] # k
  <2> DEFINE S == Before(pos, own, n, k)
  <2>1. S \in SUBSET DOMAIN oplog /\ k \in S
    BY <1>0, <1>2, <1>5 DEF Before
  <2>2. ~(k <= m)
    BY <1>1, <1>2
  <2>3. S \ {k} = Before(pos, own, n, m)
    BY <1>2, <1>3, <1>5, <2>2 DEF Before
  <2>4. ASSUME NEW j \in S \ {k} PROVE oplog[j].in.call < k
    <3>1. SUFFICES ASSUME k <= oplog[j].in.call PROVE FALSE
      BY <1>0, <1>2, <2>1
    <3>2. j \in DOMAIN oplog /\ (pos[j] < n \/ (pos[j] = n /\ (own[n] = j \/ j <= k)))
      BY DEF Before
    <3>3. LinOrder(pos, own, k, j)
      BY <1>2, <3>2, LinView
    <3>4. n <= pos[j] /\ (own[pos[j]] = j => n < pos[j])
      BY <1>5, <3>1, <3>3 DEF LinOrder
    <3>5. pos[j] = n /\ own[n] # j
      BY <1>0, <1>2, <3>2, <3>4
    <3>6. j <= k
      BY <3>2, <3>5, <1>0, <1>2
    <3>7. QED
      BY <1>0, <1>2, <3>1, <3>2, <3>6
  <2>5. LinEntry(pos, own, k) /\ oplog[k].in.ver \in Nat
    BY <1>2, LinView
  <2>6. StepOk(Version(n), oplog[k]) /\ StepNext(Version(n), oplog[k]) = Version(n)
    <3>1. Version(n).val = puts[n] /\ Version(n).ver = n
      BY <1>2 DEF Version
    <3>2. CASE oplog[k].in.kind = "get"
      BY <1>5, <2>5, <3>1, <3>2 DEF LinEntry, StepOk, StepNext
    <3>3. CASE oplog[k].in.kind # "get"
      <4>1. /\ oplog[k].in.ver < n /\ oplog[k].in.kind = "put"
            /\ oplog[k].out.err \in {"ErrVersion", "ErrMaybe"}
        BY <1>5, <2>5, <3>3 DEF LinEntry
      <4>2. oplog[k].in.ver # n
        BY <1>2, <2>5, <4>1
      <4>3. QED
        BY <3>1, <3>3, <4>1, <4>2 DEF StepOk, StepNext
    <3>4. QED
      BY <3>2, <3>3
  <2>7. Version(n) \in Reach[S \ {k}]
    BY <2>3
  <2> HIDE DEF S
  <2>8. Version(n) \in Reach[S]
    BY <1>2, <2>1, <2>4, <2>6, <2>7, ReachFacts
  <2>9. QED
    BY <1>1, <2>8 DEF S
<1>6. QED
  BY <1>4, <1>5

\* The entry that made version n + 1.
LEMMA NextVersion ==
  ASSUME TypeOK, NEW pos, NEW own, AllAnswered(pos, own),
         NEW n \in 0..Len(puts), n < Len(puts),
         Version(n) \in Reach[Before(pos, own, n, Len(oplog))]
  PROVE  Version(n + 1) \in Reach[Before(pos, own, n + 1, 0)]
<1>0. /\ Len(oplog) \in Nat /\ DOMAIN oplog = 1..Len(oplog)
      /\ Len(puts) \in Nat /\ DOMAIN puts = 1..Len(puts)
      /\ \A k \in DOMAIN oplog : /\ pos[k] \in Nat /\ k \in Nat /\ pos[k] # 0
                                 /\ oplog[k].in.call \in Nat /\ oplog[k].in.call < k
  BY LinView
<1>1. PICK w : w = n + 1
  OBVIOUS
<1>2. w \in DOMAIN puts /\ n \in Nat /\ w \in Nat /\ w # 0
  BY <1>0, <1>1
<1>3. PICK k : k = own[w]
  OBVIOUS
<1>4. Owns(pos, w, k)
  BY <1>2, <1>3, LinView
<1>5. /\ k \in DOMAIN oplog /\ pos[k] = w /\ oplog[k].in.kind = "put"
      /\ oplog[k].in.ver + 1 = w /\ oplog[k].in.val = puts[w]
      /\ oplog[k].out.err \in {"OK", "ErrMaybe"} /\ oplog[k].in.ver \in Nat
  BY <1>4, LinView DEF Owns
<1> DEFINE S == Before(pos, own, w, 0)
<1>6. S \in SUBSET DOMAIN oplog /\ k \in S
  BY <1>3, <1>5 DEF Before
<1>7. \A j \in DOMAIN oplog : ~(j <= 0) /\ j <= Len(oplog)
  BY <1>0
<1>8. \A j \in DOMAIN oplog : (pos[j] < w <=> pos[j] < n \/ pos[j] = n)
  BY <1>0, <1>1, <1>2
<1>9. ~(pos[k] < w)
  BY <1>2, <1>5
<1>10. S \ {k} = Before(pos, own, n, Len(oplog))
  BY <1>3, <1>5, <1>7, <1>8, <1>9 DEF Before
<1>11. ASSUME NEW j \in S \ {k} PROVE oplog[j].in.call < k
  <2>1. SUFFICES ASSUME k <= oplog[j].in.call PROVE FALSE
    BY <1>0, <1>5, <1>6
  <2>2. j \in DOMAIN oplog /\ pos[j] < w
    BY <1>3, <1>7 DEF Before
  <2>3. LinOrder(pos, own, k, j)
    BY <1>5, <2>2, LinView
  <2>4. QED
    BY <1>0, <1>2, <1>5, <2>1, <2>2, <2>3 DEF LinOrder
<1>12. StepOk(Version(n), oplog[k]) /\ StepNext(Version(n), oplog[k]) = Version(w)
  <2>1. oplog[k].in.ver = n /\ n + 1 = w
    BY <1>1, <1>2, <1>5
  <2>2. Version(n).ver = n /\ Version(w) = [val |-> puts[w], ver |-> w]
    BY <1>2 DEF Version
  <2>3. QED
    BY <1>5, <2>1, <2>2 DEF StepOk, StepNext
<1>13. Version(n) \in Reach[S \ {k}]
  BY <1>10
<1> HIDE DEF S
<1>14. Version(w) \in Reach[S]
  BY <1>5, <1>6, <1>11, <1>12, <1>13, ReachFacts
<1>15. QED
  BY <1>1, <1>14 DEF S

LEMMA LinReach ==
  ASSUME TypeOK, NEW pos, NEW own, AllAnswered(pos, own)
  PROVE  Reach[DOMAIN oplog] # {}
<1>0. /\ Len(oplog) \in Nat /\ DOMAIN oplog = 1..Len(oplog)
      /\ Len(puts) \in Nat /\ DOMAIN puts = 1..Len(puts)
      /\ \A k \in DOMAIN oplog : pos[k] \in DOMAIN puts
  BY LinView
<1>1. PICK M, L : M = Len(oplog) /\ L = Len(puts)
  OBVIOUS
<1> DEFINE T == {n \in 0..L : Version(n) \in Reach[Before(pos, own, n, M)]}
<1>2. 0 \in T
  <2>1. Before(pos, own, 0, M) = {}
    BY <1>0 DEF Before
  <2>2. Version(0) = KvInit
    BY DEF Version, KvInit
  <2>3. KvInit \in Reach[{}]
    BY ReachFacts
  <2>4. 0 \in 0..L
    BY <1>0, <1>1
  <2>5. QED
    BY <2>1, <2>2, <2>3, <2>4
<1>3. ASSUME NEW n \in 0..L, n \in T, n < L PROVE n + 1 \in T
  <2>1. PICK w : w = n + 1
    OBVIOUS
  <2>2. w \in DOMAIN puts /\ w \in 0..L
    BY <1>0, <1>1, <1>3, <2>1
  <2> DEFINE U == {m \in 0..M : Version(w) \in Reach[Before(pos, own, w, m)]}
  <2>3. 0 \in U
    BY <1>0, <1>1, <1>3, <2>1, NextVersion
  <2>4. ASSUME NEW m \in 0..M, m \in U, m < M PROVE m + 1 \in U
    <3>1. m + 1 \in 0..M
      BY <1>0, <1>1, <2>4
    <3>2. Version(w) \in Reach[Before(pos, own, w, m + 1)]
      BY <1>1, <2>2, <2>4, NextEntry
    <3>3. QED
      BY <3>1, <3>2
  <2>5. M \in U
    <3>1. M \in Nat /\ M \in 0..M
      BY <1>0, <1>1
    <3> HIDE DEF U
    <3>2. QED
      BY <2>3, <2>4, <3>1, UpTo
  <2>6. QED
    BY <2>1, <2>2, <2>5
<1>4. L \in T
  <2>1. L \in Nat /\ L \in 0..L
    BY <1>0, <1>1
  <2> HIDE DEF T
  <2>2. QED
    BY <1>2, <1>3, <2>1, UpTo
<1>5. Before(pos, own, L, M) = DOMAIN oplog
  BY <1>0, <1>1 DEF Before
<1>6. QED
  BY <1>4, <1>5

\* checkPorcupine() accepts the log of a test with a service and clerks that do what
\* the labs ask for: KvModel of models1/kv.go allows its operations in an order that
\* respects the time of their calls and answers.
THEOREM LogLinearizableHolds == Spec => []LogLinearizable
<1> DEFINE I == ~Broken => Works /\ LinInv
<1>1. Init => I
  BY InitFits, LinInit
<1>2. I /\ [Next]_vars => I'
  BY StepFits, LinStep, TestStays
<1>3. I => LogLinearizable
  <2> SUFFICES ASSUME Works, LinInv, tpc = "end" PROVE Reach[DOMAIN oplog] # {}
    BY DEF LogLinearizable
  <2>1. TypeOK
    BY DEF Works
  <2>2. CASE ~Log
    <3>1. DOMAIN oplog = {}
      BY <2>2 DEF LinInv
    <3>2. QED
      BY <2>1, <3>1, ReachFacts
  <2>3. CASE Log
    <3>1. PICK pos, own : Linearized(pos, own)
      BY <2>3 DEF LinInv
    <3>2. ~(op[Tester].kind = "put")
      BY DEF Works, OpsFit
    <3>3. ASSUME NEW c \in Clnt PROVE op[c].kind # "put"
      <4>1. Len(rs) = NClnt /\ NClnt \in Nat
        BY KvTestAssumption DEF Works, TesterFits
      <4>2. pc[c] = "deleted"
        BY <4>1 DEF Works, TesterFits, Clnt
      <4>3. QED
        BY <4>2, ClientView
    <3>4. AllAnswered(pos, own)
      BY <3>1, <3>2, <3>3 DEF AllAnswered, Procs
    <3>5. QED
      BY <2>1, <3>4, LinReach
  <2>4. QED
    BY <2>2, <2>3
<1>4. QED
  BY <1>1, <1>2, <1>3, PTL DEF Spec

=============================================================================
