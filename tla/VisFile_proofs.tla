-------------------------- MODULE VisFile_proofs --------------------------
(***************************************************************************)
(* Proofs about VisFile, for any number of annotations, checks and tests   *)
(* and any room that append() leaves in an array.                          *)
(***************************************************************************)
EXTENDS VisFile, SequenceTheorems, TLAPS

-----------------------------------------------------------------------------
(* append().                                                               *)

\* What is appended in place leaves the rest of the array as it was.
LEMMA WrittenFacts ==
  ASSUME NEW elems \in Seq(Elem), NEW m \in 0 .. Len(elems), NEW a \in Elem
  PROVE  /\ Written(elems, m + 1, a) \in Seq(Elem)
         /\ Len(Written(elems, m + 1, a)) = IF m < Len(elems) THEN Len(elems) ELSE m + 1
         /\ \A k \in 1 .. Len(elems) :
              k # m + 1 => Written(elems, m + 1, a)[k] = elems[k]
<1>1. Len(elems) \in Nat
  BY LenProperties
<1>2. CASE m + 1 <= Len(elems)
  BY <1>1, <1>2, ExceptSeq DEF Written
<1>3. CASE m = Len(elems)
  BY <1>1, <1>3, AppendProperties DEF Written
<1>4. QED
  BY <1>1, <1>2, <1>3

\* The types of arrays and of a slice of one.
LEMMA ArrayTypes ==
  ASSUME NEW arrs \in Arrays
  PROVE  /\ Len(arrs) \in Nat /\ DOMAIN arrs = 1 .. Len(arrs)
         /\ \A i \in DOMAIN arrs : /\ arrs[i] \in Array /\ arrs[i].cap \in Nat
                                 /\ arrs[i].elems \in Seq(Elem) /\ Len(arrs[i].elems) \in Nat
<1>1. Len(arrs) \in Nat /\ DOMAIN arrs = 1 .. Len(arrs)
  BY LenProperties DEF Arrays
<1>2. ASSUME NEW i \in DOMAIN arrs
      PROVE  /\ arrs[i] \in Array /\ arrs[i].cap \in Nat
             /\ arrs[i].elems \in Seq(Elem) /\ Len(arrs[i].elems) \in Nat
  <2>1. arrs[i] \in Array
    BY <1>1, ElementOfSeq DEF Arrays
  <2>2. arrs[i].cap \in Nat /\ arrs[i].elems \in Seq(Elem)
    BY <2>1 DEF Array
  <2>3. QED
    BY <2>1, <2>2, LenProperties
<1>3. QED
  BY <1>1, <1>2

LEMMA SliceTypes ==
  ASSUME NEW arrs \in Arrays, NEW slice \in Slice, Within(arrs, slice)
  PROVE  /\ slice.arr \in DOMAIN arrs /\ slice.arr \in Nat /\ slice.len \in Nat
         /\ slice.len <= Len(arrs[slice.arr].elems)
         /\ slice.len \in 0 .. Len(arrs[slice.arr].elems)
<1>1. slice.arr \in Nat /\ slice.len \in Nat
  BY DEF Slice
<1>2. slice.arr \in DOMAIN arrs /\ slice.len <= Len(arrs[slice.arr].elems)
  BY DEF Within
<1>3. Len(arrs[slice.arr].elems) \in Nat
  BY <1>2, ArrayTypes
<1>4. QED
  BY <1>1, <1>2, <1>3

\* A slice is a prefix of its array.
LEMMA ContentsFacts ==
  ASSUME NEW arrs \in Arrays, NEW slice \in Slice, Within(arrs, slice)
  PROVE  /\ Contents(arrs, slice) \in Seq(Elem) /\ Len(Contents(arrs, slice)) = slice.len
         /\ \A k \in 1 .. slice.len : Contents(arrs, slice)[k] = arrs[slice.arr].elems[k]
<1> DEFINE elems == arrs[slice.arr].elems
           m == slice.len
<1>1. elems \in Seq(Elem) /\ m \in Nat /\ m <= Len(elems) /\ Len(elems) \in Nat
  BY ArrayTypes, SliceTypes
<1> HIDE DEF elems, m
<1>2. \A k \in 1 .. m : elems[k] \in Elem
  BY <1>1, ElementOfSeq
<1>3. /\ SubSeq(elems, 1, m) \in Seq(Elem)
      /\ Len(SubSeq(elems, 1, m)) = IF 1 <= m THEN m - 1 + 1 ELSE 0
      /\ \A k \in 1 .. m - 1 + 1 : SubSeq(elems, 1, m)[k] = elems[1 + k - 1]
  BY <1>1, <1>2, SubSeqProperties
<1>4. /\ SubSeq(elems, 1, m) \in Seq(Elem) /\ Len(SubSeq(elems, 1, m)) = m
      /\ \A k \in 1 .. m : SubSeq(elems, 1, m)[k] = elems[k]
  BY <1>1, <1>3
<1>5. QED
  BY <1>4 DEF Contents, elems, m

\* What append() leaves: the arrays there were, with nothing changed but the one
\* element behind the slice, and the slice with one element more.
Fits(arrs) == \A i \in DOMAIN arrs : Len(arrs[i].elems) <= arrs[i].cap
Extended(arrs, slice, bs, new) ==
  /\ bs \in Arrays /\ Len(bs) >= Len(arrs) /\ Fits(bs)
  /\ new \in Slice /\ Within(bs, new) /\ new.len = slice.len + 1
  /\ new.arr = slice.arr \/ new.arr = Len(arrs) + 1
  /\ \A i \in DOMAIN arrs :
       /\ Len(bs[i].elems) >= Len(arrs[i].elems)
       /\ \A k \in 1 .. Len(arrs[i].elems) :
            ~(i = slice.arr /\ k = slice.len + 1) => bs[i].elems[k] = arrs[i].elems[k]
  /\ \A k \in 1 .. slice.len : bs[new.arr].elems[k] = arrs[slice.arr].elems[k]

LEMMA ReplaceFacts ==
  ASSUME NEW S, NEW seq \in Seq(S), NEW n \in 1 .. Len(seq), NEW e \in S,
         NEW r, r = [seq EXCEPT ![n] = e]
  PROVE  /\ r \in Seq(S) /\ Len(r) = Len(seq)
         /\ \A i \in 1 .. Len(seq) : r[i] = IF i = n THEN e ELSE seq[i]
  BY ExceptSeq

LEMMA AppendInPlace ==
  ASSUME NEW arrs \in Arrays, Fits(arrs), NEW slice \in Slice, Within(arrs, slice),
         NEW a \in Elem, slice.len + 1 <= arrs[slice.arr].cap,
         NEW e \in Array, e.cap = arrs[slice.arr].cap,
         e.elems = Written(arrs[slice.arr].elems, slice.len + 1, a),
         NEW bs, bs = [arrs EXCEPT ![slice.arr] = e],
         NEW new \in Slice, new.arr = slice.arr, new.len = slice.len + 1
  PROVE  Extended(arrs, slice, bs, new)
<1> DEFINE s == slice.arr
           m == slice.len
           elems == arrs[s].elems
           w == e.elems
<1>1. /\ Len(arrs) \in Nat /\ DOMAIN arrs = 1 .. Len(arrs)
      /\ \A i \in DOMAIN arrs : Len(arrs[i].elems) \in Nat
  BY ArrayTypes
<1>2. /\ s \in DOMAIN arrs /\ arrs[s].cap \in Nat
      /\ elems \in Seq(Elem) /\ Len(elems) \in Nat
      /\ m \in Nat /\ m <= Len(elems) /\ m \in 0 .. Len(elems)
  BY ArrayTypes, SliceTypes
<1>3. Len(elems) <= arrs[s].cap
  BY <1>2 DEF Fits
<1>4. /\ w \in Seq(Elem)
      /\ Len(w) = IF m < Len(elems) THEN Len(elems) ELSE m + 1
      /\ \A k \in 1 .. Len(elems) : k # m + 1 => w[k] = elems[k]
  <2> DEFINE v == Written(elems, m + 1, a)
  <2>1. /\ v \in Seq(Elem)
        /\ Len(v) = IF m < Len(elems) THEN Len(elems) ELSE m + 1
        /\ \A k \in 1 .. Len(elems) : k # m + 1 => v[k] = elems[k]
    BY <1>2, WrittenFacts, Zenon
  <2>2. w = v
    OBVIOUS
  <2>3. QED
    BY <2>1, <2>2, Zenon
<1>5. Len(w) \in Nat /\ Len(w) >= m + 1 /\ Len(w) >= Len(elems) /\ Len(w) <= e.cap
  BY <1>2, <1>3, <1>4
<1>6. arrs \in Seq(Array) /\ s \in 1 .. Len(arrs) /\ bs = [arrs EXCEPT ![s] = e]
  BY <1>1, <1>2 DEF Arrays
<1>7. /\ bs \in Seq(Array) /\ Len(bs) = Len(arrs)
      /\ \A i \in 1 .. Len(arrs) : bs[i] = IF i = s THEN e ELSE arrs[i]
  BY <1>6, ReplaceFacts, SMTT(30)
<1>8. /\ bs \in Arrays /\ DOMAIN bs = DOMAIN arrs /\ bs[s] = e
      /\ \A i \in DOMAIN arrs : i # s => bs[i] = arrs[i]
  BY <1>1, <1>6, <1>7, LenProperties DEF Arrays
<1> HIDE DEF w, elems, m, s
<1>9. Fits(bs)
  BY <1>5, <1>8 DEF Fits, w
<1>10. ASSUME NEW i \in DOMAIN arrs
       PROVE  /\ Len(bs[i].elems) >= Len(arrs[i].elems)
              /\ \A k \in 1 .. Len(arrs[i].elems) :
                   ~(i = s /\ k = m + 1) => bs[i].elems[k] = arrs[i].elems[k]
  <2>1. CASE i = s
    BY <1>4, <1>5, <1>8, <2>1 DEF elems, w
  <2>2. CASE i # s
    <3>1. bs[i] = arrs[i] /\ Len(arrs[i].elems) \in Nat
      BY <1>1, <1>8, <2>2
    <3>2. QED
      BY <3>1, <2>2
  <2>3. QED
    BY <2>1, <2>2
<1>11. \A k \in 1 .. m : bs[s].elems[k] = arrs[s].elems[k]
  BY <1>2, <1>4, <1>8 DEF elems, w
<1>12. Within(bs, new) /\ Len(bs) >= Len(arrs)
  BY <1>1, <1>2, <1>5, <1>7, <1>8 DEF Within, w, m, s
<1>13. QED
  BY <1>8, <1>9, <1>10, <1>11, <1>12, Zenon DEF Extended, s, m

LEMMA AppendNew ==
  ASSUME NEW arrs \in Arrays, Fits(arrs), NEW slice \in Slice, Within(arrs, slice),
         NEW a \in Elem, NEW spare \in Nat,
         NEW bs, bs = Append(arrs, [cap |-> slice.len + 1 + spare,
                                  elems |-> Append(Contents(arrs, slice), a)]),
         NEW new, new = [arr |-> Len(arrs) + 1, len |-> slice.len + 1]
  PROVE  Extended(arrs, slice, bs, new)
<1> DEFINE m == slice.len
           w == Append(Contents(arrs, slice), a)
           arr == [cap |-> m + 1 + spare, elems |-> w]
<1>1. /\ m \in Nat /\ Len(arrs) \in Nat /\ DOMAIN arrs = 1 .. Len(arrs)
      /\ \A i \in DOMAIN arrs : Len(arrs[i].elems) \in Nat
  BY ArrayTypes, SliceTypes
<1>2. /\ w \in Seq(Elem) /\ Len(w) = m + 1
      /\ \A k \in 1 .. m : w[k] = arrs[slice.arr].elems[k]
  BY <1>1, ContentsFacts, AppendProperties
<1>3. new \in Slice /\ new.arr = Len(arrs) + 1 /\ new.len = m + 1
  BY <1>1 DEF Slice
<1>4. bs = Append(arrs, arr)
  OBVIOUS
<1> HIDE DEF w
<1>5. arr \in Array /\ arr.elems = w /\ arr.cap = m + 1 + spare
  BY <1>1, <1>2 DEF Array
<1> HIDE DEF arr, m
<1>6. /\ bs \in Arrays /\ Len(bs) = Len(arrs) + 1
      /\ \A i \in 1 .. Len(arrs) : bs[i] = arrs[i]
      /\ bs[Len(arrs) + 1] = arr
  BY <1>4, <1>5, AppendProperties DEF Arrays
<1>7. DOMAIN bs = 1 .. Len(arrs) + 1
  BY <1>6, ArrayTypes
<1>8. Fits(bs)
  BY <1>1, <1>2, <1>5, <1>6, <1>7 DEF Fits
<1>9. Within(bs, new)
  BY <1>1, <1>2, <1>3, <1>5, <1>6, <1>7 DEF Within
<1>10. \A i \in DOMAIN arrs :
         /\ Len(bs[i].elems) >= Len(arrs[i].elems)
         /\ \A k \in 1 .. Len(arrs[i].elems) : bs[i].elems[k] = arrs[i].elems[k]
  BY <1>1, <1>6
<1>11. \A k \in 1 .. m : bs[new.arr].elems[k] = arrs[slice.arr].elems[k]
  BY <1>2, <1>3, <1>5, <1>6
<1>12. Len(bs) >= Len(arrs) /\ new.len = slice.len + 1
  BY <1>1, <1>3, <1>6 DEF m
<1>13. \A k \in 1 .. slice.len : bs[new.arr].elems[k] = arrs[slice.arr].elems[k]
  BY <1>11 DEF m
<1>14. QED
  BY <1>3, <1>6, <1>8, <1>9, <1>10, <1>12, <1>13, Zenon DEF Extended

LEMMA AppendFacts ==
  ASSUME bound \in Bounds, NEW arrs \in Arrays, Fits(arrs),
         NEW slice \in Slice, Within(arrs, slice), NEW a \in Elem,
         NEW r \in append(arrs, slice, a)
  PROVE  Extended(arrs, slice, r[1], r[2])
<1> DEFINE w == Written(arrs[slice.arr].elems, slice.len + 1, a)
           e == [cap |-> arrs[slice.arr].cap, elems |-> w]
           new == [arr |-> slice.arr, len |-> slice.len + 1]
<1>1. CASE slice.len + 1 <= arrs[slice.arr].cap
  <2>1. /\ r[1] = [arrs EXCEPT ![slice.arr].elems = w]
        /\ r[2] = [slice EXCEPT !.len = slice.len + 1]
    BY <1>1 DEF append
  <2>2. /\ arrs[slice.arr] \in Array /\ arrs[slice.arr].elems \in Seq(Elem)
        /\ arrs[slice.arr].cap \in Nat /\ slice.arr \in DOMAIN arrs
        /\ slice.len \in 0 .. Len(arrs[slice.arr].elems) /\ slice.arr \in Nat
    BY ArrayTypes, SliceTypes
  <2>3. w \in Seq(Elem)
    BY <2>2, WrittenFacts
  <2> HIDE DEF w
  <2>4. [arrs[slice.arr] EXCEPT !.elems = w] = e /\ e \in Array
    BY <2>2, <2>3 DEF Array
  <2>5. r[1] = [arrs EXCEPT ![slice.arr] = e]
    BY <2>1, <2>4
  <2>6. r[2] = new /\ new \in Slice
    BY <2>1, <2>2 DEF Slice
  <2>7. e.cap = arrs[slice.arr].cap /\ e.elems = w /\ new.arr = slice.arr
        /\ new.len = slice.len + 1
    OBVIOUS
  <2> HIDE DEF e, new
  <2>8. QED
    BY <1>1, <2>4, <2>5, <2>6, <2>7, AppendInPlace DEF w
<1>2. CASE ~(slice.len + 1 <= arrs[slice.arr].cap)
  <2>1. PICK spare \in 0 .. MaxSpare :
          r = <<Append(arrs, [cap |-> slice.len + 1 + spare,
                            elems |-> Append(Contents(arrs, slice), a)]),
                [arr |-> Len(arrs) + 1, len |-> slice.len + 1]>>
    BY <1>2 DEF append
  <2>2. spare \in Nat
    BY VisFileAssumption DEF MaxSpare
  <2>3. /\ r[1] = Append(arrs, [cap |-> slice.len + 1 + spare,
                              elems |-> Append(Contents(arrs, slice), a)])
        /\ r[2] = [arr |-> Len(arrs) + 1, len |-> slice.len + 1]
    BY <2>1
  <2>4. QED
    BY <2>2, <2>3, AppendNew
<1>3. QED
  BY <1>1, <1>2

-----------------------------------------------------------------------------
(* The types.                                                              *)

\* Whatever append() does, a slice stays within its array.
LEMMA ExtendedWithin ==
  ASSUME NEW arrs \in Arrays, NEW slice, NEW bs, NEW new,
         Extended(arrs, slice, bs, new), NEW other \in Slice, Within(arrs, other)
  PROVE  Within(bs, other)
<1>1. /\ Len(arrs) \in Nat /\ DOMAIN arrs = 1 .. Len(arrs)
      /\ other.arr \in DOMAIN arrs /\ other.len \in Nat
      /\ other.len <= Len(arrs[other.arr].elems) /\ Len(arrs[other.arr].elems) \in Nat
  BY ArrayTypes, SliceTypes
<1>2. bs \in Arrays /\ Len(bs) >= Len(arrs)
      /\ Len(bs[other.arr].elems) >= Len(arrs[other.arr].elems)
  BY <1>1 DEF Extended
<1>3. Len(bs) \in Nat /\ DOMAIN bs = 1 .. Len(bs)
  BY <1>2, ArrayTypes
<1>4. other.arr \in DOMAIN bs
  BY <1>1, <1>2, <1>3
<1>5. Len(bs[other.arr].elems) \in Nat
  BY <1>2, <1>4, ArrayTypes
<1>6. QED
  BY <1>1, <1>2, <1>4, <1>5 DEF Within

\* The part of TypeOK about the slices.
SlicesOK ==
  /\ arrays \in Arrays /\ Fits(arrays)
  /\ annotations \in Slice /\ Within(arrays, annotations)
  /\ x \in [Threads -> Slice] /\ \A t \in Threads : Within(arrays, x[t])

LEMMA TypeSlices == TypeOK => SlicesOK /\ bound \in Bounds
  BY DEF TypeOK, SlicesOK, Fits

\* The counters.
LEMMA CounterTypes ==
  ASSUME TypeOK
  PROVE  /\ MaxAnn \in Nat /\ used \in Nat /\ used <= MaxAnn
         /\ MaxTests \in Nat /\ test \in Nat /\ test >= 1 /\ test <= MaxTests
         /\ file.test \in Nat /\ file.test <= test
<1>1. /\ bound \in Bounds /\ used \in 0 .. MaxAnn /\ test \in 1 .. MaxTests
      /\ file \in [test : 0 .. test, anns : Seq(Elem),
                   kind : FileKind]
  BY DEF TypeOK
<1>2. bound \in [ann : Nat, spare : Nat, tests : Nat \ {0}]
  BY <1>1, VisFileAssumption
<1>3. MaxAnn \in Nat /\ MaxTests \in Nat
  BY <1>2 DEF MaxAnn, MaxTests
<1>4. file.test \in 0 .. test
  BY <1>1
<1>5. QED
  BY <1>1, <1>3, <1>4

\* An annotation is appended to an.annotations.
LEMMA AppendsFacts ==
  ASSUME TypeOK, NEW kind \in {"point", "interval"}, Appends(kind)
  PROVE  Extended(arrays, annotations, arrays', annotations') /\ used' \in 0 .. MaxAnn
<1>1. used' = used + 1 /\ used' \in 0 .. MaxAnn /\ used' \in Nat
  <2>1. used' = used + 1 /\ used < MaxAnn
    BY DEF Appends
  <2>2. QED
    BY <2>1, CounterTypes
<1> DEFINE a == <<kind, used'>>
<1>2. a \in Elem
  BY <1>1 DEF Elem
<1>3. PICK r \in append(arrays, annotations, a) : arrays' = r[1] /\ annotations' = r[2]
  BY DEF Appends
<1> HIDE DEF a
<1>4. Extended(arrays, annotations, r[1], r[2])
  <2>1. /\ bound \in Bounds /\ arrays \in Arrays /\ Fits(arrays)
        /\ annotations \in Slice /\ Within(arrays, annotations)
    BY TypeSlices DEF SlicesOK
  <2>2. QED
    BY <1>2, <1>3, <2>1, AppendFacts
<1>5. QED
  BY <1>1, <1>3, <1>4

\* finalize() hands out an.annotations, with what is going on appended.
LEMMA FinalizeFacts ==
  ASSUME TypeOK, NEW t \in Threads, finalize(t)
  PROVE  /\ x' = [x EXCEPT ![t] = x'[t]]
         /\ \/ Extended(arrays, annotations, arrays', x'[t])
            \/ arrays' = arrays /\ x'[t] = annotations
         /\ pre' = [pre EXCEPT ![t] = Contents(arrays', x'[t])]
<1> DEFINE a == <<"interval", used>>
<1>1. PICK r \in IF going THEN append(arrays, annotations, a)
                 ELSE {<<arrays, annotations>>} :
        /\ arrays' = r[1] /\ x' = [x EXCEPT ![t] = r[2]]
        /\ pre' = [pre EXCEPT ![t] = Contents(r[1], r[2])]
  BY DEF finalize
<1>2. /\ x'[t] = r[2] /\ x' = [x EXCEPT ![t] = x'[t]]
      /\ pre' = [pre EXCEPT ![t] = Contents(arrays', x'[t])]
  BY <1>1 DEF TypeOK
<1>3. CASE going
  <2>1. used \in Nat
    BY CounterTypes
  <2>2. a \in Elem
    BY <2>1 DEF Elem
  <2> HIDE DEF a
  <2>3. r \in append(arrays, annotations, a)
    BY <1>1, <1>3
  <2>4. Extended(arrays, annotations, r[1], r[2])
    <3>1. /\ bound \in Bounds /\ arrays \in Arrays /\ Fits(arrays)
          /\ annotations \in Slice /\ Within(arrays, annotations)
      BY TypeSlices DEF SlicesOK
    <3>2. QED
      BY <2>2, <2>3, <3>1, AppendFacts
  <2>5. QED
    BY <1>1, <1>2, <2>4
<1>4. CASE ~going
  <2>1. r = <<arrays, annotations>>
    BY <1>1, <1>4
  <2>2. QED
    BY <1>1, <1>2, <2>1
<1>5. QED
  BY <1>3, <1>4

\* The interval for the end is appended to the slice that was handed out.
LEMMA AppendEndFacts ==
  ASSUME TypeOK, NEW t \in Threads, AppendEnd(t)
  PROVE  x' = [x EXCEPT ![t] = x'[t]] /\ Extended(arrays, x[t], arrays', x'[t])
<1>1. PICK r \in append(arrays, x[t], End) : arrays' = r[1] /\ x' = [x EXCEPT ![t] = r[2]]
  BY DEF AppendEnd
<1>2. x'[t] = r[2] /\ x' = [x EXCEPT ![t] = x'[t]]
  BY <1>1 DEF TypeOK
<1>3. End \in Elem
  BY DEF End, Elem
<1>4. x[t] \in Slice /\ Within(arrays, x[t])
  BY TypeSlices DEF SlicesOK
<1>5. Extended(arrays, x[t], r[1], r[2])
  BY <1>1, <1>3, <1>4, TypeSlices, AppendFacts DEF SlicesOK
<1>6. QED
  BY <1>1, <1>2, <1>5

-----------------------------------------------------------------------------
(* The flags and the file.                                                 *)

\* The part of the invariant that does not look into the arrays.
FlagInv == OnceInterrupted /\ HasInfo /\ FlagTells /\ HistoryFinal /\ EndedTestDrawn

\* The part of TypeOK that FlagInv depends on.
LEMMA FlagTypes ==
  ASSUME TypeOK
  PROVE  /\ pc \in [Threads -> {"running", "marked", "finalize", "append", "open",
                                "write", "cleanup", "clear", "ended"}]
         /\ job \in [Threads -> {"check", "cleanup"}]
         /\ annotations.len \in Nat
         /\ file.test \in Nat /\ test \in Nat /\ file.test <= test
<1>1. annotations.len \in Nat
  BY DEF TypeOK, Slice
<1>2. QED
  BY <1>1, CounterTypes DEF TypeOK

LEMMA FlagsAnnotate ==
  ASSUME TypeOK, FlagInv, NEW kind \in {"point", "interval"}, annotate(kind)
  PROVE  FlagInv'
<1>1. annotations'.len = annotations.len + 1 /\ annotations.len \in Nat
  BY AppendsFacts, FlagTypes DEF annotate, Extended
<1>2. UNCHANGED <<vis, canOpen, finalized, pc, job, test, failed, marked, file>>
  BY DEF annotate, envVars, threadVars, testVars
<1>3. QED
  BY <1>1, <1>2 DEF FlagInv, OnceInterrupted, HasInfo, FlagTells, HistoryFinal,
    EndedTestDrawn, Uninterrupted, MayDraw, MustDraw, Drawn, HoldsHistory

LEMMA FlagsContinuousEnd ==
  ASSUME TypeOK, FlagInv, annotateContinuousEnd
  PROVE  FlagInv'
<1>1. annotations'.len = annotations.len + 1 /\ annotations.len \in Nat
  BY AppendsFacts, FlagTypes DEF annotateContinuousEnd, Extended
<1>2. UNCHANGED <<vis, canOpen, finalized, pc, job, test, failed, marked, file>>
  BY DEF annotateContinuousEnd, envVars, threadVars, testVars
<1>3. QED
  BY <1>1, <1>2 DEF FlagInv, OnceInterrupted, HasInfo, FlagTells, HistoryFinal,
    EndedTestDrawn, Uninterrupted, MayDraw, MustDraw, Drawn, HoldsHistory

\* cleanup() draws a test, for it has its Info.
LEMMA FlagsFinalize ==
  ASSUME TypeOK, FlagInv, NEW t \in Threads, finalize(t)
  PROVE  FlagInv'
<1>1. /\ UNCHANGED <<vis, canOpen, annotations, job, test, failed, marked, file>>
      /\ finalized' = TRUE /\ pc[t] = "finalize"
      /\ pc' = [pc EXCEPT ![t] =
           IF job[t] = "cleanup" /\ x'[t].len = 0 THEN "ended" ELSE "append"]
  BY DEF finalize, envVars, testVars
<1>2. annotations.len > 0 => x'[t].len # 0
  <2>1. x'[t].len = annotations.len + 1 \/ x'[t].len = annotations.len
    BY FinalizeFacts DEF Extended
  <2>2. QED
    BY <2>1, FlagTypes
<1>3. QED
  BY <1>1, <1>2, FlagTypes DEF FlagInv, OnceInterrupted, HasInfo, FlagTells, HistoryFinal,
    EndedTestDrawn, Uninterrupted, MayDraw, MustDraw, Drawn, HoldsHistory, Threads

LEMMA FlagsAppendEnd ==
  ASSUME TypeOK, FlagInv, NEW t \in Threads, AppendEnd(t)
  PROVE  FlagInv'
<1>1. /\ UNCHANGED <<vis, canOpen, annotations, finalized, job, test, failed, marked, file>>
      /\ pc[t] = "append"
      /\ pc' = [pc EXCEPT ![t] = IF job[t] = "cleanup" THEN "open" ELSE "write"]
  BY DEF AppendEnd, envVars, testVars
<1>2. QED
  BY <1>1, FlagTypes DEF FlagInv, OnceInterrupted, HasInfo, FlagTells, HistoryFinal,
    EndedTestDrawn, Uninterrupted, MayDraw, MustDraw, Drawn, HoldsHistory, Threads

LEMMA FlagsOpenFile ==
  ASSUME TypeOK, FlagInv, NEW t \in Threads, OpenFile(t)
  PROVE  FlagInv'
<1>1. /\ UNCHANGED <<vis, canOpen, annotations, finalized, job, test, failed, marked>>
      /\ pc[t] = "open"
      /\ pc' = [pc EXCEPT ![t] = IF canOpen THEN "write" ELSE "ended"]
      /\ ~canOpen => file' = file
      /\ canOpen => file'.kind = "blank"
  BY DEF OpenFile, envVars, anVars, testVars
<1>2. QED
  BY <1>1, FlagTypes DEF FlagInv, OnceInterrupted, HasInfo, FlagTells, HistoryFinal,
    EndedTestDrawn, Uninterrupted, MayDraw, MustDraw, Drawn, HoldsHistory, Threads

LEMMA FlagsVisualize ==
  ASSUME TypeOK, FlagInv, NEW t \in Threads, Visualize(t)
  PROVE  FlagInv'
<1>1. /\ UNCHANGED <<vis, canOpen, annotations, finalized, job, test, failed, marked>>
      /\ pc[t] = "write"
      /\ pc' = [pc EXCEPT ![t] = IF job[t] = "cleanup" THEN "ended"
                                 ELSE IF failed THEN "cleanup" ELSE "running"]
      /\ file'.test = test
      /\ file'.kind = IF job[t] = "check" THEN "history" ELSE "annotations"
  BY DEF Visualize, envVars, anVars, testVars
<1>2. QED
  BY <1>1, FlagTypes DEF FlagInv, OnceInterrupted, HasInfo, FlagTells, HistoryFinal,
    EndedTestDrawn, Uninterrupted, MayDraw, MustDraw, Drawn, HoldsHistory, Threads

LEMMA FlagsCleanup ==
  ASSUME TypeOK, FlagInv, NEW t \in Threads, cleanup(t)
  PROVE  FlagInv'
<1>1. /\ UNCHANGED <<vis, canOpen, annotations, finalized, test, failed, marked, file>>
      /\ pc[t] = "cleanup" /\ job' = [job EXCEPT ![t] = "cleanup"]
      /\ pc' = [pc EXCEPT ![t] =
           IF vis = "never" \/ (~(t = "signal" \/ failed) /\ vis # "always") \/ finalized
           THEN "clear" ELSE "finalize"]
  BY DEF cleanup, envVars, anVars, testVars
<1>2. QED
  BY <1>1, FlagTypes DEF FlagInv, OnceInterrupted, HasInfo, FlagTells, HistoryFinal,
    EndedTestDrawn, Uninterrupted, MayDraw, MustDraw, Drawn, HoldsHistory, Threads

LEMMA FlagsClear ==
  ASSUME TypeOK, FlagInv, NEW t \in Threads, clear(t)
  PROVE  FlagInv'
<1>1. /\ UNCHANGED <<vis, canOpen, job, test, failed, marked, file>>
      /\ pc[t] = "clear" /\ pc' = [pc EXCEPT ![t] = "ended"]
  BY DEF clear, envVars, testVars
<1>2. QED
  BY <1>1, FlagTypes DEF FlagInv, OnceInterrupted, HasInfo, FlagTells, HistoryFinal,
    EndedTestDrawn, Uninterrupted, MayDraw, MustDraw, Drawn, HoldsHistory, Threads

LEMMA FlagsCheck ==
  ASSUME TypeOK, FlagInv, NEW illegal \in BOOLEAN, checkPorcupine(illegal)
  PROVE  FlagInv'
<1> DEFINE opens == canOpen /\ (illegal \/ (vis = "always" /\ finalized))
           draws == opens /\ vis # "never"
<1>1. /\ UNCHANGED <<vis, canOpen, annotations, finalized, test, marked>>
      /\ pc["tester"] = "marked" \/ (pc["tester"] = "running" /\ ~marked)
      /\ failed' = illegal
      /\ job' = [job EXCEPT !["tester"] = IF draws THEN "check" ELSE @]
      /\ pc' = [pc EXCEPT !["tester"] =
           IF draws THEN "finalize" ELSE IF illegal THEN "cleanup" ELSE "running"]
      /\ ~opens => file' = file
      /\ opens => file'.kind = "empty"
  BY DEF checkPorcupine, envVars, anVars
<1>2. QED
  BY <1>1, FlagTypes DEF FlagInv, OnceInterrupted, HasInfo, FlagTells, HistoryFinal,
    EndedTestDrawn, Uninterrupted, MayDraw, MustDraw, Drawn, HoldsHistory, Threads

LEMMA FlagsTester ==
  ASSUME TypeOK, FlagInv,
         \/ annotateContinuous \/ SetAnnotationFinalized \/ Interrupt
         \/ \E b \in BOOLEAN : TestEnds(b)
  PROVE  FlagInv'
<1>1. CASE annotateContinuous
  BY <1>1 DEF annotateContinuous, envVars, threadVars, testVars,
    FlagInv, OnceInterrupted, HasInfo, FlagTells, HistoryFinal,
    EndedTestDrawn, Uninterrupted, MayDraw, MustDraw, Drawn, HoldsHistory
<1>2. CASE SetAnnotationFinalized
  BY <1>2, FlagTypes DEF SetAnnotationFinalized, envVars,
    FlagInv, OnceInterrupted, HasInfo, FlagTells, HistoryFinal,
    EndedTestDrawn, Uninterrupted, MayDraw, MustDraw, Drawn, HoldsHistory, Threads
<1>3. CASE Interrupt
  BY <1>3, FlagTypes DEF Interrupt, envVars, anVars, testVars,
    FlagInv, OnceInterrupted, HasInfo, FlagTells, HistoryFinal,
    EndedTestDrawn, Uninterrupted, MayDraw, MustDraw, Drawn, HoldsHistory, Threads
<1>4. ASSUME NEW b \in BOOLEAN, TestEnds(b) PROVE FlagInv'
  BY <1>4, FlagTypes DEF TestEnds, envVars, anVars,
    FlagInv, OnceInterrupted, HasInfo, FlagTells, HistoryFinal,
    EndedTestDrawn, Uninterrupted, MayDraw, MustDraw, Drawn, HoldsHistory, Threads
<1>5. QED
  BY <1>1, <1>2, <1>3, <1>4

LEMMA FlagsAnnotateTest ==
  ASSUME TypeOK, FlagInv, AnnotateTest
  PROVE  FlagInv'
<1>1. /\ UNCHANGED <<vis, canOpen, job, file>> /\ annotations'.len = Len(<<Info>>)
      /\ finalized' = FALSE /\ failed' = FALSE /\ marked' = FALSE /\ test' = test + 1
      /\ pc["tester"] = "ended" /\ pc' = [pc EXCEPT !["tester"] = "running"]
  BY DEF AnnotateTest, Cleared, envVars
<1>2. Len(<<Info>>) = 1
  OBVIOUS
<1>3. QED
  BY <1>1, <1>2, FlagTypes DEF FlagInv, OnceInterrupted, HasInfo, FlagTells, HistoryFinal,
    EndedTestDrawn, Uninterrupted, MayDraw, MustDraw, Drawn, HoldsHistory, Threads

-----------------------------------------------------------------------------
(* TypeOK.                                                                 *)

\* The part of TypeOK that is not about the slices.
RestOK ==
  /\ bound \in Bounds
  /\ vis \in {"never", "", "always"} /\ canOpen \in BOOLEAN
  /\ pre \in [Threads -> Seq(Elem)] /\ own \in [Threads -> Nat]
  /\ going \in BOOLEAN /\ finalized \in BOOLEAN /\ used \in 0..MaxAnn
  /\ pc \in [Threads -> {"running", "marked", "finalize", "append", "open", "write",
                         "cleanup", "clear", "ended"}]
  /\ job \in [Threads -> {"check", "cleanup"}]
  /\ test \in 1..MaxTests /\ failed \in BOOLEAN /\ marked \in BOOLEAN
  /\ checks \in 0..MaxChecks
  /\ file \in [test : 0..test, anns : Seq(Elem),
               kind : FileKind]

LEMMA TypeParts ==
  /\ TypeOK <=> SlicesOK /\ RestOK
  /\ TypeOK' <=> SlicesOK' /\ RestOK'
  BY DEF TypeOK, SlicesOK, RestOK, Fits

\* A slice is replaced, or none, by one that append() left.
LEMMA SlicesExtended ==
  ASSUME SlicesOK, NEW slice, NEW new, Extended(arrays, slice, arrays', new),
         \/ annotations' = new /\ x' = x
         \/ annotations' = annotations /\ \E t \in Threads : x' = [x EXCEPT ![t] = new]
  PROVE  SlicesOK'
<1>1. arrays' \in Arrays /\ Fits(arrays') /\ new \in Slice /\ Within(arrays', new)
  BY DEF Extended
<1>2. Within(arrays', annotations) /\ \A t \in Threads : Within(arrays', x[t])
  BY ExtendedWithin DEF SlicesOK
<1>3. CASE annotations' = new /\ x' = x
  BY <1>1, <1>2, <1>3 DEF SlicesOK, Fits, Within
<1>4. CASE annotations' = annotations /\ \E t \in Threads : x' = [x EXCEPT ![t] = new]
  <2>1. PICK t \in Threads : x' = [x EXCEPT ![t] = new]
    BY <1>4
  <2>2. x' \in [Threads -> Slice] /\ \A u \in Threads : x'[u] = new \/ x'[u] = x[u]
    BY <1>1, <2>1 DEF SlicesOK
  <2>3. \A u \in Threads : Within(arrays', x'[u])
    BY <1>1, <1>2, <2>2
  <2>4. QED
    BY <1>1, <1>2, <1>4, <2>2, <2>3 DEF SlicesOK, Fits, Within
<1>5. QED
  BY <1>3, <1>4

\* clear() and AnnotateTest() leave the arrays alone and take a new one.
LEMMA SlicesCleared ==
  ASSUME SlicesOK, NEW first \in Seq(Elem), Cleared(first), x' = x
  PROVE  /\ SlicesOK' /\ annotations'.arr \notin DOMAIN arrays
         /\ \A i \in DOMAIN arrays : arrays'[i] = arrays[i]
<1>1. /\ arrays' = Append(arrays, [cap |-> Len(first), elems |-> first])
      /\ annotations' = [arr |-> Len(arrays) + 1, len |-> Len(first)]
  BY DEF Cleared
<1>2. /\ arrays' \in Arrays /\ Fits(arrays') /\ annotations' \in Slice
      /\ Within(arrays', annotations')
      /\ \A i \in DOMAIN arrays : i \in DOMAIN arrays' /\ arrays'[i] = arrays[i]
      /\ annotations'.arr \notin DOMAIN arrays
  <2> DEFINE e == [cap |-> Len(first), elems |-> first]
             new == [arr |-> Len(arrays) + 1, len |-> Len(first)]
  <2>1. arrays \in Arrays /\ Fits(arrays) /\ Len(arrays) \in Nat /\ Len(first) \in Nat
    BY ArrayTypes, LenProperties DEF SlicesOK
  <2>2. e \in Array /\ e.elems = first /\ Len(e.elems) <= e.cap
    BY <2>1 DEF Array
  <2>3. new \in Slice /\ new.arr = Len(arrays) + 1 /\ new.len = Len(e.elems)
    BY <2>1, <2>2 DEF Slice
  <2>4. arrays' = Append(arrays, e) /\ annotations' = new
    BY <1>1
  <2> HIDE DEF e, new
  <2>5. /\ arrays' \in Arrays /\ Len(arrays') = Len(arrays) + 1
        /\ \A i \in 1 .. Len(arrays) : arrays'[i] = arrays[i]
        /\ arrays'[Len(arrays) + 1] = e
    BY <2>1, <2>2, <2>4, AppendProperties DEF Arrays
  <2>6. DOMAIN arrays = 1 .. Len(arrays) /\ DOMAIN arrays' = 1 .. Len(arrays) + 1
    BY <2>1, <2>5, ArrayTypes
  <2>7. Fits(arrays')
    BY <2>1, <2>2, <2>5, <2>6 DEF Fits
  <2>8. Within(arrays', new)
    BY <2>1, <2>2, <2>3, <2>5, <2>6 DEF Within
  <2>9. QED
    BY <2>1, <2>3, <2>4, <2>5, <2>6, <2>7, <2>8
<1>3. \A t \in Threads : Within(arrays', x[t])
  BY <1>2 DEF SlicesOK, Within
<1>4. QED
  BY <1>2, <1>3 DEF SlicesOK, Fits, Within

LEMMA SlicesSame ==
  ASSUME SlicesOK, UNCHANGED <<arrays, annotations>>,
         x' = x \/ \E t \in Threads, s \in Slice : Within(arrays, s) /\ x' = [x EXCEPT ![t] = s]
  PROVE  SlicesOK'
<1>1. x' \in [Threads -> Slice] /\ \A t \in Threads : Within(arrays, x'[t])
  <2>1. CASE x' = x
    BY <2>1 DEF SlicesOK
  <2>2. ASSUME NEW t \in Threads, NEW s \in Slice, Within(arrays, s), x' = [x EXCEPT ![t] = s]
        PROVE  x' \in [Threads -> Slice] /\ \A u \in Threads : Within(arrays, x'[u])
    <3>1. \A u \in Threads : x'[u] = s \/ x'[u] = x[u]
      BY <2>2 DEF SlicesOK
    <3>2. QED
      BY <2>2, <3>1 DEF SlicesOK
  <2>3. QED
    BY <2>1, <2>2
<1>2. QED
  BY <1>1 DEF SlicesOK, Fits, Within

LEMMA TypeAnnotate ==
  ASSUME TypeOK, bound' = bound,
         annotateContinuousEnd \/ \E kind \in {"point", "interval"} : annotate(kind)
  PROVE  TypeOK'
<1>1. PICK kind \in {"point", "interval"} : Appends(kind)
  BY DEF annotate, annotateContinuousEnd
<1>2. /\ UNCHANGED <<bound, vis, canOpen, finalized, pc, job, x, pre, own>>
      /\ UNCHANGED <<test, failed, checks, marked, file>>
      /\ going' = going \/ going' = FALSE
  BY DEF annotate, annotateContinuousEnd, envVars, threadVars, testVars
<1>3. Extended(arrays, annotations, arrays', annotations') /\ used' \in 0 .. MaxAnn
  BY <1>1, AppendsFacts
<1>4. SlicesOK'
  BY <1>2, <1>3, TypeParts, SlicesExtended
<1>5. RestOK'
  BY <1>2, <1>3, TypeParts DEF RestOK, MaxAnn, MaxTests
<1>6. QED
  BY <1>4, <1>5, TypeParts

LEMMA TypeFinalize ==
  ASSUME TypeOK, bound' = bound, NEW t \in Threads, finalize(t)
  PROVE  TypeOK'
<1>1. /\ UNCHANGED <<bound, vis, canOpen, annotations, going, used, job>>
      /\ UNCHANGED <<test, failed, checks, marked, file>>
      /\ finalized' = TRUE
      /\ pc' = [pc EXCEPT ![t] =
           IF job[t] = "cleanup" /\ x'[t].len = 0 THEN "ended" ELSE "append"]
      /\ own' = [own EXCEPT ![t] = annotations.len]
  BY DEF finalize, envVars, testVars
<1>2. SlicesOK
  BY TypeParts
<1>3. SlicesOK'
  <2>1. CASE Extended(arrays, annotations, arrays', x'[t])
    BY <1>1, <1>2, <2>1, FinalizeFacts, SlicesExtended
  <2>2. CASE arrays' = arrays /\ x'[t] = annotations
    BY <1>1, <1>2, <2>2, FinalizeFacts, SlicesSame DEF SlicesOK
  <2>3. QED
    BY <2>1, <2>2, FinalizeFacts
<1>4. pre' = [pre EXCEPT ![t] = Contents(arrays', x'[t])]
  BY FinalizeFacts
<1>5. Contents(arrays', x'[t]) \in Seq(Elem)
  BY <1>3, ContentsFacts DEF SlicesOK
<1>6. annotations.len \in Nat
  BY FlagTypes
<1>7. RestOK'
  BY <1>1, <1>4, <1>5, <1>6, TypeParts DEF RestOK, MaxAnn, MaxTests
<1>8. QED
  BY <1>3, <1>7, TypeParts

LEMMA TypeAppendEnd ==
  ASSUME TypeOK, bound' = bound, NEW t \in Threads, AppendEnd(t)
  PROVE  TypeOK'
<1>1. /\ UNCHANGED <<bound, vis, canOpen, annotations, going, finalized, used, job, pre, own>>
      /\ UNCHANGED <<test, failed, checks, marked, file>>
      /\ pc' = [pc EXCEPT ![t] = IF job[t] = "cleanup" THEN "open" ELSE "write"]
  BY DEF AppendEnd, envVars, testVars
<1>2. RestOK'
  BY <1>1, TypeParts DEF RestOK, MaxAnn, MaxTests
<1>3. SlicesOK'
  BY <1>1, TypeParts, AppendEndFacts, SlicesExtended
<1>4. QED
  BY <1>2, <1>3, TypeParts

\* What is written to the file.
LEMMA FileTypes ==
  ASSUME TypeOK
  PROVE  /\ file \in [test : 0 .. test, anns : Seq(Elem),
                      kind : FileKind]
         /\ \A n \in 0 .. test, anns \in Seq(Elem), kind \in FileKind :
              [test |-> n, anns |-> anns, kind |-> kind] \in
                [test : 0 .. test, anns : Seq(Elem),
                 kind : FileKind]
<1>1. file \in [test : 0 .. test, anns : Seq(Elem),
               kind : FileKind]
  BY DEF TypeOK
<1>2. QED
  BY <1>1

LEMMA TypeOpenFile ==
  ASSUME TypeOK, bound' = bound, NEW t \in Threads, OpenFile(t)
  PROVE  TypeOK'
<1>1. /\ UNCHANGED <<bound, vis, canOpen, arrays, annotations, going, finalized, used, job>>
      /\ UNCHANGED <<x, pre, own, test, failed, checks, marked>>
      /\ file' = file \/ file' = [test |-> test, kind |-> "blank", anns |-> <<>>]
      /\ pc' = [pc EXCEPT ![t] = IF canOpen THEN "write" ELSE "ended"]
  BY DEF OpenFile, envVars, anVars, testVars
<1>2. file' \in [test : 0 .. test, anns : Seq(Elem), kind : FileKind]
  <2>1. test \in 0 .. test /\ <<>> \in Seq(Elem) /\ "blank" \in FileKind
    BY CounterTypes, EmptySeq DEF FileKind
  <2>2. QED
    BY <1>1, <2>1, FileTypes
<1>3. RestOK'
  BY <1>1, <1>2, TypeParts DEF RestOK, MaxAnn, MaxTests
<1>4. SlicesOK'
  BY <1>1, TypeParts, SlicesSame
<1>5. QED
  BY <1>3, <1>4, TypeParts

LEMMA TypeVisualize ==
  ASSUME TypeOK, bound' = bound, NEW t \in Threads, Visualize(t)
  PROVE  TypeOK'
<1>1. /\ UNCHANGED <<bound, vis, canOpen, arrays, annotations, going, finalized, used, job>>
      /\ UNCHANGED <<test, failed, checks, marked>>
      /\ file' = [test |-> test, anns |-> Contents(arrays, x[t]),
           kind |-> IF job[t] = "check" THEN "history" ELSE "annotations"]
      /\ pc' = [pc EXCEPT ![t] = IF job[t] = "cleanup" THEN "ended"
                                 ELSE IF failed THEN "cleanup" ELSE "running"]
      /\ x' = [x EXCEPT ![t] = NoSlice] /\ pre' = [pre EXCEPT ![t] = <<>>]
      /\ own' = [own EXCEPT ![t] = 0]
  BY DEF Visualize, envVars, anVars, testVars
<1>2. SlicesOK
  BY TypeParts
<1>3. Contents(arrays, x[t]) \in Seq(Elem) /\ <<>> \in Seq(Elem)
  BY <1>2, ContentsFacts DEF SlicesOK
<1>4. file' \in [test : 0 .. test, anns : Seq(Elem),
                 kind : FileKind]
  <2>1. test \in 0 .. test
    BY CounterTypes
  <2>2. QED
    BY <1>1, <1>3, <2>1, FileTypes DEF FileKind
<1>5. RestOK'
  BY <1>1, <1>3, <1>4, TypeParts DEF RestOK, MaxAnn, MaxTests
<1>6. NoSlice \in Slice /\ Within(arrays, NoSlice)
  <2>1. 1 \in DOMAIN arrays
    BY <1>2, SliceTypes, ArrayTypes DEF SlicesOK
  <2>2. Len(arrays[1].elems) \in Nat
    BY <1>2, <2>1, ArrayTypes DEF SlicesOK
  <2>3. QED
    BY <2>1, <2>2 DEF NoSlice, Slice, Within
<1>7. SlicesOK'
  BY <1>1, <1>2, <1>6, SlicesSame
<1>8. QED
  BY <1>5, <1>7, TypeParts

LEMMA TypeClear ==
  ASSUME TypeOK, bound' = bound, AnnotateTest \/ \E t \in Threads : clear(t)
  PROVE  TypeOK'
<1>1. CASE AnnotateTest
  <2>1. /\ UNCHANGED <<bound, vis, canOpen, used, job, x, pre, own, file>>
        /\ going' = FALSE /\ finalized' = FALSE /\ failed' = FALSE /\ marked' = FALSE
        /\ test < MaxTests /\ test' = test + 1 /\ checks' = 0
        /\ pc' = [pc EXCEPT !["tester"] = "running"] /\ Cleared(<<Info>>)
    BY <1>1 DEF AnnotateTest, Cleared, envVars
  <2>2. <<Info>> \in Seq(Elem)
    BY DEF Info, Elem
  <2>3. SlicesOK'
    BY <2>1, <2>2, SlicesCleared, TypeParts
  <2>4. test' \in 1 .. MaxTests /\ 0 .. test \subseteq 0 .. test' /\ 0 \in 0 .. MaxChecks
    BY <2>1, CounterTypes, VisFileAssumption
  <2>5. file \in [test : 0 .. test', anns : Seq(Elem),
                  kind : FileKind]
    BY <2>4 DEF TypeOK
  <2>6. RestOK'
    BY <2>1, <2>4, <2>5, TypeParts DEF RestOK, MaxAnn, MaxTests
  <2>7. QED
    BY <2>3, <2>6, TypeParts
<1>2. ASSUME NEW t \in Threads, clear(t) PROVE TypeOK'
  <2>1. /\ UNCHANGED <<bound, vis, canOpen, used, job, x, pre, own, file>>
        /\ UNCHANGED <<test, failed, checks, marked>>
        /\ going' = FALSE /\ finalized' = FALSE
        /\ pc' = [pc EXCEPT ![t] = "ended"] /\ Cleared(<<>>)
    BY <1>2 DEF clear, Cleared, envVars, testVars
  <2>2. SlicesOK'
    BY <2>1, SlicesCleared, TypeParts, EmptySeq
  <2>3. RestOK'
    BY <2>1, TypeParts DEF RestOK, MaxAnn, MaxTests
  <2>4. QED
    BY <2>2, <2>3, TypeParts
<1>3. QED
  BY <1>1, <1>2

LEMMA TypeTester ==
  ASSUME TypeOK, bound' = bound,
         \/ annotateContinuous \/ SetAnnotationFinalized \/ Interrupt
         \/ \E b \in BOOLEAN : checkPorcupine(b) \/ TestEnds(b)
         \/ \E t \in Threads : cleanup(t)
  PROVE  TypeOK'
<1>1. UNCHANGED <<arrays, annotations, x>>
  BY DEF annotateContinuous, SetAnnotationFinalized, Interrupt, checkPorcupine, TestEnds,
    cleanup, anVars, threadVars
<1>2. SlicesOK'
  BY <1>1, TypeParts, SlicesSame
<1>3. ASSUME annotateContinuous PROVE RestOK'
  BY <1>3, TypeParts DEF annotateContinuous, RestOK, MaxAnn, MaxTests, envVars, threadVars, testVars
<1>4. ASSUME SetAnnotationFinalized PROVE RestOK'
  BY <1>4, TypeParts DEF SetAnnotationFinalized, RestOK, MaxAnn, MaxTests, envVars
<1>5. ASSUME Interrupt PROVE RestOK'
  BY <1>5, TypeParts DEF Interrupt, RestOK, MaxAnn, MaxTests, envVars, anVars, testVars
<1>6. ASSUME NEW b \in BOOLEAN, TestEnds(b) PROVE RestOK'
  BY <1>6, TypeParts DEF TestEnds, RestOK, MaxAnn, MaxTests, envVars, anVars
<1>7. ASSUME NEW t \in Threads, cleanup(t) PROVE RestOK'
  BY <1>7, TypeParts DEF cleanup, RestOK, MaxAnn, MaxTests, envVars, anVars, testVars
<1>8. ASSUME NEW b \in BOOLEAN, checkPorcupine(b) PROVE RestOK'
  <2> DEFINE opens == canOpen /\ (b \/ (vis = "always" /\ finalized))
             draws == opens /\ vis # "never"
  <2>1. /\ UNCHANGED <<bound, vis, canOpen, going, finalized, used, pre, own, test, marked>>
        /\ checks < MaxChecks /\ checks' = checks + 1
        /\ file' = file \/ file' = [test |-> test, kind |-> "empty", anns |-> <<>>]
        /\ failed' = b
        /\ job' = [job EXCEPT !["tester"] = IF draws THEN "check" ELSE @]
        /\ pc' = [pc EXCEPT !["tester"] =
             IF draws THEN "finalize" ELSE IF b THEN "cleanup" ELSE "running"]
    BY <1>8 DEF checkPorcupine, envVars, anVars
  <2>2. test \in 0 .. test /\ checks' \in 0 .. MaxChecks
    <3>1. checks \in 0 .. MaxChecks
      BY DEF TypeOK
    <3>2. QED
      BY <2>1, <3>1, CounterTypes, VisFileAssumption
  <2>3. file' \in [test : 0 .. test, anns : Seq(Elem),
                   kind : FileKind]
    <3>1. <<>> \in Seq(Elem)
      BY EmptySeq, Zenon
    <3>2. [test |-> test, kind |-> "empty", anns |-> <<>>] \in
            [test : 0 .. test, anns : Seq(Elem),
             kind : FileKind]
      BY <2>2, <3>1 DEF FileKind
    <3>3. QED
      BY <2>1, <3>2, FileTypes, Zenon
  <2>4. QED
    BY <2>1, <2>2, <2>3, TypeParts DEF RestOK, MaxAnn, MaxTests, Threads
<1>9. QED
  BY <1>2, <1>3, <1>4, <1>5, <1>6, <1>7, <1>8, TypeParts

-----------------------------------------------------------------------------
(* What is drawn.                                                          *)

\* DrawnAsFinalized and AppendsBehind while the tester is drawing.
Behind ==
  /\ x["tester"].len >= Len(pre["tester"]) /\ Len(pre["tester"]) >= own["tester"]
  /\ annotations.arr = x["tester"].arr => annotations.len >= own["tester"]
  /\ \A k \in 1 .. Len(pre["tester"]) :
       k <= own["tester"] \/ annotations.len <= own["tester"] =>
         arrays[x["tester"].arr].elems[k] = pre["tester"][k]

LEMMA BehindDrawn == (DrawnAsFinalized /\ AppendsBehind) <=> (Drawing => Behind)
  BY Zenon DEF DrawnAsFinalized, AppendsBehind, Behind

LEMMA BehindDrawnNext == (DrawnAsFinalized' /\ AppendsBehind') <=> (Drawing' => Behind')
  BY BehindDrawn, PTL

\* The types that Behind depends on.
LEMMA BehindTypes ==
  ASSUME SlicesOK, RestOK
  PROVE  /\ "tester" \in Threads /\ x["tester"] \in Slice /\ Within(arrays, x["tester"])
         /\ x["tester"].arr \in DOMAIN arrays /\ x["tester"].len \in Nat
         /\ arrays[x["tester"].arr].elems \in Seq(Elem)
         /\ Len(arrays[x["tester"].arr].elems) \in Nat
         /\ x["tester"].len <= Len(arrays[x["tester"].arr].elems)
         /\ pre["tester"] \in Seq(Elem) /\ Len(pre["tester"]) \in Nat
         /\ own["tester"] \in Nat
         /\ annotations.arr \in DOMAIN arrays /\ annotations.len \in Nat
         /\ Len(arrays) \in Nat /\ DOMAIN arrays = 1 .. Len(arrays)
<1>1. "tester" \in Threads /\ x["tester"] \in Slice /\ Within(arrays, x["tester"])
  BY DEF SlicesOK, Threads
<1>2. pre["tester"] \in Seq(Elem) /\ Len(pre["tester"]) \in Nat /\ own["tester"] \in Nat
  BY <1>1, LenProperties DEF RestOK
<1>3. arrays \in Arrays /\ annotations \in Slice /\ Within(arrays, annotations)
  BY DEF SlicesOK
<1>4. QED
  BY <1>1, <1>2, <1>3, ArrayTypes, SliceTypes

\* Appending to an.annotations does not touch what it held when finalize() was
\* called, and what finalize() appended only if it is in the way.
LEMMA BehindAnnotate ==
  ASSUME SlicesOK, RestOK, Behind, Extended(arrays, annotations, arrays', annotations'),
         UNCHANGED <<x, pre, own>>
  PROVE  Behind'
<1> DEFINE p == pre["tester"]
           o == own["tester"]
           s == x["tester"].arr
<1>1. /\ s \in DOMAIN arrays /\ s \in 1 .. Len(arrays) /\ Len(arrays) \in Nat
      /\ Len(p) \in Nat /\ annotations.len \in Nat /\ o \in Nat /\ o <= Len(p)
      /\ Len(p) <= Len(arrays[s].elems) /\ Len(arrays[s].elems) \in Nat
  <2>1. /\ s \in DOMAIN arrays /\ Len(arrays) \in Nat /\ DOMAIN arrays = 1 .. Len(arrays)
        /\ Len(p) \in Nat /\ annotations.len \in Nat /\ Len(arrays[s].elems) \in Nat
        /\ x["tester"].len \in Nat /\ x["tester"].len <= Len(arrays[s].elems)
        /\ o \in Nat
    BY BehindTypes
  <2>2. x["tester"].len >= Len(p) /\ Len(p) >= o
    BY DEF Behind
  <2> HIDE DEF s, p, o
  <2>3. QED
    BY <2>1, <2>2
<1>2. annotations'.arr = s => annotations'.len >= o
  BY <1>1 DEF Extended, Behind
<1>3. annotations'.len = annotations.len + 1
  BY DEF Extended
<1>4. ASSUME NEW k \in 1 .. Len(p), k <= o \/ annotations'.len <= o
      PROVE  arrays'[s].elems[k] = p[k]
  <2>1. s = annotations.arr => annotations.len >= o
    BY DEF Behind
  <2> HIDE DEF o
  <2>2. /\ k \in 1 .. Len(arrays[s].elems) /\ ~(s = annotations.arr /\ k = annotations.len + 1)
        /\ k <= o \/ annotations.len <= o
    BY <1>1, <1>3, <1>4, <2>1
  <2>3. arrays'[s].elems[k] = arrays[s].elems[k]
    BY <1>1, <2>2 DEF Extended
  <2>4. QED
    BY <2>2, <2>3 DEF Behind, o
<1>5. QED
  BY <1>2, <1>4 DEF Behind

\* finalize() hands out what was annotated and what is going on.
LEMMA BehindFinalize ==
  ASSUME TypeOK, TypeOK', finalize("tester")
  PROVE  Behind'
<1> DEFINE s == x'["tester"]
           c == Contents(arrays', s)
<1>1. SlicesOK /\ RestOK /\ "tester" \in Threads /\ SlicesOK'
  BY TypeParts DEF Threads
<1>2. /\ c \in Seq(Elem) /\ Len(c) = s.len
      /\ \A k \in 1 .. s.len : c[k] = arrays'[s.arr].elems[k]
  BY <1>1, ContentsFacts DEF SlicesOK
<1>3. pre'["tester"] = c /\ own'["tester"] = annotations.len /\ annotations' = annotations
  BY <1>1, FinalizeFacts DEF finalize, RestOK
<1>4. annotations.len \in Nat /\ s.len \in Nat
  BY <1>1, BehindTypes, SliceTypes DEF SlicesOK
<1>5. s.len >= annotations.len
  <2>1. s.len = annotations.len + 1 \/ s.len = annotations.len
    BY <1>1, FinalizeFacts DEF Extended
  <2>2. QED
    BY <1>4, <2>1
<1> HIDE DEF c, s
<1>6. QED
  BY <1>2, <1>3, <1>4, <1>5 DEF Behind, s

\* The interval for the end comes behind what was handed out.
LEMMA BehindAppendEnd ==
  ASSUME TypeOK, Behind, AppendEnd("tester")
  PROVE  Behind'
<1> DEFINE p == pre["tester"]
           o == own["tester"]
           s == x["tester"]
           new == x'["tester"]
<1>1. SlicesOK /\ RestOK /\ "tester" \in Threads
  BY TypeParts DEF Threads
<1>2. /\ s.arr \in DOMAIN arrays /\ Len(arrays) \in Nat /\ DOMAIN arrays = 1 .. Len(arrays)
      /\ Len(p) \in Nat /\ annotations.len \in Nat /\ annotations.arr \in DOMAIN arrays
      /\ s.len \in Nat /\ o \in Nat
  BY <1>1, BehindTypes
<1>3. pre' = pre /\ own' = own /\ annotations' = annotations
  BY DEF AppendEnd
<1>4. Extended(arrays, s, arrays', new)
  BY <1>1, AppendEndFacts
<1>5. new.len = s.len + 1 /\ (new.arr = s.arr \/ new.arr = Len(arrays) + 1)
  BY <1>4 DEF Extended
<1>6. /\ new.len >= Len(p) /\ Len(p) >= o
      /\ annotations.arr = new.arr => annotations.len >= o
  BY <1>2, <1>5 DEF Behind
<1>7. ASSUME NEW k \in 1 .. Len(p), k <= o \/ annotations.len <= o
      PROVE  arrays'[new.arr].elems[k] = p[k]
  <2>1. k \in 1 .. s.len
    BY <1>2 DEF Behind
  <2>2. arrays'[new.arr].elems[k] = arrays[s.arr].elems[k]
    BY <1>4, <2>1 DEF Extended
  <2>3. QED
    BY <1>7, <2>2 DEF Behind
<1>8. QED
  BY <1>3, <1>6, <1>7 DEF Behind

\* The tester draws on only by the steps above: an interrupt is never over, and
\* every other step of the tester leaves or enters another state.
LEMMA DrawnStep ==
  ASSUME TypeOK, TypeOK', OnceInterrupted, Drawing => Behind, Next
  PROVE  Drawing' => Behind'
<1> SUFFICES ASSUME Drawing' PROVE Behind'
  OBVIOUS
<1>1. SlicesOK /\ RestOK /\ "tester" \in Threads /\ "signal" \in Threads
  BY TypeParts DEF Threads
<1>2. pc'["signal"] = "running" /\ pc'["tester"] \in {"append", "open", "write"}
  BY DEF Drawing, Uninterrupted
<1>3. ASSUME NEW kind \in {"point", "interval"}, Appends(kind), UNCHANGED <<pc, x, pre, own>>
      PROVE  Behind'
  <2>1. Behind
    BY <1>2, <1>3 DEF Drawing, Uninterrupted
  <2>2. QED
    BY <1>1, <1>3, <2>1, AppendsFacts, BehindAnnotate
<1>4. ASSUME NEW kind \in {"point", "interval"}, annotate(kind) PROVE Behind'
  BY <1>3, <1>4 DEF annotate, threadVars
<1>5. CASE annotateContinuousEnd
  BY <1>3, <1>5 DEF annotateContinuousEnd, threadVars
<1>6. CASE annotateContinuous
  BY <1>6, <1>2 DEF annotateContinuous, threadVars, Drawing, Behind, Uninterrupted
<1>7. ASSUME NEW t \in Threads, Thread(t) PROVE Behind'
  <2>1. pc'[t] \notin {"running"} \/ (Visualize(t) /\ t = "tester")
    BY <1>1, <1>7 DEF Thread, finalize, AppendEnd, OpenFile, Visualize, cleanup, clear, RestOK,
      OnceInterrupted, Threads
  <2>2. t = "tester"
    BY <1>2, <2>1 DEF Threads
  <2>3. CASE finalize(t)
    BY <2>2, <2>3, BehindFinalize
  <2>4. CASE AppendEnd(t)
    <3>1. pc["signal"] = "running" /\ pc["tester"] = "append"
      BY <1>1, <1>2, <2>2, <2>4 DEF AppendEnd, RestOK
    <3>2. Behind
      BY <3>1 DEF Drawing, Uninterrupted
    <3>3. QED
      BY <2>2, <2>4, <3>2, BehindAppendEnd
  <2>5. ASSUME Visualize(t) \/ cleanup(t) \/ clear(t) PROVE FALSE
    BY <1>1, <1>2, <2>2, <2>5 DEF Visualize, cleanup, clear, RestOK
  <2>6. CASE OpenFile(t)
    <3>1. pc["signal"] = "running" /\ pc["tester"] = "open"
      BY <1>1, <1>2, <2>2, <2>6 DEF OpenFile, RestOK
    <3>2. Behind
      BY <3>1 DEF Drawing, Uninterrupted
    <3>3. UNCHANGED <<arrays, annotations, x, pre, own>>
      BY <2>6 DEF OpenFile, anVars
    <3>4. QED
      BY <3>2, <3>3 DEF Behind
  <2>7. QED
    BY <1>7, <2>3, <2>4, <2>5, <2>6 DEF Thread
<1>8. ASSUME NEW b \in BOOLEAN, checkPorcupine(b) \/ TestEnds(b) PROVE Behind'
  BY <1>1, <1>2, <1>8 DEF checkPorcupine, TestEnds, RestOK
<1>9. CASE SetAnnotationFinalized \/ AnnotateTest
  BY <1>1, <1>2, <1>9 DEF SetAnnotationFinalized, AnnotateTest, RestOK
<1>10. CASE Interrupt
  BY <1>1, <1>2, <1>10 DEF Interrupt, RestOK
<1>11. QED
  BY <1>4, <1>5, <1>6, <1>7, <1>8, <1>9, <1>10 DEF Next

-----------------------------------------------------------------------------
(* The theorems.                                                           *)

IInv == TypeOK /\ FlagInv /\ DrawnAsFinalized /\ AppendsBehind

LEMMA IInvInit == Init => IInv
<1> SUFFICES ASSUME Init PROVE IInv
  OBVIOUS
<1> DEFINE e == [cap |-> 1, elems |-> <<Info>>]
<1>1. <<Info>> \in Seq(Elem) /\ Len(<<Info>>) = 1 /\ <<>> \in Seq(Elem)
  BY EmptySeq DEF Info, Elem
<1>2. e \in Array /\ e.cap = 1 /\ Len(e.elems) = 1
  BY <1>1 DEF Array
<1>3. arrays = <<e>> /\ annotations = [arr |-> 1, len |-> 1]
      /\ x = [t \in Threads |-> NoSlice]
  BY DEF Init
<1> HIDE DEF e
<1>4. arrays \in Arrays /\ DOMAIN arrays = {1} /\ arrays[1] = e
  BY <1>2, <1>3 DEF Arrays
<1>5. SlicesOK
  <2>1. annotations \in Slice /\ annotations.arr = 1 /\ annotations.len = 1
    BY <1>3 DEF Slice
  <2>2. NoSlice \in Slice /\ NoSlice.arr = 1 /\ NoSlice.len = 0
    BY DEF NoSlice, Slice
  <2>3. Fits(arrays)
    <3>1. Len(e.elems) <= e.cap
      BY <1>2
    <3>2. \A i \in DOMAIN arrays : arrays[i] = e
      BY <1>4, Zenon
    <3>3. QED
      BY <3>1, <3>2, Zenon DEF Fits
  <2>4. Within(arrays, annotations) /\ Within(arrays, NoSlice)
    <3>1. 1 <= Len(e.elems) /\ 0 <= Len(e.elems)
      BY <1>2
    <3>2. 1 \in DOMAIN arrays
      BY <1>4, Zenon
    <3>3. QED
      BY <1>4, <2>1, <2>2, <3>1, <3>2, Zenon DEF Within
  <2>5. QED
    BY <1>3, <1>4, <2>1, <2>2, <2>3, <2>4 DEF SlicesOK
<1>6. RestOK
  <2>1. bound \in [ann : Nat, spare : Nat, tests : Nat \ {0}]
    BY VisFileAssumption DEF Init
  <2>2. 0 \in 0 .. MaxAnn /\ 1 \in 1 .. MaxTests /\ 0 \in 0 .. MaxChecks
    BY <2>1, VisFileAssumption DEF MaxAnn, MaxTests
  <2>3. file \in [test : 0 .. test, anns : Seq(Elem),
                 kind : FileKind]
    <3>0. test = 1
      BY DEF Init
    <3>1. 0 \in 0 .. test
      BY <3>0
    <3>2. file = [test |-> 0, kind |-> "none", anns |-> <<>>]
      BY DEF Init
    <3>3. QED
      BY <1>1, <3>1, <3>2 DEF FileKind
  <2>4. QED
    BY <1>1, <2>2, <2>3 DEF Init, RestOK
<1>7. FlagInv
  <2>1. /\ pc["tester"] = "running" /\ job["signal"] = "cleanup" /\ annotations.len = 1
        /\ ~failed /\ ~finalized /\ file.kind = "none"
    BY DEF Init, Threads
  <2>2. QED
    BY <2>1 DEF FlagInv, OnceInterrupted, HasInfo, FlagTells, HistoryFinal,
      EndedTestDrawn, HoldsHistory
<1>8. DrawnAsFinalized /\ AppendsBehind
  BY DEF Init, DrawnAsFinalized, AppendsBehind, Drawing, Threads
<1>9. QED
  BY <1>5, <1>6, <1>7, <1>8, TypeParts DEF IInv

LEMMA IInvStep == IInv /\ [Next]_vars => IInv'
<1> SUFFICES ASSUME IInv, [Next]_vars PROVE IInv'
  OBVIOUS
<1>1. CASE UNCHANGED vars
  <2>1. UNCHANGED <<bound, vis, canOpen, arrays, annotations, going, finalized, used>>
        /\ UNCHANGED <<pc, job, x, pre, own, test, failed, checks, marked, file>>
    BY <1>1 DEF vars, envVars, anVars, threadVars, testVars
  <2>2. SlicesOK' /\ RestOK'
    BY <2>1, TypeParts DEF IInv, SlicesOK, RestOK, Fits, Within, MaxAnn, MaxTests
  <2>3. FlagInv'
    BY <2>1 DEF IInv, FlagInv, OnceInterrupted, HasInfo, FlagTells, HistoryFinal,
      EndedTestDrawn, Uninterrupted, MayDraw, MustDraw, Drawn, HoldsHistory
  <2>4. DrawnAsFinalized' /\ AppendsBehind'
    BY <2>1 DEF IInv, DrawnAsFinalized, AppendsBehind, Drawing, Uninterrupted
  <2>5. QED
    BY <2>2, <2>3, <2>4, TypeParts DEF IInv
<1>2. CASE Next
  <2>1. TypeOK /\ FlagInv /\ DrawnAsFinalized /\ AppendsBehind
    BY DEF IInv
  <2>2. TypeOK' /\ FlagInv'
    <3>0. bound' = bound
      BY <1>2 DEF Next
    <3>1. ASSUME NEW kind \in {"point", "interval"}, annotate(kind) PROVE TypeOK' /\ FlagInv'
      BY <2>1, <3>0, <3>1, TypeAnnotate, FlagsAnnotate
    <3>2. CASE annotateContinuousEnd
      BY <2>1, <3>0, <3>2, TypeAnnotate, FlagsContinuousEnd
    <3>3. CASE annotateContinuous \/ SetAnnotationFinalized \/ Interrupt
      BY <2>1, <3>0, <3>3, TypeTester, FlagsTester
    <3>4. ASSUME NEW t \in Threads, Thread(t) PROVE TypeOK' /\ FlagInv'
      <4>1. CASE finalize(t)
        BY <2>1, <3>0, <4>1, TypeFinalize, FlagsFinalize
      <4>2. CASE AppendEnd(t)
        BY <2>1, <3>0, <4>2, TypeAppendEnd, FlagsAppendEnd
      <4>3. CASE Visualize(t)
        BY <2>1, <3>0, <4>3, TypeVisualize, FlagsVisualize
      <4>4. CASE cleanup(t)
        BY <2>1, <3>0, <4>4, TypeTester, FlagsCleanup
      <4>5. CASE clear(t)
        BY <2>1, <3>0, <4>5, TypeClear, FlagsClear
      <4>6. CASE OpenFile(t)
        BY <2>1, <3>0, <4>6, TypeOpenFile, FlagsOpenFile
      <4>7. QED
        BY <3>4, <4>1, <4>2, <4>3, <4>4, <4>5, <4>6 DEF Thread
    <3>5. ASSUME NEW b \in BOOLEAN, checkPorcupine(b) PROVE TypeOK' /\ FlagInv'
      BY <2>1, <3>0, <3>5, TypeTester, FlagsCheck
    <3>6. ASSUME NEW b \in BOOLEAN, TestEnds(b) PROVE TypeOK' /\ FlagInv'
      BY <2>1, <3>0, <3>6, TypeTester, FlagsTester
    <3>7. CASE AnnotateTest
      BY <2>1, <3>0, <3>7, TypeClear, FlagsAnnotateTest
    <3>8. QED
      BY <1>2, <3>1, <3>2, <3>3, <3>4, <3>5, <3>6, <3>7 DEF Next
  <2>3. SlicesOK /\ RestOK /\ SlicesOK' /\ RestOK'
    BY <2>1, <2>2, TypeParts
  <2>4. Drawing => Behind
    BY <2>1, BehindDrawn
  <2>5. Drawing' => Behind'
    BY <1>2, <2>1, <2>2, <2>4, DrawnStep DEF FlagInv
  <2>6. DrawnAsFinalized' /\ AppendsBehind'
    BY <2>5, BehindDrawnNext
  <2>7. QED
    BY <2>2, <2>6 DEF IInv
<1>3. QED
  BY <1>1, <1>2

LEMMA IInvHolds == Spec => []IInv
<1>1. QED
  BY IInvInit, IInvStep, PTL DEF Spec

\* What had been annotated when finalize() was called is drawn as it was, although
\* annotators and the tester itself go on appending to its array; and a continuous
\* annotation that finalize() appended is lost only to a later annotation.
THEOREM VisInvHolds == Spec => []VisInv
<1>1. IInv => VisInv
  BY DEF IInv, VisInv, FlagInv
<1>2. QED
  BY <1>1, IInvHolds, PTL

\* A test that must be shown is in the file when it has ended.
THEOREM EndedTestDrawnHolds == Spec => []EndedTestDrawn
<1>1. IInv => EndedTestDrawn
  BY DEF IInv, FlagInv
<1>2. QED
  BY <1>1, IInvHolds, PTL

\* cleanup() does not overwrite the history that checkPorcupine() has drawn.
THEOREM HistoryKeptHolds == Spec => HistoryKept
<1>1. IInv /\ [Next]_vars => [Uninterrupted => NotOverridden]_vars
  <2> SUFFICES ASSUME IInv, Next, Uninterrupted, HoldsHistory,
                      file'.kind \in {"blank", "annotations"}, file'.test = test
               PROVE  FALSE
    BY DEF NotOverridden
  <2>1. file.kind = "history" /\ pc["signal"] = "running"
    BY DEF HoldsHistory, Uninterrupted
  <2>2. PICK t \in Threads : \/ Visualize(t) /\ job[t] # "check"
                             \/ OpenFile(t)
    BY <2>1 DEF Next, Thread, annotate, annotateContinuous, annotateContinuousEnd, finalize,
      AppendEnd, OpenFile, Visualize, cleanup, clear, checkPorcupine, TestEnds, SetAnnotationFinalized,
      AnnotateTest, Interrupt, testVars
  <2>3. t = "tester" /\ pc["tester"] \in {"open", "write"}
    BY <2>1, <2>2 DEF OpenFile, Visualize, Threads
  <2>4. QED
    BY <2>2, <2>3 DEF IInv, FlagInv, HistoryFinal, OpenFile
<1>2. QED
  BY <1>1, IInvHolds, PTL DEF Spec, HistoryKept

=============================================================================
