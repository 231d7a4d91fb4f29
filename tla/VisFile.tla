------------------------------ MODULE VisFile ------------------------------
(***************************************************************************)
(* The file that shows a test: finalize(), clear() and cleanup() of        *)
(* src/src/tester1/annotation.go and checkPorcupine() of                   *)
(* src/src/kvtest1/porcupine.go.                                           *)
(*                                                                         *)
(* The tester draws the annotations when it checks a history and when a    *)
(* test ends, and so does the goroutine that an interrupt wakes up, while  *)
(* servers and the code under test go on annotating.  finalize() hands out *)
(* a slice that shares its array with an.annotations, so slices are        *)
(* modelled with their arrays.  There is one file, as if VIS_FILE is set.  *)
(***************************************************************************)
EXTENDS Naturals, Sequences

CONSTANTS
  Bounds,     \* combinations of the three bounds below
  MaxChecks   \* bound on the checks of each test

\* The bounds: on the annotations made while the tests run, on the room that an
\* array has to spare after append() allocated it, and on the tests.
ASSUME VisFileAssumption ==
  /\ Bounds \subseteq [ann : Nat, spare : Nat, tests : Nat \ {0}]
  /\ MaxChecks \in Nat

VARIABLES
  bound,           \* the bounds of this behaviour
  vis, canOpen,    \* VIS_ENABLE; whether opening the file succeeds
  arrays,          \* the arrays allocated, each with its capacity
  annotations,     \* the slice an.annotations
  going,           \* whether a continuous annotation is going on
  finalized, used,
  pc, job,         \* pc[t], job[t]: what thread t does
  x,               \* x[t]: its slice
  pre, own,        \* history: pre[t] is all that finalize() handed out to t, of
                   \* which the first own[t] were in an.annotations
  test, failed,    \* number of the test, t.Failed()
  checks,          \* how often the test called checkPorcupine()
  marked,          \* the test called SetAnnotationFinalized()
  file             \* what the file holds

envVars == <<vis, canOpen>>
anVars == <<arrays, annotations, going, finalized>>
threadVars == <<pc, job, x, pre, own>>
testVars == <<test, failed, checks, marked>>
vars == <<bound, envVars, anVars, used, threadVars, testVars, file>>

MaxAnn == bound.ann
MaxSpare == bound.spare
MaxTests == bound.tests

Threads == {"tester", "signal"}
Info == <<"point", 0>>        \* made by AnnotateTest()
End == <<"interval", 0>>      \* aend
NoSlice == [arr |-> 1, len |-> 0]

Contents(arrs, slice) == SubSeq(arrs[slice.arr].elems, 1, slice.len)

\* The elements of an array after a was stored as the n-th.
Written(elems, n, a) ==
  IF n <= Len(elems) THEN [elems EXCEPT ![n] = a] ELSE Append(elems, a)

\* append(): the arrays and the slice that it may leave.
append(arrs, slice, a) ==
  LET n == slice.len + 1
      old == arrs[slice.arr] IN
  IF n <= old.cap
  THEN {<<[arrs EXCEPT ![slice.arr].elems = Written(old.elems, n, a)],
          [slice EXCEPT !.len = n]>>}
  ELSE {<<Append(arrs, [cap |-> n + spare, elems |-> Append(Contents(arrs, slice), a)]),
          [arr |-> Len(arrs) + 1, len |-> n]>> : spare \in 0..MaxSpare}

Elem == {"point", "interval"} \X Nat
Array == [cap : Nat, elems : Seq(Elem)]
Arrays == Seq(Array)
Slice == [arr : Nat, len : Nat]
FileKind == {"none", "empty", "blank", "history", "annotations"}
Within(arrs, slice) == slice.arr \in DOMAIN arrs /\ slice.len <= Len(arrs[slice.arr].elems)

TypeOK ==
  /\ bound \in Bounds
  /\ vis \in {"never", "", "always"} /\ canOpen \in BOOLEAN
  /\ arrays \in Arrays
  /\ \A i \in DOMAIN arrays : Len(arrays[i].elems) <= arrays[i].cap
  /\ annotations \in Slice /\ Within(arrays, annotations)
  /\ x \in [Threads -> Slice] /\ \A t \in Threads : Within(arrays, x[t])
  /\ pre \in [Threads -> Seq(Elem)] /\ own \in [Threads -> Nat]
  /\ going \in BOOLEAN /\ finalized \in BOOLEAN /\ used \in 0..MaxAnn
  /\ pc \in [Threads -> {"running", "marked", "finalize", "append", "open", "write",
                         "cleanup", "clear", "ended"}]
  /\ job \in [Threads -> {"check", "cleanup"}]
  /\ test \in 1..MaxTests /\ failed \in BOOLEAN /\ marked \in BOOLEAN
  /\ checks \in 0..MaxChecks
  /\ file \in [test : 0..test, anns : Seq(Elem), kind : FileKind]

\* After the AnnotateTest() of the first test.
Init ==
  /\ bound \in Bounds
  /\ vis \in {"never", "", "always"} /\ canOpen \in BOOLEAN
  /\ arrays = <<[cap |-> 1, elems |-> <<Info>>]>>
  /\ annotations = [arr |-> 1, len |-> 1]
  /\ going = FALSE /\ finalized = FALSE /\ used = 0
  /\ pc = [t \in Threads |-> "running"]
  /\ job = [t \in Threads |-> "cleanup"]
  /\ x = [t \in Threads |-> NoSlice]
  /\ pre = [t \in Threads |-> <<>>] /\ own = [t \in Threads |-> 0]
  /\ test = 1 /\ failed = FALSE /\ marked = FALSE /\ checks = 0
  /\ file = [test |-> 0, kind |-> "none", anns |-> <<>>]

-----------------------------------------------------------------------------
(* Annotating, under an.mu.                                                *)

Appends(kind) ==
  /\ used < MaxAnn /\ used' = used + 1
  /\ \E r \in append(arrays, annotations, <<kind, used'>>) :
       arrays' = r[1] /\ annotations' = r[2]

annotate(kind) ==
  /\ Appends(kind)
  /\ UNCHANGED <<envVars, going, finalized, threadVars, testVars, file>>

annotateContinuous ==
  /\ ~going /\ going' = TRUE
  /\ UNCHANGED <<envVars, arrays, annotations, finalized, used>>
  /\ UNCHANGED <<threadVars, testVars, file>>

annotateContinuousEnd ==
  /\ going /\ Appends("interval") /\ going' = FALSE
  /\ UNCHANGED <<envVars, finalized, threadVars, testVars, file>>

-----------------------------------------------------------------------------
(* Drawing the annotations.                                                *)

\* Mutant of finalize: does not note that the annotations are final.
FinalizeForgets(t) ==
  /\ pc[t] = "finalize"
  /\ x' = [x EXCEPT ![t] = annotations]
  /\ pre' = [pre EXCEPT ![t] = Contents(arrays, annotations)]
  /\ own' = [own EXCEPT ![t] = annotations.len]
  /\ pc' = [pc EXCEPT ![t] = "append"]
  /\ UNCHANGED <<envVars, anVars, used, job, testVars, file>>

\* Mutant of finalize: also clears the accumulated annotations, in place.
FinalizeTruncates(t) ==
  /\ pc[t] = "finalize"
  /\ x' = [x EXCEPT ![t] = annotations]
  /\ pre' = [pre EXCEPT ![t] = Contents(arrays, annotations)]
  /\ own' = [own EXCEPT ![t] = annotations.len]
  /\ annotations' = [annotations EXCEPT !.len = 0] /\ finalized' = TRUE
  /\ pc' = [pc EXCEPT ![t] = "append"]
  /\ UNCHANGED <<envVars, arrays, going, used, job, testVars, file>>

\* The continuous annotation that is going on is appended to the slice, and an
\* array with room to spare is an.annotations' own.  cleanup() skips a test
\* without annotations.
finalize(t) ==
  /\ pc[t] = "finalize"
  /\ \E r \in IF going THEN append(arrays, annotations, <<"interval", used>>)
              ELSE {<<arrays, annotations>>} :
       /\ arrays' = r[1] /\ x' = [x EXCEPT ![t] = r[2]]
       /\ pre' = [pre EXCEPT ![t] = Contents(r[1], r[2])]
  /\ own' = [own EXCEPT ![t] = annotations.len]
  /\ finalized' = TRUE
  /\ pc' = [pc EXCEPT ![t] =
       IF job[t] = "cleanup" /\ x'[t].len = 0 THEN "ended" ELSE "append"]
  /\ UNCHANGED <<envVars, annotations, going, used, job, testVars, file>>

\* The interval added at the end, without a lock.
AppendEnd(t) ==
  /\ pc[t] = "append"
  /\ \E r \in append(arrays, x[t], End) :
       arrays' = r[1] /\ x' = [x EXCEPT ![t] = r[2]]
  /\ pc' = [pc EXCEPT ![t] = IF job[t] = "cleanup" THEN "open" ELSE "write"]
  /\ UNCHANGED <<envVars, annotations, going, finalized, used, job, pre, own>>
  /\ UNCHANGED <<testVars, file>>

\* cleanup() opens the file, and so empties it; checkPorcupine() has opened it
\* before.
OpenFile(t) ==
  /\ pc[t] = "open"
  /\ file' = IF canOpen THEN [test |-> test, kind |-> "blank", anns |-> <<>>] ELSE file
  /\ pc' = [pc EXCEPT ![t] = IF canOpen THEN "write" ELSE "ended"]
  /\ UNCHANGED <<envVars, anVars, used, job, x, pre, own, testVars>>

Visualize(t) ==
  /\ pc[t] = "write"
  /\ file' = [test |-> test, anns |-> Contents(arrays, x[t]),
              kind |-> IF job[t] = "check" THEN "history" ELSE "annotations"]
  /\ pc' = [pc EXCEPT ![t] = IF job[t] = "cleanup" THEN "ended"
                             ELSE IF failed THEN "cleanup" ELSE "running"]
  /\ x' = [x EXCEPT ![t] = NoSlice] /\ pre' = [pre EXCEPT ![t] = <<>>]
  /\ own' = [own EXCEPT ![t] = 0]
  /\ UNCHANGED <<envVars, anVars, used, job, testVars>>

-----------------------------------------------------------------------------
(* The tester.                                                             *)

\* The generic test of kvraft1 calls it before it checks the last history.
SetAnnotationFinalized ==
  /\ pc["tester"] = "running" /\ ~marked /\ checks < MaxChecks
  /\ marked' = TRUE /\ finalized' = TRUE
  /\ pc' = [pc EXCEPT !["tester"] = "marked"]
  /\ UNCHANGED <<envVars, arrays, annotations, going, used, job, x, pre, own>>
  /\ UNCHANGED <<test, failed, checks, file>>

\* The file is opened, and so emptied, whatever VIS_ENABLE says, if the history
\* is not linearizable; t.Fatal() then runs the deferred Cleanup().
checkPorcupine(illegal) ==
  LET opens == canOpen /\ (illegal \/ (vis = "always" /\ finalized))
      draws == opens /\ vis # "never" IN
  /\ pc["tester"] = "marked" \/ (pc["tester"] = "running" /\ ~marked)
  /\ checks < MaxChecks /\ checks' = checks + 1
  /\ file' = IF opens THEN [test |-> test, kind |-> "empty", anns |-> <<>>] ELSE file
  /\ failed' = illegal
  /\ job' = [job EXCEPT !["tester"] = IF draws THEN "check" ELSE @]
  /\ pc' = [pc EXCEPT !["tester"] =
       IF draws THEN "finalize" ELSE IF illegal THEN "cleanup" ELSE "running"]
  /\ UNCHANGED <<envVars, anVars, used, x, pre, own, test, marked>>

\* The test ends, or another of its checks fails.
TestEnds(fails) ==
  /\ pc["tester"] = "running"
  /\ failed' = fails
  /\ pc' = [pc EXCEPT !["tester"] = "cleanup"]
  /\ UNCHANGED <<envVars, anVars, used, job, x, pre, own, test, checks, marked, file>>

\* captureSignal(): cleanup(true), then os.Exit().
Interrupt ==
  /\ pc["signal"] = "running"
  /\ pc' = [pc EXCEPT !["signal"] = "cleanup"]
  /\ UNCHANGED <<envVars, anVars, used, job, x, pre, own, testVars, file>>

\* Mutant of cleanup: nothing is drawn unless VIS_ENABLE is "always".
CleanupAlwaysOnly(t) ==
  /\ pc[t] = "cleanup"
  /\ job' = [job EXCEPT ![t] = "cleanup"]
  /\ pc' = [pc EXCEPT ![t] = IF vis # "always" \/ finalized THEN "clear" ELSE "finalize"]
  /\ UNCHANGED <<envVars, anVars, used, x, pre, own, testVars, file>>

\* Up to the test isFinalized(); the lock is released before what follows.
cleanup(t) ==
  LET fails == t = "signal" \/ failed IN
  /\ pc[t] = "cleanup"
  /\ job' = [job EXCEPT ![t] = "cleanup"]
  /\ pc' = [pc EXCEPT ![t] =
       IF vis = "never" \/ (~fails /\ vis # "always") \/ finalized
       THEN "clear" ELSE "finalize"]
  /\ UNCHANGED <<envVars, anVars, used, x, pre, own, testVars, file>>

\* The method clear(), and what is annotated right after it.
Cleared(first) ==
  /\ arrays' = Append(arrays, [cap |-> Len(first), elems |-> first])
  /\ annotations' = [arr |-> Len(arrays) + 1, len |-> Len(first)]
  /\ going' = FALSE /\ finalized' = FALSE

clear(t) ==
  /\ pc[t] = "clear"
  /\ Cleared(<<>>)
  /\ pc' = [pc EXCEPT ![t] = "ended"]
  /\ UNCHANGED <<envVars, used, job, x, pre, own, testVars, file>>

AnnotateTest ==
  /\ pc["tester"] = "ended" /\ test < MaxTests
  /\ Cleared(<<Info>>)
  /\ test' = test + 1 /\ failed' = FALSE /\ marked' = FALSE /\ checks' = 0
  /\ pc' = [pc EXCEPT !["tester"] = "running"]
  /\ UNCHANGED <<envVars, used, job, x, pre, own, file>>

Thread(t) ==
  \/ finalize(t) \/ AppendEnd(t) \/ OpenFile(t) \/ Visualize(t)
  \/ cleanup(t) \/ clear(t)

\* os.Exit() ends everything.
Next ==
  /\ pc["signal"] # "ended" /\ UNCHANGED bound
  /\ \/ \E kind \in {"point", "interval"} : annotate(kind)
     \/ annotateContinuous \/ annotateContinuousEnd
     \/ \E t \in Threads : Thread(t)
     \/ \E b \in BOOLEAN : checkPorcupine(b) \/ TestEnds(b)
     \/ SetAnnotationFinalized \/ AnnotateTest \/ Interrupt

Spec == Init /\ [][Next]_vars

-----------------------------------------------------------------------------
(* Properties.                                                             *)

Uninterrupted == pc["signal"] = "running"

Drawing == Uninterrupted /\ pc["tester"] \in {"append", "open", "write"}

\* What finalize() hands out shares its array with an.annotations, which others go
\* on appending to.  What had been annotated before is drawn as it was, whoever
\* annotates meanwhile; the continuous annotation that finalize() appended is lost
\* only to an annotation made after it, which takes its place.  (With two threads
\* that draw, the End of one may overwrite what the other has finalized.)
DrawnAsFinalized ==
  Drawing => \A k \in 1 .. Len(pre["tester"]) :
    k <= own["tester"] \/ annotations.len <= own["tester"] =>
      arrays[x["tester"].arr].elems[k] = pre["tester"][k]

Drawn == file.test = test /\ file.kind \in {"history", "annotations"}
HoldsHistory == file.kind = "history" /\ file.test = test
MayDraw == canOpen /\ (vis = "always" \/ (vis # "never" /\ ~marked))
MustDraw == MayDraw /\ (vis = "always" \/ failed)

\* The goroutine of captureSignal() only cleans up, so an interrupt is never over.
OnceInterrupted == job["signal"] = "cleanup"

\* The tester appends to the slice that finalize() handed out behind all of it,
\* annotators behind what had been annotated.
AppendsBehind ==
  Drawing =>
    /\ x["tester"].len >= Len(pre["tester"]) /\ Len(pre["tester"]) >= own["tester"]
    /\ annotations.arr = x["tester"].arr => annotations.len >= own["tester"]

\* A test has its Info to draw, until clear().
HasInfo == Uninterrupted /\ pc["tester"] # "ended" => annotations.len > 0

\* What the flag finalized says about the file in each state of the tester.
FlagTells ==
  Uninterrupted =>
    /\ pc["tester"] = "marked" => marked
    /\ pc["tester"] \in {"running", "marked"} => ~failed
    /\ pc["tester"] \in {"marked", "append", "open", "write"} => finalized
    /\ pc["tester"] = "write"
         \/ (pc["tester"] \in {"finalize", "append"} /\ job["tester"] = "check")
       => canOpen
    /\ pc["tester"] \in {"running", "cleanup"} /\ finalized /\ MayDraw => Drawn
    /\ pc["tester"] = "clear" /\ MustDraw => Drawn

\* Once there is a history, cleanup() does not get to drawing.
HistoryFinal ==
  Uninterrupted /\ HoldsHistory =>
    /\ pc["tester"] \in {"running", "marked", "cleanup"} => finalized
    /\ pc["tester"] \in {"finalize", "append", "open", "write"} =>
         job["tester"] = "check" /\ pc["tester"] # "open"

\* The slices lie within their arrays, DrawnAsFinalized, and the inductive invariant
\* that it and the properties below follow from.
VisInv ==
  /\ TypeOK /\ DrawnAsFinalized
  /\ OnceInterrupted /\ AppendsBehind /\ HasInfo /\ FlagTells /\ HistoryFinal

\* porcupine.go:183: the file with the operations of the clients, drawn by
\* checkPorcupine(), "won't be overridden by that without client operations"
\* that cleanup() opens and draws.
NotOverridden ==
  HoldsHistory => ~(file'.kind \in {"blank", "annotations"} /\ file'.test = test)
HistoryKept == [][Uninterrupted => NotOverridden]_vars

\* A test that ends is shown if VIS_ENABLE is "always", and if it failed unless
\* VIS_ENABLE is "never": by one of checkPorcupine() and cleanup().  For tests
\* that call SetAnnotationFinalized() it holds with "always" only.
EndedTestDrawn ==
  Uninterrupted /\ pc["tester"] = "ended" /\ MustDraw => Drawn

-----------------------------------------------------------------------------
(* What comments of the code say and the code does not do: none of these   *)
(* holds, and no run checks them.  README.md tells how each is violated.   *)

\* FinalizeAnnotations() returns what is going on, too, to be drawn.
AllDrawnAsFinalized ==
  Drawing => \A k \in 1 .. Len(pre["tester"]) :
    arrays[x["tester"].arr].elems[k] = pre["tester"][k]

\* porcupine.go:183 again, with an interrupt.
HistoryNeverOverridden == [][NotOverridden]_vars

\* annotation.go:510-514: nothing is drawn for a failed test only if VIS_ENABLE
\* is "never", or "because CheckPorcupine has already produced a vis file".
FailedTestDrawn ==
  Uninterrupted /\ pc["tester"] = "ended" /\ canOpen /\ failed /\ vis # "never" => Drawn

\* annotation.go:77 and :525: "Make the last annotation an interval one".
LastIsInterval ==
  file.kind \in {"history", "annotations"}
    => file.anns[Len(file.anns)][1] = "interval"

\* porcupine.go:102: "Don't produce visualization file if VIS_ENABLE is set to
\* "never"".
NeverNoFile == vis = "never" => file.kind = "none"
=============================================================================
