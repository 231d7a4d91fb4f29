-------------------------- MODULE Annotation_proofs --------------------------
(* That the time line of a test shows the faults there were, for any set of *)
(* servers, any gap and any times between the operations.                   *)
EXTENDS Annotation, TLAPS

USE DEF anVars, finfoVars
USE DEF TAG_CHECKER, TAG_PARTITION, TAG_INFO, TAG_USER

\* The inductive invariant.
Inv == AnnotationInv /\ FaultShown

LEMMA Constants ==
  /\ Delta \in Nat \ {0} /\ MaxTime \in Nat \ {0}
  /\ \A gap \in Gaps : gap \in Nat \ {0}
BY AnnotationAssumption

LEMMA StartBounds ==
  ASSUME NEW t \in 1 .. MaxTime
  PROVE  t \in 0 .. MaxTime + Delta /\ t + Delta \in 0 .. MaxTime + Delta
<1>1. t \in Nat /\ t <= MaxTime /\ Delta \in Nat /\ MaxTime \in Nat
  BY Constants
<1>2. QED
  BY <1>1

LEMMA GapPositive ==
  ASSUME NEW t \in Nat, NEW x \in Nat, x <= t
  PROVE  x < t + Delta
<1>1. Delta \in Nat /\ Delta >= 1
  BY Constants
<1>2. QED
  BY <1>1

LEMMA TextTypes ==
  /\ Nil \in Texts /\ Text \in Texts
  /\ \A c, d \in SUBSET Servers : FaultText(c, d) \in Texts /\ FaultText(c, d) # Nil
  /\ \A part \in TwoPartitions : part \in Texts /\ part # Nil
<1>1. Nil \in Texts /\ Text \in Texts
  BY DEF Texts
<1>2. \A c, d \in SUBSET Servers : FaultText(c, d) \in Texts
  BY DEF Texts
<1>3. \A c, d \in SUBSET Servers : FaultText(c, d) # Nil
  BY DEF FaultText, Nil
<1>4. \A part \in TwoPartitions : part \in Texts
  BY DEF Texts
<1>5. \A part \in TwoPartitions : part # Nil
  BY DEF TwoPartitions, Nil
<1>6. QED
  BY <1>1, <1>2, <1>3, <1>4, <1>5

\* Time goes on.
LEMMA ClockRuns ==
  ASSUME TypeOK, timestamp
  PROVE  now' \in 1 .. MaxTime /\ now < now' /\ now \in Nat
BY Constants DEF TypeOK, timestamp

LEMMA InitHolds == Init => Inv
<1> SUFFICES ASSUME Init
             PROVE  Inv
  OBVIOUS
<1> DEFINE e == [tag |-> TAG_INFO, start |-> 1, end |-> 0, desp |-> Text]
<1>1. e \in Entries
  BY TextTypes, Constants DEF Entries, Tags
<1>2. annotations = <<e>> /\ annotations \in Seq(Entries)
  BY <1>1 DEF Init
<1>3. TypeOK
  BY <1>2, TextTypes, Constants DEF Init, TypeOK, NoContinuous
<1>4. Faults = {}
  BY <1>2 DEF Faults
<1>5. FaultShown
  BY DEF Init, FaultShown, NoContinuous, Tags
<1>6. QED
  BY <1>3, <1>4, <1>5 DEF Inv, AnnotationInv, FaultsApart, FaultsPast

-----------------------------------------------------------------------------
(* The methods of Annotation.                                              *)

\* What is appended to the time line.
LEMMA Appended ==
  ASSUME TypeOK, NEW e \in Entries, annotations' = Append(annotations, e)
  PROVE  /\ annotations' \in Seq(Entries)
         /\ Len(annotations) \in Nat
         /\ DOMAIN annotations = 1 .. Len(annotations)
         /\ DOMAIN annotations' = 1 .. Len(annotations) + 1
         /\ \A i \in 1 .. Len(annotations) : annotations'[i] = annotations[i]
         /\ annotations'[Len(annotations) + 1] = e
BY DEF TypeOK

LEMMA FaultEnds ==
  ASSUME AnnotationInv
  PROVE  \A i \in Faults : annotations[i].end \in Nat /\ annotations[i].end <= now
<1> SUFFICES ASSUME NEW i \in Faults
             PROVE  annotations[i].end \in Nat /\ annotations[i].end <= now
  OBVIOUS
<1>1. annotations[i] \in Entries
  BY DEF Faults, AnnotationInv, TypeOK
<1>2. annotations[i].end \in Nat
  BY <1>1 DEF Entries
<1>3. QED
  BY <1>2 DEF AnnotationInv, FaultsPast

\* An entry that is no fault changes nothing about the faults.
LEMMA OtherEntry ==
  ASSUME AnnotationInv, now' \in Nat, now <= now', NEW e \in Entries,
         e.tag # TAG_PARTITION \/ e.desp = Nil,
         annotations' = annotations \/ annotations' = Append(annotations, e),
         \/ continuous'[TAG_PARTITION] = continuous[TAG_PARTITION]
         \/ continuous'[TAG_PARTITION].desp = Nil
  PROVE  FaultsApart' /\ FaultsPast'
<1>1. \A i \in Faults' : i \in Faults /\ annotations'[i] = annotations[i]
  <2>1. CASE annotations' = annotations
    BY <2>1 DEF Faults
  <2>2. CASE annotations' = Append(annotations, e)
    BY <2>2, Appended DEF Faults, AnnotationInv
  <2>3. QED
    BY <2>1, <2>2
<1>2. FaultsPast'
  <2>1. \A i \in Faults : annotations[i].end \in Nat /\ annotations[i].end <= now
    BY FaultEnds
  <2>2. QED
    BY <1>1, <2>1 DEF FaultsPast, AnnotationInv, TypeOK
<1>3. FaultsApart'
  BY <1>1 DEF FaultsApart, AnnotationInv
<1>4. QED
  BY <1>2, <1>3

\* The fault that ends now is after the earlier ones and before the next.
LEMMA FaultEntry ==
  ASSUME AnnotationInv, now' \in Nat, now < now',
         annotations' = Append(annotations, Concretized(TAG_PARTITION)),
         Concretized(TAG_PARTITION) \in Entries,
         \/ continuous'[TAG_PARTITION].desp = Nil
         \/ continuous'[TAG_PARTITION].start = now' + Delta
  PROVE  FaultsApart' /\ FaultsPast'
<1> DEFINE n == Len(annotations) + 1
           e == Concretized(TAG_PARTITION)
<1>1. /\ Len(annotations) \in Nat
      /\ DOMAIN annotations = 1 .. Len(annotations)
      /\ DOMAIN annotations' = 1 .. n
      /\ \A i \in 1 .. Len(annotations) : annotations'[i] = annotations[i]
      /\ annotations'[n] = e
  BY Appended DEF AnnotationInv
<1>2. /\ e.tag = TAG_PARTITION /\ e.end = now'
      /\ e.start = continuous[TAG_PARTITION].start
      /\ e.desp = continuous[TAG_PARTITION].desp
  BY DEF Concretized
<1>3. \A i \in Faults' : \/ i \in Faults /\ i < n /\ annotations'[i] = annotations[i]
                         \/ i = n /\ e.desp # Nil
  BY <1>1 DEF Faults
<1>4. \A i \in Faults : annotations[i].end \in Nat /\ annotations[i].end <= now
  BY FaultEnds
<1>5. \A i \in Faults' : annotations'[i].end \in Nat /\ annotations'[i].end <= now'
  <2> SUFFICES ASSUME NEW i \in Faults'
               PROVE  annotations'[i].end \in Nat /\ annotations'[i].end <= now'
    OBVIOUS
  <2>1. CASE i = n
    BY <1>1, <1>2, <2>1
  <2>2. CASE i # n
    <3>1. /\ annotations'[i].end = annotations[i].end
          /\ annotations[i].end \in Nat /\ annotations[i].end <= now
      BY <1>3, <1>4, <2>2
    <3>2. now \in Nat
      BY DEF AnnotationInv, TypeOK
    <3>3. \A x \in Nat : x <= now => x <= now'
      BY <3>2
    <3>4. QED
      BY <3>1, <3>3
  <2>3. QED
    BY <2>1, <2>2
<1>6. \A i \in Faults' : continuous'[TAG_PARTITION].desp # Nil =>
        annotations'[i].end < continuous'[TAG_PARTITION].start
  <2> SUFFICES ASSUME NEW i \in Faults', continuous'[TAG_PARTITION].desp # Nil
               PROVE  annotations'[i].end < continuous'[TAG_PARTITION].start
    OBVIOUS
  <2>1. annotations'[i].end \in Nat /\ annotations'[i].end <= now'
    BY <1>5
  <2>2. continuous'[TAG_PARTITION].start = now' + Delta /\ Delta \in Nat \ {0}
    BY Constants
  <2>3. annotations'[i].end < now' + Delta
    BY <2>1, GapPositive
  <2>4. QED
    BY <2>2, <2>3
<1>7. ASSUME NEW i \in Faults', NEW j \in Faults', i < j
      PROVE  annotations'[i].end < annotations'[j].start
  <2>1. i \in Faults /\ annotations'[i] = annotations[i]
    BY <1>1, <1>3, <1>7 DEF Faults
  <2>2. CASE j = n
    BY <1>1, <1>2, <1>3, <2>1, <2>2 DEF AnnotationInv, FaultsApart
  <2>3. CASE j # n
    BY <1>3, <1>7, <2>1, <2>3 DEF AnnotationInv, FaultsApart
  <2>4. QED
    BY <2>2, <2>3
<1>8. QED
  BY <1>5, <1>6, <1>7 DEF FaultsApart, FaultsPast

\* The entry that a continuous annotation leaves is well-formed.
LEMMA ConcretizedType ==
  ASSUME TypeOK, now' \in 1 .. MaxTime, NEW tag \in Tags
  PROVE  Concretized(tag) \in Entries
BY Constants DEF TypeOK, Concretized, Entries

\* annotateContinuousEnd() of the faults.
LEMMA EndEffect ==
  ASSUME AnnotationInv, timestamp, annotateContinuousEnd(TAG_PARTITION)
  PROVE  /\ annotations' \in Seq(Entries)
         /\ continuous' \in [Tags -> [start : 0..MaxTime + Delta, desp : Texts]]
         /\ continuous'[TAG_PARTITION].desp = Nil
         /\ FaultsApart' /\ FaultsPast'
<1>1. /\ now' \in 1 .. MaxTime /\ now < now'
      /\ TAG_PARTITION \in Tags /\ Concretized(TAG_PARTITION) \in Entries
  BY ClockRuns, ConcretizedType DEF AnnotationInv, Tags
<1>2. annotations' = Append(annotations, Concretized(TAG_PARTITION))
  BY DEF annotateContinuousEnd
<1>3. /\ continuous' \in [Tags -> [start : 0..MaxTime + Delta, desp : Texts]]
      /\ continuous'[TAG_PARTITION].desp = Nil
  BY <1>1, TextTypes, Constants
     DEF annotateContinuousEnd, AnnotationInv, TypeOK, NoContinuous
<1>4. QED
  BY <1>1, <1>2, <1>3, Appended, FaultEntry DEF AnnotationInv

\* annotateContinuousColor() of the faults.
LEMMA ColorEffect ==
  ASSUME AnnotationInv, timestamp, NEW desp \in Texts,
         annotateContinuousColor(TAG_PARTITION, desp)
  PROVE  /\ annotations' \in Seq(Entries)
         /\ continuous' \in [Tags -> [start : 0..MaxTime + Delta, desp : Texts]]
         /\ continuous'[TAG_PARTITION].desp = desp
         /\ FaultsApart' /\ FaultsPast'
<1>1. /\ now' \in 1 .. MaxTime /\ now < now' /\ now \in Nat
      /\ TAG_PARTITION \in Tags /\ Concretized(TAG_PARTITION) \in Entries
  BY ClockRuns, ConcretizedType DEF AnnotationInv, Tags
<1>2. CASE continuous[TAG_PARTITION] = NoContinuous
  <2>1. /\ annotations' = annotations
        /\ continuous' = [continuous EXCEPT ![TAG_PARTITION] =
                            [start |-> now', desp |-> desp]]
    BY <1>2 DEF annotateContinuousColor
  <2>2. /\ continuous' \in [Tags -> [start : 0..MaxTime + Delta, desp : Texts]]
        /\ continuous'[TAG_PARTITION].desp = desp
        /\ continuous'[TAG_PARTITION].start = now'
    BY <1>1, <2>1, StartBounds DEF AnnotationInv, TypeOK
  <2>3. Faults' = Faults
    BY <2>1 DEF Faults
  <2>4. \A i \in Faults : annotations[i].end \in Nat /\ annotations[i].end < now'
    BY <1>1, FaultEnds
  <2>5. FaultsApart'
    BY <2>1, <2>2, <2>3, <2>4 DEF AnnotationInv, FaultsApart
  <2>6. FaultsPast'
    BY <1>1, <2>1, <2>3, <2>4 DEF FaultsPast
  <2>7. QED
    BY <2>1, <2>2, <2>5, <2>6 DEF AnnotationInv, TypeOK
<1>3. CASE continuous[TAG_PARTITION] # NoContinuous
  <2>1. /\ annotations' = Append(annotations, Concretized(TAG_PARTITION))
        /\ continuous' = [continuous EXCEPT ![TAG_PARTITION] =
                            [start |-> now' + Delta, desp |-> desp]]
    BY <1>3 DEF annotateContinuousColor
  <2>2. /\ continuous' \in [Tags -> [start : 0..MaxTime + Delta, desp : Texts]]
        /\ continuous'[TAG_PARTITION].desp = desp
        /\ continuous'[TAG_PARTITION].start = now' + Delta
    BY <1>1, <2>1, StartBounds DEF AnnotationInv, TypeOK
  <2>3. QED
    BY <1>1, <2>1, <2>2, Appended, FaultEntry DEF AnnotationInv
<1>4. QED
  BY <1>2, <1>3

-----------------------------------------------------------------------------
(* The operations.                                                         *)

LEMMA UserKeeps ==
  ASSUME Inv, User
  PROVE  Inv'
<1>1. timestamp /\ connected' = connected /\ crashed' = crashed
      /\ ckbegin' = ckbegin /\ two' = two
  BY DEF User, Annotate, AnnotateContinuous, AnnotateContinuousEnd
<1>2. now' \in 1 .. MaxTime /\ now < now' /\ now \in Nat
  BY <1>1, ClockRuns DEF Inv, AnnotationInv
<1> DEFINE point == [tag |-> TAG_USER, start |-> now', end |-> 0, desp |-> Text]
<1>3. /\ point \in Entries /\ point.tag # TAG_PARTITION
      /\ Concretized(TAG_USER) \in Entries /\ Concretized(TAG_USER).tag # TAG_PARTITION
  <2>1. point \in Entries
    BY <1>2, TextTypes, Constants DEF Entries, Tags
  <2>2. Concretized(TAG_USER) \in Entries
    BY <1>2, ConcretizedType DEF Inv, AnnotationInv, Tags
  <2>3. QED
    BY <2>1, <2>2 DEF Concretized
<1>4. /\ \/ annotations' = annotations
         \/ annotations' = Append(annotations, point)
         \/ annotations' = Append(annotations, Concretized(TAG_USER))
      /\ \/ continuous' = continuous
         \/ \E start \in 0 .. MaxTime + Delta, desp \in Texts :
              continuous' = [continuous EXCEPT ![TAG_USER] =
                               [start |-> start, desp |-> desp]]
  <2>1. CASE Annotate
    BY <2>1 DEF Annotate, annotatePointColor
  <2>2. CASE AnnotateContinuous
    <3>1. now' \in 0 .. MaxTime + Delta /\ now' + Delta \in 0 .. MaxTime + Delta
      BY <1>2, StartBounds
    <3>2. QED
      BY <2>2, <3>1, TextTypes DEF AnnotateContinuous, annotateContinuousColor
  <2>3. CASE AnnotateContinuousEnd
    <3>1. 0 \in 0 .. MaxTime + Delta
      BY Constants
    <3>2. QED
      BY <2>3, <3>1, TextTypes
         DEF AnnotateContinuousEnd, annotateContinuousEnd, NoContinuous
  <2>4. QED
    BY <2>1, <2>2, <2>3 DEF User
<1>5. /\ continuous' \in [Tags -> [start : 0..MaxTime + Delta, desp : Texts]]
      /\ continuous'[TAG_PARTITION] = continuous[TAG_PARTITION]
  BY <1>4 DEF Inv, AnnotationInv, TypeOK, Tags
<1>6. annotations' \in Seq(Entries)
  <2>1. annotations \in Seq(Entries)
    BY DEF Inv, AnnotationInv, TypeOK
  <2>2. QED
    BY <1>3, <1>4, <2>1, Appended DEF Inv, AnnotationInv
<1>7. TypeOK'
  BY <1>1, <1>2, <1>5, <1>6 DEF Inv, AnnotationInv, TypeOK
<1>8. FaultsApart' /\ FaultsPast'
  <2>1. now' \in Nat /\ now <= now'
    BY <1>2
  <2>2. QED
    BY <1>3, <1>4, <1>5, <2>1, OtherEntry DEF Inv
<1>9. FaultShown'
  BY <1>1, <1>5 DEF Inv, FaultShown
<1>10. QED
  BY <1>7, <1>8, <1>9 DEF Inv, AnnotationInv

LEMMA TestKeeps ==
  ASSUME Inv, AnnotateTest
  PROVE  Inv'
<1>1. timestamp
  BY DEF AnnotateTest
<1>2. now' \in 1 .. MaxTime
  BY <1>1, ClockRuns DEF Inv, AnnotationInv
<1> DEFINE e == [tag |-> TAG_INFO, start |-> now', end |-> 0, desp |-> Text]
<1>3. e \in Entries
  BY <1>2, TextTypes, Constants DEF Entries, Tags
<1>4. annotations' = <<e>> /\ annotations' \in Seq(Entries)
  BY <1>3 DEF AnnotateTest
<1>5. TypeOK'
  BY <1>2, <1>4, TextTypes, Constants DEF AnnotateTest, TypeOK, NoContinuous
<1>6. Faults' = {}
  BY <1>4 DEF Faults
<1>7. FaultShown'
  BY DEF AnnotateTest, FaultShown, NoContinuous, Tags
<1>8. QED
  BY <1>5, <1>6, <1>7 DEF Inv, AnnotationInv, FaultsApart, FaultsPast

LEMMA CheckerKeeps ==
  ASSUME Inv, AnnotateCheckerBegin \/ AnnotateCheckerEnd
  PROVE  Inv'
<1>1. /\ timestamp /\ connected' = connected /\ crashed' = crashed /\ two' = two
      /\ continuous' = continuous /\ (ckbegin' = ckbegin \/ ckbegin' = now')
  BY DEF AnnotateCheckerBegin, AnnotateCheckerEnd, annotatePointColor,
         annotateIntervalColor
<1>2. now' \in 1 .. MaxTime /\ now < now' /\ now \in Nat
  BY <1>1, ClockRuns DEF Inv, AnnotationInv
<1> DEFINE point == [tag |-> TAG_CHECKER, start |-> now', end |-> 0, desp |-> Text]
           interval == [tag |-> TAG_CHECKER, start |-> ckbegin, end |-> now',
                        desp |-> Text]
<1>3. point \in Entries /\ interval \in Entries
  BY <1>2, TextTypes, Constants DEF Entries, Tags, Inv, AnnotationInv, TypeOK
<1>4. point.tag # TAG_PARTITION /\ interval.tag # TAG_PARTITION
  OBVIOUS
<1>5. \/ annotations' = annotations
      \/ annotations' = Append(annotations, point)
      \/ annotations' = Append(annotations, interval)
  BY DEF AnnotateCheckerBegin, AnnotateCheckerEnd, annotatePointColor,
         annotateIntervalColor
<1>6. TypeOK'
  <2>1. annotations \in Seq(Entries) /\ now' \in 0 .. MaxTime
    BY <1>2 DEF Inv, AnnotationInv, TypeOK
  <2>2. annotations' \in Seq(Entries)
    BY <1>3, <1>5, <2>1, Appended DEF Inv, AnnotationInv
  <2>3. QED
    BY <1>1, <1>2, <2>1, <2>2 DEF Inv, AnnotationInv, TypeOK
<1>7. FaultsApart' /\ FaultsPast'
  <2>1. now' \in Nat /\ now <= now'
    BY <1>2
  <2>2. QED
    BY <1>1, <1>3, <1>4, <1>5, <2>1, OtherEntry DEF Inv
<1>8. FaultShown'
  BY <1>1 DEF Inv, FaultShown
<1>9. QED
  BY <1>6, <1>7, <1>8 DEF Inv, AnnotationInv

\* annotateFault(), for the servers that an operation leaves connected and crashed.
LEMMA FaultKeeps ==
  ASSUME Inv, timestamp, NEW conn \in SUBSET Servers, NEW crash \in SUBSET Servers,
         annotateFault(conn, crash), connected' = conn, crashed' = crash,
         ckbegin' = ckbegin, two = Nil, two' = two
  PROVE  Inv'
<1>1. /\ annotations' \in Seq(Entries)
      /\ continuous' \in [Tags -> [start : 0..MaxTime + Delta, desp : Texts]]
      /\ FaultsApart' /\ FaultsPast'
      /\ continuous'[TAG_PARTITION].desp =
           IF conn = Servers /\ crash = {} THEN Nil ELSE FaultText(conn, crash)
  <2>1. CASE conn = Servers /\ crash = {}
    BY <2>1, EndEffect DEF annotateFault, Inv
  <2>2. CASE ~(conn = Servers /\ crash = {})
    BY <2>2, ColorEffect, TextTypes DEF annotateFault, Inv
  <2>3. QED
    BY <2>1, <2>2
<1>2. TypeOK'
  BY <1>1, ClockRuns DEF Inv, AnnotationInv, TypeOK
<1>3. FaultShown'
  BY <1>1 DEF FaultShown
<1>4. QED
  BY <1>1, <1>2, <1>3 DEF Inv, AnnotationInv

LEMMA StutterKeeps ==
  ASSUME Inv, UNCHANGED vars
  PROVE  Inv'
BY DEF vars, Inv, AnnotationInv, TypeOK, FaultsApart, FaultsPast, Faults, FaultShown

LEMMA TesterKeeps ==
  ASSUME Inv, Tester
  PROVE  Inv'
<1>1. ASSUME NEW S \in SUBSET Servers, AnnotateConnection(S)
      PROVE  Inv'
  <2>1. CASE S = connected
    BY <1>1, <2>1, StutterKeeps DEF AnnotateConnection, vars
  <2>2. CASE S # connected
    <3>1. crashed \in SUBSET Servers
      BY DEF Inv, AnnotationInv, TypeOK
    <3>2. QED
      BY <1>1, <2>2, <3>1, FaultKeeps DEF AnnotateConnection
  <2>3. QED
    BY <2>1, <2>2
<1>2. ASSUME NEW crash \in SUBSET Servers, NoteCrashed(crash)
      PROVE  Inv'
  <2>1. CASE crash = crashed
    BY <1>2, <2>1, StutterKeeps DEF NoteCrashed, vars
  <2>2. CASE crash # crashed
    <3>1. connected \in SUBSET Servers
      BY DEF Inv, AnnotationInv, TypeOK
    <3>2. QED
      BY <1>2, <2>2, <3>1, FaultKeeps DEF NoteCrashed
  <2>3. QED
    BY <2>1, <2>2
<1>3. ASSUME NEW S \in SUBSET Servers, AnnotateShutdown(S) \/ AnnotateRestart(S)
      PROVE  Inv'
  <2>1. crashed \cup S \in SUBSET Servers /\ crashed \ S \in SUBSET Servers
    BY DEF Inv, AnnotationInv, TypeOK
  <2>2. QED
    BY <1>2, <1>3, <2>1 DEF AnnotateShutdown, AnnotateRestart
<1>4. ASSUME NEW part \in TwoPartitions, AnnotateTwoPartitions(part)
      PROVE  Inv'
  <2>1. /\ timestamp /\ annotateContinuousColor(TAG_PARTITION, part) /\ two' = part
        /\ connected' = connected /\ crashed' = crashed /\ ckbegin' = ckbegin
    BY <1>4 DEF AnnotateTwoPartitions
  <2>2. /\ annotations' \in Seq(Entries)
        /\ continuous' \in [Tags -> [start : 0..MaxTime + Delta, desp : Texts]]
        /\ continuous'[TAG_PARTITION].desp = part
        /\ FaultsApart' /\ FaultsPast'
    BY <2>1, ColorEffect, TextTypes DEF Inv
  <2>3. TypeOK'
    BY <2>1, <2>2, ClockRuns DEF Inv, AnnotationInv, TypeOK
  <2>4. FaultShown'
    BY <2>1, <2>2, TextTypes DEF FaultShown
  <2>5. QED
    BY <2>2, <2>3, <2>4 DEF Inv, AnnotationInv
<1>5. CASE AnnotateClearFailure
  <2>1. /\ timestamp /\ annotateContinuousEnd(TAG_PARTITION) /\ two' = Nil
        /\ connected' = Servers /\ crashed' = {} /\ ckbegin' = ckbegin
    BY <1>5 DEF AnnotateClearFailure
  <2>2. /\ annotations' \in Seq(Entries)
        /\ continuous' \in [Tags -> [start : 0..MaxTime + Delta, desp : Texts]]
        /\ continuous'[TAG_PARTITION].desp = Nil
        /\ FaultsApart' /\ FaultsPast'
    BY <2>1, EndEffect DEF Inv
  <2>3. TypeOK'
    BY <2>1, <2>2, ClockRuns DEF Inv, AnnotationInv, TypeOK
  <2>4. FaultShown'
    BY <2>1, <2>2 DEF FaultShown
  <2>5. QED
    BY <2>2, <2>3, <2>4 DEF Inv, AnnotationInv
<1>6. QED
  BY <1>1, <1>3, <1>4, <1>5, TestKeeps, CheckerKeeps DEF Tester

-----------------------------------------------------------------------------

LEMMA InvHolds == Spec => []Inv
<1>1. Inv /\ [Next]_vars => Inv'
  BY UserKeeps, TesterKeeps, StutterKeeps DEF Next
<1>2. QED
  BY <1>1, InitHolds, PTL DEF Spec

\* For any servers, gap and times: the faults on the time line are in order, none
\* touches the next, and the one going on begins after all of them.
THEOREM AnnotationInvHolds == Spec => []AnnotationInv
<1>1. Inv => AnnotationInv
  BY DEF Inv
<1>2. QED
  BY <1>1, InvHolds, PTL

\* For any servers: the time line shows a fault exactly while there is one, and
\* the one there is, whichever sequence of operations led to it.
THEOREM FaultShownHolds == Spec => []FaultShown
<1>1. Inv => FaultShown
  BY DEF Inv
<1>2. QED
  BY <1>1, InvHolds, PTL

\* A fault that stops being shown as going on is on the time line from then on,
\* as the interval from when it began to now, unless a new test clears all.
THEOREM FaultKeptHolds == Spec => FaultKept
<1> DEFINE cont == continuous[TAG_PARTITION]
           A == cont.desp # Nil /\ continuous'[TAG_PARTITION] # cont /\ ~AnnotateTest
                  => \E i \in DOMAIN annotations' :
                       /\ annotations'[i].tag = TAG_PARTITION
                       /\ annotations'[i].desp = cont.desp
                       /\ annotations'[i].start = cont.start
                       /\ annotations'[i].end = now'
<1>1. Inv /\ [Next]_vars => A
  <2> SUFFICES ASSUME Inv, [Next]_vars, cont.desp # Nil,
                      continuous'[TAG_PARTITION] # cont, ~AnnotateTest
               PROVE  \E i \in DOMAIN annotations' :
                        /\ annotations'[i].tag = TAG_PARTITION
                        /\ annotations'[i].desp = cont.desp
                        /\ annotations'[i].start = cont.start
                        /\ annotations'[i].end = now'
    OBVIOUS
  <2>1. cont # NoContinuous
    BY DEF NoContinuous
  <2>2. timestamp /\ annotations' = Append(annotations, Concretized(TAG_PARTITION))
    <3>1. CASE User
      BY <3>1 DEF User, Annotate, AnnotateContinuous, AnnotateContinuousEnd,
                  annotatePointColor, annotateContinuousColor, annotateContinuousEnd,
                  Inv, AnnotationInv, TypeOK, Tags
    <3>2. ASSUME NEW conn, NEW crash, annotateFault(conn, crash)
          PROVE  annotations' = Append(annotations, Concretized(TAG_PARTITION))
      BY <2>1, <3>2 DEF annotateFault, annotateContinuousEnd, annotateContinuousColor
    <3>3. CASE \E S \in SUBSET Servers :
                 AnnotateConnection(S) \/ AnnotateShutdown(S) \/ AnnotateRestart(S)
      BY <3>2, <3>3 DEF AnnotateConnection, AnnotateShutdown, AnnotateRestart,
                        NoteCrashed
    <3>4. CASE \/ \E part \in TwoPartitions : AnnotateTwoPartitions(part)
               \/ AnnotateClearFailure
      BY <2>1, <3>4 DEF AnnotateTwoPartitions, AnnotateClearFailure,
                        annotateContinuousEnd, annotateContinuousColor
    <3>5. CASE AnnotateCheckerBegin \/ AnnotateCheckerEnd \/ UNCHANGED vars
      BY <3>5 DEF AnnotateCheckerBegin, AnnotateCheckerEnd, annotatePointColor,
                  annotateIntervalColor, vars
    <3>6. QED
      BY <3>1, <3>3, <3>4, <3>5 DEF Next, Tester
  <2>3. Concretized(TAG_PARTITION) \in Entries
    BY <2>2, ClockRuns, ConcretizedType DEF Inv, AnnotationInv, Tags
  <2>4. /\ Len(annotations) + 1 \in DOMAIN annotations'
        /\ annotations'[Len(annotations) + 1] = Concretized(TAG_PARTITION)
    BY <2>2, <2>3, Appended DEF Inv, AnnotationInv
  <2>5. QED
    BY <2>4 DEF Concretized
<1>2. Inv /\ [Next]_vars => [A]_vars
  BY <1>1
<1>3. QED
  BY <1>2, InvHolds, PTL DEF Spec, FaultKept
=============================================================================
