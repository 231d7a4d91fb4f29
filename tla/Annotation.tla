----------------------------- MODULE Annotation -----------------------------
(***************************************************************************)
(* The annotations of a test: src/src/tester1/annotation.go.               *)
(*                                                                         *)
(* The tester notes on a time line which servers are cut off or crashed    *)
(* and what its checks found; the code under test and goroutines left over *)
(* from an earlier test note what they like.  Every operation takes an.mu  *)
(* once and reads the clock once, so that one operation is one step.       *)
(* Colours and details are left out, and so is the file that is drawn at   *)
(* the end (module VisFile).                                               *)
(***************************************************************************)
EXTENDS Naturals, Sequences

CONSTANTS
  Servers,    \* ids of the servers
  Delta,      \* 1000 in the code: the gap after a continuous annotation
  Gaps,       \* the times that may pass between two operations
  MaxTime     \* bound on the clock

ASSUME AnnotationAssumption ==
  /\ Servers # {} /\ Delta \in Nat \ {0} /\ Gaps \subseteq Nat \ {0}
  /\ MaxTime \in Nat \ {0}

VARIABLES
  now,          \* timestamp()
  annotations,  \* the sequence of annotations; end = 0 marks a point
  continuous,   \* continuous[tag], the zero Continuous if there is none
  connected, crashed,  \* finfo: sets of servers
  ckbegin,      \* finfo.ckbegin.ts
  two           \* the partition noted by AnnotateTwoPartitions(), or Nil

anVars == <<annotations, continuous>>
finfoVars == <<connected, crashed, ckbegin>>
vars == <<now, anVars, finfoVars, two>>

TAG_CHECKER == "Checker"
TAG_PARTITION == "Failure"
TAG_INFO == "Info"
TAG_USER == "user"
Tags == {TAG_CHECKER, TAG_PARTITION, TAG_INFO, TAG_USER}

\* What a description tells.  That of a fault: which servers are connected,
\* cut off and crashed; that of two partitions: who is in each.
Nil == <<"empty", {}, {}, {}>>
Text == <<"text", {}, {}, {}>>
FaultText(conn, crash) ==
  <<"fault", conn \ crash, Servers \ (conn \cup crash), crash>>
TwoPartitions == {<<"two", p, Servers \ p, {}>> : p \in SUBSET Servers}
Texts == {FaultText(c, d) : c, d \in SUBSET Servers} \cup TwoPartitions
           \cup {Text, Nil}
NoContinuous == [start |-> 0, desp |-> Nil]

Entries ==
  [tag : Tags, start : 0..MaxTime + Delta, end : 0..MaxTime, desp : Texts]

TypeOK ==
  /\ now \in 1..MaxTime
  /\ annotations \in Seq(Entries)
  /\ continuous \in [Tags -> [start : 0..MaxTime + Delta, desp : Texts]]
  /\ connected \subseteq Servers /\ crashed \subseteq Servers
  /\ ckbegin \in 0..MaxTime
  /\ two \in TwoPartitions \cup {Nil}

\* After the AnnotateTest() of the first test.
Init ==
  /\ now = 1
  /\ annotations = <<[tag |-> TAG_INFO, start |-> 1, end |-> 0, desp |-> Text]>>
  /\ continuous = [tag \in Tags |-> NoContinuous]
  /\ connected = Servers /\ crashed = {} /\ ckbegin = 0 /\ two = Nil

timestamp ==
  \E gap \in Gaps : now + gap <= MaxTime /\ now' = now + gap

-----------------------------------------------------------------------------
(* The methods of Annotation.                                              *)

annotatePointColor(tag, desp) ==
  /\ annotations' = Append(annotations,
       [tag |-> tag, start |-> now', end |-> 0, desp |-> desp])
  /\ UNCHANGED continuous

annotateIntervalColor(tag, start, desp) ==
  /\ annotations' = Append(annotations,
       [tag |-> tag, start |-> start, end |-> now', desp |-> desp])
  /\ UNCHANGED continuous

\* The annotation that continuous[tag] becomes when it ends.
Concretized(tag) ==
  [tag |-> tag, start |-> continuous[tag].start, end |-> now',
   desp |-> continuous[tag].desp]

\* Mutant of annotateContinuousColor: the gap is added to the end of the old
\* annotation.
ContinuousLateEnd(tag, desp) ==
  /\ annotations' = IF continuous[tag] = NoContinuous THEN annotations
       ELSE Append(annotations, [Concretized(tag) EXCEPT !.end = @ + Delta])
  /\ continuous' = [continuous EXCEPT ![tag] = [start |-> now', desp |-> desp]]

\* Mutant of annotateContinuousColor: the annotation going on is overwritten.
ContinuousOverwrites(tag, desp) ==
  /\ continuous' = [continuous EXCEPT ![tag] = [start |-> now', desp |-> desp]]
  /\ UNCHANGED annotations

\* A second annotation of a tag ends the first and starts Delta later.
annotateContinuousColor(tag, desp) ==
  IF continuous[tag] = NoContinuous
  THEN /\ continuous' = [continuous EXCEPT ![tag] = [start |-> now', desp |-> desp]]
       /\ UNCHANGED annotations
  ELSE /\ annotations' = Append(annotations, Concretized(tag))
       /\ continuous' = [continuous EXCEPT ![tag] =
                           [start |-> now' + Delta, desp |-> desp]]

\* With nothing to end it appends the zero Continuous all the same.
annotateContinuousEnd(tag) ==
  /\ annotations' = Append(annotations, Concretized(tag))
  /\ continuous' = [continuous EXCEPT ![tag] = NoContinuous]

-----------------------------------------------------------------------------
(* Operations of the code under test, and of goroutines left over.         *)

Annotate ==
  timestamp /\ annotatePointColor(TAG_USER, Text) /\ UNCHANGED <<finfoVars, two>>
AnnotateContinuous ==
  timestamp /\ annotateContinuousColor(TAG_USER, Text) /\ UNCHANGED <<finfoVars, two>>
AnnotateContinuousEnd ==
  /\ timestamp /\ continuous[TAG_USER] # NoContinuous
  /\ annotateContinuousEnd(TAG_USER) /\ UNCHANGED <<finfoVars, two>>

-----------------------------------------------------------------------------
(* Operations of the tester.                                               *)

\* mkFrameworkInfo(), clear() and AnnotateInfo().
AnnotateTest ==
  /\ timestamp
  /\ connected' = Servers /\ crashed' = {} /\ ckbegin' = 0 /\ two' = Nil
  /\ annotations' = <<[tag |-> TAG_INFO, start |-> now', end |-> 0, desp |-> Text]>>
  /\ continuous' = [tag \in Tags |-> NoContinuous]

AnnotateCheckerBegin ==
  timestamp /\ ckbegin' = now' /\ UNCHANGED <<anVars, connected, crashed, two>>

\* Resets a copy of ckbegin, not ckbegin itself.
AnnotateCheckerEnd ==
  /\ timestamp
  /\ IF ckbegin = 0 THEN annotatePointColor(TAG_CHECKER, Text)
     ELSE annotateIntervalColor(TAG_CHECKER, ckbegin, Text)
  /\ UNCHANGED <<finfoVars, two>>

\* Of the servers as the operation leaves them.
annotateFault(conn, crash) ==
  IF conn = Servers /\ crash = {}
  THEN annotateContinuousEnd(TAG_PARTITION)
  ELSE annotateContinuousColor(TAG_PARTITION, FaultText(conn, crash))

\* GetConnected() is precise, and this is called, only when no Partition() is
\* in force; so for the two operations that follow.
AnnotateConnection(conn) ==
  /\ two = Nil
  /\ IF conn = connected THEN UNCHANGED <<now, connected, anVars>>
     ELSE timestamp /\ connected' = conn /\ annotateFault(conn, crashed)
  /\ UNCHANGED <<crashed, ckbegin, two>>

\* Crashing or restarting a set of servers: crash is the set left crashed.
NoteCrashed(crash) ==
  /\ two = Nil
  /\ IF crash = crashed THEN UNCHANGED <<now, crashed, anVars>>
     ELSE timestamp /\ crashed' = crash /\ annotateFault(connected, crash)
  /\ UNCHANGED <<connected, ckbegin, two>>

AnnotateShutdown(ids) == NoteCrashed(crashed \cup ids)

AnnotateRestart(ids) == NoteCrashed(crashed \ ids)

\* Not to be used with failed servers, nor with AnnotateConnection().
AnnotateTwoPartitions(part) ==
  /\ connected = Servers /\ crashed = {} /\ timestamp
  /\ annotateContinuousColor(TAG_PARTITION, part)
  /\ two' = part
  /\ UNCHANGED finfoVars

\* Mutant of AnnotateClearFailure: the crashed servers stay crashed.
ClearConnected ==
  /\ timestamp
  /\ connected' = Servers /\ two' = Nil
  /\ annotateContinuousEnd(TAG_PARTITION)
  /\ UNCHANGED <<crashed, ckbegin>>

AnnotateClearFailure ==
  /\ timestamp
  /\ connected' = Servers /\ crashed' = {} /\ two' = Nil
  /\ annotateContinuousEnd(TAG_PARTITION)
  /\ UNCHANGED ckbegin

Tester ==
  \/ AnnotateTest \/ AnnotateCheckerBegin \/ AnnotateCheckerEnd
  \/ \E S \in SUBSET Servers :
       AnnotateConnection(S) \/ AnnotateShutdown(S) \/ AnnotateRestart(S)
  \/ \E part \in TwoPartitions : AnnotateTwoPartitions(part)
  \/ AnnotateClearFailure

User == Annotate \/ AnnotateContinuous \/ AnnotateContinuousEnd

Next == Tester \/ User

Spec == Init /\ [][Next]_vars

-----------------------------------------------------------------------------
(* Properties.                                                             *)

\* The time line shows a fault exactly while there is one, and the one there
\* is: the early returns of AnnotateConnection(), AnnotateShutdown() and
\* AnnotateRestart() skip no change, and what AnnotateClearFailure() resets
\* agrees with the annotation that it ends.
FaultShown ==
  continuous[TAG_PARTITION].desp =
    IF two # Nil THEN two
    ELSE IF connected = Servers /\ crashed = {} THEN Nil
    ELSE FaultText(connected, crashed)

Faults == {i \in DOMAIN annotations :
             annotations[i].tag = TAG_PARTITION /\ annotations[i].desp # Nil}

\* The faults on the time line are in order and none touches the next, the
\* one still going on included (annotateContinuousColor(): "Porcupine seems to
\* overlap the two events").
FaultsApart ==
  /\ \A i, j \in Faults : i < j => annotations[i].end < annotations[j].start
  /\ \A i \in Faults : continuous[TAG_PARTITION].desp # Nil
       => annotations[i].end < continuous[TAG_PARTITION].start

\* No fault on the time line ends in the future, where the next may begin.
FaultsPast == \A i \in Faults : annotations[i].end <= now

\* The types of the annotations' state, FaultsApart, and what it takes to be kept.
AnnotationInv == TypeOK /\ FaultsApart /\ FaultsPast

\* A fault that was shown is still on the time line afterwards, with the time
\* at which it began, until the next test clears all.
FaultKept ==
  [][LET cont == continuous[TAG_PARTITION] IN
     cont.desp # Nil /\ continuous'[TAG_PARTITION] # cont /\ ~AnnotateTest
       => \E i \in DOMAIN annotations' :
            /\ annotations'[i].tag = TAG_PARTITION
            /\ annotations'[i].desp = cont.desp
            /\ annotations'[i].start = cont.start
            /\ annotations'[i].end = now']_vars

-----------------------------------------------------------------------------
(* What comments of the code say and the code does not do: none of these   *)
(* holds, and no run checks them.  README.md tells how each is violated.   *)

\* annotation.go:490, when there is no annotation going on: "Nothing to end".
NothingToEnd ==
  \A i \in DOMAIN annotations : annotations[i].desp # Nil

\* annotation.go:175, "Reset the checker begin timestamp": a later check that
\* did not begin is a point in time (:166), never an interval that begins with
\* a check that has ended.
CheckerReset ==
  \A i, j \in DOMAIN annotations :
    /\ i < j
    /\ annotations[i].tag = TAG_CHECKER /\ annotations[i].end # 0
    /\ annotations[j].tag = TAG_CHECKER /\ annotations[j].end # 0
    => annotations[i].end < annotations[j].start
=============================================================================
