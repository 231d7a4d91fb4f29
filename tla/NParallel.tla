----------------------------- MODULE NParallel -----------------------------
(***************************************************************************)
(* nparallel() of src/src/mrapps/mtiming.go (and of rtiming.go): worker    *)
(* processes find out how many of them run at the same time by leaving     *)
(* files in a directory that each of them scans.                           *)
(*                                                                         *)
(* A worker stands for a process: it has one pid, may run nparallel()      *)
(* again and again, and may be killed, leaving its file.  The pid of a     *)
(* killed process is not used again.  The scan is not atomic: a name is    *)
(* there if the file exists when the scan gets to it.                      *)
(***************************************************************************)
EXTENDS Naturals, FiniteSets

CONSTANTS Workers, MaxRuns

ASSUME NParallelAssumption == MaxRuns \in Nat

VARIABLES
  files,   \* the workers whose file is in the directory
  pc,
  read,    \* read[w]: the names the scan of w has got to
  names,   \* names[w]: those among them that it found
  left,    \* left[w]: names whose process w has still to look for
  ret,     \* ret[w]: the processes counted
  met,     \* met[w]: history, who ran nparallel() together with w
  runs     \* runs[w]: how often w has run nparallel()

vars == <<files, pc, read, names, left, ret, met, runs>>

PCs == {"idle", "scan", "kill", "sleep", "dead"}

TypeOK ==
  /\ files \in SUBSET Workers
  /\ pc \in [Workers -> PCs]
  /\ read \in [Workers -> SUBSET Workers] /\ names \in [Workers -> SUBSET Workers]
  /\ left \in [Workers -> SUBSET Workers] /\ ret \in [Workers -> SUBSET Workers]
  /\ met \in [Workers -> SUBSET Workers]
  /\ runs \in [Workers -> 0..MaxRuns]

Init ==
  /\ files = {}
  /\ pc = [w \in Workers |-> "idle"]
  /\ read = [w \in Workers |-> {}] /\ names = [w \in Workers |-> {}]
  /\ left = [w \in Workers |-> {}] /\ ret = [w \in Workers |-> {}]
  /\ met = [w \in Workers |-> {}]
  /\ runs = [w \in Workers |-> 0]

Inside(w) == pc[w] \in {"scan", "kill", "sleep"}
Alive(w) == pc[w] # "dead"

-----------------------------------------------------------------------------

\* The file is created, then the scan begins.
WriteFile(w) ==
  /\ pc[w] = "idle" /\ runs[w] < MaxRuns
  /\ files' = files \cup {w}
  /\ pc' = [pc EXCEPT ![w] = "scan"]
  /\ read' = [read EXCEPT ![w] = {}] /\ names' = [names EXCEPT ![w] = {}]
  /\ ret' = [ret EXCEPT ![w] = {}]
  /\ met' = [x \in Workers |->
       IF x = w THEN {y \in Workers : Inside(y)}
       ELSE IF Inside(x) THEN met[x] \cup {w} ELSE met[x]]
  /\ runs' = [runs EXCEPT ![w] = @ + 1]
  /\ UNCHANGED left

ReadName(w, x) ==
  /\ pc[w] = "scan" /\ x \notin read[w]
  /\ read' = [read EXCEPT ![w] = @ \cup {x}]
  /\ names' = [names EXCEPT ![w] = IF x \in files THEN @ \cup {x} ELSE @]
  /\ UNCHANGED <<files, pc, left, ret, met, runs>>

\* Mutant of ScanEnds: the worker removes its file before it sleeps.
ScanEndsRemoves(w) ==
  /\ pc[w] = "scan" /\ read[w] = Workers
  /\ pc' = [pc EXCEPT ![w] = "kill"]
  /\ left' = [left EXCEPT ![w] = names[w]]
  /\ files' = files \ {w}
  /\ UNCHANGED <<read, names, ret, met, runs>>

ScanEnds(w) ==
  /\ pc[w] = "scan" /\ read[w] = Workers
  /\ pc' = [pc EXCEPT ![w] = "kill"]
  /\ left' = [left EXCEPT ![w] = names[w]]
  /\ UNCHANGED <<files, read, names, ret, met, runs>>

\* Mutant of Counts: a file counts, whether its process is alive or not.
CountsFile(x) == TRUE

\* syscall.Kill(xpid, 0) succeeds if there is such a process.
Counts(x) == Alive(x)

Kill0(w, x) ==
  /\ pc[w] = "kill" /\ x \in left[w]
  /\ left' = [left EXCEPT ![w] = @ \ {x}]
  /\ ret' = [ret EXCEPT ![w] = IF Counts(x) THEN @ \cup {x} ELSE @]
  /\ UNCHANGED <<files, pc, read, names, met, runs>>

Sleep(w) ==
  /\ pc[w] = "kill" /\ left[w] = {}
  /\ pc' = [pc EXCEPT ![w] = "sleep"]
  /\ UNCHANGED <<files, read, names, left, ret, met, runs>>

Remove(w) ==
  /\ pc[w] = "sleep"
  /\ files' = files \ {w}
  /\ pc' = [pc EXCEPT ![w] = "idle"]
  /\ UNCHANGED <<read, names, left, ret, met, runs>>

\* A process ends or is killed; if it was inside, its file stays.
Crash(w) ==
  /\ Alive(w)
  /\ pc' = [pc EXCEPT ![w] = "dead"]
  /\ UNCHANGED <<files, read, names, left, ret, met, runs>>

Worker(w) ==
  \/ WriteFile(w) \/ ScanEnds(w) \/ Sleep(w) \/ Remove(w) \/ Crash(w)
  \/ \E x \in Workers : ReadName(w, x) \/ Kill0(w, x)

Next == \E w \in Workers : Worker(w)

Spec == Init /\ [][Next]_vars

-----------------------------------------------------------------------------
(* Properties.                                                             *)

\* Two workers that sleep in nparallel() at the same time have not overlooked
\* each other: at least one has counted the other.  The test asks for one
\* count of 2 (main/test-mr.sh:165).
ParallelNoticed ==
  \A w, x \in Workers : pc[w] = "sleep" /\ pc[x] = "sleep" /\ w # x
    => x \in ret[w] \/ w \in ret[x]

\* A worker counts itself and processes that really were in nparallel()
\* together with it, never one that was killed before and left its file.
CountedRan ==
  \A w \in Workers :
    /\ Inside(w) => ret[w] \subseteq met[w] \cup {w}
    /\ pc[w] = "sleep" => w \in ret[w]

-----------------------------------------------------------------------------
(* The inductive invariant behind them.                                    *)

\* The file of every worker that is inside is there, and any other file was
\* left by a process that was killed.
FilesRight ==
  /\ \A w \in Workers : Inside(w) => w \in files
  /\ \A w \in files : Inside(w) \/ pc[w] = "dead"

\* Of two workers inside, the one that got to the other's name last found it.
FoundOne ==
  \A w, x \in Workers : Inside(w) /\ Inside(x) /\ x \in read[w] /\ w \in read[x]
    => x \in names[w] \/ w \in names[x]

\* What was read, found, is still to be looked for and was counted.
ScanRight ==
  \A w \in Workers :
    /\ Inside(w) => names[w] \subseteq read[w]
    /\ Inside(w) /\ w \in read[w] => w \in names[w]
    /\ pc[w] \in {"kill", "sleep"} => read[w] = Workers
    /\ pc[w] = "scan" => ret[w] = {}
    /\ pc[w] = "kill" =>
         /\ ret[w] \subseteq names[w] /\ left[w] \subseteq names[w]
         /\ \A x \in names[w] : Alive(x) => x \in ret[w] \cup left[w]
    /\ pc[w] = "sleep" =>
         /\ ret[w] \subseteq names[w]
         /\ \A x \in names[w] : Alive(x) => x \in ret[w]

\* Every name found whose process is alive is that of a worker met.
MetRight ==
  \A w, x \in Workers : Inside(w) /\ w # x =>
    /\ x \in names[w] /\ Alive(x) => x \in met[w]
    /\ x \in ret[w] => x \in met[w]
    /\ Inside(x) => x \in met[w]

NInv == TypeOK /\ FilesRight /\ FoundOne /\ ScanRight /\ MetRight
=============================================================================
