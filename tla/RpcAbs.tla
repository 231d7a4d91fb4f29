------------------------------- MODULE RpcAbs -------------------------------
(***************************************************************************)
(* What labrpc promises the user of ClientEnd.Call(), and nothing about    *)
(* how the network does it.  A call's handler runs at most once, whenever  *)
(* it likes (a false return does not mean that it has not run, or that it  *)
(* will not run later), and Call() returns true only after it has run.     *)
(***************************************************************************)
CONSTANT Calls     \* the Call() invocations of a behaviour

VARIABLES
  status,          \* status[c]: what the caller knows about call c
  executed         \* the calls whose handler has taken effect

vars == <<status, executed>>

Status == {"idle", "open", "ok", "failed"}

TypeOK ==
  /\ status \in [Calls -> Status]
  /\ executed \subseteq Calls

Init ==
  /\ status = [c \in Calls |-> "idle"]
  /\ executed = {}

Invoke(c) ==
  /\ status[c] = "idle"
  /\ status' = [status EXCEPT ![c] = "open"]
  /\ UNCHANGED executed

\* The effect may also come after the caller was told "failed".
Execute(c) ==
  /\ status[c] # "idle"
  /\ c \notin executed
  /\ executed' = executed \cup {c}
  /\ UNCHANGED status

ReturnTrue(c) ==
  /\ status[c] = "open"
  /\ c \in executed
  /\ status' = [status EXCEPT ![c] = "ok"]
  /\ UNCHANGED executed

ReturnFalse(c) ==
  /\ status[c] = "open"
  /\ status' = [status EXCEPT ![c] = "failed"]
  /\ UNCHANGED executed

Next ==
  \E c \in Calls :
    Invoke(c) \/ Execute(c) \/ ReturnTrue(c) \/ ReturnFalse(c)

Spec == Init /\ [][Next]_vars
=============================================================================
