------------------------------- MODULE KvTest -------------------------------
(***************************************************************************)
(* The harness of the key/value labs: the clients and the checks of        *)
(* src/src/kvtest1/kvtest.go, the log of operations of                     *)
(* src/src/kvtest1/porcupine.go and the model of src/src/models1/kv.go     *)
(* against which that log is checked.                                      *)
(*                                                                         *)
(* The service and its clerks are left to the reader of the labs.  Here    *)
(* they do what the comments of kvsrv1/server.go and kvsrv1/client.go ask: *)
(* a server that handles requests one by one, and a clerk that resends a   *)
(* request until it gets an answer.  A request that was given up may be    *)
(* executed later, as happens with replicated servers.  One key is used.   *)
(*                                                                         *)
(* Some tests are run against a broken service, one that loses its state:  *)
(* then a check of a client fails, and FailNow() ends the goroutine of the *)
(* client, for which the tester waits.                                     *)
(***************************************************************************)
EXTENDS Naturals, Sequences, FiniteSets

CONSTANTS
  NClnt,      \* number of clients
  Tests,      \* the tests that may be run, see below
  MaxStray    \* bound on the requests given up that may still be executed

\* A test: what its clients run, whether the network loses no message, whether
\* the Partitioner runs, whether operations are logged (the OpLog is not nil), and
\* whether the service is broken.  Its bounds: the iterations of a client, and the
\* version of the key up to which messages are lost and up to which a client of a
\* broken service tries.
ASSUME KvTestAssumption ==
  /\ NClnt \in Nat \ {0} /\ MaxStray \in Nat
  /\ \A t \in Tests :
       /\ t.work \in {"append", "put", "once"}
       /\ {t.reliable, t.partitions, t.log, t.broken} \subseteq BOOLEAN
       /\ t.maxIter \in Nat /\ t.maxPuts \in Nat

Clnt == 1..NClnt
Tester == 0
Procs == {Tester} \cup Clnt

VARIABLES
  test,       \* the test that is run
  puts,       \* the values stored so far: the version of the key is Len(puts)
  strays,     \* requests given up by their clerk but not lost
  op, reply,  \* op[p]: the operation of p's clerk; reply[p]: what it returned
  oplog,
  pc, i, ver, err, res,   \* of the clients
  tpc, signals, rs,       \* of the tester: SpawnClientsAndWait()
  part,       \* the Partitioner
  fatal       \* Fatalf() was called

clerkVars == <<puts, strays, op, reply, oplog>>
clntVars == <<pc, i, ver, err, res>>
testerVars == <<tpc, signals, rs, part>>
runVars == <<clerkVars, clntVars, testerVars, fatal>>
vars == <<test, runVars>>

Work == test.work
Reliable == test.reliable
Partitions == test.partitions
Log == test.log
Broken == test.broken
MaxIter == test.maxIter
MaxPuts == test.maxPuts

NoOp == [kind |-> "none", val |-> <<>>, ver |-> 0, first |-> TRUE, call |-> 0]
NoReply == [err |-> "none", val |-> <<>>, ver |-> 0]
NoRes == [nok |-> 0, nmaybe |-> 0]
NoVal == <<<<0, 0>>>>      \* the empty string
CurrentVal == IF puts = <<>> THEN NoVal ELSE puts[Len(puts)]

Err == {"none", "OK", "ErrNoKey", "ErrVersion", "ErrMaybe"}
Val == Seq(Procs \X Nat)
Op == [kind : {"none", "get", "put"}, val : Val, ver : Nat, first : BOOLEAN, call : Nat]
Reply == [err : Err, val : Val, ver : Nat]

TypeOK ==
  /\ test \in Tests
  /\ puts \in Seq(Val) /\ op \in [Procs -> Op] /\ reply \in [Procs -> Reply]
  /\ strays \subseteq Op /\ IsFiniteSet(strays) /\ Cardinality(strays) <= MaxStray
  /\ oplog \in Seq([in : Op, out : Reply])
  /\ pc \in [Clnt -> {"loop", "get", "put", "send", "deleted", "ended"}]
  /\ i \in [Clnt -> Nat] /\ ver \in [Procs -> Nat] /\ err \in [Clnt -> Err]
  /\ res \in [Clnt -> [nok : Nat, nmaybe : Nat]]
  /\ \A c \in Clnt : res[c].nok + res[c].nmaybe = i[c]
  /\ tpc \in {"start", "sleep", "signal", "collect", "check", "stop", "wait", "end", "failed"}
  /\ signals \in 0..NClnt /\ rs \in Seq([nok : Nat, nmaybe : Nat]) /\ Len(rs) <= NClnt
  /\ part \in {"off", "running", "done"} /\ fatal \in BOOLEAN

Init ==
  /\ test \in Tests
  /\ puts = <<>> /\ strays = {} /\ oplog = <<>>
  /\ op = [p \in Procs |-> NoOp] /\ reply = [p \in Procs |-> NoReply]
  /\ pc = [c \in Clnt |-> "loop"] /\ i = [c \in Clnt |-> 0]
  /\ ver = [p \in Procs |-> 0] /\ err = [c \in Clnt |-> "none"]
  /\ res = [c \in Clnt |-> NoRes]
  /\ tpc = "start" /\ signals = 0 /\ rs = <<>>
  /\ part = "off" /\ fatal = FALSE

-----------------------------------------------------------------------------
(* The service and the clerks.                                             *)

\* Get and Put at the server.
handler(o) ==
  CASE o.kind = "get" /\ puts # <<>> ->
         [err |-> "OK", val |-> CurrentVal, ver |-> Len(puts)]
    [] o.kind = "put" /\ o.ver = Len(puts) ->
         [err |-> "OK", val |-> <<>>, ver |-> 0]
    [] o.kind = "put" /\ puts # <<>> /\ o.ver # Len(puts) ->
         [err |-> "ErrVersion", val |-> <<>>, ver |-> 0]
    [] OTHER -> [err |-> "ErrNoKey", val |-> NoVal, ver |-> 0]

Execute(o) ==
  puts' = IF o.kind = "put" /\ handler(o).err = "OK" THEN Append(puts, o.val) ELSE puts

Pending(p) == op[p].kind # "none" /\ reply[p] = NoReply

\* A call of a clerk.
Call(p, kind, val, v) ==
  /\ op' = [op EXCEPT ![p] = [kind |-> kind, val |-> val, ver |-> v,
                              first |-> TRUE, call |-> Len(oplog)]]
  /\ reply' = [reply EXCEPT ![p] = NoReply]

CallReturns(p) ==
  /\ op' = [op EXCEPT ![p] = NoOp] /\ reply' = [reply EXCEPT ![p] = NoReply]

\* The answer arrives; the functions Get and Put of the harness log the
\* operation.  An operation follows another if it was called after the other
\* was logged.
Serve(p) ==
  LET r == handler(op[p])
      e == IF r.err = "ErrVersion" /\ ~op[p].first THEN "ErrMaybe" ELSE r.err IN
  /\ Pending(p)
  /\ Execute(op[p])
  /\ reply' = [reply EXCEPT ![p] = [r EXCEPT !.err = e]]
  /\ oplog' = IF Log THEN Append(oplog, [in |-> op[p], out |-> reply'[p]]) ELSE oplog
  /\ UNCHANGED <<strays, op, clntVars, testerVars, fatal>>

\* The request, or the answer to it, is lost or late: the clerk resends.
Resend(p) ==
  /\ ~Reliable /\ Pending(p) /\ Len(puts) < MaxPuts
  /\ op' = [op EXCEPT ![p].first = FALSE]
  /\ \/ Execute(op[p]) /\ UNCHANGED strays
     \/ /\ op[p].kind = "put" /\ Cardinality(strays \cup {op[p]}) <= MaxStray
        /\ strays' = strays \cup {op[p]} /\ UNCHANGED puts
  /\ UNCHANGED <<reply, oplog, clntVars, testerVars, fatal>>

ExecuteStray ==
  /\ \E o \in strays : Execute(o) /\ strays' = strays \ {o}
  /\ UNCHANGED <<op, reply, oplog, clntVars, testerVars, fatal>>

\* A broken service loses the key, as one that does not save its state does when it
\* restarts.
LoseKey ==
  /\ Broken /\ puts # <<>> /\ puts' = <<>>
  /\ UNCHANGED <<strays, op, reply, oplog, clntVars, testerVars, fatal>>

-----------------------------------------------------------------------------
(* The clients: runClient() with one of the functions below.               *)

Answered(p) == reply[p] # NoReply

\* Mutant of Signalling: only one client is sent a signal.
SignallingOne == tpc = "signal" /\ signals < 1

\* The tester sends on done, which is not buffered.
Signalling == tpc = "signal" /\ signals < NClnt

\* case <-done: the client returns its result, and sends it on ca[c].
Done(c) ==
  /\ pc[c] = "loop" /\ Signalling /\ Work # "once"
  /\ signals' = signals + 1
  /\ pc' = [pc EXCEPT ![c] = "send"]
  /\ UNCHANGED <<clerkVars, i, ver, err, res, tpc, rs, part, fatal>>

\* The default case: nobody is sending on done.
MayIterate(c) == pc[c] = "loop" /\ ~Signalling /\ i[c] < MaxIter

\* Mutant of EndIteration: the result is that of the last iteration only.
EndIterationResets(c, e) ==
  /\ i' = [i EXCEPT ![c] = @ + 1]
  /\ res' = [res EXCEPT ![c] = IF e = "OK" THEN [NoRes EXCEPT !.nok = 1]
                               ELSE [NoRes EXCEPT !.nmaybe = 1]]

EndIteration(c, e) ==
  /\ i' = [i EXCEPT ![c] = @ + 1]
  /\ res' = IF e = "OK" THEN [res EXCEPT ![c].nok = @ + 1] ELSE [res EXCEPT ![c].nmaybe = @ + 1]

CountsPut(c) == err[c] \in {"OK", "ErrMaybe"}

\* The answer that client c got is one for which it calls Fatalf(): that of the Get
\* of GetJson(), of the Put of OnePut() and of PutAtLeastOnce(), or the value that
\* OnePut() finds under the version it has put.
Unexpected(c) ==
  LET r == reply[c] IN
  \/ pc[c] = "get" /\ r.err # "OK"
  \/ /\ pc[c] = "get" /\ Work = "put" /\ err[c] = "OK" /\ r.ver = ver[c] + 1
     /\ r.val[1][1] # c /\ r.val[1][2] # ver[c]
  \/ pc[c] = "put" /\ r.err = "ErrNoKey" /\ (Work = "put" \/ (Work = "once" /\ ver[c] # 0))

\* Fatalf() calls FailNow(), which ends the goroutine that calls it and no other: the
\* client neither waits for done nor sends a result.
Fatalf(c) ==
  /\ Answered(c) /\ Unexpected(c)
  /\ CallReturns(c)
  /\ fatal' = TRUE /\ pc' = [pc EXCEPT ![c] = "ended"]
  /\ UNCHANGED <<puts, strays, oplog, i, ver, err, res, testerVars>>

\* Get the list, put it back with <<me, i>> at its end; again if somebody
\* else was faster.
OneClientAppend(c) ==
  /\ Work = "append" /\ UNCHANGED <<puts, strays, oplog, ver, err, testerVars, fatal>>
  /\ \/ /\ MayIterate(c) /\ tpc \in {"sleep", "signal"}
        /\ Call(c, "get", <<>>, 0) /\ pc' = [pc EXCEPT ![c] = "get"]
        /\ UNCHANGED <<i, res>>
     \/ /\ pc[c] = "get" /\ Answered(c) /\ ~Unexpected(c)
        /\ Call(c, "put", Append(reply[c].val, <<c, i[c]>>), reply[c].ver)
        /\ pc' = [pc EXCEPT ![c] = "put"] /\ UNCHANGED <<i, res>>
     \/ /\ pc[c] = "put" /\ reply[c].err \in {"OK", "ErrMaybe"}
        /\ EndIteration(c, reply[c].err) /\ CallReturns(c)
        /\ pc' = [pc EXCEPT ![c] = "loop"]
     \/ /\ pc[c] = "put" /\ reply[c].err \in {"ErrVersion", "ErrNoKey"}
        /\ Call(c, "get", <<>>, 0) /\ pc' = [pc EXCEPT ![c] = "get"]
        /\ UNCHANGED <<i, res>>

\* OneClientPut(), with one key: OnePut() puts <<me, ver>> and gets the version
\* for the next try, until a put was or may have been done.
OneClientPut(c) ==
  /\ Work = "put" /\ UNCHANGED <<puts, strays, oplog, testerVars, fatal>>
  /\ \/ /\ MayIterate(c) /\ tpc \in {"sleep", "signal"}
        /\ Call(c, "put", <<<<c, ver[c]>>>>, ver[c])
        /\ pc' = [pc EXCEPT ![c] = "put"]
        /\ UNCHANGED <<i, ver, err, res>>
     \/ /\ pc[c] = "put" /\ Answered(c) /\ ~Unexpected(c)
        /\ err' = [err EXCEPT ![c] = reply[c].err]
        /\ Call(c, "get", <<>>, 0) /\ pc' = [pc EXCEPT ![c] = "get"]
        /\ UNCHANGED <<i, ver, res>>
     \/ /\ pc[c] = "get" /\ Answered(c) /\ ~Unexpected(c)
        /\ ver' = [ver EXCEPT ![c] = reply[c].ver]
        /\ IF CountsPut(c)
           THEN EndIteration(c, err[c]) /\ CallReturns(c)
                /\ pc' = [pc EXCEPT ![c] = "loop"]
           ELSE /\ Call(c, "put", <<<<c, reply[c].ver>>>>, reply[c].ver)
                /\ pc' = [pc EXCEPT ![c] = "put"] /\ UNCHANGED <<i, res>>
        /\ UNCHANGED err

\* Mutant of PutDone: a put that may have happened is taken to have happened.
PutDoneMaybe(e) == e \in {"OK", "ErrMaybe"}
PutDone(e) == e = "OK"

\* PutAtLeastOnce(), by clients that have nobody to wait for them and put to the
\* same key, as TestOnePartition4B does (kvraft_test.go:229 and 252).
PutAtLeastOnce(c) ==
  LET e == reply[c].err IN
  /\ Work = "once" /\ UNCHANGED <<puts, strays, oplog, err, testerVars, fatal>>
  /\ \/ /\ pc[c] = "loop" /\ i[c] < MaxIter
        /\ Call(c, "put", <<<<c, i[c]>>>>, ver[c])
        /\ pc' = [pc EXCEPT ![c] = "put"]
        /\ UNCHANGED <<i, ver, res>>
     \/ /\ pc[c] = "put" /\ Answered(c) /\ ~Unexpected(c) /\ (Broken => ver[c] < MaxPuts)
        /\ ver' = [ver EXCEPT ![c] = IF e = "ErrNoKey" THEN @ ELSE @ + 1]
        /\ IF PutDone(e)
           THEN EndIteration(c, e) /\ CallReturns(c) /\ pc' = [pc EXCEPT ![c] = "loop"]
           ELSE Call(c, "put", op[c].val, ver'[c]) /\ UNCHANGED <<pc, i, res>>

-----------------------------------------------------------------------------
(* The tester.                                                             *)

TesterStep(from, to) == tpc = from /\ tpc' = to /\ UNCHANGED <<pc, i, ver, err, res>>

\* Before the appends, PutAtLeastOnceJson() creates the key: version 0 is put
\* until the clerk knows.
Start ==
  /\ tpc = "start" /\ Work # "once"
  /\ IF Work = "append" /\ (op[Tester] = NoOp \/ reply[Tester].err = "ErrMaybe")
     THEN (op[Tester] = NoOp \/ Answered(Tester))
          /\ Call(Tester, "put", <<>>, 0) /\ UNCHANGED tpc
     ELSE (Work = "put" \/ Answered(Tester)) /\ CallReturns(Tester) /\ tpc' = "sleep"
  /\ UNCHANGED <<puts, strays, oplog, clntVars, signals, rs, part, fatal>>

PartitionerStarts ==
  /\ Partitions /\ part = "off" /\ tpc # "start"
  /\ part' = "running"
  /\ UNCHANGED <<clerkVars, clntVars, tpc, signals, rs, fatal>>

\* The time is over, which is long enough for every client to have begun (the tests
\* give a second or more; with a client that has not, the key may not be there yet
\* when GetJson() looks for it): signal every client, then collect the results in
\* order.  A client that has ended takes no signal and sends no result.
Signal ==
  /\ \A c \in Clnt : pc[c] # "loop" \/ i[c] > 0
  /\ TesterStep("sleep", "signal")
  /\ UNCHANGED <<clerkVars, signals, rs, part, fatal>>

Collect ==
  /\ tpc = "signal" /\ signals = NClnt /\ tpc' = "collect"
  /\ UNCHANGED <<clerkVars, clntVars, signals, rs, part, fatal>>

\* rs[c] = <-ca[c]; the client then deletes its clerk.
Result ==
  LET c == Len(rs) + 1 IN
  /\ tpc = "collect" /\ c \in Clnt /\ pc[c] = "send"
  /\ rs' = Append(rs, res[c])
  /\ pc' = [pc EXCEPT ![c] = "deleted"]
  /\ UNCHANGED <<clerkVars, i, ver, err, res, tpc, signals, part, fatal>>

\* GetJson() for the check.
GetForCheck ==
  /\ tpc = "collect" /\ Len(rs) = NClnt /\ tpc' = "check"
  /\ Call(Tester, "get", <<>>, 0)
  /\ UNCHANGED <<puts, strays, oplog, clntVars, signals, rs, part, fatal>>

\* The sums over the results of the clients.
Sum(f) ==
  LET sum[n \in 0..NClnt] == IF n = 0 THEN 0 ELSE sum[n - 1] + f[n] IN sum[NClnt]
Nok == Sum([c \in Clnt |-> rs[c].nok])
Nmaybe == Sum([c \in Clnt |-> rs[c].nmaybe])

\* TRUE if the check is passed.
CheckPutConcurrent(v) == IF Reliable THEN v = Nok ELSE v <= Nok + Nmaybe

\* What CheckAppends() does with one entry of the list.
CheckEntry(acc, e) ==
  LET c == e[1]  n == e[2] IN
  [bad |-> acc.bad \/ acc.expect[c] > n,
   expect |-> [acc.expect EXCEPT ![c] = n + 1],
   skipped |-> [acc.skipped EXCEPT ![c] = @ + (n - acc.expect[c])]]

\* expect and skipped before the first entry, and after each of them.
CheckStart ==
  [bad |-> FALSE, expect |-> [c \in Clnt |-> 0], skipped |-> [c \in Clnt |-> 0]]
CheckRun(es) ==
  LET run[n \in 0..Len(es)] == IF n = 0 THEN CheckStart ELSE CheckEntry(run[n - 1], es[n])
  IN  run

CheckAppends(es, v) ==
  LET seen == CheckRun(es)[Len(es)] IN
  /\ ~seen.bad /\ Len(es) + 1 = v
  /\ \A c \in Clnt : /\ seen.skipped[c] <= rs[c].nmaybe
                     /\ seen.expect[c] <= rs[c].nok + rs[c].nmaybe

Passed(r) ==
  /\ r.err = "OK"
  /\ IF Work = "append" THEN CheckAppends(r.val, r.ver) ELSE CheckPutConcurrent(r.ver)

\* If the check fails, Fatalf() ends the goroutine of the test.
Check ==
  /\ tpc = "check" /\ Answered(Tester) /\ CallReturns(Tester)
  /\ \/ /\ Passed(reply[Tester]) /\ tpc' = (IF Partitions THEN "stop" ELSE "end")
        /\ UNCHANGED fatal
     \/ ~Passed(reply[Tester]) /\ tpc' = "failed" /\ fatal' = TRUE
  /\ UNCHANGED <<puts, strays, oplog, clntVars, signals, rs, part>>

\* ch <- true meets the select of the Partitioner, whose deferred send then
\* meets the receive of the tester.
StopPartitioner ==
  /\ TesterStep("stop", "wait") /\ part = "running"
  /\ part' = "done"
  /\ UNCHANGED <<clerkVars, signals, rs, fatal>>

PartitionerStopped ==
  /\ TesterStep("wait", "end") /\ part = "done"
  /\ UNCHANGED <<clerkVars, signals, rs, part, fatal>>

Clerks == (\E p \in Procs : Serve(p) \/ Resend(p)) \/ ExecuteStray \/ LoseKey
Client(c) == Done(c) \/ Fatalf(c) \/ OneClientAppend(c) \/ OneClientPut(c) \/ PutAtLeastOnce(c)
TesterNext ==
  \/ Start \/ Signal \/ Collect \/ Result \/ GetForCheck \/ Check
  \/ StopPartitioner \/ PartitionerStopped

Next ==
  /\ Clerks \/ (\E c \in Clnt : Client(c)) \/ TesterNext \/ PartitionerStarts
  /\ UNCHANGED test

\* The goroutines run on, and a request that is sent again and again is
\* answered at last.
Fairness ==
  /\ WF_runVars(TesterNext) /\ WF_runVars(PartitionerStarts)
  /\ \A c \in Clnt : WF_runVars(Client(c))
  /\ \A p \in Procs : WF_runVars(Serve(p))

Spec == Init /\ [][Next]_vars
FairSpec == Spec /\ Fairness
-----------------------------------------------------------------------------
(* KvModel: a log is linearizable if its operations can be put in an order *)
(* that respects time and that Step allows.                                *)

KvInit == [val |-> NoVal, ver |-> 0]

\* Mutant of StepOk: a put that may have happened must have happened.
StepOkStrict(st, e) ==
  IF e.in.kind = "get" THEN e.out.val = st.val
  ELSE e.out.err \in (IF st.ver = e.in.ver THEN {"OK", "ErrMaybe"} ELSE {"ErrVersion"})

StepOk(st, e) ==
  IF e.in.kind = "get" THEN e.out.val = st.val
  ELSE e.out.err \in {IF st.ver = e.in.ver THEN "OK" ELSE "ErrVersion", "ErrMaybe"}

StepNext(st, e) ==
  IF e.in.kind = "put" /\ st.ver = e.in.ver
  THEN [val |-> e.in.val, ver |-> st.ver + 1] ELSE st

\* The states that Step may reach with the operations numbered S.
Reach[S \in SUBSET DOMAIN oplog] ==
  IF S = {} THEN {KvInit}
  ELSE LET CanBeLast(k) == \A j \in S \ {k} : oplog[j].in.call < k IN
       UNION {{StepNext(st, oplog[k]) :
                 st \in {st \in Reach[S \ {k}] : StepOk(st, oplog[k])}} :
                k \in {k \in S : CanBeLast(k)}}

-----------------------------------------------------------------------------
(* Properties of tests against a service that is not broken.               *)

\* With a service that does what the labs ask for, the harness never fails a
\* test: neither the check of the counts (CheckPutConcurrent), nor that of the
\* list (CheckAppends), nor one in a client, whatever is lost, resent or
\* executed late.
NoFalseAlarm == ~fatal

\* What the clerks do in each state of their callers, and the tester's before the
\* clients and after them.
OpFits(p) ==
  /\ op[p].kind = "none" => reply[p] = NoReply
  /\ op[p].kind = "get" => puts # <<>>
  /\ op[p].kind = "put" => op[p].ver <= Len(puts)
ClntOpFits(c) ==
  /\ pc[c] \in {"loop", "send", "deleted", "ended"} => op[c].kind = "none"
  /\ pc[c] = "get" => op[c].kind = "get"
  /\ pc[c] = "put" =>
       /\ op[c].kind = "put" /\ op[c].val # <<>> /\ op[c].val[Len(op[c].val)][1] = c
       /\ Work # "append" => op[c].ver = ver[c]
       /\ Work = "put" => op[c].val = <<<<c, ver[c]>>>>
OpsFit ==
  /\ \A p \in Procs : OpFits(p)
  /\ \A c \in Clnt : ClntOpFits(c)
  /\ op[Tester].kind = "get" => tpc = "check"
  /\ op[Tester].kind = "put" =>
       Work = "append" /\ tpc = "start" /\ op[Tester].ver = 0 /\ op[Tester].val = <<>>

\* A put that was answered cannot be executed any more, was executed if the answer
\* is OK, and was not if it is ErrVersion.
ReplyFits(p) ==
  IF op[p].kind = "put"
  THEN /\ op[p].ver < Len(puts) /\ reply[p].err \in {"OK", "ErrVersion", "ErrMaybe"}
       /\ reply[p].err = "OK" => puts[op[p].ver + 1] = op[p].val
       /\ reply[p].err = "ErrVersion" => op[p].first
       /\ reply[p].err = "ErrMaybe" => ~op[p].first
  ELSE /\ reply[p].err = "OK" /\ reply[p].ver \in DOMAIN puts
       /\ reply[p].val = puts[reply[p].ver]
RepliesFit == \A p \in Procs : Answered(p) => ReplyFits(p)

\* A request given up that can still be executed is one that its clerk is resending.
Resending(p, o) ==
  Pending(p) /\ op[p].kind = "put" /\ op[p].ver = o.ver /\ op[p].val = o.val /\ ~op[p].first
StraysFit ==
  \A o \in strays :
    /\ o.kind = "put" /\ o.ver <= Len(puts)
    /\ o.ver = Len(puts) => \E p \in Procs : Resending(p, o)

\* The versions that client c put; whether the put of its iteration was stored for
\* certain, and whether it may have been.
Mine(c) == {k \in DOMAIN puts : puts[k] # <<>> /\ puts[k][Len(puts[k])][1] = c}
Stored(c) ==
  \/ pc[c] = "put" /\ reply[c].err = "OK"
  \/ Work = "put" /\ pc[c] = "get" /\ err[c] = "OK"
MaybeStored(c) ==
  \/ /\ pc[c] = "put" /\ op[c].ver < Len(puts)
     /\ IF Answered(c) THEN reply[c].err \in {"OK", "ErrMaybe"} ELSE ~op[c].first
  \/ Work = "put" /\ pc[c] = "get" /\ CountsPut(c)

\* A client stores no more than one version in an iteration, and one if it counts
\* the iteration in nok.
CountFits(c) ==
  LET n == Cardinality(Mine(c)) IN
  /\ res[c].nok <= n /\ (Stored(c) => res[c].nok < n)
  /\ n <= i[c] + 1 /\ (~MaybeStored(c) => n <= i[c])
Counted == Work # "once" => \A c \in Clnt : CountFits(c)

\* Every version is some client's; what a client that puts knows of the last ones.
VersionFits(c) ==
  /\ ver[c] <= Len(puts) /\ (i[c] > 0 => puts # <<>>)
  /\ Work = "put" /\ pc[c] = "get" =>
       /\ ver[c] < Len(puts) /\ err[c] \in {"OK", "ErrVersion", "ErrMaybe"}
       /\ err[c] = "OK" => puts[ver[c] + 1] = <<<<c, ver[c]>>>>
VersionsFit ==
  /\ Work = "put" => \A k \in DOMAIN puts : \E c \in Clnt : k \in Mine(c)
  /\ \A c \in Clnt : VersionFits(c)

\* Each version of the list has one entry more, which is the next one of its client.
Entry(j) == puts[j + 1][j]
Extends(es, n) == Len(es) = n /\ \A j \in 1..n - 1 : es[j] = Entry(j)
EntryFits(j) ==
  /\ Entry(j)[1] \in Clnt /\ Entry(j)[2] <= i[Entry(j)[1]]
  /\ Entry(j)[2] = i[Entry(j)[1]] => MaybeStored(Entry(j)[1])
ListFits ==
  Work = "append" =>
    /\ \A k \in DOMAIN puts : Extends(puts[k], k - 1)
    /\ \A c \in Clnt : pc[c] = "put" =>
         Extends(op[c].val, op[c].ver) /\ op[c].val[op[c].ver] = <<c, i[c]>>
    /\ \A j \in 1..Len(puts) - 1 : EntryFits(j)
    /\ \A j, k \in 1..Len(puts) - 1 :
         j < k /\ Entry(j)[1] = Entry(k)[1] => Entry(j)[2] < Entry(k)[2]

\* On a reliable network every put is known to be stored or not.
NothingMaybe ==
  Reliable => /\ strays = {} /\ \A p \in Procs : op[p].first
              /\ \A c \in Clnt : err[c] # "ErrMaybe" /\ res[c].nmaybe = 0

\* The clients run between Start and Signal, and the tester collects what they report
\* before it gets the value, which then is the last.
TesterFits ==
  /\ Work = "once" => tpc = "start"
  /\ Work = "append" /\ tpc # "start" => puts # <<>>
  /\ tpc = "start" /\ Work # "once" => \A c \in Clnt : pc[c] = "loop" /\ i[c] = 0
  /\ \A c \in Clnt : tpc \notin {"start", "sleep"} \/ pc[c] \in {"send", "deleted"}
                       => pc[c] \in {"put", "get", "ended"} \/ i[c] > 0
  /\ \A c \in 1..Len(rs) : rs[c] = res[c] /\ pc[c] = "deleted"
  /\ tpc \in {"check", "stop", "wait", "end"} => Len(rs) = NClnt
  /\ tpc = "check" /\ Answered(Tester) => reply[Tester].ver = Len(puts)

\* NoFalseAlarm, and the inductive invariant that it follows from.
Works ==
  /\ TypeOK /\ NoFalseAlarm /\ OpsFit /\ RepliesFit /\ StraysFit /\ Counted
  /\ VersionsFit /\ ListFits /\ NothingMaybe /\ TesterFits

\* If the service is not broken: NoFalseAlarm, that each client has counted every one
\* of its iterations in nok or in nmaybe (TypeOK), and the rest of Works.
KvInv == ~Broken => Works

\* Likewise for checkPorcupine(): the log is linearizable in KvModel, in which
\* a Put that returned ErrMaybe still takes effect if its version fits.
LogLinearizable == ~Broken /\ tpc = "end" => Reach[DOMAIN oplog] # {}

\* The version that PutAtLeastOnce() returns is one under which the service
\* stored its value, although others put to the same key and an earlier try
\* may have stored it under another version.
PutAtLeastOnceStored ==
  [][\A c \in Clnt : ~Broken /\ Work = "once" /\ i'[c] > i[c]
       => ver'[c] <= Len(puts) /\ puts[ver'[c]] = op[c].val]_vars

\* SpawnClientsAndWait() and the exchange with the Partitioner end (a signal for
\* every client, a result from each, and both sides of the channel), unless a check
\* has failed: whatever the service does, a test that does not end has said why.
TestEnds == (tpc = "sleep") ~> (tpc = "end" \/ fatal)

\* What does not hold: that a failed test ends.  The tester waits on done and on
\* ca[c] for a client whose goroutine Fatalf() has ended.
FailedTestEnds == (tpc = "sleep") ~> (tpc \in {"end", "failed"})
=============================================================================
