----------------------------- MODULE Readiness -----------------------------
(***************************************************************************)
(* The /ready handler of internal/health: every request runs the checkers  *)
(* in the order of registration, one shared execution per checker at a     *)
(* time, and waits for each no longer than its own two timeouts allow.     *)
(*                                                                         *)
(* An execution is identified by its checker and by the request that       *)
(* launched it, since a request asks a checker only once.  The length of   *)
(* the timeouts is abstracted away: a deadline that is running may pass at *)
(* any moment.  A checker may return any result, panic, or never return.   *)
(***************************************************************************)
EXTENDS Naturals, Sequences, FiniteSets

CONSTANTS
    Requests,     \* the probes, each served by a goroutine of net/http
    CheckerList,  \* the checkers, in the order of WithChecker
    None          \* no execution in flight

Checkers == {CheckerList[i] : i \in 1..Len(CheckerList)}

ASSUME NoneAssumption == None \notin Requests
ASSUME CheckersAssumption ==  \* WithChecker refuses duplicate names
    /\ CheckerList \in Seq(Checkers)
    /\ \A i, j \in 1..Len(CheckerList) : CheckerList[i] = CheckerList[j] => i = j

\* No property tells the ErrorCodes "failed" and "panic" apart.
Results == {"ok", "timeout", "failed"}

VARIABLES
    pc,        \* where the handler of a request is
    results,   \* the checks array built so far
    status,    \* the status code sent, 0 before
    expired,   \* total timeout passed, or the client went away
    waited,    \* the current wait's checkTimeout passed
    ent,       \* launcher of the execution a request waits for
    inflight,  \* per checker: launcher of the execution in flight, or None
    phase,     \* per checker and launcher: where the execution goroutine is
    result,    \* per checker and launcher: the result field, "none" before
    seenDone,  \* history: executions that were done when a request arrived,
    seenOver   \* history: and those that were cleared as well

vars == <<pc, results, status, expired, waited, ent, inflight, phase, result,
          seenDone, seenOver>>
runVars == <<inflight, phase, result>>
history == <<seenDone, seenOver>>

Init ==
    /\ pc = [r \in Requests |-> "new"]
    /\ results = [r \in Requests |-> <<>>]
    /\ status = [r \in Requests |-> 0]
    /\ expired = [r \in Requests |-> FALSE]
    /\ waited = [r \in Requests |-> FALSE]
    /\ ent = [r \in Requests |-> None]
    /\ inflight = [k \in Checkers |-> None]
    /\ phase = [k \in Checkers |-> [r \in Requests |-> "none"]]
    /\ result = [k \in Checkers |-> [r \in Requests |-> "none"]]
    /\ seenDone = [r \in Requests |-> {}] /\ seenOver = seenDone

\* The checker a request has reached.
Current(r) == CheckerList[Len(results[r]) + 1]

\* ent.done is closed.
Done(k, q) == phase[k][q] \in {"clear", "end"}

-----------------------------------------------------------------------------
(* The handler.                                                            *)

Arrive(r) ==
    /\ pc[r] = "new"
    /\ pc' = [pc EXCEPT ![r] = "next"]
    /\ seenDone' = [seenDone EXCEPT ![r] =
                        {x \in Checkers \X Requests : Done(x[1], x[2])}]
    /\ seenOver' = [seenOver EXCEPT ![r] =
                        {x \in Checkers \X Requests : phase[x[1]][x[2]] = "end"}]
    /\ UNCHANGED <<results, status, expired, waited, ent, runVars>>

\* Anything but GET and HEAD is answered 405 and runs no checker.
Refuse(r) ==
    /\ pc[r] = "new"
    /\ pc' = [pc EXCEPT ![r] = "done"]
    /\ status' = [status EXCEPT ![r] = 405]
    /\ UNCHANGED <<results, expired, waited, ent, runVars, history>>

Running(r) == pc[r] \in {"next", "enter", "await"}

TotalTimeout(r) ==
    /\ Running(r) /\ ~expired[r]
    /\ expired' = [expired EXCEPT ![r] = TRUE]
    /\ UNCHANGED <<pc, results, status, waited, ent, runVars, history>>

CheckTimeout(r) ==
    /\ pc[r] \in {"enter", "await"} /\ ~waited[r]
    /\ waited' = [waited EXCEPT ![r] = TRUE]
    /\ UNCHANGED <<pc, results, status, expired, ent, runVars, history>>

\* One more entry of the checks array; on to the next checker.
Report(r, code) ==
    /\ results' = [results EXCEPT ![r] = Append(@, code)]
    /\ pc' = [pc EXCEPT ![r] = "next"]
    /\ ent' = [ent EXCEPT ![r] = None]
    /\ waited' = [waited EXCEPT ![r] = FALSE]
    /\ UNCHANGED <<status, expired, runVars, history>>

\* The answer is sent and the locals of the handler are gone.
Answer(r) ==
    /\ status' = [status EXCEPT ![r] =
            IF \A i \in 1..Len(results[r]) : results[r][i] = "ok" THEN 200 ELSE 503]
    /\ pc' = [pc EXCEPT ![r] = "done"]
    /\ results' = [results EXCEPT ![r] = <<>>]
    /\ expired' = [expired EXCEPT ![r] = FALSE]
    /\ seenDone' = [seenDone EXCEPT ![r] = {}]
    /\ seenOver' = [seenOver EXCEPT ![r] = {}]
    /\ UNCHANGED <<waited, ent, runVars>>

\* Mutant: a checker that could not be started is left out of the array.
OmitChecker(r) ==
    /\ pc[r] = "next" /\ Len(results[r]) < Len(CheckerList)
    /\ expired[r]
    /\ Answer(r)

\* The total timeout is over: the checkers that are left are not started.
SkipChecker(r) ==
    /\ pc[r] = "next" /\ Len(results[r]) < Len(CheckerList)
    /\ expired[r]
    /\ Report(r, "timeout")

\* ctx.Err() was nil; runOne derives its own deadline and takes entry.mu.
EnterRunOne(r) ==
    /\ pc[r] = "next" /\ Len(results[r]) < Len(CheckerList)
    /\ ~expired[r]
    /\ pc' = [pc EXCEPT ![r] = "enter"]
    /\ UNCHANGED <<results, status, expired, waited, ent, runVars, history>>

\* An execution is in flight: share it.
Join(r) ==
    /\ pc[r] = "enter"
    /\ inflight[Current(r)] # None
    /\ ent' = [ent EXCEPT ![r] = inflight[Current(r)]]
    /\ pc' = [pc EXCEPT ![r] = "await"]
    /\ UNCHANGED <<results, status, expired, waited, runVars, history>>

Launch(r) ==
    /\ pc[r] = "enter"
    /\ inflight[Current(r)] = None
    /\ inflight' = [inflight EXCEPT ![Current(r)] = r]
    /\ phase' = [phase EXCEPT ![Current(r)][r] = "run"]
    /\ ent' = [ent EXCEPT ![r] = r]
    /\ pc' = [pc EXCEPT ![r] = "await"]
    /\ UNCHANGED <<results, status, expired, waited, result, history>>

\* awaitInflight: with both cases ready, select takes either.
ReceiveResult(r) ==
    /\ pc[r] = "await"
    /\ Done(Current(r), ent[r])
    /\ Report(r, result[Current(r)][ent[r]])

\* Mutant: a waiter that gives up also forgets the execution in flight.
GiveUpAndForget(r) ==
    /\ pc[r] = "await"
    /\ expired[r] \/ waited[r]
    /\ results' = [results EXCEPT ![r] = Append(@, "timeout")]
    /\ pc' = [pc EXCEPT ![r] = "next"]
    /\ ent' = [ent EXCEPT ![r] = None]
    /\ waited' = [waited EXCEPT ![r] = FALSE]
    /\ inflight' = [inflight EXCEPT ![Current(r)] = None]
    /\ UNCHANGED <<status, expired, phase, result, history>>

\* Mutant: only the request that launched the execution has a deadline.
GiveUpIfLauncher(r) ==
    /\ pc[r] = "await" /\ ent[r] = r
    /\ expired[r] \/ waited[r]
    /\ Report(r, "timeout")

\* The waiter gives up; the execution goes on.
GiveUp(r) ==
    /\ pc[r] = "await"
    /\ expired[r] \/ waited[r]
    /\ Report(r, "timeout")

Respond(r) ==
    /\ pc[r] = "next" /\ Len(results[r]) = Len(CheckerList)
    /\ Answer(r)

-----------------------------------------------------------------------------
(* The execution goroutine.                                                *)

\* Mutant: done is closed before the result is stored.
CheckerReturnsLate(k, q) ==
    /\ phase[k][q] = "run"
    /\ phase' = [phase EXCEPT ![k][q] = "close"]
    /\ UNCHANGED <<pc, results, status, expired, waited, ent, inflight, result,
                   history>>

\* Mutant: executeChecker does not recover a panic, and whoever stops it further
\* out ends the goroutine: nothing is stored, closed or cleared.
CheckerPanicsThrough(k, q) ==
    /\ phase[k][q] = "run"
    /\ \/ /\ \E res \in Results : result' = [result EXCEPT ![k][q] = res]
          /\ phase' = [phase EXCEPT ![k][q] = "close"]
       \/ /\ phase' = [phase EXCEPT ![k][q] = "end"]
          /\ UNCHANGED result
    /\ UNCHANGED <<pc, results, status, expired, waited, ent, inflight, history>>

\* executeChecker: nil, an error, a context error or a recovered panic: done
\* is still open when the result is stored.
CheckerReturns(k, q) ==
    /\ phase[k][q] = "run"
    /\ \E res \in Results : result' = [result EXCEPT ![k][q] = res]
    /\ phase' = [phase EXCEPT ![k][q] = "close"]
    /\ UNCHANGED <<pc, results, status, expired, waited, ent, inflight, history>>

CloseDone(k, q) ==
    /\ phase[k][q] = "close"
    /\ phase' = [phase EXCEPT ![k][q] = "clear"]
    /\ UNCHANGED <<pc, results, status, expired, waited, ent, inflight, result,
                   history>>

\* Mutant: a failed execution is not cleared and keeps being shared.
ClearIfOK(k, q) ==
    /\ phase[k][q] = "clear"
    /\ inflight' = IF result[k][q] = "ok" THEN [inflight EXCEPT ![k] = None]
                   ELSE inflight
    /\ phase' = [phase EXCEPT ![k][q] = "end"]
    /\ UNCHANGED <<pc, results, status, expired, waited, ent, result, history>>

ClearInflight(k, q) ==
    /\ phase[k][q] = "clear"
    /\ inflight' = [inflight EXCEPT ![k] = None]
    /\ phase' = [phase EXCEPT ![k][q] = "end"]
    /\ UNCHANGED <<pc, results, status, expired, waited, ent, result, history>>

-----------------------------------------------------------------------------

Handle(r) ==
    \/ SkipChecker(r) \/ EnterRunOne(r) \/ Join(r) \/ Launch(r)
    \/ ReceiveResult(r) \/ GiveUp(r) \/ Respond(r)

Release(k, q) == CloseDone(k, q) \/ ClearInflight(k, q)

Next ==
    \/ \E r \in Requests :
        Arrive(r) \/ Refuse(r) \/ TotalTimeout(r) \/ CheckTimeout(r) \/ Handle(r)
    \/ \E k \in Checkers, q \in Requests : CheckerReturns(k, q) \/ Release(k, q)

Spec == Init /\ [][Next]_vars

\* Handlers and execution goroutines run on, and deadlines pass in the end; a
\* checker may block for ever.
Fairness ==
    /\ \A r \in Requests : WF_vars(Handle(r)) /\ WF_vars(CheckTimeout(r))
    /\ \A k \in Checkers, q \in Requests : WF_vars(Release(k, q))

FairSpec == Spec /\ Fairness

-----------------------------------------------------------------------------
(* Properties.                                                             *)

\* Every variable stays in its range.
TypeOK ==
    /\ pc \in [Requests -> {"new", "next", "enter", "await", "done"}]
    /\ results \in [Requests -> Seq(Results)]
    /\ \A r \in Requests :
        /\ Len(results[r]) <= Len(CheckerList)
        /\ pc[r] \in {"enter", "await"} => Len(results[r]) < Len(CheckerList)
        /\ pc[r] = "await" => ent[r] # None
    /\ status \in [Requests -> {0, 200, 405, 503}]
    /\ expired \in [Requests -> BOOLEAN] /\ waited \in [Requests -> BOOLEAN]
    /\ ent \in [Requests -> Requests \cup {None}]
    /\ inflight \in [Checkers -> Requests \cup {None}]
    /\ phase \in [Checkers -> [Requests -> {"none", "run", "close", "clear", "end"}]]
    /\ result \in [Checkers -> [Requests -> Results \cup {"none"}]]
    /\ seenDone \in [Requests -> SUBSET (Checkers \X Requests)]
    /\ seenOver \in [Requests -> SUBSET (Checkers \X Requests)]

\* However many probes arrive and however long a checker blocks, at most one
\* goroutine per checker is running it (package doc: concurrent probes share
\* the result, so that checker goroutines are bounded by one each).
OneRunPerChecker ==
    \A k \in Checkers, p, q \in Requests :
        phase[k][p] = "run" /\ phase[k][q] = "run" => p = q

\* What a request can join is an execution whose goroutine still has to clear
\* it: no result is served from an execution that is over.
InflightIsLive ==
    \A k \in Checkers :
        inflight[k] # None => phase[k][inflight[k]] \in {"run", "close", "clear"}

\* 200 means that every registered checker has really returned nil, in an
\* execution that was not yet cleared when the request came; a checker that
\* was skipped, timed out, panicked or blocked makes it 503.
OKMeansAllHealthy ==
    [][\A r \in Requests : status[r] = 0 /\ status'[r] = 200 =>
            \A k \in Checkers : \E q \in Requests :
                result[k][q] = "ok" /\ <<k, q>> \notin seenOver[r]]_vars

\* A request never shares an execution that had finished before it arrived:
\* what TS-54 expects of a request sent after the burst was answered.
FreshExecution ==
    \A r \in Requests : pc[r] = "await" =>
        <<Current(r), ent[r]>> \notin seenDone[r]

\* Every probe is answered, even if a checker never returns and even if the
\* execution it waits for was launched by another probe.
EveryProbeAnswered ==
    \A r \in Requests : pc[r] = "next" ~> pc[r] = "done"

\* Once a call of a checker is over, whether it returned, failed or panicked,
\* its slot is freed for a new execution.
SlotReleased ==
    \A k \in Checkers, q \in Requests :
        phase[k][q] \notin {"none", "run"} ~> inflight[k] # q

-----------------------------------------------------------------------------
(* The abstract service that the handler implements.                       *)

\* What can still be joined at checker k.
Slot(k) ==
    IF inflight[k] = None THEN "free"
    ELSE IF phase[k][inflight[k]] = "run" THEN "busy"
    ELSE result[k][inflight[k]]

Stored(k, q) == phase[k][q] \in {"close", "clear", "end"}

\* The results stored by executions of k that were not over when r arrived.
SeenResults(r, k) ==
    {result[k][q] : q \in {p \in Requests :
        Stored(k, p) /\ <<k, p>> \notin seenOver[r]}}

Served == {r \in Requests : Running(r)}
Slots == [k \in Checkers |-> Slot(k)]
Seen == [r \in Requests |-> [k \in Checkers |->
            IF Running(r) THEN SeenResults(r, k) ELSE {}]]

Service == INSTANCE ReadinessService
    WITH open <- Served, checks <- results, slot <- Slots, seen <- Seen

\* Seen from outside, the handler with its mutex, its done channels and the
\* goroutines it leaves behind is the endpoint of ReadinessService: one call of
\* a checker at a time and only for a probe that needs it, entries in the order
\* of registration, each of them a timeout or a result that was not cleared
\* before the probe came, and a status that says what the entries say.
ImplementsService == Service!Spec

-----------------------------------------------------------------------------
(* Inductive invariants: why the safety properties above hold.             *)

\* entry.inflight names exactly the execution that still has to clear it, and
\* an execution past its body has stored a result.
RunInv ==
    \A k \in Checkers, q \in Requests :
        /\ phase[k][q] \in {"run", "close", "clear"} <=> inflight[k] = q
        /\ phase[k][q] \in {"close", "clear", "end"} => result[k][q] # "none"

\* From the n-th on, no checker has been launched by the request.
Ahead(r, n) ==
    \A i \in 1..Len(CheckerList) : i >= n => phase[CheckerList[i]][r] = "none"

\* The checkers a request has not come to yet, it has not launched.
AheadInv ==
    \A r \in Requests :
        /\ pc[r] = "new" => results[r] = <<>>
        /\ pc[r] \in {"new", "next", "enter"} => Ahead(r, Len(results[r]) + 1)
        /\ pc[r] = "await" => Ahead(r, Len(results[r]) + 2)

\* An execution that was over when a request arrived stays over.
OverInv ==
    \A r \in Requests, k \in Checkers, q \in Requests :
        <<k, q>> \in seenOver[r] => phase[k][q] = "end"

\* The execution a request waits for was not over when it arrived.
JoinInv ==
    \A r \in Requests : pc[r] = "await" => <<Current(r), ent[r]>> \notin seenOver[r]

\* An ok entry stands on an execution that was not over when the request
\* arrived, and that keeps its result.
Backed(r, i) ==
    \E q \in Requests :
        /\ result[CheckerList[i]][q] = "ok"
        /\ phase[CheckerList[i]][q] \in {"clear", "end"}
        /\ <<CheckerList[i], q>> \notin seenOver[r]

BackedInv ==
    \A r \in Requests : \A i \in 1..Len(results[r]) :
        results[r][i] = "ok" => Backed(r, i)

OrderInv == AheadInv /\ OverInv /\ JoinInv /\ BackedInv

=============================================================================
