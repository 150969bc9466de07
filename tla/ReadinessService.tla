--------------------------- MODULE ReadinessService ---------------------------
(***************************************************************************)
(* What the /ready endpoint promises a probe and the author of a checker,  *)
(* without locks, goroutines, channels or deadlines.  A checker is called  *)
(* for a probe that has come to it, and not again before that call is over *)
(* and cleared.  A probe goes through the checkers in their order; the     *)
(* entry it gets for one is a timeout, or what a call of that checker has  *)
(* returned that was not cleared before the probe came.  It is answered    *)
(* 200 when every entry is ok, and 503 otherwise.                          *)
(***************************************************************************)
EXTENDS Naturals, Sequences

CONSTANTS Requests, CheckerList, Results

Checkers == {CheckerList[i] : i \in 1..Len(CheckerList)}

VARIABLES
    open,     \* the probes being served
    checks,   \* per probe: the checks array so far
    status,   \* per probe: the status code sent, 0 before
    slot,     \* per checker: "free", "busy" or the result not yet cleared
    seen      \* per probe and checker: the results it may be given

vars == <<open, checks, status, slot, seen>>

Nothing == [k \in Checkers |-> {}]

Init ==
    /\ open = {} /\ checks = [r \in Requests |-> <<>>]
    /\ status = [r \in Requests |-> 0]
    /\ slot = [k \in Checkers |-> "free"]
    /\ seen = [r \in Requests |-> Nothing]

-----------------------------------------------------------------------------
(* The probes.                                                             *)

Open(r) ==
    /\ r \notin open /\ status[r] = 0
    /\ open' = open \cup {r}
    /\ seen' = [seen EXCEPT ![r] = [k \in Checkers |-> {slot[k]} \cap Results]]
    /\ UNCHANGED <<checks, status, slot>>

Refuse(r) ==
    /\ r \notin open /\ status[r] = 0
    /\ status' = [status EXCEPT ![r] = 405]
    /\ UNCHANGED <<open, checks, slot, seen>>

\* r has come to checker k.
At(r, k) ==
    /\ r \in open /\ Len(checks[r]) < Len(CheckerList)
    /\ k = CheckerList[Len(checks[r]) + 1]

Report(r, k, code) ==
    /\ At(r, k)
    /\ checks' = [checks EXCEPT ![r] = Append(@, code)]
    /\ code = "timeout" \/ code \in seen[r][k]
    /\ UNCHANGED <<open, status, slot, seen>>

Answer(r) ==
    /\ r \in open /\ Len(checks[r]) = Len(CheckerList)
    /\ status' = [status EXCEPT ![r] =
            IF \A i \in 1..Len(CheckerList) : checks[r][i] = "ok" THEN 200 ELSE 503]
    /\ open' = open \ {r}
    /\ checks' = [checks EXCEPT ![r] = <<>>]
    /\ seen' = [seen EXCEPT ![r] = Nothing]
    /\ UNCHANGED slot

-----------------------------------------------------------------------------
(* The calls of the checkers.                                              *)

Launch(k) ==
    /\ slot[k] = "free"
    /\ \E r \in open : At(r, k)
    /\ slot' = [slot EXCEPT ![k] = "busy"]
    /\ UNCHANGED <<open, checks, status, seen>>

\* Every probe that is there may be given the result.
Return(k, code) ==
    /\ slot[k] = "busy"
    /\ slot' = [slot EXCEPT ![k] = code]
    /\ seen' = [r \in Requests |->
            IF r \in open THEN [seen[r] EXCEPT ![k] = @ \cup {code}] ELSE seen[r]]
    /\ UNCHANGED <<open, checks, status>>

Clear(k) ==
    /\ slot[k] \in Results
    /\ slot' = [slot EXCEPT ![k] = "free"]
    /\ UNCHANGED <<open, checks, status, seen>>

-----------------------------------------------------------------------------

Next ==
    \/ \E r \in Requests : Open(r) \/ Refuse(r) \/ Answer(r)
    \/ \E r \in open, k \in Checkers, code \in Results : Report(r, k, code)
    \/ \E k \in Checkers : Launch(k) \/ Clear(k)
    \/ \E k \in Checkers, code \in Results : Return(k, code)

Spec == Init /\ [][Next]_vars
=============================================================================
