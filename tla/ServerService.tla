---------------------------- MODULE ServerService ----------------------------
(***************************************************************************)
(* What package server promises its callers, without channels, selects or  *)
(* the goroutines of Serve, Shutdown and Close.  A server is served once.  *)
(* When its context is cancelled it is granted the timeout then in force,  *)
(* within which it stops accepting and the requests in flight finish: only *)
(* then Run returns nil.  Requests are cut off only when the grant is used *)
(* up, and a timeout is reported only then.                                *)
(***************************************************************************)
EXTENDS Naturals

CONSTANTS Callers, Patterns, Requests, Timeouts

VARIABLES
    routes, timeout, cancelled,
    phase,       \* "fresh", "serving", "shutting", "stopped"
    inside,      \* callers inside Run
    accepting,   \* a request may still come in
    active,      \* requests in flight
    grant, elapsed,
    result       \* what the last Run of each caller returned

confVars == <<routes, timeout, cancelled>>
runVars  == <<phase, inside, result>>
workVars == <<accepting, active>>
timeVars == <<grant, elapsed>>
vars == <<confVars, runVars, workVars, timeVars>>

Init ==
    /\ routes = {} /\ timeout \in Timeouts /\ cancelled = FALSE
    /\ phase = "fresh" /\ inside = {} /\ result = [c \in Callers |-> "none"]
    /\ accepting = FALSE /\ active = {}
    /\ grant = 0 /\ elapsed = 0

-----------------------------------------------------------------------------
Register(p) ==
    /\ phase = "fresh"
    /\ routes' = routes \cup {p}
    /\ UNCHANGED <<timeout, cancelled, runVars, workVars, timeVars>>

Update(d) ==
    /\ timeout' = d
    /\ UNCHANGED <<routes, cancelled, runVars, workVars, timeVars>>

Cancel ==
    /\ cancelled' = TRUE
    /\ UNCHANGED <<routes, timeout, runVars, workVars, timeVars>>

\* A server that was served once is not served again; one whose listener could
\* not be opened may be.
Refuse(c) ==
    /\ c \notin inside
    /\ result' = [result EXCEPT ![c] = IF phase = "fresh" THEN "serveFailed"
                                       ELSE "alreadyRunning"]
    /\ UNCHANGED <<phase, inside, confVars, workVars, timeVars>>

Serve(c) ==
    /\ phase = "fresh"
    /\ phase' = "serving" /\ inside' = {c} /\ accepting' = TRUE
    /\ result' = [result EXCEPT ![c] = "none"]
    /\ UNCHANGED <<confVars, active, timeVars>>

BeginShutdown ==
    /\ phase = "serving" /\ cancelled
    /\ phase' = "shutting"
    /\ grant' = timeout /\ elapsed' = 0
    /\ UNCHANGED <<inside, result, confVars, workVars>>

Leave(c, err) ==
    /\ inside = {c}
    /\ inside' = {} /\ phase' = "stopped"
    /\ result' = [result EXCEPT ![c] = err]
    /\ UNCHANGED <<confVars, workVars, timeVars>>

\* The listener failed, by itself or when it was closed.
Fail(c) ==
    /\ (phase = "serving" /\ ~accepting) \/ phase = "shutting"
    /\ Leave(c, "serveFailed")

StopGracefully(c) ==
    /\ phase = "shutting" /\ ~accepting /\ active = {}
    /\ Leave(c, "nil")

StopLate(c) ==
    /\ phase = "shutting" /\ elapsed = grant
    /\ Leave(c, "shutdownTimeout")

-----------------------------------------------------------------------------
Pass ==
    /\ elapsed < grant
    /\ elapsed' = elapsed + 1
    /\ UNCHANGED <<grant, confVars, runVars, workVars>>

Accept(q) ==
    /\ accepting
    /\ active' = active \cup {q}
    /\ UNCHANGED <<accepting, confVars, runVars, timeVars>>

Finish(q) ==
    /\ active' = active \ {q}
    /\ UNCHANGED <<accepting, confVars, runVars, timeVars>>

StopAccepting ==
    /\ phase # "fresh"
    /\ accepting' = FALSE
    /\ UNCHANGED <<active, confVars, runVars, timeVars>>

CutOff ==
    /\ phase \in {"shutting", "stopped"}
    /\ ~accepting /\ elapsed = grant
    /\ active' = {}
    /\ UNCHANGED <<accepting, confVars, runVars, timeVars>>

Next ==
    \/ \E p \in Patterns : Register(p)
    \/ \E d \in Timeouts : Update(d)
    \/ \E c \in Callers :
        \/ Refuse(c) \/ Serve(c)
        \/ Fail(c) \/ StopGracefully(c) \/ StopLate(c)
    \/ \E q \in Requests : Accept(q) \/ Finish(q)
    \/ Cancel \/ BeginShutdown \/ Pass \/ StopAccepting \/ CutOff

Spec == Init /\ [][Next]_vars
=============================================================================
