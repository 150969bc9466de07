------------------------------- MODULE Server -------------------------------
(***************************************************************************)
(* The HTTP server of internal/server: Run called by any number of         *)
(* goroutines, Handle, the hot-reloadable shutdown timeout, and the        *)
(* bounded graceful shutdown with its three goroutines (Serve, Shutdown    *)
(* and the forced Close).                                                  *)
(*                                                                         *)
(* net/http is modelled as far as Run depends on it: Serve accepts         *)
(* requests until its listener fails or is closed; Shutdown and Close      *)
(* close the listener and then wait for Serve to return, without regard to *)
(* any deadline; Shutdown goes on to wait for the requests in flight.  A   *)
(* handler may never finish, and a listener may never release Accept.      *)
(***************************************************************************)
EXTENDS Naturals

CONSTANTS
    Callers,   \* goroutines that call Run
    Patterns,  \* route patterns
    Requests,  \* requests
    Timeouts   \* graceful_shutdown_timeout values, in ticks

ASSUME TimeoutsAssumption == Timeouts \subseteq Nat \ {0}

VARIABLES
    \* fields of the Server, and the context given to Run
    started, routes,
    timeout,         \* shutdownTimeoutNanos
    cancelled,
    \* Run and gracefulShutdown
    pc,
    outcome,         \* what the last Run of a caller returned
    granted,         \* the timeout loaded when the shutdown began
    left,            \* time left to the deadline of shutdownCtx
    shutdownErr,
    serveErrCh, shutdownDoneCh,   \* buffered channels, "empty" or a value
    \* net/http
    serve,           \* the Serve goroutine
    inShutdown,
    closeFails,      \* closing the listener returned an error
    active,          \* requests in flight
    shutting,        \* the goroutine in Shutdown
    closing,         \* the goroutine in Close
    \* history
    elapsed,         \* time since the shutdown began
    lnFailed         \* Serve ended by its listener, before any cancellation

apiVars   == <<started, routes, timeout, cancelled>>
runVars   == <<pc, outcome, granted, shutdownErr>>
timeVars  == <<left, elapsed>>
chanVars  == <<serveErrCh, shutdownDoneCh>>
serveVars == <<serve, active, lnFailed>>
stopVars  == <<inShutdown, closeFails, shutting, closing>>
vars == <<apiVars, runVars, timeVars, chanVars, serveVars, stopVars>>

Init ==
    /\ started = FALSE /\ routes = {} /\ timeout \in Timeouts
    /\ cancelled = FALSE
    /\ pc = [c \in Callers |-> "idle"]
    /\ outcome = [c \in Callers |-> "none"]
    /\ granted = 0 /\ left = 0 /\ elapsed = 0 /\ shutdownErr = "nil"
    /\ serveErrCh = "empty" /\ shutdownDoneCh = "empty"
    /\ serve = "none" /\ active = {} /\ lnFailed = FALSE
    /\ inShutdown = FALSE /\ closeFails = FALSE
    /\ shutting = "none" /\ closing = "none"

-----------------------------------------------------------------------------
(* The exported methods.                                                   *)

\* Mutant: routes may be added while the server runs.
HandleAnytime(p) ==
    /\ p \notin routes
    /\ routes' = routes \cup {p}
    /\ UNCHANGED <<started, timeout, cancelled, runVars, timeVars, chanVars,
                   serveVars, stopVars>>

\* A nil handler, a malformed or a duplicate pattern, and any pattern once Run
\* has started are refused and change nothing.
Handle(p) ==
    /\ ~started
    /\ p \notin routes
    /\ routes' = routes \cup {p}
    /\ UNCHANGED <<started, timeout, cancelled, runVars, timeVars, chanVars,
                   serveVars, stopVars>>

\* Mutant: any duration is stored.
UpdateUnchecked(d) ==
    /\ timeout' = d
    /\ UNCHANGED <<started, routes, cancelled, runVars, timeVars, chanVars,
                   serveVars, stopVars>>

\* Called by the reload subscriber at any time, during a shutdown too.
UpdateShutdownTimeout(d) ==
    /\ d > 0
    /\ timeout' = d
    /\ UNCHANGED <<started, routes, cancelled, runVars, timeVars, chanVars,
                   serveVars, stopVars>>

Cancel ==
    /\ ~cancelled
    /\ cancelled' = TRUE
    /\ UNCHANGED <<started, routes, timeout, runVars, timeVars, chanVars,
                   serveVars, stopVars>>

\* Run returns err, releasing its locals.
Return(c, err) ==
    /\ outcome' = [outcome EXCEPT ![c] = err]
    /\ pc' = [pc EXCEPT ![c] = "idle"]
    /\ shutdownErr' = "nil"
    /\ UNCHANGED granted

RunAgain(c) ==
    /\ pc[c] = "idle" /\ started
    /\ outcome' = [outcome EXCEPT ![c] = "alreadyRunning"]
    /\ UNCHANGED <<pc, granted, shutdownErr, apiVars, timeVars, chanVars,
                   serveVars, stopVars>>

\* net.Listen fails: started stays FALSE.
ListenFails(c) ==
    /\ pc[c] = "idle" /\ ~started
    /\ outcome' = [outcome EXCEPT ![c] = "serveFailed"]
    /\ UNCHANGED <<pc, granted, shutdownErr, apiVars, timeVars, chanVars,
                   serveVars, stopVars>>

\* Mutant: the check for a second Run is missing.
RunUnguarded(c) ==
    /\ pc[c] = "idle"
    /\ started' = TRUE
    /\ pc' = [pc EXCEPT ![c] = "select"]
    /\ outcome' = [outcome EXCEPT ![c] = "none"]
    /\ serve' = "start"
    /\ UNCHANGED <<routes, timeout, cancelled, granted, shutdownErr, timeVars,
                   chanVars, active, lnFailed, stopVars>>

\* The listener is there: the Serve goroutine is spawned and Run waits.
Listen(c) ==
    /\ pc[c] = "idle" /\ ~started
    /\ started' = TRUE
    /\ pc' = [pc EXCEPT ![c] = "select"]
    /\ outcome' = [outcome EXCEPT ![c] = "none"]
    /\ serve' = "start"
    /\ UNCHANGED <<routes, timeout, cancelled, granted, shutdownErr, timeVars,
                   chanVars, active, lnFailed, stopVars>>

\* Run's select: ctx.Done.  gracefulShutdown loads the timeout and spawns
\* Shutdown.
CtxDone(c) ==
    /\ pc[c] = "select" /\ cancelled
    /\ pc' = [pc EXCEPT ![c] = "shutdown"]
    /\ granted' = timeout /\ left' = timeout /\ elapsed' = 0
    /\ shutting' = "close"
    /\ UNCHANGED <<outcome, shutdownErr, apiVars, chanVars, serveVars,
                   inShutdown, closeFails, closing>>

\* Run's select: Serve ended by itself.
ServeEnds(c) ==
    /\ pc[c] = "select" /\ serveErrCh # "empty"
    /\ Return(c, IF serveErrCh = "err" THEN "serveFailed" ELSE "nil")
    /\ serveErrCh' = "empty"
    /\ UNCHANGED <<apiVars, timeVars, shutdownDoneCh, serveVars, stopVars>>

\* The first select of gracefulShutdown: Shutdown returned in time.
ShutdownDone(c) ==
    /\ pc[c] = "shutdown" /\ shutdownDoneCh # "empty"
    /\ pc' = [pc EXCEPT ![c] = "drain"]
    /\ shutdownErr' = shutdownDoneCh
    /\ shutdownDoneCh' = "empty"
    /\ UNCHANGED <<outcome, granted, apiVars, timeVars, serveErrCh, serveVars,
                   stopVars>>

\* Mutant: the error of the deadline is not kept.
DeadlineForgotten(c) ==
    /\ pc[c] = "shutdown" /\ left = 0
    /\ pc' = [pc EXCEPT ![c] = "drain"]
    /\ closing' = "close"
    /\ UNCHANGED <<outcome, granted, shutdownErr, apiVars, timeVars, chanVars,
                   serveVars, inShutdown, closeFails, shutting>>

\* Mutant: the second select waits with a new timer.
DeadlineRestarts(c) ==
    /\ pc[c] = "shutdown" /\ left = 0
    /\ pc' = [pc EXCEPT ![c] = "drain"]
    /\ shutdownErr' = "deadline"
    /\ closing' = "close"
    /\ left' = timeout
    /\ UNCHANGED <<outcome, granted, apiVars, elapsed, chanVars, serveVars,
                   inShutdown, closeFails, shutting>>

\* The first select: the deadline passed.  Close is spawned, not waited for.
DeadlinePasses(c) ==
    /\ pc[c] = "shutdown" /\ left = 0
    /\ pc' = [pc EXCEPT ![c] = "drain"]
    /\ shutdownErr' = "deadline"
    /\ closing' = "close"
    /\ UNCHANGED <<outcome, granted, apiVars, timeVars, chanVars, serveVars,
                   inShutdown, closeFails, shutting>>

\* The result of gracefulShutdown.
ShutdownResult ==
    CASE shutdownErr = "nil"      -> "nil"
      [] shutdownErr = "deadline" -> "shutdownTimeout"
      [] OTHER                    -> "serveFailed"

\* The second select: Serve is back.  What it returned is not looked at.
ServeDrained(c) ==
    /\ pc[c] = "drain" /\ serveErrCh # "empty"
    /\ Return(c, ShutdownResult)
    /\ serveErrCh' = "empty"
    /\ UNCHANGED <<apiVars, timeVars, shutdownDoneCh, serveVars, stopVars>>

\* Mutant: the second select has no deadline.
DrainUnbounded(c) ==
    /\ pc[c] = "drain" /\ left = 0 /\ serveErrCh # "empty"
    /\ Return(c, ShutdownResult)
    /\ UNCHANGED <<apiVars, timeVars, chanVars, serveVars, stopVars>>

\* The second select: the same deadline.
DrainEnds(c) ==
    /\ pc[c] = "drain" /\ left = 0
    /\ Return(c, ShutdownResult)
    /\ UNCHANGED <<apiVars, timeVars, chanVars, serveVars, stopVars>>

\* A select of Run can go on.
Ready(c) ==
    \/ pc[c] = "select" /\ (cancelled \/ serveErrCh # "empty")
    \/ pc[c] = "shutdown" /\ (shutdownDoneCh # "empty" \/ left = 0)
    \/ pc[c] = "drain" /\ (serveErrCh # "empty" \/ left = 0)

\* Time passes on shutdownCtx while Run is blocked: a select that can go on
\* takes no time.
Tick ==
    /\ left > 0
    /\ \A c \in Callers : ~Ready(c)
    /\ left' = left - 1 /\ elapsed' = elapsed + 1
    /\ UNCHANGED <<apiVars, runVars, chanVars, serveVars, stopVars>>

-----------------------------------------------------------------------------
(* net/http.                                                               *)

\* Serve registers its listener, unless Shutdown was faster.
ServeStarts ==
    /\ serve = "start"
    /\ \/ /\ ~inShutdown
          /\ serve' = "accept"
          /\ UNCHANGED serveErrCh
       \/ /\ inShutdown
          /\ serve' = "returned"
          /\ serveErrCh' = "nil"
    /\ UNCHANGED <<apiVars, runVars, timeVars, shutdownDoneCh, active, lnFailed,
                   stopVars>>

Accept(q) ==
    /\ serve = "accept" /\ q \notin active
    /\ active' = active \cup {q}
    /\ UNCHANGED <<apiVars, runVars, timeVars, chanVars, serve, lnFailed,
                   stopVars>>

RequestDone(q) ==
    /\ q \in active
    /\ active' = active \ {q}
    /\ UNCHANGED <<apiVars, runVars, timeVars, chanVars, serve, lnFailed,
                   stopVars>>

\* Accept fails; during a shutdown Serve reports ErrServerClosed, which the
\* Serve goroutine of Run turns into nil.
AcceptFails ==
    /\ serve = "accept"
    /\ serve' = "returned"
    /\ serveErrCh' = IF inShutdown THEN "nil" ELSE "err"
    /\ lnFailed' = ~cancelled
    /\ UNCHANGED <<apiVars, runVars, timeVars, shutdownDoneCh, active, stopVars>>

ShutdownCloses ==
    /\ shutting = "close"
    /\ shutting' = "wait"
    /\ inShutdown' = TRUE
    /\ closeFails' \in BOOLEAN
    /\ UNCHANGED <<apiVars, runVars, timeVars, chanVars, serveVars, closing>>

\* listenerGroup.Wait: no deadline.
ShutdownWaits ==
    /\ shutting = "wait" /\ serve # "accept"
    /\ shutting' = "poll"
    /\ UNCHANGED <<apiVars, runVars, timeVars, chanVars, serveVars, inShutdown,
                   closeFails, closing>>

ShutdownReturns ==
    /\ shutting = "poll"
    /\ \/ /\ active = {}
          /\ shutdownDoneCh' = IF closeFails THEN "closeError" ELSE "nil"
       \/ /\ left = 0
          /\ shutdownDoneCh' = "deadline"
    /\ shutting' = "end"
    /\ UNCHANGED <<apiVars, runVars, timeVars, serveErrCh, serveVars, inShutdown,
                   closeFails, closing>>

CloseStarts ==
    /\ closing = "close"
    /\ closing' = "wait"
    /\ inShutdown' = TRUE
    /\ UNCHANGED <<apiVars, runVars, timeVars, chanVars, serveVars, closeFails,
                   shutting>>

\* listenerGroup.Wait, then every connection is closed.
CloseEnds ==
    /\ closing = "wait" /\ serve # "accept"
    /\ closing' = "end"
    /\ active' = {}
    /\ UNCHANGED <<apiVars, runVars, timeVars, chanVars, serve, lnFailed,
                   inShutdown, closeFails, shutting>>

-----------------------------------------------------------------------------

GracefulShutdown(c) ==
    ShutdownDone(c) \/ DeadlinePasses(c) \/ ServeDrained(c) \/ DrainEnds(c)

Run(c) ==
    \/ RunAgain(c) \/ ListenFails(c) \/ Listen(c)
    \/ CtxDone(c) \/ ServeEnds(c) \/ GracefulShutdown(c)

NetHTTP ==
    \/ ServeStarts \/ AcceptFails
    \/ \E q \in Requests : Accept(q) \/ RequestDone(q)
    \/ ShutdownCloses \/ ShutdownWaits \/ ShutdownReturns
    \/ CloseStarts \/ CloseEnds

Next ==
    \/ \E p \in Patterns : Handle(p)
    \/ \E d \in Timeouts \cup {0} : UpdateShutdownTimeout(d)
    \/ Cancel \/ Tick
    \/ \E c \in Callers : Run(c)
    \/ NetHTTP

Spec == Init /\ [][Next]_vars

\* The goroutine in Run goes on and time passes.  Nothing is assumed of
\* net/http, of the listener or of the handlers.
Fairness ==
    /\ \A c \in Callers :
        WF_vars(CtxDone(c) \/ ServeEnds(c) \/ GracefulShutdown(c))
    /\ WF_vars(Tick)

FairSpec == Spec /\ Fairness

-----------------------------------------------------------------------------
(* Properties.                                                             *)

\* Every variable stays in its range; no update stores a timeout of 0.
TypeOK ==
    /\ started \in BOOLEAN /\ cancelled \in BOOLEAN
    /\ routes \subseteq Patterns /\ timeout \in Timeouts
    /\ pc \in [Callers -> {"idle", "select", "shutdown", "drain"}]
    /\ outcome \in [Callers -> {"none", "nil", "alreadyRunning", "serveFailed",
                                "shutdownTimeout"}]
    /\ granted \in Nat /\ left \in Nat /\ elapsed \in Nat
    /\ shutdownErr \in {"nil", "closeError", "deadline"}
    /\ serveErrCh \in {"empty", "nil", "err"}
    /\ shutdownDoneCh \in {"empty", "nil", "closeError", "deadline"}
    /\ serve \in {"none", "start", "accept", "returned"}
    /\ active \subseteq Requests
    /\ lnFailed \in BOOLEAN /\ inShutdown \in BOOLEAN /\ closeFails \in BOOLEAN
    /\ shutting \in {"none", "close", "wait", "poll", "end"}
    /\ closing \in {"none", "close", "wait", "end"}

\* However many goroutines call Run, one at most gets past the guard, over the
\* whole life of the Server.
OneRun ==
    \A c, d \in Callers : pc[c] # "idle" /\ pc[d] # "idle" => c = d

\* Run returns nil only after a cancellation, when every request accepted is
\* finished and no further one can be accepted.
NilIsGraceful ==
    \A c \in Callers : outcome[c] = "nil" =>
        /\ cancelled /\ active = {}
        /\ serve # "accept" /\ (serve = "start" => inShutdown)

\* Both waits of gracefulShutdown together take no longer than the timeout
\* loaded on entry, whatever reloads store meanwhile, and a timeout is
\* reported only when that whole time has passed.
DeadlineKept ==
    \A c \in Callers :
        /\ pc[c] \in {"shutdown", "drain"} => elapsed <= granted
        /\ outcome[c] = "shutdownTimeout" => elapsed = granted /\ granted > 0

\* The route table does not change while a listener is served or a request is
\* in flight.
RoutesFrozen == [][serve # "none" \/ active # {} => UNCHANGED routes]_vars

\* Run returns after a cancellation even if a handler never finishes and the
\* listener never releases Accept.
RunReturns ==
    \A c \in Callers : pc[c] # "idle" /\ cancelled ~> pc[c] = "idle"

\* What Run's contract says of a listener that fails early, before the context
\* is cancelled: Run reports it.
ServeFailureReported ==
    \A c \in Callers : lnFailed => outcome[c] # "nil"

-----------------------------------------------------------------------------
(* The abstract service that the Server implements.                        *)

Phase ==
    CASE ~started                                        -> "fresh"
      [] \E c \in Callers : pc[c] = "select"             -> "serving"
      [] \E c \in Callers : pc[c] \in {"shutdown", "drain"} -> "shutting"
      [] OTHER                                           -> "stopped"

Inside == {c \in Callers : pc[c] # "idle"}

\* A listener not yet registered is as good as one that accepts, unless
\* Shutdown was faster.
Accepting == serve = "accept" \/ (serve = "start" /\ ~inShutdown)

Service == INSTANCE ServerService
    WITH phase <- Phase, inside <- Inside, accepting <- Accepting,
         grant <- granted, result <- outcome

\* Seen from outside, Run and gracefulShutdown with their four goroutines are
\* the server of ServerService: routes are fixed once it is served, it is
\* served once, and requests are cut off by nothing but the end of the grant.
ImplementsService == Service!Spec

-----------------------------------------------------------------------------
(* The inductive invariant.                                                *)

Quiet == inShutdown /\ active = {} /\ serve # "accept"

\* Before the first successful listen nothing runs; a shutdown begins once.
PhaseInv ==
    /\ ~started => /\ serve = "none" /\ active = {} /\ shutting = "none"
                   /\ \A c \in Callers : pc[c] = "idle"
    /\ shutting = "none" =>
        /\ ~inShutdown /\ closing = "none"
        /\ shutdownDoneCh = "empty" /\ shutdownErr = "nil"
        /\ \A c \in Callers :
            pc[c] \in {"idle", "select"} /\ outcome[c] \notin {"nil", "shutdownTimeout"}
    /\ shutting # "none" =>
        cancelled /\ \A c \in Callers : pc[c] # "select"

\* What stands behind a nil on its way to the caller.
QuietInv ==
    /\ serveErrCh = "nil" => inShutdown
    /\ serveErrCh # "empty" => serve = "returned"
    /\ shutting = "poll" => inShutdown /\ serve # "accept"
    /\ shutting = "end" => inShutdown
    /\ shutting = "wait" \/ closing \in {"wait", "end"} => inShutdown
    /\ shutdownDoneCh = "nil" => Quiet
    /\ \A c \in Callers :
        /\ pc[c] = "drain" /\ shutdownErr = "nil" => Quiet
        /\ outcome[c] = "nil" => Quiet

\* The deadline is counted down once, from the timeout loaded on entry.
DeadlineInv ==
    /\ left + elapsed = granted
    /\ shutting # "none" => granted > 0
    /\ \/ shutdownDoneCh = "deadline" \/ shutdownErr = "deadline"
       \/ closing # "none"
       => left = 0
    /\ \A c \in Callers : outcome[c] = "shutdownTimeout" => left = 0

=============================================================================
