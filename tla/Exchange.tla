------------------------------ MODULE Exchange ------------------------------
(***************************************************************************)
(* Requests on their way through the chain that main puts around every     *)
(* handler, request id, access log and request timeout, while a reload     *)
(* changes the log level and the request timeout.                          *)
(*                                                                         *)
(* A response is written by the handler to the responseWriter of the       *)
(* access log, and by that to the response of net/http, which is modelled  *)
(* as far as they differ: which status is final, which body is refused,    *)
(* what reaches the client when the handler panics.  The handlers are the  *)
(* two that need no state, "/" and "/health", and, on "other", any handler *)
(* that somebody registers.                                                *)
(***************************************************************************)
EXTENDS Naturals, Sequences

CONSTANTS
    Requests,     \* requests, each served by a goroutine of net/http
    Arrivals,     \* what they may ask: route, method, X-Request-ID values
    WellFormed,   \* the texts that clientIDPattern matches
    Timeouts,     \* request_timeout values
    BootTimeout,  \* the one of the boot configuration
    None,         \* no request id
    MaxOps,       \* bound: calls that an "other" handler makes
    MaxApplies    \* bound: calls of Apply

Levels   == {"debug", "info", "warn", "error"}
Routes   == {"/", "/health", "other"}
Statuses == {103, 200, 204, 405, 500}
Sources  == {"client", "generated"}

ASSUME ArrivalsAssumption ==
    \A a \in Arrivals : a.route \in Routes /\ a.offer \in Seq(STRING)
ASSUME NoneAssumption ==
    None \notin [source : Sources, text : WellFormed \cup Requests]
ASSUME TimeoutsAssumption ==
    Timeouts \subseteq Nat \ {0} /\ BootTimeout \in Timeouts
ASSUME BoundsAssumption == MaxOps \in Nat /\ MaxApplies \in Nat

VARIABLES
    \* set by the subscribers
    level, timeout, applies,
    \* per request: its goroutine
    pc, req,
    id,         \* the id and its source, in ctx
    bound,      \* the id bound to the request's logger
    deadline,   \* the timeout the context was given
    ops,        \* calls the handler has made
    panicking,
    \* per request: the two writers and the log
    wrapper,    \* responseWriter
    conn,       \* response of net/http
    lines,      \* access log lines
    \* history, per request
    ended,      \* how the handler ended
    early,      \* it flushed or sent 1xx before any status, or hijacked
    seen        \* what was in force while the request went through the chain

sharedVars  == <<level, timeout, applies>>
contextVars == <<req, id, bound, deadline>>
writerVars  == <<ops, wrapper, conn, early>>
endVars     == <<panicking, ended>>
vars == <<sharedVars, pc, contextVars, writerVars, endVars, lines, seen>>

NewWrapper == [status |-> 0, wrote |-> FALSE, bytes |-> 0]
NewConn    == [status |-> 0, wrote |-> FALSE, bytes |-> 0, header |-> None,
               id |-> None, sent |-> FALSE, hijacked |-> FALSE,
               finished |-> FALSE]

Init ==
    /\ level \in Levels /\ timeout = BootTimeout /\ applies = 0
    /\ pc = [q \in Requests |-> "new"]
    /\ req \in [Requests -> Arrivals]
    /\ id = [q \in Requests |-> None] /\ bound = id
    /\ deadline = [q \in Requests |-> 0]
    /\ ops = [q \in Requests |-> 0]
    /\ panicking = [q \in Requests |-> FALSE]
    /\ wrapper = [q \in Requests |-> NewWrapper]
    /\ conn = [q \in Requests |-> NewConn]
    /\ lines = [q \in Requests |-> <<>>]
    /\ ended = [q \in Requests |-> "no"]
    /\ early = [q \in Requests |-> FALSE]
    /\ seen = [q \in Requests |-> [timeouts |-> {}, loud |-> TRUE]]

-----------------------------------------------------------------------------
(* The response of net/http.                                               *)

Informational(s) == s = 103
BodyAllowed(s)   == s \notin {0, 103, 204}

\* The first final status counts; its headers are those set by then.
ConnWriteHeader(c, s) ==
    IF c.hijacked \/ c.wrote \/ Informational(s) THEN c
    ELSE [c EXCEPT !.wrote = TRUE, !.status = s, !.id = c.header]

\* What Write returns: a status without a body, a hijacked connection, or more
\* than the handler announced, and nothing is written.
Accepted(c) ==
    IF c.hijacked \/ ~BodyAllowed(ConnWriteHeader(c, 200).status)
    THEN {0} ELSE {0, 1}

\* A long body, unlike a short one, leaves the buffer at once.
ConnWrite(c, n, sent) ==
    [ConnWriteHeader(c, 200) EXCEPT !.bytes = @ + n,
                                    !.sent = c.sent \/ (sent /\ n > 0)]

ConnFlush(c) ==
    IF c.hijacked THEN c ELSE [ConnWriteHeader(c, 200) EXCEPT !.sent = TRUE]

ConnHijack(c) == [c EXCEPT !.hijacked = TRUE, !.sent = @ \/ c.wrote]

\* http.Error(500) with a short text.
ConnError(c) == ConnWrite(ConnWriteHeader(c, 500), 1, FALSE)

\* finishRequest: a handler that wrote nothing gets a 200, and what is left in
\* the buffer is sent.
ConnFinish(c) ==
    IF c.hijacked THEN c
    ELSE [ConnWriteHeader(c, 200) EXCEPT !.sent = TRUE, !.finished = TRUE]

-----------------------------------------------------------------------------
(* The responseWriter.  Each method ends in the one of net/http.           *)

\* Mutant: the last status is recorded.
WrapWriteHeaderLast(w, s) == [w EXCEPT !.status = s, !.wrote = TRUE]

WrapWriteHeader(w, s) ==
    IF w.wrote THEN w ELSE [w EXCEPT !.status = s, !.wrote = TRUE]

\* Mutant: the length of the argument is counted, not what was accepted.
WrapWriteAll(w, n) == [WrapWriteHeader(w, 200) EXCEPT !.bytes = @ + 1]

WrapWrite(w, n) == [WrapWriteHeader(w, 200) EXCEPT !.bytes = @ + n]

-----------------------------------------------------------------------------
(* Hot reload.                                                             *)

Loud(l) == l \in {"debug", "info"}

\* The chain is under way: what is in force now may still be read.
Entering(q) == pc[q] \in {"request_id", "access_log", "request_timeout"}

\* LevelSubscriber.Apply, with a configuration that is valid.
ApplyLevel(l) ==
    /\ applies < MaxApplies
    /\ level' = l /\ applies' = applies + 1
    /\ seen' = [q \in Requests |->
            IF pc[q] \in {"new", "finish", "done"} THEN seen[q]
            ELSE [seen[q] EXCEPT !.loud = @ /\ Loud(l)]]
    /\ UNCHANGED <<timeout, pc, contextVars, writerVars, endVars, lines>>

\* Mutant: any duration is stored.
ApplyUnchecked(d) ==
    /\ applies < MaxApplies
    /\ timeout' = d /\ applies' = applies + 1
    /\ seen' = [q \in Requests |->
            IF Entering(q) THEN [seen[q] EXCEPT !.timeouts = @ \cup {d}]
            ELSE seen[q]]
    /\ UNCHANGED <<level, pc, contextVars, writerVars, endVars, lines>>

\* RequestTimeoutConfig.Apply refuses 0.
ApplyRequestTimeout(d) ==
    /\ applies < MaxApplies
    /\ d > 0
    /\ timeout' = d /\ applies' = applies + 1
    /\ seen' = [q \in Requests |->
            IF Entering(q) THEN [seen[q] EXCEPT !.timeouts = @ \cup {d}]
            ELSE seen[q]]
    /\ UNCHANGED <<level, pc, contextVars, writerVars, endVars, lines>>

-----------------------------------------------------------------------------
(* The chain, in the order of main's register.                             *)

\* Mutant: the access log comes first.
AccessLogFirst ==
    [new |-> "access_log", access_log |-> "request_id",
     request_id |-> "request_timeout", request_timeout |-> "handler"]

After ==
    [new |-> "request_id", request_id |-> "access_log",
     access_log |-> "request_timeout", request_timeout |-> "handler"]

Goto(q, stage) == pc' = [pc EXCEPT ![q] = stage]

Arrive(q) ==
    /\ pc[q] = "new"
    /\ Goto(q, After["new"])
    /\ seen' = [seen EXCEPT ![q] = [timeouts |-> {timeout}, loud |-> Loud(level)]]
    /\ UNCHANGED <<sharedVars, contextVars, writerVars, endVars, lines>>

\* acceptClientID looks at the first value only.  An offer lists the values as
\* they are without the blanks around them, which it cuts off.
Accepts(offer) == offer # <<>> /\ Head(offer) \in WellFormed

\* The header of the response and the context.
UseID(q, v) ==
    /\ id' = [id EXCEPT ![q] = v]
    /\ conn' = [conn EXCEPT ![q].header = v]
    /\ Goto(q, After["request_id"])

ClientID(q) ==
    /\ pc[q] = "request_id"
    /\ Accepts(req[q].offer)
    /\ UseID(q, [source |-> "client", text |-> Head(req[q].offer)])
    /\ UNCHANGED <<sharedVars, req, bound, deadline, ops, wrapper, early, endVars,
                   lines, seen>>

\* A generated id is as good as the name of its request.
GenerateID(q) ==
    /\ pc[q] = "request_id"
    /\ ~Accepts(req[q].offer)
    /\ UseID(q, [source |-> "generated", text |-> q])
    /\ UNCHANGED <<sharedVars, req, bound, deadline, ops, wrapper, early, endVars,
                   lines, seen>>

\* The answer is 500, and next is not called.
GeneratorFails(q) ==
    /\ pc[q] = "request_id"
    /\ ~Accepts(req[q].offer)
    /\ conn' = [conn EXCEPT ![q] = ConnError(@)]
    /\ Goto(q, "finish")
    /\ UNCHANGED <<sharedVars, contextVars, ops, wrapper, early, endVars,
                   lines, seen>>

\* The request's logger and its responseWriter.
AccessLog(q) ==
    /\ pc[q] = "access_log"
    /\ bound' = [bound EXCEPT ![q] = id[q]]
    /\ Goto(q, After["access_log"])
    /\ UNCHANGED <<sharedVars, req, id, deadline, writerVars, endVars, lines,
                   seen>>

\* Mutant: the timeout is loaded once, when the chain is built.
RequestTimeoutOnce(q) ==
    /\ pc[q] = "request_timeout"
    /\ deadline' = [deadline EXCEPT ![q] = BootTimeout]
    /\ Goto(q, After["request_timeout"])
    /\ UNCHANGED <<sharedVars, req, id, bound, writerVars, endVars, lines, seen>>

RequestTimeout(q) ==
    /\ pc[q] = "request_timeout"
    /\ deadline' = [deadline EXCEPT ![q] = timeout]
    /\ Goto(q, After["request_timeout"])
    /\ UNCHANGED <<sharedVars, req, id, bound, writerVars, endVars, lines, seen>>

\* Mutant: the line is written after next, not by a deferred function.
EmitOnReturn(q) ==
    /\ pc[q] = "unwind"
    /\ lines' = IF Loud(level) /\ ~panicking[q]
                THEN [lines EXCEPT ![q] = Append(@,
                        [status |-> wrapper[q].status, bytes |-> wrapper[q].bytes,
                         id |-> bound[q]])]
                ELSE lines
    /\ Goto(q, "finish")
    /\ UNCHANGED <<sharedVars, contextVars, writerVars, endVars, seen>>

\* Mutant: the recovered panic is not passed on.
EmitAndRecover(q) ==
    /\ pc[q] = "unwind"
    /\ lines' = IF Loud(level)
                THEN [lines EXCEPT ![q] = Append(@,
                        [status |-> wrapper[q].status, bytes |-> wrapper[q].bytes,
                         id |-> bound[q]])]
                ELSE lines
    /\ panicking' = [panicking EXCEPT ![q] = FALSE]
    /\ Goto(q, "finish")
    /\ UNCHANGED <<sharedVars, contextVars, writerVars, ended, seen>>

\* The deferred function of the access log: the line, filtered by the level
\* in force now, and the panic goes on.
EmitAccessLog(q) ==
    /\ pc[q] = "unwind"
    /\ lines' = IF Loud(level)
                THEN [lines EXCEPT ![q] = Append(@,
                        [status |-> wrapper[q].status, bytes |-> wrapper[q].bytes,
                         id |-> bound[q]])]
                ELSE lines
    /\ Goto(q, "finish")
    /\ UNCHANGED <<sharedVars, contextVars, writerVars, endVars, seen>>

\* finishRequest; after a panic net/http closes the connection instead, and
\* what was not flushed is lost; what was, may be all of the answer.  The locals of the chain are gone.
Finish(q) ==
    /\ pc[q] = "finish"
    /\ conn' = IF panicking[q] THEN conn
               ELSE [conn EXCEPT ![q] = ConnFinish(@)]
    /\ Goto(q, "done")
    /\ bound' = [bound EXCEPT ![q] = None]
    /\ deadline' = [deadline EXCEPT ![q] = 0]
    /\ ops' = [ops EXCEPT ![q] = 0]
    /\ wrapper' = [wrapper EXCEPT ![q] = NewWrapper]
    /\ panicking' = [panicking EXCEPT ![q] = FALSE]
    /\ seen' = [seen EXCEPT ![q].timeouts = {}]
    /\ UNCHANGED <<sharedVars, req, id, early, ended, lines>>

-----------------------------------------------------------------------------
(* The handlers.                                                           *)

\* One call of the handler to its responseWriter.
Called(q) ==
    /\ pc[q] = "handler"
    /\ ops' = [ops EXCEPT ![q] = @ + 1]
    /\ UNCHANGED <<sharedVars, pc, contextVars, endVars, lines, seen>>

WriteHeader(q, s) ==
    /\ Called(q)
    /\ wrapper' = [wrapper EXCEPT ![q] = WrapWriteHeader(@, s)]
    /\ conn' = [conn EXCEPT ![q] = ConnWriteHeader(@, s)]
    /\ early' = [early EXCEPT ![q] = @ \/ (Informational(s) /\ ~wrapper[q].wrote)]

Write(q) ==
    /\ Called(q)
    /\ \E n \in Accepted(conn[q]), sent \in BOOLEAN :
        /\ wrapper' = [wrapper EXCEPT ![q] = WrapWrite(@, n)]
        /\ conn' = [conn EXCEPT ![q] = ConnWrite(@, n, sent)]
    /\ UNCHANGED early

Flush(q) ==
    /\ Called(q)
    /\ conn' = [conn EXCEPT ![q] = ConnFlush(@)]
    /\ early' = [early EXCEPT ![q] = @ \/ ~wrapper[q].wrote]
    /\ UNCHANGED wrapper

Hijack(q) ==
    /\ Called(q)
    /\ conn' = [conn EXCEPT ![q] = ConnHijack(@)]
    /\ early' = [early EXCEPT ![q] = TRUE]
    /\ UNCHANGED wrapper

End(q, how) ==
    /\ pc[q] = "handler"
    /\ Goto(q, "unwind")
    /\ panicking' = [panicking EXCEPT ![q] = (how = "panicked")]
    /\ ended' = [ended EXCEPT ![q] = how]
    /\ UNCHANGED <<sharedVars, contextVars, writerVars, lines, seen>>

\* The handler of "/".
Root(q) ==
    /\ req[q].route = "/"
    /\ \/ ops[q] = 0 /\ WriteHeader(q, 204)
       \/ ops[q] = 1 /\ End(q, "returned")

\* Mutant: HEAD is refused like POST.
LivenessStatusGetOnly(method) == IF method = "GET" THEN 200 ELSE 405

LivenessStatus(method) == IF method \in {"GET", "HEAD"} THEN 200 ELSE 405

\* HEAD is answered without a body; an error of Write is ignored.
Liveness(q) ==
    /\ req[q].route = "/health"
    /\ \/ ops[q] = 0 /\ WriteHeader(q, LivenessStatus(req[q].method))
       \/ ops[q] = 1 /\ req[q].method # "HEAD" /\ Write(q)
       \/ ops[q] = (IF req[q].method = "HEAD" THEN 1 ELSE 2) /\ End(q, "returned")

\* Any handler that leaves the header X-Request-ID alone: it writes, flushes or
\* hijacks in any order, returns or panics.
Other(q) ==
    /\ req[q].route = "other"
    /\ \/ /\ ops[q] < MaxOps
          /\ \/ \E s \in Statuses : WriteHeader(q, s)
             \/ Write(q) \/ Flush(q) \/ Hijack(q)
       \/ \E how \in {"returned", "panicked"} : End(q, how)

-----------------------------------------------------------------------------

RequestID(q) == ClientID(q) \/ GenerateID(q) \/ GeneratorFails(q)

Serve(q) ==
    \/ Arrive(q)
    \/ RequestID(q) \/ AccessLog(q) \/ RequestTimeout(q)
    \/ Root(q) \/ Liveness(q) \/ Other(q)
    \/ EmitAccessLog(q) \/ Finish(q)

Next ==
    \/ \E l \in Levels : ApplyLevel(l)
    \/ \E d \in Timeouts \cup {0} : ApplyRequestTimeout(d)
    \/ \E q \in Requests : Serve(q)

Spec == Init /\ [][Next]_vars

-----------------------------------------------------------------------------
(* Properties.                                                             *)

Writers == [status : {0} \cup Statuses, wrote : BOOLEAN, bytes : Nat]
Ids     == [source : Sources, text : WellFormed \cup Requests] \cup {None}
Conns   == [status : {0} \cup Statuses, wrote : BOOLEAN, bytes : Nat,
            header : Ids, id : Ids, sent : BOOLEAN, hijacked : BOOLEAN,
            finished : BOOLEAN]
Lines   == [status : {0} \cup Statuses, bytes : Nat, id : Ids]

\* Every variable stays in its range.
TypeOK ==
    /\ level \in Levels /\ timeout \in Timeouts /\ applies \in Nat
    /\ pc \in [Requests -> {"new", "request_id", "access_log", "request_timeout",
                            "handler", "unwind", "finish", "done"}]
    /\ req \in [Requests -> Arrivals]
    /\ id \in [Requests -> Ids] /\ bound \in [Requests -> Ids]
    /\ deadline \in [Requests -> {0} \cup Timeouts]
    /\ ops \in [Requests -> Nat]
    /\ panicking \in [Requests -> BOOLEAN] /\ early \in [Requests -> BOOLEAN]
    /\ wrapper \in [Requests -> Writers]
    /\ conn \in [Requests -> Conns]
    /\ lines \in [Requests -> Seq(Lines)]
    /\ ended \in [Requests -> {"no", "returned", "panicked"}]
    /\ seen \in [Requests -> [timeouts : SUBSET Timeouts, loud : BOOLEAN]]

\* The answer has left, as far as it ever will.
Answered(q) == pc[q] = "done" /\ conn[q].sent

\* The status in the log is the one the client got, and a line without a
\* status stands for the 200 of net/http, unless the handler flushed or sent
\* a 1xx before its first status, or hijacked: those the wrapper does not see.
LoggedStatusTrue ==
    \A q \in Requests : Answered(q) /\ ~early[q] =>
        \A i \in DOMAIN lines[q] :
            conn[q].status = IF lines[q][i].status = 0 THEN 200
                             ELSE lines[q][i].status

\* The bytes in the log are those net/http accepted for the body, whatever the
\* handler tried to write, and however it ended.
LoggedBytesTrue ==
    \A q \in Requests : pc[q] = "done" =>
        \A i \in DOMAIN lines[q] : lines[q][i].bytes = conn[q].bytes

\* A request that got an id is logged once, if the level allowed it all along,
\* and never twice, whether its handler returned or panicked; one that got
\* none is not logged.
LoggedOnce ==
    \A q \in Requests :
        /\ Len(lines[q]) <= 1
        /\ id[q] = None => lines[q] = <<>>
        /\ pc[q] = "done" /\ id[q] # None /\ seen[q].loud => Len(lines[q]) = 1

\* A panic of the handler reaches net/http through the whole chain: finishRequest
\* is not reached, so what was not flushed is not sent, and the connection is
\* closed.  (A client may still have a complete answer, flushed by the handler
\* before it panicked.)
PanicAborts ==
    \A q \in Requests : ended[q] = "panicked" => ~conn[q].finished

\* The client and the log get the same id, the one the handler saw; no id of a
\* client is taken over unless it is well-formed.  Only a request whose id
\* could not be generated goes without, and it is answered 500.  (A handler
\* could set another X-Request-ID in its response; this one does not.)
IDReturned ==
    \A q \in Requests : Answered(q) =>
        /\ conn[q].id = id[q]
        /\ \A i \in DOMAIN lines[q] : lines[q][i].id = id[q]
        /\ id[q] = None => conn[q].status = 500
        /\ id[q] # None /\ id[q].source = "client" => id[q].text \in WellFormed

\* A handler is given a timeout that was in force while its request went
\* through the chain, and a reload does not change it any more.
DeadlineFresh ==
    \A q \in Requests :
        pc[q] \in {"handler", "unwind"} => deadline[q] \in seen[q].timeouts

\* "/" and "/health" answer what their docs say and are logged so, whatever is
\* reloaded meanwhile.
OwnRoutesExact ==
    \A q \in Requests :
        pc[q] = "done" /\ id[q] # None /\ req[q].route # "other" =>
            /\ conn[q].finished
            /\ conn[q].status =
                    IF req[q].route = "/" THEN 204
                    ELSE IF req[q].method \in {"GET", "HEAD"} THEN 200 ELSE 405
            /\ req[q].route = "/" \/ req[q].method = "HEAD" => conn[q].bytes = 0
            /\ \A i \in DOMAIN lines[q] : lines[q][i].status = conn[q].status

=============================================================================
