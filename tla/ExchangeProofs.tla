---------------------------- MODULE ExchangeProofs ----------------------------
(***************************************************************************)
(* Theorems about Exchange for every set of requests and of arrivals,      *)
(* every pattern of ids and every set of timeouts, and for "other"         *)
(* handlers that make as many calls as they like.                          *)
(***************************************************************************)
EXTENDS Exchange, TLAPS

-----------------------------------------------------------------------------
(* Types.                                                                  *)

\* Fields that take values of their types leave a response a response.
LEMMA ConnFields ==
  \A c \in Conns :
    /\ \A i \in Ids, s \in {0} \cup Statuses :
         [c EXCEPT !.wrote = TRUE, !.status = s, !.id = i] \in Conns
    /\ \A n \in Nat, b \in BOOLEAN : [c EXCEPT !.bytes = n, !.sent = b] \in Conns
    /\ \A b \in BOOLEAN : [c EXCEPT !.hijacked = TRUE, !.sent = b] \in Conns
    /\ [c EXCEPT !.sent = TRUE, !.finished = TRUE] \in Conns
    /\ [c EXCEPT !.sent = TRUE] \in Conns
    /\ \A i \in Ids : [c EXCEPT !.header = i] \in Conns
<1> SUFFICES ASSUME NEW c \in Conns
    PROVE  /\ \A i \in Ids, s \in {0} \cup Statuses :
                [c EXCEPT !.wrote = TRUE, !.status = s, !.id = i] \in Conns
           /\ \A n \in Nat, b \in BOOLEAN :
                [c EXCEPT !.bytes = n, !.sent = b] \in Conns
           /\ \A b \in BOOLEAN : [c EXCEPT !.hijacked = TRUE, !.sent = b] \in Conns
           /\ [c EXCEPT !.sent = TRUE, !.finished = TRUE] \in Conns
           /\ [c EXCEPT !.sent = TRUE] \in Conns
           /\ \A i \in Ids : [c EXCEPT !.header = i] \in Conns
  OBVIOUS
<1>1. \A i \in Ids, s \in {0} \cup Statuses :
         [c EXCEPT !.wrote = TRUE, !.status = s, !.id = i] \in Conns
  BY Zenon DEF Conns
<1>2. \A n \in Nat, b \in BOOLEAN : [c EXCEPT !.bytes = n, !.sent = b] \in Conns
  BY Zenon DEF Conns
<1>3. \A b \in BOOLEAN : [c EXCEPT !.hijacked = TRUE, !.sent = b] \in Conns
  BY Zenon DEF Conns
<1>4. [c EXCEPT !.sent = TRUE, !.finished = TRUE] \in Conns
  BY Zenon DEF Conns
<1>5. [c EXCEPT !.sent = TRUE] \in Conns
  BY Zenon DEF Conns
<1>6. \A i \in Ids : [c EXCEPT !.header = i] \in Conns
  BY Zenon DEF Conns
<1> QED BY <1>1, <1>2, <1>3, <1>4, <1>5, <1>6

\* So does a status.
LEMMA FirstStatusTypes ==
  ASSUME NEW c \in Conns
  PROVE  /\ \A s \in Statuses : ConnWriteHeader(c, s) \in Conns
         /\ ConnWriteHeader(c, 200) \in Conns
<1>1. ASSUME NEW s \in Statuses PROVE ConnWriteHeader(c, s) \in Conns
  <2>1. c.header \in Ids
    BY DEF Conns
  <2> QED BY <2>1, ConnFields DEF ConnWriteHeader
<1>2. 200 \in Statuses
  BY DEF Statuses
<1> QED BY <1>1, <1>2

\* What net/http makes of a call is a response again.
LEMMA ConnTypes ==
  ASSUME NEW c \in Conns, NEW s \in Statuses, NEW n \in {0, 1}, NEW sent \in BOOLEAN
  PROVE  /\ ConnWriteHeader(c, s) \in Conns /\ ConnWrite(c, n, sent) \in Conns
         /\ ConnFlush(c) \in Conns /\ ConnHijack(c) \in Conns
         /\ ConnFinish(c) \in Conns
<1>1. ConnWriteHeader(c, s) \in Conns
  BY FirstStatusTypes
<1>2. ConnWriteHeader(c, 200) \in Conns
  BY FirstStatusTypes
<1>3. ConnWrite(c, n, sent) \in Conns
  <2>1. ConnWriteHeader(c, 200).bytes + n \in Nat
    BY <1>2 DEF Conns
  <2>2. (c.sent \/ (sent /\ n > 0)) \in BOOLEAN
    OBVIOUS
  <2>3. \A m \in Nat, b \in BOOLEAN :
            [ConnWriteHeader(c, 200) EXCEPT !.bytes = m, !.sent = b] \in Conns
    BY <1>2, ConnFields, Zenon
  <2> QED BY <2>1, <2>2, <2>3, Zenon DEF ConnWrite
<1>4. ConnFlush(c) \in Conns /\ ConnFinish(c) \in Conns
  BY <1>2, ConnFields, Zenon DEF ConnFlush, ConnFinish
<1>5. ConnHijack(c) \in Conns
  <2>1. (c.sent \/ c.wrote) \in BOOLEAN
    OBVIOUS
  <2>2. \A b \in BOOLEAN : [c EXCEPT !.hijacked = TRUE, !.sent = b] \in Conns
    BY ConnFields, Zenon
  <2>3. [c EXCEPT !.hijacked = TRUE, !.sent = c.sent \/ c.wrote] \in Conns
    BY <2>1, <2>2, Zenon
  <2> QED BY <2>3 DEF ConnHijack
<1> QED BY <1>1, <1>3, <1>4, <1>5

\* So does the wrapper.
LEMMA WrapperTypes ==
  ASSUME NEW w \in Writers, NEW s \in Statuses, NEW n \in {0, 1}
  PROVE  WrapWriteHeader(w, s) \in Writers /\ WrapWrite(w, n) \in Writers
<1>1. \A t \in Statuses : WrapWriteHeader(w, t) \in Writers
  BY DEF WrapWriteHeader, Writers
<1>2. WrapWriteHeader(w, 200) \in Writers
  BY <1>1 DEF Statuses
<1> QED BY <1>1, <1>2 DEF WrapWrite, Writers

\* An id that a request gets is one, and not None.
LEMMA IdsGiven ==
  ASSUME TypeOK, NEW q \in Requests
  PROVE  /\ Accepts(req[q].offer) =>
              LET v == [source |-> "client", text |-> Head(req[q].offer)]
              IN  v \in Ids /\ v # None /\ v.text \in WellFormed
         /\ LET v == [source |-> "generated", text |-> q]
            IN  v \in Ids /\ v # None
BY NoneAssumption DEF TypeOK, Ids, Accepts, Sources

\* Every action keeps the types.
LEMMA TypeStep == TypeOK /\ [Next]_vars => TypeOK'
<1> SUFFICES ASSUME TypeOK, [Next]_vars PROVE TypeOK'
  OBVIOUS
<1> USE DEF TypeOK, sharedVars, contextVars, writerVars, endVars
<1>1. ASSUME NEW l \in Levels, ApplyLevel(l) PROVE TypeOK'
  <2>1. \A r \in Requests : seen'[r] \in [timeouts : SUBSET Timeouts, loud : BOOLEAN]
    <3> SUFFICES ASSUME NEW r \in Requests
        PROVE  seen'[r] \in [timeouts : SUBSET Timeouts, loud : BOOLEAN]
      OBVIOUS
    <3>1. (seen[r].loud /\ Loud(l)) \in BOOLEAN
      OBVIOUS
    <3>2. seen'[r] = seen[r] \/ seen'[r] = [seen[r] EXCEPT !.loud = @ /\ Loud(l)]
      BY <1>1, Zenon DEF ApplyLevel
    <3> QED BY <3>1, <3>2, Zenon
  <2>2. seen' \in [Requests -> [timeouts : SUBSET Timeouts, loud : BOOLEAN]]
    BY <1>1, <2>1 DEF ApplyLevel
  <2> QED BY <1>1, <2>2 DEF ApplyLevel
<1>2. ASSUME NEW d \in Timeouts \cup {0}, ApplyRequestTimeout(d) PROVE TypeOK'
  <2>1. d \in Timeouts /\ timeout' = d
    BY <1>2 DEF ApplyRequestTimeout
  <2>2. \A r \in Requests : seen'[r] \in [timeouts : SUBSET Timeouts, loud : BOOLEAN]
    <3> SUFFICES ASSUME NEW r \in Requests
        PROVE  seen'[r] \in [timeouts : SUBSET Timeouts, loud : BOOLEAN]
      OBVIOUS
    <3>1. seen[r].timeouts \cup {d} \in SUBSET Timeouts
      BY <2>1
    <3>2. \/ seen'[r] = seen[r]
          \/ seen'[r] = [seen[r] EXCEPT !.timeouts = @ \cup {d}]
      BY <1>2, Zenon DEF ApplyRequestTimeout
    <3>3. seen[r] \in [timeouts : SUBSET Timeouts, loud : BOOLEAN]
      OBVIOUS
    <3> QED BY <3>1, <3>2, <3>3, Zenon
  <2>3. seen' \in [Requests -> [timeouts : SUBSET Timeouts, loud : BOOLEAN]]
    BY <1>2, <2>2 DEF ApplyRequestTimeout
  <2>4. applies' \in Nat /\ UNCHANGED <<level, pc, contextVars, writerVars,
                                        endVars, lines>>
    BY <1>2 DEF ApplyRequestTimeout
  <2> QED BY <2>1, <2>3, <2>4
<1> SUFFICES ASSUME NEW q \in Requests, Serve(q) PROVE TypeOK'
  BY <1>1, <1>2 DEF Next, vars
<1>3. CASE Arrive(q)
  BY <1>3 DEF Arrive, Goto, After, Loud
<1>4. ASSUME NEW v \in Ids, UseID(q, v) PROVE conn' \in [Requests -> Conns]
  <2>1. [conn[q] EXCEPT !.header = v] \in Conns
    BY ConnFields
  <2> QED BY <1>4, <2>1 DEF UseID
<1>5. CASE ClientID(q) \/ GenerateID(q)
  <2>1. PICK v \in Ids : UseID(q, v)
    BY <1>5, IdsGiven DEF ClientID, GenerateID
  <2> QED BY <1>4, <1>5, <2>1 DEF ClientID, GenerateID, UseID, Goto, After
<1>6. CASE GeneratorFails(q)
  <2>1. 500 \in Statuses /\ conn[q] \in Conns
    BY DEF Statuses
  <2>2. ConnWriteHeader(conn[q], 500) \in Conns
    BY <2>1, ConnTypes
  <2>3. ConnError(conn[q]) \in Conns
    <3>1. \A c \in Conns : ConnWrite(c, 1, FALSE) \in Conns
      BY <2>1, ConnTypes
    <3> QED BY <2>2, <3>1 DEF ConnError
  <2> QED BY <1>6, <2>3 DEF GeneratorFails, Goto
<1>7. CASE AccessLog(q)
  BY <1>7 DEF AccessLog, Goto, After
<1>8. CASE RequestTimeout(q)
  BY <1>8 DEF RequestTimeout, Goto, After
<1>9. CASE EmitAccessLog(q)
  <2>1. [status |-> wrapper[q].status, bytes |-> wrapper[q].bytes,
         id |-> bound[q]] \in Lines
    BY DEF Lines, Writers
  <2>2. lines' \in [Requests -> Seq(Lines)]
    BY <1>9, <2>1 DEF EmitAccessLog
  <2> QED BY <1>9, <2>2 DEF EmitAccessLog, Goto
<1>10. CASE Finish(q)
  <2>1. ConnFinish(conn[q]) \in Conns
    <3>1. 200 \in Statuses /\ 0 \in {0, 1} /\ FALSE \in BOOLEAN
      BY DEF Statuses
    <3> QED BY <3>1, ConnTypes
  <2>2. conn' \in [Requests -> Conns]
    BY <1>10, <2>1 DEF Finish
  <2> QED BY <1>10, <2>2 DEF Finish, Goto, NewWrapper, Writers, Ids
<1>11. ASSUME NEW s \in Statuses, WriteHeader(q, s) PROVE TypeOK'
  <2>1. /\ ConnWriteHeader(conn[q], s) \in Conns
        /\ WrapWriteHeader(wrapper[q], s) \in Writers
    BY ConnTypes, WrapperTypes
  <2> QED BY <1>11, <2>1 DEF WriteHeader, Called, Informational
<1>12. CASE Write(q)
  <2>1. PICK n \in Accepted(conn[q]), sent \in BOOLEAN :
          /\ wrapper' = [wrapper EXCEPT ![q] = WrapWrite(@, n)]
          /\ conn' = [conn EXCEPT ![q] = ConnWrite(@, n, sent)]
    BY <1>12 DEF Write
  <2>2. n \in {0, 1} /\ 200 \in Statuses
    BY DEF Accepted, Statuses
  <2>3. ConnWrite(conn[q], n, sent) \in Conns /\ WrapWrite(wrapper[q], n) \in Writers
    BY <2>2, ConnTypes, WrapperTypes
  <2> QED BY <1>12, <2>1, <2>3 DEF Write, Called
<1>13. CASE Flush(q)
  <2>1. ConnFlush(conn[q]) \in Conns
    <3>1. 200 \in Statuses /\ 0 \in {0, 1} /\ FALSE \in BOOLEAN
      BY DEF Statuses
    <3> QED BY <3>1, ConnTypes
  <2> QED BY <1>13, <2>1 DEF Flush, Called, Writers
<1>14. CASE Hijack(q)
  <2>1. ConnHijack(conn[q]) \in Conns
    <3>1. 200 \in Statuses /\ 0 \in {0, 1} /\ FALSE \in BOOLEAN
      BY DEF Statuses
    <3> QED BY <3>1, ConnTypes
  <2> QED BY <1>14, <2>1 DEF Hijack, Called
<1>15. ASSUME NEW how \in {"returned", "panicked"}, End(q, how) PROVE TypeOK'
  BY <1>15 DEF End, Goto
<1>16. LivenessStatus(req[q].method) \in Statuses /\ 204 \in Statuses
  BY DEF LivenessStatus, Statuses
<1> QED
  BY <1>3, <1>4, <1>5, <1>6, <1>7, <1>8, <1>9, <1>10, <1>11, <1>12, <1>13,
     <1>14, <1>15, <1>16 DEF Serve, RequestID, Root, Liveness, Other

\* Every variable of the specification stays in its range.
THEOREM TypeCorrect == Spec => []TypeOK
<1>1. Init => TypeOK
  BY TimeoutsAssumption DEF Init, TypeOK, NewConn, NewWrapper, Conns, Writers, Ids
<1> QED BY <1>1, TypeStep, PTL DEF Spec

-----------------------------------------------------------------------------
(* The inductive invariant, for each request.                              *)

\* The response of net/http: the header was given the id before the status was
\* final, nothing is sent without a status, and only Finish ends it.
ConnInv(q) ==
    /\ conn[q].header = id[q]
    /\ conn[q].wrote => conn[q].id = id[q] /\ conn[q].status # 0
    /\ ~conn[q].wrote => conn[q].status = 0
    /\ conn[q].sent => conn[q].wrote
    /\ pc[q] # "done" => ~conn[q].finished

\* Nothing has happened yet but what the chain itself does.
Untouched(q) ==
    /\ ~conn[q].wrote /\ ~conn[q].hijacked /\ conn[q].bytes = 0
    /\ ~wrapper[q].wrote /\ wrapper[q].status = 0 /\ wrapper[q].bytes = 0
    /\ lines[q] = <<>> /\ ops[q] = 0
    /\ ended[q] = "no" /\ ~early[q] /\ ~panicking[q]

\* Where the goroutine is in the chain.
ChainInv(q) ==
    /\ pc[q] \in {"new", "request_id"} => id[q] = None /\ Untouched(q)
    /\ pc[q] \in {"access_log", "request_timeout"} => id[q] # None /\ Untouched(q)
    /\ pc[q] \in {"handler", "unwind"} => id[q] # None /\ lines[q] = <<>>
    /\ pc[q] \in {"request_timeout", "handler", "unwind"} => bound[q] = id[q]
    /\ pc[q] = "handler" => ended[q] = "no"
    /\ pc[q] = "unwind" => ended[q] # "no"
    /\ pc[q] # "done" => (panicking[q] <=> ended[q] = "panicked")
    /\ id[q] # None /\ id[q].source = "client" => id[q].text \in WellFormed

\* The timeout that the request is given, or may still be given.
DeadlineInv(q) ==
    /\ Entering(q) => timeout \in seen[q].timeouts
    /\ pc[q] \in {"handler", "unwind"} => deadline[q] \in seen[q].timeouts

\* A request for which the level was high enough all along finds it so.
LoudInv(q) ==
    pc[q] \notin {"new", "finish", "done"} /\ seen[q].loud => Loud(level)

\* What the wrapper knows of the response.
WriterInv(q) ==
    id[q] # None /\ pc[q] # "done" =>
        /\ wrapper[q].bytes = conn[q].bytes
        /\ ~early[q] => /\ ~conn[q].hijacked
                        /\ wrapper[q].wrote <=> conn[q].wrote
                        /\ wrapper[q].status = conn[q].status

\* A request that got no id.
RefusedInv(q) ==
    id[q] = None =>
        /\ lines[q] = <<>> /\ ended[q] = "no"
        /\ (pc[q] \in {"finish", "done"} => conn[q].wrote /\ conn[q].status = 500)

\* The line, once the chain has unwound.
LineInv(q) ==
    /\ pc[q] \in {"finish", "done"} /\ id[q] # None /\ seen[q].loud => lines[q] # <<>>
    /\ lines[q] # <<>> =>
        /\ pc[q] \in {"finish", "done"}
        /\ Len(lines[q]) = 1
        /\ lines[q][1].id = id[q] /\ lines[q][1].bytes = conn[q].bytes
        /\ pc[q] = "finish" => lines[q][1].status = wrapper[q].status
        /\ pc[q] = "done" /\ conn[q].sent /\ ~early[q] =>
                conn[q].status = IF lines[q][1].status = 0 THEN 200
                                 ELSE lines[q][1].status

\* A panic and a finished request exclude each other.
EndInv(q) == ended[q] = "panicked" => ~conn[q].finished

Due(q) == IF req[q].route = "/" THEN 204 ELSE LivenessStatus(req[q].method)

\* The handlers of "/" and "/health" write their status first.
OwnInv(q) ==
    req[q].route # "other" =>
        /\ ~early[q] /\ ended[q] # "panicked"
        /\ id[q] # None /\ (req[q].route = "/" \/ req[q].method = "HEAD") =>
                conn[q].bytes = 0
        /\ pc[q] = "handler" /\ ops[q] = 0 => ~conn[q].wrote
        /\ (\/ pc[q] = "handler" /\ ops[q] > 0
            \/ pc[q] \in {"unwind", "finish", "done"} /\ id[q] # None) =>
                conn[q].wrote /\ conn[q].status = Due(q) /\ ~conn[q].hijacked
        /\ pc[q] = "done" /\ id[q] # None =>
                /\ conn[q].finished
                /\ \A i \in DOMAIN lines[q] : lines[q][i].status = Due(q)

Sound(q) ==
    /\ ConnInv(q) /\ ChainInv(q) /\ DeadlineInv(q) /\ LoudInv(q)
    /\ WriterInv(q) /\ RefusedInv(q) /\ LineInv(q) /\ EndInv(q) /\ OwnInv(q)

IInv == TypeOK /\ \A q \in Requests : Sound(q)

\* What is of q, apart from the timeouts it has seen.
Same(q) ==
    UNCHANGED <<pc[q], req[q], id[q], bound[q], deadline[q], ops[q], panicking[q],
                wrapper[q], conn[q], lines[q], ended[q], early[q]>>

\* A step that leaves q alone keeps what is known of it.
LEMMA Frame ==
  ASSUME NEW q \in Requests, Sound(q), Same(q), seen'[q] = seen[q],
         timeout' = timeout, level' = level
  PROVE  Sound(q)'
BY DEF Same, Sound, ConnInv, ChainInv, DeadlineInv, LoudInv, WriterInv, RefusedInv,
   LineInv, EndInv, OwnInv, Untouched, Entering, Due

\* The steps of a request leave the others and the timeout alone.
LEMMA OthersStay ==
  ASSUME TypeOK, NEW q \in Requests, Serve(q), NEW r \in Requests \ {q}
  PROVE  Same(r) /\ seen'[r] = seen[r] /\ UNCHANGED <<timeout, level>>
<1> USE DEF TypeOK, Same, sharedVars, contextVars, writerVars, endVars, Goto
<1>1. CASE Arrive(q)
  BY <1>1 DEF Arrive
<1>2. CASE RequestID(q)
  BY <1>2 DEF RequestID, ClientID, GenerateID, GeneratorFails, UseID
<1>3. CASE AccessLog(q) \/ RequestTimeout(q)
  BY <1>3 DEF AccessLog, RequestTimeout
<1>4. CASE EmitAccessLog(q) \/ Finish(q)
  BY <1>4 DEF EmitAccessLog, Finish
<1>5. ASSUME NEW s, WriteHeader(q, s)
      PROVE  Same(r) /\ seen'[r] = seen[r] /\ UNCHANGED <<timeout, level>>
  BY <1>5 DEF WriteHeader, Called
<1>6. CASE Write(q) \/ Flush(q) \/ Hijack(q)
  BY <1>6 DEF Write, Flush, Hijack, Called
<1>7. ASSUME NEW how, End(q, how)
      PROVE  Same(r) /\ seen'[r] = seen[r] /\ UNCHANGED <<timeout, level>>
  BY <1>7 DEF End
<1> QED
  BY <1>1, <1>2, <1>3, <1>4, <1>5, <1>6, <1>7 DEF Serve, Root, Liveness, Other

\* A reload touches no request.
LEMMA ReloadStep ==
  ASSUME IInv, NEW q \in Requests,
         \/ \E l \in Levels : ApplyLevel(l)
         \/ \E d \in Timeouts \cup {0} : ApplyRequestTimeout(d)
  PROVE  Sound(q)'
<1>1. Sound(q) /\ Same(q)
  BY DEF IInv, Same, ApplyLevel, ApplyRequestTimeout, sharedVars, contextVars,
     writerVars, endVars
<1>2. seen[q] \in [timeouts : SUBSET Timeouts, loud : BOOLEAN]
  BY DEF IInv, TypeOK
<1>3. /\ seen[q].timeouts \subseteq seen'[q].timeouts
      /\ Entering(q) => timeout' \in seen'[q].timeouts \/ timeout' = timeout
      /\ pc[q] \in {"finish", "done"} => seen'[q].loud = seen[q].loud
      /\ LoudInv(q)'
  <2>1. ASSUME NEW l \in Levels, ApplyLevel(l)
        PROVE  /\ seen'[q].timeouts = seen[q].timeouts /\ timeout' = timeout
               /\ pc[q] \in {"finish", "done"} => seen'[q].loud = seen[q].loud
               /\ LoudInv(q)'
    BY <1>1, <1>2, <2>1 DEF ApplyLevel, Same, LoudInv, Loud, Sound
  <2>2. ASSUME NEW d \in Timeouts \cup {0}, ApplyRequestTimeout(d)
        PROVE  /\ seen[q].timeouts \subseteq seen'[q].timeouts
               /\ Entering(q) => timeout' \in seen'[q].timeouts
               /\ seen'[q].loud = seen[q].loud /\ level' = level
    BY <1>2, <2>2 DEF ApplyRequestTimeout, Entering
  <2> QED BY <1>1, <2>1, <2>2 DEF Sound, LoudInv, Same
<1>4. DeadlineInv(q)' /\ LineInv(q)'
  BY <1>1, <1>3 DEF Sound, DeadlineInv, LineInv, Same, Entering
<1> QED
  BY <1>1, <1>3, <1>4 DEF Same, Sound, ConnInv, ChainInv, WriterInv, RefusedInv,
     EndInv, OwnInv, Untouched, Due

\* The first status that is final settles status and id.
LEMMA WriteHeaderEffect ==
  ASSUME NEW c \in Conns, NEW s \in Statuses
  PROVE  LET d == ConnWriteHeader(c, s) IN
         /\ d.header = c.header /\ d.bytes = c.bytes /\ (d.sent <=> c.sent)
         /\ (d.hijacked <=> c.hijacked) /\ (d.finished <=> c.finished)
         /\ c.hijacked \/ c.wrote \/ s = 103 =>
              (d.wrote <=> c.wrote) /\ d.status = c.status /\ d.id = c.id
         /\ ~(c.hijacked \/ c.wrote \/ s = 103) =>
              d.wrote /\ d.status = s /\ d.id = c.header
<1>1. CASE c.hijacked \/ c.wrote \/ s = 103
  BY <1>1 DEF ConnWriteHeader, Informational
<1>2. CASE ~(c.hijacked \/ c.wrote \/ s = 103)
  <2>1. ConnWriteHeader(c, s) = [c EXCEPT !.wrote = TRUE, !.status = s, !.id = c.header]
    BY <1>2 DEF ConnWriteHeader, Informational
  <2> QED BY <1>2, <2>1 DEF Conns
<1> QED BY <1>1, <1>2

\* A body, a flush and the end bring the status 200 with them.
LEMMA WriteEffect ==
  ASSUME NEW c \in Conns, NEW n \in {0, 1}, NEW sent \in BOOLEAN
  PROVE  LET h == ConnWriteHeader(c, 200)
             w == ConnWrite(c, n, sent)
         IN  /\ w.bytes = c.bytes + n /\ (w.sent <=> c.sent \/ (sent /\ n > 0))
             /\ w.header = h.header /\ (w.wrote <=> h.wrote) /\ w.status = h.status
             /\ w.id = h.id /\ (w.hijacked <=> h.hijacked) /\ (w.finished <=> h.finished)
<1> DEFINE h == ConnWriteHeader(c, 200)
<1>1. h \in Conns /\ h.bytes = c.bytes
  <2>1. 200 \in Statuses
    BY DEF Statuses
  <2> QED BY <2>1, FirstStatusTypes, WriteHeaderEffect
<1>2. ConnWrite(c, n, sent) = [h EXCEPT !.bytes = @ + n,
                                        !.sent = c.sent \/ (sent /\ n > 0)]
  BY DEF ConnWrite
<1> HIDE DEF h
<1>3. LET w == ConnWrite(c, n, sent) IN
        /\ w.bytes = c.bytes + n /\ (w.sent <=> c.sent \/ (sent /\ n > 0))
        /\ w.header = h.header /\ (w.wrote <=> h.wrote) /\ w.status = h.status
        /\ w.id = h.id /\ (w.hijacked <=> h.hijacked) /\ (w.finished <=> h.finished)
  BY <1>1, <1>2 DEF Conns
<1> QED BY <1>3 DEF h

LEMMA FlushEffect ==
  ASSUME NEW c \in Conns, ~c.hijacked
  PROVE  LET h == ConnWriteHeader(c, 200)
             f == ConnFlush(c)
         IN  /\ f.sent /\ f.header = h.header /\ (f.wrote <=> h.wrote)
             /\ f.status = h.status /\ f.id = h.id /\ (f.hijacked <=> h.hijacked)
             /\ (f.finished <=> h.finished) /\ f.bytes = h.bytes
<1> DEFINE h == ConnWriteHeader(c, 200)
<1>1. h \in Conns
  BY FirstStatusTypes
<1>2. ConnFlush(c) = [h EXCEPT !.sent = TRUE]
  BY DEF ConnFlush
<1> HIDE DEF h
<1>3. LET f == ConnFlush(c) IN
        /\ f.sent /\ f.header = h.header /\ (f.wrote <=> h.wrote)
        /\ f.status = h.status /\ f.id = h.id /\ (f.hijacked <=> h.hijacked)
        /\ (f.finished <=> h.finished) /\ f.bytes = h.bytes
  BY <1>1, <1>2 DEF Conns
<1> QED BY <1>3 DEF h

LEMMA FinishEffect ==
  ASSUME NEW c \in Conns, ~c.hijacked
  PROVE  LET h == ConnWriteHeader(c, 200)
             f == ConnFinish(c)
         IN  /\ f.sent /\ f.finished /\ f.header = h.header /\ (f.wrote <=> h.wrote)
             /\ f.status = h.status /\ f.id = h.id /\ (f.hijacked <=> h.hijacked)
             /\ f.bytes = h.bytes
<1> DEFINE h == ConnWriteHeader(c, 200)
<1>1. h \in Conns
  BY FirstStatusTypes
<1>2. ConnFinish(c) = [h EXCEPT !.sent = TRUE, !.finished = TRUE]
  BY DEF ConnFinish
<1> HIDE DEF h
<1>3. LET f == ConnFinish(c) IN
        /\ f.sent /\ f.finished /\ f.header = h.header /\ (f.wrote <=> h.wrote)
        /\ f.status = h.status /\ f.id = h.id /\ (f.hijacked <=> h.hijacked)
        /\ f.bytes = h.bytes
  BY <1>1, <1>2 DEF Conns
<1> QED BY <1>3 DEF h

\* What http.Error makes of a response that nobody has touched.
LEMMA ErrorEffect ==
  ASSUME NEW c \in Conns, ~c.wrote, ~c.hijacked
  PROVE  LET e == ConnError(c) IN
         /\ e.wrote /\ e.status = 500 /\ e.header = c.header /\ e.id = c.header
         /\ (e.finished <=> c.finished)
<1>1. 500 \in Statuses /\ 200 \in Statuses /\ 1 \in {0, 1} /\ FALSE \in BOOLEAN
  BY DEF Statuses
<1>2. PICK d \in Conns : d = ConnWriteHeader(c, 500)
  BY <1>1, ConnTypes
<1>3. /\ d.wrote /\ d.status = 500 /\ d.header = c.header /\ d.id = c.header
      /\ (d.finished <=> c.finished)
  BY <1>1, <1>2, WriteHeaderEffect
<1>4. PICK h : h = ConnWriteHeader(d, 200)
  OBVIOUS
<1>5. /\ h.wrote /\ h.status = 500 /\ h.header = c.header /\ h.id = c.header
      /\ (h.finished <=> c.finished)
  BY <1>1, <1>3, <1>4, WriteHeaderEffect
<1>6. PICK w : w = ConnWrite(d, 1, FALSE)
  OBVIOUS
<1>7. /\ w.wrote /\ w.status = 500 /\ w.header = c.header /\ w.id = c.header
      /\ (w.finished <=> c.finished)
  <2>1. /\ w.header = h.header /\ (w.wrote <=> h.wrote) /\ w.status = h.status
        /\ w.id = h.id /\ (w.finished <=> h.finished)
    <3>1. LET v == ConnWrite(d, 1, FALSE)
              g == ConnWriteHeader(d, 200)
          IN  /\ v.header = g.header /\ (v.wrote <=> g.wrote) /\ v.status = g.status
              /\ v.id = g.id /\ (v.finished <=> g.finished)
      BY <1>1, WriteEffect, ZenonT(60)
    <3> QED BY <1>4, <1>6, <3>1, Zenon
  <2> QED BY <1>5, <2>1
<1>8. ConnError(c) = w
  BY <1>2, <1>6 DEF ConnError
<1> QED BY <1>7, <1>8

\* What the end makes of a response that was not hijacked.
LEMMA FinishSettles ==
  ASSUME NEW c \in Conns, ~c.hijacked, c.wrote => c.id = c.header
  PROVE  LET e == ConnFinish(c) IN
         /\ e.sent /\ e.finished /\ e.wrote /\ e.header = c.header
         /\ e.id = c.header /\ e.bytes = c.bytes /\ (e.hijacked <=> c.hijacked)
         /\ e.status = IF c.wrote THEN c.status ELSE 200
<1>1. 200 \in Statuses
  BY DEF Statuses
<1>2. LET h == ConnWriteHeader(c, 200) IN
      /\ h.wrote /\ h.header = c.header /\ h.id = c.header /\ h.bytes = c.bytes
      /\ (h.hijacked <=> c.hijacked)
      /\ h.status = IF c.wrote THEN c.status ELSE 200
  BY <1>1, WriteHeaderEffect
<1> QED BY <1>2, FinishEffect

\* The way in.
LEMMA EntryStep ==
  ASSUME IInv, NEW q \in Requests,
         Arrive(q) \/ RequestID(q) \/ AccessLog(q) \/ RequestTimeout(q)
  PROVE  Sound(q)'
<1> USE DEF IInv, TypeOK, Sound, ConnInv, ChainInv, DeadlineInv, LoudInv, WriterInv,
            RefusedInv, LineInv, EndInv, OwnInv, Untouched, Entering, Goto, After,
            sharedVars, contextVars, writerVars, endVars
<1>1. CASE Arrive(q)
  BY <1>1 DEF Arrive
<1>2. ASSUME NEW v \in Ids, v # None, UseID(q, v),
             v.source = "client" => v.text \in WellFormed,
             ClientID(q) \/ GenerateID(q)
      PROVE  Sound(q)'
  <2>1. /\ pc[q] = "request_id" /\ pc'[q] = "access_log"
        /\ id'[q] = v /\ conn'[q] = [conn[q] EXCEPT !.header = v]
        /\ UNCHANGED <<timeout, level, wrapper, ops, panicking, ended, early, lines, seen,
                       bound, deadline, req>>
    BY <1>2 DEF UseID, ClientID, GenerateID
  <2>2. conn[q] \in Conns
    OBVIOUS
  <2>3. /\ conn'[q].header = v /\ (conn'[q].wrote <=> conn[q].wrote)
        /\ conn'[q].status = conn[q].status /\ (conn'[q].sent <=> conn[q].sent)
        /\ (conn'[q].finished <=> conn[q].finished) /\ conn'[q].bytes = conn[q].bytes
        /\ (conn'[q].hijacked <=> conn[q].hijacked)
    BY <2>1, <2>2 DEF Conns
  <2>4. ConnInv(q)'
    BY <1>2, <2>1, <2>3
  <2>5. ChainInv(q)'
    BY <1>2, <2>1, <2>3
  <2>6. DeadlineInv(q)' /\ LoudInv(q)' /\ WriterInv(q)'
    BY <2>1, <2>3
  <2>7. RefusedInv(q)' /\ LineInv(q)' /\ EndInv(q)'
    BY <1>2, <2>1, <2>3
  <2>8. OwnInv(q)'
    BY <2>1, <2>3
  <2> QED BY <2>4, <2>5, <2>6, <2>7, <2>8
<1>3. CASE ClientID(q) \/ GenerateID(q)
  <2>1. \E v \in Ids : /\ v # None /\ UseID(q, v)
                       /\ v.source = "client" => v.text \in WellFormed
    <3>1. CASE ClientID(q)
      <4> DEFINE v == [source |-> "client", text |-> Head(req[q].offer)]
      <4>1. v \in Ids /\ v # None /\ v.text \in WellFormed /\ UseID(q, v)
        BY <3>1, IdsGiven DEF ClientID
      <4> QED BY <4>1
    <3>2. CASE GenerateID(q)
      <4> DEFINE v == [source |-> "generated", text |-> q]
      <4>1. v \in Ids /\ v # None /\ v.source # "client" /\ UseID(q, v)
        BY <3>2, IdsGiven DEF GenerateID
      <4> QED BY <4>1
    <3> QED BY <1>3, <3>1, <3>2
  <2> QED BY <1>2, <1>3, <2>1
<1>4. CASE GeneratorFails(q)
  <2>1. /\ pc[q] = "request_id" /\ pc'[q] = "finish"
        /\ conn'[q] = ConnError(conn[q])
        /\ UNCHANGED <<timeout, wrapper, ops, panicking, ended, early, lines, seen,
                       id, bound, deadline, req>>
    BY <1>4 DEF GeneratorFails
  <2>2. /\ conn[q] \in Conns /\ conn[q].header = None /\ ~conn[q].wrote
        /\ ~conn[q].hijacked /\ ~conn[q].sent /\ ~conn[q].finished
        /\ id[q] = None
    BY <2>1
  <2>3. /\ conn'[q].wrote /\ conn'[q].status = 500 /\ conn'[q].header = None
        /\ conn'[q].id = None /\ ~conn'[q].finished
    BY <2>1, <2>2, ErrorEffect
  <2>4. ConnInv(q)'
    BY <2>1, <2>2, <2>3
  <2>7. ChainInv(q)'
    BY <2>1, <2>2, <2>3
  <2>8. DeadlineInv(q)' /\ LoudInv(q)'
    BY <2>1, <2>2, <2>3
  <2>5. WriterInv(q)' /\ RefusedInv(q)' /\ LineInv(q)' /\ EndInv(q)'
    BY <2>1, <2>2, <2>3
  <2>6. OwnInv(q)'
    BY <2>1, <2>2, <2>3
  <2> QED BY <2>4, <2>5, <2>6, <2>7, <2>8
<1>5. CASE AccessLog(q)
  BY <1>5 DEF AccessLog
<1>6. CASE RequestTimeout(q)
  BY <1>6 DEF RequestTimeout
<1> QED BY <1>1, <1>3, <1>4, <1>5, <1>6 DEF RequestID

\* The way out.
LEMMA ExitStep ==
  ASSUME IInv, NEW q \in Requests, EmitAccessLog(q) \/ Finish(q)
  PROVE  Sound(q)'
<1> USE DEF IInv, TypeOK, Sound, ConnInv, ChainInv, DeadlineInv, LoudInv, WriterInv,
            RefusedInv, LineInv, EndInv, OwnInv, Untouched, Entering, Goto, Due,
            sharedVars, contextVars, writerVars, endVars
<1>1. CASE EmitAccessLog(q)
  <2>1. /\ pc[q] = "unwind" /\ pc'[q] = "finish" /\ lines[q] = <<>> /\ id[q] # None
        /\ bound[q] = id[q]
        /\ UNCHANGED <<timeout, wrapper, conn, panicking, ended, early, seen, id, req>>
    BY <1>1 DEF EmitAccessLog
  <2>2. \/ lines'[q] = <<>> /\ ~Loud(level)
        \/ lines'[q] = <<[status |-> wrapper[q].status, bytes |-> wrapper[q].bytes,
                          id |-> bound[q]]>>
    BY <1>1, <2>1 DEF EmitAccessLog
  <2>3. ConnInv(q)' /\ ChainInv(q)' /\ DeadlineInv(q)' /\ LoudInv(q)'
    BY <2>1
  <2>4. LineInv(q)'
    <3>1. CASE lines'[q] = <<>> /\ ~Loud(level)
      BY <2>1, <3>1
    <3>2. CASE lines'[q] = <<[status |-> wrapper[q].status,
                              bytes |-> wrapper[q].bytes, id |-> bound[q]]>>
      <4>1. /\ Len(lines'[q]) = 1 /\ lines'[q][1].id = bound[q]
            /\ lines'[q][1].bytes = wrapper[q].bytes
            /\ lines'[q][1].status = wrapper[q].status
        BY <3>2
      <4>2. lines'[q] # <<>>
        BY <3>2
      <4> QED BY <2>1, <4>1, <4>2
    <3> QED BY <2>2, <3>1, <3>2
  <2>5. WriterInv(q)' /\ RefusedInv(q)' /\ EndInv(q)'
    BY <2>1
  <2>6. OwnInv(q)'
    BY <2>1
  <2> QED BY <2>3, <2>4, <2>5, <2>6
<1>2. CASE Finish(q)
  <2>1. /\ pc[q] = "finish" /\ pc'[q] = "done"
        /\ conn'[q] = IF panicking[q] THEN conn[q] ELSE ConnFinish(conn[q])
        /\ seen'[q].loud = seen[q].loud
        /\ UNCHANGED <<timeout, ended, early, id, req, lines>>
    BY <1>2 DEF Finish
  <2>2. panicking[q] <=> ended[q] = "panicked"
    BY <2>1
  <2>3. conn[q] \in Conns /\ (conn[q].wrote => conn[q].id = conn[q].header)
    OBVIOUS
  <2>4. conn[q].header = id[q]
    OBVIOUS
  <2>5. ~conn[q].hijacked /\ ~panicking[q] =>
          /\ conn'[q].sent /\ conn'[q].finished /\ conn'[q].wrote
          /\ conn'[q].status = IF conn[q].wrote THEN conn[q].status ELSE 200
          /\ conn'[q].header = id[q] /\ conn'[q].id = id[q]
          /\ conn'[q].bytes = conn[q].bytes /\ (conn'[q].hijacked <=> conn[q].hijacked)
    BY <2>1, <2>3, <2>4, FinishSettles
  <2>6. conn[q].hijacked \/ panicking[q] => conn'[q] = conn[q]
    BY <2>1 DEF ConnFinish
  <2>7. ConnInv(q)' /\ ChainInv(q)' /\ DeadlineInv(q)' /\ LoudInv(q)'
    BY <2>1, <2>5, <2>6
  <2>8. WriterInv(q)' /\ RefusedInv(q)' /\ EndInv(q)'
    BY <2>1, <2>2, <2>5, <2>6
  <2>9. LineInv(q)'
    <3>1. conn'[q].bytes = conn[q].bytes
      BY <2>5, <2>6
    <3>2. lines[q] # <<>> => id[q] # None
      BY <2>1
    <3>3. lines[q] # <<>> /\ conn'[q].sent /\ ~early[q] =>
            conn'[q].status = IF lines[q][1].status = 0 THEN 200
                              ELSE lines[q][1].status
      <4> SUFFICES ASSUME lines[q] # <<>>, conn'[q].sent, ~early[q]
          PROVE  conn'[q].status = IF lines[q][1].status = 0 THEN 200
                                   ELSE lines[q][1].status
        OBVIOUS
      <4>1. /\ lines[q][1].status = conn[q].status /\ ~conn[q].hijacked
        BY <2>1, <3>2
      <4>2. conn[q].wrote => conn[q].status # 0
        BY <2>1
      <4> QED BY <2>5, <2>6, <4>1, <4>2
    <3> QED BY <2>1, <3>1, <3>2, <3>3
  <2>10. OwnInv(q)'
    BY <2>1, <2>2, <2>5, <2>6
  <2> QED BY <2>7, <2>8, <2>9, <2>10
<1> QED BY <1>1, <1>2

\* What a call of the handler leaves true, but for what "/" and "/health" add.
CallInv(q) ==
    /\ ConnInv(q) /\ ChainInv(q) /\ DeadlineInv(q) /\ LoudInv(q)
    /\ WriterInv(q) /\ RefusedInv(q) /\ LineInv(q) /\ EndInv(q)

\* What a call leaves alone, and what makes CallInv of the rest.
LEMMA CallKeeps ==
  ASSUME IInv, NEW q \in Requests, Called(q),
         conn'[q].header = id[q], conn'[q].wrote => conn'[q].id = id[q],
         conn'[q].wrote <=> conn'[q].status # 0,
         conn'[q].sent => conn'[q].wrote, ~conn'[q].finished,
         wrapper'[q].bytes = conn'[q].bytes,
         ~early'[q] => /\ ~conn'[q].hijacked /\ (wrapper'[q].wrote <=> conn'[q].wrote)
                       /\ wrapper'[q].status = conn'[q].status
  PROVE  CallInv(q)'
<1>1. /\ pc[q] = "handler" /\ pc'[q] = "handler"
      /\ UNCHANGED <<level, timeout, req, id, bound, deadline, panicking, ended,
                     lines, seen>>
  BY DEF IInv, TypeOK, Called, sharedVars, contextVars, endVars
<1> QED
  BY <1>1 DEF IInv, CallInv, Sound, ConnInv, ChainInv, DeadlineInv, LoudInv,
     WriterInv, RefusedInv, LineInv, EndInv, Untouched, Entering

\* What holds while the handler runs.
LEMMA InHandler ==
  ASSUME IInv, NEW q \in Requests, pc[q] = "handler"
  PROVE  /\ conn[q] \in Conns /\ wrapper[q] \in Writers /\ early[q] \in BOOLEAN
         /\ conn[q].header = id[q] /\ (conn[q].wrote => conn[q].id = id[q])
         /\ (conn[q].wrote <=> conn[q].status # 0) /\ id[q] # None
         /\ (conn[q].sent => conn[q].wrote) /\ ~conn[q].finished
         /\ wrapper[q].bytes = conn[q].bytes /\ ops[q] \in Nat
         /\ ~early[q] => /\ ~conn[q].hijacked
                         /\ (wrapper[q].wrote <=> conn[q].wrote)
                         /\ wrapper[q].status = conn[q].status
BY DEF IInv, TypeOK, Sound, ConnInv, ChainInv, WriterInv

\* A call to WriteHeader.
LEMMA WriteHeaderStep ==
  ASSUME IInv, NEW q \in Requests, NEW s \in Statuses, WriteHeader(q, s)
  PROVE  /\ CallInv(q)'
         /\ ~conn[q].hijacked /\ ~conn[q].wrote /\ s # 103 =>
              conn'[q].wrote /\ conn'[q].status = s
         /\ (conn'[q].hijacked <=> conn[q].hijacked) /\ conn'[q].bytes = conn[q].bytes
         /\ s # 103 => (early'[q] <=> early[q])
<1>1. /\ pc[q] = "handler" /\ Called(q)
      /\ wrapper'[q] = WrapWriteHeader(wrapper[q], s)
      /\ conn'[q] = ConnWriteHeader(conn[q], s)
      /\ early'[q] <=> early[q] \/ (Informational(s) /\ ~wrapper[q].wrote)
  BY DEF IInv, TypeOK, WriteHeader, Called
<1>2. s # 0
  BY DEF Statuses
<1>3. LET w == WrapWriteHeader(wrapper[q], s) IN
      /\ w.bytes = wrapper[q].bytes /\ w.wrote
      /\ wrapper[q].wrote => w.status = wrapper[q].status
      /\ ~wrapper[q].wrote => w.status = s
  BY <1>1, InHandler DEF WrapWriteHeader, Writers
<1>4. LET d == ConnWriteHeader(conn[q], s) IN
      /\ d.header = conn[q].header /\ d.bytes = conn[q].bytes
      /\ (d.sent <=> conn[q].sent)
      /\ (d.hijacked <=> conn[q].hijacked) /\ (d.finished <=> conn[q].finished)
      /\ conn[q].hijacked \/ conn[q].wrote \/ s = 103 =>
           (d.wrote <=> conn[q].wrote) /\ d.status = conn[q].status /\ d.id = conn[q].id
      /\ ~(conn[q].hijacked \/ conn[q].wrote \/ s = 103) =>
           d.wrote /\ d.status = s /\ d.id = conn[q].header
  BY <1>1, InHandler, WriteHeaderEffect
<1>5. CallInv(q)'
  <2>1. /\ conn'[q].header = id[q] /\ (conn'[q].wrote => conn'[q].id = id[q])
        /\ (conn'[q].wrote <=> conn'[q].status # 0)
        /\ (conn'[q].sent => conn'[q].wrote) /\ ~conn'[q].finished
    BY <1>1, <1>2, <1>4, InHandler
  <2>2. wrapper'[q].bytes = conn'[q].bytes
    BY <1>1, <1>3, <1>4, InHandler
  <2>3. ~early'[q] => /\ ~conn'[q].hijacked
                      /\ (wrapper'[q].wrote <=> conn'[q].wrote)
                      /\ wrapper'[q].status = conn'[q].status
    BY <1>1, <1>3, <1>4, InHandler DEF Informational
  <2> QED BY <1>1, <2>1, <2>2, <2>3, CallKeeps
<1> QED BY <1>1, <1>4, <1>5 DEF Informational

\* A call to Write.
LEMMA WriteStep ==
  ASSUME IInv, NEW q \in Requests, Write(q)
  PROVE  /\ CallInv(q)'
         /\ conn[q].wrote => conn'[q].wrote /\ conn'[q].status = conn[q].status
         /\ (conn'[q].hijacked <=> conn[q].hijacked) /\ (early'[q] <=> early[q])
<1>1. PICK n \in Accepted(conn[q]), sent \in BOOLEAN :
        /\ wrapper' = [wrapper EXCEPT ![q] = WrapWrite(@, n)]
        /\ conn' = [conn EXCEPT ![q] = ConnWrite(@, n, sent)]
  BY DEF Write
<1>2. /\ pc[q] = "handler" /\ Called(q) /\ early' = early
      /\ wrapper'[q] = WrapWrite(wrapper[q], n)
      /\ conn'[q] = ConnWrite(conn[q], n, sent)
  BY <1>1 DEF IInv, TypeOK, Write, Called
<1>3. n \in {0, 1} /\ 200 \in Statuses /\ 200 # 103 /\ 200 # 0
      /\ (conn[q].hijacked => n = 0)
  BY DEF Accepted, Statuses
<1>4. LET w == WrapWrite(wrapper[q], n) IN
      /\ w.bytes = wrapper[q].bytes + n /\ w.wrote
      /\ wrapper[q].wrote => w.status = wrapper[q].status
      /\ ~wrapper[q].wrote => w.status = 200
  <2> DEFINE h == WrapWriteHeader(wrapper[q], 200)
  <2>1. /\ h \in Writers /\ h.bytes = wrapper[q].bytes /\ h.wrote
        /\ wrapper[q].wrote => h.status = wrapper[q].status
        /\ ~wrapper[q].wrote => h.status = 200
    <3>1. \A t \in Statuses : WrapWriteHeader(wrapper[q], t) \in Writers
      BY <1>2, <1>3, InHandler, WrapperTypes
    <3>2. h \in Writers
      BY <1>3, <3>1
    <3> QED BY <1>2, <3>2, InHandler DEF WrapWriteHeader, Writers
  <2>2. WrapWrite(wrapper[q], n) = [h EXCEPT !.bytes = @ + n]
    BY DEF WrapWrite
  <2> HIDE DEF h
  <2> QED BY <2>1, <2>2 DEF Writers
<1>5. LET h == ConnWriteHeader(conn[q], 200) IN
      /\ h.header = conn[q].header /\ (h.hijacked <=> conn[q].hijacked)
      /\ (h.finished <=> conn[q].finished)
      /\ conn[q].hijacked \/ conn[q].wrote =>
           (h.wrote <=> conn[q].wrote) /\ h.status = conn[q].status /\ h.id = conn[q].id
      /\ ~(conn[q].hijacked \/ conn[q].wrote) =>
           h.wrote /\ h.status = 200 /\ h.id = conn[q].header
  BY <1>2, <1>3, InHandler, WriteHeaderEffect
<1>6. LET h == ConnWriteHeader(conn[q], 200)
          d == ConnWrite(conn[q], n, sent)
      IN  /\ d.bytes = conn[q].bytes + n /\ (d.sent <=> conn[q].sent \/ (sent /\ n > 0))
          /\ d.header = h.header /\ (d.wrote <=> h.wrote) /\ d.status = h.status
          /\ d.id = h.id /\ (d.hijacked <=> h.hijacked) /\ (d.finished <=> h.finished)
  BY <1>2, <1>3, InHandler, WriteEffect
<1>7. CallInv(q)'
  BY <1>2, <1>3, <1>4, <1>5, <1>6, InHandler, CallKeeps
<1> QED BY <1>2, <1>5, <1>6, <1>7

\* Flush and Hijack.
LEMMA FlushHijackStep ==
  ASSUME IInv, NEW q \in Requests, Flush(q) \/ Hijack(q)
  PROVE  CallInv(q)'
<1>1. pc[q] = "handler" /\ Called(q) /\ wrapper' = wrapper
  BY DEF Flush, Hijack, Called
<1>2. CASE Flush(q)
  <2>1. /\ conn'[q] = ConnFlush(conn[q])
        /\ early'[q] <=> early[q] \/ ~wrapper[q].wrote
    BY <1>2 DEF IInv, TypeOK, Flush
  <2>2. 200 \in Statuses /\ 200 # 103 /\ 200 # 0
    BY DEF Statuses
  <2>3. CASE conn[q].hijacked
    <3>1. conn'[q] = conn[q]
      BY <2>1, <2>3 DEF ConnFlush
    <3> QED BY <1>1, <2>1, <3>1, InHandler, CallKeeps
  <2>4. CASE ~conn[q].hijacked
    <3>1. LET h == ConnWriteHeader(conn[q], 200) IN
          /\ h.header = conn[q].header /\ (h.hijacked <=> conn[q].hijacked)
          /\ (h.finished <=> conn[q].finished) /\ h.bytes = conn[q].bytes
          /\ conn[q].wrote =>
               h.wrote /\ h.status = conn[q].status /\ h.id = conn[q].id
          /\ ~conn[q].wrote => h.wrote /\ h.status = 200 /\ h.id = conn[q].header
      BY <1>1, <2>2, <2>4, InHandler, WriteHeaderEffect
    <3>2. LET h == ConnWriteHeader(conn[q], 200)
              f == ConnFlush(conn[q])
          IN  /\ f.sent /\ f.header = h.header /\ (f.wrote <=> h.wrote)
              /\ f.status = h.status /\ f.id = h.id /\ (f.hijacked <=> h.hijacked)
              /\ (f.finished <=> h.finished) /\ f.bytes = h.bytes
      BY <1>1, <2>4, InHandler, FlushEffect
    <3>3. /\ conn'[q].header = id[q] /\ (conn'[q].wrote => conn'[q].id = id[q])
          /\ (conn'[q].wrote <=> conn'[q].status # 0)
          /\ (conn'[q].sent => conn'[q].wrote) /\ ~conn'[q].finished
          /\ wrapper'[q].bytes = conn'[q].bytes
      BY <1>1, <2>1, <2>2, <3>1, <3>2, InHandler
    <3>4. ~early'[q] => /\ ~conn'[q].hijacked
                        /\ (wrapper'[q].wrote <=> conn'[q].wrote)
                        /\ wrapper'[q].status = conn'[q].status
      BY <1>1, <2>1, <3>1, <3>2, InHandler
    <3> QED BY <1>1, <3>3, <3>4, CallKeeps
  <2> QED BY <2>3, <2>4
<1>3. CASE Hijack(q)
  <2>1. /\ conn'[q] = [conn[q] EXCEPT !.hijacked = TRUE, !.sent = @ \/ conn[q].wrote]
        /\ early'[q]
    BY <1>3 DEF IInv, TypeOK, Hijack, ConnHijack
  <2>2. /\ conn'[q].header = conn[q].header /\ conn'[q].id = conn[q].id
        /\ conn'[q].status = conn[q].status /\ conn'[q].bytes = conn[q].bytes
        /\ (conn'[q].wrote <=> conn[q].wrote)
        /\ (conn'[q].sent <=> conn[q].sent \/ conn[q].wrote)
        /\ (conn'[q].finished <=> conn[q].finished)
    BY <1>1, <2>1, InHandler DEF Conns
  <2> QED BY <1>1, <2>1, <2>2, InHandler, CallKeeps
<1> QED BY <1>2, <1>3

\* The return or the panic of the handler, and what each route allows of it.
LEMMA EndStep ==
  ASSUME IInv, NEW q \in Requests, NEW how \in {"returned", "panicked"}, End(q, how),
         req[q].route # "other" => ops[q] > 0 /\ how = "returned"
  PROVE  Sound(q)'
<1>1. /\ pc[q] = "handler" /\ pc'[q] = "unwind" /\ ended'[q] = how
      /\ (panicking'[q] <=> how = "panicked")
      /\ UNCHANGED <<level, timeout, req, id, bound, deadline, lines, seen,
                     wrapper, conn, early, ops>>
  BY DEF IInv, TypeOK, End, Goto, sharedVars, contextVars, writerVars
<1> QED
  BY <1>1 DEF IInv, Sound, ConnInv, ChainInv, DeadlineInv, LoudInv, WriterInv,
     RefusedInv, LineInv, EndInv, OwnInv, Untouched, Entering, Due

\* What the handlers of "/" and "/health" find.
LEMMA OwnHandler ==
  ASSUME IInv, NEW q \in Requests, pc[q] = "handler", req[q].route # "other"
  PROVE  /\ ~early[q] /\ ~conn[q].hijacked /\ ops[q] \in Nat
         /\ ops[q] = 0 => ~conn[q].wrote
         /\ ops[q] > 0 => conn[q].wrote /\ conn[q].status = Due(q)
         /\ req[q].route = "/" \/ req[q].method = "HEAD" => conn[q].bytes = 0
BY InHandler DEF IInv, Sound, OwnInv

\* What a call of theirs must leave for OwnInv.
LEMMA OwnCall ==
  ASSUME IInv, NEW q \in Requests, Called(q), CallInv(q)', req[q].route # "other",
         ~early'[q], ~conn'[q].hijacked, conn'[q].wrote, conn'[q].status = Due(q),
         req[q].route = "/" \/ req[q].method = "HEAD" => conn'[q].bytes = 0
  PROVE  Sound(q)'
<1>1. /\ pc[q] = "handler" /\ pc'[q] = "handler" /\ ops'[q] = ops[q] + 1
      /\ UNCHANGED <<req, id, ended, lines>>
  BY DEF IInv, TypeOK, Called, contextVars, endVars
<1>2. OwnInv(q)'
  BY <1>1, InHandler DEF IInv, Sound, ChainInv, OwnInv, Due
<1> QED BY <1>2 DEF CallInv, Sound

\* The handler of "/".
LEMMA RootStep ==
  ASSUME IInv, NEW q \in Requests, Root(q)
  PROVE  Sound(q)'
<1>1. CASE WriteHeader(q, 204) /\ ops[q] = 0
  <2>1. 204 \in Statuses /\ pc[q] = "handler" /\ Called(q)
    BY <1>1 DEF Statuses, WriteHeader, Called
  <2>2. Due(q) = 204 /\ req[q].route = "/" /\ req[q].route # "other"
    BY DEF Root, Due
  <2> QED BY <1>1, <2>1, <2>2, WriteHeaderStep, OwnHandler, OwnCall
<1>2. CASE End(q, "returned") /\ ops[q] = 1
  BY <1>2, EndStep
<1> QED BY <1>1, <1>2 DEF Root

\* The handler of "/health".
LEMMA LivenessStep ==
  ASSUME IInv, NEW q \in Requests, Liveness(q)
  PROVE  Sound(q)'
<1>1. /\ req[q].route = "/health" /\ req[q].route # "other" /\ req[q].route # "/"
      /\ Due(q) = LivenessStatus(req[q].method)
      /\ Due(q) \in Statuses /\ Due(q) # 103
  BY DEF Liveness, Due, LivenessStatus, Statuses
<1>2. CASE WriteHeader(q, LivenessStatus(req[q].method)) /\ ops[q] = 0
  <2>1. pc[q] = "handler" /\ Called(q)
    BY <1>2 DEF WriteHeader, Called
  <2> QED BY <1>1, <1>2, <2>1, WriteHeaderStep, OwnHandler, OwnCall
<1>3. CASE Write(q) /\ ops[q] = 1 /\ req[q].method # "HEAD"
  <2>1. pc[q] = "handler" /\ Called(q)
    BY <1>3 DEF Write, Called
  <2> QED BY <1>1, <1>3, <2>1, WriteStep, OwnHandler, OwnCall
<1>4. CASE End(q, "returned") /\ ops[q] = (IF req[q].method = "HEAD" THEN 1 ELSE 2)
  BY <1>4, EndStep
<1> QED BY <1>2, <1>3, <1>4 DEF Liveness

\* Any other handler: OwnInv says nothing of it.
LEMMA OtherStep ==
  ASSUME IInv, NEW q \in Requests, Other(q)
  PROVE  Sound(q)'
<1>1. ASSUME Called(q), CallInv(q)' PROVE Sound(q)'
  <2>1. req'[q].route = "other"
    BY <1>1 DEF Other, Called, contextVars
  <2> QED BY <1>1, <2>1 DEF CallInv, Sound, OwnInv
<1>2. ASSUME NEW s \in Statuses, WriteHeader(q, s) PROVE Sound(q)'
  BY <1>1, <1>2, WriteHeaderStep DEF WriteHeader
<1>3. CASE Write(q)
  BY <1>1, <1>3, WriteStep DEF Write
<1>4. CASE Flush(q) \/ Hijack(q)
  BY <1>1, <1>4, FlushHijackStep DEF Flush, Hijack
<1>5. ASSUME NEW how \in {"returned", "panicked"}, End(q, how) PROVE Sound(q)'
  BY <1>5, EndStep DEF Other
<1> QED BY <1>2, <1>3, <1>4, <1>5 DEF Other

-----------------------------------------------------------------------------
(* The theorems.                                                           *)

\* Every step keeps IInv.
LEMMA IInvStep == IInv /\ [Next]_vars => IInv'
<1> SUFFICES ASSUME IInv, [Next]_vars PROVE IInv'
  OBVIOUS
<1>1. TypeOK'
  BY TypeStep DEF IInv
<1>2. ASSUME NEW q \in Requests, Serve(q), NEW r \in Requests PROVE Sound(r)'
  <2>1. CASE r = q
    BY <1>2, <2>1, EntryStep, ExitStep, RootStep, LivenessStep, OtherStep DEF Serve
  <2>2. CASE r # q
    BY <1>2, <2>2, OthersStay, Frame DEF IInv
  <2> QED BY <2>1, <2>2
<1>3. ASSUME \/ \E l \in Levels : ApplyLevel(l)
             \/ \E d \in Timeouts \cup {0} : ApplyRequestTimeout(d),
             NEW r \in Requests
      PROVE  Sound(r)'
  BY <1>3, ReloadStep
<1>4. ASSUME UNCHANGED vars, NEW r \in Requests PROVE Sound(r)'
  BY <1>4, Frame DEF IInv, Same, vars, sharedVars, contextVars, writerVars, endVars
<1> QED BY <1>1, <1>2, <1>3, <1>4 DEF Next, IInv

LEMMA IInvariant == Spec => []IInv
<1>1. Init => IInv
  <2> SUFFICES ASSUME Init PROVE IInv
    OBVIOUS
  <2>1. TypeOK
    BY TimeoutsAssumption
    DEF Init, TypeOK, NewConn, NewWrapper, Conns, Writers, Ids
  <2>2. ASSUME NEW q \in Requests PROVE Sound(q)
    BY <2>2
    DEF Init, NewConn, NewWrapper, Sound, ConnInv, ChainInv, DeadlineInv, LoudInv,
        WriterInv, RefusedInv, LineInv, EndInv, OwnInv, Untouched, Entering
  <2> QED BY <2>1, <2>2 DEF IInv
<1> QED BY <1>1, IInvStep, PTL DEF Spec

\* The access log has the status that the client got, whatever the handler does,
\* but for the three things the wrapper does not see.
THEOREM StatusInLogIsTrue == Spec => []LoggedStatusTrue
<1>1. IInv => LoggedStatusTrue
  BY DEF IInv, TypeOK, Sound, LineInv, LoggedStatusTrue, Answered
<1> QED BY <1>1, IInvariant, PTL

\* And the bytes that were accepted for it.
THEOREM BytesInLogAreTrue == Spec => []LoggedBytesTrue
<1>1. IInv => LoggedBytesTrue
  BY DEF IInv, TypeOK, Sound, LineInv, LoggedBytesTrue
<1> QED BY <1>1, IInvariant, PTL

\* One line for each request that got an id and was not silenced, never two.
THEOREM OneLineEach == Spec => []LoggedOnce
<1>1. ASSUME IInv, NEW q \in Requests
      PROVE  /\ Len(lines[q]) <= 1
             /\ id[q] = None => lines[q] = <<>>
             /\ pc[q] = "done" /\ id[q] # None /\ seen[q].loud => Len(lines[q]) = 1
  <2>1. lines[q] = <<>> => Len(lines[q]) = 0
    OBVIOUS
  <2>2. lines[q] # <<>> => Len(lines[q]) = 1
    BY <1>1 DEF IInv, Sound, LineInv
  <2>3. id[q] = None => lines[q] = <<>>
    BY <1>1 DEF IInv, Sound, RefusedInv
  <2>4. pc[q] = "done" /\ id[q] # None /\ seen[q].loud => lines[q] # <<>>
    BY <1>1 DEF IInv, Sound, LineInv
  <2>5. Len(lines[q]) <= 1
    <3>1. PICK n : n = Len(lines[q])
      OBVIOUS
    <3>2. n \in {0, 1}
      BY <2>1, <2>2, <3>1
    <3>3. n <= 1
      BY <3>2
    <3> QED BY <3>1, <3>3
  <2>6. pc[q] = "done" /\ id[q] # None /\ seen[q].loud => Len(lines[q]) = 1
    BY <2>2, <2>4
  <2> QED BY <2>3, <2>5, <2>6
<1>2. IInv => LoggedOnce
  BY <1>1 DEF LoggedOnce
<1> QED BY <1>2, IInvariant, PTL

\* No panic is swallowed: net/http never finishes the request of a handler that
\* panicked (access_log.go passes the panic on).
THEOREM PanicsAbort == Spec => []PanicAborts
<1>1. IInv => PanicAborts
  BY DEF IInv, Sound, EndInv, PanicAborts
<1> QED BY <1>1, IInvariant, PTL

\* One id for the client, the handler and the log.
THEOREM OneID == Spec => []IDReturned
<1>1. IInv => IDReturned
  BY DEF IInv, TypeOK, Sound, ConnInv, ChainInv, LineInv, RefusedInv, IDReturned,
     Answered
<1> QED BY <1>1, IInvariant, PTL

\* Every handler gets a timeout that was in force while its request came in.
THEOREM DeadlinesAreFresh == Spec => []DeadlineFresh
<1>1. IInv => DeadlineFresh
  BY DEF IInv, Sound, DeadlineInv, DeadlineFresh
<1> QED BY <1>1, IInvariant, PTL

\* "/" and "/health" answer what they promise.
THEOREM OwnRoutesAreExact == Spec => []OwnRoutesExact
<1>1. IInv => OwnRoutesExact
  BY DEF IInv, TypeOK, Sound, OwnInv, OwnRoutesExact, Due, LivenessStatus
<1> QED BY <1>1, IInvariant, PTL
=============================================================================
