------------------------- MODULE ReloaderStopProofs -------------------------
(***************************************************************************)
(* How the Reloader stops: theorems that need no promise of the callers.   *)
(* They hold when Stop races Start as well (StopAfterStart FALSE), for any *)
(* number of callers and whatever they call.                               *)
(***************************************************************************)
EXTENDS ReloaderProofs

\* The labels of signalStop, and of the wait that follows it.
StopPCs == {"signal", "close", "wait"}

-----------------------------------------------------------------------------
(* What is proved.                                                         *)

\* stopCh is closed once: close of a closed channel would panic.
ClosedOnce ==
    [][/\ \A p \in Procs : CloseStopCh(p) => ~closed
       /\ closed => closed']_vars

\* A goroutine or a call that can take a step that needs nobody else: what this
\* says of the actions is the theorem FreeToMove.
GoesOn(p) ==
    \/ p \in Goroutines /\ pc[p] \in {"select", "debounce"} /\ closed
    \/ pc[p] = "signal" /\ once # "busy"
    \/ p \in Clients /\ pc[p] = "wait" /\ op[p] \in {"Start", "Stop"} /\ Live = {}
    \/ pc[p] \in {"close", "add", "send", "snapshot", "load", "dispatch"}

\* Nobody is stuck in Stop or in a Start that gives up: whoever waits for
\* stopOnce waits for one who is about to close stopCh, and whoever waits for
\* the wait group can go on when it is empty, and until then each of its
\* goroutines can.
StopNeverStuck ==
    \A c \in Clients :
        /\ pc[c] = "signal" =>
            GoesOn(c) \/ \E p \in Procs : pc[p] = "close" /\ GoesOn(p)
        /\ pc[c] = "wait" =>
            IF Live = {} THEN GoesOn(c) ELSE \A g \in Live : GoesOn(g)

\* A step of p alone.
OwnStep(p) ==
    \/ Signal(p) \/ Exit(p) \/ Enqueue(p)
    \/ p \in Clients /\ (StopReturns(p) \/ StartFails(p))
    \/ p = "worker" /\ Worker

\* A next state of p, if it is free: the one label of its code leads to the
\* next, and nothing is asked of anybody else.
Onward(p) ==
    LET at(label) == [pc EXCEPT ![p] = label]
        returned  == [op EXCEPT ![p] = "none"]
    IN  CASE pc[p] = "signal" /\ once = "new" ->
                <<envVars, <<started, TRUE, "busy", closed>>, queueVars,
                  callVars, cycleVars, resultVars, at("close")>>
          [] pc[p] = "signal" /\ once # "new" ->
                <<envVars, flagVars, queueVars, callVars, cycleVars, resultVars,
                  at(AfterSignal(p))>>
          [] pc[p] = "close" ->
                <<envVars, <<started, stopped, "done", TRUE>>, queueVars,
                  callVars, cycleVars, resultVars, at(AfterSignal(p))>>
          [] pc[p] = "wait" ->
                <<envVars, IF op[p] = "Stop" THEN flagVars
                           ELSE <<FALSE, TRUE, once, closed>>,
                  queueVars, <<returned, todo, TRUE>>, cycleVars, resultVars,
                  at("idle")>>
          [] pc[p] \in {"select", "debounce"} ->
                <<envVars, flagVars, queueVars, callVars,
                  <<IF p = "worker" THEN 0 ELSE timer, cand, left, succeeded,
                    failed>>, resultVars, at("exit")>>
          [] pc[p] = "add" ->
                <<envVars, flagVars, <<wake, srcSet \cup {SourceOf(p)}, file>>,
                  callVars, cycleVars, resultVars, at("send")>>
          [] pc[p] = "send" ->
                <<envVars, flagVars, <<TRUE, srcSet, need>>,
                  IF p \in Clients THEN <<returned, todo, quiet>> ELSE callVars,
                  cycleVars, resultVars,
                  at(IF p \in Clients THEN "idle" ELSE "select")>>
          [] pc[p] = "snapshot" ->
                <<envVars, flagVars, <<wake, {}, need>>, callVars, cycleVars,
                  resultVars, at("load")>>
          [] pc[p] = "load" ->
                <<envVars, flagVars, queueVars, callVars,
                  <<timer, file, IF file \in good THEN subs ELSE left, succeeded,
                    failed>>, resultVars,
                  at(IF file \in good THEN "dispatch" ELSE "select")>>
          [] pc[p] = "dispatch" /\ left # <<>> ->
                <<envVars, flagVars, queueVars, callVars,
                  <<timer, cand, Tail(left), succeeded, failed \cup {Head(left)}>>,
                  resultVars, pc>>
          [] OTHER ->
                <<envVars, flagVars, queueVars, callVars,
                  <<timer, cand, left, {}, {}>>,
                  <<subs, IF succeeded # {} THEN cand ELSE lastApplied, applied,
                    [level |-> IF failed # {} THEN "warn" ELSE "info",
                     failed |-> failed]>>,
                  at("select")>>

\* The worker, the triggers and the watcher end for a reason: the context was
\* cancelled, or somebody is in Stop, or in a Start that gives up, or has
\* returned from it.
EndsForACause ==
    (\E g \in Goroutines : pc[g] = "exit") \/ stopped =>
        \/ ctxDone \/ quiet
        \/ \E c \in Clients : op[c] \in {"Start", "Stop"} /\ pc[c] \in {"close", "wait"}

\* No file watcher that could fail.
FileTriggerSafe ==
    ~FileWatchMayFail \/ \A i \in 1..Len(SourceList) : SourceList[i] # "file"

-----------------------------------------------------------------------------
(* The invariants.                                                         *)

\* stopOnce: one process at most is in it, and closed says that it is done.
OnceInv ==
    /\ closed <=> once = "done"
    /\ once = "busy" => \E p \in Procs : pc[p] = "close"
    /\ \A p \in Procs : pc[p] = "close" => once = "busy"
    /\ \A p, q \in Procs : pc[p] = "close" /\ pc[q] = "close" => p = q
    /\ \A p \in Procs : pc[p] = "wait" => once = "done"
    /\ \A c \in Clients : pc[c] \in StopPCs => op[c] \in {"Start", "Stop"}

\* A Start that cannot fail never stops, so started is never taken back.
AnswerInv ==
    /\ stopped => started
    /\ \A c \in Clients : Starting(c) => pc[c] \in SpawnPCs
    /\ \A i \in 1..Len(todo) : \E j \in 1..Len(SourceList) : todo[i] = SourceList[j]

\* What ends a goroutine is stopCh, and what closes stopCh has a cause.
CauseInv ==
    /\ \A g \in Goroutines : pc[g] = "exit" => stopped
    /\ once # "new" => stopped
    /\ pc["watcher"] \in {"signal", "close"} => ctxDone
    /\ stopped =>
        ctxDone \/ quiet \/ \E c \in Clients : pc[c] \in {"close", "wait"}

\* A step that has nothing to do with stopping.
Elsewhere ==
    /\ UNCHANGED flagVars
    /\ (ctxDone => ctxDone') /\ (quiet => quiet')
    /\ \A c \in Clients : pc[c] = "wait" => pc'[c] = "wait" \/ quiet'
    /\ \A g \in Goroutines : pc'[g] = "exit" => pc[g] = "exit" \/ closed
    /\ \A p \in Procs : pc'[p] \in StopPCs => pc'[p] = pc[p]
    /\ \A p \in Procs : pc[p] = "close" => pc'[p] = "close"
    /\ \A c \in Clients : pc'[c] \in StopPCs => op'[c] = op[c]
    /\ \A c \in Clients : op'[c] = "Start" =>
        op[c] = "Start" /\ (pc[c] \in SpawnPCs => pc'[c] \in SpawnPCs)
    /\ todo' = todo \/ (todo # <<>> /\ todo' = Tail(todo))

\* Every step is one of a start or a stop, or has nothing to do with either.
LEMMA StepShape ==
  ASSUME TypeOK, StartInv, [Next]_vars
  PROVE  \/ \E p \in Clients \cup {"watcher"} :
                SignalStopped(p) \/ CloseStopCh(p) \/ SignalAgain(p)
         \/ \E c \in Clients :
                \/ CallStart(c) \/ CallStop(c)
                \/ FileTriggerFails(c) \/ StartFails(c)
         \/ WatchCtx
         \/ Elsewhere
<1> USE LabelsPC
<1> USE DEF TypeOK, PCOK, StopPCs, SpawnPCs, flagVars, callVars, envVars, Goto
<1>1. ASSUME \/ Environment \/ Tick \/ DebounceMore \/ ApplyOK \/ ApplyFails
             \/ \E c \in Clients, s \in SubNames : Register(c, s)
             \/ UNCHANGED vars
      PROVE  Elsewhere
  BY <1>1
  DEF Elsewhere, Environment, Write, Overflow, Sighup, CancelCtx, Tick,
      DebounceMore, ApplyOK, ApplyFails, Register, vars, resultVars
<1>2. ASSUME NEW g \in Goroutines, NEW l, pc' = [pc EXCEPT ![g] = l],
             l \notin StopPCs, l # "exit" \/ closed, pc[g] # "close",
             UNCHANGED <<flagVars, ctxDone, callVars>>
      PROVE  Elsewhere
  BY <1>2 DEF Elsewhere
<1>3. ASSUME NEW g \in Goroutines, Exit(g) PROVE Elsewhere
  BY <1>2, <1>3 DEF Exit
<1>4. CASE ReceiveSighup \/ ReceiveFileEvent
  BY <1>2, <1>4 DEF ReceiveSighup, ReceiveFileEvent
<1>5. CASE ReceiveWake \/ DebounceFires \/ SnapshotSources \/ LoadConfig
  <2>1. CASE ReceiveWake \/ DebounceFires \/ SnapshotSources
    BY <1>2, <2>1 DEF ReceiveWake, DebounceFires, SnapshotSources
  <2>2. CASE LoadConfig
    <3>1. \E l \in {"dispatch", "select"} : pc' = [pc EXCEPT !["worker"] = l]
      BY <2>2 DEF LoadConfig
    <3>2. UNCHANGED <<flagVars, ctxDone, callVars>>
      BY <2>2 DEF LoadConfig
    <3> QED BY <1>2, <3>1, <3>2
  <2> QED BY <1>5, <2>1, <2>2
<1>6. CASE FinishReload
  <2>1. /\ \E l \in {"select"} : pc' = [pc EXCEPT !["worker"] = l]
        /\ pc["worker"] # "close"
    BY <1>6 DEF FinishReload, Summarise
  <2>2. UNCHANGED <<flagVars, ctxDone, callVars>>
    BY <1>6 DEF FinishReload
  <2> QED BY <1>2, <2>1, <2>2
<1>7. ASSUME NEW c \in Clients,
             SpawnWorker(c) \/ SpawnWatcher(c) \/ StartTrigger(c)
      PROVE  Elsewhere
  <2>1. ASSUME NEW g \in {"worker", "watcher"}, NEW l \in SpawnPCs,
               pc[g] # "close", pc' = [pc EXCEPT ![c] = l, ![g] = "select"],
               pc[c] \in SpawnPCs, UNCHANGED <<flagVars, ctxDone, callVars>>
        PROVE  Elsewhere
    <3>1. \A q \in Procs :
            pc'[q] = IF q = g THEN "select" ELSE IF q = c THEN l ELSE pc[q]
      BY <2>1
    <3> QED BY <2>1, <3>1 DEF Elsewhere
  <2>2. CASE SpawnWorker(c)
    <3>1. pc["worker"] # "close"
      OBVIOUS
    <3> QED BY <2>1, <2>2, <3>1 DEF SpawnWorker
  <2>3. CASE SpawnWatcher(c)
    <3>1. pc["watcher"] = "none"
      BY <2>3 DEF SpawnWatcher, StartInv
    <3> QED BY <2>1, <2>3, <3>1 DEF SpawnWatcher
  <2>4. CASE StartTrigger(c)
    <3>1. Head(todo) \in {"sighup", "file"}
      BY <2>4 DEF StartTrigger, DataOK
    <3>2. pc[Head(todo)] # "close"
      BY <3>1
    <3> QED BY <2>4, <3>1, <3>2 DEF StartTrigger, Elsewhere
  <2> QED BY <1>7, <2>2, <2>3, <2>4
<1>8. ASSUME NEW c \in Clients,
             StartReturns(c) \/ StopReturns(c) \/ CallTrigger(c)
      PROVE  Elsewhere
  BY <1>8 DEF StartReturns, StopReturns, CallTrigger, Enter, Return, Elsewhere,
              DataOK
<1>9. ASSUME NEW p \in Clients \cup {"sighup", "file"}, AddSource(p) \/ SendWake(p)
      PROVE  Elsewhere
  <2>1. CASE AddSource(p)
    BY <2>1 DEF AddSource, Elsewhere
  <2>2. CASE SendWake(p)
    <3>1. pc[p] = "send" /\ UNCHANGED <<flagVars, ctxDone, quiet, todo>>
      BY <2>2 DEF SendWake
    <3>2. PICK l \in {"idle", "select"} : pc' = [pc EXCEPT ![p] = l]
      BY <2>2 DEF SendWake, Return
    <3>3. \A d \in Clients : op'[d] = IF d = p THEN "none" ELSE op[d]
      BY <2>2 DEF SendWake, Return, DataOK
    <3>4. \A q \in Procs : pc'[q] = IF q = p THEN l ELSE pc[q]
      BY <3>2
    <3> QED BY <3>1, <3>3, <3>4 DEF Elsewhere
  <2> QED BY <1>9, <2>1, <2>2
<1> QED
  BY <1>1, <1>3, <1>4, <1>5, <1>6, <1>7, <1>8, <1>9
  DEF Next, Call, Proceed, Signal, Enqueue, Watcher, SighupTrigger,
      FileTrigger, Worker

-----------------------------------------------------------------------------
(* stopOnce.                                                               *)

\* Only signalStop changes stopOnce, and one process at a time is in it.
LEMMA OnceInvStep ==
  ASSUME TypeOK, StartInv, OnceInv, [Next]_vars
  PROVE  OnceInv'
<1> USE LabelsPC
<1> USE DEF TypeOK, PCOK, OnceInv, StopPCs, SpawnPCs, flagVars, callVars, Goto
<1> DEFINE Moves(p, l) == \A q \in Procs : pc'[q] = IF q = p THEN l ELSE pc[q]
<1>1. ASSUME NEW p \in Clients \cup {"watcher"}, SignalStopped(p) PROVE OnceInv'
  <2>1. p \in Procs /\ Moves(p, "close")
    BY <1>1 DEF SignalStopped
  <2> QED BY <1>1, <2>1 DEF SignalStopped
<1>2. ASSUME NEW p \in Clients \cup {"watcher"}, CloseStopCh(p) PROVE OnceInv'
  <2>1. p \in Procs /\ Moves(p, AfterSignal(p))
    BY <1>2 DEF CloseStopCh
  <2> QED BY <1>2, <2>1 DEF CloseStopCh, AfterSignal
<1>3. ASSUME NEW p \in Clients \cup {"watcher"}, SignalAgain(p) PROVE OnceInv'
  <2>1. p \in Procs /\ Moves(p, AfterSignal(p))
    BY <1>3 DEF SignalAgain
  <2> QED BY <1>3, <2>1 DEF SignalAgain, AfterSignal
<1>4. ASSUME NEW c \in Clients, CallStart(c) \/ CallStop(c) PROVE OnceInv'
  <2>1. PICK l \in {"spawnWorker", "signal"} : Moves(c, l)
    BY <1>4 DEF CallStart, CallStop, Enter
  <2>2. pc[c] = "idle" /\ once' = once /\ closed' = closed
    BY <1>4 DEF CallStart, CallStop
  <2>3. /\ \A d \in Clients \ {c} : op'[d] = op[d]
        /\ op'[c] \in {"Start", "Stop"}
    BY <1>4 DEF CallStart, CallStop, Enter, DataOK
  <2> QED BY <2>1, <2>2, <2>3
<1>5. ASSUME NEW c \in Clients, FileTriggerFails(c) PROVE OnceInv'
  <2>1. Moves(c, "signal") /\ op[c] = "Start"
    BY <1>5 DEF FileTriggerFails, StartInv, Starting
  <2> QED BY <1>5, <2>1 DEF FileTriggerFails
<1>6. ASSUME NEW c \in Clients, StartFails(c) PROVE OnceInv'
  <2>1. Moves(c, "idle")
    BY <1>6 DEF StartFails, Return
  <2>2. \A d \in Clients \ {c} : op'[d] = op[d]
    BY <1>6 DEF StartFails, Return, DataOK
  <2> QED BY <1>6, <2>1, <2>2 DEF StartFails
<1>7. CASE WatchCtx
  <2>1. Moves("watcher", "signal")
    BY <1>7 DEF WatchCtx
  <2> QED BY <1>7, <2>1 DEF WatchCtx
<1>8. CASE Elsewhere
  BY <1>8 DEF Elsewhere
<1> QED BY <1>1, <1>2, <1>3, <1>4, <1>5, <1>6, <1>7, <1>8, StepShape

LEMMA OnceInvariant == Spec => []OnceInv
<1>1. Init => OnceInv
  BY LabelsPC DEF Init, OnceInv, StopPCs, Procs
<1> QED BY <1>1, OnceInvStep, TypeCorrect, StartInvariant, PTL DEF Spec

\* stopCh is closed once and never again, however many calls of Stop, failing
\* Starts and cancelled contexts meet in signalStop: a second close of the
\* channel would panic (signalStop's stopOnce).
THEOREM StopChClosedOnce == Spec => ClosedOnce
<1>1. OnceInv => \A p \in Procs : CloseStopCh(p) => ~closed
  BY DEF OnceInv, CloseStopCh
<1>2. TypeOK /\ StartInv /\ OnceInv /\ [Next]_vars => (closed => closed')
  <2> SUFFICES ASSUME TypeOK, StartInv, OnceInv, [Next]_vars, closed PROVE closed'
    OBVIOUS
  <2> QED
    BY StepShape
    DEF OnceInv, SignalStopped, CloseStopCh, SignalAgain, CallStart, CallStop,
        FileTriggerFails, StartFails, WatchCtx, Elsewhere, flagVars
<1>3. TypeOK /\ StartInv /\ OnceInv /\ [Next]_vars
      => [/\ \A p \in Procs : CloseStopCh(p) => ~closed
          /\ closed => closed']_vars
  BY <1>1, <1>2
<1> QED
  BY <1>3, TypeCorrect, StartInvariant, OnceInvariant, PTL DEF Spec, ClosedOnce

\* Whoever GoesOn names is free to move: in such a state the step to Onward is a
\* step of its code, whatever the others do.  This is ENABLED, with the next
\* state written out (signalStop, Stop, Start's error path, enqueue, worker).
THEOREM FreeToMove ==
  ASSUME TypeOK, NEW p \in Procs, GoesOn(p), vars' = Onward(p)
  PROVE  OwnStep(p)
<1> USE DEF vars, envVars, flagVars, queueVars, callVars, cycleVars, resultVars
<1>1. /\ p \in Clients \cup Goroutines
      /\ once \in {"new", "busy", "done"}
      /\ pc[p] \in {"snapshot", "load", "dispatch"} => p = "worker"
      /\ pc[p] = "wait" => p \in Clients
  BY LabelsPC DEF TypeOK, PCOK, DataOK, Procs
<1>2. CASE pc[p] = "signal" /\ once = "new"
  BY <1>2 DEF Onward, OwnStep, Signal, SignalStopped, Goto
<1>3. CASE pc[p] = "signal" /\ once = "done"
  BY <1>3 DEF Onward, OwnStep, Signal, SignalAgain, Goto
<1>4. CASE pc[p] = "close"
  BY <1>4 DEF Onward, OwnStep, Signal, CloseStopCh, Goto
<1>5. CASE pc[p] = "wait" /\ op[p] = "Stop" /\ Live = {}
  BY <1>1, <1>5 DEF Onward, OwnStep, StopReturns, Return, Goto
<1>6. CASE pc[p] = "wait" /\ op[p] = "Start" /\ Live = {}
  BY <1>1, <1>6 DEF Onward, OwnStep, StartFails, Return, Goto
<1>7. CASE pc[p] \in {"select", "debounce"} /\ closed
  BY <1>7 DEF Onward, OwnStep, Exit, Goto
<1>8. CASE pc[p] = "add"
  BY <1>8 DEF Onward, OwnStep, Enqueue, AddSource, Goto
<1>9. CASE pc[p] = "send"
  BY <1>9 DEF Onward, OwnStep, Enqueue, SendWake, Return, Goto
<1>10. CASE pc[p] = "snapshot"
  BY <1>1, <1>10 DEF Onward, OwnStep, Worker, SnapshotSources, Goto
<1>11. CASE pc[p] = "load"
  BY <1>1, <1>11 DEF Onward, OwnStep, Worker, LoadConfig, Goto
<1>12. CASE pc[p] = "dispatch" /\ left # <<>>
  BY <1>1, <1>12 DEF Onward, OwnStep, Worker, ApplyFails
<1>13. CASE pc[p] = "dispatch" /\ left = <<>>
  BY <1>1, <1>13 DEF Onward, OwnStep, Worker, FinishReload, Summarise, Goto
<1> QED
  BY <1>1, <1>2, <1>3, <1>4, <1>5, <1>6, <1>7, <1>8, <1>9, <1>10, <1>11,
     <1>12, <1>13
  DEF GoesOn

\* No deadlock between stopOnce, the ctx watcher and the wait group: a process
\* that waits for stopOnce waits for one whose next step closes stopCh, and
\* one that waits for the wait group waits for goroutines each of which has a
\* step of its own to take (Stop, signalStop, Start's error path), by
\* FreeToMove.  TLC checks that they all return in the end (StopTerminates).
THEOREM StopIsNeverStuck == Spec => []StopNeverStuck
<1>1. TypeOK /\ OnceInv => StopNeverStuck
  <2> SUFFICES ASSUME TypeOK, OnceInv, NEW c \in Clients
               PROVE  /\ pc[c] = "signal" =>
                            \/ GoesOn(c)
                            \/ \E p \in Procs : pc[p] = "close" /\ GoesOn(p)
                      /\ pc[c] = "wait" =>
                            IF Live = {} THEN GoesOn(c)
                            ELSE \A g \in Live : GoesOn(g)
    BY DEF StopNeverStuck
  <2>1. ASSUME pc[c] = "signal"
        PROVE  GoesOn(c) \/ \E p \in Procs : pc[p] = "close" /\ GoesOn(p)
    <3>1. CASE once = "busy"
      BY <3>1 DEF OnceInv, GoesOn
    <3> QED BY <2>1, <3>1 DEF GoesOn
  <2>2. ASSUME pc[c] = "wait", Live = {} PROVE GoesOn(c)
    BY <2>2 DEF OnceInv, StopPCs, GoesOn
  <2>3. ASSUME pc[c] = "wait", NEW g \in Live PROVE GoesOn(g)
    <3>1. c \in Procs /\ g \in Goroutines /\ pc[g] \notin {"none", "exit"}
      BY LabelsPC DEF Live
    <3>2. once = "done" /\ closed
      BY <2>3, <3>1 DEF OnceInv
    <3>3. pc[g] \in {"select", "debounce", "signal", "close", "add", "send",
                     "snapshot", "load", "dispatch"}
      BY <3>1, LabelsPC DEF TypeOK, PCOK
    <3> QED BY <3>1, <3>2, <3>3 DEF GoesOn
  <2> QED BY <2>1, <2>2, <2>3
<1> QED BY <1>1, TypeCorrect, OnceInvariant, PTL

-----------------------------------------------------------------------------
(* What Trigger answers.                                                   *)

\* Only a Start that fails takes started back.
LEMMA AnswerInvStep ==
  ASSUME FileTriggerSafe, TypeOK, StartInv, OnceInv, AnswerInv, [Next]_vars
  PROVE  AnswerInv'
<1> USE LabelsPC
<1> USE DEF TypeOK, PCOK, AnswerInv, Starting, StopPCs, SpawnPCs, flagVars,
    callVars, Goto
<1> DEFINE Moves(p, l) == \A q \in Procs : pc'[q] = IF q = p THEN l ELSE pc[q]
<1>1. ASSUME NEW p \in Clients \cup {"watcher"}, SignalStopped(p) PROVE AnswerInv'
  <2>1. /\ p \in Procs /\ pc[p] = "signal" /\ Moves(p, "close")
        /\ UNCHANGED <<started, op, todo>>
    BY <1>1 DEF SignalStopped
  <2>2. started \/ stopped
    BY <2>1 DEF OnceInv, StartInv
  <2> QED BY <2>1, <2>2
<1>2. ASSUME NEW p \in Clients \cup {"watcher"}, CloseStopCh(p) \/ SignalAgain(p)
      PROVE  AnswerInv'
  <2>1. /\ p \in Procs /\ pc[p] \in {"signal", "close"} /\ Moves(p, AfterSignal(p))
        /\ UNCHANGED <<started, stopped, op, todo>>
    BY <1>2 DEF CloseStopCh, SignalAgain
  <2> QED BY <2>1
<1>3. ASSUME NEW c \in Clients, CallStart(c) PROVE AnswerInv'
  <2>1. /\ Moves(c, "spawnWorker") /\ started' /\ todo' = SourceList
        /\ \A d \in Clients \ {c} : op'[d] = op[d]
    BY <1>3 DEF CallStart, Enter, DataOK
  <2> QED BY <2>1
<1>4. ASSUME NEW c \in Clients, CallStop(c) PROVE AnswerInv'
  <2>1. /\ Moves(c, "signal") /\ UNCHANGED <<started, stopped, todo>>
        /\ \A d \in Clients : op'[d] = IF d = c THEN "Stop" ELSE op[d]
    BY <1>4 DEF CallStop, Enter, DataOK
  <2> QED BY <2>1
<1>5. ASSUME NEW c \in Clients, FileTriggerFails(c) PROVE AnswerInv'
  <2>1. /\ FileWatchMayFail /\ todo \in Seq({"sighup", "file"})
        /\ todo # <<>> /\ Head(todo) = "file"
    BY <1>5 DEF FileTriggerFails, DataOK
  <2>2. 1 \in 1..Len(todo) /\ todo[1] = "file"
    BY <2>1
  <2> QED BY <2>1, <2>2 DEF FileTriggerSafe
<1>6. ASSUME NEW c \in Clients, StartFails(c) PROVE AnswerInv'
  BY <1>6 DEF StartFails
<1>7. CASE WatchCtx
  BY <1>7 DEF WatchCtx
<1>8. CASE Elsewhere
  <2>1. \A c \in Clients : op'[c] = "Start" => pc'[c] \in SpawnPCs
    BY <1>8 DEF Elsewhere
  <2>2. \A i \in 1..Len(todo') : \E j \in 1..Len(SourceList) : todo'[i] = SourceList[j]
    <3>1. CASE todo' = todo
      BY <3>1
    <3>2. CASE todo # <<>> /\ todo' = Tail(todo)
      <4>1. todo \in Seq({"sighup", "file"})
        BY DEF DataOK
      <4>2. \A i \in 1..Len(todo') : i + 1 \in 1..Len(todo) /\ todo'[i] = todo[i + 1]
        BY <3>2, <4>1
      <4> QED BY <4>2
    <3> QED BY <1>8, <3>1, <3>2 DEF Elsewhere
  <2> QED BY <1>8, <2>1, <2>2 DEF Elsewhere
<1> QED BY <1>1, <1>2, <1>3, <1>4, <1>5, <1>6, <1>7, <1>8, StepShape

\* If no file watcher can fail, a Trigger after signalStop is always told
\* ErrStopped, even when Stop races Start.  So the one way to be told
\* ErrNotStarted instead is the error path of Start, the divergence that the
\* run reloader_failed_start shows.
THEOREM StoppedIsAnswered ==
  ASSUME FileTriggerSafe PROVE Spec => []ErrStoppedAfterStop
<1>1. Init => AnswerInv
  BY SourcesAssumption DEF Init, AnswerInv, Starting
<1>2. AnswerInv => ErrStoppedAfterStop
  BY DEF AnswerInv, ErrStoppedAfterStop, TriggerAnswer
<1>3. TypeOK /\ StartInv /\ OnceInv /\ AnswerInv /\ [Next]_vars => AnswerInv'
  BY AnswerInvStep
<1> QED
  BY <1>1, <1>2, <1>3, TypeCorrect, StartInvariant, OnceInvariant, PTL DEF Spec

-----------------------------------------------------------------------------
(* Why a Reloader stops.                                                   *)

\* A cause, once there, stays: the context stays cancelled, and who waits in
\* Stop leaves a mark when it returns.
LEMMA CauseInvStep ==
  ASSUME TypeOK, StartInv, OnceInv, CauseInv, [Next]_vars
  PROVE  CauseInv'
<1> USE LabelsPC
<1> USE DEF TypeOK, PCOK, CauseInv, flagVars, callVars, envVars, Goto
<1> DEFINE Moves(p, l) == \A q \in Procs : pc'[q] = IF q = p THEN l ELSE pc[q]
<1>1. ASSUME NEW p \in Clients \cup {"watcher"}, SignalStopped(p) PROVE CauseInv'
  <2>1. /\ p \in Procs /\ pc[p] = "signal" /\ Moves(p, "close") /\ stopped'
        /\ UNCHANGED <<ctxDone, quiet>>
    BY <1>1 DEF SignalStopped
  <2> QED BY <2>1
<1>2. ASSUME NEW p \in Clients \cup {"watcher"}, CloseStopCh(p) \/ SignalAgain(p)
      PROVE  CauseInv'
  <2>1. /\ p \in Procs /\ pc[p] \in {"signal", "close"} /\ Moves(p, AfterSignal(p))
        /\ UNCHANGED <<stopped, ctxDone, quiet>>
    BY <1>2 DEF CloseStopCh, SignalAgain
  <2>2. once # "new"
    BY <1>2, <2>1 DEF CloseStopCh, SignalAgain, OnceInv
  <2> QED BY <2>1, <2>2 DEF AfterSignal
<1>3. ASSUME NEW c \in Clients, CallStart(c) \/ CallStop(c) \/ FileTriggerFails(c)
      PROVE  CauseInv'
  <2>1. PICK l \in {"spawnWorker", "signal"} : Moves(c, l)
    BY <1>3 DEF CallStart, CallStop, FileTriggerFails, Enter
  <2>2. /\ pc[c] \in {"idle", "spawnTriggers"}
        /\ UNCHANGED <<stopped, once, ctxDone, quiet>>
    BY <1>3 DEF CallStart, CallStop, FileTriggerFails
  <2> QED BY <2>1, <2>2
<1>4. ASSUME NEW c \in Clients, StartFails(c) PROVE CauseInv'
  <2>1. Moves(c, "idle") /\ quiet' /\ stopped' /\ ctxDone' = ctxDone
    BY <1>4 DEF StartFails, Return
  <2> QED BY <2>1
<1>5. CASE WatchCtx
  <2>1. Moves("watcher", "signal") /\ ctxDone /\ UNCHANGED <<ctxDone, stopped, once>>
    BY <1>5 DEF WatchCtx
  <2> QED BY <2>1
<1>6. CASE Elsewhere
  <2>1. \A g \in Goroutines : pc'[g] = "exit" => stopped'
    BY <1>6 DEF Elsewhere, OnceInv
  <2>2. pc'["watcher"] \in {"signal", "close"} => ctxDone'
    BY <1>6 DEF Elsewhere, StopPCs
  <2>3. \A c \in Clients : pc[c] \in {"close", "wait"} =>
            pc'[c] \in {"close", "wait"} \/ quiet'
    BY <1>6 DEF Elsewhere
  <2> QED BY <1>6, <2>1, <2>2, <2>3 DEF Elsewhere
<1> QED BY <1>1, <1>2, <1>3, <1>4, <1>5, <1>6, StepShape

\* No goroutine of the Reloader ends by itself: the first that stops, stops
\* because of a cancelled context, a call of Stop or a Start that gave up, and
\* nothing else closes stopCh (Start, Stop, signalStop).
THEOREM NothingEndsByItself == Spec => []EndsForACause
<1>1. Init => CauseInv
  BY LabelsPC DEF Init, CauseInv, Procs
<1>2. TypeOK /\ StartInv /\ OnceInv /\ CauseInv /\ [Next]_vars => CauseInv'
  BY CauseInvStep
<1>3. OnceInv /\ CauseInv => EndsForACause
  <2> SUFFICES ASSUME OnceInv, CauseInv PROVE EndsForACause
    OBVIOUS
  <2>1. \A c \in Clients : pc[c] \in {"close", "wait"} => op[c] \in {"Start", "Stop"}
    BY DEF OnceInv, StopPCs
  <2> QED BY <2>1 DEF CauseInv, EndsForACause
<1> QED
  BY <1>1, <1>2, <1>3, TypeCorrect, StartInvariant, OnceInvariant, PTL DEF Spec

=============================================================================
