------------------------------ MODULE Reloader ------------------------------
(***************************************************************************)
(* The hot-reload engine of internal/reload: the API calls Register,       *)
(* Start, Stop and Trigger made by any number of client goroutines, the    *)
(* goroutines Start spawns (worker, ctx watcher, SIGHUP trigger, file      *)
(* trigger), the one-slot wake-up channel and the source set they share,   *)
(* the debounce timer, and the dispatch of a reloaded configuration to the *)
(* subscribers.                                                            *)
(*                                                                         *)
(* A configuration is abstracted to the version number of the file it was  *)
(* read from; version 0 is the boot configuration.  An action is one       *)
(* critical section or one channel operation of the code.                  *)
(***************************************************************************)
EXTENDS Naturals, Sequences, FiniteSets

CONSTANTS
    Clients,          \* goroutines that call the exported API
    SubNames,         \* names of the subscribers that may be registered
    SourceList,       \* reload.sources: a sequence over {"sighup", "file"}
    Debounce,         \* length of the debounce window, in ticks of its timer
    StopAfterStart,   \* TRUE: callers never call Stop while Start is running
    FileWatchMayFail, \* TRUE: creating the file watcher may fail
    MaxWrites         \* bound: the number of times the file is rewritten

Goroutines == {"worker", "watcher", "sighup", "file"}
Procs      == Clients \cup Goroutines
Sources    == {"api", "sighup", "file"}

ASSUME ClientsAssumption  == Clients \cap Goroutines = {}
ASSUME SourcesAssumption  ==  \* config.Validate refuses duplicates
    /\ SourceList \in Seq({"sighup", "file"})
    /\ \A i, j \in 1..Len(SourceList) : SourceList[i] = SourceList[j] => i = j
ASSUME DebounceAssumption == Debounce \in Nat
ASSUME FlagsAssumption    == /\ StopAfterStart \in BOOLEAN
                             /\ FileWatchMayFail \in BOOLEAN
ASSUME BoundAssumption    == MaxWrites \in Nat

VARIABLES
    \* the environment
    file,         \* version of the configuration file on disk
    good,         \* the versions that Load and Validate accept
    events,       \* change events queued in the file watcher
    overflowed,   \* the watcher dropped events (it only logs the error)
    hup,          \* a SIGHUP is buffered in the trigger's channel
    ctxDone,      \* the context given to Start is cancelled
    \* fields of the Reloader
    subs,         \* subscribers, in order of registration
    started, stopped,
    once,         \* state of stopOnce: "new", "busy", "done"
    closed,       \* stopCh is closed
    wake,         \* the one slot of triggerCh is full
    srcSet,
    lastApplied,
    \* goroutines and calls
    pc,
    op,           \* the API call a client is in
    todo,         \* trigger sources Start has still to start
    \* locals of worker, debounceWait and doReload
    timer,        \* ticks left before the debounce timer fires
    cand,         \* the configuration the current cycle read (newCfg)
    left, succeeded, failed,
    \* the subscribers' side, and what the log shows
    applied,      \* the version each subscriber runs with
    summary,      \* last "config reload applied" line
    \* history
    need,         \* version on disk when a source was last added
    quiet         \* a Stop, or a Start that failed, has returned

envVars    == <<file, good, events, overflowed, hup, ctxDone>>
flagVars   == <<started, stopped, once, closed>>
queueVars  == <<wake, srcSet, need>>
callVars   == <<op, todo, quiet>>
cycleVars  == <<timer, cand, left, succeeded, failed>>
resultVars == <<subs, lastApplied, applied, summary>>
vars == <<envVars, flagVars, queueVars, callVars, cycleVars, resultVars, pc>>

Live == {g \in Goroutines : pc[g] \notin {"none", "exit"}}  \* wg's count

SourceOf(p) == IF p \in Clients THEN "api" ELSE p

Starting(c) == op[c] = "Start"

Init ==
    /\ file = 0 /\ good = {0} /\ events = 0 /\ overflowed = FALSE
    /\ hup = FALSE /\ ctxDone = FALSE
    /\ subs = <<>> /\ started = FALSE /\ stopped = FALSE
    /\ once = "new" /\ closed = FALSE /\ wake = FALSE /\ srcSet = {}
    /\ lastApplied = 0
    /\ pc = [p \in Procs |-> IF p \in Clients THEN "idle" ELSE "none"]
    /\ op = [c \in Clients |-> "none"] /\ todo = <<>> /\ quiet = FALSE
    /\ timer = 0 /\ cand = 0
    /\ left = <<>> /\ succeeded = {} /\ failed = {}
    /\ applied = [s \in SubNames |-> 0]
    /\ summary = [level |-> "none", failed |-> {}]
    /\ need = 0

-----------------------------------------------------------------------------
(* The environment: the file, the signal, the context.                     *)

\* An editor replaces the file; a torn or invalid write is a version that
\* Load or Validate refuses.
Write ==
    /\ file < MaxWrites
    /\ file' = file + 1
    /\ \/ good' = good \cup {file + 1}
       \/ good' = good
    /\ events' = IF "file" \in Live THEN events + 1 ELSE events
    /\ UNCHANGED <<overflowed, hup, ctxDone, flagVars, queueVars, callVars,
                   cycleVars, resultVars, pc>>

\* The kernel queue of the watcher overflows; startFileTrigger logs it only.
Overflow ==
    /\ events > 0
    /\ events' = 0 /\ overflowed' = TRUE
    /\ UNCHANGED <<file, good, hup, ctxDone, flagVars, queueVars, callVars,
                   cycleVars, resultVars, pc>>

\* signal.Notify never blocks: a second SIGHUP in a full buffer is dropped.
Sighup ==
    /\ "sighup" \in Live
    /\ hup' = TRUE
    /\ UNCHANGED <<file, good, events, overflowed, ctxDone, flagVars,
                   queueVars, callVars, cycleVars, resultVars, pc>>

CancelCtx ==
    /\ ~ctxDone
    /\ ctxDone' = TRUE
    /\ UNCHANGED <<file, good, events, overflowed, hup, flagVars, queueVars,
                   callVars, cycleVars, resultVars, pc>>

-----------------------------------------------------------------------------
(* Register and Start.                                                     *)

Goto(p, label) == pc' = [pc EXCEPT ![p] = label]

\* Client c enters an API call, or leaves it.
Enter(c, call, label) ==
    /\ op' = [op EXCEPT ![c] = call]
    /\ Goto(c, label)
Return(c) ==
    /\ op' = [op EXCEPT ![c] = "none"]
    /\ Goto(c, "idle")

Registered == {subs[i] : i \in 1..Len(subs)}

\* Calls that are refused with an error change nothing and are left out:
\* here after Start or Stop, or for a name that is taken.
Register(c, s) ==
    /\ pc[c] = "idle"
    /\ ~started /\ ~stopped
    /\ s \notin Registered
    /\ subs' = Append(subs, s)
    /\ UNCHANGED <<envVars, flagVars, queueVars, callVars, cycleVars,
                   lastApplied, applied, summary, pc>>

\* The critical section at the head of Start.
CallStart(c) ==
    /\ pc[c] = "idle"
    /\ ~started /\ ~stopped
    /\ started' = TRUE
    /\ todo' = SourceList
    /\ Enter(c, "Start", "spawnWorker")
    /\ UNCHANGED <<envVars, stopped, once, closed, queueVars, quiet, cycleVars,
                   resultVars>>

SpawnWorker(c) ==
    /\ pc[c] = "spawnWorker"
    /\ pc' = [pc EXCEPT ![c] = "spawnWatcher", !["worker"] = "select"]
    /\ UNCHANGED <<envVars, flagVars, queueVars, callVars, cycleVars,
                   resultVars>>

SpawnWatcher(c) ==
    /\ pc[c] = "spawnWatcher"
    /\ pc' = [pc EXCEPT ![c] = "spawnTriggers", !["watcher"] = "select"]
    /\ UNCHANGED <<envVars, flagVars, queueVars, callVars, cycleVars,
                   resultVars>>

StartTrigger(c) ==
    /\ pc[c] = "spawnTriggers"
    /\ todo # <<>>
    /\ pc' = [pc EXCEPT ![Head(todo)] = "select"]
    /\ todo' = Tail(todo)
    /\ UNCHANGED <<envVars, flagVars, queueVars, op, quiet, cycleVars,
                   resultVars>>

\* fsnotify.NewWatcher or Add fails: Start gives up and stops what it began.
FileTriggerFails(c) ==
    /\ FileWatchMayFail
    /\ pc[c] = "spawnTriggers"
    /\ todo # <<>> /\ Head(todo) = "file"
    /\ Goto(c, "signal")
    /\ UNCHANGED <<envVars, flagVars, queueVars, callVars, cycleVars,
                   resultVars>>

StartReturns(c) ==
    /\ pc[c] = "spawnTriggers"
    /\ todo = <<>>
    /\ Return(c)
    /\ UNCHANGED <<envVars, flagVars, queueVars, todo, quiet, cycleVars,
                   resultVars>>

-----------------------------------------------------------------------------
(* Stop, signalStop and the wait group.                                    *)

\* Mutant: a second Stop returns at once instead of waiting as well.
CallStopOnce(c) ==
    /\ pc[c] = "idle"
    /\ StopAfterStart => \A d \in Clients : ~Starting(d)
    /\ started
    /\ IF stopped
       THEN quiet' = TRUE /\ UNCHANGED <<op, pc>>
       ELSE Enter(c, "Stop", "signal") /\ UNCHANGED quiet
    /\ UNCHANGED <<envVars, flagVars, queueVars, todo, cycleVars, resultVars>>

\* Before Start, Stop is a no-op.
CallStop(c) ==
    /\ pc[c] = "idle"
    /\ StopAfterStart => \A d \in Clients : ~Starting(d)
    /\ started
    /\ Enter(c, "Stop", "signal")
    /\ UNCHANGED <<envVars, flagVars, queueVars, todo, quiet, cycleVars,
                   resultVars>>

\* Mutant: the ctx watcher calls Stop, and so waits for itself.
AfterSignalStops(p) == "wait"

AfterSignal(p) == IF p = "watcher" THEN "exit" ELSE "wait"

\* stopOnce.Do, first caller: the critical section that sets stopped.
SignalStopped(p) ==
    /\ pc[p] = "signal" /\ once = "new"
    /\ once' = "busy"
    /\ stopped' = TRUE
    /\ Goto(p, "close")
    /\ UNCHANGED <<envVars, started, closed, queueVars, callVars, cycleVars,
                   resultVars>>

CloseStopCh(p) ==
    /\ pc[p] = "close"
    /\ closed' = TRUE
    /\ once' = "done"
    /\ Goto(p, AfterSignal(p))
    /\ UNCHANGED <<envVars, started, stopped, queueVars, callVars, cycleVars,
                   resultVars>>

\* stopOnce.Do, later callers: they block until the first one is done.
SignalAgain(p) ==
    /\ pc[p] = "signal" /\ once = "done"
    /\ Goto(p, AfterSignal(p))
    /\ UNCHANGED <<envVars, flagVars, queueVars, callVars, cycleVars,
                   resultVars>>

StopReturns(c) ==
    /\ pc[c] = "wait" /\ op[c] = "Stop"
    /\ Live = {}
    /\ quiet' = TRUE
    /\ Return(c)
    /\ UNCHANGED <<envVars, flagVars, queueVars, todo, cycleVars, resultVars>>

StartFails(c) ==
    /\ pc[c] = "wait" /\ op[c] = "Start"
    /\ Live = {}
    /\ started' = FALSE /\ stopped' = TRUE
    /\ quiet' = TRUE
    /\ Return(c)
    /\ UNCHANGED <<envVars, once, closed, queueVars, todo, cycleVars,
                   resultVars>>

\* Mutant: a cancelled ctx ends the watcher and nothing else.
WatchCtxGivesUp ==
    /\ pc["watcher"] = "select" /\ ctxDone
    /\ Goto("watcher", "exit")
    /\ UNCHANGED <<envVars, flagVars, queueVars, callVars, cycleVars,
                   resultVars>>

\* The goroutine of Start that turns a cancelled ctx into signalStop.
WatchCtx ==
    /\ pc["watcher"] = "select" /\ ctxDone
    /\ Goto("watcher", "signal")
    /\ UNCHANGED <<envVars, flagVars, queueVars, callVars, cycleVars,
                   resultVars>>

\* The stopCh case of the select statement of every goroutine; debounceWait
\* stops its timer on the way out.
Exit(g) ==
    /\ closed
    /\ pc[g] \in {"select", "debounce"}
    /\ Goto(g, "exit")
    /\ timer' = IF g = "worker" THEN 0 ELSE timer
    /\ UNCHANGED <<envVars, flagVars, queueVars, callVars, cand, left,
                   succeeded, failed, resultVars>>

-----------------------------------------------------------------------------
(* Trigger, the trigger goroutines, and enqueue.                           *)

\* What Trigger answers, from the flags it reads in one critical section.
TriggerAnswer ==
    IF ~started THEN "ErrNotStarted" ELSE IF stopped THEN "ErrStopped" ELSE "nil"

\* An accepted Trigger: it enqueues after it has left the critical section.
CallTrigger(c) ==
    /\ pc[c] = "idle"
    /\ TriggerAnswer = "nil"
    /\ Enter(c, "Trigger", "add")
    /\ UNCHANGED <<envVars, flagVars, queueVars, todo, quiet, cycleVars,
                   resultVars>>

ReceiveSighup ==
    /\ pc["sighup"] = "select" /\ hup
    /\ hup' = FALSE
    /\ Goto("sighup", "add")
    /\ UNCHANGED <<file, good, events, overflowed, ctxDone, flagVars,
                   queueVars, callVars, cycleVars, resultVars>>

\* Mutant: the name filter swallows the events of the file itself.
ReceiveFileEventFiltered ==
    /\ pc["file"] = "select" /\ events > 0
    /\ events' = events - 1
    /\ UNCHANGED <<file, good, overflowed, hup, ctxDone, flagVars, queueVars,
                   callVars, cycleVars, resultVars, pc>>

\* Events of other files of the directory are filtered out by name.
ReceiveFileEvent ==
    /\ pc["file"] = "select" /\ events > 0
    /\ events' = events - 1
    /\ Goto("file", "add")
    /\ UNCHANGED <<file, good, overflowed, hup, ctxDone, flagVars, queueVars,
                   callVars, cycleVars, resultVars>>

AddSource(p) ==
    /\ pc[p] = "add"
    /\ srcSet' = srcSet \cup {SourceOf(p)}
    /\ need' = file
    /\ Goto(p, "send")
    /\ UNCHANGED <<envVars, flagVars, wake, callVars, cycleVars, resultVars>>

\* The non-blocking send: a full channel already holds a wake-up.
SendWake(p) ==
    /\ pc[p] = "send"
    /\ wake' = TRUE
    /\ IF p \in Clients
       THEN Return(p)
       ELSE Goto(p, "select") /\ op' = op
    /\ UNCHANGED <<envVars, flagVars, srcSet, need, todo, quiet, cycleVars,
                   resultVars>>

-----------------------------------------------------------------------------
(* The worker: debounceWait and doReload.                                  *)

ReceiveWake ==
    /\ pc["worker"] = "select" /\ wake
    /\ wake' = FALSE
    /\ timer' = Debounce
    /\ Goto("worker", IF Debounce = 0 THEN "snapshot" ELSE "debounce")
    /\ UNCHANGED <<envVars, flagVars, srcSet, need, callVars, cand, left,
                   succeeded, failed, resultVars>>

\* Mutant: the timer is not stopped when it has fired.
TickPastZero ==
    /\ pc["worker"] = "debounce"
    /\ timer' = timer - 1
    /\ UNCHANGED <<envVars, flagVars, queueVars, callVars, cand, left,
                   succeeded, failed, resultVars, pc>>

Tick ==
    /\ timer > 0
    /\ timer' = timer - 1
    /\ UNCHANGED <<envVars, flagVars, queueVars, callVars, cand, left,
                   succeeded, failed, resultVars, pc>>

\* A trigger in the window restarts it, even if the timer has just fired.
DebounceMore ==
    /\ pc["worker"] = "debounce" /\ wake
    /\ wake' = FALSE
    /\ timer' = Debounce
    /\ UNCHANGED <<envVars, flagVars, srcSet, need, callVars, cand, left,
                   succeeded, failed, resultVars, pc>>

DebounceFires ==
    /\ pc["worker"] = "debounce" /\ timer = 0
    /\ Goto("worker", "snapshot")
    /\ UNCHANGED <<envVars, flagVars, queueVars, callVars, cycleVars,
                   resultVars>>

SnapshotSources ==
    /\ pc["worker"] = "snapshot"
    /\ srcSet' = {}
    /\ Goto("worker", "load")
    /\ UNCHANGED <<envVars, flagVars, wake, need, callVars, timer, cand, left,
                   succeeded, failed, resultVars>>

\* Mutant: the result of Validate is ignored.
LoadConfigUnvalidated ==
    /\ pc["worker"] = "load"
    /\ cand' = file /\ left' = subs
    /\ Goto("worker", "dispatch")
    /\ UNCHANGED <<envVars, flagVars, queueVars, callVars, timer, succeeded,
                   failed, resultVars>>

\* config.Load and Validate; either error ends the cycle.
LoadConfig ==
    /\ pc["worker"] = "load"
    /\ cand' = file
    /\ IF file \in good
       THEN left' = subs /\ Goto("worker", "dispatch")
       ELSE left' = left /\ Goto("worker", "select")
    /\ UNCHANGED <<envVars, flagVars, queueVars, callVars, timer, succeeded, failed,
                   resultVars>>

ApplyOK ==
    /\ pc["worker"] = "dispatch" /\ left # <<>>
    /\ applied' = [applied EXCEPT ![Head(left)] = cand]
    /\ succeeded' = succeeded \cup {Head(left)}
    /\ left' = Tail(left)
    /\ UNCHANGED <<envVars, flagVars, queueVars, callVars, timer, cand,
                   failed, subs, lastApplied, summary, pc>>

\* Mutant: the dispatch ends at the first failure.
ApplyFailsAndStops ==
    /\ pc["worker"] = "dispatch" /\ left # <<>>
    /\ failed' = failed \cup {Head(left)}
    /\ left' = <<>>
    /\ UNCHANGED <<envVars, flagVars, queueVars, callVars, timer, cand,
                   succeeded, resultVars, pc>>

ApplyFails ==
    /\ pc["worker"] = "dispatch" /\ left # <<>>
    /\ failed' = failed \cup {Head(left)}
    /\ left' = Tail(left)
    /\ UNCHANGED <<envVars, flagVars, queueVars, callVars, timer, cand,
                   succeeded, resultVars, pc>>

Summarise ==
    /\ summary' = [level |-> IF failed # {} THEN "warn" ELSE "info",
                   failed |-> failed]
    /\ succeeded' = {} /\ failed' = {}
    /\ Goto("worker", "select")

\* Mutant: lastApplied is replaced even if every subscriber failed.
FinishReloadAlways ==
    /\ pc["worker"] = "dispatch" /\ left = <<>>
    /\ lastApplied' = cand
    /\ Summarise
    /\ UNCHANGED <<envVars, flagVars, queueVars, callVars, timer, cand, left,
                   subs, applied>>

\* Mutant: the end of a cycle drains the wake-ups that arrived meanwhile.
FinishReloadDrains ==
    /\ pc["worker"] = "dispatch" /\ left = <<>>
    /\ lastApplied' = IF succeeded # {} THEN cand ELSE lastApplied
    /\ Summarise
    /\ wake' = FALSE
    /\ UNCHANGED <<envVars, flagVars, srcSet, need, callVars, timer, cand,
                   left, subs, applied>>

\* Mutant: the sources are taken again at the end, for the summary line.
FinishReloadForgets ==
    /\ pc["worker"] = "dispatch" /\ left = <<>>
    /\ lastApplied' = IF succeeded # {} THEN cand ELSE lastApplied
    /\ Summarise
    /\ srcSet' = {}
    /\ UNCHANGED <<envVars, flagVars, wake, need, callVars, timer, cand, left,
                   subs, applied>>

\* setLastApplied if anyone took the configuration, then the summary line.
FinishReload ==
    /\ pc["worker"] = "dispatch" /\ left = <<>>
    /\ lastApplied' = IF succeeded # {} THEN cand ELSE lastApplied
    /\ Summarise
    /\ UNCHANGED <<envVars, flagVars, queueVars, callVars, timer, cand, left,
                   subs, applied>>

-----------------------------------------------------------------------------

Environment == Write \/ Overflow \/ Sighup \/ CancelCtx

\* A call begins, or is over at once.
Call(c) ==
    \/ \E s \in SubNames : Register(c, s)
    \/ CallStart(c) \/ CallStop(c) \/ CallTrigger(c)

Signal(p) == SignalStopped(p) \/ CloseStopCh(p) \/ SignalAgain(p)
Enqueue(p) == AddSource(p) \/ SendWake(p)

\* The rest of a call of client c.
Proceed(c) ==
    \/ SpawnWorker(c) \/ SpawnWatcher(c) \/ StartTrigger(c)
    \/ FileTriggerFails(c) \/ StartReturns(c) \/ StartFails(c)
    \/ Signal(c) \/ StopReturns(c) \/ Enqueue(c)

Watcher == WatchCtx \/ Signal("watcher")
SighupTrigger == ReceiveSighup \/ Enqueue("sighup")
FileTrigger == ReceiveFileEvent \/ Enqueue("file")
Worker ==
    \/ ReceiveWake \/ DebounceMore \/ DebounceFires \/ SnapshotSources
    \/ LoadConfig \/ ApplyOK \/ ApplyFails \/ FinishReload

Next ==
    \/ Environment \/ Tick
    \/ \E c \in Clients : Call(c) \/ Proceed(c)
    \/ \E g \in Goroutines : Exit(g)
    \/ Watcher \/ SighupTrigger \/ FileTrigger \/ Worker

Spec == Init /\ [][Next]_vars

(***************************************************************************)
(* Every goroutine and every call that can go on does; a select with       *)
(* several ready cases picks one at random, so a stopCh that stays closed  *)
(* is noticed in the end.  Nobody is obliged to make a call, to write the  *)
(* file, to send a signal or to cancel the context.                        *)
(***************************************************************************)
Fairness ==
    /\ \A c \in Clients : WF_vars(Proceed(c))
    /\ WF_vars(Tick)
    /\ WF_vars(Watcher) /\ WF_vars(SighupTrigger) /\ WF_vars(FileTrigger)
    /\ WF_vars(Worker)
    /\ \A g \in Goroutines : SF_vars(Exit(g))

FairSpec == Spec /\ Fairness
-----------------------------------------------------------------------------
(* Properties.                                                             *)

ClientPCs == {"idle", "spawnWorker", "spawnWatcher", "spawnTriggers",
              "signal", "close", "wait", "add", "send"}
WorkerPCs  == {"none", "select", "debounce", "snapshot", "load", "dispatch",
               "exit"}
WatcherPCs == {"none", "select", "signal", "close", "exit"}
TriggerPCs == {"none", "select", "add", "send", "exit"}

PCsOf(p) ==
    IF p \in Clients THEN ClientPCs
    ELSE IF p = "worker" THEN WorkerPCs
    ELSE IF p = "watcher" THEN WatcherPCs
    ELSE TriggerPCs

\* Every goroutine is at one of the labels of its own code.
PCOK ==
    /\ pc \in [Procs -> UNION {ClientPCs, WorkerPCs, WatcherPCs, TriggerPCs}]
    /\ \A p \in Procs : pc[p] \in PCsOf(p)

\* Versions never exceed the one on disk.
DataOK ==
    /\ file \in Nat /\ good \subseteq 0..file /\ events \in Nat
    /\ overflowed \in BOOLEAN /\ hup \in BOOLEAN /\ ctxDone \in BOOLEAN
    /\ subs \in Seq(SubNames)
    /\ started \in BOOLEAN /\ stopped \in BOOLEAN /\ closed \in BOOLEAN
    /\ once \in {"new", "busy", "done"}
    /\ wake \in BOOLEAN /\ srcSet \subseteq Sources
    /\ lastApplied \in 0..file
    /\ op \in [Clients -> {"none", "Start", "Stop", "Trigger"}]
    /\ todo \in Seq({"sighup", "file"}) /\ quiet \in BOOLEAN
    /\ timer \in 0..Debounce /\ cand \in 0..file
    /\ left \in Seq(SubNames)
    /\ succeeded \subseteq SubNames /\ failed \subseteq SubNames
    /\ applied \in [SubNames -> 0..file]
    /\ summary \in [level : {"none", "info", "warn"}, failed : SUBSET SubNames]
    /\ need \in 0..file

\* Every variable stays in its range.
TypeOK == PCOK /\ DataOK

\* No lost wake-up: a source waiting in srcSet (enqueue) always has someone
\* who will get the worker to collect it: a token in triggerCh, a caller
\* about to send one, or the worker on its way to snapshotSources; unless
\* the Reloader is stopping.
NoLostTrigger ==
    srcSet # {} =>
        \/ wake
        \/ \E p \in Procs : pc[p] = "send"
        \/ pc["worker"] \in {"debounce", "snapshot"}
        \/ closed

\* A trigger is never answered with an older file than the one it announced:
\* once its source has been collected and the cycle's Load is over, what Load
\* read is at least the version on disk when the source was added (doReload
\* snapshots the sources before it loads, never after).
TriggerSeesItsFile ==
    srcSet = {} /\ pc["worker"] # "load" => cand >= need

\* Best-effort dispatch hides no failure: between two cycles, a registered
\* subscriber that does not run with the configuration lastApplied reports is
\* named as failed by the last summary line, which is then a warning.
LaggingReported ==
    pc["worker"] # "dispatch" =>
        \A s \in Registered :
            applied[s] # lastApplied =>
                s \in summary.failed /\ summary.level = "warn"

\* Between two cycles, lastApplied never names a configuration nobody took:
\* some subscriber runs with it, or it is still the boot configuration
\* (doReload, len(succeeded) > 0).
LastAppliedIsCarried ==
    pc["worker"] # "dispatch" =>
        lastApplied = 0 \/ \E s \in Registered : applied[s] = lastApplied

\* Subscribers only ever move forward, and only to a configuration that Load
\* and Validate accepted: no torn or refused file reaches a subscriber, and
\* no cycle re-applies what an earlier one replaced.
AppliedAdvances ==
    [][\A s \in SubNames : applied'[s] # applied[s] =>
            applied'[s] \in good /\ applied'[s] > applied[s]]_vars

\* Stop returns only when nothing it should stop is running: no worker that
\* could still reload, no trigger goroutine, no watcher.  The same holds when
\* Start has given up, and it stays so.
StopQuiesces == quiet => Live = {}

\* After signalStop every Trigger is told ErrStopped, whatever the way the
\* Reloader came to stop (the doc of signalStop).
ErrStoppedAfterStop == stopped => TriggerAnswer = "ErrStopped"

\* Stop and a failing Start always return: no deadlock between stopOnce, the
\* ctx watcher and the wait group.
StopTerminates == \A c \in Clients : pc[c] \in {"signal", "wait"} ~> pc[c] = "idle"

\* A cancelled context stops every goroutine Start left behind, without
\* anybody calling Stop.
CancelStopsAll == ctxDone /\ pc["watcher"] # "none" ~> Live = {}

\* A trigger in the debounce window restarts it (debounceWait), and the code
\* sets no limit: an endless burst may put the reload off for ever.
BurstsEnd == <>[][~DebounceMore]_vars

\* Every accepted trigger is collected by a reload cycle or overtaken by the
\* stop of the Reloader, though triggers may go on for ever: all it takes is
\* that they do not restart the window for ever.
TriggerCollected ==
    BurstsEnd => \A s \in {"api"} \cup {SourceList[i] : i \in 1..Len(SourceList)} :
        s \in srcSet /\ started ~> s \notin srcSet \/ stopped

\* A change the file watcher saw is read by a later reload in the end, unless
\* the watcher dropped events or the Reloader stops.
FileChangeLoaded ==
    BurstsEnd => (events > 0 ~> cand = file \/ overflowed \/ stopped)
-----------------------------------------------------------------------------
(* The abstract service that the Reloader implements.                      *)

Phase ==
    CASE pc["worker"] = "load"     -> "taken"
      [] pc["worker"] = "dispatch" -> "read"
      [] OTHER                     -> "idle"

Service == INSTANCE ReloadService
    WITH pending <- srcSet, phase <- Phase, read <- cand, inForce <- applied,
         closed <- quiet

\* Seen from outside, the Reloader is the one-round-at-a-time service of
\* ReloadService: each cycle of worker and doReload is one round, and none
\* starts, reads or dispatches once a Stop has returned.
ImplementsService == Service!Spec

-----------------------------------------------------------------------------
(* Inductive invariants: why the safety properties above hold.             *)

SpawnPCs == {"spawnWorker", "spawnWatcher", "spawnTriggers"}

\* At most one Start ever gets past its critical section, and it spawns a
\* goroutine only if nobody has spawned it before.
StartInv ==
    /\ \A c \in Clients : pc[c] \in SpawnPCs => Starting(c)
    /\ \A c, d \in Clients : Starting(c) /\ Starting(d) => c = d
    /\ \A c \in Clients : op[c] \in {"Start", "Stop"} => started \/ stopped
    /\ ~started /\ ~stopped => \A g \in Goroutines : pc[g] = "none"
    /\ \A c \in Clients :
        /\ pc[c] = "spawnWorker" => pc["worker"] = "none"
        /\ pc[c] \in {"spawnWorker", "spawnWatcher"} =>
            /\ pc["watcher"] = "none"
            /\ pc["sighup"] = "none" /\ pc["file"] = "none"
            /\ todo = SourceList
        /\ pc[c] = "spawnTriggers" =>
            \A i \in 1..Len(todo) : pc[todo[i]] = "none"
    /\ \A i, j \in 1..Len(todo) : todo[i] = todo[j] => i = j

\* Whoever waits for the goroutines has seen stopOnce done, so stopped is set
\* for good; with no Start under way nothing can be spawned any more.
StopInv ==
    /\ \A c, d \in Clients : op[c] = "Stop" => ~Starting(d)
    /\ \A p \in Procs : pc[p] \in {"close", "wait"} => once # "new"
    /\ once # "new" => stopped
    /\ quiet => stopped /\ Live = {} /\ \A c \in Clients : ~Starting(c)

\* What a dispatch knows midway: every subscriber has taken the candidate, is
\* on the failed list or is still to be called.
DispatchInv ==
    /\ ~started /\ ~stopped =>
        lastApplied = 0 /\ \A s \in SubNames : applied[s] = 0
    /\ \A s \in SubNames : applied[s] <= cand
    /\ LaggingReported
    /\ LastAppliedIsCarried
    /\ pc["worker"] # "dispatch" => succeeded = {} /\ failed = {}
    /\ pc["worker"] = "dispatch" =>
        /\ cand \in good
        /\ \A s \in Registered :
            \/ s \in succeeded
            \/ s \in failed
            \/ \E i \in 1..Len(left) : left[i] = s
        /\ \A s \in succeeded : s \in Registered /\ applied[s] = cand
        /\ \A i \in 1..Len(left) : left[i] \in Registered
        /\ succeeded = {} =>
            lastApplied = 0 \/ \E s \in Registered : applied[s] = lastApplied

=============================================================================
