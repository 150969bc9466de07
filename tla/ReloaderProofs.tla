--------------------------- MODULE ReloaderProofs ---------------------------
(***************************************************************************)
(* Theorems about Reloader for every set of clients and subscribers, every *)
(* list of trigger sources without duplicates, every debounce window and   *)
(* every number of file rewrites.                                          *)
(***************************************************************************)
EXTENDS Reloader, TLAPS

-----------------------------------------------------------------------------
(* Type correctness.                                                       *)

\* The labels every goroutine may go to, and who the goroutines are.
LEMMA LabelsPC ==
  /\ \A c \in Clients : c \in Procs /\ PCsOf(c) = ClientPCs
  /\ \A g \in Goroutines : g \in Procs /\ g \notin Clients
  /\ Goroutines = {"worker", "watcher", "sighup", "file"}
  /\ PCsOf("worker") = WorkerPCs
  /\ PCsOf("watcher") = WatcherPCs
  /\ PCsOf("sighup") = TriggerPCs /\ PCsOf("file") = TriggerPCs
  /\ ClientPCs = {"idle", "spawnWorker", "spawnWatcher", "spawnTriggers",
                  "signal", "close", "wait", "add", "send"}
  /\ WorkerPCs = {"none", "select", "debounce", "snapshot", "load",
                  "dispatch", "exit"}
  /\ WatcherPCs = {"none", "select", "signal", "close", "exit"}
  /\ TriggerPCs = {"none", "select", "add", "send", "exit"}
BY ClientsAssumption
DEF Procs, Goroutines, PCsOf, ClientPCs, WorkerPCs, WatcherPCs, TriggerPCs

\* A goroutine that moves to a label of its own code leaves PCOK true.
LEMMA GotoPC ==
  ASSUME PCOK, NEW p \in Procs, NEW l \in PCsOf(p), Goto(p, l)
  PROVE  PCOK'
<1>1. l \in UNION {ClientPCs, WorkerPCs, WatcherPCs, TriggerPCs}
  BY DEF PCsOf
<1>2. pc' \in [Procs -> UNION {ClientPCs, WorkerPCs, WatcherPCs, TriggerPCs}]
  BY <1>1 DEF PCOK, Goto
<1>3. \A q \in Procs : pc'[q] \in PCsOf(q)
  BY DEF PCOK, Goto
<1>4. \A q \in Procs : PCsOf(q)' = PCsOf(q)
  BY DEF PCsOf
<1> QED BY <1>2, <1>3 DEF PCOK, PCsOf

\* Start moves on and the goroutine it spawns enters its loop.
LEMMA SpawnPC ==
  ASSUME PCOK, NEW c \in Clients, NEW l \in ClientPCs, NEW g \in Goroutines,
         pc' = [pc EXCEPT ![c] = l, ![g] = "select"]
  PROVE  PCOK'
<1>1. /\ l \in PCsOf(c) /\ "select" \in PCsOf(g)
      /\ c \in Procs /\ g \in Procs /\ c # g
  BY LabelsPC
<1>2. {l, "select"} \subseteq UNION {ClientPCs, WorkerPCs, WatcherPCs, TriggerPCs}
  BY DEF TriggerPCs
<1>3. pc' \in [Procs -> UNION {ClientPCs, WorkerPCs, WatcherPCs, TriggerPCs}]
  BY <1>2 DEF PCOK
<1>4. \A q \in Procs : pc'[q] \in PCsOf(q)
  BY <1>1 DEF PCOK
<1> QED BY <1>3, <1>4 DEF PCOK, PCsOf

\* Every action moves goroutines along the labels of their own code.
LEMMA PCStep == TypeOK /\ [Next]_vars => PCOK'
<1> SUFFICES ASSUME TypeOK, [Next]_vars PROVE PCOK'
  OBVIOUS
<1> QED
  <2> USE DEF TypeOK
  <2>1. CASE Write
    BY <2>1 DEF Write, PCOK, PCsOf
  <2>2. CASE Overflow
    BY <2>2 DEF Overflow, PCOK, PCsOf
  <2>3. CASE Sighup
    BY <2>3 DEF Sighup, PCOK, PCsOf
  <2>4. CASE CancelCtx
    BY <2>4 DEF CancelCtx, PCOK, PCsOf
  <2>5. ASSUME NEW c \in Clients, NEW s \in SubNames, Register(c, s)
        PROVE  PCOK'
    BY <2>5 DEF Register, PCOK, PCsOf
  <2>6. ASSUME NEW c \in Clients, CallStart(c) PROVE PCOK'
    BY <2>6, GotoPC, LabelsPC DEF CallStart, Enter
  <2>7. ASSUME NEW c \in Clients, SpawnWorker(c) PROVE PCOK'
    BY <2>7, SpawnPC DEF SpawnWorker, Goroutines, ClientPCs
  <2>8. ASSUME NEW c \in Clients, SpawnWatcher(c) PROVE PCOK'
    BY <2>8, SpawnPC DEF SpawnWatcher, Goroutines, ClientPCs
  <2>9. ASSUME NEW c \in Clients, StartTrigger(c) PROVE PCOK'
    <3>1. todo \in Seq({"sighup", "file"}) /\ todo # <<>>
      BY <2>9 DEF StartTrigger, DataOK
    <3>2. Head(todo) \in {"sighup", "file"}
      BY <3>1
    <3>3. pc[c] \in ClientPCs /\ Head(todo) # c
      BY <3>2, LabelsPC DEF PCOK
    <3>4. pc' = [pc EXCEPT ![c] = pc[c], ![Head(todo)] = "select"]
      BY <2>9, <3>3, LabelsPC DEF StartTrigger, PCOK
    <3> QED BY <3>2, <3>3, <3>4, SpawnPC, LabelsPC
  <2>10. ASSUME NEW c \in Clients, FileTriggerFails(c) PROVE PCOK'
    BY <2>10, GotoPC, LabelsPC DEF FileTriggerFails
  <2>11. ASSUME NEW c \in Clients, StartReturns(c) PROVE PCOK'
    BY <2>11, GotoPC, LabelsPC DEF StartReturns, Return
  <2>12. ASSUME NEW c \in Clients, CallStop(c) PROVE PCOK'
    BY <2>12, GotoPC, LabelsPC DEF CallStop, Enter
  <2>13. ASSUME NEW p \in Clients \cup {"watcher"}, SignalStopped(p)
        PROVE  PCOK'
    BY <2>13, GotoPC, LabelsPC DEF SignalStopped
  <2>14. ASSUME NEW p \in Clients \cup {"watcher"}, CloseStopCh(p) PROVE PCOK'
    BY <2>14, GotoPC, LabelsPC DEF CloseStopCh, AfterSignal
  <2>15. ASSUME NEW p \in Clients \cup {"watcher"}, SignalAgain(p) PROVE PCOK'
    BY <2>15, GotoPC, LabelsPC DEF SignalAgain, AfterSignal
  <2>16. ASSUME NEW c \in Clients, StopReturns(c) PROVE PCOK'
    BY <2>16, GotoPC, LabelsPC DEF StopReturns, Return
  <2>17. ASSUME NEW c \in Clients, StartFails(c) PROVE PCOK'
    BY <2>17, GotoPC, LabelsPC DEF StartFails, Return
  <2>18. CASE WatchCtx
    BY <2>18, GotoPC, LabelsPC DEF WatchCtx
  <2>19. ASSUME NEW g \in Goroutines, Exit(g) PROVE PCOK'
    BY <2>19, GotoPC, LabelsPC DEF Exit
  <2>20. ASSUME NEW c \in Clients, CallTrigger(c) PROVE PCOK'
    BY <2>20, GotoPC, LabelsPC DEF CallTrigger, Enter
  <2>21. CASE ReceiveSighup
    BY <2>21, GotoPC, LabelsPC DEF ReceiveSighup
  <2>22. CASE ReceiveFileEvent
    BY <2>22, GotoPC, LabelsPC DEF ReceiveFileEvent
  <2>23. ASSUME NEW p \in Clients \cup {"sighup", "file"}, AddSource(p)
        PROVE  PCOK'
    BY <2>23, GotoPC, LabelsPC DEF AddSource
  <2>24. ASSUME NEW p \in Clients \cup {"sighup", "file"}, SendWake(p)
        PROVE  PCOK'
    BY <2>24, GotoPC, LabelsPC DEF SendWake, Return
  <2>25. CASE ReceiveWake
    BY <2>25, GotoPC, LabelsPC DEF ReceiveWake
  <2>26. CASE Tick
    BY <2>26 DEF Tick, PCOK, PCsOf
  <2>27. CASE DebounceMore
    BY <2>27 DEF DebounceMore, PCOK, PCsOf
  <2>28. CASE DebounceFires
    BY <2>28, GotoPC, LabelsPC DEF DebounceFires
  <2>29. CASE SnapshotSources
    BY <2>29, GotoPC, LabelsPC DEF SnapshotSources
  <2>30. CASE LoadConfig
    BY <2>30, GotoPC, LabelsPC DEF LoadConfig, PCOK, PCsOf
  <2>31. CASE ApplyOK
    BY <2>31 DEF ApplyOK, PCOK, PCsOf
  <2>32. CASE ApplyFails
    BY <2>32 DEF ApplyFails, PCOK, PCsOf
  <2>33. CASE FinishReload
    BY <2>33, GotoPC, LabelsPC DEF FinishReload, Summarise
  <2>34. CASE UNCHANGED vars
    BY <2>34 DEF vars, PCOK, PCsOf
  <2> QED
    BY <2>1, <2>2, <2>3, <2>4, <2>5, <2>6, <2>7, <2>8, <2>9, <2>10, <2>11,
       <2>12, <2>13, <2>14, <2>15, <2>16, <2>17, <2>18, <2>19, <2>20, <2>21,
       <2>22, <2>23, <2>24, <2>25, <2>26, <2>27, <2>28, <2>29, <2>30, <2>31,
       <2>32, <2>33, <2>34
    DEF Next, Environment, Call, Proceed, Signal, Enqueue, Watcher,
        SighupTrigger, FileTrigger, Worker

\* Every action keeps the ranges of the data.
LEMMA DataStep == TypeOK /\ [Next]_vars => DataOK'
<1> SUFFICES ASSUME TypeOK, [Next]_vars PROVE DataOK'
  OBVIOUS
<1> QED
  <2> USE SourcesAssumption, DebounceAssumption
  <2> USE DEF TypeOK, DataOK, Sources, envVars, flagVars, queueVars, callVars,
      cycleVars, resultVars
  <2>1. CASE Write
    <3>1. file' = file + 1 /\ 0..file \subseteq 0..file'
      BY <2>1 DEF Write
    <3>2. file + 1 \in 0..file' /\ good \subseteq 0..file'
      BY <3>1
    <3>3. good' \subseteq 0..file'
      BY <2>1, <3>2 DEF Write
    <3>4. events' \in Nat
      BY <2>1 DEF Write
    <3> QED BY <2>1, <3>1, <3>3, <3>4 DEF Write
  <2>2. CASE Overflow
    BY <2>2 DEF Overflow
  <2>3. CASE Sighup
    BY <2>3 DEF Sighup
  <2>4. CASE CancelCtx
    BY <2>4 DEF CancelCtx
  <2>5. ASSUME NEW c \in Clients, NEW s \in SubNames, Register(c, s)
        PROVE  DataOK'
    BY <2>5 DEF Register
  <2>6. ASSUME NEW c \in Clients, CallStart(c) PROVE DataOK'
    BY <2>6 DEF CallStart, Enter
  <2>7. ASSUME NEW c \in Clients, SpawnWorker(c) PROVE DataOK'
    BY <2>7 DEF SpawnWorker
  <2>8. ASSUME NEW c \in Clients, SpawnWatcher(c) PROVE DataOK'
    BY <2>8 DEF SpawnWatcher
  <2>9. ASSUME NEW c \in Clients, StartTrigger(c) PROVE DataOK'
    BY <2>9 DEF StartTrigger
  <2>10. ASSUME NEW c \in Clients, FileTriggerFails(c) PROVE DataOK'
    BY <2>10 DEF FileTriggerFails
  <2>11. ASSUME NEW c \in Clients, StartReturns(c) PROVE DataOK'
    BY <2>11 DEF StartReturns, Return
  <2>12. ASSUME NEW c \in Clients, CallStop(c) PROVE DataOK'
    BY <2>12 DEF CallStop, Enter
  <2>13. ASSUME NEW p \in Clients \cup {"watcher"}, SignalStopped(p)
        PROVE  DataOK'
    BY <2>13 DEF SignalStopped
  <2>14. ASSUME NEW p \in Clients \cup {"watcher"}, CloseStopCh(p)
        PROVE  DataOK'
    BY <2>14 DEF CloseStopCh
  <2>15. ASSUME NEW p \in Clients \cup {"watcher"}, SignalAgain(p)
        PROVE  DataOK'
    BY <2>15 DEF SignalAgain
  <2>16. ASSUME NEW c \in Clients, StopReturns(c) PROVE DataOK'
    BY <2>16 DEF StopReturns, Return
  <2>17. ASSUME NEW c \in Clients, StartFails(c) PROVE DataOK'
    BY <2>17 DEF StartFails, Return
  <2>18. CASE WatchCtx
    BY <2>18 DEF WatchCtx
  <2>19. ASSUME NEW g \in Goroutines, Exit(g) PROVE DataOK'
    BY <2>19 DEF Exit
  <2>20. ASSUME NEW c \in Clients, CallTrigger(c) PROVE DataOK'
    BY <2>20 DEF CallTrigger, Enter
  <2>21. CASE ReceiveSighup
    BY <2>21 DEF ReceiveSighup
  <2>22. CASE ReceiveFileEvent
    BY <2>22 DEF ReceiveFileEvent
  <2>23. ASSUME NEW p \in Clients \cup {"sighup", "file"}, AddSource(p)
        PROVE  DataOK'
    BY <2>23 DEF AddSource, SourceOf
  <2>24. ASSUME NEW p \in Clients \cup {"sighup", "file"}, SendWake(p)
        PROVE  DataOK'
    BY <2>24 DEF SendWake, Return
  <2>25. CASE ReceiveWake
    <3>1. timer' \in 0..Debounce
      BY <2>25 DEF ReceiveWake
    <3> QED BY <2>25, <3>1 DEF ReceiveWake
  <2>26. CASE Tick
    BY <2>26 DEF Tick
  <2>27. CASE DebounceMore
    <3>1. timer' \in 0..Debounce
      BY <2>27 DEF DebounceMore
    <3> QED BY <2>27, <3>1 DEF DebounceMore
  <2>28. CASE DebounceFires
    BY <2>28 DEF DebounceFires
  <2>29. CASE SnapshotSources
    BY <2>29 DEF SnapshotSources
  <2>30. CASE LoadConfig
    BY <2>30 DEF LoadConfig
  <2>31. CASE ApplyOK
    BY <2>31 DEF ApplyOK
  <2>32. CASE ApplyFails
    BY <2>32 DEF ApplyFails
  <2>33. CASE FinishReload
    BY <2>33 DEF FinishReload, Summarise
  <2>34. CASE UNCHANGED vars
    BY <2>34 DEF vars
  <2> QED
    BY <2>1, <2>2, <2>3, <2>4, <2>5, <2>6, <2>7, <2>8, <2>9, <2>10, <2>11,
       <2>12, <2>13, <2>14, <2>15, <2>16, <2>17, <2>18, <2>19, <2>20, <2>21,
       <2>22, <2>23, <2>24, <2>25, <2>26, <2>27, <2>28, <2>29, <2>30, <2>31,
       <2>32, <2>33, <2>34
    DEF Next, Environment, Call, Proceed, Signal, Enqueue, Watcher,
        SighupTrigger, FileTrigger, Worker

\* The variables keep their ranges through every action of the Reloader.
THEOREM TypeCorrect == Spec => []TypeOK
<1>1. Init => TypeOK
  <2> SUFFICES ASSUME Init PROVE TypeOK
    OBVIOUS
  <2>1. PCOK
    BY LabelsPC DEF Init, PCOK, Procs
  <2>2. DataOK
    <3>1. /\ file \in Nat /\ good \subseteq 0..file /\ lastApplied \in 0..file
          /\ cand \in 0..file /\ need \in 0..file /\ events \in Nat
          /\ timer \in 0..Debounce /\ applied \in [SubNames -> 0..file]
      BY DebounceAssumption DEF Init
    <3>2. /\ subs \in Seq(SubNames) /\ left \in Seq(SubNames)
          /\ todo \in Seq({"sighup", "file"})
          /\ op \in [Clients -> {"none", "Start", "Stop", "Trigger"}]
          /\ summary \in [level : {"none", "info", "warn"},
                          failed : SUBSET SubNames]
      BY DEF Init
    <3> QED BY <3>1, <3>2 DEF Init, DataOK
  <2> QED BY <2>1, <2>2 DEF TypeOK
<1>2. TypeOK /\ [Next]_vars => TypeOK'
  BY PCStep, DataStep DEF TypeOK
<1> QED BY <1>1, <1>2, PTL DEF Spec

-----------------------------------------------------------------------------
(* The Start call: at most one passes, and it spawns each goroutine once.  *)

\* One Start at a time passes its guard, and what it is about to spawn is new.
LEMMA StartInvStep == TypeOK /\ StartInv /\ [Next]_vars => StartInv'
<1> SUFFICES ASSUME TypeOK, StartInv, [Next]_vars PROVE StartInv'
  OBVIOUS
<1> QED
  <2> USE LabelsPC
  <2> USE DEF TypeOK, PCOK, StartInv, Starting, SpawnPCs, flagVars, callVars
  <2>1. CASE Write
    BY <2>1 DEF Write
  <2>2. CASE Overflow
    BY <2>2 DEF Overflow
  <2>3. CASE Sighup
    BY <2>3 DEF Sighup
  <2>4. CASE CancelCtx
    BY <2>4 DEF CancelCtx
  <2>5. ASSUME NEW c \in Clients, NEW s \in SubNames, Register(c, s)
        PROVE  StartInv'
    BY <2>5 DEF Register
  <2>6. ASSUME NEW c \in Clients, CallStart(c) PROVE StartInv'
    <3>1. /\ \A g \in Goroutines : pc[g] = "none"
          /\ \A d \in Clients : op[d] \notin {"Start", "Stop"}
          /\ \A d \in Clients : pc[d] \notin SpawnPCs
      BY <2>6 DEF CallStart
    <3>2. /\ pc' = [pc EXCEPT ![c] = "spawnWorker"]
          /\ op' = [op EXCEPT ![c] = "Start"]
          /\ todo' = SourceList /\ started'
      BY <2>6 DEF CallStart, Enter, Goto
    <3>3. \A d \in Clients : pc'[d] \in SpawnPCs \/ op'[d] \in {"Start", "Stop"} => d = c
      BY <3>1, <3>2 DEF DataOK
    <3>4. \A g \in Goroutines : pc'[g] = "none"
      BY <3>1, <3>2
    <3>5. op'[c] = "Start" /\ pc'[c] = "spawnWorker"
      BY <3>2 DEF DataOK
    <3> QED BY <3>2, <3>3, <3>4, <3>5, SourcesAssumption
  <2>7. ASSUME NEW c \in Clients, SpawnWorker(c) PROVE StartInv'
    BY <2>7 DEF SpawnWorker, Goto
  <2>8. ASSUME NEW c \in Clients, SpawnWatcher(c) PROVE StartInv'
    <3>1. /\ todo = SourceList /\ todo' = todo /\ op' = op
          /\ pc["sighup"] = "none" /\ pc["file"] = "none"
          /\ started' = started /\ stopped' = stopped
      BY <2>8 DEF SpawnWatcher
    <3>2. \A i \in 1..Len(todo) : todo[i] \in {"sighup", "file"}
      BY <3>1, SourcesAssumption
    <3>3. \A d \in Clients : pc[d] \in SpawnPCs => d = c
      BY <2>8 DEF SpawnWatcher
    <3>4. pc' = [pc EXCEPT ![c] = "spawnTriggers", !["watcher"] = "select"]
      BY <2>8 DEF SpawnWatcher
    <3>5. /\ \A d \in Clients : pc'[d] \in SpawnPCs => d = c
          /\ pc'[c] = "spawnTriggers" /\ op[c] = "Start"
          /\ pc'["sighup"] = "none" /\ pc'["file"] = "none"
      BY <2>8, <3>1, <3>3, <3>4 DEF SpawnWatcher
    <3> QED BY <3>1, <3>2, <3>5
  <2>9. ASSUME NEW c \in Clients, StartTrigger(c) PROVE StartInv'
    BY <2>9 DEF StartTrigger, Goto
  <2>10. ASSUME NEW c \in Clients, FileTriggerFails(c) PROVE StartInv'
    BY <2>10 DEF FileTriggerFails, Goto
  <2>11. ASSUME NEW c \in Clients, StartReturns(c) PROVE StartInv'
    BY <2>11 DEF StartReturns, Return, Goto
  <2>12. ASSUME NEW c \in Clients, CallStop(c) PROVE StartInv'
    BY <2>12 DEF CallStop, Enter, Goto
  <2>13. ASSUME NEW p \in Clients \cup {"watcher"}, SignalStopped(p)
        PROVE  StartInv'
    BY <2>13 DEF SignalStopped, Goto
  <2>14. ASSUME NEW p \in Clients \cup {"watcher"}, CloseStopCh(p)
        PROVE  StartInv'
    BY <2>14 DEF CloseStopCh, AfterSignal, Goto
  <2>15. ASSUME NEW p \in Clients \cup {"watcher"}, SignalAgain(p)
        PROVE  StartInv'
    BY <2>15 DEF SignalAgain, AfterSignal, Goto
  <2>16. ASSUME NEW c \in Clients, StopReturns(c) PROVE StartInv'
    BY <2>16 DEF StopReturns, Return, Goto
  <2>17. ASSUME NEW c \in Clients, StartFails(c) PROVE StartInv'
    BY <2>17 DEF StartFails, Return, Goto
  <2>18. CASE WatchCtx
    BY <2>18 DEF WatchCtx, Goto
  <2>19. ASSUME NEW g \in Goroutines, Exit(g) PROVE StartInv'
    BY <2>19 DEF Exit, Goto
  <2>20. ASSUME NEW c \in Clients, CallTrigger(c) PROVE StartInv'
    BY <2>20 DEF CallTrigger, Enter, Goto
  <2>21. CASE ReceiveSighup
    BY <2>21 DEF ReceiveSighup, Goto
  <2>22. CASE ReceiveFileEvent
    BY <2>22 DEF ReceiveFileEvent, Goto
  <2>23. ASSUME NEW p \in Clients \cup {"sighup", "file"}, AddSource(p)
        PROVE  StartInv'
    BY <2>23 DEF AddSource, Goto
  <2>24. ASSUME NEW p \in Clients \cup {"sighup", "file"}, SendWake(p)
        PROVE  StartInv'
    <3>1. PICK l \in {"idle", "select"} : pc' = [pc EXCEPT ![p] = l]
      BY <2>24 DEF SendWake, Return, Goto
    <3>2. \A d \in Clients : op'[d] = IF d = p THEN "none" ELSE op[d]
      BY <2>24 DEF SendWake, Return, Goto, DataOK
    <3>3. pc[p] = "send" /\ UNCHANGED <<flagVars, todo>>
      BY <2>24 DEF SendWake
    <3>4. \A q \in Procs : pc'[q] = IF q = p THEN l ELSE pc[q]
      BY <3>1
    <3>5. \A g \in Goroutines : pc[g] = "none" => pc'[g] = "none"
      BY <3>3, <3>4
    <3>6. \A d \in Clients : pc'[d] \in SpawnPCs => pc'[d] = pc[d] /\ d # p
      BY <3>4
    <3>7. \A i \in 1..Len(todo) : todo[i] \in Goroutines
      BY DEF DataOK
    <3>8. \A d \in Clients : op'[d] = "Start" => op[d] = "Start"
      BY <3>2
    <3>9. \A d \in Clients : op'[d] = "Stop" => op[d] = "Stop"
      BY <3>2
    <3>10. \A d \in Clients : pc'[d] \in SpawnPCs => op'[d] = "Start"
      BY <3>2, <3>6
    <3>11. UNCHANGED todo /\ UNCHANGED started /\ UNCHANGED stopped
      BY <3>3
    <3> HIDE DEF SpawnPCs
    <3>12. \A d \in Clients :
             pc'[d] \in {"spawnWorker", "spawnWatcher", "spawnTriggers"}
               => pc'[d] = pc[d]
      BY <3>6 DEF SpawnPCs
    <3> QED BY <3>5, <3>7, <3>8, <3>9, <3>10, <3>11, <3>12
  <2>25. CASE ReceiveWake
    BY <2>25 DEF ReceiveWake, Goto
  <2>26. CASE Tick
    BY <2>26 DEF Tick
  <2>27. CASE DebounceMore
    BY <2>27 DEF DebounceMore
  <2>28. CASE DebounceFires
    BY <2>28 DEF DebounceFires, Goto
  <2>29. CASE SnapshotSources
    BY <2>29 DEF SnapshotSources, Goto
  <2>30. CASE LoadConfig
    <3>1. PICK l \in {"dispatch", "select"} : Goto("worker", l)
      BY <2>30 DEF LoadConfig
    <3>2. pc["worker"] = "load" /\ UNCHANGED <<flagVars, callVars>>
      BY <2>30 DEF LoadConfig
    <3> QED BY <3>1, <3>2 DEF Goto
  <2>31. CASE ApplyOK
    BY <2>31 DEF ApplyOK
  <2>32. CASE ApplyFails
    BY <2>32 DEF ApplyFails
  <2>33. CASE FinishReload
    BY <2>33 DEF FinishReload, Summarise, Goto
  <2>34. CASE UNCHANGED vars
    BY <2>34 DEF vars
  <2> QED
    BY <2>1, <2>2, <2>3, <2>4, <2>5, <2>6, <2>7, <2>8, <2>9, <2>10, <2>11,
       <2>12, <2>13, <2>14, <2>15, <2>16, <2>17, <2>18, <2>19, <2>20, <2>21,
       <2>22, <2>23, <2>24, <2>25, <2>26, <2>27, <2>28, <2>29, <2>30, <2>31,
       <2>32, <2>33, <2>34
    DEF Next, Environment, Call, Proceed, Signal, Enqueue, Watcher,
        SighupTrigger, FileTrigger, Worker

\* One Start at a time, each goroutine spawned once: StartInv is invariant.
LEMMA StartInvariant == Spec => []StartInv
<1>1. Init => StartInv
  BY LabelsPC DEF Init, StartInv, Starting, SpawnPCs, Procs
<1> QED BY <1>1, StartInvStep, TypeCorrect, PTL DEF Spec

\* A goroutine is spawned by the one Start under way, and only if it was not
\* there before.
LEMMA SpawnsNew ==
  ASSUME TypeOK, StartInv, NEW c \in Clients
  PROVE  /\ pc[c] \in SpawnPCs => Starting(c)
         /\ SpawnWorker(c) => pc["worker"] = "none"
         /\ SpawnWatcher(c) => pc["watcher"] = "none"
         /\ StartTrigger(c) =>
              Head(todo) \in {"sighup", "file"} /\ pc[Head(todo)] = "none"
<1>1. ASSUME StartTrigger(c)
      PROVE  Head(todo) \in {"sighup", "file"} /\ pc[Head(todo)] = "none"
  <2>1. todo \in Seq({"sighup", "file"}) /\ todo # <<>>
    BY <1>1 DEF StartTrigger, TypeOK, DataOK
  <2>2. Head(todo) = todo[1] /\ 1 \in 1..Len(todo)
    BY <2>1
  <2> QED BY <1>1, <2>1, <2>2 DEF StartTrigger, StartInv
<1> QED BY <1>1 DEF StartInv, SpawnWorker, SpawnWatcher

-----------------------------------------------------------------------------
(* Stop: what it means that wg.Wait has returned.                          *)

\* With stopOnce done and no Start under way, nothing is spawned any more.
LEMMA StopInvStep ==
  ASSUME StopAfterStart, TypeOK, StartInv, StopInv, [Next]_vars
  PROVE  StopInv'
<1> QED
  <2> USE LabelsPC
  <2> USE DEF TypeOK, PCOK, StopInv, Starting, Live, flagVars, callVars
  <2>1. CASE Write
    BY <2>1 DEF Write
  <2>2. CASE Overflow
    BY <2>2 DEF Overflow
  <2>3. CASE Sighup
    BY <2>3 DEF Sighup
  <2>4. CASE CancelCtx
    BY <2>4 DEF CancelCtx
  <2>5. ASSUME NEW c \in Clients, NEW s \in SubNames, Register(c, s)
        PROVE  StopInv'
    BY <2>5 DEF Register
  <2>6. ASSUME NEW c \in Clients, CallStart(c) PROVE StopInv'
    <3>1. ~quiet /\ \A d \in Clients : op[d] # "Stop"
      BY <2>6 DEF CallStart, StartInv
    <3> QED BY <2>6, <3>1 DEF CallStart, Enter, Goto, DataOK
  <2>7. ASSUME NEW c \in Clients, SpawnWorker(c) PROVE StopInv'
    <3>1. Starting(c)
      BY <2>7, SpawnsNew DEF SpawnWorker, SpawnPCs
    <3>2. ~quiet
      BY <3>1
    <3> QED BY <2>7, <3>2 DEF SpawnWorker
  <2>8. ASSUME NEW c \in Clients, SpawnWatcher(c) PROVE StopInv'
    <3>1. Starting(c)
      BY <2>8, SpawnsNew DEF SpawnWatcher, SpawnPCs
    <3>2. ~quiet
      BY <3>1
    <3> QED BY <2>8, <3>2 DEF SpawnWatcher
  <2>9. ASSUME NEW c \in Clients, StartTrigger(c) PROVE StopInv'
    <3>1. Starting(c)
      BY <2>9, SpawnsNew DEF StartTrigger, SpawnPCs
    <3>2. ~quiet
      BY <3>1
    <3> QED BY <2>9, <3>2, SpawnsNew DEF StartTrigger
  <2>10. ASSUME NEW c \in Clients, FileTriggerFails(c) PROVE StopInv'
    BY <2>10 DEF FileTriggerFails, Goto
  <2>11. ASSUME NEW c \in Clients, StartReturns(c) PROVE StopInv'
    BY <2>11 DEF StartReturns, Return, Goto
  <2>12. ASSUME NEW c \in Clients, CallStop(c) PROVE StopInv'
    BY <2>12 DEF CallStop, Enter, Goto
  <2>13. ASSUME NEW p \in Clients \cup {"watcher"}, SignalStopped(p)
        PROVE  StopInv'
    BY <2>13 DEF SignalStopped, Goto
  <2>14. ASSUME NEW p \in Clients \cup {"watcher"}, CloseStopCh(p)
        PROVE  StopInv'
    BY <2>14 DEF CloseStopCh, AfterSignal, Goto
  <2>15. ASSUME NEW p \in Clients \cup {"watcher"}, SignalAgain(p)
        PROVE  StopInv'
    BY <2>15 DEF SignalAgain, AfterSignal, Goto
  <2>16. ASSUME NEW c \in Clients, StopReturns(c) PROVE StopInv'
    BY <2>16 DEF StopReturns, Return, Goto
  <2>17. ASSUME NEW c \in Clients, StartFails(c) PROVE StopInv'
    <3>1. \A d \in Clients : op'[d] # "Start"
      BY <2>17 DEF StartFails, Return, StartInv, DataOK
    <3>2. \A d \in Clients : op'[d] = "Stop" => op[d] = "Stop"
      BY <2>17 DEF StartFails, Return, DataOK
    <3>3. \A q \in Procs : pc'[q] = IF q = c THEN "idle" ELSE pc[q]
      BY <2>17 DEF StartFails, Return, Goto
    <3>4. stopped' /\ once' = once /\ Live = {} /\ pc[c] = "wait"
      BY <2>17 DEF StartFails
    <3>5. Live' = {}
      BY <3>3, <3>4
    <3> QED BY <3>1, <3>3, <3>4, <3>5
  <2>18. CASE WatchCtx
    BY <2>18 DEF WatchCtx, Goto
  <2>19. ASSUME NEW g \in Goroutines, Exit(g) PROVE StopInv'
    BY <2>19 DEF Exit, Goto
  <2>20. ASSUME NEW c \in Clients, CallTrigger(c) PROVE StopInv'
    BY <2>20 DEF CallTrigger, Enter, Goto
  <2>21. CASE ReceiveSighup
    BY <2>21 DEF ReceiveSighup, Goto
  <2>22. CASE ReceiveFileEvent
    BY <2>22 DEF ReceiveFileEvent, Goto
  <2>23. ASSUME NEW p \in Clients \cup {"sighup", "file"}, AddSource(p)
        PROVE  StopInv'
    BY <2>23 DEF AddSource, Goto
  <2>24. ASSUME NEW p \in Clients \cup {"sighup", "file"}, SendWake(p)
        PROVE  StopInv'
    <3>1. PICK l \in {"idle", "select"} : pc' = [pc EXCEPT ![p] = l]
      BY <2>24 DEF SendWake, Return, Goto
    <3>2. \A d \in Clients : op'[d] = IF d = p THEN "none" ELSE op[d]
      BY <2>24 DEF SendWake, Return, Goto, DataOK
    <3>3. pc[p] = "send" /\ UNCHANGED <<flagVars, quiet>>
      BY <2>24 DEF SendWake
    <3>4. \A q \in Procs : pc'[q] = IF q = p THEN l ELSE pc[q]
      BY <3>1
    <3>5. Live = {} => Live' = {}
      BY <3>3, <3>4
    <3> QED BY <3>2, <3>3, <3>4, <3>5
  <2>25. CASE ReceiveWake
    BY <2>25 DEF ReceiveWake, Goto
  <2>26. CASE Tick
    BY <2>26 DEF Tick
  <2>27. CASE DebounceMore
    BY <2>27 DEF DebounceMore
  <2>28. CASE DebounceFires
    BY <2>28 DEF DebounceFires, Goto
  <2>29. CASE SnapshotSources
    BY <2>29 DEF SnapshotSources, Goto
  <2>30. CASE LoadConfig
    BY <2>30 DEF LoadConfig, Goto
  <2>31. CASE ApplyOK
    BY <2>31 DEF ApplyOK
  <2>32. CASE ApplyFails
    BY <2>32 DEF ApplyFails
  <2>33. CASE FinishReload
    BY <2>33 DEF FinishReload, Summarise, Goto
  <2>34. CASE UNCHANGED vars
    BY <2>34 DEF vars
  <2> QED
    BY <2>1, <2>2, <2>3, <2>4, <2>5, <2>6, <2>7, <2>8, <2>9, <2>10, <2>11,
       <2>12, <2>13, <2>14, <2>15, <2>16, <2>17, <2>18, <2>19, <2>20, <2>21,
       <2>22, <2>23, <2>24, <2>25, <2>26, <2>27, <2>28, <2>29, <2>30, <2>31,
       <2>32, <2>33, <2>34
    DEF Next, Environment, Call, Proceed, Signal, Enqueue, Watcher,
        SighupTrigger, FileTrigger, Worker

\* The wait group argument is an invariant if Stop never overlaps Start.
LEMMA StopInvariant == ASSUME StopAfterStart PROVE Spec => []StopInv
<1>1. Init => StopInv
  BY LabelsPC DEF Init, StopInv, Starting, Procs
<1>2. TypeOK /\ StartInv /\ StopInv /\ [Next]_vars => StopInv'
  BY StopInvStep
<1> QED BY <1>1, <1>2, TypeCorrect, StartInvariant, PTL DEF Spec

\* If no caller runs Stop while Start is under way, then once any Stop (or a
\* Start that failed) has returned no goroutine of the Reloader is left, and
\* none comes back.
THEOREM StopWaitsForAll ==
  ASSUME StopAfterStart PROVE Spec => []StopQuiesces
<1>1. StopInv => StopQuiesces
  BY DEF StopInv, StopQuiesces
<1> QED BY <1>1, StopInvariant, PTL

-----------------------------------------------------------------------------
(* Triggers: no lost wake-up, no stale configuration.                      *)

\* A source is added by someone about to send; a token leaves triggerCh only
\* for a worker on its way to snapshotSources.
LEMMA NoLostTriggerStep ==
  ASSUME TypeOK, StartInv, NoLostTrigger, [Next]_vars
  PROVE  NoLostTrigger'
<1> QED
  <2> USE LabelsPC
  <2> USE DEF TypeOK, PCOK, NoLostTrigger, flagVars, queueVars
  <2>1. CASE Write
    BY <2>1 DEF Write
  <2>2. CASE Overflow
    BY <2>2 DEF Overflow
  <2>3. CASE Sighup
    BY <2>3 DEF Sighup
  <2>4. CASE CancelCtx
    BY <2>4 DEF CancelCtx
  <2>5. ASSUME NEW c \in Clients, NEW s \in SubNames, Register(c, s)
        PROVE  NoLostTrigger'
    BY <2>5 DEF Register
  <2>6. ASSUME NEW c \in Clients, CallStart(c) PROVE NoLostTrigger'
    BY <2>6 DEF CallStart, Enter, Goto
  <2>7. ASSUME NEW c \in Clients, SpawnWorker(c) PROVE NoLostTrigger'
    BY <2>7, SpawnsNew DEF SpawnWorker
  <2>8. ASSUME NEW c \in Clients, SpawnWatcher(c) PROVE NoLostTrigger'
    BY <2>8 DEF SpawnWatcher, Goto
  <2>9. ASSUME NEW c \in Clients, StartTrigger(c) PROVE NoLostTrigger'
    BY <2>9, SpawnsNew DEF StartTrigger
  <2>10. ASSUME NEW c \in Clients, FileTriggerFails(c) PROVE NoLostTrigger'
    BY <2>10 DEF FileTriggerFails, Goto
  <2>11. ASSUME NEW c \in Clients, StartReturns(c) PROVE NoLostTrigger'
    BY <2>11 DEF StartReturns, Return, Goto
  <2>12. ASSUME NEW c \in Clients, CallStop(c) PROVE NoLostTrigger'
    BY <2>12 DEF CallStop, Enter, Goto
  <2>13. ASSUME NEW p \in Clients \cup {"watcher"}, SignalStopped(p)
        PROVE  NoLostTrigger'
    BY <2>13 DEF SignalStopped, Goto
  <2>14. ASSUME NEW p \in Clients \cup {"watcher"}, CloseStopCh(p)
        PROVE  NoLostTrigger'
    BY <2>14 DEF CloseStopCh, AfterSignal, Goto
  <2>15. ASSUME NEW p \in Clients \cup {"watcher"}, SignalAgain(p)
        PROVE  NoLostTrigger'
    BY <2>15 DEF SignalAgain, AfterSignal, Goto
  <2>16. ASSUME NEW c \in Clients, StopReturns(c) PROVE NoLostTrigger'
    BY <2>16 DEF StopReturns, Return, Goto
  <2>17. ASSUME NEW c \in Clients, StartFails(c) PROVE NoLostTrigger'
    BY <2>17 DEF StartFails, Return, Goto
  <2>18. CASE WatchCtx
    BY <2>18 DEF WatchCtx, Goto
  <2>19. ASSUME NEW g \in Goroutines, Exit(g) PROVE NoLostTrigger'
    BY <2>19 DEF Exit, Goto
  <2>20. ASSUME NEW c \in Clients, CallTrigger(c) PROVE NoLostTrigger'
    BY <2>20 DEF CallTrigger, Enter, Goto
  <2>21. CASE ReceiveSighup
    BY <2>21 DEF ReceiveSighup, Goto
  <2>22. CASE ReceiveFileEvent
    BY <2>22 DEF ReceiveFileEvent, Goto
  <2>23. ASSUME NEW p \in Clients \cup {"sighup", "file"}, AddSource(p)
        PROVE  NoLostTrigger'
    BY <2>23 DEF AddSource, Goto
  <2>24. ASSUME NEW p \in Clients \cup {"sighup", "file"}, SendWake(p)
        PROVE  NoLostTrigger'
    BY <2>24 DEF SendWake, Return, Goto
  <2>25. CASE ReceiveWake
    BY <2>25 DEF ReceiveWake, Goto
  <2>26. CASE Tick
    BY <2>26 DEF Tick
  <2>27. CASE DebounceMore
    BY <2>27 DEF DebounceMore
  <2>28. CASE DebounceFires
    BY <2>28 DEF DebounceFires, Goto
  <2>29. CASE SnapshotSources
    BY <2>29 DEF SnapshotSources, Goto
  <2>30. CASE LoadConfig
    BY <2>30 DEF LoadConfig, Goto
  <2>31. CASE ApplyOK
    BY <2>31 DEF ApplyOK
  <2>32. CASE ApplyFails
    BY <2>32 DEF ApplyFails
  <2>33. CASE FinishReload
    BY <2>33 DEF FinishReload, Summarise, Goto
  <2>34. CASE UNCHANGED vars
    BY <2>34 DEF vars
  <2> QED
    BY <2>1, <2>2, <2>3, <2>4, <2>5, <2>6, <2>7, <2>8, <2>9, <2>10, <2>11,
       <2>12, <2>13, <2>14, <2>15, <2>16, <2>17, <2>18, <2>19, <2>20, <2>21,
       <2>22, <2>23, <2>24, <2>25, <2>26, <2>27, <2>28, <2>29, <2>30, <2>31,
       <2>32, <2>33, <2>34
    DEF Next, Environment, Call, Proceed, Signal, Enqueue, Watcher,
        SighupTrigger, FileTrigger, Worker

\* A source in srcSet always has a wake-up in the channel, on its way to the
\* channel, or already with the worker, until stopCh is closed.
THEOREM NoTriggerLost == Spec => []NoLostTrigger
<1>1. Init => NoLostTrigger
  BY DEF Init, NoLostTrigger
<1> QED BY <1>1, NoLostTriggerStep, TypeCorrect, StartInvariant, PTL DEF Spec

\* The set is emptied before Load, and Load reads the newest version.
LEMMA TriggerSeesItsFileStep ==
  ASSUME TypeOK, StartInv, TriggerSeesItsFile, [Next]_vars
  PROVE  TriggerSeesItsFile'
<1> QED
  <2> USE LabelsPC
  <2> USE DEF TypeOK, PCOK, DataOK, TriggerSeesItsFile, queueVars, cycleVars
  <2>1. CASE Write
    BY <2>1 DEF Write
  <2>2. CASE Overflow
    BY <2>2 DEF Overflow
  <2>3. CASE Sighup
    BY <2>3 DEF Sighup
  <2>4. CASE CancelCtx
    BY <2>4 DEF CancelCtx
  <2>5. ASSUME NEW c \in Clients, NEW s \in SubNames, Register(c, s)
        PROVE  TriggerSeesItsFile'
    BY <2>5 DEF Register
  <2>6. ASSUME NEW c \in Clients, CallStart(c) PROVE TriggerSeesItsFile'
    BY <2>6 DEF CallStart, Enter, Goto
  <2>7. ASSUME NEW c \in Clients, SpawnWorker(c) PROVE TriggerSeesItsFile'
    BY <2>7, SpawnsNew DEF SpawnWorker
  <2>8. ASSUME NEW c \in Clients, SpawnWatcher(c) PROVE TriggerSeesItsFile'
    BY <2>8 DEF SpawnWatcher, Goto
  <2>9. ASSUME NEW c \in Clients, StartTrigger(c) PROVE TriggerSeesItsFile'
    BY <2>9, SpawnsNew DEF StartTrigger
  <2>10. ASSUME NEW c \in Clients, FileTriggerFails(c)
        PROVE  TriggerSeesItsFile'
    BY <2>10 DEF FileTriggerFails, Goto
  <2>11. ASSUME NEW c \in Clients, StartReturns(c) PROVE TriggerSeesItsFile'
    BY <2>11 DEF StartReturns, Return, Goto
  <2>12. ASSUME NEW c \in Clients, CallStop(c) PROVE TriggerSeesItsFile'
    BY <2>12 DEF CallStop, Enter, Goto
  <2>13. ASSUME NEW p \in Clients \cup {"watcher"}, SignalStopped(p)
        PROVE  TriggerSeesItsFile'
    BY <2>13 DEF SignalStopped, Goto
  <2>14. ASSUME NEW p \in Clients \cup {"watcher"}, CloseStopCh(p)
        PROVE  TriggerSeesItsFile'
    BY <2>14 DEF CloseStopCh, AfterSignal, Goto
  <2>15. ASSUME NEW p \in Clients \cup {"watcher"}, SignalAgain(p)
        PROVE  TriggerSeesItsFile'
    BY <2>15 DEF SignalAgain, AfterSignal, Goto
  <2>16. ASSUME NEW c \in Clients, StopReturns(c) PROVE TriggerSeesItsFile'
    BY <2>16 DEF StopReturns, Return, Goto
  <2>17. ASSUME NEW c \in Clients, StartFails(c) PROVE TriggerSeesItsFile'
    BY <2>17 DEF StartFails, Return, Goto
  <2>18. CASE WatchCtx
    BY <2>18 DEF WatchCtx, Goto
  <2>19. ASSUME NEW g \in Goroutines, Exit(g) PROVE TriggerSeesItsFile'
    BY <2>19 DEF Exit, Goto
  <2>20. ASSUME NEW c \in Clients, CallTrigger(c) PROVE TriggerSeesItsFile'
    BY <2>20 DEF CallTrigger, Enter, Goto
  <2>21. CASE ReceiveSighup
    BY <2>21 DEF ReceiveSighup, Goto
  <2>22. CASE ReceiveFileEvent
    BY <2>22 DEF ReceiveFileEvent, Goto
  <2>23. ASSUME NEW p \in Clients \cup {"sighup", "file"}, AddSource(p)
        PROVE  TriggerSeesItsFile'
    BY <2>23 DEF AddSource, Goto
  <2>24. ASSUME NEW p \in Clients \cup {"sighup", "file"}, SendWake(p)
        PROVE  TriggerSeesItsFile'
    BY <2>24 DEF SendWake, Return, Goto
  <2>25. CASE ReceiveWake
    BY <2>25 DEF ReceiveWake, Goto
  <2>26. CASE Tick
    BY <2>26 DEF Tick
  <2>27. CASE DebounceMore
    BY <2>27 DEF DebounceMore
  <2>28. CASE DebounceFires
    BY <2>28 DEF DebounceFires, Goto
  <2>29. CASE SnapshotSources
    BY <2>29 DEF SnapshotSources, Goto
  <2>30. CASE LoadConfig
    BY <2>30 DEF LoadConfig, Goto
  <2>31. CASE ApplyOK
    BY <2>31 DEF ApplyOK
  <2>32. CASE ApplyFails
    BY <2>32 DEF ApplyFails
  <2>33. CASE FinishReload
    BY <2>33 DEF FinishReload, Summarise, Goto
  <2>34. CASE UNCHANGED vars
    BY <2>34 DEF vars
  <2> QED
    BY <2>1, <2>2, <2>3, <2>4, <2>5, <2>6, <2>7, <2>8, <2>9, <2>10, <2>11,
       <2>12, <2>13, <2>14, <2>15, <2>16, <2>17, <2>18, <2>19, <2>20, <2>21,
       <2>22, <2>23, <2>24, <2>25, <2>26, <2>27, <2>28, <2>29, <2>30, <2>31,
       <2>32, <2>33, <2>34
    DEF Next, Environment, Call, Proceed, Signal, Enqueue, Watcher,
        SighupTrigger, FileTrigger, Worker

\* What a cycle loads is never older than any trigger it answers.
THEOREM NoStaleReload == Spec => []TriggerSeesItsFile
<1>1. Init => TriggerSeesItsFile
  BY DEF Init, TriggerSeesItsFile
<1> QED BY <1>1, TriggerSeesItsFileStep, TypeCorrect, StartInvariant, PTL
    DEF Spec

-----------------------------------------------------------------------------
(* Refinement: the Reloader implements ReloadService.                      *)

\* The service without its Close: rounds only.
Rounds == INSTANCE ReloadService
    WITH pending <- srcSet, phase <- Phase, read <- cand, inForce <- applied,
         closed <- FALSE

\* Every step of the Reloader is a step of a round, or none.
LEMMA RoundStep ==
  ASSUME TypeOK, StartInv, [Next]_vars
  PROVE  [Rounds!Next]_(Rounds!vars)
<1> QED
  <2> USE LabelsPC
  <2> USE DEF TypeOK, PCOK, DataOK, Phase, Rounds!Next, Rounds!vars, envVars,
      flagVars, queueVars, callVars, cycleVars, resultVars
  <2>1. CASE Write
    BY <2>1 DEF Write, Rounds!Edit
  <2>2. CASE Overflow
    BY <2>2 DEF Overflow
  <2>3. CASE Sighup
    BY <2>3 DEF Sighup
  <2>4. CASE CancelCtx
    BY <2>4 DEF CancelCtx
  <2>5. ASSUME NEW c \in Clients, NEW s \in SubNames, Register(c, s)
        PROVE  [Rounds!Next]_(Rounds!vars)
    BY <2>5 DEF Register
  <2>6. ASSUME NEW c \in Clients, CallStart(c)
        PROVE  [Rounds!Next]_(Rounds!vars)
    BY <2>6 DEF CallStart, Enter, Goto
  <2>7. ASSUME NEW c \in Clients, SpawnWorker(c)
        PROVE  [Rounds!Next]_(Rounds!vars)
    BY <2>7, SpawnsNew DEF SpawnWorker, Goto
  <2>8. ASSUME NEW c \in Clients, SpawnWatcher(c)
        PROVE  [Rounds!Next]_(Rounds!vars)
    BY <2>8, SpawnsNew DEF SpawnWatcher, Goto
  <2>9. ASSUME NEW c \in Clients, StartTrigger(c)
        PROVE  [Rounds!Next]_(Rounds!vars)
    BY <2>9, SpawnsNew DEF StartTrigger, Goto
  <2>10. ASSUME NEW c \in Clients, FileTriggerFails(c)
        PROVE  [Rounds!Next]_(Rounds!vars)
    BY <2>10 DEF FileTriggerFails, Goto
  <2>11. ASSUME NEW c \in Clients, StartReturns(c)
        PROVE  [Rounds!Next]_(Rounds!vars)
    BY <2>11 DEF StartReturns, Return, Goto
  <2>12. ASSUME NEW c \in Clients, CallStop(c)
        PROVE  [Rounds!Next]_(Rounds!vars)
    BY <2>12 DEF CallStop, Enter, Goto
  <2>13. ASSUME NEW p \in Clients \cup {"watcher"}, SignalStopped(p)
        PROVE  [Rounds!Next]_(Rounds!vars)
    BY <2>13 DEF SignalStopped, Goto
  <2>14. ASSUME NEW p \in Clients \cup {"watcher"}, CloseStopCh(p)
        PROVE  [Rounds!Next]_(Rounds!vars)
    BY <2>14 DEF CloseStopCh, AfterSignal, Goto
  <2>15. ASSUME NEW p \in Clients \cup {"watcher"}, SignalAgain(p)
        PROVE  [Rounds!Next]_(Rounds!vars)
    BY <2>15 DEF SignalAgain, AfterSignal, Goto
  <2>16. ASSUME NEW c \in Clients, StopReturns(c)
        PROVE  [Rounds!Next]_(Rounds!vars)
    BY <2>16 DEF StopReturns, Return, Goto
  <2>17. ASSUME NEW c \in Clients, StartFails(c)
        PROVE  [Rounds!Next]_(Rounds!vars)
    BY <2>17 DEF StartFails, Return, Goto
  <2>18. CASE WatchCtx
    BY <2>18 DEF WatchCtx, Goto
  <2>19. ASSUME NEW g \in Goroutines, Exit(g)
        PROVE  [Rounds!Next]_(Rounds!vars)
    BY <2>19 DEF Exit, Goto
  <2>20. ASSUME NEW c \in Clients, CallTrigger(c)
        PROVE  [Rounds!Next]_(Rounds!vars)
    BY <2>20 DEF CallTrigger, Enter, Goto
  <2>21. CASE ReceiveSighup
    BY <2>21 DEF ReceiveSighup, Goto
  <2>22. CASE ReceiveFileEvent
    BY <2>22 DEF ReceiveFileEvent, Goto
  <2>23. ASSUME NEW p \in Clients \cup {"sighup", "file"}, AddSource(p)
        PROVE  [Rounds!Next]_(Rounds!vars)
    BY <2>23 DEF AddSource, Goto, SourceOf, Rounds!Request, Sources
  <2>24. ASSUME NEW p \in Clients \cup {"sighup", "file"}, SendWake(p)
        PROVE  [Rounds!Next]_(Rounds!vars)
    BY <2>24 DEF SendWake, Return, Goto
  <2>25. CASE ReceiveWake
    BY <2>25 DEF ReceiveWake, Goto
  <2>26. CASE Tick
    BY <2>26 DEF Tick
  <2>27. CASE DebounceMore
    BY <2>27 DEF DebounceMore
  <2>28. CASE DebounceFires
    BY <2>28 DEF DebounceFires, Goto
  <2>29. CASE SnapshotSources
    BY <2>29 DEF SnapshotSources, Goto, Rounds!Collect
  <2>30. CASE LoadConfig
    BY <2>30 DEF LoadConfig, Goto, Rounds!Read
  <2>31. CASE ApplyOK
    BY <2>31 DEF ApplyOK, Rounds!Adopt
  <2>32. CASE ApplyFails
    BY <2>32 DEF ApplyFails
  <2>33. CASE FinishReload
    BY <2>33 DEF FinishReload, Summarise, Goto, Rounds!Finish
  <2>34. CASE UNCHANGED vars
    BY <2>34 DEF vars
  <2> QED
    BY <2>1, <2>2, <2>3, <2>4, <2>5, <2>6, <2>7, <2>8, <2>9, <2>10, <2>11,
       <2>12, <2>13, <2>14, <2>15, <2>16, <2>17, <2>18, <2>19, <2>20, <2>21,
       <2>22, <2>23, <2>24, <2>25, <2>26, <2>27, <2>28, <2>29, <2>30, <2>31,
       <2>32, <2>33, <2>34
    DEF Next, Environment, Call, Proceed, Signal, Enqueue, Watcher,
        SighupTrigger, FileTrigger, Worker

\* Only a Stop or a failing Start that returns closes the service, and it
\* leaves the rounds alone.
LEMMA QuietStep ==
  [Next]_vars =>
    \/ quiet' = quiet
    \/ \E c \in Clients : StopReturns(c) \/ StartFails(c)
BY DEF Next, vars, callVars, Environment, Write, Overflow, Sighup, CancelCtx,
   Call, Register, CallStart, CallStop, CallTrigger, Proceed, SpawnWorker,
   SpawnWatcher, StartTrigger, FileTriggerFails, StartReturns, Signal,
   SignalStopped, CloseStopCh, SignalAgain, Enqueue, AddSource, SendWake,
   Watcher, WatchCtx, Exit, SighupTrigger, ReceiveSighup, FileTrigger,
   ReceiveFileEvent, Tick, Worker, ReceiveWake, DebounceMore, DebounceFires,
   SnapshotSources, LoadConfig, ApplyOK, ApplyFails, FinishReload

\* Every step of the Reloader is a step of the service, or none.
LEMMA ServiceStep ==
  ASSUME TypeOK, StartInv, StopInv', [Next]_vars
  PROVE  [Service!Next]_(Service!vars)
<1>1. ASSUME NEW c \in Clients, StopReturns(c) \/ StartFails(c)
      PROVE  Service!Close
  <2>1. pc["worker"] \in {"none", "exit"} /\ pc'["worker"] = pc["worker"]
    BY <1>1, LabelsPC
    DEF StopReturns, StartFails, Return, Goto, Live, TypeOK, PCOK
  <2> QED
    BY <1>1, <2>1
    DEF StopReturns, StartFails, Service!Close, Phase, envVars, queueVars,
        cycleVars, resultVars
<1>2. CASE quiet' = quiet
  <2>1. quiet => Phase' # "taken"
    BY <1>2, LabelsPC DEF StopInv, Live, Phase
  <2>2. CASE Rounds!Collect
    BY <1>2, <2>1, <2>2 DEF Rounds!Collect, Service!Collect, Service!Next
  <2> QED
    BY <1>2, <2>2, RoundStep
    DEF Rounds!Next, Rounds!vars, Rounds!Edit, Rounds!Request, Rounds!Read,
        Rounds!Adopt, Rounds!Finish, Rounds!Close,
        Service!Next, Service!vars, Service!Edit, Service!Request,
        Service!Read, Service!Adopt, Service!Finish
<1> QED BY <1>1, <1>2, QuietStep DEF Service!Next

\* If no caller runs Stop while Start is under way, every behaviour of the
\* Reloader is one of the abstract service.
THEOREM ReloaderImplementsService ==
  ASSUME StopAfterStart PROVE Spec => ImplementsService
<1>1. Init => Service!Init
  BY LabelsPC DEF Init, Service!Init, Phase, Procs
<1>2. TypeOK /\ StartInv /\ StopInv' /\ [Next]_vars =>
        [Service!Next]_(Service!vars)
  BY ServiceStep
<1> QED
  BY <1>1, <1>2, TypeCorrect, StartInvariant, StopInvariant, PTL
  DEF Spec, ImplementsService, Service!Spec

\* Whatever the callers do, a Stop that races a Start included, the Reloader
\* reloads in rounds that never overlap, each of which takes the pending
\* sources before it reads the file, and reads it before anyone adopts it.
ImplementsRounds == Rounds!Spec

\* The same without any promise of the callers.  What such a promise is for
\* is only that no round begins once a Stop has returned.
THEOREM ReloaderImplementsRounds == Spec => ImplementsRounds
<1>1. Init => Rounds!Init
  BY LabelsPC DEF Init, Rounds!Init, Phase, Procs
<1>2. TypeOK /\ StartInv /\ [Next]_vars => [Rounds!Next]_(Rounds!vars)
  BY RoundStep
<1> QED
  BY <1>1, <1>2, TypeCorrect, StartInvariant, PTL
  DEF Spec, ImplementsRounds, Rounds!Spec

-----------------------------------------------------------------------------
(* Dispatch: partial failure, lastApplied, and what subscribers run with.  *)

\* A step that touches neither the cycle nor the subscribers.
LEMMA DispatchFrame ==
  ASSUME DispatchInv,
         UNCHANGED <<cand, left, succeeded, failed, resultVars>>,
         good \subseteq good',
         pc'["worker"] = "dispatch" <=> pc["worker"] = "dispatch",
         started \/ stopped => started' \/ stopped'
  PROVE  DispatchInv'
<1>1. /\ cand' = cand /\ left' = left /\ succeeded' = succeeded
      /\ failed' = failed /\ subs' = subs /\ lastApplied' = lastApplied
      /\ applied' = applied /\ summary' = summary
  BY DEF resultVars
<1>2. Registered' = Registered
  BY <1>1 DEF Registered
<1>3. LaggingReported' /\ LastAppliedIsCarried'
  BY <1>1, <1>2 DEF DispatchInv, LaggingReported, LastAppliedIsCarried
<1>4. pc'["worker"] = "dispatch" => cand' \in good'
  BY <1>1 DEF DispatchInv
<1> QED BY <1>1, <1>2, <1>3, <1>4 DEF DispatchInv

\* Append, on a typed sequence.
LEMMA AppendTyped ==
  ASSUME NEW S, NEW q \in Seq(S), NEW e \in S
  PROVE  Append(q, e) \in Seq(S)
OBVIOUS

\* A dispatch accounts for every subscriber: taken, failed or still to come.
LEMMA DispatchInvStep ==
  ASSUME TypeOK, StartInv, DispatchInv, [Next]_vars
  PROVE  DispatchInv'
<1> QED
  <2> USE LabelsPC
  <2> USE DEF TypeOK, PCOK, envVars, flagVars, cycleVars
  <2>1. CASE Write
    BY <2>1, DispatchFrame DEF Write
  <2>2. CASE Overflow
    BY <2>2, DispatchFrame DEF Overflow
  <2>3. CASE Sighup
    BY <2>3, DispatchFrame DEF Sighup
  <2>4. CASE CancelCtx
    BY <2>4, DispatchFrame DEF CancelCtx
  <2>5. ASSUME NEW c \in Clients, NEW s \in SubNames, Register(c, s)
        PROVE  DispatchInv'
    <3>1. /\ pc["worker"] = "none" /\ lastApplied = 0
          /\ \A x \in SubNames : applied[x] = 0
      BY <2>5 DEF Register, StartInv, DispatchInv
    <3>2. /\ UNCHANGED <<pc, cand, succeeded, failed, lastApplied, applied>>
          /\ subs' = Append(subs, s)
      BY <2>5 DEF Register
    <3>3. Registered' \subseteq SubNames
      BY <3>2, AppendTyped DEF DataOK, Registered
    <3>4. LaggingReported' /\ LastAppliedIsCarried'
      BY <3>1, <3>2, <3>3 DEF LaggingReported, LastAppliedIsCarried
    <3> QED BY <3>1, <3>2, <3>4 DEF DispatchInv
  <2>6. ASSUME NEW c \in Clients, CallStart(c) PROVE DispatchInv'
    BY <2>6, DispatchFrame DEF CallStart, Enter, Goto
  <2>7. ASSUME NEW c \in Clients, SpawnWorker(c) PROVE DispatchInv'
    BY <2>7, DispatchFrame, SpawnsNew DEF SpawnWorker, Goto
  <2>8. ASSUME NEW c \in Clients, SpawnWatcher(c) PROVE DispatchInv'
    BY <2>8, DispatchFrame, SpawnsNew DEF SpawnWatcher, Goto
  <2>9. ASSUME NEW c \in Clients, StartTrigger(c) PROVE DispatchInv'
    BY <2>9, DispatchFrame, SpawnsNew DEF StartTrigger, Goto
  <2>10. ASSUME NEW c \in Clients, FileTriggerFails(c) PROVE DispatchInv'
    BY <2>10, DispatchFrame DEF FileTriggerFails, Goto
  <2>11. ASSUME NEW c \in Clients, StartReturns(c) PROVE DispatchInv'
    BY <2>11, DispatchFrame DEF StartReturns, Return, Goto
  <2>12. ASSUME NEW c \in Clients, CallStop(c) PROVE DispatchInv'
    BY <2>12, DispatchFrame DEF CallStop, Enter, Goto
  <2>13. ASSUME NEW p \in Clients \cup {"watcher"}, SignalStopped(p)
        PROVE  DispatchInv'
    BY <2>13, DispatchFrame DEF SignalStopped, Goto
  <2>14. ASSUME NEW p \in Clients \cup {"watcher"}, CloseStopCh(p)
        PROVE  DispatchInv'
    BY <2>14, DispatchFrame DEF CloseStopCh, AfterSignal, Goto
  <2>15. ASSUME NEW p \in Clients \cup {"watcher"}, SignalAgain(p)
        PROVE  DispatchInv'
    BY <2>15, DispatchFrame DEF SignalAgain, AfterSignal, Goto
  <2>16. ASSUME NEW c \in Clients, StopReturns(c) PROVE DispatchInv'
    BY <2>16, DispatchFrame DEF StopReturns, Return, Goto
  <2>17. ASSUME NEW c \in Clients, StartFails(c) PROVE DispatchInv'
    BY <2>17, DispatchFrame DEF StartFails, Return, Goto
  <2>18. CASE WatchCtx
    BY <2>18, DispatchFrame DEF WatchCtx, Goto
  <2>19. ASSUME NEW g \in Goroutines, Exit(g) PROVE DispatchInv'
    BY <2>19, DispatchFrame DEF Exit, Goto
  <2>20. ASSUME NEW c \in Clients, CallTrigger(c) PROVE DispatchInv'
    BY <2>20, DispatchFrame DEF CallTrigger, Enter, Goto
  <2>21. CASE ReceiveSighup
    BY <2>21, DispatchFrame DEF ReceiveSighup, Goto
  <2>22. CASE ReceiveFileEvent
    BY <2>22, DispatchFrame DEF ReceiveFileEvent, Goto
  <2>23. ASSUME NEW p \in Clients \cup {"sighup", "file"}, AddSource(p)
        PROVE  DispatchInv'
    BY <2>23, DispatchFrame DEF AddSource, Goto
  <2>24. ASSUME NEW p \in Clients \cup {"sighup", "file"}, SendWake(p)
        PROVE  DispatchInv'
    BY <2>24, DispatchFrame DEF SendWake, Return, Goto
  <2>25. CASE ReceiveWake
    BY <2>25, DispatchFrame DEF ReceiveWake, Goto
  <2>26. CASE Tick
    BY <2>26, DispatchFrame DEF Tick
  <2>27. CASE DebounceMore
    BY <2>27, DispatchFrame DEF DebounceMore
  <2>28. CASE DebounceFires
    BY <2>28, DispatchFrame DEF DebounceFires, Goto
  <2>29. CASE SnapshotSources
    BY <2>29, DispatchFrame DEF SnapshotSources, Goto
  <2>30. CASE LoadConfig
    <3>1. /\ UNCHANGED <<subs, lastApplied, applied, summary>>
          /\ UNCHANGED <<succeeded, failed, good, started, stopped>>
          /\ cand' = file /\ pc["worker"] = "load"
      BY <2>30 DEF LoadConfig, resultVars
    <3>2. /\ \A s \in SubNames : applied'[s] <= cand'
          /\ Registered' = Registered
          /\ succeeded' = {} /\ failed' = {}
      BY <3>1 DEF DataOK, DispatchInv, Registered
    <3>3. LaggingReported' /\ LastAppliedIsCarried'
      BY <3>1, <3>2 DEF DispatchInv, LaggingReported, LastAppliedIsCarried
    <3>4. \/ file \in good /\ left' = subs /\ pc'["worker"] = "dispatch"
          \/ pc'["worker"] = "select"
      BY <2>30 DEF LoadConfig, Goto
    <3>5. /\ \A s \in Registered : \E i \in 1..Len(subs) : subs[i] = s
          /\ \A i \in 1..Len(subs) : subs[i] \in Registered
          /\ lastApplied = 0 \/ \E s \in Registered : applied[s] = lastApplied
      BY <3>1 DEF Registered, DispatchInv, LastAppliedIsCarried
    <3>6. CASE pc'["worker"] = "select"
      BY <3>1, <3>2, <3>3, <3>6 DEF DispatchInv
    <3>7. CASE pc'["worker"] = "dispatch"
      BY <3>1, <3>2, <3>3, <3>4, <3>5, <3>7 DEF DispatchInv
    <3> QED BY <3>4, <3>6, <3>7
  <2>31. CASE ApplyOK
    <3>1. /\ left \in Seq(SubNames) /\ left # <<>> /\ left' = Tail(left)
          /\ pc["worker"] = "dispatch" /\ pc' = pc
          /\ UNCHANGED <<cand, good, started, stopped, subs, lastApplied>>
      BY <2>31 DEF ApplyOK, resultVars, DataOK, envVars
    <3> DEFINE h == Head(left)
    <3>2. /\ h \in SubNames /\ h \in Registered
          /\ \A i \in 1..Len(left') : left'[i] = left[i + 1] /\ i + 1 \in 1..Len(left)
          /\ \A i \in 1..Len(left) : i = 1 \/ i - 1 \in 1..Len(left')
          /\ h = left[1]
      <4>1. 1 \in 1..Len(left) /\ h = left[1]
        BY <3>1
      <4> QED BY <3>1, <4>1 DEF DispatchInv
    <3>3. Registered' = Registered
      BY <3>1 DEF Registered
    <3>4. /\ \A i \in 1..Len(left') : left'[i] \in Registered
          /\ \A s \in Registered : (\E i \in 1..Len(left) : left[i] = s) =>
                s = h \/ \E i \in 1..Len(left') : left'[i] = s
      <4>1. \A i \in 1..Len(left') : left'[i] \in Registered
        BY <3>1, <3>2 DEF DispatchInv
      <4>2. ASSUME NEW i \in 1..Len(left), i # 1
            PROVE  i - 1 \in 1..Len(left') /\ left'[i - 1] = left[i]
        BY <3>1, <3>2, <4>2
      <4> QED BY <3>2, <4>1, <4>2
    <3>5. /\ \A s \in SubNames : applied'[s] = IF s = h THEN cand ELSE applied[s]
          /\ succeeded' = succeeded \cup {h} /\ failed' = failed
      BY <2>31 DEF ApplyOK, DataOK
    <3>6. \A s \in SubNames : applied'[s] <= cand
      BY <3>5 DEF DispatchInv, DataOK
    <3>7. succeeded \subseteq SubNames
      BY DEF DataOK
    <3>8. \A s \in succeeded' : s \in Registered /\ applied'[s] = cand
      BY <3>1, <3>2, <3>5, <3>7 DEF DispatchInv
    <3>9. \A s \in Registered :
            s \in succeeded' \/ s \in failed' \/ \E i \in 1..Len(left') : left'[i] = s
      BY <3>1, <3>4, <3>5 DEF DispatchInv
    <3>10. LaggingReported' /\ LastAppliedIsCarried'
      BY <3>1 DEF LaggingReported, LastAppliedIsCarried
    <3>11. started \/ stopped
      BY <3>1 DEF StartInv
    <3>12. cand \in good /\ succeeded' # {}
      BY <3>1, <3>5 DEF DispatchInv
    <3> QED
      BY <3>1, <3>3, <3>4, <3>6, <3>8, <3>9, <3>10, <3>11, <3>12
      DEF DispatchInv
  <2>32. CASE ApplyFails
    <3>1. /\ left \in Seq(SubNames) /\ left # <<>> /\ left' = Tail(left)
          /\ pc["worker"] = "dispatch" /\ pc' = pc
          /\ UNCHANGED <<cand, good, started, stopped, subs, lastApplied>>
      BY <2>32 DEF ApplyFails, resultVars, DataOK, envVars
    <3> DEFINE h == Head(left)
    <3>2. /\ h \in SubNames /\ h \in Registered
          /\ \A i \in 1..Len(left') : left'[i] = left[i + 1] /\ i + 1 \in 1..Len(left)
          /\ \A i \in 1..Len(left) : i = 1 \/ i - 1 \in 1..Len(left')
          /\ h = left[1]
      <4>1. 1 \in 1..Len(left) /\ h = left[1]
        BY <3>1
      <4> QED BY <3>1, <4>1 DEF DispatchInv
    <3>3. Registered' = Registered
      BY <3>1 DEF Registered
    <3>4. /\ \A i \in 1..Len(left') : left'[i] \in Registered
          /\ \A s \in Registered : (\E i \in 1..Len(left) : left[i] = s) =>
                s = h \/ \E i \in 1..Len(left') : left'[i] = s
      <4>1. \A i \in 1..Len(left') : left'[i] \in Registered
        BY <3>1, <3>2 DEF DispatchInv
      <4>2. ASSUME NEW i \in 1..Len(left), i # 1
            PROVE  i - 1 \in 1..Len(left') /\ left'[i - 1] = left[i]
        BY <3>1, <3>2, <4>2
      <4> QED BY <3>2, <4>1, <4>2
    <3>5. applied' = applied /\ succeeded' = succeeded /\ failed' = failed \cup {h}
      BY <2>32 DEF ApplyFails, resultVars
    <3>9. \A s \in Registered :
            s \in succeeded' \/ s \in failed' \/ \E i \in 1..Len(left') : left'[i] = s
      BY <3>1, <3>4, <3>5 DEF DispatchInv
    <3>10. LaggingReported' /\ LastAppliedIsCarried'
      BY <3>1 DEF LaggingReported, LastAppliedIsCarried
    <3>11. started \/ stopped
      BY <3>1 DEF StartInv
    <3> QED
      BY <3>1, <3>3, <3>4, <3>5, <3>9, <3>10, <3>11 DEF DispatchInv
  <2>33. CASE FinishReload
    <3>1. /\ pc["worker"] = "dispatch" /\ left = <<>> /\ pc'["worker"] = "select"
          /\ succeeded' = {} /\ failed' = {}
          /\ UNCHANGED <<cand, good, started, stopped, subs, applied>>
          /\ lastApplied' = IF succeeded # {} THEN cand ELSE lastApplied
          /\ summary'.failed = failed
          /\ failed # {} => summary'.level = "warn"
      BY <2>33 DEF FinishReload, Summarise, Goto, envVars
    <3>2. Registered' = Registered
      BY <3>1 DEF Registered
    <3>3. \A s \in Registered : s \in succeeded \/ s \in failed
      BY <3>1 DEF DispatchInv
    <3>4. \A s \in succeeded : s \in Registered /\ applied[s] = cand
      BY <3>1 DEF DispatchInv
    <3>5. LaggingReported'
      BY <3>1, <3>2, <3>3, <3>4 DEF LaggingReported
    <3>6. LastAppliedIsCarried'
      BY <3>1, <3>2, <3>4 DEF LastAppliedIsCarried, DispatchInv
    <3>7. started \/ stopped
      BY <3>1 DEF StartInv
    <3> QED BY <3>1, <3>5, <3>6, <3>7 DEF DispatchInv
  <2>34. CASE UNCHANGED vars
    BY <2>34, DispatchFrame DEF vars
  <2> QED
    BY <2>1, <2>2, <2>3, <2>4, <2>5, <2>6, <2>7, <2>8, <2>9, <2>10, <2>11,
       <2>12, <2>13, <2>14, <2>15, <2>16, <2>17, <2>18, <2>19, <2>20, <2>21,
       <2>22, <2>23, <2>24, <2>25, <2>26, <2>27, <2>28, <2>29, <2>30, <2>31,
       <2>32, <2>33, <2>34
    DEF Next, Environment, Call, Proceed, Signal, Enqueue, Watcher,
        SighupTrigger, FileTrigger, Worker

\* The invariant of the dispatch.
LEMMA DispatchInvariant == Spec => []DispatchInv
<1>1. Init => DispatchInv
  BY LabelsPC DEF Init, DispatchInv, LaggingReported, LastAppliedIsCarried,
     Registered, Procs
<1> QED BY <1>1, DispatchInvStep, TypeCorrect, StartInvariant, PTL DEF Spec

\* A partial failure is never hidden: whoever lags behind lastApplied is named
\* in the warning of the last cycle (reload.go doReload).
THEOREM PartialFailureVisible == Spec => []LaggingReported
<1>1. DispatchInv => LaggingReported
  BY DEF DispatchInv
<1> QED BY <1>1, DispatchInvariant, PTL

\* lastApplied is never a configuration that nobody took (reload.go
\* setLastApplied).
THEOREM LastAppliedStands == Spec => []LastAppliedIsCarried
<1>1. DispatchInv => LastAppliedIsCarried
  BY DEF DispatchInv
<1> QED BY <1>1, DispatchInvariant, PTL

\* Only Apply changes what a subscriber runs with.
LEMMA OnlyApply == [Next]_vars => ApplyOK \/ applied' = applied
BY DEF Next, vars, resultVars, Environment, Write, Overflow, Sighup, CancelCtx,
   Call, Register, CallStart, CallStop, CallTrigger, Proceed, SpawnWorker,
   SpawnWatcher, StartTrigger, FileTriggerFails, StartReturns, StartFails,
   Signal, SignalStopped, CloseStopCh, SignalAgain, StopReturns, Enqueue,
   AddSource, SendWake, Watcher, WatchCtx, Exit, SighupTrigger, ReceiveSighup,
   FileTrigger, ReceiveFileEvent, Tick, Worker, ReceiveWake, DebounceMore,
   DebounceFires, SnapshotSources, LoadConfig, ApplyFails, FinishReload

\* Only the end of a cycle changes lastApplied.
LEMMA OnlyFinish == [Next]_vars => FinishReload \/ lastApplied' = lastApplied
BY DEF Next, vars, resultVars, Environment, Write, Overflow, Sighup, CancelCtx,
   Call, Register, CallStart, CallStop, CallTrigger, Proceed, SpawnWorker,
   SpawnWatcher, StartTrigger, FileTriggerFails, StartReturns, StartFails,
   Signal, SignalStopped, CloseStopCh, SignalAgain, StopReturns, Enqueue,
   AddSource, SendWake, Watcher, WatchCtx, Exit, SighupTrigger, ReceiveSighup,
   FileTrigger, ReceiveFileEvent, Tick, Worker, ReceiveWake, DebounceMore,
   DebounceFires, SnapshotSources, LoadConfig, ApplyOK, ApplyFails

\* A subscriber only moves forward, to a configuration that was validated.
THEOREM SubscribersAdvance == Spec => AppliedAdvances
<1> DEFINE Advance ==
      \A s \in SubNames : applied'[s] # applied[s] =>
            applied'[s] \in good /\ applied'[s] > applied[s]
<1>1. TypeOK /\ DispatchInv /\ [Next]_vars => [Advance]_vars
  <2> SUFFICES ASSUME TypeOK, DispatchInv, [Next]_vars PROVE Advance
    OBVIOUS
  <2>1. CASE ApplyOK
    <3>1. /\ cand \in good /\ cand \in 0..file /\ file \in Nat
          /\ \A s \in SubNames : applied[s] <= cand /\ applied[s] \in 0..file
      BY <2>1 DEF ApplyOK, DispatchInv, TypeOK, DataOK
    <3>2. \A s \in SubNames : applied'[s] # applied[s] => applied'[s] = cand
      BY <2>1 DEF ApplyOK, TypeOK, DataOK
    <3> QED BY <3>1, <3>2
  <2>2. CASE applied' = applied
    BY <2>2
  <2> QED BY <2>1, <2>2, OnlyApply
<1> QED BY <1>1, TypeCorrect, DispatchInvariant, PTL DEF Spec, AppliedAdvances

\* Once a Stop has returned, or a Start has failed, nobody is called any more:
\* what the subscribers run with then, they keep.
StoppedForGood ==
    [][quiet => quiet' /\ applied' = applied /\ lastApplied' = lastApplied]_vars

\* Stop is final, if no caller runs it while Start is under way (Stop's doc,
\* reload.go): the configuration in force when it returns stays in force.
THEOREM StopIsFinal == ASSUME StopAfterStart PROVE Spec => StoppedForGood
<1>1. TypeOK /\ StopInv /\ [Next]_vars =>
        (quiet => quiet' /\ applied' = applied /\ lastApplied' = lastApplied)
  <2> SUFFICES ASSUME TypeOK, StopInv, [Next]_vars, quiet
               PROVE  quiet' /\ applied' = applied /\ lastApplied' = lastApplied
    OBVIOUS
  <2>1. pc["worker"] \in {"none", "exit"}
    BY LabelsPC DEF StopInv, Live
  <2>2. quiet'
    BY QuietStep DEF StopReturns, StartFails
  <2>3. applied' = applied
    BY <2>1, OnlyApply DEF ApplyOK
  <2>4. lastApplied' = lastApplied
    BY <2>1, OnlyFinish DEF FinishReload
  <2> QED BY <2>2, <2>3, <2>4
<1> QED BY <1>1, TypeCorrect, StopInvariant, PTL DEF Spec, StoppedForGood

-----------------------------------------------------------------------------
(* The order of the dispatch.                                              *)

\* In a dispatch the subscribers called so far are the first n of subs, and
\* each is on one of the two lists and not on both.
DispatchOrder ==
    /\ \A i, j \in 1..Len(subs) : subs[i] = subs[j] => i = j
    /\ pc["worker"] # "dispatch" => succeeded = {} /\ failed = {}
    /\ pc["worker"] = "dispatch" => \E n \in 0..Len(subs) :
        /\ Len(left) = Len(subs) - n
        /\ \A i \in 1..Len(left) : left[i] = subs[n + i]
        /\ succeeded \cup failed = {subs[i] : i \in 1..n}
        /\ succeeded \cap failed = {}

\* A reload calls each registered subscriber once, in the order in which they
\* were registered (the docs of Register and doReload), goes on after one that
\* failed, and counts each of them either as succeeded or as failed.
EachCalledOnce ==
    [][/\ ApplyOK \/ ApplyFails => \E n \in 1..Len(subs) :
            /\ Head(left) = subs[n] /\ subs[n] \notin succeeded \cup failed
            /\ \A i \in 1..(n - 1) : subs[i] \in succeeded \cup failed
       /\ FinishReload => /\ succeeded \cup failed = Registered
                          /\ succeeded \cap failed = {}]_vars

\* What a step outside the dispatch leaves alone.
Undispatched ==
    /\ UNCHANGED <<subs, left, succeeded, failed>>
    /\ pc'["worker"] = "dispatch" <=> pc["worker"] = "dispatch"

\* Every step registers a subscriber, is one of a cycle, or has nothing to do
\* with a dispatch.
LEMMA DispatchShape ==
  ASSUME TypeOK, StartInv, [Next]_vars
  PROVE  \/ \E c \in Clients, s \in SubNames : Register(c, s)
         \/ LoadConfig \/ ApplyOK \/ ApplyFails \/ FinishReload
         \/ Undispatched
<1> USE LabelsPC
<1> USE DEF TypeOK, PCOK, Goto, cycleVars, resultVars, Undispatched
<1>1. CASE Environment \/ Tick \/ DebounceMore \/ UNCHANGED vars
  BY <1>1 DEF Environment, Write, Overflow, Sighup, CancelCtx, Tick,
              DebounceMore, vars
<1>2. ASSUME NEW c \in Clients, CallStart(c) \/ CallStop(c) \/ CallTrigger(c)
      PROVE  Undispatched
  BY <1>2 DEF CallStart, CallStop, CallTrigger, Enter
<1>3. ASSUME NEW c \in Clients, SpawnWorker(c) \/ SpawnWatcher(c) \/ StartTrigger(c)
      PROVE  Undispatched
  BY <1>3, SpawnsNew DEF SpawnWorker, SpawnWatcher, StartTrigger
<1>4. ASSUME NEW c \in Clients,
             FileTriggerFails(c) \/ StartReturns(c) \/ StopReturns(c) \/ StartFails(c)
      PROVE  Undispatched
  BY <1>4 DEF FileTriggerFails, StartReturns, StopReturns, StartFails, Return
<1>5. ASSUME NEW p \in Clients \cup {"watcher"}, Signal(p)
      PROVE  Undispatched
  BY <1>5 DEF Signal, SignalStopped, CloseStopCh, SignalAgain
<1>6. CASE WatchCtx \/ ReceiveSighup \/ ReceiveFileEvent
  BY <1>6 DEF WatchCtx, ReceiveSighup, ReceiveFileEvent
<1>7. ASSUME NEW g \in Goroutines, Exit(g) PROVE Undispatched
  BY <1>7 DEF Exit
<1>8. ASSUME NEW p \in Clients \cup {"sighup", "file"}, Enqueue(p)
      PROVE  Undispatched
  BY <1>8 DEF Enqueue, AddSource, SendWake, Return
<1>9. CASE ReceiveWake \/ DebounceFires \/ SnapshotSources
  BY <1>9 DEF ReceiveWake, DebounceFires, SnapshotSources
<1> QED
  BY <1>1, <1>2, <1>3, <1>4, <1>5, <1>6, <1>7, <1>8, <1>9
  DEF Next, Call, Proceed, Watcher, SighupTrigger, FileTrigger, Worker

\* The next subscriber of a dispatch, and what its call leaves to do.
LEMMA NextCalled ==
  ASSUME TypeOK, DispatchOrder, pc["worker"] = "dispatch", left # <<>>
  PROVE  \E n \in 0..(Len(subs) - 1) :
            /\ Head(left) = subs[n + 1]
            /\ Head(left) \notin succeeded \cup failed
            /\ succeeded \cup failed = {subs[i] : i \in 1..n}
            /\ succeeded \cap failed = {}
            /\ Len(Tail(left)) = Len(subs) - (n + 1)
            /\ \A i \in 1..Len(Tail(left)) : Tail(left)[i] = subs[n + 1 + i]
<1>1. left \in Seq(SubNames) /\ subs \in Seq(SubNames)
  BY DEF TypeOK, DataOK
<1>2. PICK n \in 0..Len(subs) :
        /\ Len(left) = Len(subs) - n
        /\ \A i \in 1..Len(left) : left[i] = subs[n + i]
        /\ succeeded \cup failed = {subs[i] : i \in 1..n}
        /\ succeeded \cap failed = {}
  BY DEF DispatchOrder
<1>3. Len(left) \in Nat /\ Len(left) > 0 /\ Len(subs) \in Nat /\ n \in Nat
  BY <1>1
<1>4. n \in 0..(Len(subs) - 1) /\ 1 \in 1..Len(left)
  BY <1>2, <1>3
<1>5. Head(left) = subs[n + 1]
  BY <1>1, <1>2, <1>4
<1>6. Len(Tail(left)) = Len(subs) - (n + 1)
  BY <1>1, <1>2, <1>3
<1>7. \A i \in 1..Len(Tail(left)) : Tail(left)[i] = subs[n + 1 + i]
  <2> SUFFICES ASSUME NEW i \in 1..Len(Tail(left))
               PROVE  Tail(left)[i] = subs[n + 1 + i]
    OBVIOUS
  <2>1. i \in Nat /\ 1 <= i /\ i <= Len(subs) - (n + 1)
    BY <1>3, <1>6
  <2>2. i + 1 \in 1..Len(left) /\ n + (i + 1) = n + 1 + i
    BY <1>2, <1>3, <2>1
  <2>3. Tail(left)[i] = left[i + 1]
    BY <1>1, <1>3
  <2> QED BY <1>2, <2>2, <2>3
<1>8. \A i \in 1..n : subs[i] # subs[n + 1]
  BY <1>3, <1>4 DEF DispatchOrder
<1>9. Head(left) \notin succeeded \cup failed
  BY <1>2, <1>5, <1>8
<1> QED BY <1>2, <1>4, <1>5, <1>6, <1>7, <1>9

\* A call moves the subscriber from the head of left to one of the lists.
LEMMA CalledOrder ==
  ASSUME TypeOK, DispatchOrder, pc["worker"] = "dispatch", left # <<>>,
         left' = Tail(left), UNCHANGED <<subs, pc>>,
         \/ succeeded' = succeeded \cup {Head(left)} /\ failed' = failed
         \/ failed' = failed \cup {Head(left)} /\ succeeded' = succeeded
  PROVE  DispatchOrder'
<1>1. PICK n \in 0..(Len(subs) - 1) :
        /\ Head(left) = subs[n + 1]
        /\ Head(left) \notin succeeded \cup failed
        /\ succeeded \cup failed = {subs[i] : i \in 1..n}
        /\ succeeded \cap failed = {}
        /\ Len(Tail(left)) = Len(subs) - (n + 1)
        /\ \A i \in 1..Len(Tail(left)) : Tail(left)[i] = subs[n + 1 + i]
  BY NextCalled
<1>2. Len(subs) \in Nat
  BY DEF TypeOK, DataOK
<1>3. n + 1 \in 0..Len(subs)
  BY <1>2
<1>4. \A i \in 1..(n + 1) : i \in 1..n \/ i = n + 1
  BY <1>2
<1>5. 1..n \subseteq 1..(n + 1) /\ n + 1 \in 1..(n + 1)
  BY <1>2
<1>6. succeeded' \cup failed' = {subs[i] : i \in 1..(n + 1)}
  <2>1. \A s : s \in succeeded' \cup failed'
                <=> s \in succeeded \cup failed \/ s = subs[n + 1]
    BY <1>1
  <2>2. \A s : s \in succeeded \cup failed <=> \E i \in 1..n : s = subs[i]
    BY <1>1
  <2> QED BY <1>4, <1>5, <2>1, <2>2
<1>7. succeeded' \cap failed' = {}
  BY <1>1
<1>8. /\ n + 1 \in 0..Len(subs') /\ Len(left') = Len(subs') - (n + 1)
      /\ \A i \in 1..Len(left') : left'[i] = subs'[(n + 1) + i]
      /\ succeeded' \cup failed' = {subs'[i] : i \in 1..(n + 1)}
  BY <1>1, <1>3, <1>6
<1>9. \A i, j \in 1..Len(subs') : subs'[i] = subs'[j] => i = j
  BY DEF DispatchOrder
<1> QED BY <1>7, <1>8, <1>9 DEF DispatchOrder

LEMMA DispatchOrderStep ==
  ASSUME TypeOK, StartInv, DispatchOrder, [Next]_vars
  PROVE  DispatchOrder'
<1>1. ASSUME NEW c \in Clients, NEW s \in SubNames, Register(c, s)
      PROVE  DispatchOrder'
  <2>1. pc["worker"] = "none" /\ s \notin Registered /\ subs' = Append(subs, s)
    BY <1>1 DEF Register, StartInv, Goroutines
  <2>2. UNCHANGED <<pc, succeeded, failed>>
    BY <1>1 DEF Register, cycleVars
  <2>3. subs \in Seq(SubNames) /\ Len(subs) \in Nat
    BY DEF TypeOK, DataOK
  <2>4. /\ Len(subs') = Len(subs) + 1
        /\ \A i \in 1..Len(subs) : subs'[i] = subs[i] /\ subs[i] # s
        /\ subs'[Len(subs) + 1] = s
    BY <2>1, <2>3 DEF Registered
  <2>5. \A i \in 1..Len(subs') : i \in 1..Len(subs) \/ i = Len(subs) + 1
    BY <2>3, <2>4
  <2>6. \A i, j \in 1..Len(subs') : subs'[i] = subs'[j] => i = j
    BY <2>4, <2>5 DEF DispatchOrder
  <2> QED BY <2>1, <2>2, <2>6 DEF DispatchOrder
<1>2. CASE LoadConfig
  <2>1. /\ UNCHANGED <<subs, succeeded, failed>>
        /\ succeeded = {} /\ failed = {}
    BY <1>2 DEF LoadConfig, resultVars, DispatchOrder
  <2>2. CASE file \in good
    <3>1. left' = subs' /\ Len(subs') \in Nat
      BY <1>2, <2>1, <2>2 DEF LoadConfig, TypeOK, DataOK
    <3>2. /\ 0 \in 0..Len(subs') /\ Len(left') = Len(subs') - 0
          /\ \A i \in 1..Len(left') : left'[i] = subs'[0 + i]
      BY <3>1
    <3>3. {subs'[i] : i \in 1..0} = {}
      OBVIOUS
    <3> QED BY <2>1, <3>2, <3>3 DEF DispatchOrder
  <2>3. CASE file \notin good
    <3>1. pc'["worker"] = "select"
      BY <1>2, <2>3, LabelsPC DEF LoadConfig, Goto, TypeOK, PCOK
    <3> QED BY <2>1, <3>1 DEF DispatchOrder
  <2> QED BY <2>2, <2>3
<1>3. CASE ApplyOK
  BY <1>3, CalledOrder DEF ApplyOK
<1>4. CASE ApplyFails
  BY <1>4, CalledOrder DEF ApplyFails, resultVars
<1>5. CASE FinishReload
  <2>1. /\ pc'["worker"] = "select" /\ succeeded' = {} /\ failed' = {}
        /\ subs' = subs
    BY <1>5, LabelsPC DEF FinishReload, Summarise, Goto, TypeOK, PCOK
  <2> QED BY <2>1 DEF DispatchOrder
<1>6. CASE Undispatched
  BY <1>6 DEF Undispatched, DispatchOrder
<1> QED BY <1>1, <1>2, <1>3, <1>4, <1>5, <1>6, DispatchShape

LEMMA DispatchOrderInvariant == Spec => []DispatchOrder
<1>1. Init => DispatchOrder
  BY LabelsPC DEF Init, DispatchOrder, Procs
<1> QED BY <1>1, DispatchOrderStep, TypeCorrect, StartInvariant, PTL DEF Spec

\* The dispatch of doReload is one pass over the registered subscribers: none
\* is left out, called twice or called out of turn, and the summary line
\* names each of them on exactly one of its two lists.
THEOREM SubscribersCalledInOrder == Spec => EachCalledOnce
<1>1. ASSUME TypeOK, DispatchOrder, ApplyOK \/ ApplyFails
      PROVE  \E n \in 1..Len(subs) :
                /\ Head(left) = subs[n] /\ subs[n] \notin succeeded \cup failed
                /\ \A i \in 1..(n - 1) : subs[i] \in succeeded \cup failed
  <2>1. PICK n \in 0..(Len(subs) - 1) :
          /\ Head(left) = subs[n + 1]
          /\ Head(left) \notin succeeded \cup failed
          /\ succeeded \cup failed = {subs[i] : i \in 1..n}
    BY <1>1, NextCalled DEF ApplyOK, ApplyFails
  <2>2. Len(subs) \in Nat
    BY <1>1 DEF TypeOK, DataOK
  <2>3. n + 1 \in 1..Len(subs) /\ (n + 1) - 1 = n
    BY <2>2
  <2> QED BY <2>1, <2>3
<1>2. ASSUME TypeOK, DispatchOrder, FinishReload
      PROVE  succeeded \cup failed = Registered /\ succeeded \cap failed = {}
  <2>1. pc["worker"] = "dispatch" /\ Len(left) = 0 /\ Len(subs) \in Nat
    BY <1>2 DEF FinishReload, TypeOK, DataOK
  <2>2. PICK n \in 0..Len(subs) :
          /\ Len(left) = Len(subs) - n
          /\ succeeded \cup failed = {subs[i] : i \in 1..n}
          /\ succeeded \cap failed = {}
    BY <1>2, <2>1 DEF DispatchOrder
  <2>3. n = Len(subs)
    BY <2>1, <2>2
  <2> QED BY <2>2, <2>3 DEF Registered
<1> QED
  BY <1>1, <1>2, TypeCorrect, DispatchOrderInvariant, PTL
  DEF Spec, EachCalledOnce

=============================================================================
