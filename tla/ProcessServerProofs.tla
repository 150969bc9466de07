-------------------------- MODULE ProcessServerProofs --------------------------
(***************************************************************************)
(* The process uses the server as Server allows it: main registers routes, *)
(* runs and reloads it through its exported methods only.  What            *)
(* ServerProofs proves of the server therefore holds inside the process,   *)
(* and with it what the exit code means.                                   *)
(***************************************************************************)
EXTENDS ProcessProofs, FiniteSetTheorems

\* The theorems about Server, for the server of the process.
HP == INSTANCE ServerProofs WITH
    Callers <- {"main"}, Timeouts <- ShutdownTimeouts

\* The routes are registered one after the other.
RouteInv ==
    /\ at \in {"load", "build"} => routes = {}
    /\ at = "routes" => routes \in {{}, {"/"}, {"/", "/health"}}

\* The next route that main registers is one of those it has.
LEMMA NextRoute ==
  ASSUME routes \in {{}, {"/"}, {"/", "/health"}}
  PROVE  LET k == Cardinality(routes) IN
         /\ k \in 0..2
         /\ RouteList[k + 1] \in Patterns
         /\ routes \cup {RouteList[k + 1]} = {"/", "/health", "/ready"}
            \/ routes \cup {RouteList[k + 1]} \in {{"/"}, {"/", "/health"}}
<1>1. /\ Cardinality({}) = 0 /\ IsFiniteSet({})
      /\ Cardinality({"/"}) = 1 /\ IsFiniteSet({"/"})
  BY FS_EmptySet, FS_Singleton
<1>2. Cardinality({"/"} \cup {"/health"}) = 2
  BY <1>1, FS_AddElement
<1>3. {"/"} \cup {"/health"} = {"/", "/health"}
  OBVIOUS
<1>4. /\ RouteList[1] = "/" /\ RouteList[2] = "/health" /\ RouteList[3] = "/ready"
      /\ Len(RouteList) = 3
  BY DEF RouteList
<1>5. \A i \in 1..3 : RouteList[i] \in Patterns
  BY <1>4 DEF Patterns
<1>6. CASE routes = {}
  BY <1>1, <1>4, <1>5, <1>6
<1>7. CASE routes = {"/"}
  BY <1>1, <1>4, <1>5, <1>7
<1>8. CASE routes = {"/", "/health"}
  BY <1>2, <1>3, <1>4, <1>5, <1>8
<1> QED BY <1>6, <1>7, <1>8

\* The three routes together are three.
LEMMA AllRoutes == Cardinality({"/", "/health", "/ready"}) = Len(RouteList)
<1>1. IsFiniteSet({"/"}) /\ Cardinality({"/"}) = 1
  BY FS_Singleton
<1>2. IsFiniteSet({"/"} \cup {"/health"}) /\ Cardinality({"/"} \cup {"/health"}) = 2
  BY <1>1, FS_AddElement
<1>3. Cardinality(({"/"} \cup {"/health"}) \cup {"/ready"}) = 3
  BY <1>2, FS_AddElement
<1>4. ({"/"} \cup {"/health"}) \cup {"/ready"} = {"/", "/health", "/ready"}
  OBVIOUS
<1> QED BY <1>3, <1>4 DEF RouteList

\* What does not touch the server.
LEMMA ServerStutters == UNCHANGED serverVars => UNCHANGED Http!vars
BY DEF serverVars, Http!vars, Http!apiVars, Http!runVars, Http!timeVars,
   Http!chanVars, Http!serveVars, Http!stopVars

\* The server leaves its routes alone unless Handle is called.
LEMMA RoutesStay ==
  ASSUME RunServer \/ NetHTTP \/ Terminate
  PROVE  routes' = routes
<1>1. CASE RunServer
  BY <1>1 DEF RunServer, Http!Run, Http!RunAgain, Http!ListenFails, Http!Listen,
     Http!CtxDone, Http!ServeEnds, Http!GracefulShutdown, Http!ShutdownDone,
     Http!DeadlinePasses, Http!ServeDrained, Http!DrainEnds, Http!apiVars
<1>2. CASE NetHTTP
  BY <1>2 DEF NetHTTP, Http!NetHTTP, Http!Tick, Http!ServeStarts,
     Http!AcceptFails, Http!Accept, Http!RequestDone, Http!ShutdownCloses,
     Http!ShutdownWaits, Http!ShutdownReturns, Http!CloseStarts,
     Http!CloseEnds, Http!apiVars
<1>3. CASE Terminate
  BY <1>3 DEF Terminate, Http!Cancel
<1> QED BY <1>1, <1>2, <1>3

\* Every step keeps RouteInv.
LEMMA RouteInvStep ==
  ASSUME RouteInv, [Next]_vars
  PROVE  RouteInv'
<1> USE DEF RouteInv
<1>1. CASE RunServer \/ NetHTTP \/ Terminate
  BY <1>1, ServerAside, RoutesStay DEF mainVars
<1>2. CASE LoadBoot \/ Build
  BY <1>2 DEF LoadBoot, Build, Goto, Exit, serverVars
<1>3. CASE RegisterRoute
  <2>1. /\ routes \in {{}, {"/"}, {"/", "/health"}}
        /\ routes' = routes \cup {RouteList[Cardinality(routes) + 1]}
        /\ at' = IF Cardinality(routes') = Len(RouteList) THEN "reloader" ELSE "routes"
    BY <1>3 DEF RegisterRoute, Goto, Http!Handle
  <2>2. routes' = {"/", "/health", "/ready"} \/ routes' \in {{"/"}, {"/", "/health"}}
    BY <2>1, NextRoute
  <2> QED BY <2>1, <2>2, AllRoutes
<1>4. CASE NewReloader \/ StartReloader
  BY <1>4 DEF NewReloader, StartReloader, Goto, Exit
<1>5. CASE RunReturns \/ StopReloader \/ HangupKills
  BY <1>5 DEF RunReturns, StopReloader, HangupKills, Exit
<1>6. CASE ReleaseHandler
  BY <1>6 DEF ReleaseHandler, serverVars
<1>7. CASE Collect \/ ReadFile \/ FinishRound \/ Hangup \/ FileEvent \/ Edit
  BY <1>7 DEF Collect, ReadFile, FinishRound, Hangup, FileEvent, Edit,
     serverVars, mainVars
<1>8. CASE ApplyLevel \/ ApplyRequestTimeout
  BY <1>8 DEF ApplyLevel, ApplyRequestTimeout, Call, serverVars, mainVars
<1>9. CASE ApplyShutdownTimeout
  BY <1>9 DEF ApplyShutdownTimeout, Call, Http!UpdateShutdownTimeout, serverVars,
     mainVars
<1>10. CASE UNCHANGED vars
  BY <1>10 DEF vars, serverVars, mainVars
<1> QED
  BY <1>1, <1>2, <1>3, <1>4, <1>5, <1>6, <1>7, <1>8, <1>9, <1>10
     DEF Next, Main, Round

\* A valid configuration brings a shutdown timeout that the server takes.
LEMMA ValidTimeout ==
  ASSUME FileInv, NEW v \in good
  PROVE  Config(v).shutdown \in ShutdownTimeouts /\ Config(v).shutdown > 0
<1>1. /\ text[v] \in Contents /\ Config(v).shutdown = Load(text[v]).shutdown
      /\ Config(v).shutdown \in Nat /\ Config(v).shutdown > 0
  BY ValidConfig
<1> QED BY <1>1 DEF ShutdownTimeouts

\* Every step of the process is a step of the server, or leaves it alone.
LEMMA ServerStep ==
  ASSUME ContentInv, RouteInv, [Next]_vars
  PROVE  [Http!Next]_(Http!vars)
<1>1. CASE RunServer
  BY <1>1 DEF RunServer, Http!Next
<1>2. CASE NetHTTP
  BY <1>2 DEF NetHTTP, Http!Next
<1>3. CASE Terminate
  BY <1>3 DEF Terminate, Http!Next
<1>4. CASE RegisterRoute
  <2>1. RouteList[Cardinality(routes) + 1] \in Patterns
    BY <1>4, NextRoute DEF RegisterRoute, RouteInv
  <2> QED BY <1>4, <2>1 DEF RegisterRoute, Http!Next
<1>5. CASE Build
  <2>1. CASE at' = "exit"
    BY <1>5, <2>1 DEF Build, Goto, Exit, Http!vars, Http!apiVars, Http!runVars,
       Http!timeVars, Http!chanVars, Http!serveVars, Http!stopVars
  <2>2. CASE at' # "exit"
    <3>1. running \in good /\ timeout' = Config(running).shutdown
      BY <1>5, <2>2 DEF Build, Goto, Exit, ContentInv, FileInv
    <3>2. Http!UpdateShutdownTimeout(Config(running).shutdown)
      BY <1>5, <3>1, ValidTimeout
      DEF ContentInv, Build, Http!UpdateShutdownTimeout, Http!runVars,
          Http!timeVars, Http!chanVars, Http!serveVars, Http!stopVars
    <3> QED BY <3>1, <3>2, ValidTimeout DEF ContentInv, Http!Next
  <2> QED BY <2>1, <2>2
<1>6. CASE ApplyShutdownTimeout
  <2>1. Call("graceful_shutdown_timeout")
    BY <1>6 DEF ApplyShutdownTimeout
  <2>2. read \in good /\ Applies("graceful_shutdown_timeout", Config(read))
    BY <2>1, CallAdopts, TheSubscribers
  <2>3. Http!UpdateShutdownTimeout(Config(read).shutdown)
    BY <1>6, <2>2 DEF ApplyShutdownTimeout
  <2> QED BY <2>2, <2>3, ValidTimeout DEF ContentInv, Http!Next
<1>7. CASE \/ LoadBoot \/ NewReloader \/ StartReloader \/ RunReturns \/ StopReloader
           \/ Collect \/ ReadFile \/ ApplyLevel \/ ApplyRequestTimeout \/ FinishRound
           \/ Hangup \/ HangupKills \/ ReleaseHandler \/ Edit \/ FileEvent
           \/ UNCHANGED vars
  BY <1>7, ServerStutters
  DEF LoadBoot, NewReloader, StartReloader, RunReturns, StopReloader, Collect,
      ReadFile, ApplyLevel, ApplyRequestTimeout, FinishRound, Hangup, HangupKills,
      ReleaseHandler, Edit, FileEvent, vars
<1> QED
  BY <1>1, <1>2, <1>3, <1>4, <1>5, <1>6, <1>7 DEF Next, Main, Round

LEMMA RouteInvariant == Spec => []RouteInv
<1>1. Init => RouteInv
  BY DEF Init, Http!Init, RouteInv
<1> QED BY <1>1, RouteInvStep, PTL DEF Spec

\* The server of the process behaves as Server says: registering, running and
\* reloading it are all that main.go does to it.
THEOREM ProcessUsesServer == Spec => ServerKept
<1>1. Init => Http!Init
  BY DEF Init
<1>2. Spec => [][Http!Next]_(Http!vars)
  BY ServerStep, RouteInvariant, ContentInvariant, PTL DEF Spec
<1> QED BY <1>1, <1>2, PTL DEF Spec, ServerKept, Http!Spec
-----------------------------------------------------------------------------
(* What is proved of the server holds inside the process.                  *)

\* The shutdown timeouts of valid configurations are positive.
LEMMA PositiveTimeouts == ShutdownTimeouts \subseteq Nat \ {0}
<1>1. \A c \in Contents : Field(c, "shutdown") \in Nat
  BY ContentsAssumption, EnvAssumption, ZeroFields DEF Typed, Field
<1> QED BY <1>1 DEF ShutdownTimeouts, Load

\* Server and ServerProofs describe the same server.
LEMMA SameServer ==
  /\ Http!Init => HP!Init
  /\ [Http!Next]_(Http!vars) => [HP!Next]_(HP!vars)
<1>1. Http!Init => HP!Init
  BY Zenon DEF Http!Init, HP!Init
<1>2. Http!Next => HP!Next
  BY Zenon DEF Http!Next, HP!Next, Http!Run, HP!Run,
     Http!GracefulShutdown, HP!GracefulShutdown, Http!NetHTTP, HP!NetHTTP,
     Http!Handle, HP!Handle,
     Http!UpdateShutdownTimeout, HP!UpdateShutdownTimeout,
     Http!Cancel, HP!Cancel, Http!Tick, HP!Tick, Http!Return, HP!Return,
     Http!RunAgain, HP!RunAgain, Http!ListenFails, HP!ListenFails,
     Http!Listen, HP!Listen, Http!CtxDone, HP!CtxDone,
     Http!ServeEnds, HP!ServeEnds, Http!ShutdownDone, HP!ShutdownDone,
     Http!DeadlinePasses, HP!DeadlinePasses, Http!ServeDrained, HP!ServeDrained,
     Http!DrainEnds, HP!DrainEnds, Http!Ready, HP!Ready,
     Http!ShutdownResult, HP!ShutdownResult, Http!ServeStarts, HP!ServeStarts,
     Http!AcceptFails, HP!AcceptFails, Http!Accept, HP!Accept,
     Http!RequestDone, HP!RequestDone, Http!ShutdownCloses, HP!ShutdownCloses,
     Http!ShutdownWaits, HP!ShutdownWaits,
     Http!ShutdownReturns, HP!ShutdownReturns, Http!CloseStarts, HP!CloseStarts,
     Http!CloseEnds, HP!CloseEnds, Http!apiVars, HP!apiVars,
     Http!runVars, HP!runVars, Http!timeVars, HP!timeVars,
     Http!chanVars, HP!chanVars, Http!serveVars, HP!serveVars,
     Http!stopVars, HP!stopVars, Http!vars, HP!vars
<1>3. UNCHANGED Http!vars => UNCHANGED HP!vars
  BY Zenon DEF Http!vars, HP!vars, Http!apiVars, HP!apiVars, Http!runVars,
     HP!runVars, Http!timeVars, HP!timeVars, Http!chanVars, HP!chanVars,
     Http!serveVars, HP!serveVars, Http!stopVars, HP!stopVars
<1> QED BY <1>1, <1>2, <1>3

\* The process behaves as ServerProofs assumes of a server.
LEMMA ServerOfProcess == Spec => HP!Spec
<1>1. Http!Spec => HP!Spec
  BY SameServer, PTL DEF Http!Spec, HP!Spec
<1>2. Spec => Http!Spec
  BY ProcessUsesServer DEF ServerKept
<1> QED BY <1>1, <1>2, PTL

\* Types, a nil from Run, its deadline and the phases of a shutdown, for the
\* server of the process.
LEMMA ServerInside ==
  Spec => [](HP!TypeOK /\ HP!PhaseInv /\ HP!NilIsGraceful /\ HP!DeadlineKept)
<1>1. HP!Spec => [](HP!TypeOK /\ HP!OneRun /\ HP!PhaseInv /\ HP!QuietInv
                    /\ HP!DeadlineInv)
  BY PositiveTimeouts, HP!Invariant
<1>2. HP!Spec => []HP!NilIsGraceful
  BY PositiveTimeouts, HP!NilMeansGraceful
<1>3. HP!Spec => []HP!DeadlineKept
  BY PositiveTimeouts, HP!ShutdownInTime
<1> QED BY <1>1, <1>2, <1>3, ServerOfProcess, PTL

\* Seen from a client of the network, the process is the server of
\* ServerService: what main, its reloads and its signals do to the server is
\* covered by that contract (main.go, server.go).
THEOREM ProcessServesAsPromised == Spec => HP!ImplementsService
<1>1. HP!Spec => HP!ImplementsService
  BY PositiveTimeouts, HP!ServerImplementsService
<1> QED BY <1>1, ServerOfProcess, PTL

\* In the process, too, a shutdown that has begun has so many steps of Run and
\* of the clock before it: each takes it nearer to its return, and no reload of
\* the timeout puts it off.
THEOREM ProcessShutdownBounded == Spec => HP!ShutdownBounded
<1>1. HP!Spec => HP!ShutdownBounded
  BY PositiveTimeouts, HP!ShutdownEndsInBound
<1> QED BY <1>1, ServerOfProcess, PTL

-----------------------------------------------------------------------------
(* The exit code.                                                          *)

\* An exit code other than that of a failed boot, or of a kill, is what Run
\* has returned, and nothing runs the server again.
ExitInv ==
    /\ at \notin {"stop", "exit"} => exitCode = "none"
    /\ exitCode = "ok" => outcome["main"] = "nil"
    /\ exitCode = "shutdownTimeout" => outcome["main"] = "shutdownTimeout"

\* Outside Run nobody changes what Run returned.
LEMMA OutcomeStays ==
  ASSUME [Next]_vars, ~RunServer
  PROVE  outcome' = outcome
<1>1. CASE NetHTTP
  BY <1>1 DEF NetHTTP, Http!NetHTTP, Http!Tick, Http!ServeStarts,
     Http!AcceptFails, Http!Accept, Http!RequestDone, Http!ShutdownCloses,
     Http!ShutdownWaits, Http!ShutdownReturns, Http!CloseStarts,
     Http!CloseEnds, Http!runVars
<1>2. CASE Terminate
  BY <1>2 DEF Terminate, Http!Cancel, Http!runVars
<1>3. CASE RegisterRoute
  BY <1>3 DEF RegisterRoute, Http!Handle, Http!runVars
<1>4. CASE Build
  BY <1>4 DEF Build
<1>5. CASE ApplyShutdownTimeout
  BY <1>5 DEF ApplyShutdownTimeout, Http!UpdateShutdownTimeout, Http!runVars,
     serverVars
<1>6. CASE \/ LoadBoot \/ NewReloader \/ StartReloader \/ RunReturns \/ StopReloader
           \/ Collect \/ ReadFile \/ ApplyLevel \/ ApplyRequestTimeout \/ FinishRound
           \/ Hangup \/ HangupKills \/ ReleaseHandler \/ Edit \/ FileEvent
           \/ UNCHANGED vars
  BY <1>6
  DEF LoadBoot, NewReloader, StartReloader, RunReturns, StopReloader, Collect,
      ReadFile, ApplyLevel, ApplyRequestTimeout, FinishRound, Hangup, HangupKills,
      ReleaseHandler, Edit, FileEvent, vars, serverVars
<1> QED BY <1>1, <1>2, <1>3, <1>4, <1>5, <1>6 DEF Next, Main, Round

\* Every step keeps ExitInv.
LEMMA ExitInvStep ==
  ASSUME ExitInv, [Next]_vars
  PROVE  ExitInv'
<1>1. CASE RunServer
  <2>1. at = "run" /\ at' = at /\ exitCode' = exitCode
    BY <1>1, ServerAside DEF RunServer, mainVars
  <2> QED BY <2>1 DEF ExitInv
<1>2. CASE RunReturns
  BY <1>2, OutcomeStays DEF RunReturns, RunServer, ExitCodeOf, ExitInv
<1>3. CASE ~RunServer /\ ~RunReturns
  <2>1. \/ at' = at /\ exitCode' = exitCode
        \/ at' = "exit" /\ exitCode' \in {"error", "killed", exitCode}
        \/ at \notin {"stop", "exit"} /\ exitCode' = exitCode
    <3>1. CASE NetHTTP \/ Terminate
      BY <3>1, ServerAside DEF mainVars
    <3>2. CASE \/ LoadBoot \/ Build \/ RegisterRoute \/ NewReloader \/ StartReloader
               \/ StopReloader \/ HangupKills
      BY <3>2 DEF LoadBoot, Build, RegisterRoute, NewReloader, StartReloader,
         StopReloader, HangupKills, Goto, Exit
    <3>3. CASE \/ Collect \/ ReadFile \/ ApplyLevel \/ ApplyRequestTimeout
               \/ ApplyShutdownTimeout \/ FinishRound \/ Hangup \/ ReleaseHandler
               \/ Edit \/ FileEvent \/ UNCHANGED vars
      BY <3>3 DEF Collect, ReadFile, ApplyLevel, ApplyRequestTimeout,
         ApplyShutdownTimeout, Call, FinishRound, Hangup, ReleaseHandler, Edit,
         FileEvent, vars, mainVars
    <3> QED BY <1>3, <3>1, <3>2, <3>3 DEF Next, Main, Round
  <2>2. outcome' = outcome
    BY <1>3, OutcomeStays
  <2> QED BY <2>1, <2>2 DEF ExitInv
<1> QED BY <1>1, <1>2, <1>3

\* Exit code 0 means a complete drain after a signal, 2 that the whole timeout
\* has passed (the exit codes of main.go), for any contents of the file.
THEOREM ExitCodesAreTrue == Spec => []ExitCodeTrue
<1>1. Init => ExitInv
  BY DEF Init, ExitInv
<1>2. Spec => []ExitInv
  BY <1>1, ExitInvStep, PTL DEF Spec
<1>3. ASSUME ExitInv, HP!TypeOK, HP!PhaseInv, HP!NilIsGraceful, HP!DeadlineKept
      PROVE  ExitCodeTrue
  <2>1. outcome["main"] = "nil" =>
          /\ cancelled /\ active = {}
          /\ serve # "accept" /\ (serve = "start" => inShutdown)
    BY <1>3 DEF HP!NilIsGraceful
  <2>2. outcome["main"] = "shutdownTimeout" =>
          cancelled /\ elapsed = granted /\ granted > 0
    BY <1>3 DEF HP!DeadlineKept, HP!PhaseInv
  <2> QED BY <1>3, <2>1, <2>2 DEF ExitInv, ExitCodeTrue
<1> QED BY <1>2, <1>3, ServerInside, PTL

-----------------------------------------------------------------------------
(* A shutdown takes the newest timeout.                                    *)

\* The server holds the timeout of the configuration its subscriber adopted
\* last, in the middle of a round too.
TimeoutInv ==
    Booted => timeout = Config(inForce["graceful_shutdown_timeout"]).shutdown

\* Every step keeps TimeoutInv.
LEMMA TimeoutInvStep ==
  ASSUME ContentInv, TimeoutInv, [Next]_vars
  PROVE  TimeoutInv'
<1> USE DEF TimeoutInv, Booted, Config
<1>1. CASE RunServer \/ NetHTTP \/ Terminate
  BY <1>1, ServerAside, ContextStays DEF reloadVars, mainVars
<1>2. CASE LoadBoot
  BY <1>2 DEF LoadBoot, Goto, Exit
<1>3. CASE Build
  <2>1. CASE at' = "exit"
    BY <2>1
  <2>2. CASE at' # "exit"
    <3>1. /\ inForce' = [s \in SubNames |-> running]
          /\ timeout' = Config(running).shutdown
          /\ running \in good /\ text' = text
      BY <1>3, <2>2 DEF Build, Goto, Exit, ContentInv, FileInv
    <3> QED BY <3>1, ValidApplies, TheSubscribers DEF ContentInv
  <2> QED BY <2>1, <2>2
<1>4. CASE RegisterRoute
  BY <1>4 DEF RegisterRoute, Goto, Http!Handle, reloadVars
<1>5. CASE NewReloader \/ StartReloader \/ RunReturns \/ HangupKills \/ ReleaseHandler
  BY <1>5 DEF NewReloader, StartReloader, RunReturns, HangupKills, Alive,
     ReleaseHandler, Goto, Exit, reloadVars, serverVars
<1>6. CASE StopReloader
  BY <1>6 DEF StopReloader, Exit
<1>7. CASE Hangup \/ FileEvent \/ Collect \/ Edit \/ ReadFile \/ FinishRound
  BY <1>7 DEF Hangup, FileEvent, Collect, Edit, ReadFile, FinishRound,
     Reload!Request, Reload!Collect, Reload!Edit, Reload!Read, Reload!Finish,
     serverVars, mainVars
<1>8. CASE ApplyLevel \/ ApplyRequestTimeout
  <2>1. PICK s \in SubNames \ {"graceful_shutdown_timeout"} : Call(s)
    BY <1>8, TheSubscribers DEF ApplyLevel, ApplyRequestTimeout
  <2>2. inForce' = [inForce EXCEPT ![s] = read]
    BY <2>1, CallAdopts DEF Reload!Adopt
  <2> QED
    BY <1>8, <2>1, <2>2, TheSubscribers DEF ApplyLevel, ApplyRequestTimeout, Call,
       ContentInv, FileInv, serverVars, mainVars
<1>9. CASE ApplyShutdownTimeout
  <2>1. Call("graceful_shutdown_timeout")
    BY <1>9 DEF ApplyShutdownTimeout
  <2>2. /\ read \in good
        /\ Applies("graceful_shutdown_timeout", Config(read))
        /\ inForce' = [inForce EXCEPT !["graceful_shutdown_timeout"] = read]
    BY <2>1, CallAdopts, TheSubscribers DEF Reload!Adopt
  <2>3. timeout' = Config(read).shutdown /\ text' = text
    BY <1>9, <2>1, <2>2 DEF ApplyShutdownTimeout, Call, Http!UpdateShutdownTimeout,
       mainVars
  <2> QED
    BY <2>2, <2>3, ValidApplies, TheSubscribers DEF ContentInv, FileInv
<1>10. CASE UNCHANGED vars
  BY <1>10 DEF vars, reloadVars, serverVars, mainVars
<1> QED
  BY <1>1, <1>2, <1>3, <1>4, <1>5, <1>6, <1>7, <1>8, <1>9, <1>10
     DEF Next, Main, Round

\* Only the ctx.Done of Run's select takes the server from its first select to
\* a shutdown.
LEMMA ShutdownBegins ==
  ASSUME HP!TypeOK, [Next]_vars, pc["main"] = "select", pc'["main"] = "shutdown"
  PROVE  at = "run" /\ granted' = timeout
<1>1. CASE RunServer
  BY <1>1 DEF RunServer, Http!Run, Http!RunAgain, Http!ListenFails, Http!Listen,
     Http!CtxDone, Http!ServeEnds, Http!GracefulShutdown, Http!ShutdownDone,
     Http!DeadlinePasses, Http!ServeDrained, Http!DrainEnds, Http!Return, HP!TypeOK
<1>2. CASE ~RunServer
  <2>1. CASE NetHTTP
    BY <2>1 DEF NetHTTP, Http!NetHTTP, Http!Tick, Http!ServeStarts,
       Http!AcceptFails, Http!Accept, Http!RequestDone, Http!ShutdownCloses,
       Http!ShutdownWaits, Http!ShutdownReturns, Http!CloseStarts,
       Http!CloseEnds, Http!runVars
  <2>2. CASE Terminate \/ RegisterRoute \/ Build
    BY <2>2 DEF Terminate, Http!Cancel, RegisterRoute, Http!Handle, Build,
       Http!runVars
  <2>3. CASE ApplyShutdownTimeout
    BY <2>3 DEF ApplyShutdownTimeout, Http!UpdateShutdownTimeout, Http!runVars,
       serverVars
  <2>4. CASE \/ LoadBoot \/ NewReloader \/ StartReloader \/ RunReturns
             \/ StopReloader \/ Collect \/ ReadFile \/ ApplyLevel
             \/ ApplyRequestTimeout \/ FinishRound \/ Hangup \/ HangupKills
             \/ ReleaseHandler \/ Edit \/ FileEvent \/ UNCHANGED vars
    BY <2>4
    DEF LoadBoot, NewReloader, StartReloader, RunReturns, StopReloader, Collect,
        ReadFile, ApplyLevel, ApplyRequestTimeout, FinishRound, Hangup,
        HangupKills, ReleaseHandler, Edit, FileEvent, vars, serverVars
  <2> QED BY <1>2, <2>1, <2>2, <2>3, <2>4 DEF Next, Main, Round
<1> QED BY <1>1, <1>2

\* A shutdown is given the timeout of the newest configuration handed to the
\* server, whenever SIGTERM arrives (server_subscriber.go, gracefulShutdown).
THEOREM ShutdownTakesTheNewest == Spec => ShutdownHonoursReload
<1>1. Init => TimeoutInv
  BY DEF Init, TimeoutInv, Booted
<1>2. Spec => []TimeoutInv
  BY <1>1, TimeoutInvStep, ContentInvariant, PTL DEF Spec
<1>3. ASSUME TimeoutInv, HP!TypeOK, [Next]_vars
      PROVE  [pc["main"] = "select" /\ pc'["main"] = "shutdown" =>
                granted' = Config(inForce["graceful_shutdown_timeout"]).shutdown]_vars
  BY <1>3, ShutdownBegins DEF TimeoutInv, Booted
<1> QED BY <1>2, <1>3, ServerInside, PTL DEF Spec, ShutdownHonoursReload

-----------------------------------------------------------------------------
(* Types.                                                                  *)

\* The types of what is neither the server's nor the content of the file.
MainTypes ==
    /\ pending \subseteq SourceNames /\ phase \in {"idle", "taken", "read"}
    /\ read \in 0..file /\ inForce \in [SubNames -> 0..file]
    /\ closed \in BOOLEAN
    /\ at \in {"load", "build", "routes", "reloader", "start", "run", "stop", "exit"}
    /\ exitCode \in {"none", "ok", "error", "shutdownTimeout", "killed"}
    /\ running \in 0..file /\ baseline \in 0..file
    /\ warned \in BOOLEAN /\ level \in Levels /\ request \in Nat
    /\ handler \in BOOLEAN /\ (handler => "sighup" \in SourceNames)

\* The level and the request timeout of a valid configuration.
LEMMA ValidTypes ==
  ASSUME FileInv, NEW v \in good
  PROVE  /\ Config(v).level.name \in Levels /\ Config(v).request \in Nat
         /\ v \in 0..file
BY WritesAssumption, ValidConfig DEF FileInv

\* Every step keeps MainTypes.
LEMMA MainTypesStep ==
  ASSUME ContentInv, MainTypes, HP!TypeOK, [Next]_vars
  PROVE  MainTypes'
<1>0. file \in Nat
  BY WritesAssumption DEF ContentInv, FileInv
<1> USE DEF MainTypes
<1>1. CASE RunServer \/ NetHTTP \/ Terminate
  BY <1>1, ServerAside DEF reloadVars, roundVars, mainVars
<1>2. CASE LoadBoot \/ NewReloader
  BY <1>0, <1>2 DEF LoadBoot, NewReloader, Goto, Exit, reloadVars, roundVars
<1>3. CASE StartReloader
  <2>1. handler' \in BOOLEAN /\ (handler' => "sighup" \in SourceNames)
    <3>1. ("sighup" \in SourceNames) \in BOOLEAN
      OBVIOUS
    <3>2. CASE handler' = ("sighup" \in SourceNames)
      <4>1. handler' \in BOOLEAN
        BY Zenon, <3>1, <3>2
      <4>2. handler' => "sighup" \in SourceNames
        BY <3>2
      <4> QED BY <4>1, <4>2
    <3>3. CASE handler' = handler
      BY <3>3
    <3> QED BY <1>3, <3>2, <3>3 DEF StartReloader
  <2> QED BY <1>3, <2>1 DEF StartReloader, Goto, Exit, reloadVars, roundVars
<1>4. CASE Build
  <2>1. running \in good
    BY <1>4 DEF Build, ContentInv, FileInv
  <2> QED BY <1>0, <1>4, <2>1, ValidTypes DEF Build, Goto, Exit, ContentInv
<1>5. CASE RegisterRoute
  BY <1>5 DEF RegisterRoute, Goto, reloadVars, roundVars
<1>6. CASE RunReturns
  BY <1>6 DEF RunReturns, ExitCodeOf, reloadVars, roundVars
<1>14. CASE HangupKills
  BY <1>14 DEF HangupKills, Exit, reloadVars, roundVars
<1>15. CASE ReleaseHandler
  <2>1. handler' \in BOOLEAN /\ (handler' => "sighup" \in SourceNames)
    BY <1>15 DEF ReleaseHandler
  <2> QED BY <1>15, <2>1 DEF ReleaseHandler, reloadVars, roundVars
<1>7. CASE StopReloader
  BY <1>7 DEF StopReloader, Exit, Reload!Close, roundVars
<1>8. CASE Hangup \/ FileEvent
  BY <1>8 DEF Hangup, FileEvent, Reload!Request, roundVars, mainVars
<1>9. CASE Collect \/ FinishRound
  BY <1>9 DEF Collect, FinishRound, Reload!Collect, Reload!Finish, roundVars, mainVars
<1>10. CASE ReadFile
  <2>1. warned' \in BOOLEAN
    BY Zenon, <1>10 DEF ReadFile, RestartRequired
  <2> QED BY <1>0, <1>10, <2>1 DEF ReadFile, Reload!Read, mainVars
<1>11. CASE Edit
  BY <1>0, <1>11 DEF Edit, Reload!Edit, roundVars, mainVars
<1>12. CASE ApplyLevel \/ ApplyRequestTimeout \/ ApplyShutdownTimeout
  <2>1. PICK s \in SubNames : Call(s)
    BY <1>12, TheSubscribers DEF ApplyLevel, ApplyRequestTimeout,
       ApplyShutdownTimeout
  <2>2. /\ read \in good /\ inForce' = [inForce EXCEPT ![s] = read]
        /\ UNCHANGED <<file, pending, phase, read, closed>>
    BY <2>1, CallAdopts DEF Reload!Adopt
  <2>3. level' \in Levels /\ request' \in Nat
    BY <1>12, <2>2, ValidTypes DEF ApplyLevel, ApplyRequestTimeout,
       ApplyShutdownTimeout, ContentInv
  <2> QED BY <1>0, <2>1, <2>2, <2>3 DEF Call, mainVars
<1>13. CASE UNCHANGED vars
  BY <1>13 DEF vars, reloadVars, roundVars, mainVars
<1> QED
  BY <1>1, <1>2, <1>3, <1>4, <1>5, <1>6, <1>7, <1>8, <1>9, <1>10, <1>11,
     <1>12, <1>13, <1>14, <1>15 DEF Next, Main, Round

\* What a round has still to call is an end of SubList.
LEMMA TheEnds ==
  ASSUME NEW i \in 0..3
  PROVE  After(i) \in {SubSeq(SubList, k, Len(SubList)) : k \in 1..Len(SubList) + 1}
<1>1. Len(SubList) = 3
  BY DEF SubList
<1>2. After(i) = SubSeq(SubList, i + 1, 3)
  <2>1. CASE i = 0
    BY <2>1 DEF After, SubList
  <2>2. CASE i = 1
    BY <2>2 DEF After, SubList
  <2>3. CASE i = 2
    BY <2>3 DEF After, SubList
  <2>4. CASE i = 3
    BY <2>4 DEF After, SubList
  <2> QED BY <2>1, <2>2, <2>3, <2>4
<1> QED BY <1>1, <1>2

\* Types of the whole process.
THEOREM ProcessTypeCorrect == Spec => []TypeOK
<1>1. Init => MainTypes
  BY WritesAssumption DEF Init, MainTypes, Levels
<1>2. Spec => [](MainTypes /\ ContentInv /\ HP!TypeOK)
  BY <1>1, MainTypesStep, ContentInvariant, ServerInside, PTL DEF Spec
<1>3. ASSUME MainTypes, ContentInv, HP!TypeOK
      PROVE  TypeOK
  <2>1. Http!TypeOK
    BY <1>3 DEF HP!TypeOK, Http!TypeOK
  <2>2. calls \in {SubSeq(SubList, i, Len(SubList)) : i \in 1..Len(SubList) + 1}
    <3>1. PICK i \in 0..3 : calls = After(i)
      BY <1>3 DEF ContentInv, AgreeInv, RoundInv, After
    <3> QED BY <3>1, TheEnds
  <2> QED BY <1>3, <2>1, <2>2 DEF MainTypes, ContentInv, FileInv, TypeOK
<1> QED BY <1>2, <1>3, PTL

=============================================================================
