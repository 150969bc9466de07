------------------------------- MODULE Process -------------------------------
(***************************************************************************)
(* The process of cmd/server: runCore boots the components, starts the     *)
(* hot reload, serves until the context is cancelled and stops the reload  *)
(* on its way out.  It composes Server with ReloadService, the promise     *)
(* that Reloader keeps, and with the three subscribers main registers.     *)
(*                                                                         *)
(* A configuration has the four fields that the process tells apart:       *)
(* log.level, server.request_timeout, server.graceful_shutdown_timeout and *)
(* port, which stands for every field that needs a restart.  The file need *)
(* not have all of them, and the environment may set some.  A level is a   *)
(* name and whether it is spelled the way parseLevel wants it; 0 stands    *)
(* for every number that is not positive.                                  *)
(***************************************************************************)
EXTENDS Naturals, Sequences, FiniteSets

CONSTANTS
    Contents,     \* what the file may say: records of some of the Fields
    Env,          \* what the environment says: such a record
    Torn,         \* a file that Load cannot read
    Requests,     \* requests to the server
    SourceNames,  \* reload.sources
    FileWatchMayFail,
    MaxWrites     \* bound: the number of times the file is rewritten

Levels   == {"debug", "info", "warn", "error"}
Names    == Levels \cup {"other"}   \* "other": what Validate refuses, and no name
SubList  == <<"log_level", "request_timeout", "graceful_shutdown_timeout">>
SubNames == {SubList[i] : i \in 1..Len(SubList)}
RouteList == <<"/", "/health", "/ready">>
Patterns == {RouteList[i] : i \in 1..Len(RouteList)}

\* What the keys of c are mapped to.
Typed(c) ==
    /\ DOMAIN c \subseteq {"level", "request", "shutdown", "port"}
    /\ "level" \in DOMAIN c => c.level \in [name : Names, exact : BOOLEAN]
    /\ \A f \in DOMAIN c \ {"level"} : c[f] \in Nat

ASSUME ContentsAssumption ==
    /\ \A c \in Contents : Typed(c)
    /\ Torn \notin Contents
ASSUME EnvAssumption == Typed(Env)
ASSUME SourceNamesAssumption == SourceNames \subseteq {"sighup", "file"}
ASSUME FlagAssumption == FileWatchMayFail \in BOOLEAN
ASSUME WritesAssumption == MaxWrites \in Nat

VARIABLES
    \* the reload service
    file, good, pending, phase, read, inForce, closed,
    \* the server
    started, routes, timeout, cancelled, pc, outcome, granted, left,
    shutdownErr, serveErrCh, shutdownDoneCh, serve, inShutdown, closeFails,
    active, shutting, closing, elapsed, lnFailed,
    \* the process
    text,        \* text[v]: what version v of the file says
    at,          \* where runCore is
    exitCode,
    running,     \* the version runCore loaded: cfg
    baseline,    \* the version NewReloader loaded: bootCfg
    calls,       \* subscribers the round under way has still to call
    warned,      \* the last round reported restart-required changes
    level,       \* zerolog's global level
    request,     \* RequestTimeoutConfig.timeoutNanos
    handler      \* SIGHUP is caught

reloadVars == <<file, good, pending, phase, read, inForce, closed>>
serverVars == <<started, routes, timeout, cancelled, pc, outcome, granted,
                left, shutdownErr, serveErrCh, shutdownDoneCh, serve,
                inShutdown, closeFails, active, shutting, closing, elapsed,
                lnFailed>>
mainVars  == <<text, at, exitCode, running, baseline, handler>>
roundVars == <<calls, warned, level, request>>
vars == <<reloadVars, serverVars, mainVars, roundVars>>

-----------------------------------------------------------------------------
(* The configuration.                                                      *)

\* A key that the file does not have.
Zero == [level |-> [name |-> "other", exact |-> TRUE], request |-> 0, shutdown |-> 0,
         port |-> 0]

\* Mutant: the file is asked first.
FieldOfFile(c, f) ==
    IF f \in DOMAIN c THEN c[f] ELSE IF f \in DOMAIN Env THEN Env[f] ELSE Zero[f]

\* The environment is bound to the keys of the file only: it overrides what is
\* there and adds nothing.
Field(c, f) ==
    IF f \notin DOMAIN c THEN Zero[f] ELSE IF f \in DOMAIN Env THEN Env[f] ELSE c[f]

Load(c) == [level |-> Field(c, "level"), request |-> Field(c, "request"),
            shutdown |-> Field(c, "shutdown"), port |-> Field(c, "port")]

MaxPort == 65535

\* Mutant: request_timeout is not validated.
ValidForgetsRequest(c) ==
    /\ c # Torn
    /\ Load(c).port \in 1..MaxPort /\ Load(c).shutdown > 0
    /\ Load(c).level.name \in Levels

\* Load and Validate accept the file.
Valid(c) ==
    /\ c # Torn
    /\ Load(c).port \in 1..MaxPort
    /\ Load(c).shutdown > 0 /\ Load(c).request > 0
    /\ Load(c).level.name \in Levels

\* What Validate makes of a configuration it accepts.
Normalised(c) == [c EXCEPT !.level.exact = TRUE]

Config(v) == Normalised(Load(text[v]))

\* graceful_shutdown_timeout as the server is given it.
ShutdownTimeouts == {Load(c).shutdown : c \in Contents} \ {0}

\* parseLevel matches strictly.
ParsesLevel(c) == c.level.exact /\ c.level.name \in Levels

\* The checks each Apply makes itself.
Applies(s, c) ==
    CASE s = "log_level"       -> ParsesLevel(c)
      [] s = "request_timeout" -> c.request > 0
      [] OTHER                 -> c.shutdown > 0

\* warnRestartRequired: c differs from the baseline b in a field that no
\* subscriber can apply.
RestartRequired(b, c) == b.port # c.port

-----------------------------------------------------------------------------
(* The components.                                                         *)

Reload == INSTANCE ReloadService WITH Sources <- SourceNames
Http   == INSTANCE Server WITH
    Callers <- {"main"}, Timeouts <- ShutdownTimeouts

-----------------------------------------------------------------------------
Init ==
    /\ text \in [0..MaxWrites -> Contents \cup {Torn}]
    /\ file = 0 /\ good = {v \in {0} : Valid(text[v])}
    /\ pending = {} /\ phase = "idle" /\ read = 0
    /\ inForce = [s \in SubNames |-> 0] /\ closed = FALSE
    /\ Http!Init
    /\ at = "load" /\ exitCode = "none" /\ running = 0 /\ baseline = 0
    /\ calls = <<>> /\ warned = FALSE
    /\ level = "info" /\ request = 0 /\ handler = FALSE

-----------------------------------------------------------------------------
(* runCore.                                                                *)

Goto(label) == at' = label /\ exitCode' = exitCode

Exit(code) == at' = "exit" /\ exitCode' = code

\* config.Load and Validate, the first time.
LoadBoot ==
    /\ at = "load"
    /\ running' = file
    /\ IF file \in good THEN Goto("build") ELSE Exit("error")
    /\ UNCHANGED <<reloadVars, serverVars, roundVars, text, baseline, handler>>

\* logger.New, the boot call of the level subscriber, server.New and
\* NewRequestTimeoutConfig.
Build ==
    /\ at = "build"
    /\ IF \A s \in SubNames : Applies(s, Config(running))
       THEN /\ Goto("routes")
            /\ level' = Config(running).level.name
            /\ request' = Config(running).request
            /\ timeout' = Config(running).shutdown
            /\ inForce' = [s \in SubNames |-> running]
       ELSE /\ Exit("error")
            /\ UNCHANGED <<level, request, timeout, inForce>>
    /\ UNCHANGED <<file, good, pending, phase, read, closed, started, routes,
                   cancelled, pc, outcome, granted, left, shutdownErr,
                   serveErrCh, shutdownDoneCh, serve, inShutdown, closeFails,
                   active, shutting, closing, elapsed, lnFailed, text, running,
                   baseline, handler, calls, warned>>

RegisterRoute ==
    /\ at = "routes"
    /\ Http!Handle(RouteList[Cardinality(routes) + 1])
    /\ Goto(IF Cardinality(routes') = Len(RouteList) THEN "reloader" ELSE "routes")
    /\ UNCHANGED <<reloadVars, roundVars, text, running, baseline, handler>>

\* The file is loaded and validated a second time.
NewReloader ==
    /\ at = "reloader"
    /\ baseline' = file
    /\ IF file \in good THEN Goto("start") ELSE Exit("error")
    /\ UNCHANGED <<reloadVars, serverVars, roundVars, text, running, handler>>

\* Start of the reloader fails only at the file watcher, and cleans up.
StartReloader ==
    /\ at = "start"
    /\ \/ /\ Goto("run")
          /\ handler' = ("sighup" \in SourceNames)
       \/ /\ FileWatchMayFail /\ "file" \in SourceNames
          /\ Exit("error")
          /\ UNCHANGED handler
    /\ UNCHANGED <<reloadVars, serverVars, roundVars, text, running, baseline>>

\* main calls Run once.
RunServer ==
    /\ at = "run" /\ outcome["main"] = "none"
    /\ Http!Run("main")
    /\ UNCHANGED <<reloadVars, roundVars, mainVars>>

ExitCodeOf(err) ==
    CASE err = "nil"             -> "ok"
      [] err = "shutdownTimeout" -> "shutdownTimeout"
      [] OTHER                   -> "error"

\* Mutant: os.Exit in the error branch skips the deferred Stop.
RunReturnsFatal ==
    /\ at = "run" /\ outcome["main"] # "none"
    /\ exitCode' = ExitCodeOf(outcome["main"])
    /\ at' = IF exitCode' = "error" THEN "exit" ELSE "stop"
    /\ UNCHANGED <<reloadVars, serverVars, roundVars, text, running, baseline,
                   handler>>

\* Mutant: the codes of a timeout and of a success are the same.
RunReturnsOK ==
    /\ at = "run" /\ outcome["main"] # "none"
    /\ at' = "stop"
    /\ exitCode' = IF outcome["main"] = "serveFailed" THEN "error" ELSE "ok"
    /\ UNCHANGED <<reloadVars, serverVars, roundVars, text, running, baseline,
                   handler>>

\* Mutant: what Run returned is passed on as it is.
RunReturnsRaw ==
    /\ at = "run" /\ outcome["main"] # "none"
    /\ at' = "stop"
    /\ exitCode' = outcome["main"]
    /\ UNCHANGED <<reloadVars, serverVars, roundVars, text, running, baseline,
                   handler>>

\* The switch over what Run returned.
RunReturns ==
    /\ at = "run" /\ outcome["main"] # "none"
    /\ at' = "stop"
    /\ exitCode' = ExitCodeOf(outcome["main"])
    /\ UNCHANGED <<reloadVars, serverVars, roundVars, text, running, baseline,
                   handler>>

\* The deferred Stop waits for the round under way; then the process ends.
StopReloader ==
    /\ at = "stop"
    /\ Reload!Close
    /\ Exit(exitCode)
    /\ UNCHANGED <<serverVars, roundVars, text, running, baseline, handler>>

-----------------------------------------------------------------------------
(* Signals and the file.                                                   *)

Alive == at # "exit"

\* SIGINT or SIGTERM; signal.NotifyContext cancels the context once.
Terminate ==
    /\ Alive
    /\ Http!Cancel
    /\ UNCHANGED <<reloadVars, roundVars, mainVars>>

\* Mutant: the handler of SIGHUP is installed only for the first signal.
HangupOnce ==
    /\ Alive
    /\ handler
    /\ Reload!Request("sighup")
    /\ handler' = FALSE
    /\ UNCHANGED <<serverVars, roundVars, text, at, exitCode, running, baseline>>

\* Caught by the trigger of the reloader.
Hangup ==
    /\ Alive
    /\ handler
    /\ Reload!Request("sighup")
    /\ UNCHANGED <<serverVars, roundVars, mainVars>>

\* Not caught: the default action ends the process.
HangupKills ==
    /\ Alive
    /\ ~handler
    /\ Exit("killed")
    /\ UNCHANGED <<reloadVars, serverVars, roundVars, text, running, baseline,
                   handler>>

\* signal.Stop in the trigger goroutine, once the reloader is stopping.
ReleaseHandler ==
    /\ Alive
    /\ handler /\ (cancelled \/ at = "stop")
    /\ handler' = FALSE
    /\ UNCHANGED <<reloadVars, serverVars, roundVars, text, at, exitCode,
                   running, baseline>>

Edit ==
    /\ Alive /\ file < MaxWrites
    /\ Reload!Edit
    /\ good' = IF Valid(text[file + 1]) THEN good \cup {file + 1} ELSE good
    /\ UNCHANGED <<serverVars, roundVars, mainVars>>

-----------------------------------------------------------------------------
(* Rounds of the reloader, from Start to the end of Stop.                  *)

Reloading == at \in {"run", "stop"}

FileEvent ==
    /\ Reloading /\ file > 0
    /\ "file" \in SourceNames
    /\ Reload!Request("file")
    /\ UNCHANGED <<serverVars, roundVars, mainVars>>

Collect ==
    /\ Reloading
    /\ Reload!Collect
    /\ UNCHANGED <<serverVars, roundVars, mainVars>>

\* Mutant: the changes are reported against what is in force.
ReadFileAgainstLast ==
    /\ Reloading
    /\ Reload!Read
    /\ IF file \in good
       THEN /\ calls' = SubList
            /\ warned' = RestartRequired(Config(inForce["log_level"]), Config(file))
       ELSE UNCHANGED <<calls, warned>>
    /\ UNCHANGED <<serverVars, mainVars, level, request>>

\* Load, Validate and warnRestartRequired.
ReadFile ==
    /\ Reloading
    /\ Reload!Read
    /\ IF file \in good
       THEN /\ calls' = SubList
            /\ warned' = RestartRequired(Config(baseline), Config(file))
       ELSE UNCHANGED <<calls, warned>>
    /\ UNCHANGED <<serverVars, mainVars, level, request>>

\* The next subscriber is called; one that refuses keeps what it has.
Call(s) ==
    /\ Reloading /\ calls # <<>>
    /\ s = Head(calls)
    /\ calls' = Tail(calls)
    /\ IF Applies(s, Config(read)) THEN Reload!Adopt(s) ELSE UNCHANGED reloadVars
    /\ UNCHANGED <<mainVars, warned>>

ApplyLevel ==
    /\ Call("log_level")
    /\ level' = IF Applies("log_level", Config(read))
                THEN Config(read).level.name ELSE level
    /\ UNCHANGED <<serverVars, request>>

ApplyRequestTimeout ==
    /\ Call("request_timeout")
    /\ request' = IF Applies("request_timeout", Config(read))
                  THEN Config(read).request ELSE request
    /\ UNCHANGED <<serverVars, level>>

\* Mutant: the new timeout is not handed to the server.
ApplyShutdownTimeoutForgets ==
    /\ Call("graceful_shutdown_timeout")
    /\ UNCHANGED <<serverVars, level, request>>

\* Mutant: the reload also moves the deadline of a shutdown under way.
ApplyShutdownTimeoutExtends ==
    /\ Call("graceful_shutdown_timeout")
    /\ IF Applies("graceful_shutdown_timeout", Config(read))
       THEN /\ timeout' = Config(read).shutdown
            /\ granted' = IF granted > 0 THEN timeout' ELSE 0
            /\ left' = IF left > 0 THEN timeout' ELSE left
            /\ UNCHANGED <<started, routes, cancelled, pc, outcome, shutdownErr,
                           serveErrCh, shutdownDoneCh, serve, inShutdown,
                           closeFails, active, shutting, closing, elapsed,
                           lnFailed>>
       ELSE UNCHANGED serverVars
    /\ UNCHANGED <<level, request>>

ApplyShutdownTimeout ==
    /\ Call("graceful_shutdown_timeout")
    /\ IF Applies("graceful_shutdown_timeout", Config(read))
       THEN Http!UpdateShutdownTimeout(Config(read).shutdown)
       ELSE UNCHANGED serverVars
    /\ UNCHANGED <<level, request>>

FinishRound ==
    /\ Reloading /\ calls = <<>>
    /\ Reload!Finish
    /\ UNCHANGED <<serverVars, roundVars, mainVars>>

-----------------------------------------------------------------------------

\* net/http and its clock, while the process lives.
NetHTTP ==
    /\ Alive
    /\ Http!NetHTTP \/ Http!Tick
    /\ UNCHANGED <<reloadVars, roundVars, mainVars>>

Main ==
    \/ LoadBoot \/ Build \/ RegisterRoute \/ NewReloader \/ StartReloader
    \/ RunServer \/ RunReturns \/ StopReloader

Round ==
    \/ ReadFile \/ ApplyLevel \/ ApplyRequestTimeout \/ ApplyShutdownTimeout
    \/ FinishRound

Next ==
    \/ Main \/ NetHTTP
    \/ Collect \/ Round
    \/ Terminate \/ Hangup \/ HangupKills \/ ReleaseHandler
    \/ Edit \/ FileEvent

Spec == Init /\ [][Next]_vars

-----------------------------------------------------------------------------
(* Properties.                                                             *)

\* Every variable stays in its range, and the server's as it says itself.
TypeOK ==
    /\ Http!TypeOK
    /\ text \in [0..MaxWrites -> Contents \cup {Torn}]
    /\ file \in 0..MaxWrites /\ good = {v \in 0..file : Valid(text[v])}
    /\ pending \subseteq SourceNames /\ phase \in {"idle", "taken", "read"}
    /\ read \in 0..file /\ inForce \in [SubNames -> 0..file]
    /\ closed \in BOOLEAN
    /\ at \in {"load", "build", "routes", "reloader", "start", "run", "stop", "exit"}
    /\ exitCode \in {"none", "ok", "error", "shutdownTimeout", "killed"}
    /\ running \in 0..file /\ baseline \in 0..file
    /\ calls \in {SubSeq(SubList, i, Len(SubList)) : i \in 1..Len(SubList) + 1}
    /\ warned \in BOOLEAN /\ level \in Levels /\ request \in Nat
    /\ handler \in BOOLEAN

\* Between two rounds the log level, the request timeout and the shutdown
\* timeout are those of one and the same valid configuration: what Validate
\* accepts, and leaves in the configuration, no subscriber refuses.  A field that
\* the environment sets keeps the environment's value through every reload.
SubscribersAgree ==
    Reloading /\ phase # "read" =>
        /\ \E v \in good :
            /\ \A s \in SubNames : inForce[s] = v
            /\ level = Config(v).level.name
            /\ request = Config(v).request
            /\ timeout = Config(v).shutdown
        /\ "level" \in DOMAIN Env => level = Env.level.name
        /\ "request" \in DOMAIN Env => request = Env.request
        /\ "shutdown" \in DOMAIN Env => timeout = Env.shutdown

\* Exit code 0 means a complete drain after SIGINT or SIGTERM, 2 that the
\* whole shutdown timeout has passed (the exit codes of main's doc).
ExitCodeTrue ==
    /\ exitCode = "ok" => /\ cancelled /\ active = {}
                          /\ serve # "accept" /\ (serve = "start" => inShutdown)
    /\ exitCode = "shutdownTimeout" => cancelled /\ elapsed = granted /\ granted > 0

\* The process never ends in the middle of a reload, unless a signal kills it:
\* whatever Run returned, the deferred Stop has waited.
NoReloadCutShort ==
    at = "exit" /\ exitCode # "killed" => phase = "idle" /\ calls = <<>>

\* Every round that leaves in force a port other than the one the server
\* listens on reports it, not only the first one; for this the file must not
\* have changed between the two loads of the boot.
RestartReported ==
    /\ Reloading /\ phase # "read" /\ baseline = running
    /\ RestartRequired(Config(running), Config(inForce["log_level"]))
    => warned

\* The server inside the process does nothing but what Server allows: main
\* registers its routes before Run, runs it once, and a reload reaches it
\* through UpdateShutdownTimeout alone.
ServerKept == Http!Spec

\* A shutdown is given the timeout of the newest configuration the server has
\* been handed, a round under way included.
ShutdownHonoursReload ==
    [][pc["main"] = "select" /\ pc'["main"] = "shutdown" =>
        granted' = Config(inForce["graceful_shutdown_timeout"]).shutdown]_vars

\* With the sighup source, SIGHUP ends the process only while it boots or
\* once it has been told to stop: never while it serves.
HangupSafe ==
    [][exitCode # "killed" /\ exitCode' = "killed" /\ "sighup" \in SourceNames =>
        at # "run" \/ cancelled]_vars

=============================================================================
