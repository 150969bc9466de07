---------------------------- MODULE ProcessProofs ----------------------------
(* Theorems about Process.  They use nothing of the server but what it     *)
(* leaves alone.                                                           *)
EXTENDS Process, TLAPS

-----------------------------------------------------------------------------
(* No reload is cut short.                                                 *)

\* Rounds run only between the start of the reloader and the deferred Stop,
\* and subscribers are called only while a round has read the file.
RoundInv ==
    /\ at \in {"load", "build", "routes", "reloader", "start"} => phase = "idle"
    /\ at = "exit" /\ exitCode # "killed" => phase = "idle"
    /\ phase # "read" => calls = <<>>

\* What the server does leaves reload and main as they are.
LEMMA ServerAside ==
  ASSUME RunServer \/ NetHTTP \/ Terminate
  PROVE  UNCHANGED <<reloadVars, roundVars, mainVars>>
BY DEF RunServer, NetHTTP, Terminate

\* Every step of the process keeps RoundInv.
LEMMA RoundInvStep ==
  ASSUME RoundInv, [Next]_vars
  PROVE  RoundInv'
<1> USE DEF RoundInv
<1>1. CASE RunServer \/ NetHTTP \/ Terminate
  BY <1>1, ServerAside DEF reloadVars, roundVars, mainVars
<1>2. CASE LoadBoot \/ NewReloader \/ StartReloader
  BY <1>2 DEF LoadBoot, NewReloader, StartReloader, Goto, Exit, reloadVars, roundVars
<1>3. CASE Build
  BY <1>3 DEF Build, Goto, Exit
<1>4. CASE RegisterRoute
  BY <1>4 DEF RegisterRoute, Goto, reloadVars, roundVars
<1>5. CASE RunReturns
  BY <1>5 DEF RunReturns, reloadVars, roundVars
<1>6. CASE StopReloader
  BY <1>6 DEF StopReloader, Exit, Reload!Close, roundVars
<1>7. CASE Collect
  BY <1>7 DEF Collect, Reloading, Reload!Collect, roundVars, mainVars
<1>8. CASE ReadFile
  BY <1>8 DEF ReadFile, Reloading, Reload!Read, mainVars
<1>9. CASE ApplyLevel \/ ApplyRequestTimeout \/ ApplyShutdownTimeout
  <2>1. PICK s : Call(s)
    BY <1>9 DEF ApplyLevel, ApplyRequestTimeout, ApplyShutdownTimeout
  <2>2. phase' = phase /\ at' = at /\ exitCode' = exitCode /\ Reloading
    BY <2>1 DEF Call, Reload!Adopt, reloadVars, mainVars
  <2>3. phase = "read"
    BY <2>1 DEF Call
  <2> QED BY <2>2, <2>3 DEF Reloading
<1>10. CASE FinishRound
  BY <1>10 DEF FinishRound, Reloading, Reload!Finish, roundVars, mainVars
<1>11. CASE Hangup \/ FileEvent
  BY <1>11 DEF Hangup, FileEvent, Reload!Request, roundVars, mainVars
<1>12. CASE HangupKills
  BY <1>12 DEF HangupKills, Alive, Exit, reloadVars, roundVars
<1>13. CASE ReleaseHandler
  BY <1>13 DEF ReleaseHandler, reloadVars, roundVars
<1>14. CASE Edit
  BY <1>14 DEF Edit, Reload!Edit, roundVars, mainVars
<1>15. CASE UNCHANGED vars
  BY <1>15 DEF vars, reloadVars, mainVars, roundVars
<1> QED
  BY <1>1, <1>2, <1>3, <1>4, <1>5, <1>6, <1>7, <1>8, <1>9, <1>10, <1>11,
     <1>12, <1>13, <1>14, <1>15 DEF Next, Main, Round

\* RoundInv is an invariant of the process.
LEMMA RoundInvariant == Spec => []RoundInv
<1>1. Init => RoundInv
  BY DEF Init, RoundInv
<1> QED BY <1>1, RoundInvStep, PTL DEF Spec

\* Whatever Run returned, the process ends only when the round under way is
\* over: the deferred Stop of main.go waits for it.
THEOREM EndsBetweenRounds == Spec => []NoReloadCutShort
<1>1. RoundInv => NoReloadCutShort
  BY DEF RoundInv, NoReloadCutShort
<1> QED BY RoundInvariant, <1>1, PTL

-----------------------------------------------------------------------------
(* SIGHUP while the process serves.                                        *)

\* While runCore serves and is not told to stop, SIGHUP is caught.
HandlerInv == at = "run" /\ ~cancelled /\ "sighup" \in SourceNames => handler

\* Once cancelled, the context stays so, whatever the server does, and the
\* server does not change its shutdown timeout by itself.
LEMMA ContextStays ==
  ASSUME RunServer \/ NetHTTP \/ Terminate
  PROVE  (cancelled => cancelled') /\ timeout' = timeout
<1>1. CASE RunServer
  BY <1>1 DEF RunServer, Http!Run, Http!RunAgain, Http!ListenFails, Http!Listen,
     Http!CtxDone, Http!ServeEnds, Http!GracefulShutdown, Http!ShutdownDone,
     Http!DeadlinePasses, Http!ServeDrained, Http!DrainEnds, Http!apiVars
<1>2. CASE NetHTTP
  BY <1>2 DEF NetHTTP, Http!NetHTTP, Http!Tick, Http!ServeStarts,
     Http!AcceptFails, Http!Accept, Http!RequestDone, Http!ShutdownCloses,
     Http!ShutdownWaits, Http!ShutdownReturns, Http!CloseStarts,
     Http!CloseEnds, Http!apiVars
<1>3. CASE Terminate
  BY <1>3 DEF Terminate, Http!Cancel
<1> QED BY <1>1, <1>2, <1>3

\* Every step of the process keeps HandlerInv: only StartReloader enters
\* "run", and only ReleaseHandler gives the handler up.
LEMMA HandlerInvStep ==
  ASSUME HandlerInv, [Next]_vars
  PROVE  HandlerInv'
<1> USE DEF HandlerInv
<1>1. CASE RunServer \/ NetHTTP \/ Terminate
  BY <1>1, ServerAside, ContextStays DEF mainVars
<1>2. CASE LoadBoot \/ NewReloader
  BY <1>2 DEF LoadBoot, NewReloader, Goto, Exit
<1>3. CASE StartReloader
  BY <1>3 DEF StartReloader, Goto, Exit
<1>4. CASE Build \/ RegisterRoute
  BY <1>4 DEF Build, RegisterRoute, Goto, Exit
<1>5. CASE RunReturns \/ StopReloader \/ HangupKills
  BY <1>5 DEF RunReturns, StopReloader, HangupKills, Exit
<1>6. CASE ReleaseHandler
  BY <1>6 DEF ReleaseHandler, serverVars
<1>7. CASE Collect \/ ReadFile \/ FinishRound \/ Hangup \/ FileEvent \/ Edit
  BY <1>7 DEF Collect, ReadFile, FinishRound, Hangup, FileEvent, Edit,
     serverVars, mainVars
<1>8. CASE ApplyLevel \/ ApplyRequestTimeout
  BY <1>8 DEF ApplyLevel, ApplyRequestTimeout, Call, serverVars, mainVars
<1>9. CASE ApplyShutdownTimeout
  BY <1>9 DEF ApplyShutdownTimeout, Call, Http!UpdateShutdownTimeout, serverVars,
     mainVars
<1>10. CASE UNCHANGED vars
  BY <1>10 DEF vars, serverVars, mainVars
<1> QED
  BY <1>1, <1>2, <1>3, <1>4, <1>5, <1>6, <1>7, <1>8, <1>9, <1>10
     DEF Next, Main, Round

\* With the sighup source, SIGHUP never ends a process that serves: main
\* installs the handler before Run and gives it up after the cancellation.
THEOREM HangupHarmless == Spec => HangupSafe
<1>1. Init => HandlerInv
  BY DEF Init, HandlerInv
<1>2. Spec => []HandlerInv
  BY <1>1, HandlerInvStep, PTL DEF Spec
<1>3. ASSUME HandlerInv, [Next]_vars,
             exitCode # "killed", exitCode' = "killed", "sighup" \in SourceNames
      PROVE  at # "run" \/ cancelled
  <2>1. HangupKills \/ RunReturns
    <3>1. CASE RunServer \/ NetHTTP \/ Terminate
      BY <1>3, <3>1, ServerAside DEF mainVars
    <3> QED
      BY <1>3, <3>1 DEF Next, Main, Round, vars, mainVars, LoadBoot, Build,
         RegisterRoute, NewReloader, StartReloader, StopReloader, ReleaseHandler,
         Collect, ReadFile, FinishRound, Hangup, FileEvent, Edit, ApplyLevel,
         ApplyRequestTimeout, ApplyShutdownTimeout, Call, Goto, Exit
  <2>2. ~RunReturns
    BY <1>3 DEF RunReturns, ExitCodeOf
  <2> QED
    BY <1>3, <2>1, <2>2 DEF HangupKills, HandlerInv
<1>4. ASSUME HandlerInv, [Next]_vars
      PROVE  [exitCode # "killed" /\ exitCode' = "killed"
              /\ "sighup" \in SourceNames => at # "run" \/ cancelled]_vars
  BY <1>3, <1>4
<1> QED BY <1>2, <1>4, PTL DEF Spec, HangupSafe

-----------------------------------------------------------------------------
(* What the subscribers run with.                                          *)

\* Subscriber s runs with version v of the file.
Carries(s, v) ==
    /\ inForce[s] = v
    /\ s = "log_level"                 => level = Config(v).level.name
    /\ s = "request_timeout"           => request = Config(v).request
    /\ s = "graceful_shutdown_timeout" => timeout = Config(v).shutdown

Booted == at \in {"routes", "reloader", "start", "run", "stop"}

\* The versions of the file, and those that Load and Validate accept.
FileInv ==
    /\ text \in [0..MaxWrites -> Contents \cup {Torn}]
    /\ file \in 0..MaxWrites
    /\ good = {v \in 0..file : Valid(text[v])}
    /\ inForce \in [SubNames -> Nat]
    /\ at \notin {"load", "exit"} => running \in good

\* The ends of SubList: what a round has still to call.
After(i) ==
    CASE i = 0 -> SubList
      [] i = 1 -> <<"request_timeout", "graceful_shutdown_timeout">>
      [] i = 2 -> <<"graceful_shutdown_timeout">>
      [] OTHER -> <<>>

\* Between two rounds all subscribers carry one valid version; in a round,
\* those called already carry the one that was read.
AgreeInv ==
    /\ Booted /\ phase # "read" => \E v \in good : \A s \in SubNames : Carries(s, v)
    /\ phase = "read" =>
        /\ read \in good
        /\ \E i \in 0..3 :
            /\ calls = After(i)
            /\ i > 0 => Carries("log_level", read)
            /\ i > 1 => Carries("request_timeout", read)
            /\ i > 2 => Carries("graceful_shutdown_timeout", read)

\* The last round has compared what it read with the baseline; before the first
\* round the subscribers have what the server has.
ReportInv ==
    /\ at \in {"routes", "reloader", "start"} => inForce["log_level"] = running
    /\ phase = "read" => (warned <=> RestartRequired(Config(baseline), Config(read)))
    /\ Reloading /\ phase # "read" /\ baseline = running
       /\ RestartRequired(Config(running), Config(inForce["log_level"])) => warned

\* The invariant on which the last two theorems rest.
ContentInv == RoundInv /\ FileInv /\ AgreeInv

\* The zero values.
LEMMA ZeroFields ==
  /\ Zero.level \in [name : Names, exact : BOOLEAN]
  /\ Zero.level.name \notin Levels
  /\ Zero.request = 0 /\ Zero.shutdown = 0
<1>1. Zero.level = [name |-> "other", exact |-> TRUE] /\ Zero.request = 0 /\ Zero.shutdown = 0
  BY DEF Zero
<1>2. [name |-> "other", exact |-> TRUE] \in [name : Names, exact : BOOLEAN]
  <2>1. "other" \in Names /\ TRUE \in BOOLEAN
    BY DEF Names
  <2> QED BY Zenon, <2>1
<1>3. [name |-> "other", exact |-> TRUE].name = "other"
  OBVIOUS
<1> QED BY <1>1, <1>2, <1>3 DEF Levels

\* What Validate demands.
LEMMA ValidParts ==
  ASSUME NEW c, Valid(c)
  PROVE  /\ c # Torn /\ Load(c).level.name \in Levels
         /\ Load(c).request > 0 /\ Load(c).shutdown > 0
BY DEF Valid

\* A file that Load and Validate accept has every key, and the environment
\* decides where it says something.
LEMMA ValidConfig ==
  ASSUME FileInv, NEW v \in good
  PROVE  /\ text[v] \in Contents /\ Valid(text[v])
         /\ Config(v).level = [Load(text[v]).level EXCEPT !.exact = TRUE]
         /\ Config(v).level.name = Load(text[v]).level.name
         /\ Config(v).level.name \in Levels /\ Config(v).level.exact
         /\ Config(v).request = Load(text[v]).request
         /\ Config(v).shutdown = Load(text[v]).shutdown
         /\ Config(v).request \in Nat /\ Config(v).request > 0
         /\ Config(v).shutdown \in Nat /\ Config(v).shutdown > 0
<1> DEFINE c == text[v]
<1>1. c \in Contents /\ Valid(c)
  <2>1. c \in Contents \cup {Torn} /\ Valid(c)
    BY WritesAssumption DEF FileInv
  <2>2. c # Torn
    BY <2>1, ValidParts
  <2> QED BY <2>1, <2>2
<1>2. /\ Zero.level \in [name : Names, exact : BOOLEAN]
      /\ Zero.request \in Nat /\ Zero.shutdown \in Nat
  BY ZeroFields
<1>3. Typed(c) /\ Typed(Env)
  BY <1>1, ContentsAssumption, EnvAssumption
<1>4. /\ Field(c, "level") \in [name : Names, exact : BOOLEAN]
      /\ Field(c, "request") \in Nat /\ Field(c, "shutdown") \in Nat
  BY <1>2, <1>3 DEF Typed, Field
<1>5. /\ Load(c).level \in [name : Names, exact : BOOLEAN]
      /\ Load(c).request \in Nat /\ Load(c).shutdown \in Nat
  BY <1>4 DEF Load
<1>6. /\ Config(v).level = [Load(c).level EXCEPT !.exact = TRUE]
      /\ Config(v).request = Load(c).request
      /\ Config(v).shutdown = Load(c).shutdown
  BY DEF Config, Normalised, Load
<1>7. Config(v).level.name = Load(c).level.name /\ Config(v).level.exact
  BY <1>5, <1>6
<1>8. /\ Load(c).level.name \in Levels
      /\ Load(c).request > 0 /\ Load(c).shutdown > 0
  BY <1>1, ValidParts
<1> QED BY <1>1, <1>5, <1>6, <1>7, <1>8

\* A field that the environment sets is the environment's in every valid file.
LEMMA EnvironmentDecides ==
  ASSUME FileInv, NEW v \in good
  PROVE  /\ "level" \in DOMAIN Env => Config(v).level.name = Env.level.name
         /\ "request" \in DOMAIN Env => Config(v).request = Env.request
         /\ "shutdown" \in DOMAIN Env => Config(v).shutdown = Env.shutdown
<1> DEFINE c == text[v]
<1>1. /\ Config(v).level.name = Field(c, "level").name
      /\ Config(v).request = Field(c, "request")
      /\ Config(v).shutdown = Field(c, "shutdown")
      /\ Field(c, "level").name \in Levels
      /\ Field(c, "request") > 0 /\ Field(c, "shutdown") > 0
  BY ValidConfig DEF Load
<1>2. \A f \in {"level", "request", "shutdown"} :
        f \in DOMAIN Env => Field(c, f) \in {Zero[f], Env[f]}
                            /\ (Field(c, f) # Zero[f] => Field(c, f) = Env[f])
  BY DEF Field
<1>3. /\ Field(c, "level") # Zero["level"]
      /\ Field(c, "request") # Zero["request"]
      /\ Field(c, "shutdown") # Zero["shutdown"]
  BY <1>1, ZeroFields
<1> QED BY <1>1, <1>2, <1>3

\* No subscriber refuses what Validate has accepted and normalised.
LEMMA ValidApplies ==
  ASSUME FileInv, NEW v \in good
  PROVE  \A s \in SubNames : Applies(s, Config(v))
BY ValidConfig DEF Applies, ParsesLevel

\* The three subscribers, in the order of their registration.
LEMMA TheSubscribers ==
  /\ SubNames = {"log_level", "request_timeout", "graceful_shutdown_timeout"}
  /\ \A i \in 0..2 : /\ After(i) # <<>>
                     /\ Head(After(i)) = SubList[i + 1]
                     /\ Tail(After(i)) = After(i + 1)
<1>1. Len(SubList) = 3
  BY DEF SubList
<1>2. SubNames = {SubList[1], SubList[2], SubList[3]}
  BY <1>1 DEF SubNames
<1>3. SubNames = {"log_level", "request_timeout", "graceful_shutdown_timeout"}
  BY <1>2 DEF SubList
<1>4. ASSUME NEW i \in 0..2
      PROVE  /\ After(i) # <<>>
             /\ Head(After(i)) = SubList[i + 1]
             /\ Tail(After(i)) = After(i + 1)
  <2>1. CASE i = 0
    BY <2>1 DEF After, SubList
  <2>2. CASE i = 1
    BY <2>2 DEF After, SubList
  <2>3. CASE i = 2
    BY <2>3 DEF After, SubList
  <2> QED BY <2>1, <2>2, <2>3
<1> QED BY <1>3, <1>4

\* A subscriber that a round calls takes what the round has read, those before
\* it have done so already, and those after it are called next.
LEMMA CallAdopts ==
  ASSUME ContentInv, NEW s \in SubNames, Call(s)
  PROVE  /\ phase = "read" /\ read \in good /\ Applies(s, Config(read))
         /\ Reload!Adopt(s)
         /\ \E i \in 0..2 :
              /\ s = SubList[i + 1]
              /\ i > 0 => Carries("log_level", read)
              /\ i > 1 => Carries("request_timeout", read)
              /\ calls' = After(i + 1)
<1>1. phase = "read" /\ calls # <<>>
  BY DEF Call, ContentInv, RoundInv
<1>2. read \in good
  BY <1>1 DEF ContentInv, AgreeInv
<1>3. Applies(s, Config(read))
  BY <1>2, ValidApplies DEF ContentInv
<1>4. Reload!Adopt(s)
  BY <1>3 DEF Call
<1>5. PICK i \in 0..3 :
        /\ calls = After(i)
        /\ i > 0 => Carries("log_level", read)
        /\ i > 1 => Carries("request_timeout", read)
  BY <1>1 DEF ContentInv, AgreeInv
<1>6. i \in 0..2
  BY <1>1, <1>5 DEF After
<1>7. s = SubList[i + 1] /\ calls' = After(i + 1)
  BY <1>5, <1>6, TheSubscribers DEF Call
<1> QED BY <1>1, <1>2, <1>3, <1>4, <1>5, <1>6, <1>7

\* Every step of the process keeps ContentInv.
LEMMA ContentInvStep ==
  ASSUME ContentInv, [Next]_vars
  PROVE  ContentInv'
<1> USE WritesAssumption DEF Config
<1>0. RoundInv'
  BY RoundInvStep DEF ContentInv
<1>1. CASE RunServer \/ NetHTTP \/ Terminate
  BY <1>0, <1>1, ServerAside, ContextStays DEF ContentInv, FileInv, AgreeInv,
     Booted, Carries, reloadVars, roundVars, mainVars
<1>2. CASE LoadBoot
  BY <1>0, <1>2 DEF LoadBoot, Goto, Exit, ContentInv, FileInv, AgreeInv, Booted,
     Carries, RoundInv, reloadVars, roundVars, serverVars
<1>3. CASE Build
  <2>1. CASE at' = "exit"
    BY <1>0, <1>3, <2>1 DEF Build, Goto, Exit, ContentInv, FileInv, AgreeInv,
       Booted, RoundInv
  <2>2. CASE at' # "exit"
    <3>1. /\ inForce' = [s \in SubNames |-> running]
          /\ level' = Config(running).level.name
          /\ request' = Config(running).request
          /\ timeout' = Config(running).shutdown
          /\ running \in good
          /\ UNCHANGED <<file, good, pending, phase, read, text, running, calls>>
      BY <1>3, <2>2 DEF Build, Goto, Exit, ContentInv, FileInv
    <3>2. \A s \in SubNames : Carries(s, running)'
      BY <3>1, ValidApplies DEF Carries, ContentInv
    <3>3. running \in Nat
      BY <3>1 DEF ContentInv, FileInv
    <3>4. phase = "idle" /\ FileInv'
      BY <1>3, <3>1, <3>3 DEF Build, ContentInv, FileInv, RoundInv
    <3> QED
      BY <1>0, <3>1, <3>2, <3>4 DEF ContentInv, AgreeInv
  <2> QED BY <2>1, <2>2
<1>4. CASE RegisterRoute
  BY <1>0, <1>4 DEF RegisterRoute, Goto, Http!Handle, ContentInv, FileInv,
     AgreeInv, Booted, Carries, reloadVars, roundVars
<1>5. CASE NewReloader \/ StartReloader \/ RunReturns \/ HangupKills \/ ReleaseHandler
  BY <1>0, <1>5 DEF NewReloader, StartReloader, RunReturns, HangupKills, Alive,
     ReleaseHandler, Goto, Exit, ContentInv, FileInv, AgreeInv, Booted, Carries,
     reloadVars, roundVars, serverVars
<1>6. CASE StopReloader
  BY <1>0, <1>6 DEF StopReloader, Exit, Reload!Close, ContentInv, FileInv,
     AgreeInv, Booted, Carries, roundVars, serverVars
<1>7. CASE Hangup \/ FileEvent
  BY <1>0, <1>7 DEF Hangup, FileEvent, Reload!Request, ContentInv, FileInv,
     AgreeInv, Booted, Carries, roundVars, serverVars, mainVars
<1>8. CASE Collect
  BY <1>0, <1>8 DEF Collect, Reload!Collect, ContentInv, FileInv,
     AgreeInv, Booted, Carries, roundVars, serverVars, mainVars
<1>9. CASE Edit
  <2>1. /\ file' = file + 1 /\ file' \in 0..MaxWrites
        /\ good \subseteq good'
        /\ UNCHANGED <<inForce, text, phase, read, at, running, calls, level,
                      request, timeout>>
    BY <1>9 DEF Edit, Reload!Edit, ContentInv, FileInv, roundVars, mainVars,
       serverVars
  <2>2. good' = {v \in 0..file' : Valid(text'[v])}
    <3>1. 0..file' = (0..file) \cup {file + 1}
      BY <2>1 DEF ContentInv, FileInv
    <3> QED
      BY <1>9, <2>1, <3>1 DEF Edit, ContentInv, FileInv
  <2>3. FileInv'
    BY <2>1, <2>2 DEF ContentInv, FileInv
  <2>4. AgreeInv'
    BY <2>1 DEF ContentInv, AgreeInv, Booted, Carries
  <2> QED BY <1>0, <2>3, <2>4 DEF ContentInv
<1>10. CASE ReadFile
  <2>1. FileInv'
    BY <1>10 DEF ReadFile, Reload!Read, ContentInv, FileInv, mainVars
  <2>2. CASE file \in good
    BY <1>0, <1>10, <2>1, <2>2 DEF ReadFile, Reload!Read, ContentInv, AgreeInv,
       After, mainVars
  <2>3. CASE file \notin good
    BY <1>0, <1>10, <2>1, <2>3 DEF ReadFile, Reload!Read, ContentInv, AgreeInv,
       Booted, Carries, mainVars, serverVars
  <2> QED BY <2>2, <2>3
<1>11. CASE ApplyLevel \/ ApplyRequestTimeout \/ ApplyShutdownTimeout
  <2>1. PICK s \in SubNames : Call(s)
    BY <1>11, TheSubscribers DEF ApplyLevel, ApplyRequestTimeout,
       ApplyShutdownTimeout
  <2>2. FileInv'
    BY <2>1, CallAdopts DEF Reload!Adopt, Call, ContentInv, FileInv, mainVars
  <2>3. /\ phase' = "read" /\ read' = read /\ good' = good /\ text' = text
        /\ inForce' = [inForce EXCEPT ![s] = read] /\ inForce'[s] = read
    BY <2>1, CallAdopts DEF Reload!Adopt, Call, ContentInv, FileInv, mainVars
  <2>4. PICK i \in 0..2 :
          /\ s = SubList[i + 1]
          /\ i > 0 => Carries("log_level", read)
          /\ i > 1 => Carries("request_timeout", read)
          /\ calls' = After(i + 1)
    BY <2>1, CallAdopts
  <2>5. read \in good /\ Applies(s, Config(read))
    BY <2>1, CallAdopts, ValidApplies DEF ContentInv
  <2>6. AgreeInv'
    <3>1. CASE i = 0
      <4>1. s = "log_level"
        BY <2>4, <3>1 DEF SubList
      <4>2. ApplyLevel
        BY <1>11, <2>1, <4>1 DEF ApplyLevel, ApplyRequestTimeout,
           ApplyShutdownTimeout, Call
      <4>3. Carries("log_level", read)'
        BY <2>3, <2>5, <4>1, <4>2 DEF ApplyLevel, Carries
      <4> QED BY <2>3, <2>4, <2>5, <3>1, <4>3 DEF AgreeInv
    <3>2. CASE i = 1
      <4>1. s = "request_timeout"
        BY <2>4, <3>2 DEF SubList
      <4>2. ApplyRequestTimeout
        BY <1>11, <2>1, <4>1 DEF ApplyLevel, ApplyRequestTimeout,
           ApplyShutdownTimeout, Call
      <4>3. Carries("request_timeout", read)' /\ Carries("log_level", read)'
        BY <2>3, <2>4, <2>5, <3>2, <4>1, <4>2, TheSubscribers
           DEF ApplyRequestTimeout, Carries, ContentInv, FileInv
      <4> QED BY <2>3, <2>4, <2>5, <3>2, <4>3 DEF AgreeInv
    <3>3. CASE i = 2
      <4>1. s = "graceful_shutdown_timeout"
        BY <2>4, <3>3 DEF SubList
      <4>2. ApplyShutdownTimeout
        BY <1>11, <2>1, <4>1 DEF ApplyLevel, ApplyRequestTimeout,
           ApplyShutdownTimeout, Call
      <4>3. /\ Carries("graceful_shutdown_timeout", read)'
            /\ Carries("request_timeout", read)' /\ Carries("log_level", read)'
        BY <2>3, <2>4, <2>5, <3>3, <4>1, <4>2, TheSubscribers
           DEF ApplyShutdownTimeout, Http!UpdateShutdownTimeout, Carries,
               ContentInv, FileInv
      <4> QED BY <2>3, <2>4, <2>5, <3>3, <4>3 DEF AgreeInv
    <3> QED BY <3>1, <3>2, <3>3
  <2> QED BY <1>0, <2>2, <2>6 DEF ContentInv
<1>12. CASE FinishRound
  <2>1. /\ \A s \in SubNames : Carries(s, read)
        /\ read \in good
    BY <1>12, TheSubscribers DEF FinishRound, Reload!Finish, ContentInv, AgreeInv, After
  <2> QED
    BY <1>0, <1>12, <2>1 DEF FinishRound, Reload!Finish, ContentInv, FileInv,
       AgreeInv, Booted, Carries, roundVars, serverVars, mainVars
<1>13. CASE UNCHANGED vars
  BY <1>0, <1>13 DEF ContentInv, FileInv, AgreeInv, Booted, Carries, vars,
     reloadVars, roundVars, serverVars, mainVars
<1> QED
  BY <1>1, <1>2, <1>3, <1>4, <1>5, <1>6, <1>7, <1>8, <1>9, <1>10, <1>11,
     <1>12, <1>13 DEF Next, Main, Round

\* ContentInv is an invariant of the process.
LEMMA ContentInvariant == Spec => []ContentInv
<1>1. Init => ContentInv
  BY WritesAssumption DEF Init, ContentInv, RoundInv, FileInv, AgreeInv, Booted
<1> QED BY <1>1, ContentInvStep, PTL DEF Spec

\* Between two rounds log level, request timeout and shutdown timeout are those
\* of one and the same configuration that Validate accepts.
THEOREM OneConfiguration == Spec => []SubscribersAgree
<1>1. ASSUME ContentInv, Reloading, phase # "read"
      PROVE  \E v \in good :
               /\ \A s \in SubNames : inForce[s] = v
               /\ level = Config(v).level.name
               /\ request = Config(v).request
               /\ timeout = Config(v).shutdown
  BY <1>1, TheSubscribers DEF ContentInv, AgreeInv, Booted, Reloading, Carries
<1>2. ContentInv => SubscribersAgree
  BY <1>1, EnvironmentDecides DEF ContentInv, SubscribersAgree
<1> QED BY ContentInvariant, <1>2, PTL

\* The check that a subscriber makes of its own is never the one that refuses
\* a configuration: Validate has made it before, at the boot and in every
\* round.
NoneRefuses ==
    /\ at = "build" => \A s \in SubNames : Applies(s, Config(running))
    /\ Reloading /\ calls # <<>> => Applies(Head(calls), Config(read))

\* Every configuration that passes Validate is taken by all three subscribers
\* (Apply of LevelSubscriber, RequestTimeoutConfig and ServerSubscriber, and the
\* boot in main.go), whatever the file and the environment say: their
\* error paths, and the partial failure of a reload, are for other subscribers.
THEOREM ValidatedIsTaken == Spec => []NoneRefuses
<1>1. ContentInv => NoneRefuses
  <2> SUFFICES ASSUME ContentInv PROVE NoneRefuses
    OBVIOUS
  <2>1. ASSUME at = "build" PROVE \A s \in SubNames : Applies(s, Config(running))
    BY <2>1, ValidApplies DEF ContentInv, FileInv
  <2>2. ASSUME calls # <<>> PROVE Applies(Head(calls), Config(read))
    <3>1. phase = "read" /\ read \in good
      BY <2>2 DEF ContentInv, RoundInv, AgreeInv
    <3>2. PICK i \in 0..3 : calls = After(i)
      BY <3>1 DEF ContentInv, AgreeInv
    <3>3. i \in 0..2
      BY <2>2, <3>2 DEF After
    <3>4. Head(calls) = SubList[i + 1]
      BY <3>2, <3>3, TheSubscribers
    <3>5. Len(SubList) = 3
      BY DEF SubList
    <3>6. Head(calls) \in SubNames
      BY <3>3, <3>4, <3>5 DEF SubNames
    <3> QED BY <3>1, <3>6, ValidApplies DEF ContentInv
  <2> QED BY <2>1, <2>2 DEF NoneRefuses
<1> QED BY <1>1, ContentInvariant, PTL

-----------------------------------------------------------------------------
(* Changes that need a restart are reported.                               *)

\* Every step of the process keeps ReportInv.
LEMMA ReportInvStep ==
  ASSUME ContentInv, ReportInv, [Next]_vars
  PROVE  ReportInv'
<1> USE DEF ReportInv, Reloading, Config
<1>1. CASE RunServer \/ NetHTTP \/ Terminate
  BY <1>1, ServerAside DEF reloadVars, roundVars, mainVars
<1>2. CASE LoadBoot \/ Build \/ RegisterRoute \/ NewReloader
  BY <1>2, TheSubscribers DEF LoadBoot, Build, RegisterRoute, NewReloader, Goto,
     Exit, ContentInv, RoundInv, reloadVars, roundVars
<1>3. CASE StartReloader
  BY <1>3 DEF StartReloader, Goto, Exit, ContentInv, RoundInv, reloadVars,
     roundVars, RestartRequired
<1>4. CASE RunReturns \/ HangupKills \/ ReleaseHandler \/ StopReloader
  BY <1>4 DEF RunReturns, HangupKills, ReleaseHandler, StopReloader, Reload!Close,
     Exit, reloadVars, roundVars
<1>5. CASE Hangup \/ FileEvent \/ Collect \/ Edit
  BY <1>5 DEF Hangup, FileEvent, Collect, Edit, Reload!Request, Reload!Collect,
     Reload!Edit, roundVars, mainVars
<1>6. CASE ReadFile
  BY <1>6 DEF ReadFile, Reload!Read, mainVars
<1>7. CASE ApplyLevel \/ ApplyRequestTimeout \/ ApplyShutdownTimeout
  <2>1. PICK s \in SubNames : Call(s)
    BY <1>7, TheSubscribers DEF ApplyLevel, ApplyRequestTimeout,
       ApplyShutdownTimeout
  <2>2. Reloading /\ UNCHANGED <<phase, read, text, baseline, at, warned>>
    BY <2>1, CallAdopts DEF Call, Reload!Adopt, mainVars
  <2>3. phase = "read"
    BY <2>1, CallAdopts
  <2> QED BY <2>2, <2>3
<1>8. CASE FinishRound
  <2>1. inForce["log_level"] = read
    BY <1>8, TheSubscribers DEF FinishRound, Reload!Finish, ContentInv, AgreeInv,
       After, Carries
  <2> QED BY <1>8, <2>1 DEF FinishRound, Reload!Finish, roundVars, mainVars
<1>9. CASE UNCHANGED vars
  BY <1>9 DEF vars, reloadVars, roundVars, mainVars
<1> QED
  BY <1>1, <1>2, <1>3, <1>4, <1>5, <1>6, <1>7, <1>8, <1>9 DEF Next, Main, Round

\* A round that leaves another port in force than the one the server listens on
\* has reported it, every time, if the file was the same in both boot loads.
THEOREM RestartAlwaysReported == Spec => []RestartReported
<1>1. Init => ReportInv
  BY DEF Init, ReportInv, Reloading
<1>2. Spec => []ReportInv
  BY <1>1, ReportInvStep, ContentInvariant, PTL DEF Spec
<1>3. ReportInv => RestartReported
  BY DEF ReportInv, RestartReported
<1> QED BY <1>2, <1>3, PTL
=============================================================================
