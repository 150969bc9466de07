# A TLA+ model of go-hp-server

go-hp-server is an HTTP server skeleton in Go: a server with a bounded graceful
shutdown, health endpoints with shared checker executions, and a configuration
that is reloaded while the process runs.  It is small, and nearly all of its
difficulty is in three places where goroutines meet: the reloader, the
readiness handler and the shutdown.  Those three are modelled here, each in a
module of its own; a fourth module composes two of them with `main` to the whole
process, and a fifth follows a request through the middleware.  All are checked
with TLC and proved with TLAPS.  The rest of the program is listed below with
the reason why it is not modelled.

## 1. The system

| Component | State it keeps | Operations | Modelled |
|---|---|---|---|
| Reloader, `internal/reload` | subscribers, `started`, `stopped`, `stopOnce`, `stopCh`, the one-slot `triggerCh`, `srcSet`, `lastAppliedConfig`, a wait group; worker, ctx watcher, SIGHUP and file goroutines | `Register`, `Start`, `Stop`, `Trigger` | `Reloader`, `ReloadService` |
| Readiness handler, `internal/health` | per checker one `inflight` execution; per request the results so far and two deadlines | `GET /ready` | `Readiness`, `ReadinessService` |
| Liveness handler, `internal/health` | none | `GET /health` | `Exchange` |
| HTTP server, `internal/server` | `started`, routes, the atomic shutdown timeout; `Serve`, `Shutdown` and `Close` goroutines | `Run`, `Handle`, `UpdateShutdownTimeout` | `Server`, `ServerService` |
| Process, `cmd/server` | boot configuration, exit code | `runCore`, signals | `Process` |
| Configuration, `internal/config` | none | `Load` with the environment, `Validate` | `Process`, for the fields it tells apart; the reloader sees the set of versions they accept |
| Request timeout, `internal/middleware` | one atomic duration | `Apply`, one load per request | `Process`, `Exchange` |
| Access log, response writer, request id, chain | per request: id, status, bytes, the bound logger | the chain, `WriteHeader`, `Write`, `Flush`, `Hijack` | `Exchange` |
| Logger, level subscriber | zerolog's global level | `Apply` | `Process`, `Exchange`: the level |
| Scripts, k6 scenarios | – | – | no: developer tooling |

How they interact.  `main` loads the configuration, builds the server, the
middleware and the health handlers, then builds the reloader (which loads the
file again), registers three subscribers (log level, request timeout, shutdown
timeout), starts the reloader and blocks in `Server.Run`.  SIGHUP, a change of
the file, or a call of `Trigger` wakes the reloader's worker, which reads the
file and calls each subscriber; the subscribers store one atomic value each.
Every route goes through the chain request id, access log, request timeout,
which reads two of these values, once for each request.
SIGINT or SIGTERM cancels one context, which both stops the reloader and starts
the graceful shutdown; a reload may therefore change the shutdown timeout while
a shutdown is under way.

What makes them correct.

* Reloader: no trigger is lost; a reload reads the file after it has taken the
  triggers it answers; cycles never overlap; nothing invalid reaches a
  subscriber; a partial failure stays visible; nothing runs once `Stop` has
  returned, and `Stop` always returns.
* Readiness: 200 only if every checker has returned nil; one execution per
  checker however many probes come; every probe is answered even if a checker
  blocks for ever.
* Server: one `Run`; nil only after a complete drain; both waits of the
  shutdown within one deadline; routes fixed while requests are served.
* Process: between reloads everything runs with one configuration; the exit code
  tells the truth; no reload is cut short; SIGHUP does not end a process that
  serves.
* Middleware: the log tells what the client got, once, under the id the client
  has; a panic is not swallowed; a request has a timeout that was in force.

The hazards behind these properties, each at its line, are in `PROJECT.json`.

## 2. The modules

| Module | What it is |
|---|---|
| `ReloadService` | what package reload promises, without goroutines, channels or locks |
| `Reloader` | the reload engine; `ImplementsService` maps it to `ReloadService` |
| `ReadinessService` | what `/ready` promises a probe and the author of a checker, without goroutines, channels or locks |
| `Readiness` | the `/ready` handler and its execution goroutines; `ImplementsService` maps it to `ReadinessService` |
| `ServerService` | what package server promises, without channels, selects or goroutines |
| `Server` | `Run` and `gracefulShutdown`, and net/http as far as they depend on it; `ImplementsService` maps it to `ServerService` |
| `Process` | `runCore`: `ReloadService` and `Server` with the boot, the subscribers, the signals and the exit code |
| `Exchange` | requests in the middleware chain, down to the response of net/http and back, while a reload goes on |
| `ReloaderProofs`, `ReadinessProofs`, `ServerProofs`, `ProcessProofs`, `ExchangeProofs` | theorems and proofs of each component |
| `ReloaderStopProofs` | how the Reloader stops: theorems that need no promise of its callers |
| `ProcessServerProofs` | the server inside the process: the theorems of `ServerProofs` carried over to `Process` |
| `MCReloader`, `MCReadiness`, `MCServer`, `MCProcess`, `MCExchange` | small instances for TLC |

Operators named "Mutant" in the component modules are plausible wrong versions
of the action that follows them.  They are used by no specification; they show
that a property can fail (section 3).

### Reloader

An action is one critical section (`mu`, `srcMu`, `stopOnce`) or one channel
operation.  `pc` gives the label every goroutine and every caller is at; `Live`
is the count of the wait group.

| Code | Actions |
|---|---|
| `Register` | `Register`; refused calls change nothing and are left out |
| `Start` | `CallStart` (critical section), `SpawnWorker`, `SpawnWatcher`, `StartTrigger` once per source, `FileTriggerFails`, then `StartReturns` or `StartFails` |
| `Stop`, `signalStop` | `CallStop`, `SignalStopped`, `CloseStopCh`, `SignalAgain` (a later caller of `stopOnce.Do` blocks until the first one is done), `StopReturns` |
| ctx watcher | `WatchCtx`, then the same `signalStop` actions |
| `Trigger`, `enqueue` | `CallTrigger`, `AddSource`, `SendWake` |
| SIGHUP and file goroutines | `ReceiveSighup`, `ReceiveFileEvent`, then `enqueue`; `Overflow` |
| `worker`, `debounceWait` | `ReceiveWake`, `DebounceMore`, `DebounceFires`, `Exit`; `Tick` is the timer |
| `doReload` | `SnapshotSources`, `LoadConfig`, `ApplyOK` or `ApplyFails` per subscriber, `FinishReload` |

A configuration is the version number of the file it was read from, and `good`
is the set of versions that `Load` and `Validate` accept: an edit is valid or
not, by choice.  A subscriber's `Apply` succeeds or fails by choice.  Reading
the file is atomic; a torn read is a version that is refused.  The events of
other files in the watched directory, which the code filters out by name, are
left out.  Under a wait group the order of two goroutines' ends does not
matter, so `defer wg.Done()` and the return are one step.

History variables: `need` is the version on disk when a source was last added;
`quiet` says that a `Stop`, or a `Start` that failed, has returned.

### Readiness

A request is at `new`, `next` (top of the loop in `runAllCheckers`), `enter`
(in `runOne`, before `entry.mu`), `await` (in `awaitInflight`) or `done`.
`Join` and `Launch` are the two outcomes of the critical section.  An execution
is named by its checker and the request that launched it, because a request
asks a checker only once; it goes through `run`, `close` (result stored, `done`
still open), `clear` (`done` closed, `inflight` not yet cleared) and `end`.
`CheckerReturns` takes any result; a recovered panic is a failure, for no
property tells the two codes apart.  A checker that blocks never takes the step.
The mutant `CheckerPanicsThrough` recovers a panic in the wrong place, outside
the cleanup, and leaves the slot taken; a panic that nothing recovered would end
the program, of which this module has no notion.
The length of the timeouts is abstracted: `TotalTimeout` and `CheckTimeout` may
happen at any moment at which the deadline is running.  `TotalTimeout` also
stands for a client that goes away, since the context derives from the
request's.

History variables: which executions had finished (`seenDone`), and which were
over and cleared (`seenOver`), when a request arrived.

`ReadinessService` is the endpoint as a probe and a checker see it: a checker
runs once at a time, and only for a probe that needs it; the entries of an
answer come in order, each a timeout or a result of a run that was not cleared
before the probe came; 200 is sent only for entries that are all ok.  Which run
an execution of the handler maps to, and when it counts as over, is read off the
phases.

### Server

`pc` is where a caller of `Run` is: before or after it, in its select, or in the
first (`shutdown`) or second (`drain`) select of `gracefulShutdown`.  `left` is
the time to the deadline of `shutdownCtx` in ticks, counted down while `Run` is
blocked: a select that can go on takes no time.  With two ready cases either is
taken.  `prepareListener` with an injected listener never fails; with `net.Listen`
it may (`ListenFails`).

net/http is external and modelled from how `Run` uses it and from what the
comments of `gracefulShutdown` say of it: `Serve` accepts until its listener
fails or is closed; `Shutdown` and `Close` close the listener and then wait for
`Serve` without any deadline; `Shutdown` goes on to wait for the requests in
flight, within its deadline; `Close` closes every connection.  The listener may
never release `Accept`, and a handler may never finish.

`ServerService` is the server as its caller sees it: fresh, serving, shutting
down or stopped; who is inside `Run`; whether a request may still come in, and
which are in flight; the time granted and used up.  `Phase`, `Inside` and
`Accepting` are read off the labels of `Run` and the state of `Serve`.

History variables: `elapsed` since the shutdown began, and `lnFailed`, whether
`Serve` ended by its listener before any cancellation.

### Process

`Process` has the variables of `ReloadService` and of `Server` and instantiates
both (`Reload`, `Http`), so that each of its actions is an action of one of them,
or of both at once, together with what `main` does.  The service stands for the
reloader because `ReloaderImplementsService` shows that the Reloader has no other
behaviours; it allows a few more (a round may start until `Stop` returns, even
if the worker has left already), which safety properties do not mind.

| Code | Actions |
|---|---|
| `runCore`, boot | `LoadBoot`, `Build` (logger, boot call of the level subscriber, `server.New`, request timeout), `RegisterRoute` three times, `NewReloader` (the second load of the file), `StartReloader` |
| `runCore`, serving and after | `RunServer` (any step of `Run`), `RunReturns` (the switch over the error), `StopReloader` (the deferred `Stop`) |
| `run`, `startSighupTrigger` | `Terminate`; `Hangup` while SIGHUP is caught, `HangupKills` while it is not, `ReleaseHandler` |
| `doReload` | `Collect`, `ReadFile` (with `warnRestartRequired`), then `ApplyLevel`, `ApplyRequestTimeout`, `ApplyShutdownTimeout` in this order, `FinishRound` |
| the file | `Edit`, `FileEvent` |

`text` says, from the beginning and for all time, what each version of the file
will contain; a configuration has a level, a request timeout, a shutdown timeout
and a port, which stands for every field that needs a restart.  A file need not
have all of them.  `Load` lays the environment `Env` over it, and only over the
keys the file has, because it is to `v.AllKeys()` that the code binds it; a key
the file lacks is left zero.  `Valid` and `Normalised` are what `Validate`
demands of these fields and does to them; `Applies` is what each `Apply` demands
by itself.  The environment of a process does not change.  `running` and `baseline` are
the versions that `main` and `NewReloader` have loaded.

`ServerKept` says that every step of the process is a step of `Server`, or leaves
the server alone: main and the reload reach it through its exported methods.

Observed, and not a defect by any text of the repository: the two loads of the
boot may see two versions of the file.  The server then runs with the first,
restart-required changes are reported against the second, and the property
`RestartReported` says so in its premise.

### Exchange

A request goes through the stages `request_id`, `access_log`, `request_timeout`,
`handler`, then back through `unwind` (the deferred function of the access log)
and `finish` (net/http).  `After` is the order of the chain.

| Code | Actions |
|---|---|
| `NewRequestID`, `acceptClientID` | `ClientID`, `GenerateID`, `GeneratorFails` |
| `NewAccessLog`, `emitAccessLog` | `AccessLog` on the way in; `EmitAccessLog` on the way out, whether the handler returned or panicked |
| `RequestTimeout` | `RequestTimeout`, one load of the atomic value |
| `responseWriter` | `WriteHeader`, `Write`, `Flush`, `Hijack`, each with the effect on the wrapper (`Wrap...`) and on the response of net/http (`Conn...`) |
| handlers | `Root` ("/"), `Liveness` ("/health"), `Other`: any handler, which makes these calls in any order and returns or panics |
| `LevelSubscriber`, `RequestTimeoutConfig` | `ApplyLevel`, `ApplyRequestTimeout`, at any moment |
| net/http | `Arrive`, `Finish` |

An id offered by a client is its value without surrounding blanks.  A handler
leaves `X-Request-ID` in the response header alone; `IDReturned` is about such
handlers.

The response of net/http is external, and modelled where it differs from the
wrapper: an informational status is not final, a flush or a body without a
status means 200, a status may forbid a body, a hijacked connection takes
nothing, `Write` may accept less than it is given, a short body stays in the
buffer and is lost when the handler panics.  `finished` says that net/http has
come to the end of its `finishRequest`, which a panic prevents; a client may
nevertheless have got a complete answer before a panic, if the handler flushed
one.  A write counts 0 or 1 byte.  The id
generator may fail, as an `IDGenerator` may (`WithIDGenerator`); the default one
cannot with the Go version in `go.mod`.  A generated id is named by its request.
`/ready` is not among the handlers: `Readiness` models it.

History variables: `ended` is how the handler ended, `early` whether it flushed
or sent an informational status before its first status, or hijacked, and
`seen` what timeouts were in force while a request went through the chain and
whether the level let its line pass all along.

Observed, and not a defect by any text of the repository: after such an early
call the status in the log may differ from the one the client got, for the
wrapper passes `Flush` and `Hijack` on without a note and takes a 1xx for the
status.  `LoggedStatusTrue` names these cases in its premise.

## 3. What is checked

| Run | Instance | What it shows |
|---|---|---|
| `reloader_dispatch` | 2 callers, 2 subscribers, no trigger goroutines, debounce 1, 2 writes | safety of dispatch, and the refinement of `ReloadService` |
| `reloader_lifecycle` | 2 callers, both triggers, file trigger may fail, debounce 1, 1 write | nothing runs after `Stop` or a failed `Start`; no lost trigger |
| `reloader_live` | 2 callers, file trigger that may fail, debounce 1, 1 write, endless triggers | `Stop` returns, a cancelled context ends everything, triggers are collected and the change of the file is read |
| `reloader_stop_race` | 2 callers, `Stop` may race `Start` | violated: finding 1 |
| `reloader_failed_start` | 2 callers, file trigger may fail | violated: finding 2 |
| `readiness_answer` | 2 probes, 2 checkers | one execution per checker, shared while it lives; 200 means all healthy |
| `readiness_live` | 2 probes, 1 checker that may block | every probe is answered; slots are released; the refinement of `ReadinessService` |
| `readiness_window` | 2 probes, 1 checker | violated: finding 3 |
| `server_run` | 2 callers, 2 requests, 1 route, timeouts 1 and 2 | safety and termination of `Run`, and the refinement of `ServerService` |
| `server_lost_failure` | 1 caller, 1 request, timeout 1 | violated: finding 4 |
| `process_run` | 1 request, four contents of the file and an unreadable one, the level set by the environment, 1 write, both triggers, file trigger may fail | one configuration in force between rounds, the environment kept, true exit codes, no reload cut short, the newest shutdown timeout honoured, the server used as `Server` allows, SIGHUP harmless while serving |
| `exchange_run` | 2 requests with five kinds of arrival, 3 calls of a handler, 1 reload, timeouts 1 and 2 | the log tells what the client got, one line per request, no request with a panic finished, ids and timeouts |

Every property of a passing run is broken by at least one mutant listed in
`PROJECT.json`: a wake-up drained at the end of a cycle, a `Stop` that does not
wait the second time, a watcher that waits for itself, an inflight entry
forgotten by the waiter that gave up, a checker's panic recovered too far out, a second wait with a timer of its own,
a timeout loaded when the chain is built, and so on.

### Bounds, and why they are enough

* `MaxWrites` is the only bound in a guard.  Two writes give an old, a new and a
  newest version, with valid and refused ones in every order; the proofs hold
  for any number.  In `process_run` one write has any content and may come at any
  moment: between the loads of the boot, in a round, during the shutdown.
* Four contents of the file: a regular one, one that differs in every field, one
  that only the check of the request timeout refuses, and one without a level.
  The environment sets the level, and spells it in a way only `Validate`
  accepts.  The rewrite puts another content in place of the first, or the first
  in place of the second (`MCSpec`), so the timeout is raised and lowered.
* `Debounce = 1` makes the timer start, tick, be restarted and fire; `0` is the
  code's path without a timer.
* Two callers are enough for every race between two API calls, `Stop` with
  `Stop` included; the trigger goroutines come on top.  Two subscribers give
  success and failure in both orders.
* Two probes meet in every way at one checker; with two checkers they meet at
  the second in a different state than at the first.  Since a request has one
  execution per checker, a third probe adds only another waiter.  `readiness_live`
  has one checker, for the time its liveness takes; the refinement was also
  checked with two, on 2.2 million states, and the proof covers any number.
* In `exchange_run` one request at most goes to the handler that may do anything
  (`MCSpec`): requests share nothing but the level and the timeout, so two such
  handlers cannot meet, and the second request is there to meet the reload at
  another stage.  `MaxOps = 3` gives a call before the first status, the status
  and a call after it; `MaxApplies = 1` puts one reload of the level or of the
  timeout anywhere.  The proofs hold for any number of both.
* Timeouts 1 and 2 let a reload raise and lower the timeout before and during
  the shutdown.  Two requests let one finish and one hang.
* Symmetry is used for callers, subscribers and probes, which no definition
  tells apart, and only in runs without liveness properties.

Deadlock is checked in `reloader_dispatch`, `reloader_stop_race`, `server_run`
and `server_lost_failure`.  It is not checked where the system really ends:
every probe answered and every execution over (Readiness), or a `Reloader` that
was stopped, or whose `Start` failed, with nothing left for its environment to
do (`reloader_lifecycle`, `reloader_live`, `reloader_failed_start`), a process
that has exited (`process_run`), or every request done (`exchange_run`).

The largest runs have some 1.6 (`reloader_dispatch`), 2.8
(`reloader_lifecycle`), 2.2 (`readiness_answer`), 1.7 (`process_run`) and 1.9
(`exchange_run`) million distinct states and take one to three minutes; between
them the passing runs take every action.

### Fairness

* Reloader: weak fairness of each goroutine and of every call under way, for Go's
  scheduler runs every runnable goroutine.  `Exit` is strongly fair: Go's
  `select` picks among ready cases at random, so a closed `stopCh` is taken in
  the end even if triggers keep the other case ready.  No caller, editor, signal
  or cancellation is obliged to come.  `TriggerCollected` and
  `FileChangeLoaded` have the premise `BurstsEnd`, that triggers do not restart
  the debounce window for ever, because `debounceWait` sets no upper limit.
* Readiness: handlers and execution goroutines are weakly fair and a check
  timeout passes in the end.  Nothing obliges a checker to return.
* Server: only `Run`'s own goroutine and time are fair.  Nothing is assumed of
  net/http, of the listener, of the handlers or of the goroutine in `Close`.
* Process and Exchange: no liveness is checked, and no fairness is assumed.

## 4. What is proved

The theorems hold for every value of the constants: any number of callers,
subscribers, probes, checkers and requests, any debounce and timeouts, any
number of writes.  They rest on the named assumptions of the modules: callers
are not named like goroutines, `reload.sources` has no duplicates (`Validate`
refuses them), checker names have no duplicates (`WithChecker` refuses them),
shutdown timeouts are positive (`Validate` refuses others), and
the keys of a file and of the environment have the types of the Go struct;
`Timeouts` of Exchange are positive and contain the boot timeout, and `None` is
not the id of a request.

Reloader (`ReloaderProofs`)

* `TypeCorrect`.
* `StopWaitsForAll`: `StopQuiesces`, if callers do not call `Stop` while `Start`
  runs (`StopAfterStart`; finding 1 shows that it is needed, and main obeys it).
  `quiet => Live = {}` is not inductive: one must know that nobody can spawn any
  more.  `StartInv` says that at most one `Start` ever passes its critical
  section and that it spawns each goroutine once; `StopInv` says that whoever
  waits has seen `stopOnce` done, so that `stopped` is set for good, and that
  with no `Start` under way nothing can be spawned.
* `NoTriggerLost` and `NoStaleReload`, each inductive with types and `StartInv`.
* `PartialFailureVisible`, `LastAppliedStands` and `SubscribersAdvance`:
  `DispatchInv` describes the
  middle of a dispatch (each subscriber has taken the candidate, is on the
  failed list or is still to be called; nobody is ahead of the candidate).
* `ReloaderImplementsRounds`: every step of the Reloader is a step of
  `ReloadService` that is never closed, or a stutter.  This needs no promise of
  the callers, so rounds do not overlap, and read after they take their
  requests, even when `Stop` races `Start`.  The sources are the pending
  requests; the phase is read off the worker's label.
* `ReloaderImplementsService`: the same with the service closed when `quiet` is
  set, under `StopAfterStart`; that no round can start any more takes `StopInv`.
* `StopIsFinal`, from the same: the configuration in force when a `Stop` returns
  stays in force.
* `SubscribersCalledInOrder`: a dispatch calls each registered subscriber once,
  in the order of registration, and names it on exactly one of the two lists of
  the summary.  `DispatchOrder` relates the subscribers called, the two lists and
  the ones to come to the list of registrations, which no caller can change once
  the Reloader has started.

How the Reloader stops (`ReloaderStopProofs`), without `StopAfterStart`

* `StopChClosedOnce`, from `OnceInv`: whoever is at `close` holds `stopOnce`, at
  most one is, and `closed` is set when the `Once` is done.
* `StopIsNeverStuck`: whoever waits for `stopOnce` waits for one whose next step
  closes `stopCh`; then each goroutine of the wait group has a step of its own to
  take.
* `FreeToMove`: what "has a step to take" means there.  In each state of correct
  types in which `GoesOn(p)` holds, the step to the state `Onward(p)` is a step of
  p's code.  ENABLED is out of the prover's reach, so the next state is given.
  With the fairness of section 3 this is why `StopTerminates` holds; the two
  proofs have the safety half, TLC the rest.
* `StoppedIsAnswered`: `ErrStoppedAfterStop`, the property finding 2 refutes,
  holds if no file watcher can fail (`FileTriggerSafe`), by `AnswerInv`:
  `stopped` is set only after `started`, and no `Start` takes the error path on
  which `started` is reset.
* `NothingEndsByItself`, from `CauseInv`: behind each process in `signalStop`, and
  behind a closed `stopCh`, is a cancelled context, a `Stop` or a `Start` that
  failed.

Readiness (`ReadinessProofs`)

* `TypeCorrect`, `AtMostOneRun` and `JoinsLiveExecution` follow from `RunInv`:
  `entry.inflight` names exactly the execution that still has to clear it, and
  an execution past its body has stored a result.
* `ReadyMeansHealthy`: the action property `OKMeansAllHealthy`, from `OrderInv`.
  Its parts: a request has not launched the checkers it has not come to
  (`AheadInv`, so that a stored result is never overwritten), an execution over
  at arrival stays over (`OverInv`), the one a request waits for was not
  (`JoinInv`), and each ok entry stands on a stored result (`BackedInv`).
* `ReadinessImplementsService`: a refinement, from `RunInv` and `OrderInv`, one
  lemma per action.
* `StaleOnlyInWindow`: `JoinInv` by itself, the other side of finding 3.  An old
  result is reached only through the window the finding shows.
* `AtMostOneGoroutine`: one live goroutine per checker, though probes give up and
  checkers block.
* `ProbeEndsInBound`: `StepsLeft` bounds the steps of its own a probe has left, at
  most three per checker and two; no step of another raises it, and each of its
  own lowers it.  It is the safety half of `EveryProbeAnswered`.

Server (`ServerProofs`)

* `TypeCorrect`, `SingleRun`, `NilMeansGraceful`, `ShutdownInTime`,
  `RoutesFixed`, from one invariant: `PhaseInv` (a shutdown begins once and
  nothing runs before the first successful listen), `QuietInv` (what stands
  behind a value on each of the two channels and in the locals) and `DeadlineInv`
  (`left + elapsed` is the timeout loaded on entry, and `Close` is called only
  when it has passed).
* `ServerImplementsService`: `Spec => ImplementsService`, a refinement, from the
  same invariant.  The work of net/http's goroutines maps to one step that stops
  accepting and one that cuts off what is left, or to none.
* `ShutdownEndsInBound`: the rank `StepsLeft` is bounded by the timeout and falls
  with each step of `Run` and each tick of the shutdown.
* `RunCanGoOn`: in each state of the invariant, the step of a cancelled `Run` to
  the state `Onward` is a step of its select, of `gracefulShutdown` or of the clock,
  whatever net/http, the listener and the handlers do.  This is ENABLED with the
  next state written out.  The two are the safety half of the termination TLC
  checks: there is always a next step, and they come to an end.
* `SendersAreFree`: `serveErrCh` and `shutdownDoneCh` are empty whenever somebody
  has still to send, so their one-place buffers are enough.
* `EarlyEndReported`: without a cancellation `Run` leaves its select only with
  the failure of `Serve`; the `nil` of `server.go:203` is never returned.

Process (`ProcessProofs`)

* `EndsBetweenRounds`: `NoReloadCutShort`, from `RoundInv` (rounds run only from
  the start of the reloader to the deferred `Stop`).
* `HangupHarmless`: `HangupSafe`, from `HandlerInv`; of the server it needs only
  that a cancelled context stays cancelled.
* `OneConfiguration`: `SubscribersAgree`, from `ContentInv`.  In the middle of a
  round the subscribers called already carry what was read (`AgreeInv`), and none
  of them refuses, because what `Validate` accepts and normalises satisfies each
  `Apply` (`ValidApplies`).
* `ValidatedIsTaken`: no subscriber of main refuses a configuration that
  `Validate` accepted, from `ContentInv` and `ValidApplies`.
* `RestartAlwaysReported`: `RestartReported`, from `ContentInv` and `ReportInv`.

The server in the process (`ProcessServerProofs`)

* `ProcessUsesServer`: `Spec => ServerKept`, a refinement.  Each step of the
  process is a step of `Server` or a stutter; that each registered
  pattern is one of main's takes `RouteInv`, and that a shutdown timeout handed on by a
  reload is one of the server's takes `ContentInv`.  The theorems of
  `ServerProofs` hold in the process by it.
* `ProcessServesAsPromised` and `ProcessShutdownBounded`: two of them, stated for
  the process.  The process implements `ServerService`, and its shutdown is
  bounded and not put off by a reload of the timeout at any moment.
* `ExitCodesAreTrue`: `ExitCodeTrue`, from `ExitInv` (what stands behind the
  value `Run` returned) and the server's own invariant.
* `ShutdownTakesTheNewest`: `ShutdownHonoursReload`, from `TimeoutInv` (the
  atomic value is that of the newest configuration the server was handed).
* `ProcessTypeCorrect`, from `MainTypes` and the types of the server.

Exchange (`ExchangeProofs`)

* All eight invariants of the run, from one: each request is `Sound`.  Its parts
  relate the two writers (`WriterInv`: what each knows of the status, and that
  the bytes agree), the response and its headers (`ConnInv`), the place in the
  chain and what is set by then (`ChainInv`), the timeout (`DeadlineInv`), the
  level (`LoudInv`), the line (`LineInv`), the end of the handler (`EndInv`), a
  request without an id (`RefusedInv`) and the two own routes (`OwnInv`).  None
  of the properties is inductive: when the line is written the answer is not
  complete, so that what net/http will make of it must be known in advance.

Only model-checked: all liveness properties (temporal reasoning under fairness
and ENABLED are outside what the prover supports), of which the bounds and the
freedom from deadlock above are the part that can be proved, and the four
findings, which are counterexamples.  No module uses a recursive operator.

## 5. Findings

1. `Stop` racing `Start` may return while the worker is yet to be spawned
   (`reload.go:272`; `Stop`'s comment at line 307 says it ends everything).  The
   program's own `main` never calls them at the same time.  Rounds still do not
   overlap (`ReloaderImplementsRounds`) and every `Stop` comes back
   (`StopIsNeverStuck`).
2. After a `Start` that failed at the file watcher, `Trigger` answers
   `ErrNotStarted` (`reload.go:297`; the comments at lines 327 and 341 say
   `ErrStopped` after any stop, and `ErrNotStarted` only before `Start`).  It
   takes the failure of the watcher (`StoppedIsAnswered`).
3. A probe sent after all earlier ones were answered may still join the finished
   execution, because `done` is closed before `inflight` is cleared
   (`health.go:324`); the test at `health_test.go:533` expects a new execution.
   An entry already cleared is never used again (`StaleOnlyInWindow`).
4. A listener that failed before any cancellation is not reported if `Run`'s
   select finds the context cancelled as well: the error is discarded and `Run`
   returns nil (`server.go:197` and 251; the contract at lines 145–146).  It
   takes the cancellation (`EarlyEndReported`).

## 6. What is left, and the plan

Not modelled, in the modelled components: the text of a response and of a log
line, the fields of a configuration that no property tells apart, environment
variables that cannot be parsed (they make `Load` fail, as an unreadable file
does), the whitelist of `reload.sources`, flag parsing, constructors that cannot
fail with the arguments `main` gives them, the listen address, the resolution of
the server's options, the construction of the logger, and the Windows build, in
which the SIGHUP trigger does nothing.  The scripts are developer tooling.

What would add most, in this order:

1. The liveness of the process: it ends after SIGTERM if its rounds end, on a
   smaller instance than `process_run`.
2. `Config` by itself: `Validate`'s order over all fields and its normalisation,
   as operators checked against the rules its comment lists (`Load`'s comment,
   at `config.go:102`, promises an error for an empty required field, which only
   `Validate` reports).
3. What the services promise, proved of `ReloadService` and `ReadinessService`
   themselves and carried over to every implementation by the refinements.
4. An abstract specification of what the access log promises, implemented by
   `Exchange`.
