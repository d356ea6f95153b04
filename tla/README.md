# nestjs-ddd-lean: TLA+ models, checks and proofs

This directory specifies the service template in TLA+: the cluster primary and
its workers, the start of a process from its configuration to its bound port
with the boot of the database sources in it, the shutdown sequence, the use of
pooled Oracle sessions, the path of an HTTP request from the body parser to its
answer, and the hop of a request to the legacy service. TLC checks every
interleaving on small instances; TLAPS proves the main safety properties for
every value of the constants. `PROJECT.json` lists the runs, the mutants
that show that each property can fail, the source lines each definition
stands for, the hazards and the findings.

Paths below are relative to the repository; the code is in `src/`.

## 1. Inventory

| Component | State it keeps | Operations | Correct when |
| --- | --- | --- | --- |
| Cluster primary, `src/infrastructure/cluster/cluster-primary.ts` | `liveWorkers`, `respawnTimestamps`, `leaderId`, `shuttingDown`, `notifyDrained` | fork, `onExit`, `shutdown(signal)`, bounded wait, SIGKILL | one leader; no more processes than sized for; the respawn cap holds; every worker hears of a shutdown; nothing survives the primary; only stuck workers are killed |
| Graceful shutdown, `src/infrastructure/lifecycle/*`, `src/main.ts:132-160` | `ShutdownState`, the force timer, the server's connections | `runGracefulShutdown` | readiness fails before the port closes; pools outlive the requests and jobs that use them; the whole takes no longer than its budgets |
| Job scheduler and runner, `src/interface/scheduler` | registered cron jobs, `JobRunner.current` | `run`, `stop(timeoutMs)` | runs of one job do not overlap; `stop` waits for every run there is |
| Connection provider and pool manager, `src/infrastructure/database/connection` | `clients`, `meta` | `init`, `ping`, `pingAll`, `health`, `poolStats`, `onModuleDestroy` | the boot fails exactly for a required source that never answered, and comes to a verdict |
| Semaphore, `src/common/utils/semaphore.util.ts` | `count`, `queue` | `with(fn)` | slots are conserved, no wake-up is lost |
| Oracle client, `src/infrastructure/database/clients/oracle.client.ts` | none of its own; the pool's sessions keep `clientId` and `callTimeout` | `withConnection`, `transaction`, `ping`, `stats`, `close` | a session never carries one caller's identity or timeout to the next; what a transaction reports is what was committed |
| Legacy forwarder, `src/infrastructure/legacy` | per request: `timedOut`, `settled` | five event handlers on two streams | one outcome per request that agrees with what the client was handed, at most one line in the ledger, no socket left open |
| Health controller, `src/interface/http/controllers/health.controller.ts` | none | `live`, `ready` | live while draining; ready only if it was not draining when the probe came and every implemented source answers |
| HTTP pipeline: guards, interceptors, pipes, formatter, exception filter, presenter, `src/interface/http` | none | one pass per request | one envelope per answer; the status follows from the error's kind; internal details are not shown |
| Request ids and logging, `src/infrastructure/logging` | log files | formatting, redaction | a failed request leaves a line that the id in the answer finds; the forwarder's log is its own file |
| Configuration, TLS options, `src/infrastructure/config`, `src/infrastructure/tls` | the validated object | `loadConfig`, `loadTlsOptions`, `toPoolAttributes` | what does not make sense together is refused before anything is opened |
| Bootstrap, `src/main.ts` | how far the start has come | `bootstrap()` | a process serves with all that its settings ask for and nothing else, or exits for a cause |
| Error origin, `src/common/utils/error-origin.util.ts` | none | `resolveErrorOrigin` | our own frame is named wherever the causes hold one, cyclic causes included |
| Boot rails, Swagger, DI factories, REPL | none | run once at start | - |
| Application and domain layers, shared results, problems, pagination | none | base classes, error types, one read-only use case | an error shows a client what it means to |

### How they interact

- The primary forks workers with an environment variable that makes one of them
  the leader; a worker's `JobScheduler` starts its jobs only if it is. The only
  way back is the `exit` event. `SIGTERM` and `SIGINT` go to the primary, which
  signals each worker and waits for the last `exit` event or its timer.
- A worker's signal handler runs `runGracefulShutdown`: it flips the flag the
  readiness probe reads, sleeps, closes the HTTP server with a force timer
  beside it, calls `JobScheduler.stop`, and then `app.close()`, which calls
  `PoolManager.onModuleDestroy`. A worker then releases its IPC channel, and its
  end is the primary's `exit` event.
- Request handlers and jobs borrow sessions through `PoolManager` and
  `OracleClient`; health pings are ordinary calls with a timeout of their own.
- At boot the connection provider creates the pools in turn and pings them
  through one `Semaphore`, with jitter, retries and back-off. The container is
  only built when that has ended well; the forwarder, the jobs and the port come
  after it, and every failure on the way is `process.exit(1)`.
- The legacy forwarder sits in front of everything but the request id and the
  access log: a path under its prefixes never reaches the guards. The other
  requests pass the body parser, the ids, three guards, the interceptors, the
  validation and the handler; whatever is thrown on the way ends in
  `GlobalExceptionFilter`, which asks the presenter what to show and
  `resolveErrorOrigin` what to log.
- Readiness reads the flag the shutdown sets, before it awaits the pings.

### What is hard here

Exit events that arrive after other workers have died or been replaced; signals that
cross exits; a bounded wait racing the last exit; two timers, in two processes, that
must agree; requests that keep coming on kept-alive connections while the server
closes; a snapshot of running jobs taken before an `await`; pools closed under
abandoned handlers; wake-ups that a newcomer overtakes; round trips that fail before
or after the server saw them, on sessions that go back to a pool; the events of two
sockets, in any order, with handlers that are installed late; rules between settings
that live in different files; an error of any shape, thrown at any depth, with
causes that may form a cycle; parts of a validation that settle after the answer.
`PROJECT.json` has each of these under `hazards`, at its line, with the properties
that would catch it.

## 2. Plan

In order of weight; all but I are done.

| | Module | Composes | State |
| --- | --- | --- | --- |
| A | `ClusterPrimary`, abstract `LeaderLease` | implements `LeaderLease` | modelled, checked, proved |
| B | `GracefulShutdown` | server, scheduler, pools of one process | modelled, checked, proved |
| C | `ClusterShutdown` | EXTENDS B with the primary's wait | modelled, checked, proved |
| D | `Semaphore` | - | modelled, checked, safety proved |
| E | `DatabaseBoot` | EXTENDS D | modelled, checked, proved |
| F | `OracleClient` | - | modelled, checked, proved |
| G | `LegacyForwarder`, abstract `ForwardPromise` | implements `ForwardPromise` | modelled, checked, safety proved |
| H | `Config`, `Bootstrap` | EXTENDS E with the settings | modelled, checked, safety proved |
| J | `ErrorOrigin`, `HttpErrors`, `HttpPipeline` | each EXTENDS the one before | modelled, checked, proved |
| I | `Readiness`: `health()` on busy pools with the pool's queue and a clock | E, F | open |

Every safety property a passing run checks is a theorem (section 5); what the
runs add to that is liveness. Still worth proving: that nothing in A, B and G can
get stuck, said as invariants (whoever waits, someone else can move), as it is
for D and E, and a measure that each step of a shutdown or of a boot lowers.

## 3. The modules

Every action is one handler, or the stretch of an `async` function between two
`await`s: JavaScript runs such a stretch without interruption. Definitions
whose name ends in `_Something` next to an action or operator are its mutants;
no specification uses them.

### ClusterPrimary and LeaderLease

`primaryVars` are the variables of `startPrimary`; `race` and `deadline` stand
for the `Promise.race` of `shutdown` and for `delay(waitMs)`. `processVars` are
the operating system's view: which processes are booting (no signal handlers
yet, so a signal kills them), serving or draining, which were forked as leader,
and which signals have not been delivered. `UnhandledExits` is the gap between
the two. `OnExit` is the whole handler with its four ways out (shutting down,
respawn off, capped, respawned); `OnSignal`, `DelayElapsed` and
`FinishShutdown` are the three stretches of `shutdown`. A worker may die at any
moment (`WorkerExits`). `Prune` is the `while` loop over `respawnTimestamps`,
defined as the suffix left after the stale prefix. `respawnLog` is a history of
all respawns, so that `RespawnRateCap` does not rest on the array the code
prunes.

`LeaderLease` is what the job scheduler needs of all this: at most one holder,
a new holder only after the last one is gone and never the same process again.
`LeaseRefined` says that the leaders alive in `ClusterPrimary` implement it.

### GracefulShutdown

`phase` is the `await` `runGracefulShutdown` is at, `timer` what is left of the
timer running beside that `await` (the delay, the force timer, `withTimeout` of
the job drain, the pools' drain time), `elapsed` the time since the signal.
`request` is the state of each client's connection: a handler whose connection
was cut, or whose client left, is `abandoned` and goes on working.
`ServerClosed` is `server.close`'s callback together with the synchronous start of
`JobScheduler.stop`, which takes its snapshot (`awaited`) and stops the cron
jobs. `PoolCloses` is one pool's `close(drainTimeSec)`; `Promise.allSettled`
lets them close in any order and lets one fail. Time passes only when the
sequence has nothing to do at once, so `elapsed` is the time the sequence
itself takes.

### ClusterShutdown

One worker's `GracefulShutdown` with the primary's `waitMs` running on the same
clock. `hung` is a worker whose event loop does not turn. It is there for one
question: is the primary's wait long enough?

### Semaphore and DatabaseBoot

`Semaphore` is `with(fn)`: `Enter` takes a slot or queues, `Leave` is the
`finally` block, which gives the slot back and wakes the head of the queue. A
woken call runs in a later microtask, so a new call may overtake it; the
`while` loop then makes it queue again.

`DatabaseBoot` EXTENDS it: each implemented source is a call. The configuration
(`requiredSources`, keys that name no source included, and `pingOnBoot`) is
chosen in the initial state. `JitterOver` is the one turn in which `map` calls
`with` for all of them. `PingFails` is the `catch` block with the retry, the
back-off (which keeps the slot) and the recording of a required failure.

### Config and Bootstrap

`Config` is the function from environment variables to settings, restricted to
what reaches across fields or files: `EnvString`, `EnvBool` and `EnvList` are the
readers (a blank is unset; a flag that is neither yes nor no stays what it is,
for the schema to refuse), one operator per namespace of `hydrate` with its
defaults, one per schema with its rules. `ResolveSecretRefs`, `ParseOracleUrl`
and `ToPoolAttributes` follow a source's credentials from the JSON to the pool;
`CreateTransportTargets` and `CreateDedicatedFileTargets` are the sinks of the
application's and the forwarder's logger. A value of a variable is one of the
few the rules tell apart: `"blank"`, `"maybe"` for a word that is no flag,
`"noUrl"`, `"missing"` and `"hollow"` for files that cannot be read or hold no PEM,
`"empty"` for a field of the JSON that is there and empty.

`Bootstrap` EXTENDS `DatabaseBoot` and `Config` with `bootstrap()` of `main.ts`,
one action per stretch between two awaits; `stage` is where it is. The
environment is chosen in the initial state and never changes; a worker's has the
`CLUSTER_LEADER` the primary forked it with, true or false;
`DatabaseStep` lets the container wait for the boot of the sources.

### LegacyForwarder and ForwardPromise

One request. `hop` is the outbound request: waiting for an answer, answering,
answered while the client's own message is still being sent, drained (both are
over), destroyed with its error still to come (`aborting`), or closed. `res`
is the client's response (`ended` is `end()` called but not written out),
`headers` says who wrote its head, `client` and `upload` where the client is;
`pipe()` buffers nothing here, so a message read to its end has been passed on.
`got` is a history of what was handed to a client that was still there.
A legacy service may answer before it has read the request. `req.pipe(outbound)`
then goes on, and the `error` and `timeout` handlers still listen (`Listening`):
a failure behind the end of the answer settles `failed` and destroys a response
that is not written out yet. Whether Node keeps the idle timer of a socket whose
answer has ended is its own affair: the model lets it fire there and relies on
nothing. `ConnectionClosesLate` is a client that leaves such a request when its
response is written out; whether `aborted` is still emitted then depends on
Node as well, and both are allowed.
`Settle` is the closure with its flag; `OnError` the error handler, which runs
in the same turn as the failure or the time-out but one turn after a plain
`destroy()` (`DestroyedErrors`). `ConnectionCloses` is the end of the client's
connection, whoever ends it: `aborted` fires only while the request message is
incomplete, and the `close` handler of the response only exists once the legacy
service has answered. A response that had ended when its connection died may or
may not count as finished. `PassOn` and `Forward` are the prefix match
and the headers; a path is the sequence of its segments, the last one empty behind a
slash. `UnderNoPrefix`, against which the match is judged, goes through the
`Cuts` of a path, the places between segments where a prefix may end.

`ForwardPromise` is what the rest of the service may rely on: parts of an answer
go out, then one outcome is settled that fits them, and nothing goes out later.
A completion has the whole answer behind it; a failure may come behind a whole
answer too, as long as that is not written out.

### ErrorOrigin, HttpErrors and HttpPipeline

`ErrorOrigin` is `resolveErrorOrigin` as a function on a graph of causes: the
walk with its depth cap and its visited set is a recursive function, a stack is
a sequence of frames, and a frame is in our code, in its build, or in a
dependency. `HttpErrors` has each error class as a record of what the presenter
and the filter ask of it (kind, message, whether it is presentable, what its
`toProblem` does), with `CatchAnswer` for what the client is shown and
`LogLevel` for what is logged. `HttpPipeline` takes one request along
`stage`: parser, request id, the guards for CSRF, JWT and roles, the deprecation
interceptor, the validation of the parts (in one turn, or part by part with
`async`), the handlers there are, and the formatter or the filter. A part that is
not valid rejects with zod's report or with what the schema's own code throws, an
async refinement in a schema that does not say so among it (`ValidationFailures`).
`lines` is what was logged of the request.

`outcome` is what the handler came to. An envelope goes out as it is, one of an
error too, and then under the success status of its route (`"envelope"`). A failed
Result whose error cannot be presented becomes an `UnprocessableEntityException`
with that error's own message, code and details, and an `HttpException` says what
its thrower put into it (`"asWritten"`): in these three the handler decides what a
client reads. `ShutdownBegins` may come at any step; `overtaken` is a history of
whether it came behind the look a readiness probe takes at the flag.

### OracleClient

Per pooled session both ends are kept: `clientId` and `unsent` are the driver's
attribute and whether a round trip has carried it yet, `serverId` is whom the
server takes the session for, `work` what is not committed. `Sent` is a round
trip that came back; `Broken` lists the states after one that did not, which
may or may not have reached the server. `Execute`, `Commits`, `CommitFails`,
`RollsBack` and the ping in `ClearContext` all go through them. `Release` is the
second half of `release`: `close({ drop })`, which itself may fail. The
configuration of the source is chosen in the initial state.

## 4. The runs

| Run | Instance | Shows |
| --- | --- | --- |
| `cluster` | 2 workers, with respawn (cap 2, window 2 ticks, clock to 4) or without | capacity, respawn cap, every worker told, no survivor, kills only after the wait, leadership given up only at the cap; `LeaderLease` implemented; an empty pool is noticed, a shutdown ends, a dead leader is noticed |
| `cluster_leader_kept` | 2 workers, cap 1 | *violated*: finding 1 |
| `graceful` | 2 clients, 2 jobs, 2 pools, budgets 1, 2, 2, 1 | pools outlive the work; the job snapshot misses none; nothing is cut early; the grace period of `operations.md` is enough; readiness fails first; the sequence ends |
| `cluster_shutdown` | budgets 1, 2, 2; drain 1 < slack 2 | only a hung worker is killed |
| `cluster_shutdown_defaults` | the default budgets in seconds | *violated*: finding 2 |
| `semaphore` | 5 calls, 2 slots | slots conserved, no lost wake-up, every waiting call runs |
| `bootstrap` | 2 Oracle sources and a placeholder, 1 slot, 1 retry; every list of required keys, a key of no source and a blank among them; three base environments with any two settings changed; alone, as primary, as worker; port free or taken | the settings decide what starts and why it stops; what serves is what was asked for; the verdict on the databases is right; every start ends |
| `oracle_client` | 2 calls, 1 session, 2 users, every setting of the source | no statement runs as another call's user, no timeout is inherited, a transaction's outcome matches what is committed |
| `oracle_client_timeout` | the same with a source timeout and calls that ask for none | *violated*: finding 3 |
| `legacy_forwarder` | 1 request, every choice of headers, options, path and body; paths and prefixes with no, one and two slashes at the end | one outcome that fits what the client got (`ForwardPromise`); at most one line in the ledger, and none only for a client that left before the head of the answer; no socket left behind, the right paths and headers, the outbound socket released in the end |
| `legacy_forwarder_hang_up` | the same | *violated*: finding 4 |
| `http_pipeline` | 8 routes, every request and credential, 5 graphs of causes, 2 sources | handlers are guarded, answers honest, nothing internal shown that the handler did not write for the client, a findable line for each failure, one answer |

Why the bounds are enough. Two workers suffice for a leader and a follower to
die in either order with their exits still unhandled; a cap of 2 in a window of
2 on a clock of 4 lets entries expire, stay on the edge, and fill the window.
The clock goes on past `MaxTime` while a wait runs, so no wait is cut off by
the bound. Budgets are a few ticks, unequal where their order could matter; the
proofs cover all of them. Five calls on two slots let one queue, one be woken,
and one overtake it, with all the slots taken. One session and two calls is
every way in which a session passes from a call to the next; sessions share
nothing, so more of them add no new behaviour to a property of one session.
The same holds for one request, in the forwarder as in the pipeline: requests
share only what is read. Rules between settings relate two variables, so two
changes to an environment that is otherwise in order break each rule in every
way, and the three environments are those in which other rules apply. One slot
for two sources makes the second queue; what more slots and calls do to the
limiter is the question of `semaphore`. The graphs of causes are a cycle through
the root, one behind it, one past the depth cap, a self-cause and a chain that
ends early; frames repeat in one and are missing from another.

`CHECK_DEADLOCK FALSE` everywhere: these systems stop (the primary exits, a
process finishes, every call returns).

### Fairness

- `ClusterPrimary`: the primary's event loop runs its handlers, the kernel
  delivers `SIGKILL`, time passes. No worker is assumed to boot, to drain or to
  exit: the liveness of a shutdown is the primary's doing alone.
- `GracefulShutdown`: the event loop takes the sequence's own steps and time
  passes. No handler, job or client is assumed to finish.
- `Semaphore`: microtasks run and every `fn` settles.
- `Bootstrap`: the process takes its own steps, timers and microtasks
  included. A ping is assumed to settle only if `health.timeoutMs` is not 0,
  because only then does `oracle.client.ts:55` set a call timeout;
  `BootComesToAnEnd` is stated for that case. With 0, which the schema allows, a
  database that never answers holds the boot for ever.
- `LegacyForwarder`: the timer of the outbound socket fires when no byte can
  move on it, an answer without a body ends, and the error of a destroyed
  request is emitted. Nothing is assumed of the client or of the legacy service.
- `OracleClient` and `HttpPipeline` have no liveness property: calls and
  handlers may take for ever, and no code bounds a handler.

## 5. What is proved

All proofs hold for every set of clients, jobs, pools and calls and every
value of the budgets, caps and windows, under the named assumptions of the
modules, which say no more than that numbers are naturals and sets disjoint.

**ClusterPrimaryProofs.** `IInv` is the inductive invariant. `SingleLeader`
alone is not inductive: a respawn makes the replacement a leader because the
dead worker was `leaderId`, so one needs `LeaderInv` (a living leader *is*
`leaderId`) and `LiveInv` (whatever lives is in `liveWorkers`, so a handled
exit is of a dead process). `RespawnRateCap` speaks of the whole history and
the code of a pruned array, so `LogInv` ties them: the array is the end of the
history, and what is missing from it is older than the window;
`PruneDropsStalePrefix` shows that pruning keeps that. `PoolInv` bounds
`liveWorkers`, `RaceInv` relates the race to the pool and the deadline. From
`IInv` follow `TypeOK`, `SingleLeader`, `CapacityHeld`, `RespawnRateCap`,
`NoneUntold`, `NoSurvivor`, `DrainNoticed`, and the action properties
`KillOnlyAfterWait` and `WaitNeverExtended`. `LeaderGivenUpOnlyAtCap` needs one
fact more, that the history is in order of time (`LogOrdered`): then the prune
keeps exactly the entries within the window, and a full array is that many
respawns within it (`CapCountsTheWindow`). `LeaseImplemented` is the refinement
of `LeaderLease`, initial states and steps.

**GracefulShutdownProofs.** `ClockInv` says at each `await` how much of the
budget is left, `OrderInv` what has already been stopped. Together with types
they are inductive and give `EndsInBudget`, `PoolsOutliveWork`,
`SnapshotComplete` and `GivenUpAtDeadline`, beside `TypeOK` itself, and the
action property `ReadinessFailsFirst`: what is left of the delay's timer and
`elapsed` add up to the delay, so `server.close` comes when it is over.

**ClusterShutdownProofs.** Every step of the composition is a step of the
worker or a stutter (`WorkerSteps`), so the worker's invariant carries over;
`ClockAgreement` adds that the primary's clock and the worker's show the same
time until the worker hangs. `StillNeeded` is the rest of the worker's timer and
the budgets of all that comes after its phase; `ClockInv` bounds it by what is left
of the four budgets together, with `NoTimerYet` for a worker not told yet. So
`WaitCoversDrain`: a waiting primary has more time left than that, in every phase.
Both it and `KilledOnlyIfStuck` need the hypothesis
`DrainTimeMs < SHUTDOWN_SLACK_MS`, stated in the theorems; finding 2 is what
happens without it.

**SemaphoreProofs.** `SemInv`, the conjunction of types, `SlotsConserved`,
`QueueIsWaiting` and `NoLostWakeup`, is inductive, for any finite set of calls.
`SomeoneMoves` follows from all of them together: a call in the queue is never
left with all the slots free and nobody woken.

**BootstrapProofs.** For the boot of the sources `SemInv` is reused: a woken
call, a ping that settles and the one turn of `JitterOver` are shown to keep it,
the last with `Lined`, which says what an order of the calls leaves in the slots
and in the queue, for any finite set of sources. `PingInv` ties the ping loop of a
source to the place of its call (a ping runs only under a slot, a call that is
over has an answer or, if required, a failure), `PhaseInv` the calls and the
clients to the phase. At the verdict, when every call is over, they give
`ReadyMeansAnswered` and `FailedForARequiredSource`; neither is inductive alone,
since both say nothing before that turn. `PingsNeverStick` is the part of
`BootComesToAnEnd` that is an invariant: until the verdict some ping was woken, is
in flight or waits for its retry. `BootRefined` shows that `Bootstrap`
moves the sources only as `DatabaseBoot` does, so the invariant holds inside
every start of a process, whatever the environments are.

For the process around it, `SettingsAccepted` shows that `loadConfig` accepts an
environment exactly if it is `Coherent`, which speaks of the variables and not of
the settings made of them: each reader with its default (`FlagRead`, `TextRead`),
each source with its password looked up (`Resolved`, `SourceAccepted`), as many keys
as sources (`KeysDiffer`), then one lemma per namespace. A proof for every
environment found what the lists of the run had hidden: the first `Coherent` said
nothing of empty fields and pool sizes, which the schema refuses; it does now, and
the run has such lists. `StageInv` says of each stage what the ones before have done
and have not (nothing is opened on refused settings; behind the container the
sources are ready and the process is no primary; the forwarder has the log of its
settings, if it is asked for, and all the jobs have started where `RunsJobs`, none
elsewhere; an exit has its cause). With the boot's invariant it gives
`SettingsDecide` and `ServesAsConfigured`, which speaks of the variables again: the
log in `ForwarderLog`, the jobs in the one process that the primary marked, or that
is alone. `EnvironmentAssumption` is the shape of the parsed JSON: a list of sources
with the fields of the schema.

**LegacyForwarderProofs.** `HopInv` relates the two sockets: who wrote the head,
what was handed over and whether anything can still be open when the request has
been settled, behind the end of an answer as well; with the types it gives
`NoSocketLeftBehind`, which leaves the outbound request open in one case only, an
answer that went to the client whole ahead of the client's own message. `LogInv`
says the ledger holds exactly the line of `settled`, with this hop's 504 or 502 for
a failure whether or not a client was sent it, and `SentInv` that the outbound
headers are those of this request. `LedgerTruthful` follows; its last clause, that
only a client that left before the head ends without an outcome, is in `HopInv`.
`MatchInv` says that the request was passed on or forwarded as the code's match
decided, and `MatchesUnderPrefix` that this match, on normalised paths and prefixes,
is the same as lying under a prefix: `NormalizedIsCut` and `PrefixOfCut` take a
normalised path to one of its cuts. Together they give `ForwardedFaithfully`.
`PathAssumption` says that paths and prefixes are non-empty sequences of segments. A
prefix that ends in two slashes loses only one of them; the property says so, and
the run has such a prefix. `ForwardPromiseImplemented` is the refinement of
`ForwardPromise`, for any paths and prefixes.

**OracleClientProofs.** For any calls, sessions, users and timeouts. That no
statement runs under another user's identity is a fact about both ends of a
session at every moment: `PoolInv` says a session has one holder and lies in the
pool as it was made, `IdentityInv` that neither end of a held session knows
another user than the holder's, and that neither knows one once the session is
being closed. A round trip only moves the identity from one end to the other,
whether it comes back or not (`RoundTrips`). `WorkInv` says whose uncommitted
work a session has, `OutcomeInv` what a call that has one can have reported.
They are inductive together with `NoForeignIdentity`, `NoInheritedTimeout` and
`CommitMatchesOutcome`, which speak of histories and could not be so alone.
`TimeoutOverridesIfPositive` is the other side of finding 3: without an explicit 0
among the calls, each runs under the timeout it asked for.

**HttpPipelineProofs.** For any routes, requests, sources and causes. `GuardInv`
says that what a guard has established is still true of the request behind it, up
to the handler, `ValidInv` says of the parts of a schema which are
stored and which pending, `NoticeInv` that a response past its interceptor
carries the route's notices, `AnswerInv` that an answer and its lines were made
together, by the filter or by the formatter. They give `HandlerIsGuarded`,
`AnswerIsHonest`, `NothingInternalShown` (one lemma per way the filter can be
reached, on what it shows) and the action property `AnsweredOnce`. `Answers` is
what those lemmas say of every error, `Shows` what they say of those the handler
did not write for the client itself. That a ready probe looked at the flag before
it was set is `ProbeInv`, inductive beside the rest.
`LinesMatchAnswer` needs the walk down the causes as well, for every graph and
every depth cap: the code's walk with its visited list and the property's sets
of errors within reach are both recursive functions, and the induction over the
steps is stated for a set of numbers (`NatSetInduction`, from the well-founded
order of the naturals), where the library's induction theorem would need an
operator for a parameter.
`RoutesDeclared` says that a route has at most one deprecation and that its dates
are numbers, `GraphsClosed` that a cause is an error or nothing, `RoutesLoad` that
a decorator with options that do not parse stops the application from loading,
`DepthAssumption` that the cap is positive: it is 10 in the source.

**Model-checked only.** Liveness (`ShutdownEnds`, `DeadLeaderNoticed`,
`ShutdownFinishes`, `EveryWaiterServed`, `BootComesToAnEnd`,
`OutboundReleased`), which needs fairness and `ENABLED`, out of reach of the
prover; and the four findings, which are counterexamples.

## 6. Findings

1. **Leadership can be lost for good** (`cluster-primary.ts:113`). If the leader
   exits while the respawn cap is reached it is not replaced and `leaderId`
   becomes undefined; later respawns fork followers only. The header of the file
   (line 41) says that exactly one worker is kept as the leader, and
   `docs/architecture/operations.md:119` names only respawn off and shutdown as
   exceptions.
2. **The primary's wait leaves out the pools' drain time**
   (`cluster-primary.ts:142`). With the default budgets, a worker whose request
   and job use up theirs still has `drainTimeSec` (10 s) to go, the primary
   only 2 s of slack: it kills a worker that is not stuck, against
   `operations.md:139`.
3. **An explicit call timeout of 0 is not an override** (`oracle.client.ts:55`).
   It is ignored: a reused session runs under the source's timeout, a new one
   under none, while `database.md:46` calls the option an override of the
   source's and the schema says that 0 is none.

4. **A client that leaves before the answer is logged as a failure of the
   legacy service** (`legacy-forwarder.ts:139`). The `close` handler is installed
   when the legacy service answers, and `aborted` only fires while the request
   message is incomplete: nobody sees a client hang up that has sent all of its
   request. The outbound request runs on, and if it then fails or times out
   `legacy.forward.failed` is logged, against the comment at line 154.

Smaller observations, without a run of their own:

- "Exactly one line per request" (`docs/guides/migrate-a-legacy-service.md:42`,
  `docs/architecture/logging.md:83`, `legacy-forwarder.ts:58-61`) does not hold for
  a client that leaves between the end of its upload and the head of the answer: if
  the answer has no body, the hop ends with no outcome and no line. A service that
  dies in the middle of its answer settles nothing either, until the server's own
  timeout closes the client and the request is logged as `aborted`.
- `timeoutMs` of the forwarder is an idle timeout of the outbound socket; a slow
  client can trigger it. The prefix `/` only matches the path `/`.
- The filter answers with the raw inbound id when it runs before the request id
  middleware has (a body the parser refuses).
- A client that leaves while it still sends a request that was answered in full may
  leave the outbound request open, against the comment at
  `legacy-forwarder.ts:165-166`: the close handler has run by then, and it depends
  on Node whether `aborted` is emitted.
- The readiness flag is read before the pings are awaited, so a probe under way
  when it is set may be told "ready" in a process that has begun to drain, where
  `operations.md:29` asks for a process that is not shutting down.
- The error of a failed Result that cannot be presented shows its own message, code
  and details in the 422 (`response-formatter.interceptor.ts:77-85`), a driver's
  text if that is what the Result holds, against `http-interface.md:44`.
- An envelope with `success: false` that a handler returns goes out at the success
  status of its route.
- Parts of an `async` validation that settle after the first failure still store
  their result; nobody reads it.
- The target URL of the forwarder and the scheduler's timezone are judged only
  after the pools exist, and jobs start before the port is bound.
- When `createPool` fails for a later source the earlier pools are left to
  `process.exit`.
- A `requiredSources` list that names no configured source makes every source
  optional.

## 7. Outside the models

Taken as given, and marked external in the map: `http.Server` (which
connections a `close` waits for and a `closeAllConnections` ends), the
node-oracledb driver (a pool lends a session to one caller at a time, rolls back
what is left on a session it takes back, sends a changed `clientId` with the
next round trip), and the operating system's processes and signals.

Express and Nest are external as well, as far as their order goes (which
middleware, guard and interceptor runs when, and that what is thrown reaches the
filter), and Node's sockets, as far as which event follows which.

Not modelled, with the reason:

- The boot rails of the cluster log a product of two numbers and decide nothing.
- The once-only flag of the Oracle driver, the timings of a pool, `poolStats` and
  other readers: no property asks about them.
- The LOB helper has no caller; the `Result` helpers and pagination are values.
- `truncateBytes` is a loop over code units whose one question, whether it cuts a
  character in half, is about UTF-8; `OracleClient` takes users already cut.
- The number ranges of the http, shutdown and pool settings are the assumptions
  on the constants of the other modules; `Config` leaves them out.
- Redaction, log layout, rotation (in a cluster every worker rolls the same
  file), Swagger, CORS, dependency injection and the REPL are the framework's or
  pure output.
- The wait of a health ping for a free session needs the pool's queue and a
  clock beside every call that holds a session; `HttpPipeline` takes a ping as
  up or down.
- Of the Oracle client the logging of slow statements and the fetch defaults.
