-------------------------- MODULE GracefulShutdown --------------------------
(***************************************************************************)
(* One serving process from the first termination signal to the end of its  *)
(* drain: runGracefulShutdown with the HTTP server, the job scheduler and   *)
(* the database pools it closes in turn.                                    *)
(*                                                                          *)
(* A step is a stretch of the event loop between two awaits.  Time passes   *)
(* only when the sequence has nothing left to do at once, so `elapsed' is   *)
(* the time the sequence itself takes.                                      *)
(***************************************************************************)
EXTENDS Integers

CONSTANTS
    Clients,       \* peers that may hold a connection
    Jobs,          \* jobs the scheduler registered; {} when it is disabled
    Pools,         \* configured database sources
    DrainDelayMs, ForceAfterMs, JobDrainMs, \* config.shutdown, in ticks
    DrainTimeMs    \* pool.close(drainTimeSec), in ticks

ASSUME BudgetAssumption ==
    /\ DrainDelayMs \in Nat
    /\ ForceAfterMs \in Nat
    /\ JobDrainMs \in Nat
    /\ DrainTimeMs \in Nat

ASSUME WorkersDiffer == Clients \cap Jobs = {}

VARIABLES
    shuttingDown,  \* ShutdownState: what /health/ready reads
    phase,         \* the await runGracefulShutdown is at
    timer,         \* ticks left of the one timer that await has running
    elapsed,       \* ticks since the first signal
    listening,     \* the server accepts connections
    request,       \* per client: its connection and the handler working for it
    cut,           \* history: clients whose request the server cut
    cronRunning,   \* the cron jobs are started
    running,       \* jobs with a run in flight (JobRunner.current)
    awaited,       \* JobScheduler.stop's snapshot of running
    outlasted,     \* history: runs the job drain gave up on
    pool,          \* per source, the driver's pool
    borrowed       \* per source, who holds a connection of it

serverVars == <<listening, request, cut>>
jobVars == <<cronRunning, running, awaited, outlasted>>
poolVars == <<pool, borrowed>>
sequenceVars == <<shuttingDown, phase, timer, elapsed>>
vars == <<sequenceVars, serverVars, jobVars, poolVars>>

Phases == {"serving", "delaying", "closing", "drainingJobs", "closingApp", "finished"}

(* A handler whose connection is gone still runs: "abandoned".              *)
RequestStates == {"none", "idle", "inFlight", "abandoned"}

Connected == {c \in Clients : request[c] \in {"idle", "inFlight"}}

\* Everyone who may be using the database.
Working == {c \in Clients : request[c] \in {"inFlight", "abandoned"}} \cup running

Holding == UNION {borrowed[p] : p \in Pools}

Init ==
    /\ shuttingDown = FALSE
    /\ phase = "serving"
    /\ timer = 0
    /\ elapsed = 0
    /\ listening = TRUE
    /\ request = [c \in Clients |-> "none"]
    /\ cut = {}
    /\ cronRunning = (Jobs # {})
    /\ running = {}
    /\ awaited = {}
    /\ outlasted = {}
    /\ pool = [p \in Pools |-> "open"]
    /\ borrowed = [p \in Pools |-> {}]

-----------------------------------------------------------------------------
(* Clients and their request handlers.                                      *)

Connect(c) ==
    /\ listening
    /\ request[c] = "none"
    /\ request' = [request EXCEPT ![c] = "idle"]
    /\ UNCHANGED <<sequenceVars, listening, cut, jobVars, poolVars>>

(* A kept-alive connection may carry a new request even while closing.      *)
SendRequest(c) ==
    /\ request[c] = "idle"
    /\ request' = [request EXCEPT ![c] = "inFlight"]
    /\ UNCHANGED <<sequenceVars, listening, cut, jobVars, poolVars>>

HandlerReturns(c) ==
    /\ c \notin Holding
    /\ \/ request[c] = "inFlight" /\ request' \in {[request EXCEPT ![c] = "idle"],
                                                   [request EXCEPT ![c] = "none"]}
       \/ request[c] = "abandoned" /\ request' = [request EXCEPT ![c] = "none"]
    /\ UNCHANGED <<sequenceVars, listening, cut, jobVars, poolVars>>

(* The client leaves, or the keep-alive timeout closes an idle connection.  *)
Disconnect(c) ==
    /\ \/ request[c] = "idle" /\ request' = [request EXCEPT ![c] = "none"]
       \/ request[c] = "inFlight" /\ request' = [request EXCEPT ![c] = "abandoned"]
    /\ UNCHANGED <<sequenceVars, listening, cut, jobVars, poolVars>>

(* getConnection on an open pool; on any other it fails and changes nothing. *)
Borrow(u, p) ==
    /\ u \in Working
    /\ pool[p] = "open"
    /\ borrowed' = [borrowed EXCEPT ![p] = @ \cup {u}]
    /\ UNCHANGED <<sequenceVars, serverVars, jobVars, pool>>

Return(u, p) ==
    /\ u \in borrowed[p]
    /\ borrowed' = [borrowed EXCEPT ![p] = @ \ {u}]
    /\ UNCHANGED <<sequenceVars, serverVars, jobVars, pool>>

-----------------------------------------------------------------------------
(* Cron jobs: a tick of a job still running is skipped.                     *)

RunJob(j) ==
    /\ cronRunning
    /\ j \notin running
    /\ running' = running \cup {j}
    /\ UNCHANGED <<sequenceVars, serverVars, cronRunning, awaited, outlasted, poolVars>>

JobEnds(j) ==
    /\ j \in running
    /\ j \notin Holding
    /\ running' = running \ {j}
    /\ UNCHANGED <<sequenceVars, serverVars, cronRunning, awaited, outlasted, poolVars>>

-----------------------------------------------------------------------------
(* runGracefulShutdown, await by await.                                     *)

\* Mutant of OnSignal: the drain delay is skipped.
OnSignal_NoDelay ==
    /\ ~shuttingDown
    /\ shuttingDown' = TRUE
    /\ phase' = "delaying"
    /\ timer' = 0
    /\ UNCHANGED <<elapsed, serverVars, jobVars, poolVars>>

OnSignal ==
    /\ ~shuttingDown
    /\ shuttingDown' = TRUE
    /\ phase' = "delaying"
    /\ timer' = DrainDelayMs
    /\ UNCHANGED <<elapsed, serverVars, jobVars, poolVars>>

\* Mutant of DelayElapsed: the force timer is armed without its delay.
DelayElapsed_NoTimer ==
    /\ phase = "delaying"
    /\ timer = 0
    /\ phase' = "closing"
    /\ listening' = FALSE
    /\ request' = [c \in Clients |-> IF request[c] = "idle" THEN "none" ELSE request[c]]
    /\ UNCHANGED <<shuttingDown, timer, elapsed, cut, jobVars, poolVars>>

(* Arms the force timer, drops idle connections and stops listening.        *)
DelayElapsed ==
    /\ phase = "delaying"
    /\ timer = 0
    /\ phase' = "closing"
    /\ timer' = ForceAfterMs
    /\ listening' = FALSE
    /\ request' = [c \in Clients |-> IF request[c] = "idle" THEN "none" ELSE request[c]]
    /\ UNCHANGED <<shuttingDown, elapsed, cut, jobVars, poolVars>>

\* Mutant of ForceTimerFires: only idle connections are closed.
ForceTimerFires_IdleOnly ==
    /\ phase = "closing"
    /\ timer = 0
    /\ Connected # {}
    /\ request' = [c \in Clients |-> IF request[c] = "idle" THEN "none" ELSE request[c]]
    /\ UNCHANGED <<sequenceVars, listening, cut, jobVars, poolVars>>

(* closeAllConnections                                                      *)
ForceTimerFires ==
    /\ phase = "closing"
    /\ timer = 0
    /\ Connected # {}
    /\ cut' = cut \cup {c \in Clients : request[c] = "inFlight"}
    /\ request' = [c \in Clients |-> CASE request[c] = "idle" -> "none"
                                       [] request[c] = "inFlight" -> "abandoned"
                                       [] OTHER -> request[c]]
    /\ UNCHANGED <<sequenceVars, listening, jobVars, poolVars>>

(* closeApp reaches PoolManager.onModuleDestroy: every pool starts closing. *)
CloseApp ==
    /\ phase' = "closingApp"
    /\ timer' = DrainTimeMs
    /\ pool' = [p \in Pools |-> "closing"]

\* Mutants of ServerClosed: jobs are not drained; cron jobs are not stopped;
\* the job drain is counted from the signal, whatever time is already spent.
ServerClosed_NoDrain ==
    /\ phase = "closing"
    /\ Connected = {}
    /\ cronRunning' = FALSE
    /\ awaited' = running
    /\ CloseApp
    /\ UNCHANGED <<shuttingDown, elapsed, serverVars, running, outlasted, borrowed>>
ServerClosed_CronKept ==
    /\ phase = "closing"
    /\ Connected = {}
    /\ awaited' = running
    /\ IF running = {}
         THEN CloseApp
         ELSE phase' = "drainingJobs" /\ timer' = JobDrainMs /\ UNCHANGED pool
    /\ UNCHANGED <<shuttingDown, elapsed, serverVars, cronRunning, running,
                   outlasted, borrowed>>
ServerClosed_FromSignal ==
    /\ phase = "closing"
    /\ Connected = {}
    /\ cronRunning' = FALSE
    /\ awaited' = running
    /\ IF running = {}
         THEN CloseApp
         ELSE phase' = "drainingJobs" /\ timer' = JobDrainMs - elapsed /\ UNCHANGED pool
    /\ UNCHANGED <<shuttingDown, elapsed, serverVars, running, outlasted, borrowed>>

(* The close callback, and JobScheduler.stop up to its first real wait.     *)
ServerClosed ==
    /\ phase = "closing"
    /\ Connected = {}
    /\ cronRunning' = FALSE
    /\ awaited' = running
    /\ IF running = {}
         THEN CloseApp
         ELSE phase' = "drainingJobs" /\ timer' = JobDrainMs /\ UNCHANGED pool
    /\ UNCHANGED <<shuttingDown, elapsed, serverVars, running, outlasted, borrowed>>

JobsDrained ==
    /\ phase = "drainingJobs"
    /\ awaited \cap running = {}
    /\ CloseApp
    /\ UNCHANGED <<shuttingDown, elapsed, serverVars, jobVars, borrowed>>

JobDrainTimeout ==
    /\ phase = "drainingJobs"
    /\ timer = 0
    /\ awaited \cap running # {}
    /\ outlasted' = awaited \cap running
    /\ CloseApp
    /\ UNCHANGED <<shuttingDown, elapsed, serverVars, cronRunning, running, awaited,
                   borrowed>>

\* Mutant of PoolCloses: pools are closed one after another.
PoolCloses_InTurn(p) ==
    /\ pool[p] = "closing"
    /\ borrowed[p] = {} \/ timer = 0
    /\ pool' = [pool EXCEPT ![p] = "closed"]
    /\ borrowed' = [borrowed EXCEPT ![p] = {}]
    /\ timer' = DrainTimeMs
    /\ UNCHANGED <<shuttingDown, phase, elapsed, serverVars, jobVars>>

(* The driver: a pool closes when nobody holds a connection of it, or when  *)
(* its drain time is over, taking the connections along.                    *)
PoolCloses(p) ==
    /\ pool[p] = "closing"
    /\ borrowed[p] = {} \/ timer = 0
    /\ pool' = [pool EXCEPT ![p] = "closed"]
    /\ borrowed' = [borrowed EXCEPT ![p] = {}]
    /\ UNCHANGED <<sequenceVars, serverVars, jobVars>>

(* allSettled resolves, and with it app.close(); the process lets go.       *)
Finish ==
    /\ phase = "closingApp"
    /\ \A p \in Pools : pool[p] = "closed"
    /\ phase' = "finished"
    /\ UNCHANGED <<shuttingDown, timer, elapsed, serverVars, jobVars, poolVars>>

(* Something the sequence waits for has already happened.                   *)
Due ==
    \/ phase = "closing" /\ Connected = {}
    \/ phase = "drainingJobs" /\ awaited \cap running = {}
    \/ phase = "closingApp" /\ \A p \in Pools : borrowed[p] = {}

Tick ==
    /\ phase \notin {"serving", "finished"}
    /\ timer > 0
    /\ ~Due
    /\ timer' = timer - 1
    /\ elapsed' = elapsed + 1
    /\ UNCHANGED <<shuttingDown, phase, serverVars, jobVars, poolVars>>

Sequence ==
    \/ DelayElapsed \/ ForceTimerFires \/ ServerClosed
    \/ JobsDrained \/ JobDrainTimeout
    \/ (\E p \in Pools : PoolCloses(p))
    \/ Finish

Next ==
    \/ \E c \in Clients : \/ Connect(c) \/ SendRequest(c)
                          \/ HandlerReturns(c) \/ Disconnect(c)
    \/ \E j \in Jobs : RunJob(j) \/ JobEnds(j)
    \/ \E p \in Pools, u \in Clients \cup Jobs : Borrow(u, p) \/ Return(u, p)
    \/ OnSignal
    \/ Sequence
    \/ Tick

Spec == Init /\ [][Next]_vars

(* The event loop takes the sequence's steps and time passes; no handler,   *)
(* job or client is assumed ever to finish.                                 *)
FairSpec == Spec /\ WF_vars(Sequence) /\ WF_vars(Tick)

-----------------------------------------------------------------------------
TypeOK ==
    /\ shuttingDown \in BOOLEAN
    /\ phase \in Phases
    /\ timer \in Nat
    /\ elapsed \in Nat
    /\ listening \in BOOLEAN
    /\ request \in [Clients -> RequestStates]
    /\ cut \subseteq Clients
    /\ cronRunning \in BOOLEAN
    /\ running \subseteq Jobs
    /\ awaited \subseteq Jobs
    /\ outlasted \subseteq Jobs
    /\ pool \in [Pools -> {"open", "closing", "closed"}]
    /\ borrowed \in [Pools -> SUBSET (Clients \cup Jobs)]

(* Pools outlive the work using them: once one begins to close, no request  *)
(* still has its client waiting, and every job still running was given the  *)
(* whole job drain.                                                         *)
PoolsOutliveWork ==
    (\E p \in Pools : pool[p] # "open") =>
        /\ \A c \in Clients : request[c] # "inFlight"
        /\ running \subseteq outlasted

(* The snapshot of stop() covers every run: none starts once it was taken.  *)
SnapshotComplete ==
    phase \in {"drainingJobs", "closingApp", "finished"} => running \subseteq awaited

(* Nothing is given up early: a request is cut only after the drain delay   *)
(* and the force deadline, a job only after the delay and the job drain.    *)
GivenUpAtDeadline ==
    /\ cut # {} => elapsed >= DrainDelayMs + ForceAfterMs
    /\ outlasted # {} => elapsed >= DrainDelayMs + JobDrainMs

(* The sequence never takes longer than the grace period operations.md      *)
(* tells the supervisor to allow, whatever clients, handlers and jobs do.   *)
EndsInBudget == elapsed <= DrainDelayMs + ForceAfterMs + JobDrainMs + DrainTimeMs

(* The port closes only after readiness has failed for the whole delay.     *)
ReadinessFailsFirst ==
    [][listening /\ ~listening' => shuttingDown /\ elapsed >= DrainDelayMs]_vars

(* Once begun, the shutdown ends, even when handlers and jobs never return. *)
ShutdownFinishes == shuttingDown ~> phase = "finished"
=============================================================================
