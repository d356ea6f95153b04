--------------------------- MODULE ClusterShutdown ---------------------------
(***************************************************************************)
(* The primary's bounded wait (cluster-primary.ts, shutdown) against one    *)
(* worker's graceful shutdown, on one clock.  The worker's event loop may   *)
(* hang at any time: such a worker is the one the wait is there for.        *)
(***************************************************************************)
EXTENDS GracefulShutdown

CONSTANT SHUTDOWN_SLACK_MS

ASSUME SlackAssumption == SHUTDOWN_SLACK_MS \in Nat

VARIABLES
    primary,   \* "up", "waiting" for its worker, or "exited"
    waitLeft,  \* ticks left of delay(waitMs)
    told,      \* the forwarded signal is on its way to the worker
    hung,      \* the worker's event loop no longer turns
    killed     \* the primary sent SIGKILL

clusterVars == <<vars, primary, waitLeft, told, hung, killed>>

\* Mutant of WaitMs: a phase of the worker's sequence left out.
WaitMs_NoJobDrain == DrainDelayMs + ForceAfterMs + SHUTDOWN_SLACK_MS

WaitMs == DrainDelayMs + ForceAfterMs + JobDrainMs + SHUTDOWN_SLACK_MS

ClusterInit ==
    /\ Init
    /\ primary = "up"
    /\ waitLeft = WaitMs
    /\ told = FALSE
    /\ hung = FALSE
    /\ killed = FALSE

(* shutdown(signal) up to its await: the worker is signalled first.         *)
PrimaryShutdown ==
    /\ primary = "up"
    /\ primary' = "waiting"
    /\ told' = TRUE
    /\ UNCHANGED <<vars, waitLeft, hung, killed>>

(* Delivery takes no time; a second signal finds shuttingDown set.          *)
SignalDelivered ==
    /\ told
    /\ ~hung
    /\ told' = FALSE
    /\ IF shuttingDown THEN UNCHANGED vars ELSE OnSignal
    /\ UNCHANGED <<primary, waitLeft, hung, killed>>

(* The last 'exit' event ends the wait: the worker let its channel go.      *)
PrimaryDrained ==
    /\ primary = "waiting"
    /\ phase = "finished"
    /\ primary' = "exited"
    /\ UNCHANGED <<vars, waitLeft, told, hung, killed>>

PrimaryTimeout ==
    /\ primary = "waiting"
    /\ waitLeft = 0
    /\ phase # "finished"
    /\ primary' = "exited"
    /\ killed' = TRUE
    /\ UNCHANGED <<vars, waitLeft, told, hung>>

(* Everything a worker does on its own, its shutdown sequence included.     *)
WorkerStep ==
    /\ ~hung
    /\ ~killed
    /\ \/ \E c \in Clients : \/ Connect(c) \/ SendRequest(c)
                             \/ HandlerReturns(c) \/ Disconnect(c)
       \/ \E j \in Jobs : RunJob(j) \/ JobEnds(j)
       \/ \E p \in Pools, u \in Clients \cup Jobs : Borrow(u, p) \/ Return(u, p)
       \/ Sequence
    /\ UNCHANGED <<primary, waitLeft, told, hung, killed>>

WorkerHangs ==
    /\ ~hung
    /\ phase # "finished"
    /\ hung' = TRUE
    /\ UNCHANGED <<vars, primary, waitLeft, told, killed>>

(* One clock for both timers; a hung worker's timers are not looked at.     *)
ClusterTick ==
    /\ primary = "waiting"
    /\ waitLeft > 0
    /\ waitLeft' = waitLeft - 1
    /\ \/ hung /\ UNCHANGED vars
       \/ ~hung /\ ~told /\ Tick
    /\ UNCHANGED <<primary, told, hung, killed>>

ClusterNext ==
    \/ PrimaryShutdown \/ SignalDelivered \/ PrimaryDrained \/ PrimaryTimeout
    \/ WorkerStep \/ WorkerHangs \/ ClusterTick

ClusterSpec == ClusterInit /\ [][ClusterNext]_clusterVars

-----------------------------------------------------------------------------
ClusterTypeOK ==
    /\ TypeOK
    /\ primary \in {"up", "waiting", "exited"}
    /\ waitLeft \in 0..WaitMs
    /\ told \in BOOLEAN
    /\ hung \in BOOLEAN
    /\ killed \in BOOLEAN

(* operations.md: the kill of a straggler, and the cluster.drain.timeout    *)
(* logged with it, mean that a worker really is stuck.                      *)
KilledOnlyIfStuck == killed => hung

(* What a worker's sequence may still take: the rest of the timer it is at, *)
(* and the budgets of all that comes after.                                 *)
StillNeeded ==
    timer + (IF phase = "serving" THEN DrainDelayMs ELSE 0)
          + (IF phase \in {"serving", "delaying"} THEN ForceAfterMs ELSE 0)
          + (IF phase \in {"serving", "delaying", "closing"} THEN JobDrainMs ELSE 0)
          + (IF phase \in {"serving", "delaying", "closing", "drainingJobs"} THEN DrainTimeMs ELSE 0)

(* While the primary waits, its wait outlasts whatever the sequence of a    *)
(* worker that is not stuck may still need, its pools' drain included.      *)
WaitCoversDrain ==
    primary = "waiting" /\ ~hung /\ phase # "finished" => waitLeft > StillNeeded
==============================================================================
