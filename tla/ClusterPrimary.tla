--------------------------- MODULE ClusterPrimary ---------------------------
(***************************************************************************)
(* The cluster primary (src/src/infrastructure/cluster/cluster-primary.ts)  *)
(* and the worker processes it forks.  The primary is one event loop: a     *)
(* handler of it is one step.  Worker processes die, receive signals and    *)
(* become ready on their own, and the primary learns of a death only when   *)
(* the 'exit' event of that worker is handled.                              *)
(***************************************************************************)
EXTENDS Integers, Sequences, FiniteSets

CONSTANTS
    ConfiguredWorkers,   \* cluster.workers; 0 asks for one worker per core
    CpuCount,            \* os.cpus().length
    RespawnMaxPerMinute, \* cluster.respawnMaxPerMinute
    RESPAWN_WINDOW_MS,   \* the rolling window of the cap, in clock ticks
    DrainDelayMs, ForceAfterMs, JobDrainMs, \* config.shutdown, in clock ticks
    SHUTDOWN_SLACK_MS,
    MaxTime              \* bound: the clock stops here unless a wait is running

ASSUME ConfigAssumption ==
    /\ ConfiguredWorkers \in Nat
    /\ CpuCount \in Nat
    /\ RespawnMaxPerMinute \in Nat
    /\ RESPAWN_WINDOW_MS \in Nat
    /\ DrainDelayMs \in Nat
    /\ ForceAfterMs \in Nat
    /\ JobDrainMs \in Nat
    /\ SHUTDOWN_SLACK_MS \in Nat
    /\ MaxTime \in Nat

VARIABLES
    \* The primary's own state.
    respawn,           \* cluster.respawn: configuration, never written
    liveWorkers,       \* ids in the Map: forked, and no 'exit' event handled yet
    respawnTimestamps, \* the respawns the cap still remembers
    leaderId,          \* id of the worker forked as leader, or NoLeader
    shuttingDown,      \* the flag both signal handlers and onExit read
    race,              \* the Promise.race of shutdown()
    deadline,          \* when delay(waitMs) fires; NoDeadline before shutdown
    exited,            \* processApi.exit(0) has been called
    \* The operating system's view.
    nextId,            \* id the next fork gets
    booting,           \* processes without signal handlers yet
    serving,           \* processes listening, with signal handlers installed
    draining,          \* processes running their graceful shutdown
    leaders,           \* ids forked with CLUSTER_LEADER=true
    termed, killed,    \* processes with an undelivered SIGTERM/SIGINT, SIGKILL
    pendingSignals,    \* signals the primary has not handled yet
    now,
    respawnLog         \* history: when each respawn happened

primaryVars == <<respawn, liveWorkers, respawnTimestamps, leaderId,
                 shuttingDown, race, deadline, exited>>
processVars == <<nextId, booting, serving, draining, leaders, termed, killed>>
vars == <<primaryVars, processVars, pendingSignals, now, respawnLog>>

ResolveWorkerCount(configured, cpus) ==
    LET requested == IF configured > 0 THEN configured ELSE cpus
    IN  IF requested > 1 THEN requested ELSE 1

workerCount == ResolveWorkerCount(ConfiguredWorkers, CpuCount)

WaitMs == DrainDelayMs + ForceAfterMs + JobDrainMs + SHUTDOWN_SLACK_MS

Signals == {"SIGTERM", "SIGINT"}
NoLeader == 0
NoDeadline == -1

Alive == booting \cup serving \cup draining

\* Dead processes whose 'exit' event the primary has still to handle.
UnhandledExits == liveWorkers \ Alive

-----------------------------------------------------------------------------
(* The state startPrimary leaves: every worker forked, index 0 the leader.  *)
Init ==
    /\ respawn \in BOOLEAN
    /\ liveWorkers = 1..workerCount
    /\ respawnTimestamps = <<>>
    /\ leaderId = 1
    /\ shuttingDown = FALSE
    /\ race = "idle"
    /\ deadline = NoDeadline
    /\ exited = FALSE
    /\ nextId = workerCount + 1
    /\ booting = 1..workerCount
    /\ serving = {}
    /\ draining = {}
    /\ leaders = {1}
    /\ termed = {}
    /\ killed = {}
    /\ pendingSignals = {}
    /\ now = 0
    /\ respawnLog = <<>>

(* while (length && ts[0] < windowStart) shift(): the stale prefix goes.    *)
Prune(ts, windowStart) ==
    LET stale == CHOOSE n \in 0..Len(ts) :
                    /\ \A i \in 1..n : ts[i] < windowStart
                    /\ n < Len(ts) => ts[n + 1] >= windowStart
    IN  SubSeq(ts, stale + 1, Len(ts))

FreshTimestamps == Prune(respawnTimestamps, now - RESPAWN_WINDOW_MS)

\* Mutants of AtRespawnCap: an off-by-one, and stale respawns still counted.
AtRespawnCap_OffByOne == Len(FreshTimestamps) > RespawnMaxPerMinute
AtRespawnCap_Unpruned == Len(respawnTimestamps) >= RespawnMaxPerMinute

AtRespawnCap == Len(FreshTimestamps) >= RespawnMaxPerMinute

-----------------------------------------------------------------------------
(* Branches of onExit, for the exited worker w.                             *)

\* Mutant of ForkReplacement: the dead worker stays.
ForkReplacement_NoDelete(w, isLeader) ==
    /\ liveWorkers' = liveWorkers \cup {nextId}
    /\ nextId' = nextId + 1
    /\ booting' = booting \cup {nextId}
    /\ leaders' = IF isLeader THEN leaders \cup {nextId} ELSE leaders
    /\ leaderId' = IF isLeader THEN nextId ELSE leaderId
    /\ respawnTimestamps' = Append(FreshTimestamps, now)
    /\ respawnLog' = Append(respawnLog, now)
    /\ UNCHANGED <<serving, draining, termed, killed>>

ForkReplacement(w, isLeader) ==
    /\ liveWorkers' = (liveWorkers \ {w}) \cup {nextId}
    /\ nextId' = nextId + 1
    /\ booting' = booting \cup {nextId}
    /\ leaders' = IF isLeader THEN leaders \cup {nextId} ELSE leaders
    /\ leaderId' = IF isLeader THEN nextId ELSE leaderId
    /\ respawnTimestamps' = Append(FreshTimestamps, now)
    /\ respawnLog' = Append(respawnLog, now)
    /\ UNCHANGED <<serving, draining, termed, killed>>

\* Mutant of LeaveUnreplaced: leaderId = undefined is forgotten.
LeaveUnreplaced_KeepLeader(w) ==
    /\ liveWorkers' = liveWorkers \ {w}
    /\ UNCHANGED <<leaderId, processVars, respawnLog>>

LeaveUnreplaced(w) ==
    /\ liveWorkers' = liveWorkers \ {w}
    /\ leaderId' = IF w = leaderId THEN NoLeader ELSE leaderId
    /\ UNCHANGED <<processVars, respawnLog>>

\* Mutant of OnExitDuringShutdown: any exit, not the last one, ends the wait.
OnExitDuringShutdown_FirstExit(w) ==
    /\ shuttingDown
    /\ liveWorkers' = liveWorkers \ {w}
    /\ race' = IF race = "waiting" THEN "drained" ELSE race
    /\ UNCHANGED <<respawnTimestamps, leaderId, processVars, respawnLog>>

(* After the shutdown began an exit only counts towards the drain.          *)
OnExitDuringShutdown(w) ==
    /\ shuttingDown
    /\ liveWorkers' = liveWorkers \ {w}
    /\ race' = IF liveWorkers' = {} /\ race = "waiting" THEN "drained" ELSE race
    /\ UNCHANGED <<respawnTimestamps, leaderId, processVars, respawnLog>>

OnExitRespawnOff(w) ==
    /\ ~shuttingDown
    /\ ~respawn
    /\ LeaveUnreplaced(w)
    /\ UNCHANGED <<respawnTimestamps, race>>

OnExitRateLimited(w) ==
    /\ ~shuttingDown
    /\ respawn
    /\ AtRespawnCap
    /\ LeaveUnreplaced(w)
    /\ respawnTimestamps' = FreshTimestamps
    /\ UNCHANGED race

\* Mutant of OnExitRespawned: shuttingDown is not looked at.
OnExitRespawned_InShutdown(w) ==
    /\ respawn
    /\ ~AtRespawnCap
    /\ ForkReplacement(w, w = leaderId)
    /\ UNCHANGED race

OnExitRespawned(w) ==
    /\ ~shuttingDown
    /\ respawn
    /\ ~AtRespawnCap
    /\ ForkReplacement(w, w = leaderId)
    /\ UNCHANGED race

\* Mutant of OnExit: a worker is replaced before its process is gone.
OnExit_BeforeDeath(w) ==
    /\ ~exited
    /\ w \in liveWorkers
    /\ \/ OnExitDuringShutdown(w)
       \/ OnExitRespawnOff(w)
       \/ OnExitRateLimited(w)
       \/ OnExitRespawned(w)
    /\ UNCHANGED <<respawn, shuttingDown, deadline, exited, pendingSignals, now>>

OnExit(w) ==
    /\ ~exited
    /\ w \in UnhandledExits
    /\ \/ OnExitDuringShutdown(w)
       \/ OnExitRespawnOff(w)
       \/ OnExitRateLimited(w)
       \/ OnExitRespawned(w)
    /\ UNCHANGED <<respawn, shuttingDown, deadline, exited, pendingSignals, now>>

-----------------------------------------------------------------------------
\* Mutants of BeginShutdown: dead workers are signalled too; an empty pool
\* is not looked for.
BeginShutdown_SignalDead ==
    /\ shuttingDown' = TRUE
    /\ termed' = termed \cup liveWorkers
    /\ deadline' = now + WaitMs
    /\ race' = IF liveWorkers = {} THEN "drained" ELSE "waiting"
BeginShutdown_NoEmptyCheck ==
    /\ shuttingDown' = TRUE
    /\ termed' = termed \cup (liveWorkers \cap Alive)
    /\ deadline' = now + WaitMs
    /\ race' = "waiting"

(* shutdown(signal), up to its await: a later signal finds the flag set.    *)
BeginShutdown ==
    /\ shuttingDown' = TRUE
    /\ termed' = termed \cup (liveWorkers \cap Alive)
    /\ deadline' = now + WaitMs
    /\ race' = IF liveWorkers = {} THEN "drained" ELSE "waiting"

\* Mutant of OnSignal: a second signal gives up waiting.
OnSignal_SecondKills(s) ==
    /\ ~exited
    /\ s \in pendingSignals
    /\ pendingSignals' = pendingSignals \ {s}
    /\ IF shuttingDown
         THEN race' = "timeout" /\ UNCHANGED <<shuttingDown, termed, deadline>>
         ELSE BeginShutdown
    /\ UNCHANGED <<respawn, liveWorkers, respawnTimestamps, leaderId, exited,
                   nextId, booting, serving, draining, leaders, killed, now, respawnLog>>

OnSignal(s) ==
    /\ ~exited
    /\ s \in pendingSignals
    /\ pendingSignals' = pendingSignals \ {s}
    /\ IF shuttingDown
         THEN UNCHANGED <<shuttingDown, termed, deadline, race>>
         ELSE BeginShutdown
    /\ UNCHANGED <<respawn, liveWorkers, respawnTimestamps, leaderId, exited,
                   nextId, booting, serving, draining, leaders, killed, now, respawnLog>>

DelayElapsed ==
    /\ ~exited
    /\ race = "waiting"
    /\ now >= deadline
    /\ race' = "timeout"
    /\ UNCHANGED <<respawn, liveWorkers, respawnTimestamps, leaderId, shuttingDown,
                   deadline, exited, processVars, pendingSignals, now, respawnLog>>

\* Mutant of FinishShutdown: stragglers are not killed.
FinishShutdown_NoKill ==
    /\ ~exited
    /\ race \in {"drained", "timeout"}
    /\ exited' = TRUE
    /\ UNCHANGED <<respawn, liveWorkers, respawnTimestamps, leaderId, shuttingDown, race,
                   deadline, nextId, booting, serving, draining, leaders, termed,
                   killed, pendingSignals, now, respawnLog>>

(* shutdown(signal), after its await.                                       *)
FinishShutdown ==
    /\ ~exited
    /\ race \in {"drained", "timeout"}
    /\ killed' = IF race = "timeout" THEN killed \cup (liveWorkers \cap Alive)
                                     ELSE killed
    /\ exited' = TRUE
    /\ UNCHANGED <<respawn, liveWorkers, respawnTimestamps, leaderId, shuttingDown, race,
                   deadline, nextId, booting, serving, draining, leaders, termed,
                   pendingSignals, now, respawnLog>>

-----------------------------------------------------------------------------
(* Worker processes and the operating system.                               *)

(* app.listen resolved: handlers are installed in the same continuation.    *)
WorkerListens(w) ==
    /\ w \in booting
    /\ booting' = booting \ {w}
    /\ serving' = serving \cup {w}
    /\ UNCHANGED <<primaryVars, nextId, draining, leaders, termed, killed,
                   pendingSignals, now, respawnLog>>

Vanish(w) ==
    /\ booting' = booting \ {w}
    /\ serving' = serving \ {w}
    /\ draining' = draining \ {w}
    /\ termed' = termed \ {w}
    /\ killed' = killed \ {w}
    /\ UNCHANGED <<primaryVars, nextId, leaders, pendingSignals, now, respawnLog>>

(* A crash, a failed boot, or a drain that finished and let its channel go. *)
WorkerExits(w) ==
    /\ w \in Alive
    /\ Vanish(w)

(* Without handlers a signal ends the process; with them it starts the      *)
(* drain once (ShutdownState.begin).                                        *)
DeliverTerm(w) ==
    /\ w \in termed
    /\ \/ /\ w \in booting
          /\ Vanish(w)
       \/ /\ w \notin booting
          /\ termed' = termed \ {w}
          /\ serving' = serving \ {w}
          /\ draining' = draining \cup {w}
          /\ UNCHANGED <<primaryVars, nextId, booting, leaders, killed,
                         pendingSignals, now, respawnLog>>

DeliverKill(w) ==
    /\ w \in killed
    /\ Vanish(w)

(* An operator or supervisor signals the primary, or its process group.     *)
SendSignal(s) ==
    /\ ~exited
    /\ pendingSignals' = pendingSignals \cup {s}
    /\ termed' \in {termed, termed \cup Alive}
    /\ UNCHANGED <<primaryVars, nextId, booting, serving, draining, leaders,
                   killed, now, respawnLog>>

Tick ==
    /\ ~exited
    /\ now < MaxTime \/ (race = "waiting" /\ now < deadline)
    /\ now' = now + 1
    /\ UNCHANGED <<primaryVars, processVars, pendingSignals, respawnLog>>

Next ==
    \/ \E w \in liveWorkers : OnExit(w)
    \/ \E s \in Signals : OnSignal(s) \/ SendSignal(s)
    \/ DelayElapsed
    \/ FinishShutdown
    \/ \E w \in Alive : WorkerListens(w) \/ WorkerExits(w)
                        \/ DeliverTerm(w) \/ DeliverKill(w)
    \/ Tick

Spec == Init /\ [][Next]_vars

(* The event loop runs its handlers, the kernel delivers signals and time   *)
(* passes; no worker is assumed to boot, to crash or to finish its drain.   *)
Fairness ==
    /\ WF_vars(\E w \in liveWorkers : OnExit(w))
    /\ WF_vars(\E s \in Signals : OnSignal(s))
    /\ WF_vars(DelayElapsed)
    /\ WF_vars(FinishShutdown)
    /\ WF_vars(\E w \in Alive : DeliverKill(w))
    /\ WF_vars(Tick)

FairSpec == Spec /\ Fairness

-----------------------------------------------------------------------------
TypeOK ==
    /\ respawn \in BOOLEAN
    /\ liveWorkers \subseteq 1..(nextId - 1)
    /\ respawnTimestamps \in Seq(Nat)
    /\ leaderId \in 0..(nextId - 1)
    /\ shuttingDown \in BOOLEAN
    /\ race \in {"idle", "waiting", "drained", "timeout"}
    /\ deadline \in Nat \cup {NoDeadline}
    /\ exited \in BOOLEAN
    /\ nextId \in Nat \ {0}
    /\ booting \subseteq 1..(nextId - 1)
    /\ serving \subseteq 1..(nextId - 1)
    /\ draining \subseteq 1..(nextId - 1)
    /\ leaders \subseteq 1..(nextId - 1)
    /\ termed \subseteq Alive
    /\ killed \subseteq Alive
    /\ pendingSignals \subseteq Signals
    /\ now \in Nat
    /\ respawnLog \in Seq(Nat)

(* No two processes forked with CLUSTER_LEADER=true are ever alive at once, *)
(* so no scheduled job runs in two workers, however exits, respawns and     *)
(* signals interleave.                                                      *)
SingleLeader == \A v, w \in leaders \cap Alive : v = w

(* The worker processes alive never outnumber the worker count for which    *)
(* the boot rail logged the database session capacity.                      *)
CapacityHeld == Cardinality(Alive) <= workerCount

(* No rolling window, its ends included, holds more respawns than the cap.  *)
RespawnRateCap ==
    \A i \in 1..(Len(respawnLog) - RespawnMaxPerMinute) :
        respawnLog[i + RespawnMaxPerMinute] - respawnLog[i] > RESPAWN_WINDOW_MS

(* Once shutdown has begun, a process that is not draining yet has a        *)
(* termination signal on its way: none was forked or left out afterwards.   *)
NoneUntold == shuttingDown => booting \cup serving \subseteq termed

(* The primary never exits leaving behind a process it has not killed.      *)
NoSurvivor == exited => Alive \subseteq killed

(* The primary never sits out its wait over an empty pool: the last exit,   *)
(* before or after the signal, ends the wait.                               *)
DrainNoticed == race = "waiting" => liveWorkers # {}

(* A straggler is killed only when the whole bounded wait has passed since  *)
(* the first signal; a drain that ends in time is never cut short.          *)
KillOnlyAfterWait ==
    [][killed' \ killed # {} => deadline # NoDeadline /\ now >= deadline]_vars

(* The end of the wait, once set, is not moved: a repeated or second signal *)
(* cannot postpone the kill.                                                *)
WaitNeverExtended ==
    [][deadline # NoDeadline => deadline' = deadline]_vars

(* With respawn on, the scheduler's leadership is given up only while the   *)
(* last RespawnMaxPerMinute respawns lie within one window of now.          *)
LeaderGivenUpOnlyAtCap ==
    [][leaderId # NoLeader /\ leaderId' = NoLeader /\ respawn =>
         /\ Len(respawnLog) >= RespawnMaxPerMinute
         /\ RespawnMaxPerMinute > 0 =>
              respawnLog[Len(respawnLog) - RespawnMaxPerMinute + 1]
                 >= now - RESPAWN_WINDOW_MS]_vars

(* A shutdown ends: the primary exits and no worker process outlives it,    *)
(* even when workers never finish their drain.                              *)
ShutdownEnds == shuttingDown ~> (exited /\ Alive = {})

(* A dead leader is replaced, or its leadership is dropped, unless shutdown *)
(* begins first: the primary never keeps pointing at a dead leader.         *)
DeadLeaderNoticed ==
    (leaderId # NoLeader /\ leaderId \notin Alive)
        ~> (leaderId \in Alive \/ leaderId = NoLeader \/ shuttingDown)

(* What the primary's header comment and operations.md promise: with        *)
(* respawn on and no shutdown begun, one worker is marked as the leader.    *)
LeaderKept == respawn /\ ~shuttingDown => leaderId # NoLeader

-----------------------------------------------------------------------------
(* Leadership as the job scheduler sees it.                                 *)
Newest == CHOOSE w \in leaders : \A v \in leaders : v <= w

Lease == INSTANCE LeaderLease WITH holders <- leaders \cap Alive,
                                   lastHolder <- Newest

(* Leadership passes only to a fresh process, and only once the process     *)
(* that held it is dead.                                                    *)
LeaseRefined == Lease!Spec
=============================================================================
