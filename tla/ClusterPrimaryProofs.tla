------------------------ MODULE ClusterPrimaryProofs ------------------------
(***************************************************************************)
(* Proofs about ClusterPrimary for every worker count, cap, window, budget  *)
(* and clock bound.                                                         *)
(***************************************************************************)
EXTENDS ClusterPrimary, TLAPS, FiniteSetTheorems, WellFoundedInduction

-----------------------------------------------------------------------------
(* The inductive invariant, in parts.                                       *)

LiveInv == Alive \subseteq liveWorkers

LeaderInv == \A w \in leaders \cap Alive : w = leaderId

PoolInv == IsFiniteSet(liveWorkers) /\ Cardinality(liveWorkers) <= workerCount

(* ts is the end of log, and what log has before it is older than start.    *)
RemembersSince(ts, log, start) ==
    /\ Len(ts) <= Len(log)
    /\ \A i \in 1..Len(ts) : ts[i] = log[Len(log) - Len(ts) + i]
    /\ \A i \in 1..(Len(log) - Len(ts)) : log[i] < start

LogInv == RemembersSince(respawnTimestamps, respawnLog, now - RESPAWN_WINDOW_MS)

RaceInv ==
    /\ race = "idle" <=> ~shuttingDown
    /\ deadline = NoDeadline <=> ~shuttingDown
    /\ race = "drained" => liveWorkers = {}
    /\ DrainNoticed
    /\ race = "timeout" => now >= deadline
    /\ exited => race \in {"drained", "timeout"}

ShutdownInv == RaceInv /\ NoneUntold /\ NoSurvivor

IInv == TypeOK /\ LiveInv /\ LeaderInv /\ PoolInv /\ LogInv /\ RespawnRateCap
        /\ ShutdownInv

-----------------------------------------------------------------------------
(* Pruning removes exactly a prefix of stale timestamps.                    *)

(* Every non-empty set of naturals has a least element.                     *)
LEMMA LeastNatural ==
  ASSUME NEW T \in SUBSET Nat, T # {}
  PROVE  \E x \in T : \A y \in T : x <= y
<1> DEFINE Prefixes == {1..n : n \in T}
<1>1. Prefixes \subseteq FiniteSubsetsOf(Nat)
  <2> SUFFICES ASSUME NEW n \in T PROVE 1..n \in FiniteSubsetsOf(Nat)
    OBVIOUS
  <2>1. IsFiniteSet(1..n)
    BY FS_Interval
  <2> QED
    BY <2>1 DEF FiniteSubsetsOf
<1>2. PICK s \in Prefixes :
        \A t \in Prefixes : ~ (<<t, s>> \in StrictSubsetOrdering(Nat))
  <2>1. Prefixes # {}
    OBVIOUS
  <2> HIDE DEF Prefixes
  <2> QED
    BY <1>1, <2>1, WFMin, FS_StrictSubsetOrderingWellFounded
<1>3. PICK x \in T : s = 1..x
  OBVIOUS
<1>4. ASSUME NEW y \in T, y < x
      PROVE  FALSE
  <2>1. x \in 1..x /\ x \notin 1..y
    BY <1>4
  <2>2. 1..y \subseteq 1..x
    BY <1>4
  <2>3. <<1..y, 1..x>> \in StrictSubsetOrdering(Nat)
    BY <2>1, <2>2 DEF StrictSubsetOrdering
  <2> QED
    BY <2>3, <1>2, <1>3
<1> QED
  BY <1>4

LEMMA PruneDropsStalePrefix ==
  ASSUME NEW ts \in Seq(Nat), NEW windowStart \in Int
  PROVE  \E n \in 0..Len(ts) :
            /\ Prune(ts, windowStart) = SubSeq(ts, n + 1, Len(ts))
            /\ \A i \in 1..n : ts[i] < windowStart
            /\ n < Len(ts) => ts[n + 1] >= windowStart
<1> DEFINE Fresh == {n \in 0..Len(ts) : n < Len(ts) => ts[n + 1] >= windowStart}
           IsStale(n) == /\ \A i \in 1..n : ts[i] < windowStart
                         /\ n < Len(ts) => ts[n + 1] >= windowStart
<1>1. PICK n \in Fresh : \A m \in Fresh : n <= m
  <2>1. Fresh \in SUBSET Nat /\ Len(ts) \in Fresh
    OBVIOUS
  <2> HIDE DEF Fresh
  <2> QED
    BY <2>1, LeastNatural
<1>2. \A i \in 1..n : ts[i] < windowStart
  <2> SUFFICES ASSUME NEW i \in 1..n, ts[i] >= windowStart PROVE FALSE
    OBVIOUS
  <2>1. i - 1 \in Fresh /\ n \in Int /\ i \in Int /\ i <= n
    OBVIOUS
  <2>2. n <= i - 1
    <3> HIDE DEF Fresh
    <3> QED
      BY <2>1, <1>1
  <2> QED
    BY <2>1, <2>2
<1>3. \E m \in 0..Len(ts) : IsStale(m)
  BY <1>2
<1> DEFINE stale == CHOOSE m \in 0..Len(ts) : IsStale(m)
<1>4. stale \in 0..Len(ts) /\ IsStale(stale)
  <2> HIDE DEF IsStale
  <2> QED
    BY <1>3
<1>5. Prune(ts, windowStart) = SubSeq(ts, stale + 1, Len(ts))
  BY DEF Prune
<1> HIDE DEF stale
<1> QED
  BY <1>4, <1>5

LEMMA PruneRemembers ==
  ASSUME NEW ts \in Seq(Nat), NEW log \in Seq(Nat), NEW start \in Int,
         RemembersSince(ts, log, start)
  PROVE  /\ Prune(ts, start) \in Seq(Nat)
         /\ RemembersSince(Prune(ts, start), log, start)
<1>1. PICK n \in 0..Len(ts) :
        /\ Prune(ts, start) = SubSeq(ts, n + 1, Len(ts))
        /\ \A i \in 1..n : ts[i] < start
  BY PruneDropsStalePrefix
<1> DEFINE fresh == SubSeq(ts, n + 1, Len(ts))
<1>2. /\ fresh \in Seq(Nat)
      /\ Len(fresh) = Len(ts) - n
      /\ \A i \in 1..(Len(ts) - n) : fresh[i] = ts[n + i]
  BY SMTT(30)
<1>3. n \in Nat /\ n <= Len(ts) /\ Len(ts) \in Nat /\ Len(log) \in Nat
  OBVIOUS
<1> HIDE DEF fresh
<1>4. Len(fresh) <= Len(log)
  BY <1>2, <1>3 DEF RemembersSince
<1>5. ASSUME NEW i \in 1..Len(fresh)
      PROVE  fresh[i] = log[Len(log) - Len(fresh) + i]
  <2>1. fresh[i] = ts[n + i] /\ n + i \in 1..Len(ts)
    BY <1>2, <1>3
  <2>2. ts[n + i] = log[Len(log) - Len(ts) + (n + i)]
    BY <2>1 DEF RemembersSince
  <2>3. Len(log) - Len(ts) + (n + i) = Len(log) - Len(fresh) + i
    BY <1>2, <1>3
  <2> QED
    BY <2>1, <2>2, <2>3
<1>6. ASSUME NEW i \in 1..(Len(log) - Len(fresh))
      PROVE  log[i] < start
  <2>1. CASE i <= Len(log) - Len(ts)
    <3>1. i \in 1..(Len(log) - Len(ts))
      BY <2>1, <1>3
    <3> QED
      BY <3>1 DEF RemembersSince
  <2>2. CASE i > Len(log) - Len(ts)
    <3>1. i - (Len(log) - Len(ts)) \in 1..n
      BY <2>2, <1>2, <1>3
    <3> DEFINE j == i - (Len(log) - Len(ts))
    <3>2. j \in 1..Len(ts) /\ Len(log) - Len(ts) + j = i
      BY <3>1, <1>3
    <3>3. ts[j] = log[Len(log) - Len(ts) + j]
      BY <3>2 DEF RemembersSince
    <3> QED
      BY <3>1, <3>2, <3>3, <1>1
  <2> QED
    BY <2>1, <2>2, <1>3
<1> QED
  BY <1>1, <1>2, <1>4, <1>5, <1>6 DEF RemembersSince, fresh

LEMMA AppendRemembers ==
  ASSUME NEW ts \in Seq(Nat), NEW log \in Seq(Nat), NEW start \in Int,
         NEW t \in Nat, RemembersSince(ts, log, start)
  PROVE  RemembersSince(Append(ts, t), Append(log, t), start)
<1> DEFINE ts2 == Append(ts, t)
           log2 == Append(log, t)
<1>1. /\ Len(ts2) = Len(ts) + 1 /\ Len(log2) = Len(log) + 1
      /\ \A i \in 1..Len(ts) : ts2[i] = ts[i]
      /\ \A i \in 1..Len(log) : log2[i] = log[i]
      /\ ts2[Len(ts) + 1] = t /\ log2[Len(log) + 1] = t
      /\ Len(ts) \in Nat /\ Len(log) \in Nat /\ Len(ts) <= Len(log)
  BY DEF RemembersSince
<1> HIDE DEF ts2, log2
<1>2. ASSUME NEW i \in 1..Len(ts2)
      PROVE  ts2[i] = log2[Len(log2) - Len(ts2) + i]
  <2>1. CASE i = Len(ts) + 1
    <3>1. Len(log2) - Len(ts2) + i = Len(log) + 1
      BY <2>1, <1>1
    <3> QED
      BY <3>1, <2>1, <1>1
  <2>2. CASE i \in 1..Len(ts)
    <3>1. Len(log2) - Len(ts2) + i = Len(log) - Len(ts) + i
          /\ Len(log) - Len(ts) + i \in 1..Len(log)
      BY <2>2, <1>1
    <3>2. ts[i] = log[Len(log) - Len(ts) + i]
      BY <2>2 DEF RemembersSince
    <3> QED
      BY <3>1, <3>2, <2>2, <1>1
  <2> QED
    BY <2>1, <2>2, <1>1
<1>3. ASSUME NEW i \in 1..(Len(log2) - Len(ts2))
      PROVE  log2[i] < start
  <2>1. i \in 1..(Len(log) - Len(ts)) /\ i \in 1..Len(log)
    BY <1>1
  <2> QED
    BY <2>1, <1>1 DEF RemembersSince
<1>4. RemembersSince(ts2, log2, start)
  BY <1>1, <1>2, <1>3 DEF RemembersSince
<1> QED
  BY <1>4 DEF ts2, log2

-----------------------------------------------------------------------------
(* What TypeOK says of the timestamps the cap still counts.                 *)
LEMMA FreshTimestampsType ==
  ASSUME TypeOK
  PROVE  FreshTimestamps \in Seq(Nat)
<1>1. now - RESPAWN_WINDOW_MS \in Int
  BY ConfigAssumption DEF TypeOK
<1>2. respawnTimestamps \in Seq(Nat)
  BY DEF TypeOK
<1>3. PICK n \in 0..Len(respawnTimestamps) :
        FreshTimestamps = SubSeq(respawnTimestamps, n + 1, Len(respawnTimestamps))
  BY <1>1, <1>2, PruneDropsStalePrefix DEF FreshTimestamps
<1> QED
  BY <1>2, <1>3

LEMMA WorkerCountPositive == workerCount \in Nat /\ workerCount >= 1
  BY ConfigAssumption DEF workerCount, ResolveWorkerCount

LEMMA WaitIsNatural == WaitMs \in Nat
  BY ConfigAssumption DEF WaitMs

LEMMA TypeInit == Init => TypeOK
<1> SUFFICES ASSUME Init PROVE TypeOK
  OBVIOUS
<1> USE DEF Init
<1>1. /\ liveWorkers \subseteq 1..(nextId - 1)
      /\ leaderId \in 0..(nextId - 1)
      /\ nextId \in Nat \ {0}
      /\ booting \subseteq 1..(nextId - 1)
      /\ leaders \subseteq 1..(nextId - 1)
  BY WorkerCountPositive
<1>2. respawnTimestamps \in Seq(Nat) /\ respawnLog \in Seq(Nat)
  OBVIOUS
<1>3. /\ shuttingDown \in BOOLEAN /\ exited \in BOOLEAN
      /\ race \in {"idle", "waiting", "drained", "timeout"}
      /\ deadline \in Nat \cup {NoDeadline}
      /\ serving \subseteq 1..(nextId - 1) /\ draining \subseteq 1..(nextId - 1)
      /\ termed \subseteq Alive /\ killed \subseteq Alive
      /\ pendingSignals \subseteq Signals
      /\ now \in Nat
  OBVIOUS
<1> QED
  BY <1>1, <1>2, <1>3 DEF TypeOK

LEMMA TypeOnExit ==
  ASSUME TypeOK, NEW w \in liveWorkers, OnExit(w)
  PROVE  TypeOK'
<1> USE DEF TypeOK, OnExit, Alive
<1>1. CASE OnExitDuringShutdown(w)
  BY <1>1 DEF OnExitDuringShutdown, processVars
<1>2. CASE OnExitRespawnOff(w)
  BY <1>2 DEF OnExitRespawnOff, LeaveUnreplaced, processVars, NoLeader
<1>3. CASE OnExitRateLimited(w)
  BY <1>3, FreshTimestampsType DEF OnExitRateLimited, LeaveUnreplaced, processVars, NoLeader
<1>4. CASE OnExitRespawned(w)
  <2> USE <1>4 DEF OnExitRespawned, ForkReplacement
  <2>1. respawnTimestamps' \in Seq(Nat) /\ respawnLog' \in Seq(Nat)
    BY FreshTimestampsType
  <2>2. nextId' \in Nat \ {0} /\ 1..(nextId - 1) \subseteq 1..(nextId' - 1)
        /\ nextId \in 1..(nextId' - 1)
    OBVIOUS
  <2>3. /\ liveWorkers' \subseteq 1..(nextId' - 1)
        /\ booting' \subseteq 1..(nextId' - 1)
        /\ leaders' \subseteq 1..(nextId' - 1)
        /\ serving' \subseteq 1..(nextId' - 1)
        /\ draining' \subseteq 1..(nextId' - 1)
        /\ termed' \subseteq Alive' /\ killed' \subseteq Alive'
    BY <2>2
  <2>4. leaderId' \in 0..(nextId' - 1)
    BY <2>2
  <2> QED
    BY <2>1, <2>2, <2>3, <2>4
<1> QED
  BY <1>1, <1>2, <1>3, <1>4

LEMMA TypeStep == TypeOK /\ [Next]_vars => TypeOK'
<1> SUFFICES ASSUME TypeOK, [Next]_vars PROVE TypeOK'
  OBVIOUS
<1> USE DEF TypeOK, Alive, primaryVars, processVars
<1>1. ASSUME NEW w \in liveWorkers, OnExit(w) PROVE TypeOK'
  BY <1>1, TypeOnExit
<1>2. ASSUME NEW s \in Signals, OnSignal(s) PROVE TypeOK'
  <2> USE <1>2 DEF OnSignal
  <2>1. CASE shuttingDown
    BY <2>1
  <2>2. CASE ~shuttingDown
    <3>1. deadline' \in Nat \cup {NoDeadline}
      BY <2>2, WaitIsNatural DEF BeginShutdown
    <3>2. /\ shuttingDown' \in BOOLEAN
          /\ race' \in {"idle", "waiting", "drained", "timeout"}
          /\ termed' \subseteq Alive
      BY <2>2 DEF BeginShutdown
    <3> QED
      BY <3>1, <3>2
  <2> QED
    BY <2>1, <2>2
<1>3. ASSUME NEW s \in Signals, SendSignal(s) PROVE TypeOK'
  BY <1>3 DEF SendSignal
<1>4. CASE DelayElapsed
  BY <1>4 DEF DelayElapsed
<1>5. CASE FinishShutdown
  BY <1>5 DEF FinishShutdown
<1>6. ASSUME NEW w \in Alive, WorkerListens(w) PROVE TypeOK'
  BY <1>6 DEF WorkerListens
<1>7. ASSUME NEW w \in Alive, Vanish(w) PROVE TypeOK'
  BY <1>7 DEF Vanish
<1>8. ASSUME NEW w \in Alive, DeliverTerm(w) PROVE TypeOK'
  BY <1>7, <1>8 DEF DeliverTerm
<1>9. CASE Tick
  BY <1>9 DEF Tick
<1>10. CASE UNCHANGED vars
  BY <1>10 DEF vars
<1> QED
  BY <1>1, <1>2, <1>3, <1>4, <1>5, <1>6, <1>7, <1>8, <1>9, <1>10
     DEF Next, WorkerExits, DeliverKill

(* Every reachable state of the primary and its workers is well-typed; in   *)
(* particular the pruned timestamps stay a sequence of times.               *)
THEOREM TypeCorrect == Spec => []TypeOK
  BY TypeInit, TypeStep, PTL DEF Spec

-----------------------------------------------------------------------------
(* The parts of IInv, action by action.  TypeOK' is at hand everywhere.     *)

(* Only an 'exit' event changes the leader, the pool or the log.            *)
LEMMA OnExitKeepsPool ==
  ASSUME TypeOK, LiveInv, LeaderInv, PoolInv, NEW w \in liveWorkers, OnExit(w)
  PROVE  LiveInv' /\ LeaderInv' /\ PoolInv'
<1> USE DEF OnExit, UnhandledExits, LiveInv, LeaderInv, Alive, processVars
<1>1. /\ IsFiniteSet(liveWorkers \ {w})
      /\ Cardinality(liveWorkers \ {w}) = Cardinality(liveWorkers) - 1
      /\ Cardinality(liveWorkers) \in Nat
  BY FS_RemoveElement, FS_CardinalityType DEF PoolInv
<1>2. CASE liveWorkers' = liveWorkers \ {w} /\ UNCHANGED processVars
           /\ leaderId' \in {leaderId, IF w = leaderId THEN NoLeader ELSE leaderId}
  <2>1. LiveInv' /\ LeaderInv'
    BY <1>2
  <2>2. PoolInv'
    BY <1>1, <1>2, WorkerCountPositive DEF PoolInv
  <2> QED
    BY <2>1, <2>2
<1>3. CASE OnExitRespawned(w)
  <2> USE <1>3 DEF OnExitRespawned, ForkReplacement
  <2>1. nextId \notin Alive /\ nextId \notin leaders /\ nextId \notin liveWorkers
    BY DEF TypeOK
  <2>2. LiveInv'
    OBVIOUS
  <2>3. LeaderInv'
    BY <2>1
  <2>4. /\ IsFiniteSet((liveWorkers \ {w}) \cup {nextId})
        /\ Cardinality((liveWorkers \ {w}) \cup {nextId})
             = Cardinality(liveWorkers \ {w}) + 1
    BY <1>1, <2>1, FS_AddElement
  <2>5. PoolInv'
    BY <1>1, <2>4, WorkerCountPositive DEF PoolInv, workerCount
  <2> QED
    BY <2>2, <2>3, <2>5
<1> QED
  BY <1>2, <1>3 DEF OnExitDuringShutdown, OnExitRespawnOff, OnExitRateLimited,
                    LeaveUnreplaced

LEMMA OnExitKeepsLog ==
  ASSUME TypeOK, LogInv, RespawnRateCap, NEW w \in liveWorkers, OnExit(w)
  PROVE  LogInv' /\ RespawnRateCap'
<1> USE DEF OnExit
<1> DEFINE windowStart == now - RESPAWN_WINDOW_MS
<1>1. /\ respawnTimestamps \in Seq(Nat) /\ respawnLog \in Seq(Nat)
      /\ now \in Nat /\ windowStart \in Int
      /\ RespawnMaxPerMinute \in Nat /\ RESPAWN_WINDOW_MS \in Nat
  BY ConfigAssumption DEF TypeOK
<1>2. /\ FreshTimestamps \in Seq(Nat)
      /\ RemembersSince(FreshTimestamps, respawnLog, windowStart)
  BY <1>1, PruneRemembers DEF FreshTimestamps, LogInv
<1>3. CASE UNCHANGED <<respawnTimestamps, respawnLog, now>>
  BY <1>3 DEF LogInv, RespawnRateCap
<1>4. CASE OnExitRateLimited(w)
  BY <1>4, <1>2 DEF OnExitRateLimited, LeaveUnreplaced, LogInv, RespawnRateCap
<1>5. CASE OnExitRespawned(w)
  <2>1. /\ respawnLog' = Append(respawnLog, now)
        /\ respawnTimestamps' = Append(FreshTimestamps, now)
        /\ now' = now
        /\ Len(FreshTimestamps) < RespawnMaxPerMinute
    BY <1>5, <1>1, <1>2 DEF OnExitRespawned, ForkReplacement, AtRespawnCap
  <2>2. LogInv'
    BY <2>1, <1>1, <1>2, AppendRemembers DEF LogInv
  <2> DEFINE k == RespawnMaxPerMinute
             log2 == Append(respawnLog, now)
  <2>3. /\ Len(log2) = Len(respawnLog) + 1 /\ Len(respawnLog) \in Nat
        /\ \A i \in 1..Len(respawnLog) : log2[i] = respawnLog[i]
        /\ log2[Len(respawnLog) + 1] = now
        /\ \A i \in 1..Len(respawnLog) : respawnLog[i] \in Nat
    BY <1>1
  <2> HIDE DEF log2
  <2>4. ASSUME NEW i \in 1..(Len(log2) - k)
        PROVE  log2[i + k] - log2[i] > RESPAWN_WINDOW_MS
    <3>1. CASE i + k <= Len(respawnLog)
      <4>1. i \in 1..(Len(respawnLog) - k)
            /\ i \in 1..Len(respawnLog) /\ i + k \in 1..Len(respawnLog)
        BY <3>1, <2>3, <1>1
      <4>2. respawnLog[i + k] - respawnLog[i] > RESPAWN_WINDOW_MS
        BY <4>1 DEF RespawnRateCap
      <4> QED
        BY <4>1, <4>2, <2>3
    <3>2. CASE i + k = Len(respawnLog) + 1
      <4>1. i \in 1..(Len(respawnLog) - Len(FreshTimestamps))
            /\ i \in 1..Len(respawnLog)
        BY <3>2, <2>1, <2>3, <1>1, <1>2
      <4>2. respawnLog[i] < windowStart
        BY <4>1, <1>2 DEF RemembersSince
      <4>3. log2[i] = respawnLog[i] /\ log2[i + k] = now
        BY <3>2, <4>1, <2>3
      <4> QED
        BY <4>1, <4>2, <4>3, <2>3, <1>1
    <3> QED
      BY <3>1, <3>2, <2>3, <1>1
  <2>5. RespawnRateCap'
    BY <2>1, <2>4 DEF RespawnRateCap, log2
  <2> QED
    BY <2>2, <2>5
<1> QED
  BY <1>3, <1>4, <1>5 DEF OnExitDuringShutdown, OnExitRespawnOff, LeaveUnreplaced

LEMMA OnExitKeepsShutdown ==
  ASSUME TypeOK, ShutdownInv, NEW w \in liveWorkers, OnExit(w)
  PROVE  ShutdownInv'
<1> USE DEF OnExit, ShutdownInv, RaceInv, DrainNoticed, NoneUntold, NoSurvivor, Alive, processVars
<1>1. CASE OnExitDuringShutdown(w)
  BY <1>1 DEF OnExitDuringShutdown
<1>2. CASE OnExitRespawnOff(w)
  BY <1>2 DEF OnExitRespawnOff, LeaveUnreplaced
<1>3. CASE OnExitRateLimited(w)
  BY <1>3 DEF OnExitRateLimited, LeaveUnreplaced
<1>4. CASE OnExitRespawned(w)
  BY <1>4 DEF OnExitRespawned, ForkReplacement
<1> QED
  BY <1>1, <1>2, <1>3, <1>4

LEMMA OnSignalKeepsShutdown ==
  ASSUME TypeOK, LiveInv, ShutdownInv, NEW s \in Signals, OnSignal(s)
  PROVE  ShutdownInv'
<1> USE DEF OnSignal, ShutdownInv, RaceInv, DrainNoticed, NoneUntold, NoSurvivor, Alive
<1>1. CASE shuttingDown
  BY <1>1
<1>2. CASE ~shuttingDown
  <2> USE <1>2 DEF BeginShutdown
  <2>1. deadline' # NoDeadline
    BY WaitIsNatural DEF TypeOK, NoDeadline
  <2>2. race' = IF liveWorkers = {} THEN "drained" ELSE "waiting"
    OBVIOUS
  <2>3. RaceInv'
    BY <2>1, <2>2
  <2>4. NoneUntold'
    BY DEF LiveInv
  <2>5. NoSurvivor'
    OBVIOUS
  <2> QED
    BY <2>3, <2>4, <2>5
<1> QED
  BY <1>1, <1>2

(* A worker process that vanishes, whatever the reason.                     *)
LEMMA VanishKeepsInv ==
  ASSUME TypeOK, LiveInv, LeaderInv, ShutdownInv, NEW w \in Alive, Vanish(w)
  PROVE  LiveInv' /\ LeaderInv' /\ ShutdownInv'
  BY DEF Vanish, primaryVars, Alive, LiveInv, LeaderInv, ShutdownInv, RaceInv, DrainNoticed,
         NoneUntold, NoSurvivor

LEMMA InvInit == Init => IInv
<1> SUFFICES ASSUME Init PROVE IInv
  OBVIOUS
<1> USE DEF Init
<1>1. LiveInv /\ LeaderInv
  BY DEF LiveInv, LeaderInv, Alive
<1>2. PoolInv
  BY WorkerCountPositive, FS_Interval DEF PoolInv
<1>3. LogInv /\ RespawnRateCap
  BY ConfigAssumption DEF LogInv, RemembersSince, RespawnRateCap
<1>4. ShutdownInv
  BY DEF ShutdownInv, RaceInv, DrainNoticed, NoneUntold, NoSurvivor
<1> QED
  BY TypeInit, <1>1, <1>2, <1>3, <1>4 DEF IInv

LEMMA InvStep == IInv /\ [Next]_vars => IInv'
<1> SUFFICES ASSUME IInv, [Next]_vars PROVE IInv'
  OBVIOUS
<1> USE DEF IInv
<1> DEFINE PartsInv == LiveInv /\ LeaderInv /\ PoolInv /\ LogInv
                       /\ RespawnRateCap /\ ShutdownInv
<1>1. TypeOK'
  BY TypeStep
<1>2. ASSUME UNCHANGED <<respawnTimestamps, now, respawnLog>>
      PROVE  LogInv' /\ RespawnRateCap'
  BY <1>2 DEF LogInv, RespawnRateCap
<1>3. ASSUME UNCHANGED liveWorkers
      PROVE  PoolInv'
  BY <1>3 DEF PoolInv
<1>4. ASSUME UNCHANGED <<leaders, leaderId, liveWorkers, Alive>>
      PROVE  LiveInv' /\ LeaderInv'
  BY <1>4 DEF LiveInv, LeaderInv
<1>5. ASSUME NEW w \in liveWorkers, OnExit(w) PROVE PartsInv'
  BY <1>5, OnExitKeepsPool, OnExitKeepsLog, OnExitKeepsShutdown
<1>6. ASSUME NEW s \in Signals, OnSignal(s) PROVE PartsInv'
  <2>1. UNCHANGED <<leaders, leaderId, liveWorkers, Alive, respawnTimestamps,
                    now, respawnLog>>
    BY <1>6 DEF OnSignal, Alive
  <2> QED
    BY <1>2, <1>3, <1>4, <1>6, <2>1, OnSignalKeepsShutdown
<1>7. ASSUME NEW s \in Signals, SendSignal(s) PROVE PartsInv'
  <2>1. UNCHANGED <<leaders, leaderId, liveWorkers, Alive, respawnTimestamps,
                    now, respawnLog>>
    BY <1>7 DEF SendSignal, primaryVars, Alive
  <2>2. ShutdownInv'
    BY <1>7 DEF SendSignal, primaryVars, ShutdownInv, RaceInv, DrainNoticed, NoneUntold,
                NoSurvivor, Alive
  <2> QED
    BY <1>2, <1>3, <1>4, <2>1, <2>2
<1>8. ASSUME DelayElapsed PROVE PartsInv'
  <2>1. UNCHANGED <<leaders, leaderId, liveWorkers, Alive, respawnTimestamps,
                    now, respawnLog>>
    BY <1>8 DEF DelayElapsed, processVars, Alive
  <2>2. ShutdownInv'
    BY <1>8 DEF DelayElapsed, processVars, ShutdownInv, RaceInv, DrainNoticed, NoneUntold,
                NoSurvivor, Alive
  <2> QED
    BY <1>2, <1>3, <1>4, <2>1, <2>2
<1>9. ASSUME FinishShutdown PROVE PartsInv'
  <2>1. UNCHANGED <<leaders, leaderId, liveWorkers, Alive, respawnTimestamps,
                    now, respawnLog>>
    BY <1>9 DEF FinishShutdown, Alive
  <2>2. ShutdownInv'
    BY <1>9 DEF FinishShutdown, ShutdownInv, RaceInv, DrainNoticed, NoneUntold, NoSurvivor,
                Alive, LiveInv
  <2> QED
    BY <1>2, <1>3, <1>4, <2>1, <2>2
<1>10. ASSUME NEW w \in Alive, WorkerListens(w) PROVE PartsInv'
  <2>1. UNCHANGED <<leaders, leaderId, liveWorkers, Alive, respawnTimestamps,
                    now, respawnLog>>
    BY <1>10 DEF WorkerListens, primaryVars, Alive
  <2>2. ShutdownInv'
    BY <1>10 DEF WorkerListens, primaryVars, ShutdownInv, RaceInv, DrainNoticed, NoneUntold,
                 NoSurvivor, Alive
  <2> QED
    BY <1>2, <1>3, <1>4, <2>1, <2>2
<1>11. ASSUME NEW w \in Alive, Vanish(w) PROVE PartsInv'
  <2>1. UNCHANGED <<liveWorkers, respawnTimestamps, now, respawnLog>>
    BY <1>11 DEF Vanish, primaryVars
  <2> QED
    BY <1>2, <1>3, <1>11, <2>1, VanishKeepsInv
<1>12. ASSUME NEW w \in Alive, DeliverTerm(w) PROVE PartsInv'
  <2>1. CASE w \in booting
    BY <1>11, <1>12, <2>1 DEF DeliverTerm
  <2>2. CASE w \notin booting
    <3>1. UNCHANGED <<leaders, leaderId, liveWorkers, Alive, respawnTimestamps,
                      now, respawnLog>>
      BY <1>12, <2>2 DEF DeliverTerm, primaryVars, Alive
    <3>2. ShutdownInv'
      BY <1>12, <2>2, <3>1 DEF DeliverTerm, primaryVars, ShutdownInv, RaceInv, DrainNoticed,
                          NoneUntold, NoSurvivor
    <3> QED
      BY <1>2, <1>3, <1>4, <3>1, <3>2
  <2> QED
    BY <2>1, <2>2
<1>13. ASSUME Tick PROVE PartsInv'
  <2>1. UNCHANGED <<leaders, leaderId, liveWorkers, Alive, respawnTimestamps,
                    respawnLog>> /\ now' = now + 1
    BY <1>13 DEF Tick, primaryVars, processVars, Alive
  <2>2. ShutdownInv'
    BY <1>13 DEF Tick, primaryVars, processVars, ShutdownInv, RaceInv, DrainNoticed, NoneUntold,
                 NoSurvivor, Alive, TypeOK
  <2>3. LogInv' /\ RespawnRateCap'
    <3>1. now \in Nat /\ RESPAWN_WINDOW_MS \in Nat /\ respawnLog \in Seq(Nat)
          /\ respawnTimestamps \in Seq(Nat)
      BY ConfigAssumption DEF TypeOK
    <3> QED
      BY <2>1, <3>1 DEF LogInv, RemembersSince, RespawnRateCap
  <2> QED
    BY <1>3, <1>4, <2>1, <2>2, <2>3
<1>14. ASSUME UNCHANGED vars PROVE PartsInv'
  BY <1>14 DEF vars, primaryVars, processVars, LiveInv, LeaderInv, PoolInv, LogInv,
               RespawnRateCap, ShutdownInv, RaceInv, DrainNoticed, NoneUntold, NoSurvivor, Alive
<1>15. PartsInv'
  <2> HIDE DEF PartsInv, IInv
  <2> QED
    BY <1>5, <1>6, <1>7, <1>8, <1>9, <1>10, <1>11, <1>12, <1>13, <1>14
       DEF Next, WorkerExits, DeliverKill
<1> QED
  BY <1>1, <1>15

THEOREM Invariance == Spec => []IInv
  BY InvInit, InvStep, PTL DEF Spec

-----------------------------------------------------------------------------
(* The safety properties.                                                   *)

(* At most one process forked as the scheduler's leader is alive.           *)
THEOREM SingleLeaderHolds == Spec => []SingleLeader
<1>1. IInv => SingleLeader
  BY DEF IInv, LeaderInv, SingleLeader
<1> QED
  BY <1>1, Invariance, PTL

(* The worker processes alive never exceed the configured count.            *)
THEOREM CapacityHolds == Spec => []CapacityHeld
<1>1. IInv => CapacityHeld
  <2> SUFFICES ASSUME IInv PROVE CapacityHeld
    OBVIOUS
  <2>1. Alive \in SUBSET liveWorkers /\ IsFiniteSet(liveWorkers)
        /\ Cardinality(liveWorkers) <= workerCount
    BY DEF IInv, LiveInv, PoolInv
  <2>2. /\ Cardinality(Alive) <= Cardinality(liveWorkers)
        /\ IsFiniteSet(Alive)
    BY <2>1, FS_Subset
  <2>3. Cardinality(Alive) \in Nat /\ Cardinality(liveWorkers) \in Nat
    BY <2>1, <2>2, FS_CardinalityType
  <2> QED
    BY <2>1, <2>2, <2>3, WorkerCountPositive DEF CapacityHeld
<1> QED
  BY <1>1, Invariance, PTL

(* No window of RESPAWN_WINDOW_MS holds more than RespawnMaxPerMinute       *)
(* respawns, although the primary forgets the older ones.                   *)
THEOREM RespawnRateCapHolds == Spec => []RespawnRateCap
<1>1. IInv => RespawnRateCap
  BY DEF IInv
<1> QED
  BY <1>1, Invariance, PTL

(* Once shutdown has begun every process not yet draining has been told.    *)
THEOREM NoneUntoldHolds == Spec => []NoneUntold
<1>1. IInv => NoneUntold
  BY DEF IInv, ShutdownInv
<1> QED
  BY <1>1, Invariance, PTL

(* The primary exits only over workers that are dead or being killed.       *)
THEOREM NoSurvivorHolds == Spec => []NoSurvivor
<1>1. IInv => NoSurvivor
  BY DEF IInv, ShutdownInv
<1> QED
  BY <1>1, Invariance, PTL

(* The primary never waits for an empty pool.                               *)
THEOREM DrainNoticedHolds == Spec => []DrainNoticed
<1>1. IInv => DrainNoticed
  BY DEF IInv, ShutdownInv, RaceInv
<1> QED
  BY <1>1, Invariance, PTL

(* A worker is killed only after the whole wait.                            *)
THEOREM KillOnlyAfterWaitHolds == Spec => KillOnlyAfterWait
<1> DEFINE Timely == killed' \ killed # {} => deadline # NoDeadline /\ now >= deadline
<1>1. IInv /\ [Next]_vars => [Timely]_vars
  <2> SUFFICES ASSUME IInv, Next, killed' \ killed # {}
               PROVE  deadline # NoDeadline /\ now >= deadline
    OBVIOUS
  <2>1. FinishShutdown /\ race = "timeout"
    BY DEF Next, OnExit, OnExitDuringShutdown, OnExitRespawnOff, OnExitRateLimited,
           OnExitRespawned, LeaveUnreplaced, ForkReplacement, OnSignal, SendSignal,
           DelayElapsed, FinishShutdown, WorkerListens, WorkerExits, Vanish,
           DeliverTerm, DeliverKill, Tick, processVars
  <2> QED
    BY <2>1 DEF IInv, ShutdownInv, RaceInv
<1> QED
  BY <1>1, Invariance, PTL DEF Spec, KillOnlyAfterWait

(* No later signal moves the end of the wait.                               *)
THEOREM WaitNeverExtendedHolds == Spec => WaitNeverExtended
<1> DEFINE Fixed == deadline # NoDeadline => deadline' = deadline
<1>1. IInv /\ [Next]_vars => [Fixed]_vars
  <2> SUFFICES ASSUME IInv, Next, deadline # NoDeadline
               PROVE  deadline' = deadline
    OBVIOUS
  <2>1. shuttingDown
    BY DEF IInv, ShutdownInv, RaceInv
  <2> QED
    BY <2>1 DEF Next, OnExit, OnSignal, SendSignal, DelayElapsed, FinishShutdown,
           WorkerListens, WorkerExits, Vanish, DeliverTerm, DeliverKill, Tick,
           primaryVars
<1> QED
  BY <1>1, Invariance, PTL DEF Spec, WaitNeverExtended

-----------------------------------------------------------------------------
(* The log is in order of time, and nothing in it lies in the future.       *)
LogOrdered ==
    \A i \in 1..Len(respawnLog) :
        /\ respawnLog[i] <= now
        /\ \A j \in i..Len(respawnLog) : respawnLog[i] <= respawnLog[j]

LEMMA LogOrderedStep ==
  ASSUME TypeOK, LogOrdered, [Next]_vars
  PROVE  LogOrdered'
<1>1. respawnLog \in Seq(Nat) /\ now \in Nat /\ now' \in Nat /\ Len(respawnLog) \in Nat
      /\ \A i \in 1..Len(respawnLog) : respawnLog[i] \in Nat
  BY TypeStep DEF TypeOK
<1>2. CASE UNCHANGED respawnLog /\ now <= now'
  BY <1>1, <1>2 DEF LogOrdered
<1>3. CASE respawnLog' = Append(respawnLog, now) /\ now' = now
  <2> DEFINE log2 == Append(respawnLog, now)
  <2>1. /\ Len(log2) = Len(respawnLog) + 1
        /\ \A i \in 1..Len(respawnLog) : log2[i] = respawnLog[i]
        /\ log2[Len(respawnLog) + 1] = now
    BY <1>1
  <2> HIDE DEF log2
  <2>2. ASSUME NEW i \in 1..Len(log2)
        PROVE  log2[i] <= now /\ \A j \in i..Len(log2) : log2[i] <= log2[j]
    <3>1. CASE i = Len(respawnLog) + 1
      BY <3>1, <2>1, <1>1
    <3>2. CASE i \in 1..Len(respawnLog)
      <4>1. log2[i] = respawnLog[i] /\ respawnLog[i] <= now
        BY <3>2, <2>1 DEF LogOrdered
      <4>2. ASSUME NEW j \in i..Len(log2) PROVE log2[i] <= log2[j]
        <5>1. CASE j = Len(respawnLog) + 1
          BY <5>1, <4>1, <2>1
        <5>2. CASE j \in i..Len(respawnLog)
          <6>1. j \in 1..Len(respawnLog)
            BY <5>2, <3>2, <1>1
          <6> QED
            BY <6>1, <5>2, <3>2, <4>1, <2>1 DEF LogOrdered
        <5> QED
          BY <5>1, <5>2, <2>1, <1>1
      <4> QED
        BY <4>1, <4>2
    <3> QED
      BY <3>1, <3>2, <2>1, <1>1
  <2> QED
    BY <1>3, <2>2 DEF LogOrdered, log2
<1>4. CASE Tick
  BY <1>1, <1>2, <1>4 DEF Tick
<1>5. ASSUME NEW w \in liveWorkers, OnExit(w)
      PROVE  UNCHANGED now /\ respawnLog' \in {respawnLog, Append(respawnLog, now)}
  BY <1>5 DEF OnExit, OnExitDuringShutdown, OnExitRespawnOff, OnExitRateLimited,
              OnExitRespawned, LeaveUnreplaced, ForkReplacement
<1>6. CASE UNCHANGED <<now, respawnLog>>
  BY <1>1, <1>2, <1>6
<1> QED
  BY <1>1, <1>2, <1>3, <1>4, <1>5, <1>6
     DEF Next, vars, OnSignal, SendSignal, DelayElapsed, FinishShutdown, WorkerListens,
         WorkerExits, Vanish, DeliverTerm, DeliverKill

LEMMA LogOrderedHolds == Spec => []LogOrdered
<1>1. Init => LogOrdered
  BY DEF Init, LogOrdered
<1>2. TypeOK /\ LogOrdered /\ [Next]_vars => LogOrdered'
  BY LogOrderedStep
<1> QED
  BY <1>1, <1>2, TypeCorrect, PTL DEF Spec

(* The timestamps the cap counts are the last ones of the log, and all of   *)
(* them lie within the window.                                              *)
LEMMA CapCountsTheWindow ==
  ASSUME TypeOK, LogInv, LogOrdered
  PROVE  /\ Len(FreshTimestamps) <= Len(respawnLog)
         /\ \A i \in 1..Len(FreshTimestamps) :
               respawnLog[Len(respawnLog) - Len(FreshTimestamps) + i]
                 >= now - RESPAWN_WINDOW_MS
<1> DEFINE start == now - RESPAWN_WINDOW_MS
<1>1. /\ respawnTimestamps \in Seq(Nat) /\ respawnLog \in Seq(Nat)
      /\ Len(respawnLog) \in Nat /\ start \in Int
      /\ \A i \in 1..Len(respawnLog) : respawnLog[i] \in Nat
  BY ConfigAssumption DEF TypeOK
<1>2. FreshTimestamps \in Seq(Nat) /\ Len(FreshTimestamps) \in Nat
  BY FreshTimestampsType
<1>3. RemembersSince(FreshTimestamps, respawnLog, start)
  BY <1>1, PruneRemembers DEF FreshTimestamps, LogInv
<1>4. PICK n \in 0..Len(respawnTimestamps) :
        /\ FreshTimestamps = SubSeq(respawnTimestamps, n + 1, Len(respawnTimestamps))
        /\ n < Len(respawnTimestamps) => respawnTimestamps[n + 1] >= start
  BY <1>1, PruneDropsStalePrefix DEF FreshTimestamps
<1>5. Len(FreshTimestamps) > 0 => FreshTimestamps[1] >= start
  <2> SUFFICES ASSUME Len(FreshTimestamps) > 0 PROVE FreshTimestamps[1] >= start
    OBVIOUS
  <2>1. n < Len(respawnTimestamps)
    BY <1>1, <1>4
  <2>2. FreshTimestamps[1] = respawnTimestamps[n + 1]
    BY <1>1, <1>4, <2>1
  <2> QED
    BY <1>4, <2>1, <2>2
<1> HIDE DEF start
<1>6. ASSUME NEW i \in 1..Len(FreshTimestamps)
      PROVE  respawnLog[Len(respawnLog) - Len(FreshTimestamps) + i] >= start
  <2> DEFINE first == Len(respawnLog) - Len(FreshTimestamps) + 1
             at == Len(respawnLog) - Len(FreshTimestamps) + i
  <2>1. Len(FreshTimestamps) <= Len(respawnLog) /\ 1 \in 1..Len(FreshTimestamps)
    BY <1>2, <1>3 DEF RemembersSince
  <2>2. respawnLog[first] >= start
    BY <2>1, <1>2, <1>3, <1>5 DEF RemembersSince
  <2>3. first \in 1..Len(respawnLog) /\ at \in first..Len(respawnLog)
        /\ at \in 1..Len(respawnLog)
    BY <2>1, <1>1, <1>2
  <2> HIDE DEF first, at
  <2>4. respawnLog[first] <= respawnLog[at]
    BY <2>3 DEF LogOrdered
  <2>5. respawnLog[first] \in Nat /\ respawnLog[at] \in Nat
    BY <2>3, <1>1
  <2>6. respawnLog[at] >= start
    BY <2>2, <2>4, <2>5, <1>1
  <2> QED
    BY <2>6 DEF at
<1> QED
  BY <1>3, <1>6 DEF RemembersSince, start

(* With respawn on, leadership is dropped only when as many respawns as the *)
(* cap allows lie within one window of now, the ones the primary has        *)
(* forgotten notwithstanding.                                               *)
THEOREM LeaderGivenUpOnlyAtCapHolds == Spec => LeaderGivenUpOnlyAtCap
<1> DEFINE M == RespawnMaxPerMinute
           AtCap == /\ Len(respawnLog) >= M
                    /\ M > 0 => respawnLog[Len(respawnLog) - M + 1] >= now - RESPAWN_WINDOW_MS
           OnlyAtCap == leaderId # NoLeader /\ leaderId' = NoLeader /\ respawn => AtCap
<1>1. IInv /\ LogOrdered /\ [Next]_vars => [OnlyAtCap]_vars
  <2> SUFFICES ASSUME IInv, LogOrdered, Next,
                      leaderId # NoLeader, leaderId' = NoLeader, respawn
               PROVE  AtCap
    OBVIOUS
  <2>1. nextId # NoLeader
    BY DEF IInv, TypeOK, NoLeader
  <2>2. PICK w \in liveWorkers : OnExitRateLimited(w)
    BY <2>1
       DEF Next, OnExit, OnExitDuringShutdown, OnExitRespawnOff, OnExitRespawned,
           ForkReplacement, OnSignal, SendSignal, DelayElapsed, FinishShutdown,
           WorkerListens, WorkerExits, Vanish, DeliverTerm, DeliverKill, Tick, primaryVars
  <2>3. Len(FreshTimestamps) >= M
    BY <2>2 DEF OnExitRateLimited, AtRespawnCap
  <2>4. /\ Len(FreshTimestamps) <= Len(respawnLog)
        /\ \A i \in 1..Len(FreshTimestamps) :
              respawnLog[Len(respawnLog) - Len(FreshTimestamps) + i]
                >= now - RESPAWN_WINDOW_MS
    BY CapCountsTheWindow DEF IInv
  <2>5. M \in Nat /\ Len(FreshTimestamps) \in Nat /\ Len(respawnLog) \in Nat
    BY ConfigAssumption, FreshTimestampsType DEF IInv, TypeOK
  <2>6. ASSUME M > 0
        PROVE  respawnLog[Len(respawnLog) - M + 1] >= now - RESPAWN_WINDOW_MS
    <3> DEFINE i == Len(FreshTimestamps) - M + 1
    <3>1. i \in 1..Len(FreshTimestamps)
      BY <2>3, <2>5, <2>6
    <3>2. Len(respawnLog) - Len(FreshTimestamps) + i = Len(respawnLog) - M + 1
      BY <2>5
    <3> HIDE DEF i
    <3>3. respawnLog[Len(respawnLog) - Len(FreshTimestamps) + i] >= now - RESPAWN_WINDOW_MS
      BY <3>1, <2>4
    <3> QED
      BY <3>2, <3>3
  <2> QED
    BY <2>3, <2>4, <2>5, <2>6
<1> QED
  BY <1>1, Invariance, LogOrderedHolds, PTL DEF Spec, LeaderGivenUpOnlyAtCap

-----------------------------------------------------------------------------
(* Leadership implements the abstract single-holder lease.                  *)

LEMMA GreatestIsUnique ==
  ASSUME NEW S \in SUBSET Nat, NEW m \in S, \A v \in S : v <= m
  PROVE  (CHOOSE w \in S : \A v \in S : v <= w) = m
<1>1. \A w \in S : (\A v \in S : v <= w) => w = m
  OBVIOUS
<1> QED
  BY <1>1

(* Leaders are finitely many and positive, so the newest one exists.        *)
LeadersInv == \E m \in leaders : \A v \in leaders : v <= m

LEMMA LeadersStep ==
  ASSUME TypeOK, LeadersInv, [Next]_vars
  PROVE  LeadersInv'
<1>1. PICK m \in leaders : \A v \in leaders : v <= m
  BY DEF LeadersInv
<1>2. CASE UNCHANGED leaders
  BY <1>2 DEF LeadersInv
<1>3. CASE leaders' = leaders \cup {nextId}
  <2>1. \A v \in leaders : v <= nextId
    BY DEF TypeOK
  <2>2. nextId <= nextId
    BY DEF TypeOK
  <2> QED
    BY <1>3, <2>1, <2>2 DEF LeadersInv
<1> QED
  BY <1>2, <1>3
     DEF Next, vars, processVars, OnExit, OnExitDuringShutdown, OnExitRespawnOff,
         OnExitRateLimited, OnExitRespawned, LeaveUnreplaced, ForkReplacement,
         OnSignal, SendSignal, DelayElapsed, FinishShutdown, WorkerListens,
         WorkerExits, Vanish, DeliverTerm, DeliverKill, Tick

LEMMA LeadersExist == Spec => []LeadersInv
<1>1. Init => LeadersInv
  BY DEF Init, LeadersInv
<1>2. TypeOK /\ LeadersInv /\ [Next]_vars => LeadersInv'
  BY LeadersStep
<1> QED
  BY <1>1, <1>2, TypeCorrect, PTL DEF Spec

(* Every behaviour of the cluster is one of the abstract lease: a process   *)
(* becomes leader only when no leader process is alive, and only once.      *)
THEOREM LeaseImplemented == Spec => LeaseRefined
<1>1. Init => Lease!Init
  <2> SUFFICES ASSUME Init PROVE Lease!Init
    OBVIOUS
  <2>1. leaders \cap Alive = {1}
    BY WorkerCountPositive DEF Init, Alive
  <2>2. Newest = 1
    BY DEF Init, Newest
  <2> QED
    BY <2>1, <2>2 DEF Lease!Init
<1>2. IInv /\ LeadersInv /\ [Next]_vars => [Lease!Next]_(Lease!vars)
  <2> SUFFICES ASSUME IInv, LeadersInv, [Next]_vars
               PROVE  Lease!Next \/ UNCHANGED Lease!vars
    OBVIOUS
  <2> USE DEF IInv
  <2>1. ASSUME UNCHANGED <<leaders, leaders \cap Alive>>
        PROVE  UNCHANGED Lease!vars
    BY <2>1 DEF Lease!vars, Newest
  <2>2. ASSUME NEW w \in liveWorkers, OnExit(w)
        PROVE  Lease!Next \/ UNCHANGED Lease!vars
    <3> USE <2>2 DEF OnExit
    <3>1. CASE UNCHANGED processVars
      BY <3>1, <2>1 DEF processVars, Alive
    <3>2. CASE OnExitRespawned(w) /\ w # leaderId
      <4>1. leaders' = leaders /\ Alive' = Alive \cup {nextId}
        BY <3>2 DEF OnExitRespawned, ForkReplacement, Alive
      <4>2. nextId \notin leaders
        BY DEF TypeOK
      <4> QED
        BY <4>1, <4>2, <2>1
    <3>3. CASE OnExitRespawned(w) /\ w = leaderId
      <4>1. leaders' = leaders \cup {nextId} /\ Alive' = Alive \cup {nextId}
        BY <3>3 DEF OnExitRespawned, ForkReplacement, Alive
      <4>2. leaders \cap Alive = {}
        BY <3>3 DEF UnhandledExits, LeaderInv
      <4>3. nextId \notin leaders /\ nextId \notin Alive
        BY DEF TypeOK, Alive
      <4>4. (leaders \cap Alive)' = {nextId}
        BY <4>1, <4>2, <4>3
      <4>5. leaders' \in SUBSET Nat /\ leaders \in SUBSET Nat
            /\ nextId \in Nat /\ \A v \in leaders : v < nextId
        BY <4>1 DEF TypeOK
      <4>6. Newest' = nextId
        <5>1. nextId \in leaders' /\ \A v \in leaders' : v <= nextId
          BY <4>1, <4>5
        <5> QED
          BY <4>5, <5>1, GreatestIsUnique DEF Newest
      <4>7. Newest \in leaders
        BY DEF LeadersInv, Newest
      <4> QED
        BY <4>2, <4>4, <4>5, <4>6, <4>7 DEF Lease!Next, Lease!TakeOver
    <3> QED
      BY <3>1, <3>2, <3>3
         DEF OnExitDuringShutdown, OnExitRespawnOff, OnExitRateLimited, LeaveUnreplaced
  <2>3. ASSUME NEW w \in Alive, Vanish(w)
        PROVE  Lease!Next \/ UNCHANGED Lease!vars
    <3>1. leaders' = leaders /\ Alive' = Alive \ {w} /\ Newest' = Newest
      BY <2>3 DEF Vanish, Alive, Newest
    <3>2. CASE w \notin leaders
      BY <3>1, <3>2, <2>1
    <3>3. CASE w \in leaders
      <4>1. leaders \cap Alive # {} /\ (leaders \cap Alive)' = {}
        BY <3>1, <3>3 DEF LeaderInv
      <4> QED
        BY <4>1, <3>1 DEF Lease!Next, Lease!Vacate
    <3> QED
      BY <3>2, <3>3
  <2>4. ASSUME NEW w \in Alive, DeliverTerm(w)
        PROVE  Lease!Next \/ UNCHANGED Lease!vars
    <3>1. CASE w \in booting
      BY <3>1, <2>3, <2>4 DEF DeliverTerm
    <3>2. CASE w \notin booting
      BY <3>2, <2>1, <2>4 DEF DeliverTerm, Alive, TypeOK
    <3> QED
      BY <3>1, <3>2
  <2>5. CASE \/ \E s \in Signals : OnSignal(s) \/ SendSignal(s)
             \/ DelayElapsed \/ FinishShutdown
             \/ \E w \in Alive : WorkerListens(w)
             \/ Tick \/ UNCHANGED vars
    <3>1. leaders' = leaders /\ Alive' = Alive
      BY <2>5 DEF OnSignal, SendSignal, DelayElapsed, FinishShutdown, WorkerListens,
                  Tick, vars, primaryVars, processVars, Alive
    <3> QED
      BY <3>1, <2>1
  <2> QED
    BY <2>2, <2>3, <2>4, <2>5 DEF Next, WorkerExits, DeliverKill
<1> QED
  BY <1>1, <1>2, Invariance, LeadersExist, PTL DEF Spec, LeaseRefined, Lease!Spec
=============================================================================
