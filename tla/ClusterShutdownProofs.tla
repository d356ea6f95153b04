------------------------ MODULE ClusterShutdownProofs ------------------------
(***************************************************************************)
(* For every budget: which condition on the pools' drain time makes the     *)
(* primary's bounded wait long enough for a worker that is not stuck.       *)
(***************************************************************************)
EXTENDS ClusterShutdown, GracefulShutdownProofs

LEMMA WaitIsNatural == WaitMs \in Nat
  BY BudgetAssumption, SlackAssumption DEF WaitMs

-----------------------------------------------------------------------------
(* Under the primary the worker still does only what it does on its own.    *)
LEMMA WorkerInvInit == ClusterInit => IInv
  BY InvInit DEF ClusterInit

LEMMA WorkerSteps == [ClusterNext]_clusterVars => [Next]_vars
<1> SUFFICES ASSUME [ClusterNext]_clusterVars PROVE [Next]_vars
  OBVIOUS
<1>1. CASE PrimaryShutdown \/ PrimaryDrained \/ PrimaryTimeout \/ WorkerHangs
  BY <1>1 DEF PrimaryShutdown, PrimaryDrained, PrimaryTimeout, WorkerHangs
<1>2. CASE SignalDelivered
  BY <1>2 DEF SignalDelivered, Next
<1>3. CASE WorkerStep
  BY <1>3 DEF WorkerStep, Next
<1>4. CASE ClusterTick
  BY <1>4 DEF ClusterTick, Next
<1>5. CASE UNCHANGED clusterVars
  BY <1>5 DEF clusterVars
<1> QED
  BY <1>1, <1>2, <1>3, <1>4, <1>5 DEF ClusterNext

LEMMA WorkerInvariance == ClusterSpec => []IInv
<1>1. IInv /\ [ClusterNext]_clusterVars => IInv'
  BY InvStep, WorkerSteps
<1> QED
  BY <1>1, WorkerInvInit, PTL DEF ClusterSpec

-----------------------------------------------------------------------------
(* The primary's part of the invariant: while the worker's loop turns, both *)
(* clocks have run for the same time.                                       *)
ClockAgreement == ~hung => waitLeft + elapsed = WaitMs

PrimaryTypeOK ==
    /\ primary \in {"up", "waiting", "exited"}
    /\ waitLeft \in 0..WaitMs
    /\ told \in BOOLEAN
    /\ hung \in BOOLEAN
    /\ killed \in BOOLEAN

LEMMA PrimaryInit == ClusterInit => PrimaryTypeOK /\ ClockAgreement
<1> SUFFICES ASSUME ClusterInit PROVE PrimaryTypeOK /\ ClockAgreement
  OBVIOUS
<1>1. /\ primary = "up" /\ waitLeft = WaitMs /\ elapsed = 0
      /\ told = FALSE /\ hung = FALSE /\ killed = FALSE
  BY DEF ClusterInit, Init
<1>2. WaitMs \in 0..WaitMs /\ WaitMs + 0 = WaitMs
  BY WaitIsNatural
<1>3. PrimaryTypeOK
  BY <1>1, <1>2 DEF PrimaryTypeOK
<1>4. ClockAgreement
  BY <1>1, <1>2 DEF ClockAgreement
<1> QED
  BY <1>3, <1>4

LEMMA ElapsedOnlyInTick ==
  ASSUME SignalDelivered \/ WorkerStep
  PROVE  elapsed' = elapsed
<1> USE DEF sequenceVars
<1>1. CASE SignalDelivered
  BY <1>1 DEF SignalDelivered, OnSignal, vars
<1>2. CASE WorkerStep
  <2>1. (\E c \in Clients : \/ Connect(c) \/ SendRequest(c)
                            \/ HandlerReturns(c) \/ Disconnect(c)) => elapsed' = elapsed
    BY DEF Connect, SendRequest, HandlerReturns, Disconnect
  <2>2. (\E j \in Jobs : RunJob(j) \/ JobEnds(j)) => elapsed' = elapsed
    BY DEF RunJob, JobEnds
  <2>3. (\E p \in Pools, u \in Clients \cup Jobs : Borrow(u, p) \/ Return(u, p))
          => elapsed' = elapsed
    BY DEF Borrow, Return
  <2>4. Sequence => elapsed' = elapsed
    BY DEF Sequence, DelayElapsed, ForceTimerFires, ServerClosed, JobsDrained,
           JobDrainTimeout, PoolCloses, Finish
  <2> QED
    BY <1>2, <2>1, <2>2, <2>3, <2>4 DEF WorkerStep
<1> QED
  BY <1>1, <1>2

LEMMA PrimaryStep ==
  PrimaryTypeOK /\ ClockAgreement /\ TypeOK /\ [ClusterNext]_clusterVars
    => PrimaryTypeOK' /\ ClockAgreement'
<1> SUFFICES ASSUME PrimaryTypeOK, ClockAgreement, [ClusterNext]_clusterVars,
                    elapsed \in Nat
             PROVE  PrimaryTypeOK' /\ ClockAgreement'
  BY DEF TypeOK
<1>0. WaitMs' = WaitMs
  BY DEF WaitMs
<1> USE <1>0, WaitIsNatural DEF PrimaryTypeOK, ClockAgreement
<1>1. CASE PrimaryShutdown \/ PrimaryDrained \/ PrimaryTimeout \/ WorkerHangs
  BY <1>1 DEF PrimaryShutdown, PrimaryDrained, PrimaryTimeout, WorkerHangs, vars,
              sequenceVars
<1>2. CASE SignalDelivered
  BY <1>2, ElapsedOnlyInTick DEF SignalDelivered
<1>3. CASE WorkerStep
  BY <1>3, ElapsedOnlyInTick DEF WorkerStep
<1>4. CASE ClusterTick
  BY <1>4 DEF ClusterTick, Tick, vars, sequenceVars
<1>5. CASE UNCHANGED clusterVars
  BY <1>5 DEF clusterVars, vars, sequenceVars
<1> QED
  BY <1>1, <1>2, <1>3, <1>4, <1>5 DEF ClusterNext

LEMMA PrimaryInvariance == ClusterSpec => [](PrimaryTypeOK /\ ClockAgreement)
<1>1. IInv => TypeOK
  BY DEF IInv
<1>2. PrimaryTypeOK /\ ClockAgreement /\ IInv /\ [ClusterNext]_clusterVars
        => PrimaryTypeOK' /\ ClockAgreement'
  BY <1>1, PrimaryStep
<1> QED
  BY <1>2, PrimaryInit, WorkerInvariance, PTL DEF ClusterSpec

-----------------------------------------------------------------------------
(* Every reachable state of primary and worker has its type.                *)
THEOREM ClusterTypeCorrect == ClusterSpec => []ClusterTypeOK
<1>1. IInv /\ PrimaryTypeOK => ClusterTypeOK
  BY DEF IInv, PrimaryTypeOK, ClusterTypeOK
<1> QED
  BY <1>1, WorkerInvariance, PrimaryInvariance, PTL

(* In a process that serves no timer of the sequence runs yet.              *)
NoTimerYet == phase = "serving" => timer = 0

LEMMA NoTimerInvariance == ClusterSpec => []NoTimerYet
<1>1. ClusterInit => NoTimerYet
  BY DEF ClusterInit, Init, NoTimerYet
<1>2. NoTimerYet /\ [Next]_vars => NoTimerYet'
  <2> SUFFICES ASSUME NoTimerYet, [Next]_vars, phase' = "serving" PROVE timer' = 0
    BY DEF NoTimerYet
  <2>1. UNCHANGED sequenceVars \/ OnSignal \/ Sequence \/ Tick
    BY DEF Next, Connect, SendRequest, HandlerReturns, Disconnect, RunJob, JobEnds, Borrow,
           Return, vars
  <2>2. CASE UNCHANGED sequenceVars
    BY <2>2 DEF NoTimerYet, sequenceVars
  <2>3. CASE OnSignal \/ Tick
    BY <2>3 DEF OnSignal, Tick
  <2>4. CASE Sequence
    BY <2>4 DEF Sequence, DelayElapsed, ForceTimerFires, ServerClosed, JobsDrained,
                JobDrainTimeout, PoolCloses, Finish, CloseApp, sequenceVars, NoTimerYet
  <2> QED
    BY <2>1, <2>2, <2>3, <2>4
<1> QED
  BY <1>1, <1>2, WorkerSteps, PTL DEF ClusterSpec

(* When the pools drain in less than the primary's slack, its wait outlasts *)
(* all that the worker's sequence may still need, from the signal's way to  *)
(* the worker to the close of the last pool, whatever the budgets are.      *)
THEOREM WaitCoversDrainHolds ==
  ASSUME DrainTimeMs < SHUTDOWN_SLACK_MS
  PROVE  ClusterSpec => []WaitCoversDrain
<1>1. IInv /\ PrimaryTypeOK /\ ClockAgreement /\ NoTimerYet => WaitCoversDrain
  <2> SUFFICES ASSUME IInv, PrimaryTypeOK, ClockAgreement, NoTimerYet, ~hung, phase # "finished"
               PROVE  waitLeft > StillNeeded
    BY DEF WaitCoversDrain
  <2>1. /\ timer \in Nat /\ elapsed \in Nat /\ waitLeft \in Nat /\ phase \in Phases
        /\ waitLeft + elapsed = WaitMs
    BY WaitIsNatural DEF IInv, TypeOK, PrimaryTypeOK, ClockAgreement
  <2>2. elapsed + StillNeeded <= DrainDelayMs + ForceAfterMs + JobDrainMs + DrainTimeMs
    BY <2>1, BudgetAssumption DEF IInv, ClockInv, NoTimerYet, StillNeeded, Phases
  <2>3. StillNeeded \in Nat
    BY <2>1, BudgetAssumption DEF StillNeeded
  <2> QED
    BY <2>1, <2>2, <2>3, BudgetAssumption, SlackAssumption DEF WaitMs
<1> QED
  BY <1>1, WorkerInvariance, PrimaryInvariance, NoTimerInvariance, PTL

(* When the pools drain in less than the primary's slack, only a worker     *)
(* whose event loop hangs is killed: the case operations.md describes.      *)
THEOREM KilledOnlyIfStuckHolds ==
  ASSUME DrainTimeMs < SHUTDOWN_SLACK_MS
  PROVE  ClusterSpec => []KilledOnlyIfStuck
<1>1. ClusterInit => KilledOnlyIfStuck
  BY DEF ClusterInit, KilledOnlyIfStuck
<1>2. KilledOnlyIfStuck /\ IInv /\ PrimaryTypeOK /\ ClockAgreement
        /\ [ClusterNext]_clusterVars => KilledOnlyIfStuck'
  <2> SUFFICES ASSUME KilledOnlyIfStuck, IInv, PrimaryTypeOK, ClockAgreement,
                      [ClusterNext]_clusterVars
               PROVE  KilledOnlyIfStuck'
    OBVIOUS
  <2>1. CASE PrimaryTimeout
    <3>1. waitLeft = 0 /\ UNCHANGED hung
      BY <2>1 DEF PrimaryTimeout
    <3>2. elapsed \in Nat /\ elapsed <= DrainDelayMs + ForceAfterMs + JobDrainMs + DrainTimeMs
      BY DEF IInv, TypeOK, ClockInv, EndsInBudget
    <3>3. waitLeft + elapsed < WaitMs
      BY <3>1, <3>2, BudgetAssumption, SlackAssumption DEF WaitMs
    <3>4. hung
      BY <3>2, <3>3, <3>1, WaitIsNatural DEF ClockAgreement, PrimaryTypeOK
    <3> QED
      BY <3>1, <3>4 DEF KilledOnlyIfStuck
  <2>2. CASE PrimaryShutdown \/ PrimaryDrained \/ SignalDelivered \/ WorkerStep
             \/ WorkerHangs \/ ClusterTick \/ UNCHANGED clusterVars
    BY <2>2 DEF PrimaryShutdown, PrimaryDrained, SignalDelivered, WorkerStep,
                WorkerHangs, ClusterTick, clusterVars, KilledOnlyIfStuck
  <2> QED
    BY <2>1, <2>2 DEF ClusterNext
<1> QED
  BY <1>1, <1>2, WorkerInvariance, PrimaryInvariance, PTL DEF ClusterSpec
==============================================================================
