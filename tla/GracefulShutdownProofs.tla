----------------------- MODULE GracefulShutdownProofs -----------------------
(***************************************************************************)
(* Proofs about GracefulShutdown for every set of clients, jobs and pools   *)
(* and every budget.                                                        *)
(***************************************************************************)
EXTENDS GracefulShutdown, TLAPS

-----------------------------------------------------------------------------
(* The inductive invariant, in parts.                                       *)

(* What each await still allows of the budget.                              *)
ClockInv ==
    /\ phase = "serving" => elapsed = 0
    /\ phase = "delaying" => elapsed + timer = DrainDelayMs
    /\ phase = "closing" => elapsed + timer = DrainDelayMs + ForceAfterMs
                            /\ elapsed >= DrainDelayMs
    /\ phase = "drainingJobs" =>
          /\ elapsed + timer <= DrainDelayMs + ForceAfterMs + JobDrainMs
          /\ elapsed + timer >= DrainDelayMs + JobDrainMs
    /\ phase = "closingApp" =>
          elapsed + timer <= DrainDelayMs + ForceAfterMs + JobDrainMs + DrainTimeMs
    /\ EndsInBudget

(* What has already been stopped at each await.                             *)
OrderInv ==
    /\ phase = "serving" <=> ~shuttingDown
    /\ phase \in {"serving", "delaying"} <=> listening
    /\ phase \in {"serving", "delaying", "closing"} => outlasted = {}
    /\ phase \in {"serving", "delaying"} => cut = {}
    /\ phase \in {"drainingJobs", "closingApp", "finished"} =>
          /\ Connected = {}
          /\ ~cronRunning
          /\ SnapshotComplete
    /\ phase \in {"closingApp", "finished"} => running \subseteq outlasted
    /\ \A p \in Pools : pool[p] # "open" => phase \in {"closingApp", "finished"}

IInv == TypeOK /\ ClockInv /\ OrderInv /\ GivenUpAtDeadline

LEMMA InvInit == Init => IInv
<1> SUFFICES ASSUME Init PROVE IInv
  OBVIOUS
<1> USE BudgetAssumption DEF Init
<1>1. TypeOK
  BY DEF TypeOK, Phases, RequestStates
<1> QED
  BY <1>1 DEF IInv, ClockInv, OrderInv, GivenUpAtDeadline, EndsInBudget, SnapshotComplete

LEMMA TypeStep == TypeOK /\ [Next]_vars => TypeOK'
<1> SUFFICES ASSUME TypeOK, [Next]_vars PROVE TypeOK'
  OBVIOUS
<1> USE BudgetAssumption
    DEF TypeOK, Phases, RequestStates, sequenceVars, serverVars, jobVars, poolVars
<1>1. ASSUME NEW c \in Clients, Connect(c) \/ SendRequest(c) PROVE TypeOK'
  BY <1>1 DEF Connect, SendRequest
<1>2. ASSUME NEW c \in Clients, HandlerReturns(c) PROVE TypeOK'
  BY <1>2 DEF HandlerReturns
<1>3. ASSUME NEW c \in Clients, Disconnect(c) PROVE TypeOK'
  BY <1>3 DEF Disconnect
<1>4. ASSUME NEW j \in Jobs, RunJob(j) \/ JobEnds(j) PROVE TypeOK'
  BY <1>4 DEF RunJob, JobEnds
<1>5. ASSUME NEW p \in Pools, NEW u \in Clients \cup Jobs, Borrow(u, p) PROVE TypeOK'
  BY <1>5 DEF Borrow
<1>6. ASSUME NEW p \in Pools, NEW u \in Clients \cup Jobs, Return(u, p) PROVE TypeOK'
  BY <1>6 DEF Return
<1>7. CASE OnSignal
  BY <1>7 DEF OnSignal
<1>8. CASE DelayElapsed
  BY <1>8 DEF DelayElapsed
<1>9. CASE ForceTimerFires
  BY <1>9 DEF ForceTimerFires
<1>10. CASE ServerClosed
  BY <1>10 DEF ServerClosed, CloseApp
<1>11. CASE JobsDrained
  BY <1>11 DEF JobsDrained, CloseApp
<1>12. CASE JobDrainTimeout
  BY <1>12 DEF JobDrainTimeout, CloseApp
<1>13. ASSUME NEW p \in Pools, PoolCloses(p) PROVE TypeOK'
  BY <1>13 DEF PoolCloses
<1>14. CASE Finish
  BY <1>14 DEF Finish
<1>15. CASE Tick
  BY <1>15 DEF Tick
<1>16. CASE UNCHANGED vars
  BY <1>16 DEF vars
<1> QED
  BY <1>1, <1>2, <1>3, <1>4, <1>5, <1>6, <1>7, <1>8, <1>9, <1>10, <1>11, <1>12,
     <1>13, <1>14, <1>15, <1>16 DEF Next, Sequence

LEMMA InvStep == IInv /\ [Next]_vars => IInv'
<1> SUFFICES ASSUME IInv, [Next]_vars PROVE IInv'
  OBVIOUS
<1> DEFINE Parts == ClockInv /\ OrderInv /\ GivenUpAtDeadline
<1>0. /\ TypeOK' /\ ClockInv /\ OrderInv /\ GivenUpAtDeadline
      /\ timer \in Nat /\ elapsed \in Nat /\ phase \in Phases
  BY TypeStep DEF IInv, TypeOK
<1> USE <1>0, BudgetAssumption DEF sequenceVars, serverVars, jobVars, poolVars
\* A step that leaves the sequence where it is only has to respect the order.
<1>1. ASSUME UNCHANGED sequenceVars, UNCHANGED <<cut, outlasted>>
      PROVE  ClockInv' /\ GivenUpAtDeadline'
  BY <1>1 DEF ClockInv, EndsInBudget, GivenUpAtDeadline
<1>2. ASSUME UNCHANGED <<sequenceVars, listening, cut, jobVars, pool>>,
             Connected' \subseteq Connected
      PROVE  OrderInv'
  BY <1>2 DEF OrderInv, SnapshotComplete
<1>3. ASSUME NEW c \in Clients,
             Connect(c) \/ SendRequest(c) \/ HandlerReturns(c) \/ Disconnect(c)
      PROVE  Parts'
  <2>1. UNCHANGED <<sequenceVars, listening, cut, jobVars, poolVars>>
    BY <1>3 DEF Connect, SendRequest, HandlerReturns, Disconnect
  <2>2. CASE Connect(c)
    <3>1. listening
      BY <2>2 DEF Connect
    <3>2. OrderInv'
      BY <2>1, <3>1 DEF OrderInv, SnapshotComplete
    <3> QED
      BY <2>1, <3>2, <1>1
  <2>3. CASE SendRequest(c) \/ HandlerReturns(c) \/ Disconnect(c)
    <3>1. Connected' \subseteq Connected
      BY <2>3 DEF SendRequest, HandlerReturns, Disconnect, Connected, IInv, TypeOK
    <3> QED
      BY <2>1, <3>1, <1>1, <1>2
  <2> QED
    BY <1>3, <2>2, <2>3
<1>4. ASSUME NEW j \in Jobs, RunJob(j) \/ JobEnds(j)
      PROVE  Parts'
  <2>1. UNCHANGED <<sequenceVars, serverVars, cronRunning, awaited, outlasted, poolVars>>
        /\ Connected' = Connected
    BY <1>4 DEF RunJob, JobEnds, Connected
  <2>2. running' \subseteq running \/ cronRunning
    BY <1>4 DEF RunJob, JobEnds
  <2>3. OrderInv'
    BY <2>1, <2>2 DEF OrderInv, SnapshotComplete
  <2> QED
    BY <2>1, <2>3, <1>1
<1>5. ASSUME NEW p \in Pools, NEW u \in Clients \cup Jobs, Borrow(u, p) \/ Return(u, p)
      PROVE  Parts'
  <2>1. UNCHANGED <<sequenceVars, serverVars, jobVars, pool>> /\ Connected' = Connected
    BY <1>5 DEF Borrow, Return, Connected
  <2> QED
    BY <2>1, <1>1, <1>2
<1>6. ASSUME OnSignal PROVE Parts'
  <2>1. /\ ~shuttingDown /\ shuttingDown' /\ phase' = "delaying" /\ timer' = DrainDelayMs
        /\ UNCHANGED <<elapsed, serverVars, jobVars, poolVars>>
    BY <1>6 DEF OnSignal
  <2>2. phase = "serving"
    BY <2>1 DEF OrderInv
  <2>3. ClockInv' /\ GivenUpAtDeadline'
    BY <2>1, <2>2 DEF ClockInv, EndsInBudget, GivenUpAtDeadline
  <2>4. OrderInv'
    BY <2>1, <2>2 DEF OrderInv
  <2> QED
    BY <2>3, <2>4
<1>7. ASSUME DelayElapsed PROVE Parts'
  <2>1. /\ phase = "delaying" /\ timer = 0 /\ phase' = "closing"
        /\ timer' = ForceAfterMs /\ ~listening'
        /\ UNCHANGED <<shuttingDown, elapsed, cut, jobVars, poolVars>>
    BY <1>7 DEF DelayElapsed
  <2>2. ClockInv' /\ GivenUpAtDeadline'
    BY <2>1 DEF ClockInv, EndsInBudget, GivenUpAtDeadline, OrderInv
  <2>3. OrderInv'
    BY <2>1 DEF OrderInv
  <2> QED
    BY <2>2, <2>3
<1>8. ASSUME ForceTimerFires PROVE Parts'
  <2>1. phase = "closing" /\ timer = 0 /\ UNCHANGED <<sequenceVars, listening, jobVars, poolVars>>
    BY <1>8 DEF ForceTimerFires
  <2>2. ClockInv'
    BY <2>1 DEF ClockInv, EndsInBudget
  <2>3. GivenUpAtDeadline'
    BY <2>1 DEF ClockInv, GivenUpAtDeadline, OrderInv
  <2>4. OrderInv'
    BY <2>1 DEF OrderInv, SnapshotComplete
  <2> QED
    BY <2>2, <2>3, <2>4
<1>9. ASSUME ServerClosed PROVE Parts'
  <2>1. /\ phase = "closing" /\ Connected = {} /\ ~cronRunning' /\ awaited' = running
        /\ UNCHANGED <<shuttingDown, elapsed, serverVars, running, outlasted, borrowed>>
        /\ Connected' = {}
    BY <1>9 DEF ServerClosed, Connected
  <2>2. CASE running = {}
    <3>1. phase' = "closingApp" /\ timer' = DrainTimeMs
      BY <1>9, <2>2 DEF ServerClosed, CloseApp
    <3>2. ClockInv' /\ GivenUpAtDeadline'
      BY <2>1, <3>1 DEF ClockInv, EndsInBudget, GivenUpAtDeadline
    <3>3. OrderInv'
      BY <2>1, <2>2, <3>1 DEF OrderInv, SnapshotComplete
    <3> QED
      BY <3>2, <3>3
  <2>3. CASE running # {}
    <3>1. phase' = "drainingJobs" /\ timer' = JobDrainMs /\ UNCHANGED pool
      BY <1>9, <2>3 DEF ServerClosed
    <3>2. ClockInv' /\ GivenUpAtDeadline'
      BY <2>1, <3>1 DEF ClockInv, EndsInBudget, GivenUpAtDeadline
    <3>3. OrderInv'
      BY <2>1, <3>1 DEF OrderInv, SnapshotComplete
    <3> QED
      BY <3>2, <3>3
  <2> QED
    BY <2>2, <2>3
<1>10. ASSUME JobsDrained PROVE Parts'
  <2>1. /\ phase = "drainingJobs" /\ phase' = "closingApp" /\ timer' = DrainTimeMs
        /\ UNCHANGED <<shuttingDown, elapsed, serverVars, jobVars, borrowed>>
        /\ Connected' = Connected
    BY <1>10 DEF JobsDrained, CloseApp, Connected
  <2>2. running = {}
    BY <1>10 DEF JobsDrained, OrderInv, SnapshotComplete
  <2>3. ClockInv' /\ GivenUpAtDeadline'
    BY <2>1 DEF ClockInv, EndsInBudget, GivenUpAtDeadline
  <2>4. OrderInv'
    BY <2>1, <2>2 DEF OrderInv, SnapshotComplete
  <2> QED
    BY <2>3, <2>4
<1>11. ASSUME JobDrainTimeout PROVE Parts'
  <2>1. /\ phase = "drainingJobs" /\ timer = 0
        /\ phase' = "closingApp" /\ timer' = DrainTimeMs
        /\ UNCHANGED <<shuttingDown, elapsed, serverVars, cronRunning, running, awaited,
                       borrowed>>
        /\ Connected' = Connected
    BY <1>11 DEF JobDrainTimeout, CloseApp, Connected
  <2>2. outlasted' = running
    BY <1>11 DEF JobDrainTimeout, OrderInv, SnapshotComplete
  <2>3. ClockInv' /\ GivenUpAtDeadline'
    BY <2>1 DEF ClockInv, EndsInBudget, GivenUpAtDeadline
  <2>4. OrderInv'
    BY <2>1, <2>2 DEF OrderInv, SnapshotComplete
  <2> QED
    BY <2>3, <2>4
<1>12. ASSUME NEW p \in Pools, PoolCloses(p) PROVE Parts'
  <2>1. UNCHANGED <<sequenceVars, serverVars, jobVars>> /\ Connected' = Connected
    BY <1>12 DEF PoolCloses, Connected
  <2>3. \A q \in Pools : pool'[q] # "open" => pool[q] # "open"
    BY <1>12 DEF PoolCloses, IInv, TypeOK
  <2>2. OrderInv'
    BY <2>1, <2>3 DEF OrderInv, SnapshotComplete
  <2> QED
    BY <2>1, <2>2, <1>1
<1>13. ASSUME Finish PROVE Parts'
  <2>1. /\ phase = "closingApp" /\ phase' = "finished"
        /\ UNCHANGED <<shuttingDown, timer, elapsed, serverVars, jobVars, poolVars>>
        /\ Connected' = Connected
    BY <1>13 DEF Finish, Connected
  <2>2. ClockInv' /\ GivenUpAtDeadline'
    BY <2>1 DEF ClockInv, EndsInBudget, GivenUpAtDeadline
  <2>3. OrderInv'
    BY <2>1 DEF OrderInv, SnapshotComplete
  <2> QED
    BY <2>2, <2>3
<1>14. ASSUME Tick PROVE Parts'
  <2>1. /\ phase \notin {"serving", "finished"} /\ timer > 0
        /\ timer' = timer - 1 /\ elapsed' = elapsed + 1
        /\ UNCHANGED <<shuttingDown, phase, serverVars, jobVars, poolVars>>
        /\ Connected' = Connected
    BY <1>14 DEF Tick, Connected
  <2>2. ClockInv'
    BY <2>1 DEF ClockInv, EndsInBudget, Phases
  <2>3. GivenUpAtDeadline'
    BY <2>1 DEF GivenUpAtDeadline
  <2>4. OrderInv'
    BY <2>1 DEF OrderInv, SnapshotComplete
  <2> QED
    BY <2>2, <2>3, <2>4
<1>15. ASSUME UNCHANGED vars PROVE Parts'
  BY <1>15 DEF vars, ClockInv, EndsInBudget, GivenUpAtDeadline, OrderInv,
               SnapshotComplete, Connected
<1>16. Parts'
  <2> HIDE DEF Parts
  <2> QED
    BY <1>3, <1>4, <1>5, <1>6, <1>7, <1>8, <1>9, <1>10, <1>11, <1>12, <1>13, <1>14,
       <1>15 DEF Next, Sequence
<1> QED
  BY <1>16 DEF IInv

THEOREM Invariance == Spec => []IInv
  BY InvInit, InvStep, PTL DEF Spec

-----------------------------------------------------------------------------
(* The timer, the counts of open requests and the sets of jobs and pools    *)
(* keep their ranges in every step of a shutdown.                           *)
THEOREM ShutdownTypeCorrect == Spec => []TypeOK
<1>1. IInv => TypeOK
  BY DEF IInv
<1> QED
  BY <1>1, Invariance, PTL

(* The drain stays within the grace period operations.md documents.         *)
THEOREM EndsInBudgetHolds == Spec => []EndsInBudget
<1>1. IInv => EndsInBudget
  BY DEF IInv, ClockInv
<1> QED
  BY <1>1, Invariance, PTL

(* Pools are closed only under abandoned handlers and outlasting jobs.      *)
THEOREM PoolsOutliveWorkHolds == Spec => []PoolsOutliveWork
<1>1. IInv => PoolsOutliveWork
  BY DEF IInv, OrderInv, PoolsOutliveWork, Connected
<1> QED
  BY <1>1, Invariance, PTL

(* stop() waits for every run: none starts after its snapshot.              *)
THEOREM SnapshotCompleteHolds == Spec => []SnapshotComplete
<1>1. IInv => SnapshotComplete
  BY DEF IInv, OrderInv, SnapshotComplete
<1> QED
  BY <1>1, Invariance, PTL

(* Requests and jobs are given up only at their deadlines.                  *)
THEOREM GivenUpAtDeadlineHolds == Spec => []GivenUpAtDeadline
<1>1. IInv => GivenUpAtDeadline
  BY DEF IInv
<1> QED
  BY <1>1, Invariance, PTL

(* The port closes only once readiness has failed for the whole delay: of   *)
(* all steps only DelayElapsed stops the listening, at the delay's end.     *)
THEOREM ReadinessFailsFirstHolds == Spec => ReadinessFailsFirst
<1> DEFINE Delayed == listening /\ ~listening' => shuttingDown /\ elapsed >= DrainDelayMs
<1>1. IInv /\ [Next]_vars => [Delayed]_vars
  <2> SUFFICES ASSUME IInv, Next, listening, ~listening'
               PROVE  shuttingDown /\ elapsed >= DrainDelayMs
    OBVIOUS
  <2>1. DelayElapsed
    BY DEF Next, Sequence, Connect, SendRequest, HandlerReturns, Disconnect, Borrow, Return,
           RunJob, JobEnds, OnSignal, ForceTimerFires, ServerClosed, JobsDrained,
           JobDrainTimeout, PoolCloses, Finish, Tick, serverVars
  <2>2. phase = "delaying" /\ timer = 0
    BY <2>1 DEF DelayElapsed
  <2>3. shuttingDown
    BY <2>2 DEF IInv, TypeOK, OrderInv
  <2>4. elapsed + timer = DrainDelayMs /\ elapsed \in Nat
    BY <2>2 DEF IInv, TypeOK, ClockInv
  <2> QED
    BY <2>2, <2>3, <2>4
<1> QED
  BY <1>1, Invariance, PTL DEF Spec, ReadinessFailsFirst
=============================================================================
