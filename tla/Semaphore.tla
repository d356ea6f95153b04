----------------------------- MODULE Semaphore -----------------------------
(***************************************************************************)
(* The concurrency limiter of common/utils: with(fn) takes a slot, or waits *)
(* in a queue until a finished call wakes it, and then looks again.         *)
(*                                                                          *)
(* An element of Calls is one call of with(fn).  A woken call runs in a     *)
(* later microtask, so a new call may take the slot it was woken for.       *)
(***************************************************************************)
EXTENDS Integers, Sequences, FiniteSets

CONSTANTS
    Calls,       \* calls of with(fn)
    Concurrency  \* the constructor's max

ASSUME CallsFinite == IsFiniteSet(Calls)
ASSUME ConcurrencyAssumption == Concurrency \in Int

VARIABLES
    count,  \* free slots
    queue,  \* calls whose resolver is in the queue
    at      \* where each call is

semVars == <<count, queue, at>>

Slots == IF Concurrency > 1 THEN Concurrency ELSE 1

Stages == {"notCalled", "queued", "woken", "inside", "done"}

AtStage(s) == {c \in Calls : at[c] = s}

SemInit ==
    /\ count = Slots
    /\ queue = <<>>
    /\ at = [c \in Calls |-> "notCalled"]

Take(c) ==
    /\ count > 0
    /\ count' = count - 1
    /\ at' = [at EXCEPT ![c] = "inside"]
    /\ UNCHANGED queue

Wait(c) ==
    /\ count = 0
    /\ queue' = Append(queue, c)
    /\ at' = [at EXCEPT ![c] = "queued"]
    /\ UNCHANGED count

(* with(fn), first or again after a wake-up.                                *)
Enter(c) ==
    /\ at[c] \in {"notCalled", "woken"}
    /\ Take(c) \/ Wait(c)

\* Mutants of Leave: the next call in line is forgotten; the slot is not given
\* back.
Leave_NoWake(c) ==
    /\ at[c] = "inside"
    /\ count' = count + 1
    /\ at' = [at EXCEPT ![c] = "done"]
    /\ UNCHANGED queue
Leave_KeepSlot(c) ==
    /\ at[c] = "inside"
    /\ IF queue = <<>>
         THEN at' = [at EXCEPT ![c] = "done"] /\ UNCHANGED <<count, queue>>
         ELSE /\ at' = [at EXCEPT ![c] = "done", ![Head(queue)] = "woken"]
              /\ queue' = Tail(queue)
              /\ UNCHANGED count

(* The finally block, whether fn resolved or threw.                         *)
Leave(c) ==
    /\ at[c] = "inside"
    /\ count' = count + 1
    /\ IF queue = <<>>
         THEN at' = [at EXCEPT ![c] = "done"] /\ UNCHANGED queue
         ELSE /\ at' = [at EXCEPT ![c] = "done", ![Head(queue)] = "woken"]
              /\ queue' = Tail(queue)

SemNext == \E c \in Calls : Enter(c) \/ Leave(c)

SemSpec == SemInit /\ [][SemNext]_semVars

(* Microtasks run, and every fn settles.                                    *)
SemFairSpec ==
    /\ SemSpec
    /\ \A c \in Calls : /\ WF_semVars(at[c] = "woken" /\ Enter(c))
                        /\ WF_semVars(Leave(c))

-----------------------------------------------------------------------------
SemTypeOK ==
    /\ count \in 0..Slots
    /\ queue \in Seq(Calls)
    /\ at \in [Calls -> Stages]

(* Slots are neither lost nor invented, so no more than Slots calls run     *)
(* their fn at once, however calls throw, barge in or wait again.           *)
SlotsConserved == count + Cardinality(AtStage("inside")) = Slots

(* The queue holds exactly the calls that wait, each of them once.          *)
QueueIsWaiting ==
    /\ {queue[i] : i \in DOMAIN queue} = AtStage("queued")
    /\ \A i, j \in DOMAIN queue : queue[i] = queue[j] => i = j

(* No lost wake-up: while calls wait, every free slot has a woken call on   *)
(* its way to it.                                                           *)
NoLostWakeup == queue # <<>> => count <= Cardinality(AtStage("woken"))

(* Every call that had to wait gets to run its fn.                          *)
EveryWaiterServed == \A c \in Calls : at[c] = "queued" ~> at[c] \in {"inside", "done"}
=============================================================================
