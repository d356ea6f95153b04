-------------------------- MODULE SemaphoreProofs --------------------------
(***************************************************************************)
(* Proofs about the concurrency limiter for any finite set of calls and any *)
(* constructor argument.                                                    *)
(***************************************************************************)
EXTENDS Semaphore, FiniteSetTheorems, TLAPS

SemInv == SemTypeOK /\ SlotsConserved /\ QueueIsWaiting /\ NoLostWakeup

LEMMA SlotsPositive == Slots \in Nat /\ Slots >= 1
  BY ConcurrencyAssumption DEF Slots

LEMMA StageFinite ==
  ASSUME NEW s
  PROVE  IsFiniteSet(AtStage(s)) /\ Cardinality(AtStage(s)) \in Nat
  BY CallsFinite, FS_Subset, FS_CardinalityType DEF AtStage

LEMMA StageFiniteNext ==
  ASSUME NEW s
  PROVE  IsFiniteSet(AtStage(s)') /\ Cardinality(AtStage(s)') \in Nat
  BY CallsFinite, FS_Subset, FS_CardinalityType DEF AtStage

(* A call that waits joins the end of the line and nothing else changes.    *)
LEMMA JoiningTheLine ==
  ASSUME NEW q \in Seq(Calls), NEW c \in Calls,
         \A i \in DOMAIN q : q[i] # c,
         \A i, j \in DOMAIN q : q[i] = q[j] => i = j,
         NEW r, r = Append(q, c)
  PROVE  /\ r \in Seq(Calls)
         /\ {r[i] : i \in DOMAIN r} = {q[i] : i \in DOMAIN q} \cup {c}
         /\ \A i, j \in DOMAIN r : r[i] = r[j] => i = j
<1>1. /\ r \in Seq(Calls) /\ Len(q) \in Nat /\ Len(r) = Len(q) + 1
      /\ DOMAIN q = 1..Len(q) /\ DOMAIN r = 1..Len(r)
  OBVIOUS
<1>2. \A i \in DOMAIN q : i \in DOMAIN r /\ r[i] = q[i]
  BY <1>1
<1>3. r[Len(q) + 1] = c /\ Len(q) + 1 \in DOMAIN r
  BY <1>1
<1>4. \A i \in DOMAIN r : i \in DOMAIN q \/ i = Len(q) + 1
  BY <1>1
<1>5. {r[i] : i \in DOMAIN r} = {q[i] : i \in DOMAIN q} \cup {c}
  BY <1>2, <1>3, <1>4
<1>6. \A i, j \in DOMAIN r : r[i] = r[j] => i = j
  BY <1>2, <1>3, <1>4
<1> QED
  BY <1>1, <1>5, <1>6

(* The head of the line leaves it and everyone else stays.                  *)
LEMMA LeavingTheLine ==
  ASSUME NEW q \in Seq(Calls), q # <<>>,
         \A i, j \in DOMAIN q : q[i] = q[j] => i = j,
         NEW r, r = Tail(q)
  PROVE  /\ r \in Seq(Calls)
         /\ Head(q) \in {q[i] : i \in DOMAIN q}
         /\ {r[i] : i \in DOMAIN r} = {q[i] : i \in DOMAIN q} \ {Head(q)}
         /\ \A i, j \in DOMAIN r : r[i] = r[j] => i = j
<1>1. /\ r \in Seq(Calls) /\ Len(q) \in Nat /\ Len(q) >= 1 /\ Len(r) = Len(q) - 1
      /\ DOMAIN q = 1..Len(q) /\ DOMAIN r = 1..(Len(q) - 1) /\ Head(q) = q[1]
      /\ \A i \in 1..(Len(q) - 1) : r[i] = q[i + 1]
  OBVIOUS
<1>2. 1 \in DOMAIN q
  BY <1>1
<1>3. \A i \in DOMAIN r : i + 1 \in DOMAIN q /\ r[i] = q[i + 1] /\ i + 1 # 1
  BY <1>1
<1>4. \A i \in DOMAIN q : i = 1 \/ (i - 1 \in DOMAIN r /\ r[i - 1] = q[i])
  BY <1>1
<1>5. {r[i] : i \in DOMAIN r} = {q[i] : i \in DOMAIN q} \ {q[1]}
  <2>1. ASSUME NEW i \in DOMAIN r
        PROVE  r[i] \in {q[k] : k \in DOMAIN q} \ {q[1]}
    BY <1>2, <1>3
  <2>2. ASSUME NEW i \in DOMAIN q, q[i] # q[1]
        PROVE  q[i] \in {r[k] : k \in DOMAIN r}
    BY <1>4, <2>2
  <2> QED
    BY <2>1, <2>2
<1>6. ASSUME NEW i \in DOMAIN r, NEW j \in DOMAIN r, r[i] = r[j] PROVE i = j
  <2>1. i + 1 = j + 1
    BY <1>3, <1>6
  <2> QED
    BY <2>1, <1>1
<1> QED
  BY <1>1, <1>2, <1>5, <1>6

-----------------------------------------------------------------------------
LEMMA SemInvInit == SemInit => SemInv
<1> SUFFICES ASSUME SemInit PROVE SemInv
  OBVIOUS
<1>1. AtStage("inside") = {} /\ AtStage("queued") = {}
  BY DEF SemInit, AtStage
<1>2. SemTypeOK
  BY SlotsPositive DEF SemInit, SemTypeOK, Stages
<1>3. SlotsConserved
  BY <1>1, SlotsPositive, FS_EmptySet DEF SemInit, SlotsConserved
<1>4. QueueIsWaiting
  BY <1>1 DEF SemInit, QueueIsWaiting
<1>5. NoLostWakeup
  BY DEF SemInit, NoLostWakeup
<1> QED
  BY <1>2, <1>3, <1>4, <1>5 DEF SemInv

LEMMA TakeKeepsInv ==
  ASSUME SemInv, NEW c \in Calls, at[c] \in {"notCalled", "woken"}, Take(c)
  PROVE  SemInv'
<1> USE DEF SemInv
<1>0. at \in [Calls -> Stages] /\ count \in Nat /\ Slots \in Nat
  BY SlotsPositive DEF SemTypeOK
<1>1. /\ AtStage("inside")' = AtStage("inside") \cup {c} /\ c \notin AtStage("inside")
      /\ AtStage("woken")' = AtStage("woken") \ {c}
      /\ AtStage("queued")' = AtStage("queued")
  BY <1>0 DEF Take, AtStage, Stages
<1>2. Cardinality(AtStage("inside")') = Cardinality(AtStage("inside")) + 1
  BY <1>1, StageFinite, FS_AddElement
<1>3. Cardinality(AtStage("woken")') >= Cardinality(AtStage("woken")) - 1
  <2> DEFINE W == AtStage("woken")
  <2>1. IsFiniteSet(W) /\ Cardinality(W) \in Nat
    BY StageFinite
  <2> HIDE DEF W
  <2>2. Cardinality(W \ {c}) >= Cardinality(W) - 1
    BY <2>1, FS_RemoveElement
  <2> QED
    BY <1>1, <2>2 DEF W
<1>4. Slots' = Slots
  BY DEF Slots
<1>5. SemTypeOK'
  BY <1>0, <1>4 DEF Take, SemTypeOK, Stages
<1>6. SlotsConserved'
  BY <1>0, <1>2, <1>4, StageFinite DEF Take, SlotsConserved
<1>7. QueueIsWaiting'
  BY <1>1 DEF Take, QueueIsWaiting
<1>8. NoLostWakeup'
  BY <1>0, <1>3, StageFinite, StageFiniteNext DEF Take, NoLostWakeup
<1> QED
  BY <1>5, <1>6, <1>7, <1>8

LEMMA WaitKeepsInv ==
  ASSUME SemInv, NEW c \in Calls, at[c] \in {"notCalled", "woken"}, Wait(c)
  PROVE  SemInv'
<1> USE DEF SemInv
<1>0. at \in [Calls -> Stages] /\ queue \in Seq(Calls) /\ Slots' = Slots
  BY DEF SemTypeOK, Slots
<1>1. /\ AtStage("inside")' = AtStage("inside")
      /\ AtStage("queued")' = AtStage("queued") \cup {c}
      /\ c \notin AtStage("queued")
  BY <1>0 DEF Wait, AtStage, Stages
<1>2. \A i \in DOMAIN queue : queue[i] # c
  BY <1>1 DEF QueueIsWaiting
<1>3. /\ queue' \in Seq(Calls)
      /\ {queue'[i] : i \in DOMAIN queue'} = {queue[i] : i \in DOMAIN queue} \cup {c}
      /\ \A i, j \in DOMAIN queue' : queue'[i] = queue'[j] => i = j
  <2>1. queue' = Append(queue, c) /\ \A i, j \in DOMAIN queue : queue[i] = queue[j] => i = j
    BY DEF Wait, QueueIsWaiting
  <2> DEFINE r == Append(queue, c)
  <2>2. /\ r \in Seq(Calls)
        /\ {r[i] : i \in DOMAIN r} = {queue[i] : i \in DOMAIN queue} \cup {c}
        /\ \A i, j \in DOMAIN r : r[i] = r[j] => i = j
    BY <1>0, <1>2, <2>1, JoiningTheLine
  <2> QED
    BY <2>1, <2>2
<1>5. SemTypeOK'
  BY <1>0, <1>3 DEF Wait, SemTypeOK, Stages
<1>6. SlotsConserved'
  BY <1>0, <1>1 DEF Wait, SlotsConserved
<1>7. QueueIsWaiting'
  BY <1>1, <1>3 DEF QueueIsWaiting
<1>8. NoLostWakeup'
  BY StageFiniteNext DEF Wait, NoLostWakeup
<1> QED
  BY <1>5, <1>6, <1>7, <1>8

LEMMA LeaveKeepsInv ==
  ASSUME SemInv, NEW c \in Calls, Leave(c)
  PROVE  SemInv'
<1> USE DEF SemInv
<1>0. /\ at \in [Calls -> Stages] /\ queue \in Seq(Calls) /\ count \in Nat
      /\ Slots \in Nat /\ Slots' = Slots /\ count' = count + 1
      /\ c \in AtStage("inside")
  BY SlotsPositive DEF SemTypeOK, Slots, Leave, AtStage
<1>1. ASSUME AtStage("inside")' = AtStage("inside") \ {c}
      PROVE  SlotsConserved' /\ count' \in 0..Slots
  <2>1. Cardinality(AtStage("inside")') = Cardinality(AtStage("inside")) - 1
    BY <1>0, <1>1, StageFinite, FS_RemoveElement
  <2> QED
    BY <1>0, <2>1, StageFinite, StageFiniteNext DEF SlotsConserved
<1>2. CASE queue = <<>>
  <2>1. /\ AtStage("inside")' = AtStage("inside") \ {c}
        /\ AtStage("queued")' = AtStage("queued") /\ queue' = queue
        /\ at' \in [Calls -> Stages]
    BY <1>0, <1>2 DEF Leave, AtStage, Stages
  <2> QED
    BY <1>0, <1>1, <1>2, <2>1 DEF SemTypeOK, QueueIsWaiting, NoLostWakeup
<1>3. CASE queue # <<>>
  <2> DEFINE h == Head(queue)
  <2>1. /\ queue' = Tail(queue)
        /\ queue' \in Seq(Calls)
        /\ h \in AtStage("queued")
        /\ {queue'[i] : i \in DOMAIN queue'} = AtStage("queued") \ {h}
        /\ \A i, j \in DOMAIN queue' : queue'[i] = queue'[j] => i = j
    <3>1. /\ queue' = Tail(queue)
          /\ \A i, j \in DOMAIN queue : queue[i] = queue[j] => i = j
          /\ AtStage("queued") = {queue[i] : i \in DOMAIN queue}
      BY <1>3 DEF Leave, QueueIsWaiting
    <3> DEFINE r == Tail(queue)
    <3>2. /\ r \in Seq(Calls)
          /\ Head(queue) \in {queue[i] : i \in DOMAIN queue}
          /\ {r[i] : i \in DOMAIN r} = {queue[i] : i \in DOMAIN queue} \ {Head(queue)}
          /\ \A i, j \in DOMAIN r : r[i] = r[j] => i = j
      BY <1>0, <1>3, <3>1, LeavingTheLine
    <3> QED
      BY <3>1, <3>2
  <2>2. at' = [at EXCEPT ![c] = "done", ![h] = "woken"] /\ h # c /\ h \in Calls
    BY <1>0, <1>3, <2>1 DEF Leave, AtStage
  <2>3. /\ AtStage("inside")' = AtStage("inside") \ {c}
        /\ AtStage("queued")' = AtStage("queued") \ {h}
        /\ AtStage("woken")' = AtStage("woken") \cup {h}
        /\ h \notin AtStage("woken")
        /\ at' \in [Calls -> Stages]
    <3> HIDE DEF h
    <3> QED
      BY <1>0, <2>1, <2>2 DEF AtStage, Stages
  <2>4. Cardinality(AtStage("woken")') = Cardinality(AtStage("woken")) + 1
    BY <2>3, StageFinite, FS_AddElement
  <2>5. NoLostWakeup'
    BY <1>0, <1>3, <2>4, StageFinite DEF NoLostWakeup
  <2> QED
    BY <1>0, <1>1, <2>1, <2>3, <2>5 DEF SemTypeOK, QueueIsWaiting
<1> QED
  BY <1>2, <1>3

LEMMA SemInvStep == SemInv /\ [SemNext]_semVars => SemInv'
<1> SUFFICES ASSUME SemInv, [SemNext]_semVars PROVE SemInv'
  OBVIOUS
<1>1. ASSUME NEW c \in Calls, Enter(c) PROVE SemInv'
  BY <1>1, TakeKeepsInv, WaitKeepsInv DEF Enter
<1>2. ASSUME NEW c \in Calls, Leave(c) PROVE SemInv'
  BY <1>2, LeaveKeepsInv
<1>3. CASE UNCHANGED semVars
  BY <1>3 DEF semVars, SemInv, SemTypeOK, SlotsConserved, QueueIsWaiting, NoLostWakeup,
              AtStage, Slots
<1> QED
  BY <1>1, <1>2, <1>3 DEF SemNext

THEOREM SemInvariance == SemSpec => []SemInv
  BY SemInvInit, SemInvStep, PTL DEF SemSpec

(* No more than Slots calls ever run their fn at once, and no slot leaks.   *)
THEOREM SlotsConservedHolds == SemSpec => []SlotsConserved
<1>1. SemInv => SlotsConserved
  BY DEF SemInv
<1> QED
  BY <1>1, SemInvariance, PTL

(* The queue holds each waiting call once, and no other.                    *)
THEOREM QueueIsWaitingHolds == SemSpec => []QueueIsWaiting
<1>1. SemInv => QueueIsWaiting
  BY DEF SemInv
<1> QED
  BY <1>1, SemInvariance, PTL

(* A free slot that a waiting call could use has a woken call coming to it. *)
THEOREM NoLostWakeupHolds == SemSpec => []NoLostWakeup
<1>1. SemInv => NoLostWakeup
  BY DEF SemInv
<1> QED
  BY <1>1, SemInvariance, PTL

(* Nobody waits for nothing: behind a call in the queue there is one that   *)
(* holds a slot and will leave it, or one that was woken.                   *)
SomeoneMoves == AtStage("queued") # {} => AtStage("inside") \cup AtStage("woken") # {}

LEMMA SemInvServes == SemInv => SomeoneMoves
<1> SUFFICES ASSUME SemInv, AtStage("queued") # {},
                    AtStage("inside") = {}, AtStage("woken") = {}
             PROVE  FALSE
  BY DEF SomeoneMoves
<1>1. queue # <<>>
  BY DEF SemInv, QueueIsWaiting
<1>2. Cardinality({}) = 0
  BY FS_EmptySet
<1>3. count \in Int /\ count + Cardinality(AtStage("inside")) = Slots
  BY SlotsPositive DEF SemInv, SemTypeOK, SlotsConserved
<1>4. count <= 0
  BY <1>1, <1>2 DEF SemInv, NoLostWakeup
<1> QED
  BY <1>2, <1>3, <1>4, SlotsPositive

(* The semaphore cannot come to a stop with calls in its queue.             *)
THEOREM SomeoneMovesHolds == SemSpec => []SomeoneMoves
  BY SemInvServes, SemInvariance, PTL
=============================================================================
