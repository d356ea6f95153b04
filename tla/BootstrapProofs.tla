-------------------------- MODULE BootstrapProofs --------------------------
(***************************************************************************)
(* Proofs about the boot of the database sources, for any finite set of     *)
(* sources, any limit of concurrent pings and any number of retries, and    *)
(* what of them carries over to the bootstrap of a process, which the boot  *)
(* of its sources is a part of, for any environments.                       *)
(***************************************************************************)
EXTENDS Bootstrap, SemaphoreProofs

(* A ping loop runs exactly in a call that holds a slot, has not settled    *)
(* its source yet, and a call that is over did settle it.                   *)
PingInv ==
    \A s \in Implemented :
        /\ at[s] \in {"notCalled", "queued", "woken"} => ping[s] = "idle"
        /\ ping[s] = "idle" => attempt[s] = 0
        /\ ping[s] \in {"inFlight", "backoff"} <=> at[s] = "inside"
        /\ ping[s] = "backoff" => attempt[s] <= Retries
        /\ ping[s] # "over" => s \notin answered /\ s \notin failures
        /\ at[s] = "done" => s \in answered \/ (s \in ReqSet => s \in failures)
        /\ s \in failures => attempt[s] = Retries + 1 /\ s \notin answered

(* The calls are made between the jitter and the verdict.                   *)
PhaseInv ==
    /\ phase \in {"initialising", "jitter"} => AtStage("notCalled") = Implemented
    /\ phase \in {"ready", "failed"} => AtStage("notCalled") \cup AtStage("done") = Implemented
    /\ phase \in {"jitter", "pinging"} =>
         pingOnBoot /\ clients = Sources /\ Placeholders \cap ReqSet \subseteq failures
    /\ phase = "ready" => clients = Sources
    /\ phase = "pinging" => AtStage("notCalled") = {}
    /\ failures \subseteq ReqSet

BootInv ==
    /\ SemInv /\ BootTypeOK
    /\ PingInv /\ PhaseInv
    /\ ReadyMeansAnswered /\ FailedForARequiredSource

LEMMA BootInvInit == BootInit => BootInv
<1> SUFFICES ASSUME BootInit PROVE BootInv
  OBVIOUS
<1>1. SemInv
  BY SemInvInit DEF BootInit
<1>2. BootTypeOK
  BY <1>1, BootAssumption DEF SemInv, BootInit, BootTypeOK, Implemented
<1>3. PingInv
  BY DEF BootInit, SemInit, PingInv, Implemented
<1>4. PhaseInv
  BY DEF BootInit, SemInit, PhaseInv, AtStage, Implemented
<1>5. ReadyMeansAnswered /\ FailedForARequiredSource
  BY DEF BootInit, ReadyMeansAnswered, FailedForARequiredSource
<1> QED
  BY <1>1, <1>2, <1>3, <1>4, <1>5 DEF BootInv

(* A call that moved, or that pings, is a call of pingAll's map.            *)
LEMMA PingsWhilePinging ==
  ASSUME BootInv, NEW s \in Implemented, at[s] \in {"woken", "inside"}
  PROVE  phase = "pinging"
BY DEF BootInv, BootTypeOK, PhaseInv, AtStage, Implemented

(* An order of the calls and how many of them start: those hold the slots,  *)
(* the rest is the queue.                                                   *)
LEMMA Lined ==
  ASSUME NEW order \in SetToSeqs(Implemented),
         NEW n \in Nat, n <= Len(order)
  PROVE  LET begun == {order[i] : i \in 1..n}
             line == SubSeq(order, n + 1, Len(order))
         IN  /\ begun \subseteq Implemented
             /\ Cardinality(begun) = n
             /\ line \in Seq(Implemented)
             /\ {line[i] : i \in DOMAIN line} = Implemented \ begun
             /\ \A i, j \in DOMAIN line : line[i] = line[j] => i = j
<1> DEFINE N == Cardinality(Implemented)
           begun == {order[i] : i \in 1..n}
           line == SubSeq(order, n + 1, Len(order))
<1>1. /\ N \in Nat /\ IsFiniteSet(Implemented)
  BY CallsFinite, FS_CardinalityType DEF Implemented
<1>2. /\ order \in [1..N -> Implemented] /\ \A i, j \in 1..N : i # j => order[i] # order[j]
  BY DEF SetToSeqs
<1>3. order \in Seq(Implemented) /\ Len(order) = N
  BY <1>1, <1>2
<1>4. \A s \in Implemented : \E i \in 1..N : order[i] = s
  <2>1. order \in Injection(1..N, Implemented)
    BY <1>2 DEF Injection, IsInjective
  <2>2. Cardinality(1..N) = N
    BY <1>1, FS_Interval
  <2>3. order \in Surjection(1..N, Implemented)
    BY <1>1, <2>1, <2>2, FS_Injection
  <2> QED
    BY <2>3 DEF Surjection
<1>5. begun \subseteq Implemented
  BY <1>1, <1>2, <1>3
<1>6. Cardinality(begun) = n
  <2> DEFINE f == [i \in 1..n |-> order[i]]
  <2>1. f \in Bijection(1..n, begun)
    BY <1>1, <1>2, <1>3 DEF Bijection, Injection, Surjection, IsInjective
  <2>2. IsFiniteSet(1..n) /\ Cardinality(1..n) = n
    BY FS_Interval
  <2>3. ExistsBijection(1..n, begun)
    BY <2>1 DEF ExistsBijection
  <2> QED
    BY <2>2, <2>3, FS_Bijection
<1>7. /\ line \in Seq(Implemented) /\ DOMAIN line = 1..(N - n)
      /\ \A i \in 1..(N - n) : line[i] = order[n + i]
  BY <1>1, <1>3
<1>8. {line[i] : i \in DOMAIN line} = Implemented \ begun
  <2>1. ASSUME NEW i \in DOMAIN line PROVE line[i] \in Implemented \ begun
    BY <1>1, <1>2, <1>3, <1>7
  <2>2. ASSUME NEW s \in Implemented \ begun PROVE \E i \in DOMAIN line : line[i] = s
    <3>1. PICK k \in 1..N : order[k] = s
      BY <1>4
    <3>2. k > n
      BY <1>1, <3>1
    <3>3. k - n \in 1..(N - n) /\ line[k - n] = s
      BY <1>1, <1>7, <3>1, <3>2
    <3> QED
      BY <1>7, <3>3
  <2> QED
    BY <2>1, <2>2
<1>9. \A i, j \in DOMAIN line : line[i] = line[j] => i = j
  BY <1>1, <1>2, <1>3, <1>7
<1> QED
  BY <1>5, <1>6, <1>7, <1>8, <1>9

-----------------------------------------------------------------------------
(* Until init returns no call has been made: clients come, and the required *)
(* placeholders become the first failures.                                  *)
LEMMA InitKeepsInv ==
  ASSUME BootInv,
         \/ \E s \in Sources : CreateClient(s) \/ CreatePoolFails(s)
         \/ InitReturns
  PROVE  BootInv'
<1> USE DEF BootInv
<1>0. /\ UNCHANGED <<config, semVars, ping, attempt, answered>>
      /\ phase = "initialising" /\ failures' \in {failures, Placeholders \cap ReqSet}
      /\ ReqSet' = ReqSet
      /\ \A s : AtStage(s)' = AtStage(s)
  BY DEF CreateClient, CreatePoolFails, InitReturns, config, semVars, ReqSet, AtStage
<1>1. SemInv'
  BY <1>0 DEF semVars, SemInv, SemTypeOK, SlotsConserved, QueueIsWaiting, NoLostWakeup, Slots
<1>2. BootTypeOK'
  BY <1>0, <1>1 DEF SemInv, BootTypeOK, CreateClient, CreatePoolFails, InitReturns, Sources
<1>3. PingInv'
  BY <1>0, BootAssumption DEF PingInv, PhaseInv, AtStage, semVars, Implemented
<1>4. PhaseInv'
  <2>1. AtStage("done") \subseteq Implemented
    BY DEF AtStage, Implemented
  <2>2. Sources' = Sources
    BY DEF Sources, Implemented
  <2> QED
    BY <1>0, <2>1, <2>2 DEF PhaseInv, CreateClient, CreatePoolFails, InitReturns, config
<1>5. ReadyMeansAnswered' /\ FailedForARequiredSource'
  BY <1>0 DEF ReadyMeansAnswered, FailedForARequiredSource, CreateClient, CreatePoolFails,
              InitReturns, config, Implemented, BootTypeOK
<1> QED
  BY <1>1, <1>2, <1>3, <1>4, <1>5

(* The first calls take the slots, the others the queue, in any order.      *)
LEMMA JitterOverKeepsInv ==
  ASSUME BootInv, JitterOver
  PROVE  BootInv'
<1> USE DEF BootInv
<1>1. PICK order \in SetToSeqs(Implemented) :
        LET n == IF Len(order) < Slots THEN Len(order) ELSE Slots
            begun == {order[i] : i \in 1..n}
        IN  /\ count' = Slots - n
            /\ queue' = SubSeq(order, n + 1, Len(order))
            /\ at' = [s \in Calls |-> IF s \in begun THEN "inside" ELSE "queued"]
            /\ ping' = [s \in Implemented |-> IF s \in begun THEN "inFlight" ELSE "idle"]
            /\ attempt' = [s \in Implemented |-> IF s \in begun THEN 1 ELSE 0]
  BY DEF JitterOver
<1> DEFINE n == IF Len(order) < Slots THEN Len(order) ELSE Slots
           begun == {order[i] : i \in 1..n}
           line == SubSeq(order, n + 1, Len(order))
<1>2. Len(order) \in Nat
  BY CallsFinite, FS_CardinalityType DEF SetToSeqs, Implemented
<1>3. /\ n \in Nat /\ n <= Len(order) /\ n <= Slots /\ Slots \in Nat /\ Slots' = Slots
      /\ Slots - n > 0 => n = Len(order)
  BY <1>2, SlotsPositive DEF Slots
<1>4. /\ count' = Slots - n
      /\ queue' = line
      /\ at' = [s \in Calls |-> IF s \in begun THEN "inside" ELSE "queued"]
      /\ ping' = [s \in Implemented |-> IF s \in begun THEN "inFlight" ELSE "idle"]
      /\ attempt' = [s \in Implemented |-> IF s \in begun THEN 1 ELSE 0]
  BY <1>1
<1> HIDE DEF n
<1>5. /\ begun \subseteq Implemented
      /\ Cardinality(begun) = n
      /\ line \in Seq(Implemented)
      /\ {line[i] : i \in DOMAIN line} = Implemented \ begun
      /\ \A i, j \in DOMAIN line : line[i] = line[j] => i = j
  BY <1>3, Lined
<1>6. n = Len(order) => line = <<>>
  BY <1>2 DEF SetToSeqs
<1> HIDE DEF begun, line
<1>7. /\ phase = "jitter" /\ phase' = "pinging"
      /\ UNCHANGED <<config, clients, failures, answered>>
  BY DEF JitterOver
<1>8. AtStage("inside")' = begun /\ AtStage("queued")' = Implemented \ begun
  BY <1>4, <1>5 DEF AtStage, Implemented
<1>9. SemInv'
  <2>1. SemTypeOK'
    BY <1>3, <1>4, <1>5 DEF SemTypeOK, Stages, Implemented
  <2>2. SlotsConserved'
    BY <1>3, <1>4, <1>5, <1>8 DEF SlotsConserved
  <2>3. QueueIsWaiting'
    BY <1>4, <1>5, <1>8 DEF QueueIsWaiting
  <2>4. NoLostWakeup'
    BY <1>3, <1>4, <1>6, StageFiniteNext DEF NoLostWakeup
  <2> QED
    BY <2>1, <2>2, <2>3, <2>4 DEF SemInv
<1>10. BootTypeOK'
  BY <1>4, <1>7, <1>9, BootAssumption DEF SemInv, BootTypeOK, Implemented, Sources
<1>11. PingInv'
  <2>1. \A s \in Implemented : s \notin answered /\ s \notin failures
    BY <1>7 DEF PingInv, PhaseInv, AtStage, Implemented
  <2> QED
    BY <1>4, <1>7, <2>1 DEF PingInv, Implemented
<1>12. PhaseInv'
  <2>1. AtStage("notCalled")' = {}
    BY <1>4 DEF AtStage
  <2> QED
    BY <1>7, <2>1 DEF PhaseInv, config, ReqSet, Implemented
<1>13. ReadyMeansAnswered' /\ FailedForARequiredSource'
  BY <1>7 DEF ReadyMeansAnswered, FailedForARequiredSource
<1> QED
  BY <1>9, <1>10, <1>11, <1>12, <1>13

(* A step of one ping: what is left is the call's own part of PingInv.      *)
LEMMA PingStepKeepsInv ==
  ASSUME BootInv, phase = "pinging",
         UNCHANGED <<config, phase, clients>>,
         SemInv', BootTypeOK', PingInv',
         AtStage("notCalled")' = {},
         failures \subseteq failures', failures' \subseteq ReqSet
  PROVE  BootInv'
BY DEF BootInv, PhaseInv, ReadyMeansAnswered, FailedForARequiredSource, config, ReqSet,
       Implemented

LEMMA WokenKeepsInv ==
  ASSUME BootInv, NEW s \in Implemented, Woken(s)
  PROVE  BootInv'
<1> USE DEF BootInv
<1>0. /\ phase = "pinging" /\ at[s] = "woken" /\ Enter(s)
      /\ UNCHANGED <<config, phase, clients, failures, answered>>
      /\ ping[s] = "idle" /\ attempt[s] = 0
      /\ at \in [Calls -> Stages] /\ s \in Calls
  BY PingsWhilePinging DEF Woken, PingInv, BootTypeOK, SemTypeOK, Implemented
<1>1. SemInv'
  BY <1>0, TakeKeepsInv, WaitKeepsInv DEF Enter
<1>2. \/ /\ at' = [at EXCEPT ![s] = "inside"]
         /\ ping' = [ping EXCEPT ![s] = "inFlight"] /\ attempt' = [attempt EXCEPT ![s] = 1]
      \/ /\ at' = [at EXCEPT ![s] = "queued"] /\ UNCHANGED <<ping, attempt>>
  <2>1. CASE Take(s)
    BY <1>0, <2>1 DEF Woken, Take, StartPing, BootTypeOK
  <2>2. CASE Wait(s)
    BY <1>0, <2>2 DEF Woken, Wait
  <2> QED
    BY <1>0, <2>1, <2>2 DEF Enter
<1>3. BootTypeOK'
  BY <1>0, <1>1, <1>2, BootAssumption DEF SemInv, BootTypeOK, Sources, Implemented
<1>4. PingInv'
  BY <1>0, <1>2 DEF PingInv, BootTypeOK, config, ReqSet, Implemented
<1>5. AtStage("notCalled")' = {}
  BY <1>0, <1>2 DEF PhaseInv, AtStage
<1> QED
  BY <1>0, <1>1, <1>3, <1>4, <1>5, PingStepKeepsInv DEF PhaseInv

LEMMA BackoffOverKeepsInv ==
  ASSUME BootInv, NEW s \in Implemented, BackoffOver(s)
  PROVE  BootInv'
<1> USE DEF BootInv
<1>0. /\ ping[s] = "backoff" /\ at[s] = "inside" /\ attempt[s] <= Retries
      /\ ping' = [ping EXCEPT ![s] = "inFlight"]
      /\ attempt' = [attempt EXCEPT ![s] = attempt[s] + 1]
      /\ UNCHANGED <<config, semVars, phase, clients, failures, answered>>
  BY DEF BackoffOver, StartPing, PingInv
<1>1. phase = "pinging"
  BY <1>0, PingsWhilePinging
<1>2. SemInv'
  BY <1>0 DEF semVars, SemInv, SemTypeOK, SlotsConserved, QueueIsWaiting, NoLostWakeup,
              AtStage, Slots
<1>3. BootTypeOK'
  BY <1>0, <1>2, BootAssumption DEF SemInv, BootTypeOK, Sources, Implemented
<1>4. PingInv'
  BY <1>0 DEF PingInv, BootTypeOK, config, semVars, ReqSet, Implemented
<1>5. AtStage("notCalled")' = {}
  BY <1>0, <1>1 DEF PhaseInv, AtStage, semVars
<1> QED
  BY <1>0, <1>1, <1>2, <1>3, <1>4, <1>5, PingStepKeepsInv DEF PhaseInv

(* The end of a call only moves the call at the head of the queue besides.  *)
LEMMA LeaveMoves ==
  ASSUME BootInv, NEW s \in Implemented, Leave(s)
  PROVE  /\ at[s] = "inside" /\ at'[s] = "done"
         /\ \A t \in Implemented \ {s} : at'[t] = at[t] \/ (at[t] = "queued" /\ at'[t] = "woken")
<1> USE DEF BootInv
<1>0. /\ at \in [Calls -> Stages] /\ queue \in Seq(Calls) /\ s \in Calls
      /\ \A i \in DOMAIN queue : at[queue[i]] = "queued" /\ queue[i] \in Calls
  BY DEF SemInv, SemTypeOK, QueueIsWaiting, AtStage, Implemented
<1>1. queue # <<>> => Head(queue) \in Calls /\ at[Head(queue)] = "queued"
  <2>1. queue # <<>> => 1 \in DOMAIN queue /\ Head(queue) = queue[1]
    BY <1>0
  <2> QED
    BY <1>0, <2>1
<1> DEFINE h == Head(queue)
<1>2. at[s] = "inside" /\ (at' = [at EXCEPT ![s] = "done"]
                           \/ (queue # <<>> /\ at' = [at EXCEPT ![s] = "done", ![h] = "woken"]))
  BY DEF Leave
<1> HIDE DEF h
<1>3. queue # <<>> => h \in Calls /\ at[h] = "queued"
  BY <1>1 DEF h
<1> QED
  BY <1>0, <1>2, <1>3 DEF Implemented

LEMMA PingAnswersKeepsInv ==
  ASSUME BootInv, NEW s \in Implemented, PingAnswers(s)
  PROVE  BootInv'
<1> USE DEF BootInv
<1>0. /\ ping[s] = "inFlight" /\ ping' = [ping EXCEPT ![s] = "over"]
      /\ answered' = answered \cup {s} /\ Leave(s)
      /\ UNCHANGED <<config, phase, clients, attempt, failures>>
  BY DEF PingAnswers
<1>1. /\ at[s] = "inside" /\ at'[s] = "done"
      /\ \A t \in Implemented \ {s} : at'[t] = at[t] \/ (at[t] = "queued" /\ at'[t] = "woken")
  BY <1>0, LeaveMoves
<1>2. phase = "pinging"
  BY <1>1, PingsWhilePinging
<1>3. SemInv'
  BY <1>0, LeaveKeepsInv DEF Implemented
<1>4. BootTypeOK'
  BY <1>0, <1>3 DEF SemInv, BootTypeOK, Sources, Implemented
<1>5. PingInv'
  BY <1>0, <1>1 DEF PingInv, BootTypeOK, config, ReqSet, Implemented
<1>6. AtStage("notCalled")' = {}
  BY <1>1, <1>2 DEF PhaseInv, AtStage, Implemented
<1> QED
  BY <1>0, <1>2, <1>3, <1>4, <1>5, <1>6, PingStepKeepsInv DEF PhaseInv

LEMMA PingFailsKeepsInv ==
  ASSUME BootInv, NEW s \in Implemented, PingFails(s)
  PROVE  BootInv'
<1> USE DEF BootInv
<1>0. /\ ping[s] = "inFlight" /\ at[s] = "inside" /\ s \notin answered /\ s \notin failures
      /\ attempt[s] \in 0..(Retries + 1)
      /\ UNCHANGED <<config, phase, clients, attempt, answered>>
  BY DEF PingFails, PingInv, BootTypeOK
<1>1. phase = "pinging"
  BY <1>0, PingsWhilePinging
<1>2. CASE attempt[s] <= Retries
  <2>0. ping' = [ping EXCEPT ![s] = "backoff"] /\ UNCHANGED <<failures, semVars>>
    BY <1>2 DEF PingFails
  <2>1. SemInv'
    BY <2>0 DEF semVars, SemInv, SemTypeOK, SlotsConserved, QueueIsWaiting, NoLostWakeup,
                AtStage, Slots
  <2>2. BootTypeOK'
    BY <1>0, <2>0, <2>1 DEF SemInv, BootTypeOK, Sources, Implemented
  <2>3. PingInv'
    BY <1>0, <1>2, <2>0 DEF PingInv, BootTypeOK, config, semVars, ReqSet, Implemented
  <2>4. AtStage("notCalled")' = {}
    BY <1>1, <2>0 DEF PhaseInv, AtStage, semVars
  <2> QED
    BY <1>0, <1>1, <2>0, <2>1, <2>2, <2>3, <2>4, PingStepKeepsInv DEF PhaseInv
<1>3. CASE ~(attempt[s] <= Retries)
  <2>0. /\ ping' = [ping EXCEPT ![s] = "over"] /\ Leave(s)
        /\ failures' = IF s \in ReqSet THEN failures \cup {s} ELSE failures
        /\ attempt[s] = Retries + 1
    BY <1>0, <1>3, BootAssumption DEF PingFails
  <2>1. /\ at'[s] = "done"
        /\ \A t \in Implemented \ {s} : at'[t] = at[t] \/ (at[t] = "queued" /\ at'[t] = "woken")
    BY <2>0, LeaveMoves
  <2>2. SemInv'
    BY <2>0, LeaveKeepsInv DEF Implemented
  <2>3. BootTypeOK'
    BY <1>0, <2>0, <2>2 DEF SemInv, BootTypeOK, Sources, Implemented
  <2>4. PingInv'
    BY <1>0, <2>0, <2>1 DEF PingInv, BootTypeOK, config, ReqSet, Implemented
  <2>5. failures \subseteq failures' /\ failures' \subseteq ReqSet
    BY <2>0 DEF PhaseInv
  <2>6. AtStage("notCalled")' = {}
    BY <1>0, <1>1, <2>1 DEF PhaseInv, AtStage, Implemented
  <2> QED
    BY <1>0, <1>1, <2>2, <2>3, <2>4, <2>5, <2>6, PingStepKeepsInv
<1> QED
  BY <1>2, <1>3

(* The verdict comes when every call is over, so each required source was   *)
(* answered for or is among the failures.                                   *)
LEMMA VerdictKeepsInv ==
  ASSUME BootInv, Verdict
  PROVE  BootInv'
<1> USE DEF BootInv
<1>0. /\ phase = "pinging" /\ AtStage("done") = Implemented
      /\ phase' = IF failures = {} THEN "ready" ELSE "failed"
      /\ UNCHANGED <<config, semVars, clients, ping, attempt, failures, answered>>
      /\ ReqSet' = ReqSet /\ \A s : AtStage(s)' = AtStage(s)
  BY DEF Verdict, config, semVars, ReqSet, AtStage
<1>1. SemInv'
  BY <1>0 DEF semVars, SemInv, SemTypeOK, SlotsConserved, QueueIsWaiting, NoLostWakeup, Slots
<1>2. BootTypeOK'
  BY <1>0, <1>1 DEF SemInv, BootTypeOK, Sources
<1>3. PingInv'
  BY <1>0 DEF PingInv, semVars
<1>4. PhaseInv'
  <2>1. AtStage("notCalled") \subseteq Implemented
    BY DEF AtStage, Implemented
  <2> QED
    BY <1>0, <2>1 DEF PhaseInv
<1>5. ReadyMeansAnswered'
  <2>1. \A s \in Implemented \cap ReqSet : s \in answered \/ s \in failures
    BY <1>0 DEF PingInv, AtStage
  <2> QED
    BY <1>0, <2>1 DEF ReadyMeansAnswered, PhaseInv, Sources, Implemented
<1>6. FailedForARequiredSource'
  <2>1. ASSUME failures # {}
        PROVE  \E s \in ReqSet \ answered :
                 s \in Placeholders \/ (s \in Implemented /\ attempt[s] = Retries + 1)
    <3>1. PICK s \in failures : TRUE
      BY <2>1
    <3>2. s \in ReqSet /\ s \in Sources
      BY <3>1 DEF PhaseInv, BootTypeOK
    <3>3. CASE s \in Implemented
      BY <3>1, <3>2, <3>3 DEF PingInv
    <3>4. CASE s \in Placeholders
      BY <3>2, <3>4, BootAssumption DEF BootTypeOK, Implemented
    <3> QED
      BY <3>2, <3>3, <3>4 DEF Sources
  <2> QED
    BY <1>0, <2>1 DEF FailedForARequiredSource, Implemented
<1> QED
  BY <1>1, <1>2, <1>3, <1>4, <1>5, <1>6

LEMMA BootInvStep == BootInv /\ [BootNext]_allVars => BootInv'
<1> SUFFICES ASSUME BootInv, [BootNext]_allVars PROVE BootInv'
  OBVIOUS
<1>1. CASE UNCHANGED allVars
  BY <1>1 DEF allVars, config, bootVars, semVars, BootInv, SemInv, SemTypeOK, SlotsConserved,
              QueueIsWaiting, NoLostWakeup, AtStage, Slots, BootTypeOK, PingInv, PhaseInv,
              ReadyMeansAnswered, FailedForARequiredSource, ReqSet, Sources, Implemented
<1>2. CASE BootNext
  BY <1>2, InitKeepsInv, JitterOverKeepsInv, WokenKeepsInv, BackoffOverKeepsInv,
     PingAnswersKeepsInv, PingFailsKeepsInv, VerdictKeepsInv DEF BootNext, BootStep, PingSettles
<1> QED
  BY <1>1, <1>2

THEOREM BootInvariance == BootSpec => []BootInv
  BY BootInvInit, BootInvStep, PTL DEF BootSpec

-----------------------------------------------------------------------------
(* Bootstrap moves the sources only by steps of their own boot.             *)
LEMMA BootstrapStepMaps == BootstrapNext => [BootNext]_allVars
<1> SUFFICES ASSUME BootstrapNext PROVE [BootNext]_allVars
  OBVIOUS
<1>1. ASSUME DatabaseStep(BootStep) \/ DatabaseStep(PingSettles) PROVE BootNext
  BY <1>1, Zenon DEF DatabaseStep, BootNext
<1>2. ASSUME ReadConfig \/ ReadTlsFiles \/ ContainerBuilt \/ ContainerFails \/ Listen
      PROVE  UNCHANGED allVars
  BY <1>2, Zenon DEF ReadConfig, ReadTlsFiles, ContainerBuilt, ContainerFails, Listen
<1>3. ASSUME InstallForwarder \/ OnApplicationBootstrap PROVE UNCHANGED allVars
  BY <1>3, Zenon DEF InstallForwarder, OnApplicationBootstrap
<1> QED
  BY <1>1, <1>2, <1>3, Zenon DEF BootstrapNext, BootstrapStep

(* The boot of the sources, as a part of bootstrap, is the boot of the      *)
(* sources: DatabaseBoot's specification holds of every bootstrap.          *)
THEOREM BootRefined == BootstrapSpec => BootSpec
<1>1. BootstrapInit => BootInit
  BY Zenon DEF BootstrapInit
<1>2. [BootstrapNext]_processVars => [BootNext]_allVars
  BY BootstrapStepMaps, Zenon DEF processVars
<1> QED
  BY <1>1, <1>2, PTL DEF BootstrapSpec, BootSpec

(* The semaphore, the clients, the ping loops and their results stay within *)
(* their ranges: no attempt beyond maxRetries + 1, count within the slots.  *)
THEOREM BootTypeCorrect == BootstrapSpec => []BootTypeOK
<1>1. BootInv => BootTypeOK
  BY DEF BootInv
<1> QED
  BY <1>1, BootRefined, BootInvariance, PTL

(* PoolManager.pingAll resolves only when every required source that is     *)
(* configured answered a ping.                                              *)
THEOREM ReadyMeansAnsweredHolds == BootstrapSpec => []ReadyMeansAnswered
<1>1. BootInv => ReadyMeansAnswered
  BY DEF BootInv
<1> QED
  BY <1>1, BootRefined, BootInvariance, PTL

(* A source that is not required never fails the boot.                      *)
THEOREM FailedForARequiredSourceHolds == BootstrapSpec => []FailedForARequiredSource
<1>1. BootInv => FailedForARequiredSource
  BY DEF BootInv
<1> QED
  BY <1>1, BootRefined, BootInvariance, PTL

-----------------------------------------------------------------------------
(* What loadConfig accepts, said of the variables themselves.               *)
LEMMA FlagRead ==
  ASSUME NEW value, NEW default \in {"true", "false"}
  PROVE  LET read == Default(EnvBool(value), default)
         IN  /\ IsFlag(read) <=> Readable(value)
             /\ default = "false" => (read = "true" <=> On(value))
BY DEF Default, EnvBool, EnvString, IsFlag, Readable, On, Unset

LEMMA TextRead ==
  ASSUME NEW value
  PROVE  /\ EnvString(value) # Unset <=> Given(value)
         /\ \A default : Default(EnvString(value), default) = IF Given(value) THEN value ELSE default
BY DEF Default, EnvString, Given, Unset

LEMMA Resolved ==
  ASSUME NEW source \in SourceSettings
  PROVE  LET resolved == ResolveSecretRefs(env, source)
         IN  /\ resolved.key = source.key /\ resolved.dialect = source.dialect
             /\ resolved.poolMin = source.poolMin /\ resolved.poolMax = source.poolMax
             /\ resolved.connectionUrl = source.connectionUrl
             /\ resolved.connectString = source.connectString
             /\ resolved.user = source.user /\ resolved.passwordEnv = source.passwordEnv
             /\ resolved.externalAuth = source.externalAuth
             /\ resolved.password = Password(source)
BY DEF SourceSettings, ResolveSecretRefs, Password

LEMMA SourceAccepted ==
  ASSUME NEW source \in SourceSettings
  PROVE  ValidSource(ResolveSecretRefs(env, source)) <=>
           /\ source.key # "empty" /\ Sized(source)
           /\ source.dialect = "oracle" => CanLogIn(source)
<1> DEFINE resolved == ResolveSecretRefs(env, source)
<1>1. /\ resolved.key = source.key /\ resolved.dialect = source.dialect
      /\ resolved.poolMin = source.poolMin /\ resolved.poolMax = source.poolMax
      /\ resolved.connectionUrl = source.connectionUrl
      /\ resolved.connectString = source.connectString
      /\ resolved.user = source.user /\ resolved.passwordEnv = source.passwordEnv
      /\ resolved.externalAuth = source.externalAuth
      /\ resolved.password = Password(source)
  BY Resolved
<1> HIDE DEF resolved
<1>2. ASSUME NEW fields
      PROVE  HasAll(resolved, fields) <=> \A f \in fields : resolved[f] # Unset
  BY DEF HasAll
<1>3. source.dialect = "oracle" =>
        (CanLogIn(source) <=>
           /\ \A f \in {"connectionUrl", "connectString", "user", "password", "passwordEnv"} :
                resolved[f] # "empty"
           /\ \/ resolved.connectionUrl # Unset
              \/ resolved.externalAuth /\ HasAll(resolved, {"connectString"})
              \/ HasAll(resolved, {"connectString", "user", "password"}))
  BY <1>1, <1>2 DEF CanLogIn
<1>4. Sized(source) <=>
        /\ PoolMin(resolved) >= 0 /\ resolved.poolMax >= 1
        /\ source.dialect = "oracle" => PoolMin(resolved) <= resolved.poolMax
  BY <1>1 DEF Sized, PoolMin, NoNumber, SourceSettings
<1>5. ValidSource(resolved) <=>
        /\ source.key # "empty" /\ Sized(source)
        /\ source.dialect = "oracle" => CanLogIn(source)
  BY <1>1, <1>3, <1>4, Zenon DEF ValidSource
<1> QED
  BY <1>5 DEF resolved

(* As many keys as sources: no key twice.                                   *)
LEMMA KeysDiffer ==
  ASSUME NEW list, NEW n \in Nat, DOMAIN list = 1..n
  PROVE  Cardinality({list[i].key : i \in DOMAIN list}) = n
           <=> \A i, j \in DOMAIN list : list[i].key = list[j].key => i = j
<1> DEFINE keys == {list[i].key : i \in 1..n}
           keyOf == [i \in 1..n |-> list[i].key]
<1>1. IsFiniteSet(1..n) /\ Cardinality(1..n) = n
  BY FS_Interval
<1>2. keyOf \in Surjection(1..n, keys)
  BY DEF Surjection
<1>3. keyOf \in [1..n -> keys] /\ \A i \in 1..n : keyOf[i] = list[i].key
  OBVIOUS
<1> HIDE DEF keys, keyOf
<1>4. keyOf \in Injection(1..n, keys)
        <=> \A i, j \in 1..n : list[i].key = list[j].key => i = j
  BY <1>3 DEF Injection, IsInjective
<1>5. Cardinality(keys) = n <=> keyOf \in Injection(1..n, keys)
  BY <1>1, <1>2, FS_Surjection
<1> QED
  BY <1>4, <1>5 DEF keys

(* The rules of each namespace, of which databases are the longest.         *)
LEMMA DatabaseAccepted ==
  ASSUME env \in Environments
  PROVE  ValidDatabase(env, DatabaseOf(env)) <=>
           (env.DATABASE_CONFIG_JSON.form # Unset =>
             LET list == env.DATABASE_CONFIG_JSON.list
             IN  /\ env.DATABASE_CONFIG_JSON.form \in {"array", "object"}
                 /\ list # <<>>
                 /\ \A i, j \in DOMAIN list : list[i].key = list[j].key => i = j
                 /\ \A i \in DOMAIN list : list[i].key # "empty" /\ Sized(list[i])
                 /\ \A i \in DOMAIN list : list[i].dialect = "oracle" => CanLogIn(list[i])
                 /\ Readable(env.DATABASE_PING_ON_BOOT))
<1> DEFINE list == env.DATABASE_CONFIG_JSON.list
           sources == ParseSources(env)
<1>1. list \in Seq(SourceSettings)
  BY EnvironmentAssumption
<1> HIDE DEF list
<1>2. Len(list) \in Nat /\ DOMAIN list = 1..Len(list)
      /\ \A i \in DOMAIN list : list[i] \in SourceSettings
  BY <1>1
<1>3. sources = [i \in DOMAIN list |-> ResolveSecretRefs(env, list[i])]
  BY DEF ParseSources, list
<1> HIDE DEF sources
<1>4. DOMAIN sources = 1..Len(list) /\ Len(sources) = Len(list)
  BY <1>2, <1>3
<1>5. \A i \in DOMAIN list : sources[i].key = list[i].key
  BY <1>2, <1>3, Resolved
<1>6. \A i \in DOMAIN list :
        ValidSource(sources[i]) <=>
          /\ list[i].key # "empty" /\ Sized(list[i])
          /\ list[i].dialect = "oracle" => CanLogIn(list[i])
  BY <1>2, <1>3, SourceAccepted
<1>7. Cardinality({sources[i].key : i \in DOMAIN sources}) = Len(sources)
        <=> \A i, j \in DOMAIN list : list[i].key = list[j].key => i = j
  <2>1. Cardinality({sources[i].key : i \in DOMAIN sources}) = Len(list)
          <=> \A i, j \in DOMAIN sources : sources[i].key = sources[j].key => i = j
    BY <1>2, <1>4, KeysDiffer
  <2> QED
    BY <1>2, <1>4, <1>5, <2>1
<1>8. Len(sources) >= 1 <=> list # <<>>
  BY <1>1, <1>4
<1>9. LET database == DatabaseOf(env)
      IN  /\ database.present <=> env.DATABASE_CONFIG_JSON.form # Unset
          /\ database.sources = sources
          /\ IsFlag(database.pingOnBoot) <=> Readable(env.DATABASE_PING_ON_BOOT)
  BY FlagRead DEF DatabaseOf, sources
<1>10. DOMAIN sources = DOMAIN list
  BY <1>2, <1>4
<1> QED
  BY <1>6, <1>7, <1>8, <1>9, <1>10, Zenon DEF ValidDatabase, list

LEMMA LegacyAccepted ==
  ValidLegacy(LegacyOf(env)) <=>
    /\ Readable(env.LEGACY_FORWARD_ENABLED)
    /\ env.LEGACY_LOG_FILE_NAME # "sub/legacy.log"
    /\ On(env.LEGACY_FORWARD_ENABLED) =>
         Given(env.LEGACY_TARGET_URL) /\ env.LEGACY_FORWARD_PREFIXES \ {"blank"} # {}
<1> DEFINE legacy == LegacyOf(env)
<1>1. /\ IsFlag(legacy.forwardEnabled) <=> Readable(env.LEGACY_FORWARD_ENABLED)
      /\ legacy.forwardEnabled = "true" <=> On(env.LEGACY_FORWARD_ENABLED)
  BY FlagRead DEF LegacyOf
<1>2. legacy.targetUrl # Unset <=> Given(env.LEGACY_TARGET_URL)
  BY TextRead DEF LegacyOf
<1>3. legacy.logFileName # "sub/legacy.log" <=> env.LEGACY_LOG_FILE_NAME # "sub/legacy.log"
  BY TextRead DEF LegacyOf, Given, Unset
<1>4. legacy.forwardPrefixes = env.LEGACY_FORWARD_PREFIXES \ {"blank"}
  BY DEF LegacyOf, EnvList
<1> QED
  BY <1>1, <1>2, <1>3, <1>4, Zenon DEF ValidLegacy, IsBareName

LEMMA TlsAccepted ==
  ValidTls(TlsOf(env)) <=>
    /\ Readable(env.TLS_ENABLED)
    /\ On(env.TLS_ENABLED) => Given(env.TLS_KEY_FILE) /\ Given(env.TLS_CERT_FILE)
BY FlagRead, TextRead DEF ValidTls, TlsOf

(* CLUSTER_LEADER is the one flag no operator sets.                         *)
LEMMA SettingsAccepted ==
  ASSUME env \in Environments, Readable(env.CLUSTER_LEADER)
  PROVE  Coherent <=> ~LoadConfigFails(env)
<1> DEFINE settings == Hydrate(env)
<1>1. /\ settings.database = DatabaseOf(env) /\ settings.jwt = JwtOf(env)
      /\ settings.legacy = LegacyOf(env) /\ settings.scheduler = SchedulerOf(env)
      /\ settings.tls = TlsOf(env) /\ settings.cluster = ClusterOf(env)
      /\ settings.logging = LoggingOf(env)
  BY DEF Hydrate
<1>2. ValidJwt(settings.jwt) <=> Given(env.JWT_SECRET) /\ env.JWT_SECRET # "short"
  BY <1>1 DEF ValidJwt, JwtOf, EnvString, Given, Unset
<1>3. /\ IsFlag(settings.scheduler.enabled) <=> Readable(env.SCHEDULER_ENABLED)
      /\ IsFlag(settings.cluster.enabled) <=> Readable(env.CLUSTER_ENABLED)
      /\ IsFlag(settings.cluster.isLeader)
      /\ ValidLogging(settings.logging) <=> Readable(env.LOGGING_TO_FILE)
  BY <1>1, FlagRead DEF SchedulerOf, ClusterOf, LoggingOf, ValidLogging
<1>4. /\ settings.legacy.logFileName = FileName("LEGACY_LOG_FILE_NAME", "legacy-forward.log")
      /\ settings.logging.fileName = FileName("LOGGING_FILE_NAME", "app.log")
  BY <1>1, TextRead DEF LegacyOf, LoggingOf, FileName
<1> HIDE DEF settings
<1>5. ~LoadConfigFails(env) <=>
        /\ ValidDatabase(env, DatabaseOf(env)) /\ ValidJwt(settings.jwt)
        /\ ValidLegacy(LegacyOf(env)) /\ ValidTls(TlsOf(env)) /\ ValidLogging(settings.logging)
        /\ IsFlag(settings.scheduler.enabled)
        /\ IsFlag(settings.cluster.enabled) /\ IsFlag(settings.cluster.isLeader)
        /\ settings.legacy.logFileName # settings.logging.fileName
  BY <1>1, Zenon DEF LoadConfigFails, settings
<1>6. Coherent <=>
        /\ ValidDatabase(env, DatabaseOf(env))
        /\ ValidLegacy(LegacyOf(env)) /\ ValidTls(TlsOf(env))
        /\ Readable(env.SCHEDULER_ENABLED) /\ Readable(env.CLUSTER_ENABLED)
        /\ Readable(env.LOGGING_TO_FILE)
        /\ Given(env.JWT_SECRET) /\ env.JWT_SECRET # "short"
        /\ FileName("LEGACY_LOG_FILE_NAME", "legacy-forward.log")
             # FileName("LOGGING_FILE_NAME", "app.log")
  <2>1. (\A flag \in {"LEGACY_FORWARD_ENABLED", "TLS_ENABLED", "CLUSTER_ENABLED",
                      "SCHEDULER_ENABLED", "LOGGING_TO_FILE"} : Readable(env[flag])) <=>
          /\ Readable(env.LEGACY_FORWARD_ENABLED) /\ Readable(env.TLS_ENABLED)
          /\ Readable(env.CLUSTER_ENABLED) /\ Readable(env.SCHEDULER_ENABLED)
          /\ Readable(env.LOGGING_TO_FILE)
    BY DEF Readable
  <2> QED
    BY <2>1, DatabaseAccepted, LegacyAccepted, TlsAccepted, Zenon DEF Coherent
<1> QED
  BY <1>2, <1>3, <1>4, <1>5, <1>6

-----------------------------------------------------------------------------
(* What bootstrap relies on of the step before: nothing is opened on        *)
(* settings that were refused, and each stage leaves what it was for.       *)
StartInv ==
    /\ env \in Environments
    /\ isPrimary \in BOOLEAN /\ portFree \in BOOLEAN
    /\ isPrimary => env.CLUSTER_LEADER = Unset
    /\ ~isPrimary => Clustered /\ env.CLUSTER_LEADER \in {"true", "false"}

Log == CreateDedicatedFileTargets(Settings.logging, Settings.legacy.logFileName)

GivenUp ==
    \/ LoadConfigFails(env) \/ LoadTlsFails(Settings.tls) \/ phase = "failed" \/ ~portFree
    \/ Forwards /\ ~ParsesAsUrl(Settings.legacy.targetUrl)
    \/ RunsJobs /\ CronJobThrows

StageInv ==
    /\ LoadConfigFails(env) => stage \in {"config", "exited"}
    /\ LoadConfigFails(env) => clients = {} /\ forwarder = {} /\ jobs = {}
    /\ stage \in {"config", "tls"} => clients = {}
    /\ stage \in {"container", "forwarder", "hooks", "binding", "serving"} =>
         ~(Clustered /\ isPrimary)
    /\ stage \in {"forwarder", "hooks", "binding", "serving"} =>
         (Settings.database.present => phase = "ready")
    /\ stage \in {"config", "tls", "container", "forwarder"} => forwarder = {}
    /\ stage \in {"hooks", "binding", "serving"} => forwarder = IF Forwards THEN Log ELSE {}
    /\ stage \in {"config", "tls", "container", "forwarder", "hooks"} => jobs = {}
    /\ stage \in {"binding", "serving"} => jobs = IF RunsJobs THEN Jobs ELSE {}
    /\ stage = "exited" => GivenUp

ProcessInv == StartInv /\ StageInv

LEMMA ProcessInvInit == BootstrapInit => ProcessInv
BY DEF BootstrapInit, BootInit, ProcessInv, StartInv, StageInv

(* The settings of a process are those it was started with.                 *)
LEMMA SettingsStay ==
  ASSUME UNCHANGED started
  PROVE  /\ Settings' = Settings /\ LoadConfigFails(env)' = LoadConfigFails(env)
         /\ LoadTlsFails(Settings.tls)' = LoadTlsFails(Settings.tls)
         /\ Clustered' = Clustered /\ Forwards' = Forwards /\ RunsJobs' = RunsJobs /\ Log' = Log
         /\ CronJobThrows' = CronJobThrows
         /\ ParsesAsUrl(Settings.legacy.targetUrl)' = ParsesAsUrl(Settings.legacy.targetUrl)
         /\ StartInv => StartInv'
<1>1. env' = env /\ isPrimary' = isPrimary /\ portFree' = portFree
  BY DEF started
<1>2. Settings' = Settings /\ LoadConfigFails(env)' = LoadConfigFails(env)
  BY <1>1 DEF Settings
<1>3. Clustered' = Clustered /\ Forwards' = Forwards /\ Log' = Log
      /\ CronJobThrows' = CronJobThrows
      /\ LoadTlsFails(Settings.tls)' = LoadTlsFails(Settings.tls)
      /\ ParsesAsUrl(Settings.legacy.targetUrl)' = ParsesAsUrl(Settings.legacy.targetUrl)
  BY <1>2, Zenon DEF Clustered, Forwards, Log, CronJobThrows
<1>4. RunsJobs' = RunsJobs
  BY <1>2, <1>3, Zenon DEF RunsJobs
<1>5. StartInv => StartInv'
  BY <1>1, <1>3 DEF StartInv
<1> QED
  BY <1>2, <1>3, <1>4, <1>5

LEMMA ProcessInvStep == ProcessInv /\ [BootstrapNext]_processVars => ProcessInv'
<1> SUFFICES ASSUME ProcessInv, [BootstrapNext]_processVars PROVE ProcessInv'
  OBVIOUS
<1> USE DEF ProcessInv
<1>0. UNCHANGED started
  BY Zenon DEF processVars, bootstrapVars, BootstrapNext, BootstrapStep, ReadConfig, ReadTlsFiles,
     DatabaseStep, ContainerBuilt, ContainerFails, InstallForwarder, OnApplicationBootstrap, Listen
<1>1. /\ Settings' = Settings /\ LoadConfigFails(env)' = LoadConfigFails(env)
      /\ LoadTlsFails(Settings.tls)' = LoadTlsFails(Settings.tls)
      /\ Clustered' = Clustered /\ Forwards' = Forwards /\ RunsJobs' = RunsJobs /\ Log' = Log
      /\ CronJobThrows' = CronJobThrows
      /\ ParsesAsUrl(Settings.legacy.targetUrl)' = ParsesAsUrl(Settings.legacy.targetUrl)
      /\ StartInv'
      /\ env' = env /\ isPrimary' = isPrimary /\ portFree' = portFree
  BY <1>0, SettingsStay DEF started
<1>2. ASSUME UNCHANGED processVars PROVE StageInv'
  BY <1>1, <1>2 DEF StageInv, GivenUp, processVars, allVars, bootVars, bootstrapVars
<1>3. ASSUME ReadConfig PROVE StageInv'
  BY <1>1, <1>3 DEF ReadConfig, Goes, StageInv, GivenUp, allVars, bootVars
<1>4. ASSUME ReadTlsFiles PROVE StageInv'
  BY <1>1, <1>4 DEF ReadTlsFiles, Goes, StageInv, GivenUp, allVars, bootVars
<1>5. ASSUME DatabaseStep(BootStep) \/ DatabaseStep(PingSettles) PROVE StageInv'
  <2>1. stage = "container" /\ UNCHANGED bootstrapVars
    BY <1>5, Zenon DEF DatabaseStep
  <2> QED
    BY <1>1, <2>1 DEF StageInv, GivenUp, bootstrapVars
<1>6. ASSUME ContainerBuilt PROVE StageInv'
  BY <1>1, <1>6 DEF ContainerBuilt, Goes, StageInv, GivenUp, allVars, bootVars
<1>7. ASSUME ContainerFails PROVE StageInv'
  BY <1>1, <1>7 DEF ContainerFails, Goes, StageInv, GivenUp, allVars, bootVars
<1>8. ASSUME InstallForwarder PROVE StageInv'
  BY <1>1, <1>8 DEF InstallForwarder, Log, StageInv, GivenUp, allVars, bootVars
<1>9. ASSUME OnApplicationBootstrap PROVE StageInv'
  BY <1>1, <1>9 DEF OnApplicationBootstrap, StageInv, GivenUp, allVars, bootVars
<1>10. ASSUME Listen PROVE StageInv'
  BY <1>1, <1>10 DEF Listen, Goes, StageInv, GivenUp, allVars, bootVars
<1> QED
  BY <1>1, <1>2, <1>3, <1>4, <1>5, <1>6, <1>7, <1>8, <1>9, <1>10
     DEF BootstrapNext, BootstrapStep

THEOREM ProcessInvariance == BootstrapSpec => [](BootInv /\ ProcessInv)
<1>1. BootstrapSpec => []ProcessInv
  BY ProcessInvInit, ProcessInvStep, PTL DEF BootstrapSpec
<1> QED
  BY <1>1, BootRefined, BootInvariance, PTL

(* A process opens nothing, and forks no worker, on settings that do not    *)
(* make sense; and one that gives up does so for a cause.                   *)
THEOREM SettingsDecideHolds == BootstrapSpec => []SettingsDecide
<1>1. ASSUME BootInv, ProcessInv PROVE SettingsDecide
  <2> USE DEF ProcessInv
  <2>1. Readable(env.CLUSTER_LEADER)
    BY <1>1 DEF StartInv, Readable, Unset
  <2>2. Coherent <=> ~LoadConfigFails(env)
    BY <1>1, <2>1, SettingsAccepted DEF StartInv
  <2>3. clients # {} \/ forwarder # {} \/ jobs # {} \/ stage \in {"primary", "serving"} => Coherent
    BY <1>1, <2>2 DEF StageInv
  <2>4. Forwards /\ ~ParsesAsUrl(Settings.legacy.targetUrl) =>
          On(env.LEGACY_FORWARD_ENABLED) /\ env.LEGACY_TARGET_URL = "noUrl"
    BY FlagRead DEF Forwards, ParsesAsUrl, Settings, Hydrate, LegacyOf, EnvString, Unset
  <2>5. RunsJobs /\ CronJobThrows =>
          On(env.SCHEDULER_ENABLED) /\ env.SCHEDULER_TIMEZONE = "noZone"
    BY FlagRead, TextRead DEF RunsJobs, CronJobThrows, Settings, Hydrate, SchedulerOf
  <2> QED
    BY <1>1, <2>2, <2>3, <2>4, <2>5, Zenon DEF StageInv, GivenUp, SettingsDecide
<1> QED
  BY <1>1, ProcessInvariance, PTL

(* A process that serves has all that its settings ask for and nothing they *)
(* do not: the forwarder and its log, the jobs, and the clients.            *)
THEOREM ServesAsConfiguredHolds == BootstrapSpec => []ServesAsConfigured
<1>1. ASSUME BootInv, ProcessInv, stage = "serving"
      PROVE  /\ forwarder = ForwarderLog
             /\ forwarder \cap CreateTransportTargets(Settings.logging) \subseteq {"console"}
  <2>1. /\ forwarder = IF Forwards THEN Log ELSE {}
        /\ ~LoadConfigFails(env)
    BY <1>1 DEF ProcessInv, StageInv
  <2>2. Settings.legacy.logFileName # Settings.logging.fileName
    BY <2>1, Zenon DEF LoadConfigFails, Settings
  <2>3. Forwards <=> On(env.LEGACY_FORWARD_ENABLED)
    BY FlagRead DEF Forwards, Settings, Hydrate, LegacyOf
  <2>4. Log \cap CreateTransportTargets(Settings.logging) \subseteq {"console"}
    BY <2>2 DEF Log, CreateDedicatedFileTargets, CreateTransportTargets
  <2>5. Settings.legacy.logFileName = FileName("LEGACY_LOG_FILE_NAME", "legacy-forward.log")
    BY TextRead DEF Settings, Hydrate, LegacyOf, FileName
  <2>6. Settings.logging.toFile = "true" <=> ~(Given(env.LOGGING_TO_FILE) /\ ~On(env.LOGGING_TO_FILE))
    BY DEF Settings, Hydrate, LoggingOf, EnvBool, EnvString, Default, Given, On, Unset
  <2>7. Log = IF Given(env.LOGGING_TO_FILE) /\ ~On(env.LOGGING_TO_FILE) THEN {"console"}
              ELSE {FileName("LEGACY_LOG_FILE_NAME", "legacy-forward.log")}
    BY <2>5, <2>6, Zenon DEF Log, CreateDedicatedFileTargets
  <2> QED
    BY <2>1, <2>3, <2>4, <2>7 DEF ForwarderLog
<1>2. ASSUME BootInv, ProcessInv, stage = "serving"
      PROVE  jobs = IF On(env.SCHEDULER_ENABLED) /\ (isPrimary \/ On(env.CLUSTER_LEADER))
                      THEN Jobs ELSE {}
  <2>1. /\ jobs = IF RunsJobs THEN Jobs ELSE {}
        /\ ~(Clustered /\ isPrimary) /\ (~isPrimary => Clustered) /\ isPrimary \in BOOLEAN
    BY <1>2 DEF ProcessInv, StageInv, StartInv
  <2>2. /\ Settings.scheduler.enabled = "true" <=> On(env.SCHEDULER_ENABLED)
        /\ Settings.cluster.isLeader = "true" <=> On(env.CLUSTER_LEADER)
    BY FlagRead DEF Settings, Hydrate, SchedulerOf, ClusterOf
  <2>3. RunsJobs <=> On(env.SCHEDULER_ENABLED) /\ (isPrimary \/ On(env.CLUSTER_LEADER))
    BY <2>1, <2>2 DEF RunsJobs
  <2> QED
    BY <2>1, <2>3
<1>3. ASSUME BootInv, ProcessInv, stage = "serving", Settings.database.present
      PROVE  clients = Sources /\ \A s \in Implemented : at[s] \notin {"inside", "queued", "woken"}
  <2>1. phase = "ready"
    BY <1>3 DEF ProcessInv, StageInv
  <2> QED
    BY <1>3, <2>1 DEF BootInv, PhaseInv, AtStage
<1>4. ASSUME BootInv, ProcessInv, stage = "serving", Settings.database.present,
             NEW i \in DOMAIN Settings.database.sources,
             Settings.database.sources[i].dialect = "oracle"
      PROVE  ToPoolAttributes(Settings.database.sources[i]).connectString # Unset
  <2> DEFINE source == Settings.database.sources[i]
  <2>1. ~LoadConfigFails(env)
    BY <1>4 DEF ProcessInv, StageInv
  <2>2. ValidDatabase(env, Settings.database)
    BY <2>1, Zenon DEF LoadConfigFails, Settings
  <2>3. ValidSource(source)
    BY <1>4, <2>2, Zenon DEF ValidDatabase
  <2> HIDE DEF source
  <2>4. source.dialect = "oracle"
    BY <1>4 DEF source
  <2>5. source.connectionUrl # Unset \/ source.connectString # Unset
    BY <2>3, <2>4 DEF ValidSource, HasAll
  <2>6. ToPoolAttributes(source).connectString # Unset
    BY <2>5 DEF ToPoolAttributes, ParseOracleUrl, NoCredentials, Default, Unset
  <2> QED
    BY <2>6 DEF source
<1>5. BootInv /\ ProcessInv => ServesAsConfigured
  BY <1>1, <1>2, <1>3, <1>4, Zenon DEF ServesAsConfigured
<1> QED
  BY <1>5, ProcessInvariance, PTL

(* The pings never wait on one another: until all calls are over, one of    *)
(* them was woken, pings its source, or waits to ping it again.             *)
PingsNeverStick ==
    phase = "pinging" /\ AtStage("done") # Implemented =>
        \E s \in Implemented : at[s] = "woken" \/ ping[s] \in {"inFlight", "backoff"}

(* pingAll cannot come to a stop before its verdict, in any bootstrap.      *)
THEOREM PingsNeverStickHolds == BootstrapSpec => []PingsNeverStick
<1>1. ASSUME BootInv PROVE PingsNeverStick
  <2> SUFFICES ASSUME phase = "pinging", AtStage("done") # Implemented
               PROVE  \E s \in Implemented : at[s] = "woken" \/ ping[s] \in {"inFlight", "backoff"}
    BY DEF PingsNeverStick
  <2>1. PICK s \in Implemented : at[s] \in {"queued", "woken", "inside"}
    BY <1>1 DEF BootInv, PhaseInv, SemInv, SemTypeOK, Stages, AtStage, Implemented
  <2>2. SomeoneMoves
    BY <1>1, SemInvServes DEF BootInv
  <2>3. PICK t \in Implemented : at[t] \in {"woken", "inside"}
    BY <2>1, <2>2 DEF SomeoneMoves, AtStage, Implemented
  <2> QED
    BY <1>1, <2>3 DEF BootInv, PingInv
<1> QED
  BY <1>1, BootRefined, BootInvariance, PTL
=============================================================================
