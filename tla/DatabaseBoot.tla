---------------------------- MODULE DatabaseBoot ----------------------------
(***************************************************************************)
(* How a process gets its database sources at boot: PoolManager.init, then  *)
(* pingAll through the Semaphore, as the ConnectionProvider factory runs    *)
(* them.  A source that has an implemented client is a call of the          *)
(* semaphore's with(fn).                                                    *)
(***************************************************************************)
EXTENDS Semaphore, SequencesExt

CONSTANTS
    Placeholders,  \* sources of a dialect without a client
    UnknownKeys,   \* keys of no source, which requiredSources may list
    Retries,       \* health.maxRetries
    TimeoutMs      \* health.timeoutMs; 0 leaves a ping without a timeout

ASSUME BootAssumption ==
    /\ Placeholders \cap Calls = {}
    /\ UnknownKeys \cap (Calls \cup Placeholders) = {}
    /\ Retries \in Nat
    /\ TimeoutMs \in Nat

VARIABLES
    requiredSources, pingOnBoot,  \* config.database.health, never written
    phase,     \* where the factory is
    clients,   \* keys in PoolManager.clients
    ping,      \* per implemented source, its ping loop
    attempt,   \* pings sent so far
    failures,  \* sources pingAll will reject for
    answered   \* history: sources that answered a ping

config == <<requiredSources, pingOnBoot>>
bootVars == <<phase, clients, ping, attempt, failures, answered>>
allVars == <<config, semVars, bootVars>>

Implemented == Calls
Sources == Implemented \cup Placeholders

ReqSet == IF requiredSources # {} THEN requiredSources ELSE Implemented

BootInit ==
    /\ requiredSources \in SUBSET (Sources \cup UnknownKeys)
    /\ pingOnBoot \in BOOLEAN
    /\ SemInit
    /\ phase = "initialising"
    /\ clients = {}
    /\ ping = [s \in Implemented |-> "idle"]
    /\ attempt = [s \in Implemented |-> 0]
    /\ failures = {}
    /\ answered = {}

(* One turn of init's loop; the sources come in the order of the config.    *)
CreateClient(s) ==
    /\ phase = "initialising"
    /\ s \notin clients
    /\ clients' = clients \cup {s}
    /\ UNCHANGED <<config, semVars, phase, ping, attempt, failures, answered>>

(* createPool rejects: init throws, bootstrap catches, the process exits.   *)
CreatePoolFails(s) ==
    /\ phase = "initialising"
    /\ s \in Implemented \ clients
    /\ phase' = "failed"
    /\ UNCHANGED <<config, semVars, clients, ping, attempt, failures, answered>>

\* Mutant of InitReturns: a required placeholder is skipped like any other.
InitReturns_SkipPlaceholders ==
    /\ phase = "initialising"
    /\ clients = Sources
    /\ phase' = IF pingOnBoot THEN "jitter" ELSE "ready"
    /\ UNCHANGED <<config, semVars, clients, ping, attempt, failures, answered>>

(* Up to the jitter delay, with the placeholders judged.                    *)
InitReturns ==
    /\ phase = "initialising"
    /\ clients = Sources
    /\ IF pingOnBoot
         THEN phase' = "jitter" /\ failures' = Placeholders \cap ReqSet
         ELSE phase' = "ready" /\ UNCHANGED failures
    /\ UNCHANGED <<config, semVars, clients, ping, attempt, answered>>

StartPing(s) ==
    /\ ping' = [ping EXCEPT ![s] = "inFlight"]
    /\ attempt' = [attempt EXCEPT ![s] = @ + 1]

(* The map over the keys calls with() for all of them in one turn: the      *)
(* first ones take the slots, the others line up.                           *)
JitterOver ==
    /\ phase = "jitter"
    /\ phase' = "pinging"
    /\ \E order \in SetToSeqs(Implemented) :
         LET n == IF Len(order) < Slots THEN Len(order) ELSE Slots
             started == {order[i] : i \in 1..n}
         IN  /\ count' = Slots - n
             /\ queue' = SubSeq(order, n + 1, Len(order))
             /\ at' = [s \in Calls |-> IF s \in started THEN "inside" ELSE "queued"]
             /\ ping' = [s \in Implemented |-> IF s \in started THEN "inFlight" ELSE "idle"]
             /\ attempt' = [s \in Implemented |-> IF s \in started THEN 1 ELSE 0]
    /\ UNCHANGED <<config, clients, failures, answered>>

Woken(s) ==
    /\ at[s] = "woken"
    /\ Enter(s)
    /\ IF at'[s] = "inside" THEN StartPing(s) ELSE UNCHANGED <<ping, attempt>>
    /\ UNCHANGED <<config, phase, clients, failures, answered>>

PingAnswers(s) ==
    /\ ping[s] = "inFlight"
    /\ ping' = [ping EXCEPT ![s] = "over"]
    /\ answered' = answered \cup {s}
    /\ Leave(s)
    /\ UNCHANGED <<config, phase, clients, attempt, failures>>

\* Mutant of PingFails: a failure of any source counts.
PingFails_AnySource(s) ==
    /\ ping[s] = "inFlight"
    /\ IF attempt[s] <= Retries
         THEN ping' = [ping EXCEPT ![s] = "backoff"] /\ UNCHANGED <<failures, semVars>>
         ELSE /\ ping' = [ping EXCEPT ![s] = "over"]
              /\ failures' = failures \cup {s}
              /\ Leave(s)
    /\ UNCHANGED <<config, phase, clients, attempt, answered>>

PingFails(s) ==
    /\ ping[s] = "inFlight"
    /\ IF attempt[s] <= Retries
         THEN ping' = [ping EXCEPT ![s] = "backoff"] /\ UNCHANGED <<failures, semVars>>
         ELSE /\ ping' = [ping EXCEPT ![s] = "over"]
              /\ failures' = IF s \in ReqSet THEN failures \cup {s} ELSE failures
              /\ Leave(s)
    /\ UNCHANGED <<config, phase, clients, attempt, answered>>

BackoffOver(s) ==
    /\ ping[s] = "backoff"
    /\ StartPing(s)
    /\ UNCHANGED <<config, semVars, phase, clients, failures, answered>>

(* Promise.all resolves: no task of it ever rejects.                        *)
Verdict ==
    /\ phase = "pinging"
    /\ AtStage("done") = Implemented
    /\ phase' = IF failures = {} THEN "ready" ELSE "failed"
    /\ UNCHANGED <<config, semVars, clients, ping, attempt, failures, answered>>

PingSettles == \E s \in Implemented : PingAnswers(s) \/ PingFails(s)

BootStep ==
    \/ \E s \in Sources : CreateClient(s) \/ CreatePoolFails(s)
    \/ InitReturns
    \/ JitterOver
    \/ \E s \in Implemented : Woken(s) \/ BackoffOver(s)
    \/ Verdict

BootNext == BootStep \/ PingSettles

BootSpec == BootInit /\ [][BootNext]_allVars

-----------------------------------------------------------------------------
BootTypeOK ==
    /\ SemTypeOK
    /\ phase \in {"initialising", "jitter", "pinging", "ready", "failed"}
    /\ clients \subseteq Sources
    /\ ping \in [Implemented -> {"idle", "inFlight", "backoff", "over"}]
    /\ attempt \in [Implemented -> 0..(Retries + 1)]
    /\ failures \subseteq Sources
    /\ answered \subseteq Implemented

(* The process serves only when every required source that is configured    *)
(* has answered a ping: a placeholder can never be required.                *)
ReadyMeansAnswered == phase = "ready" /\ pingOnBoot => ReqSet \cap Sources \subseteq answered

(* A source that is not required never fails the boot: behind a failed one  *)
(* is a pool that was not created, or a required source that used up every  *)
(* attempt or has no client.                                                *)
FailedForARequiredSource ==
    phase = "failed" =>
        \/ clients # Sources
        \/ \E s \in ReqSet \ answered :
              s \in Placeholders \/ (s \in Implemented /\ attempt[s] = Retries + 1)
=============================================================================
