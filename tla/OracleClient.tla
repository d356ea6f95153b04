---------------------------- MODULE OracleClient ----------------------------
(***************************************************************************)
(* Calls of OracleClient.withConnection and transaction sharing the pooled  *)
(* sessions of one source: who the server takes a session for, which call   *)
(* timeout is in force on it, and what becomes of the work done on it.      *)
(*                                                                          *)
(* A session's clientId is a client-side attribute: the driver sends it     *)
(* with the next round trip.  A round trip that fails may have reached the  *)
(* server, or not.                                                          *)
(***************************************************************************)
EXTENDS Integers, FiniteSets

CONSTANTS
    Calls,                \* calls of withConnection or transaction
    Sessions,             \* the sessions the pool may open
    Users, NoUser,        \* context users, already truncated; none
    SourceTimeouts,       \* values of source.callTimeoutMs; 0 is none
    CallTimeouts,         \* values of options.callTimeoutMs
    PingTimeout,          \* source.poolPingTimeoutMs || 5000
    Unset, NoSession

ASSUME UserAssumption == NoUser \notin Users
ASSUME TimeoutAssumption ==
    /\ SourceTimeouts \subseteq Nat
    /\ PingTimeout \in Nat
    /\ CallTimeouts \subseteq Nat
    /\ Unset \notin CallTimeouts
ASSUME SessionAssumption == NoSession \notin Sessions

VARIABLES
    source,    \* the source's contextUser switches and callTimeoutMs, never written
    session,   \* per pooled session, its state at both ends
    options,   \* per call, what it asks for
    stage,     \* per call, where it is
    held,      \* per call, the session it borrowed
    outcome,   \* per call, how it ends for its caller
    committed, \* history: calls some of whose work the server committed
    doubtful,  \* history: calls whose commit failed, whatever the server did
    worked,    \* history: calls that had a statement succeed
    ranAs      \* history: whom a statement of a call ran as

historyVars == <<committed, doubtful, worked, ranAs>>
config == <<source, options>>
vars == <<session, config, stage, held, outcome, historyVars>>

Sources == [enabled : BOOLEAN, required : BOOLEAN, callTimeoutMs : SourceTimeouts]

Options == [kind : {"plain", "transaction"}, user : Users \cup {NoUser},
            timeout : CallTimeouts \cup {Unset}]

(* resolveContextUser, when it does not throw.                              *)
ContextUser(c) == IF source.enabled THEN options[c].user ELSE NoUser

CallTimeout(c) == IF options[c].timeout # Unset THEN options[c].timeout ELSE source.callTimeoutMs

Fresh == [place |-> "closed", clientId |-> NoUser, unsent |-> FALSE, serverId |-> NoUser,
          callTimeout |-> 0, work |-> {}]

(* A session after a round trip that came back, and the ways it may be      *)
(* after one that did not.                                                  *)
Sent(k) == [k EXCEPT !.serverId = IF k.unsent THEN k.clientId ELSE @, !.unsent = FALSE]
Broken(k) == {k, [k EXCEPT !.unsent = FALSE], Sent(k)}

Init ==
    /\ session = [k \in Sessions |-> Fresh]
    /\ source \in Sources
    /\ options \in [Calls -> Options]
    /\ stage = [c \in Calls |-> "notCalled"]
    /\ held = [c \in Calls |-> NoSession]
    /\ outcome = [c \in Calls |-> "none"]
    /\ committed = {}
    /\ doubtful = {}
    /\ worked = {}
    /\ ranAs = {}

-----------------------------------------------------------------------------
Goto(c, s) == stage' = [stage EXCEPT ![c] = s]
Ends(c, o) == outcome' = [outcome EXCEPT ![c] = o]

(* Up to pool.getConnection: a required user is missed before borrowing.    *)
Call(c) ==
    /\ stage[c] = "notCalled"
    /\ IF source.enabled /\ source.required /\ options[c].user = NoUser
         THEN Goto(c, "done") /\ Ends(c, "unauthorized")
         ELSE Goto(c, "waiting") /\ UNCHANGED outcome
    /\ UNCHANGED <<session, config, held, historyVars>>

(* getConnection resolves, with an idle session or a new one.               *)
Acquire(c, k) ==
    /\ stage[c] = "waiting"
    /\ session[k].place # "out"
    /\ LET lent == IF session[k].place = "idle" THEN session[k] ELSE Fresh
           user == ContextUser(c)
       IN  session' = [session EXCEPT ![k] =
             [lent EXCEPT !.place = "out",
                          !.callTimeout = IF CallTimeout(c) > 0 THEN CallTimeout(c) ELSE @,
                          !.clientId = IF user # NoUser THEN user ELSE @,
                          !.unsent = @ \/ user # NoUser]]
    /\ held' = [held EXCEPT ![c] = k]
    /\ Goto(c, "running")
    /\ UNCHANGED <<config, outcome, historyVars>>

(* The queue is full or the wait in it too long, or the database is away.   *)
AcquireFails(c) ==
    /\ stage[c] = "waiting"
    /\ Goto(c, "done")
    /\ Ends(c, "noConnection")
    /\ UNCHANGED <<session, config, held, historyVars>>

(* A statement of fn; a failed one may still have been executed.            *)
Execute(c) ==
    /\ stage[c] = "running"
    /\ LET k == held[c]
       IN  \/ /\ session' = [session EXCEPT ![k] = [Sent(session[k]) EXCEPT !.work = @ \cup {c}]]
              /\ worked' = worked \cup {c}
              /\ ranAs' = ranAs \cup {<<c, session'[k].serverId>>}
           \/ /\ \E s \in Broken(session[k]), w \in SUBSET {c} :
                    session' = [session EXCEPT ![k] = [s EXCEPT !.work = @ \cup w]]
              /\ ranAs' = ranAs \cup {<<c, session'[k].serverId>>}
              /\ UNCHANGED worked
    /\ UNCHANGED <<config, stage, held, outcome, committed, doubtful>>

FnReturns(c) ==
    /\ stage[c] = "running"
    /\ IF options[c].kind = "transaction"
         THEN Goto(c, "committing") /\ UNCHANGED outcome
         ELSE Goto(c, "releasing") /\ Ends(c, "ok")
    /\ UNCHANGED <<session, config, held, historyVars>>

FnThrows(c) ==
    /\ stage[c] = "running"
    /\ IF options[c].kind = "transaction" THEN Goto(c, "rollingBack")
                                          ELSE Goto(c, "releasing")
    /\ Ends(c, "error")
    /\ UNCHANGED <<session, config, held, historyVars>>

Commits(c) ==
    /\ stage[c] = "committing"
    /\ committed' = committed \cup session[held[c]].work
    /\ session' = [session EXCEPT ![held[c]] = [Sent(@) EXCEPT !.work = {}]]
    /\ Goto(c, "releasing")
    /\ Ends(c, "ok")
    /\ UNCHANGED <<config, held, doubtful, worked, ranAs>>

\* Mutant of CommitFails: a failed commit is only logged.
CommitFails_Swallowed(c) ==
    /\ stage[c] = "committing"
    /\ \E s \in Broken(session[held[c]]) : session' = [session EXCEPT ![held[c]] = s]
    /\ Goto(c, "releasing")
    /\ Ends(c, "ok")
    /\ doubtful' = doubtful \cup {c}
    /\ UNCHANGED <<config, held, committed, worked, ranAs>>

(* The server may have committed before the round trip failed.              *)
CommitFails(c) ==
    /\ stage[c] = "committing"
    /\ \E s \in Broken(session[held[c]]) :
         \/ session' = [session EXCEPT ![held[c]] = s] /\ UNCHANGED committed
         \/ /\ session' = [session EXCEPT ![held[c]] = [s EXCEPT !.work = {}]]
            /\ committed' = committed \cup s.work
    /\ doubtful' = doubtful \cup {c}
    /\ Goto(c, "rollingBack")
    /\ Ends(c, "error")
    /\ UNCHANGED <<config, held, worked, ranAs>>

(* Whether the rollback succeeds or is only logged, the error is rethrown.  *)
RollsBack(c) ==
    /\ stage[c] = "rollingBack"
    /\ \/ session' = [session EXCEPT ![held[c]] = [Sent(@) EXCEPT !.work = {}]]
       \/ \E s \in Broken(session[held[c]]) : session' = [session EXCEPT ![held[c]] = s]
    /\ Goto(c, "releasing")
    /\ UNCHANGED <<config, held, outcome, historyVars>>

\* Mutant of ClearContext: a failed ping does not drop the session.
ClearContext_NoDrop(c) ==
    /\ stage[c] = "releasing"
    /\ IF ContextUser(c) = NoUser
         THEN Goto(c, "closing") /\ UNCHANGED session
         ELSE LET k == [session[held[c]] EXCEPT !.clientId = NoUser, !.unsent = TRUE,
                                                !.callTimeout = PingTimeout]
              IN  /\ \E s \in {Sent(k)} \cup Broken(k) :
                       session' = [session EXCEPT ![held[c]] = s]
                  /\ Goto(c, "closing")
    /\ UNCHANGED <<config, held, outcome, historyVars>>

(* release, first half: the ping carries the cleared identity, or fails.    *)
ClearContext(c) ==
    /\ stage[c] = "releasing"
    /\ IF ContextUser(c) = NoUser
         THEN Goto(c, "closing") /\ UNCHANGED session
         ELSE LET k == [session[held[c]] EXCEPT !.clientId = NoUser, !.unsent = TRUE,
                                                !.callTimeout = PingTimeout]
              IN  \/ session' = [session EXCEPT ![held[c]] = Sent(k)] /\ Goto(c, "closing")
                  \/ /\ \E s \in Broken(k) : session' = [session EXCEPT ![held[c]] = s]
                     /\ Goto(c, "dropping")
    /\ UNCHANGED <<config, held, outcome, historyVars>>

\* Mutant of Release: the call timeout is left as it is.
Release_KeepTimeout(c) ==
    /\ stage[c] \in {"closing", "dropping"}
    /\ session' = [session EXCEPT ![held[c]] =
         IF stage[c] = "closing" THEN [@ EXCEPT !.place = "idle", !.work = {}] ELSE Fresh]
    /\ held' = [held EXCEPT ![c] = NoSession]
    /\ Goto(c, "done")
    /\ UNCHANGED <<config, outcome, historyVars>>

(* release, second half: close({ drop }).  The driver rolls back what is    *)
(* left on a session it takes back; a session whose close fails is lost to  *)
(* the pool until the driver drops it.                                      *)
Release(c) ==
    /\ stage[c] \in {"closing", "dropping"}
    /\ LET k == [session[held[c]] EXCEPT !.callTimeout = source.callTimeoutMs]
       IN  session' \in {[session EXCEPT ![held[c]] = s] :
             s \in {IF stage[c] = "closing" THEN [k EXCEPT !.place = "idle", !.work = {}]
                                            ELSE Fresh,
                    k}}
    /\ held' = [held EXCEPT ![c] = NoSession]
    /\ Goto(c, "done")
    /\ UNCHANGED <<config, outcome, historyVars>>

(* A session nobody holds ends: too old, idle too long, or lost.            *)
ServerDrops(k) ==
    /\ session[k].place # "closed"
    /\ \A c \in Calls : held[c] # k
    /\ session' = [session EXCEPT ![k] = Fresh]
    /\ UNCHANGED <<config, stage, held, outcome, historyVars>>

Next ==
    \/ \E c \in Calls : \/ Call(c) \/ AcquireFails(c) \/ Execute(c)
                        \/ FnReturns(c) \/ FnThrows(c)
                        \/ Commits(c) \/ CommitFails(c) \/ RollsBack(c)
                        \/ ClearContext(c) \/ Release(c)
                        \/ \E k \in Sessions : Acquire(c, k)
    \/ \E k \in Sessions : ServerDrops(k)

Spec == Init /\ [][Next]_vars

-----------------------------------------------------------------------------
SessionStates == [place : {"closed", "idle", "out"}, clientId : Users \cup {NoUser},
                  unsent : BOOLEAN, serverId : Users \cup {NoUser},
                  callTimeout : Nat, work : SUBSET Calls]

TypeOK ==
    /\ session \in [Sessions -> SessionStates]
    /\ source \in Sources
    /\ options \in [Calls -> Options]
    /\ stage \in [Calls -> {"notCalled", "waiting", "running", "committing",
                            "rollingBack", "releasing", "closing", "dropping", "done"}]
    /\ held \in [Calls -> Sessions \cup {NoSession}]
    /\ outcome \in [Calls -> {"none", "ok", "error", "unauthorized", "noConnection"}]
    /\ committed \subseteq Calls
    /\ doubtful \subseteq Calls
    /\ worked \subseteq Calls
    /\ ranAs \subseteq Calls \X (Users \cup {NoUser})
    /\ \A c \in Calls : stage[c] \in {"notCalled", "waiting", "done"} <=> held[c] = NoSession

(* Nothing a call does ever runs under the identity of another call's user, *)
(* whichever round trips fail.                                              *)
NoForeignIdentity == \A r \in ranAs : r[2] \in {ContextUser(r[1]), NoUser}

(* No call runs under a timeout that another call, or the clearing ping,    *)
(* left on the session.                                                     *)
NoInheritedTimeout ==
    \A c \in Calls : stage[c] = "running" =>
        \/ session[held[c]].callTimeout = CallTimeout(c)
        \/ CallTimeout(c) = 0 /\ session[held[c]].callTimeout = source.callTimeoutMs

(* What a transaction reports done is committed, and what it does not       *)
(* report done is not, unless the commit itself failed.                     *)
CommitMatchesOutcome ==
    \A c \in Calls :
        /\ outcome[c] = "ok" /\ options[c].kind = "transaction" /\ c \in worked =>
              c \in committed
        /\ c \in committed => outcome[c] = "ok" \/ c \in doubtful

(* options.callTimeoutMs overrides the source's timeout, for every value.   *)
TimeoutOverrides ==
    \A c \in Calls : stage[c] = "running" => session[held[c]].callTimeout = CallTimeout(c)
=============================================================================
