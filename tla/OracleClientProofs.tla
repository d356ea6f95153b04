------------------------- MODULE OracleClientProofs -------------------------
(***************************************************************************)
(* Proofs about the calls of the Oracle client, for any calls, sessions,    *)
(* users and timeouts: whom a statement runs as, under which timeout, and   *)
(* what a transaction's outcome says of its work.                           *)
(***************************************************************************)
EXTENDS OracleClient, TLAPS

(* A session belongs to the one call that holds it; what lies idle in the   *)
(* pool bears no trace of the calls before.                                 *)
PoolInv ==
    /\ \A c, d \in Calls : held[c] = held[d] /\ held[c] # NoSession => c = d
    /\ \A c \in Calls : held[c] # NoSession => session[held[c]].place = "out"
    /\ \A k \in Sessions : session[k].place = "idle" =>
         /\ session[k].clientId = NoUser /\ session[k].serverId = NoUser
         /\ session[k].callTimeout = source.callTimeoutMs
         /\ session[k].work = {}

(* Neither end of a held session knows another user than the holder's, and  *)
(* before it goes back to the pool neither knows one.                       *)
IdentityInv ==
    \A c \in Calls : held[c] # NoSession =>
        /\ session[held[c]].clientId \in {ContextUser(c), NoUser}
        /\ session[held[c]].serverId \in {ContextUser(c), NoUser}
        /\ stage[c] = "closing" =>
             session[held[c]].clientId = NoUser /\ session[held[c]].serverId = NoUser

(* Uncommitted work on a held session is the holder's, and all of it.       *)
WorkInv ==
    \A c \in Calls :
        /\ held[c] # NoSession => session[held[c]].work \subseteq {c}
        /\ stage[c] \in {"notCalled", "waiting"} => c \notin worked
        /\ stage[c] \in {"running", "committing"} /\ c \in worked => c \in session[held[c]].work
        /\ stage[c] \in {"notCalled", "waiting", "running", "committing"} =>
             outcome[c] = "none" /\ c \notin committed

(* A call that has its session did not fail to get one.                     *)
OutcomeInv ==
    \A c \in Calls : held[c] # NoSession => outcome[c] \in {"none", "ok", "error"}

IInv ==
    /\ TypeOK
    /\ PoolInv /\ IdentityInv /\ WorkInv /\ OutcomeInv
    /\ NoForeignIdentity /\ NoInheritedTimeout /\ CommitMatchesOutcome

-----------------------------------------------------------------------------
(* Round trips move the identity from one end of the session to the other   *)
(* and touch nothing else, whether they come back or not.                   *)
LEMMA RoundTrips ==
  ASSUME NEW k \in SessionStates, NEW s \in {Sent(k)} \cup Broken(k)
  PROVE  /\ s \in SessionStates
         /\ s.place = k.place /\ s.clientId = k.clientId
         /\ s.callTimeout = k.callTimeout /\ s.work = k.work
         /\ s.serverId \in {k.serverId, k.clientId}
BY DEF Sent, Broken, SessionStates

LEMMA FreshIsSession == Fresh \in SessionStates
BY DEF Fresh, SessionStates

LEMMA InvInit == Init => IInv
<1> SUFFICES ASSUME Init PROVE IInv
  OBVIOUS
<1>1. TypeOK
  BY FreshIsSession DEF Init, TypeOK
<1>2. PoolInv /\ IdentityInv /\ WorkInv /\ OutcomeInv
  BY DEF Init, PoolInv, IdentityInv, WorkInv, OutcomeInv, Fresh
<1>3. NoForeignIdentity /\ NoInheritedTimeout /\ CommitMatchesOutcome
  BY DEF Init, NoForeignIdentity, NoInheritedTimeout, CommitMatchesOutcome
<1> QED
  BY <1>1, <1>2, <1>3 DEF IInv

Borrowed == {"running", "committing", "rollingBack", "releasing", "closing", "dropping"}

(* What a call does with its session in hand: only its own part of the      *)
(* invariant is at stake, and that is what the hypotheses ask for.          *)
LEMMA HolderMoves ==
  ASSUME IInv, NEW c \in Calls, stage[c] \in Borrowed,
         NEW s \in SessionStates, session' = [session EXCEPT ![held[c]] = s],
         NEW t \in Borrowed, stage' = [stage EXCEPT ![c] = t],
         NEW o \in {"none", "ok", "error"}, outcome' = [outcome EXCEPT ![c] = o],
         UNCHANGED <<config, held>>,
         worked' \in {worked, worked \cup {c}}, committed' \in {committed, committed \cup {c}},
         doubtful' \in {doubtful, doubtful \cup {c}},
         s.place = "out", s.work \subseteq {c},
         s.clientId \in {ContextUser(c), NoUser}, s.serverId \in {ContextUser(c), NoUser},
         t = "closing" => s.clientId = NoUser /\ s.serverId = NoUser,
         t = "running" => stage[c] = "running" /\ s.callTimeout = session[held[c]].callTimeout,
         t \in {"running", "committing"} =>
           (c \in worked' => c \in s.work) /\ o = "none" /\ c \notin committed',
         o = "ok" /\ options[c].kind = "transaction" /\ c \in worked' => c \in committed',
         c \in committed' => o = "ok" \/ c \in doubtful',
         ranAs' \in {ranAs, ranAs \cup {<<c, s.serverId>>}}
  PROVE  IInv'
<1> USE DEF IInv
<1>0. /\ session \in [Sessions -> SessionStates] /\ held[c] \in Sessions
      /\ stage \in [Calls -> Borrowed \cup {"notCalled", "waiting", "done"}]
      /\ outcome \in [Calls -> {"none", "ok", "error", "unauthorized", "noConnection"}]
      /\ held[c] # NoSession /\ options' = options /\ source' = source /\ held' = held
  BY DEF TypeOK, Borrowed, config
<1>1. /\ session'[held[c]] = s
      /\ \A k \in Sessions : k # held[c] => session'[k] = session[k]
      /\ \A d \in Calls : d # c /\ held[d] # NoSession => session'[held[d]] = session[held[d]]
  BY <1>0 DEF PoolInv, TypeOK
<1>2. /\ stage'[c] = t /\ outcome'[c] = o
      /\ \A d \in Calls : d # c => stage'[d] = stage[d] /\ outcome'[d] = outcome[d]
      /\ \A d \in Calls : ContextUser(d)' = ContextUser(d) /\ CallTimeout(d)' = CallTimeout(d)
  BY <1>0 DEF ContextUser, CallTimeout
<1>3. \A d \in Calls : d # c =>
        /\ d \in worked' <=> d \in worked
        /\ d \in committed' <=> d \in committed
        /\ d \in doubtful' <=> d \in doubtful
  OBVIOUS
<1>4. TypeOK'
  <2>1. /\ session' \in [Sessions -> SessionStates]
        /\ stage' \in [Calls -> Borrowed \cup {"notCalled", "waiting", "done"}]
        /\ outcome' \in [Calls -> {"none", "ok", "error", "unauthorized", "noConnection"}]
    BY <1>0
  <2>2. s.serverId \in Users \cup {NoUser}
    BY DEF SessionStates
  <2>3. ranAs' \subseteq Calls \X (Users \cup {NoUser})
    BY <2>2 DEF TypeOK
  <2>4. \A d \in Calls : stage'[d] \in {"notCalled", "waiting", "done"} <=> held'[d] = NoSession
    BY <1>0, <1>2 DEF TypeOK, Borrowed
  <2> QED
    BY <1>0, <2>1, <2>3, <2>4 DEF TypeOK, Borrowed
<1>5. PoolInv'
  BY <1>0, <1>1 DEF PoolInv
<1>6. IdentityInv'
  BY <1>0, <1>1, <1>2 DEF IdentityInv
<1>7. WorkInv'
  <2>1. \A d \in Calls : d # c /\ stage[d] \in {"running", "committing"} => held[d] # NoSession
    BY DEF TypeOK
  <2> QED
    BY <1>0, <1>1, <1>2, <1>3, <2>1 DEF WorkInv, Borrowed
<1>8. NoForeignIdentity'
  <2>1. \A r \in ranAs' : r \in ranAs \/ r = <<c, s.serverId>>
    OBVIOUS
  <2>2. \A r \in ranAs : r[1] \in Calls
    BY DEF TypeOK
  <2> QED
    BY <1>2, <2>1, <2>2 DEF NoForeignIdentity
<1>9. NoInheritedTimeout'
  <2>1. \A d \in Calls : d # c /\ stage[d] = "running" => held[d] # NoSession
    BY DEF TypeOK
  <2> QED
    BY <1>0, <1>1, <1>2, <2>1 DEF NoInheritedTimeout
<1>10. CommitMatchesOutcome'
  BY <1>0, <1>2, <1>3 DEF CommitMatchesOutcome
<1>11. OutcomeInv'
  BY <1>0, <1>2 DEF OutcomeInv
<1> QED
  BY <1>4, <1>5, <1>6, <1>7, <1>8, <1>9, <1>10, <1>11

(* What the invariant says of a call with its session in hand.              *)
LEMMA Holder ==
  ASSUME IInv, NEW c \in Calls, stage[c] \in Borrowed
  PROVE  /\ held[c] \in Sessions /\ held[c] # NoSession
         /\ session[held[c]] \in SessionStates
         /\ session[held[c]].place = "out"
         /\ session[held[c]].work \subseteq {c}
         /\ session[held[c]].clientId \in {ContextUser(c), NoUser}
         /\ session[held[c]].serverId \in {ContextUser(c), NoUser}
         /\ session = [session EXCEPT ![held[c]] = session[held[c]]]
         /\ outcome = [outcome EXCEPT ![c] = outcome[c]]
         /\ stage = [stage EXCEPT ![c] = stage[c]]
<1>1. /\ held[c] \in Sessions /\ held[c] # NoSession /\ session \in [Sessions -> SessionStates]
      /\ stage \in [Calls -> Borrowed \cup {"notCalled", "waiting", "done"}]
      /\ outcome \in [Calls -> {"none", "ok", "error", "unauthorized", "noConnection"}]
  BY DEF IInv, TypeOK, Borrowed
<1>2. /\ session[held[c]].place = "out" /\ session[held[c]].work \subseteq {c}
      /\ session[held[c]].clientId \in {ContextUser(c), NoUser}
      /\ session[held[c]].serverId \in {ContextUser(c), NoUser}
  BY <1>1 DEF IInv, PoolInv, IdentityInv, WorkInv
<1> QED
  BY <1>1, <1>2

-----------------------------------------------------------------------------
(* The statements, and fn's end.                                            *)
LEMMA ExecuteKeepsInv ==
  ASSUME IInv, NEW c \in Calls, Execute(c)
  PROVE  IInv'
<1> DEFINE k == session[held[c]]
<1>1. /\ stage[c] = "running" /\ stage[c] \in Borrowed
      /\ UNCHANGED <<config, stage, held, outcome, committed, doubtful>>
  BY DEF Execute, Borrowed
<1>2. /\ held[c] \in Sessions /\ k \in SessionStates /\ k.place = "out" /\ k.work \subseteq {c}
      /\ k.clientId \in {ContextUser(c), NoUser} /\ k.serverId \in {ContextUser(c), NoUser}
      /\ outcome' = [outcome EXCEPT ![c] = outcome[c]]
      /\ stage' = [stage EXCEPT ![c] = "running"]
      /\ session \in [Sessions -> SessionStates]
  BY <1>1, Holder DEF IInv, TypeOK
<1>3. /\ outcome[c] = "none" /\ c \notin committed
      /\ c \in worked => c \in k.work
  BY <1>1 DEF IInv, WorkInv
<1>4. PICK s \in {Sent(k)} \cup Broken(k), w \in SUBSET {c} :
        /\ session' = [session EXCEPT ![held[c]] = [s EXCEPT !.work = @ \cup w]]
        /\ ranAs' = ranAs \cup {<<c, session'[held[c]].serverId>>}
        /\ worked' = worked \/ (w = {c} /\ worked' = worked \cup {c})
  <2>1. CASE /\ session' = [session EXCEPT ![held[c]] = [Sent(k) EXCEPT !.work = @ \cup {c}]]
             /\ worked' = worked \cup {c}
             /\ ranAs' = ranAs \cup {<<c, session'[held[c]].serverId>>}
    <3>1. Sent(k) \in {Sent(k)} \cup Broken(k) /\ {c} \in SUBSET {c}
      OBVIOUS
    <3> QED
      BY <2>1, <3>1
  <2>2. CASE /\ \E s \in Broken(k), w \in SUBSET {c} :
                  session' = [session EXCEPT ![held[c]] = [s EXCEPT !.work = @ \cup w]]
             /\ ranAs' = ranAs \cup {<<c, session'[held[c]].serverId>>}
             /\ UNCHANGED worked
    BY <2>2
  <2> QED
    BY <2>1, <2>2 DEF Execute
<1> DEFINE z == [s EXCEPT !.work = @ \cup w]
<1> HIDE DEF k
<1>5. /\ s \in SessionStates /\ s.place = k.place /\ s.clientId = k.clientId
      /\ s.callTimeout = k.callTimeout /\ s.work = k.work
      /\ s.serverId \in {k.serverId, k.clientId}
  BY <1>2, <1>4, RoundTrips
<1>6. /\ z \in SessionStates /\ z.place = "out" /\ z.clientId = k.clientId
      /\ z.callTimeout = k.callTimeout /\ z.work = k.work \cup w /\ z.serverId = s.serverId
  BY <1>2, <1>5 DEF SessionStates
<1> HIDE DEF z
<1>7. session' = [session EXCEPT ![held[c]] = z] /\ session'[held[c]] = z
  BY <1>2, <1>4 DEF z
<1>8. ranAs' = ranAs \cup {<<c, z.serverId>>}
  BY <1>4, <1>7
<1>9. /\ z.work \subseteq {c}
      /\ z.clientId \in {ContextUser(c), NoUser} /\ z.serverId \in {ContextUser(c), NoUser}
      /\ z.callTimeout = session[held[c]].callTimeout
      /\ worked' \in {worked, worked \cup {c}} /\ (c \in worked' => c \in z.work)
  BY <1>2, <1>3, <1>4, <1>5, <1>6 DEF k
<1>10. /\ stage' = [stage EXCEPT ![c] = "running"] /\ "running" \in Borrowed
       /\ outcome' = [outcome EXCEPT ![c] = "none"] /\ c \notin committed'
       /\ UNCHANGED <<config, held, committed, doubtful>>
  BY <1>1, <1>2, <1>3
<1> QED
  BY <1>1, <1>6, <1>7, <1>8, <1>9, <1>10, HolderMoves

LEMMA FnEndsKeepsInv ==
  ASSUME IInv, NEW c \in Calls, FnReturns(c) \/ FnThrows(c)
  PROVE  IInv'
<1> DEFINE k == session[held[c]]
<1>1. /\ stage[c] = "running" /\ stage[c] \in Borrowed
      /\ UNCHANGED <<session, config, held, historyVars>>
  BY DEF FnReturns, FnThrows, Borrowed
<1>2. /\ k \in SessionStates /\ k.place = "out" /\ k.work \subseteq {c}
      /\ k.clientId \in {ContextUser(c), NoUser} /\ k.serverId \in {ContextUser(c), NoUser}
      /\ session' = [session EXCEPT ![held[c]] = k]
      /\ outcome = [outcome EXCEPT ![c] = outcome[c]]
  BY <1>1, Holder
<1>3. outcome[c] = "none" /\ c \notin committed /\ (c \in worked => c \in k.work)
  BY <1>1 DEF IInv, WorkInv
<1> HIDE DEF k
<1>4. PICK t \in {"committing", "rollingBack", "releasing"}, o \in {"none", "ok", "error"} :
        /\ stage' = [stage EXCEPT ![c] = t] /\ outcome' = [outcome EXCEPT ![c] = o]
        /\ t = "committing" => o = "none"
        /\ o = "ok" => options[c].kind # "transaction"
  <2>1. ASSUME FnReturns(c), options[c].kind = "transaction"
        PROVE  /\ stage' = [stage EXCEPT ![c] = "committing"]
               /\ outcome' = [outcome EXCEPT ![c] = "none"]
    BY <2>1, <1>2, <1>3 DEF FnReturns, Goto
  <2>2. ASSUME FnReturns(c), options[c].kind # "transaction"
        PROVE  /\ stage' = [stage EXCEPT ![c] = "releasing"]
               /\ outcome' = [outcome EXCEPT ![c] = "ok"]
    BY <2>2 DEF FnReturns, Goto, Ends
  <2>3. ASSUME FnThrows(c)
        PROVE  /\ \E t \in {"rollingBack", "releasing"} : stage' = [stage EXCEPT ![c] = t]
               /\ outcome' = [outcome EXCEPT ![c] = "error"]
    BY <2>3 DEF FnThrows, Goto, Ends
  <2> QED
    BY <2>1, <2>2, <2>3
<1>5. t \in Borrowed /\ t \notin {"running", "closing"}
  BY DEF Borrowed
<1> QED
  BY <1>1, <1>2, <1>3, <1>4, <1>5, HolderMoves DEF historyVars, k

(* The commit, whatever becomes of its round trip, and the rollback.        *)
LEMMA CommitsKeepsInv ==
  ASSUME IInv, NEW c \in Calls, Commits(c)
  PROVE  IInv'
<1> DEFINE k == session[held[c]]
           z == [Sent(k) EXCEPT !.work = {}]
<1>1. /\ stage[c] = "committing" /\ stage[c] \in Borrowed /\ "releasing" \in Borrowed
      /\ stage' = [stage EXCEPT ![c] = "releasing"] /\ outcome' = [outcome EXCEPT ![c] = "ok"]
      /\ UNCHANGED <<config, held, doubtful, worked, ranAs>>
      /\ committed' = committed \cup k.work
  BY DEF Commits, Goto, Ends, Borrowed
<1>2. /\ held[c] \in Sessions /\ k \in SessionStates /\ k.place = "out" /\ k.work \subseteq {c}
      /\ k.clientId \in {ContextUser(c), NoUser} /\ k.serverId \in {ContextUser(c), NoUser}
      /\ session \in [Sessions -> SessionStates]
  BY <1>1, Holder DEF IInv, TypeOK
<1>3. session' = [session EXCEPT ![held[c]] = z]
  BY <1>2 DEF Commits
<1>4. c \in worked => c \in k.work
  BY <1>1 DEF IInv, WorkInv
<1> HIDE DEF k
<1>5. /\ Sent(k) \in SessionStates /\ Sent(k).place = k.place /\ Sent(k).clientId = k.clientId
      /\ Sent(k).serverId \in {k.serverId, k.clientId}
  BY <1>2, RoundTrips
<1>6. /\ z \in SessionStates /\ z.place = "out" /\ z.clientId = k.clientId /\ z.work = {}
      /\ z.serverId = Sent(k).serverId
  BY <1>2, <1>5 DEF SessionStates
<1> HIDE DEF z
<1>7. /\ committed' \in {committed, committed \cup {c}}
      /\ c \in worked => c \in committed'
  BY <1>1, <1>2, <1>4
<1> QED
  BY <1>1, <1>2, <1>3, <1>5, <1>6, <1>7, HolderMoves DEF k

LEMMA CommitFailsKeepsInv ==
  ASSUME IInv, NEW c \in Calls, CommitFails(c)
  PROVE  IInv'
<1> DEFINE k == session[held[c]]
<1>1. /\ stage[c] = "committing" /\ stage[c] \in Borrowed /\ "rollingBack" \in Borrowed
      /\ stage' = [stage EXCEPT ![c] = "rollingBack"]
      /\ outcome' = [outcome EXCEPT ![c] = "error"]
      /\ doubtful' = doubtful \cup {c}
      /\ UNCHANGED <<config, held, worked, ranAs>>
  BY DEF CommitFails, Goto, Ends, Borrowed
<1>2. /\ held[c] \in Sessions /\ k \in SessionStates /\ k.place = "out" /\ k.work \subseteq {c}
      /\ k.clientId \in {ContextUser(c), NoUser} /\ k.serverId \in {ContextUser(c), NoUser}
  BY <1>1, Holder
<1>3. PICK s \in Broken(k) :
        \/ session' = [session EXCEPT ![held[c]] = s] /\ UNCHANGED committed
        \/ /\ session' = [session EXCEPT ![held[c]] = [s EXCEPT !.work = {}]]
           /\ committed' = committed \cup s.work
  BY DEF CommitFails
<1> HIDE DEF k
<1>4. /\ s \in SessionStates /\ s.place = k.place /\ s.clientId = k.clientId
      /\ s.work = k.work /\ s.serverId \in {k.serverId, k.clientId}
  BY <1>2, RoundTrips
<1>5. /\ [s EXCEPT !.work = {}] \in SessionStates
      /\ [s EXCEPT !.work = {}].place = s.place /\ [s EXCEPT !.work = {}].clientId = s.clientId
      /\ [s EXCEPT !.work = {}].serverId = s.serverId /\ [s EXCEPT !.work = {}].work = {}
  BY <1>4 DEF SessionStates
<1>6. PICK z \in SessionStates :
        /\ session' = [session EXCEPT ![held[c]] = z]
        /\ z.place = "out" /\ z.work \subseteq {c}
        /\ z.clientId \in {ContextUser(c), NoUser} /\ z.serverId \in {ContextUser(c), NoUser}
  BY <1>2, <1>3, <1>4, <1>5
<1>7. committed' \in {committed, committed \cup {c}} /\ c \in doubtful'
  <2>1. s.work = {} \/ s.work = {c}
    BY <1>2, <1>4
  <2> QED
    BY <1>1, <1>3, <2>1
<1> QED
  BY <1>1, <1>6, <1>7, HolderMoves

LEMMA RollsBackKeepsInv ==
  ASSUME IInv, NEW c \in Calls, RollsBack(c)
  PROVE  IInv'
<1> DEFINE k == session[held[c]]
           z == [Sent(k) EXCEPT !.work = {}]
<1>1. /\ stage[c] = "rollingBack" /\ stage[c] \in Borrowed /\ "releasing" \in Borrowed
      /\ stage' = [stage EXCEPT ![c] = "releasing"]
      /\ UNCHANGED <<config, held, outcome, historyVars>>
  BY DEF RollsBack, Goto, Borrowed
<1>2. /\ held[c] \in Sessions /\ k \in SessionStates /\ k.place = "out" /\ k.work \subseteq {c}
      /\ k.clientId \in {ContextUser(c), NoUser} /\ k.serverId \in {ContextUser(c), NoUser}
      /\ outcome' = [outcome EXCEPT ![c] = outcome[c]]
      /\ session \in [Sessions -> SessionStates]
  BY <1>1, Holder DEF IInv, TypeOK
<1>3. \/ session' = [session EXCEPT ![held[c]] = z]
      \/ \E s \in Broken(k) : session' = [session EXCEPT ![held[c]] = s]
  BY <1>2 DEF RollsBack
<1>4. /\ outcome[c] \in {"none", "ok", "error"}
      /\ outcome[c] = "ok" /\ options[c].kind = "transaction" /\ c \in worked => c \in committed
      /\ c \in committed => outcome[c] = "ok" \/ c \in doubtful
  BY <1>1 DEF IInv, TypeOK, CommitMatchesOutcome, OutcomeInv
<1> HIDE DEF k
<1>5. \A s \in {Sent(k)} \cup Broken(k) :
        /\ s \in SessionStates /\ s.place = k.place /\ s.clientId = k.clientId
        /\ s.work = k.work /\ s.serverId \in {k.serverId, k.clientId}
  BY <1>2, RoundTrips
<1>6. /\ z \in SessionStates /\ z.place = "out" /\ z.clientId = k.clientId /\ z.work = {}
      /\ z.serverId \in {k.serverId, k.clientId}
  BY <1>2, <1>5 DEF SessionStates
<1> HIDE DEF z
<1>7. PICK y \in SessionStates :
        /\ session' = [session EXCEPT ![held[c]] = y]
        /\ y.place = "out" /\ y.work \subseteq {c}
        /\ y.clientId \in {ContextUser(c), NoUser} /\ y.serverId \in {ContextUser(c), NoUser}
  BY <1>2, <1>3, <1>5, <1>6
<1> QED
  BY <1>1, <1>2, <1>4, <1>7, HolderMoves DEF historyVars

(* The clearing ping: a session goes to "closing" only if it came back.     *)
LEMMA ClearContextKeepsInv ==
  ASSUME IInv, NEW c \in Calls, ClearContext(c)
  PROVE  IInv'
<1> DEFINE k == session[held[c]]
           z == [k EXCEPT !.clientId = NoUser, !.unsent = TRUE, !.callTimeout = PingTimeout]
<1>1. /\ stage[c] = "releasing" /\ stage[c] \in Borrowed
      /\ UNCHANGED <<config, held, outcome, historyVars>>
  BY DEF ClearContext, Borrowed
<1>2. /\ held[c] \in Sessions /\ k \in SessionStates /\ k.place = "out" /\ k.work \subseteq {c}
      /\ k.clientId \in {ContextUser(c), NoUser} /\ k.serverId \in {ContextUser(c), NoUser}
      /\ outcome' = [outcome EXCEPT ![c] = outcome[c]]
      /\ session = [session EXCEPT ![held[c]] = k]
  BY <1>1, Holder
<1>3. /\ outcome[c] \in {"none", "ok", "error"}
      /\ outcome[c] = "ok" /\ options[c].kind = "transaction" /\ c \in worked => c \in committed
      /\ c \in committed => outcome[c] = "ok" \/ c \in doubtful
  BY <1>1 DEF IInv, TypeOK, CommitMatchesOutcome, OutcomeInv
<1>4. \/ /\ ContextUser(c) = NoUser
         /\ session' = [session EXCEPT ![held[c]] = k] /\ stage' = [stage EXCEPT ![c] = "closing"]
      \/ /\ session' = [session EXCEPT ![held[c]] = Sent(z)]
         /\ stage' = [stage EXCEPT ![c] = "closing"]
      \/ /\ \E s \in Broken(z) : session' = [session EXCEPT ![held[c]] = s]
         /\ stage' = [stage EXCEPT ![c] = "dropping"]
  BY <1>2 DEF ClearContext, Goto
<1> HIDE DEF k
<1>5. /\ z \in SessionStates /\ z.place = "out" /\ z.work = k.work /\ z.clientId = NoUser
      /\ z.serverId = k.serverId /\ z.unsent = TRUE
  BY <1>2, TimeoutAssumption DEF SessionStates
<1> HIDE DEF z
<1>6. Sent(z).serverId = NoUser
  BY <1>5 DEF Sent, SessionStates
<1>7. \A s \in {Sent(z)} \cup Broken(z) :
        /\ s \in SessionStates /\ s.place = z.place /\ s.clientId = z.clientId
        /\ s.work = z.work /\ s.serverId \in {z.serverId, z.clientId}
  BY <1>5, RoundTrips
<1>8. PICK y \in SessionStates, t \in {"closing", "dropping"} :
        /\ session' = [session EXCEPT ![held[c]] = y] /\ stage' = [stage EXCEPT ![c] = t]
        /\ y.place = "out" /\ y.work \subseteq {c}
        /\ y.clientId \in {ContextUser(c), NoUser} /\ y.serverId \in {ContextUser(c), NoUser}
        /\ t = "closing" => y.clientId = NoUser /\ y.serverId = NoUser
  BY <1>2, <1>4, <1>5, <1>6, <1>7
<1>9. t \in Borrowed
  BY DEF Borrowed
<1> QED
  BY <1>1, <1>2, <1>3, <1>8, <1>9, HolderMoves DEF historyVars

-----------------------------------------------------------------------------
(* A call without a session: it goes on waiting for one, or ends.           *)
LEMMA CallKeepsInv ==
  ASSUME IInv, NEW c \in Calls, Call(c) \/ AcquireFails(c)
  PROVE  IInv'
<1> USE DEF IInv
<1>1. PICK t \in {"waiting", "done"}, o \in {outcome[c], "unauthorized", "noConnection"} :
        stage' = [stage EXCEPT ![c] = t] /\ outcome' = [outcome EXCEPT ![c] = o]
  <2>1. outcome = [outcome EXCEPT ![c] = outcome[c]]
    BY DEF TypeOK
  <2> QED
    BY <2>1 DEF Call, AcquireFails, Goto, Ends
<1>2. /\ stage[c] \in {"notCalled", "waiting"} /\ held[c] = NoSession
      /\ UNCHANGED <<session, config, held, historyVars>>
      /\ outcome[c] = "none" /\ c \notin worked /\ c \notin committed
  BY DEF Call, AcquireFails, TypeOK, WorkInv
<1>3. /\ UNCHANGED <<session, source, options, held, committed, doubtful, worked, ranAs>>
      /\ \A d \in Calls : ContextUser(d)' = ContextUser(d) /\ CallTimeout(d)' = CallTimeout(d)
  BY <1>2 DEF config, historyVars, ContextUser, CallTimeout
<1>4. /\ stage'[c] = t /\ outcome'[c] = o
      /\ \A d \in Calls : d # c => stage'[d] = stage[d] /\ outcome'[d] = outcome[d]
      /\ t \notin {"running", "committing", "closing"} /\ o # "ok" /\ (t = "waiting" => o = "none")
  <2>1. t = "waiting" => o = "none"
    BY <1>1, <1>2 DEF Call, AcquireFails, Goto, Ends, TypeOK
  <2> QED
    BY <1>1, <1>2, <2>1 DEF TypeOK
<1>5. TypeOK'
  <2>1. /\ stage' \in [Calls -> {"notCalled", "waiting", "running", "committing",
                                 "rollingBack", "releasing", "closing", "dropping", "done"}]
        /\ outcome' \in [Calls -> {"none", "ok", "error", "unauthorized", "noConnection"}]
    BY <1>1, <1>2 DEF TypeOK
  <2>2. \A d \in Calls : stage'[d] \in {"notCalled", "waiting", "done"} <=> held'[d] = NoSession
    BY <1>2, <1>3, <1>4 DEF TypeOK
  <2> QED
    BY <1>3, <2>1, <2>2 DEF TypeOK
<1>6. PoolInv'
  BY <1>3 DEF PoolInv
<1>7. IdentityInv' /\ OutcomeInv'
  BY <1>2, <1>3, <1>4 DEF IdentityInv, OutcomeInv
<1>8. WorkInv'
  BY <1>2, <1>3, <1>4 DEF WorkInv
<1>9. NoForeignIdentity' /\ NoInheritedTimeout'
  BY <1>3, <1>4 DEF NoForeignIdentity, NoInheritedTimeout, TypeOK
<1>10. CommitMatchesOutcome'
  BY <1>2, <1>3, <1>4 DEF CommitMatchesOutcome
<1> QED
  BY <1>5, <1>6, <1>7, <1>8, <1>9, <1>10

(* A session changes hands between the pool and one call; whoever else      *)
(* holds a session holds another one.                                       *)
LEMMA OthersUntouched ==
  ASSUME IInv, NEW c \in Calls, NEW k \in Sessions,
         \A d \in Calls : d # c => held[d] # k,
         NEW s \in SessionStates, session' = [session EXCEPT ![k] = s],
         NEW t \in Borrowed \cup {"done"}, stage' = [stage EXCEPT ![c] = t],
         NEW h \in {k, NoSession}, held' = [held EXCEPT ![c] = h],
         t = "done" <=> h = NoSession,
         UNCHANGED <<config, outcome, historyVars>>
  PROVE  /\ TypeOK'
         /\ session'[k] = s /\ stage'[c] = t /\ held'[c] = h
         /\ \A i \in Sessions : i # k => session'[i] = session[i]
         /\ \A d \in Calls : d # c =>
              /\ stage'[d] = stage[d] /\ held'[d] = held[d]
              /\ held[d] # NoSession => session'[held[d]] = session[held[d]]
         /\ UNCHANGED <<source, options, outcome, committed, doubtful, worked, ranAs>>
         /\ \A d \in Calls : ContextUser(d)' = ContextUser(d) /\ CallTimeout(d)' = CallTimeout(d)
<1>1. /\ session \in [Sessions -> SessionStates] /\ held \in [Calls -> Sessions \cup {NoSession}]
      /\ stage \in [Calls -> Borrowed \cup {"notCalled", "waiting", "done"}]
  BY DEF IInv, TypeOK, Borrowed
<1>2. UNCHANGED <<source, options, outcome, committed, doubtful, worked, ranAs>>
  BY DEF config, historyVars
<1>3. /\ session'[k] = s /\ stage'[c] = t /\ held'[c] = h
      /\ \A i \in Sessions : i # k => session'[i] = session[i]
      /\ \A d \in Calls : d # c => stage'[d] = stage[d] /\ held'[d] = held[d]
  BY <1>1
<1>4. \A d \in Calls : d # c /\ held[d] # NoSession => session'[held[d]] = session[held[d]]
  BY <1>1, <1>3
<1>5. TypeOK'
  <2>1. /\ session' \in [Sessions -> SessionStates]
        /\ held' \in [Calls -> Sessions \cup {NoSession}]
        /\ stage' \in [Calls -> Borrowed \cup {"notCalled", "waiting", "done"}]
    BY <1>1
  <2>2. t \in {"notCalled", "waiting", "done"} <=> h = NoSession
    BY SessionAssumption DEF Borrowed
  <2>3. \A d \in Calls : stage'[d] \in {"notCalled", "waiting", "done"} <=> held'[d] = NoSession
    BY <1>3, <2>2 DEF IInv, TypeOK
  <2> QED
    BY <1>2, <2>1, <2>3 DEF IInv, TypeOK, Borrowed
<1> QED
  BY <1>2, <1>3, <1>4, <1>5 DEF ContextUser, CallTimeout

LEMMA AcquireKeepsInv ==
  ASSUME IInv, NEW c \in Calls, NEW k \in Sessions, Acquire(c, k)
  PROVE  IInv'
<1> USE DEF IInv
<1> DEFINE lent == IF session[k].place = "idle" THEN session[k] ELSE Fresh
           user == ContextUser(c)
           pending == lent.unsent \/ user # NoUser
           s == [lent EXCEPT !.place = "out",
                             !.callTimeout = IF CallTimeout(c) > 0 THEN CallTimeout(c) ELSE @,
                             !.clientId = IF user # NoUser THEN user ELSE @,
                             !.unsent = pending]
<1>1. /\ stage[c] = "waiting" /\ held[c] = NoSession /\ session[k].place # "out"
      /\ session' = [session EXCEPT ![k] = s]
      /\ held' = [held EXCEPT ![c] = k] /\ stage' = [stage EXCEPT ![c] = "running"]
      /\ UNCHANGED <<config, outcome, historyVars>>
  BY DEF Acquire, Goto, TypeOK
<1>2. /\ lent \in SessionStates /\ lent.clientId = NoUser /\ lent.serverId = NoUser
      /\ lent.work = {} /\ lent.callTimeout \in {0, source.callTimeoutMs}
  <2>1. CASE session[k].place = "idle"
    BY <2>1 DEF PoolInv, TypeOK
  <2>2. CASE session[k].place # "idle"
    BY <2>2, FreshIsSession DEF Fresh
  <2> QED
    BY <2>1, <2>2
<1>3. /\ user \in Users \cup {NoUser} /\ CallTimeout(c) \in Nat /\ source.callTimeoutMs \in Nat
  BY TimeoutAssumption DEF TypeOK, Options, Sources, ContextUser, CallTimeout
<1> HIDE DEF lent, user
<1>p. pending \in BOOLEAN
  OBVIOUS
<1> HIDE DEF pending
<1>4. /\ s \in SessionStates /\ s.place = "out" /\ s.work = {} /\ s.serverId = NoUser
      /\ s.clientId \in {user, NoUser}
      /\ s.callTimeout = CallTimeout(c) \/ (CallTimeout(c) = 0 /\ s.callTimeout = source.callTimeoutMs)
  <2> DEFINE timeout == IF CallTimeout(c) > 0 THEN CallTimeout(c) ELSE lent.callTimeout
             id == IF user # NoUser THEN user ELSE lent.clientId
  <2>1. /\ timeout \in Nat
        /\ timeout = CallTimeout(c) \/ (CallTimeout(c) = 0 /\ timeout = source.callTimeoutMs)
    BY <1>2, <1>3
  <2>2. id \in {user, NoUser} /\ id \in Users \cup {NoUser}
    BY <1>2, <1>3
  <2>3. s = [lent EXCEPT !.place = "out", !.callTimeout = timeout, !.clientId = id,
                         !.unsent = pending]
    OBVIOUS
  <2> HIDE DEF s, timeout, id
  <2>4. /\ s \in SessionStates /\ s.place = "out" /\ s.work = lent.work
        /\ s.serverId = lent.serverId /\ s.clientId = id /\ s.callTimeout = timeout
    BY <1>2, <1>p, <2>1, <2>2, <2>3 DEF SessionStates
  <2> QED
    BY <1>2, <2>1, <2>2, <2>4
<1> HIDE DEF s
<1>5. \A d \in Calls : held[d] # k
  BY <1>1, SessionAssumption DEF PoolInv
<1>6. k # NoSession /\ "running" \in Borrowed \cup {"done"} /\ "running" # "done"
  BY SessionAssumption DEF Borrowed
<1>7. /\ TypeOK'
      /\ session'[k] = s /\ stage'[c] = "running" /\ held'[c] = k
      /\ \A i \in Sessions : i # k => session'[i] = session[i]
      /\ \A d \in Calls : d # c =>
           /\ stage'[d] = stage[d] /\ held'[d] = held[d]
           /\ held[d] # NoSession => session'[held[d]] = session[held[d]]
      /\ UNCHANGED <<source, options, outcome, committed, doubtful, worked, ranAs>>
      /\ \A d \in Calls : ContextUser(d)' = ContextUser(d) /\ CallTimeout(d)' = CallTimeout(d)
  BY <1>1, <1>4, <1>5, <1>6, OthersUntouched
<1>8. PoolInv'
  BY <1>4, <1>5, <1>7 DEF PoolInv
<1>9. IdentityInv'
  BY <1>4, <1>7 DEF IdentityInv, user
<1>10. WorkInv' /\ OutcomeInv'
  BY <1>1, <1>4, <1>7 DEF WorkInv, OutcomeInv, TypeOK
<1>11. NoForeignIdentity'
  BY <1>7 DEF NoForeignIdentity, TypeOK
<1>12. NoInheritedTimeout'
  BY <1>4, <1>7 DEF NoInheritedTimeout, TypeOK
<1>13. CommitMatchesOutcome'
  BY <1>7 DEF CommitMatchesOutcome
<1> QED
  BY <1>7, <1>8, <1>9, <1>10, <1>11, <1>12, <1>13

LEMMA ReleaseKeepsInv ==
  ASSUME IInv, NEW c \in Calls, Release(c)
  PROVE  IInv'
<1> USE DEF IInv
<1> DEFINE k == held[c]
           lost == [session[k] EXCEPT !.callTimeout = source.callTimeoutMs]
           back == [lost EXCEPT !.place = "idle", !.work = {}]
<1>1. /\ stage[c] \in {"closing", "dropping"} /\ stage[c] \in Borrowed
      /\ held' = [held EXCEPT ![c] = NoSession] /\ stage' = [stage EXCEPT ![c] = "done"]
      /\ UNCHANGED <<config, outcome, historyVars>>
  BY DEF Release, Goto, Borrowed
<1>2. PICK s \in {IF stage[c] = "closing" THEN back ELSE Fresh, lost} :
        session' = [session EXCEPT ![k] = s]
  BY DEF Release
<1>3. /\ k \in Sessions /\ k # NoSession /\ session[k] \in SessionStates
      /\ session[k].place = "out"
      /\ stage[c] = "closing" => session[k].clientId = NoUser /\ session[k].serverId = NoUser
      /\ source.callTimeoutMs \in Nat
  BY <1>1, Holder, TimeoutAssumption DEF IdentityInv, TypeOK, Sources
<1>4. /\ s \in SessionStates
      /\ s.place = "idle" =>
           /\ s.clientId = NoUser /\ s.serverId = NoUser
           /\ s.callTimeout = source.callTimeoutMs /\ s.work = {}
  <2>1. /\ lost \in SessionStates /\ lost.place = "out"
        /\ lost.clientId = session[k].clientId /\ lost.serverId = session[k].serverId
        /\ lost.callTimeout = source.callTimeoutMs
    BY <1>3 DEF SessionStates
  <2> HIDE DEF lost
  <2>2. /\ back \in SessionStates /\ back.clientId = lost.clientId
        /\ back.serverId = lost.serverId /\ back.callTimeout = lost.callTimeout /\ back.work = {}
    BY <2>1 DEF SessionStates
  <2> HIDE DEF back
  <2>3. Fresh \in SessionStates /\ Fresh.place = "closed"
    BY FreshIsSession DEF Fresh
  <2> QED
    BY <1>1, <1>2, <1>3, <2>1, <2>2, <2>3
<1>5. \A d \in Calls : d # c => held[d] # k
  BY <1>3 DEF PoolInv
<1> HIDE DEF k, lost, back
<1>6. /\ TypeOK'
      /\ session'[k] = s /\ stage'[c] = "done" /\ held'[c] = NoSession
      /\ \A i \in Sessions : i # k => session'[i] = session[i]
      /\ \A d \in Calls : d # c =>
           /\ stage'[d] = stage[d] /\ held'[d] = held[d]
           /\ held[d] # NoSession => session'[held[d]] = session[held[d]]
      /\ UNCHANGED <<source, options, outcome, committed, doubtful, worked, ranAs>>
      /\ \A d \in Calls : ContextUser(d)' = ContextUser(d) /\ CallTimeout(d)' = CallTimeout(d)
  BY <1>1, <1>2, <1>3, <1>4, <1>5, OthersUntouched
<1>7. PoolInv'
  BY <1>4, <1>6 DEF PoolInv
<1>8. IdentityInv' /\ WorkInv' /\ OutcomeInv'
  BY <1>6 DEF IdentityInv, WorkInv, OutcomeInv, TypeOK
<1>9. NoForeignIdentity'
  BY <1>6 DEF NoForeignIdentity, TypeOK
<1>10. NoInheritedTimeout'
  BY <1>6 DEF NoInheritedTimeout, TypeOK
<1>11. CommitMatchesOutcome'
  BY <1>6 DEF CommitMatchesOutcome
<1> QED
  BY <1>6, <1>7, <1>8, <1>9, <1>10, <1>11

LEMMA ServerDropsKeepsInv ==
  ASSUME IInv, NEW k \in Sessions, ServerDrops(k)
  PROVE  IInv'
<1> USE DEF IInv
<1>1. /\ \A d \in Calls : held[d] # k
      /\ session' = [session EXCEPT ![k] = Fresh]
      /\ UNCHANGED <<source, options, stage, held, outcome, committed, doubtful, worked, ranAs>>
  BY DEF ServerDrops, config, historyVars
<1>2. /\ session' \in [Sessions -> SessionStates]
      /\ \A i \in Sessions : session'[i] = IF i = k THEN Fresh ELSE session[i]
      /\ \A d \in Calls : held[d] # NoSession => session'[held[d]] = session[held[d]]
      /\ Fresh.place = "closed"
  BY <1>1, FreshIsSession DEF TypeOK, Fresh
<1>3. TypeOK'
  BY <1>1, <1>2 DEF TypeOK
<1>4. PoolInv'
  BY <1>1, <1>2 DEF PoolInv
<1>5. \A d \in Calls : ContextUser(d)' = ContextUser(d) /\ CallTimeout(d)' = CallTimeout(d)
  BY <1>1 DEF ContextUser, CallTimeout
<1>6. IdentityInv' /\ WorkInv' /\ OutcomeInv'
  BY <1>1, <1>2, <1>5 DEF IdentityInv, WorkInv, OutcomeInv, TypeOK
<1>7. NoForeignIdentity' /\ NoInheritedTimeout' /\ CommitMatchesOutcome'
  BY <1>1, <1>2, <1>5 DEF NoForeignIdentity, NoInheritedTimeout, CommitMatchesOutcome, TypeOK
<1> QED
  BY <1>3, <1>4, <1>6, <1>7

LEMMA InvStep == IInv /\ [Next]_vars => IInv'
<1> SUFFICES ASSUME IInv, [Next]_vars PROVE IInv'
  OBVIOUS
<1>1. CASE UNCHANGED vars
  BY <1>1 DEF vars, config, historyVars, IInv, TypeOK, PoolInv, IdentityInv, WorkInv, OutcomeInv,
              NoForeignIdentity, NoInheritedTimeout, CommitMatchesOutcome, ContextUser, CallTimeout
<1>2. CASE Next
  BY <1>2, CallKeepsInv, ExecuteKeepsInv, FnEndsKeepsInv, CommitsKeepsInv, CommitFailsKeepsInv,
     RollsBackKeepsInv, ClearContextKeepsInv, AcquireKeepsInv, ReleaseKeepsInv,
     ServerDropsKeepsInv DEF Next
<1> QED
  BY <1>1, <1>2

THEOREM OracleInvariance == Spec => []IInv
  BY InvInit, InvStep, PTL DEF Spec

-----------------------------------------------------------------------------
(* A session is held by one call at a time, and lies idle as it was made.   *)
THEOREM SessionsHaveOneHolder == Spec => [](TypeOK /\ PoolInv)
<1>1. IInv => TypeOK /\ PoolInv
  BY DEF IInv
<1> QED
  BY <1>1, OracleInvariance, PTL

(* No statement runs under the identity of another call's user, whichever   *)
(* round trips fail and whatever the pool hands to whom.                    *)
THEOREM NoForeignIdentityHolds == Spec => []NoForeignIdentity
<1>1. IInv => NoForeignIdentity
  BY DEF IInv
<1> QED
  BY <1>1, OracleInvariance, PTL

(* No call runs under a timeout another call or the clearing ping left.     *)
THEOREM NoInheritedTimeoutHolds == Spec => []NoInheritedTimeout
<1>1. IInv => NoInheritedTimeout
  BY DEF IInv
<1> QED
  BY <1>1, OracleInvariance, PTL

(* What a transaction reports to its caller is what was committed, unless   *)
(* its commit failed.                                                       *)
THEOREM CommitMatchesOutcomeHolds == Spec => []CommitMatchesOutcome
<1>1. IInv => CommitMatchesOutcome
  BY DEF IInv
<1> QED
  BY <1>1, OracleInvariance, PTL

(* Where a call names a timeout other than 0 it runs under that one: the    *)
(* explicit 0 is the only value that does not override the source's.        *)
THEOREM TimeoutOverridesIfPositive ==
  ASSUME 0 \notin CallTimeouts
  PROVE  Spec => []TimeoutOverrides
<1>1. ASSUME IInv PROVE TimeoutOverrides
  <2> SUFFICES ASSUME NEW c \in Calls, stage[c] = "running"
               PROVE  session[held[c]].callTimeout = CallTimeout(c)
    BY DEF TimeoutOverrides
  <2>1. \/ session[held[c]].callTimeout = CallTimeout(c)
        \/ CallTimeout(c) = 0 /\ session[held[c]].callTimeout = source.callTimeoutMs
    BY <1>1 DEF IInv, NoInheritedTimeout
  <2>2. options[c].timeout \in CallTimeouts \cup {Unset}
    BY <1>1 DEF IInv, TypeOK, Options
  <2> QED
    BY <2>1, <2>2 DEF CallTimeout
<1> QED
  BY <1>1, OracleInvariance, PTL
=============================================================================
