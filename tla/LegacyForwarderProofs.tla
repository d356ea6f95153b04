----------------------- MODULE LegacyForwarderProofs -----------------------
(***************************************************************************)
(* Proofs about one request through the legacy forwarder, for any paths and *)
(* prefixes: the ledger, the sockets, and the promise it implements.        *)
(***************************************************************************)
EXTENDS LegacyForwarder, SequenceTheorems, TLAPS

(* What the handlers of the two sockets know of one another: which of them  *)
(* wrote the head and handed what over, and that nothing settles before the *)
(* hop is taken or leaves anything open behind it.                          *)
HopInv ==
    /\ hop \in {"none", "passedOn"} => settled = "none" /\ res = "open"
    /\ hop \in {"none", "passedOn", "waiting", "aborting"} => headers = "none"
    /\ headers = "none" => got = "nothing"
    /\ headers = "own" => settled # "none"
    /\ hop = "aborting" => settled # "none"
    /\ hop = "answering" => headers = "legacy" /\ got \in {"nothing", "part"}
    /\ hop = "answering" /\ res = "open" => got = "part"
    /\ hop = "answered" => /\ headers = "legacy" /\ got = "whole" /\ upload = "sending"
                           /\ res # "open" /\ settled \in {"none", "completed"}
    /\ res = "ended" => /\ hop \in {"answered", "drained", "closed"} /\ headers # "none"
                        /\ headers = "legacy" => got = "whole"
    /\ got = "gatewayError" => settled = "failed"
    /\ res = "closed" /\ settled = "none" => client # "there" /\ upload = "whole" /\ got = "nothing"

SentInv == hop \notin {"none", "passedOn"} => sent = BuildForwardHeaders(request.headers)

Statuses == {"none", "legacy", 502, 504}

Line(status) ==
    [outcome |-> settled, status |-> status, requestId |-> RequestIdFor(request.headers)]

LogInv ==
    IF settled = "failed" \/ (settled # "none" /\ logRequests)
      THEN \E status \in Statuses :
             /\ log = <<Line(status)>>
             /\ settled = "failed" => status = StatusOf(timedOut)
             /\ settled = "completed" => status = "legacy"
      ELSE log = <<>>

SocketInv == TypeOK /\ HopInv /\ NoSocketLeftBehind

-----------------------------------------------------------------------------
LEMMA SocketInvInit == Init => SocketInv
BY DEF Init, SocketInv, TypeOK, HopInv, NoSocketLeftBehind

(* What settle() leaves behind, whoever calls it.                           *)
LEMMA SettleSettles ==
  ASSUME NEW outcome \in {"completed", "aborted", "failed"}, NEW status, Settle(outcome, status)
  PROVE  /\ settled = "none" => settled' = outcome
         /\ settled # "none" => settled' = settled /\ log' = log
  BY DEF Settle, outcomeVars

LEMMA OnErrorKeepsSockets ==
  ASSUME SocketInv, Listening \/ hop = "aborting",
         OnError, UNCHANGED <<inputs, upload, sent>>, timedOut' \in BOOLEAN
  PROVE  SocketInv'
<1>1. Settle("failed", StatusOf(timedOut'))
  BY DEF OnError
<1>2. settled' \in {"completed", "aborted", "failed"}
      /\ (settled = "none" => settled' = "failed") /\ (settled # "none" => settled' = settled)
  BY <1>1, SettleSettles DEF SocketInv, TypeOK
<1>3. TypeOK'
  BY <1>2 DEF SocketInv, TypeOK, OnError, inputs, options
<1>4. HopInv'
  BY <1>2 DEF SocketInv, TypeOK, HopInv, NoSocketLeftBehind, OnError, Listening
<1>5. NoSocketLeftBehind'
  BY <1>2 DEF SocketInv, TypeOK, HopInv, NoSocketLeftBehind, OnError, Listening
<1> QED
  BY <1>3, <1>4, <1>5 DEF SocketInv

LEMMA ConnectionClosesKeepsSockets ==
  ASSUME SocketInv, NEW who \in {"hungUp", "cutOff"}, ConnectionCloses(who)
  PROVE  SocketInv'
<1> USE DEF SocketInv, TypeOK, HopInv, NoSocketLeftBehind, inputs, options
<1>0. /\ hop \notin {"none", "passedOn"} /\ client' = who /\ res' = "closed"
      /\ UNCHANGED <<inputs, upload, headers, got, sent, timedOut>>
  BY DEF ConnectionCloses
<1>1. CASE upload = "sending"
  <2>1. Settle("aborted", "none") /\ DestroyOutbound
    BY <1>1 DEF ConnectionCloses
  <2>2. (settled = "none" => settled' = "aborted") /\ (settled # "none" => settled' = settled)
    BY <2>1, SettleSettles
  <2>3. hop' = IF hop = "waiting" THEN "aborting"
                 ELSE IF hop \in {"answering", "answered"} THEN "closed" ELSE hop
    BY <2>1, Zenon DEF DestroyOutbound
  <2> QED
    BY <1>0, <1>1, <2>2, <2>3
<1>2. CASE upload = "whole" /\ headers = "legacy"
  <2>1. CASE Settle("aborted", "legacy") /\ DestroyOutbound
    <3>1. (settled = "none" => settled' = "aborted") /\ (settled # "none" => settled' = settled)
      BY <2>1, SettleSettles
    <3>2. hop' = IF hop = "waiting" THEN "aborting"
                 ELSE IF hop \in {"answering", "answered"} THEN "closed" ELSE hop
      BY <2>1 DEF DestroyOutbound
    <3> QED
      BY <1>0, <1>2, <3>1, <3>2
  <2>2. CASE res = "ended" /\ Settle("completed", "legacy") /\ UNCHANGED hop
    <3>1. (settled = "none" => settled' = "completed") /\ (settled # "none" => settled' = settled)
      BY <2>2, SettleSettles
    <3> QED
      BY <1>0, <1>2, <2>2, <3>1
  <2> QED
    BY <1>2, <2>1, <2>2 DEF ConnectionCloses
<1>3. CASE upload = "whole" /\ headers # "legacy"
  <2>1. UNCHANGED <<settled, hop>>
    BY <1>3 DEF ConnectionCloses, outcomeVars
  <2> QED
    BY <1>0, <1>3, <2>1
<1> QED
  BY <1>1, <1>2, <1>3

(* By then the request has completed, so nothing else can settle it.        *)
LEMMA ConnectionClosesLateChanges ==
  ASSUME SocketInv, NEW who \in {"hungUp", "cutOff"}, ConnectionClosesLate(who)
  PROVE  /\ hop = "answered" /\ hop' \in {"answered", "closed"} /\ client' = who
         /\ UNCHANGED <<inputs, upload, answerVars, sent, timedOut, outcomeVars>>
<1>1. hop = "answered" /\ settled = "completed"
  BY DEF ConnectionClosesLate, SocketInv, TypeOK, HopInv
<1>2. UNCHANGED outcomeVars
  BY <1>1 DEF ConnectionClosesLate, Settle
<1> QED
  BY <1>1, <1>2 DEF ConnectionClosesLate, DestroyOutbound

LEMMA ConnectionClosesLateKeepsSockets ==
  ASSUME SocketInv, NEW who \in {"hungUp", "cutOff"}, ConnectionClosesLate(who)
  PROVE  SocketInv'
BY ConnectionClosesLateChanges
   DEF SocketInv, TypeOK, HopInv, NoSocketLeftBehind, inputs, options, answerVars, outcomeVars

LEMMA SocketInvNext ==
  ASSUME SocketInv, [Next]_vars
  PROVE  SocketInv'
<1> USE DEF SocketInv, TypeOK, HopInv, NoSocketLeftBehind, inputs, options, answerVars, outcomeVars
<1>1. CASE PassOn
  BY <1>1 DEF PassOn
<1>2. CASE Forward
  BY <1>2 DEF Forward
<1>3. CASE UploadEnds
  BY <1>3 DEF UploadEnds
<1>4. CASE ClientHangsUp
  BY <1>4, ConnectionClosesKeepsSockets, ConnectionClosesLateKeepsSockets DEF ClientHangsUp
<1>5. CASE ServerTimesOut
  BY <1>5, ConnectionClosesKeepsSockets, ConnectionClosesLateKeepsSockets DEF ServerTimesOut
<1>6. CASE Flushed
  <2>1. CASE headers = "legacy"
    <3>1. (settled = "none" => settled' = "completed") /\ (settled # "none" => settled' = settled)
      BY <1>6, <2>1, SettleSettles DEF Flushed
    <3> QED
      BY <1>6, <2>1, <3>1 DEF Flushed
  <2>2. CASE headers # "legacy"
    BY <1>6, <2>2 DEF Flushed
  <2> QED
    BY <2>1, <2>2
<1>7. CASE OnResponse
  BY <1>7 DEF OnResponse
<1>8. CASE AnswerEnds
  BY <1>8 DEF AnswerEnds
<1>9. CASE AnswerCutShort
  BY <1>9 DEF AnswerCutShort
<1>10. CASE HopFails
  BY <1>10, OnErrorKeepsSockets DEF HopFails
<1>11. CASE TimesOut
  BY <1>11, OnErrorKeepsSockets DEF TimesOut
<1>12. CASE DestroyedErrors
  BY <1>12, OnErrorKeepsSockets DEF DestroyedErrors
<1>13. CASE UNCHANGED vars
  BY <1>13 DEF vars
<1> QED
  BY <1>1, <1>2, <1>3, <1>4, <1>5, <1>6, <1>7, <1>8, <1>9, <1>10, <1>11, <1>12, <1>13 DEF Next

LEMMA SocketInvHolds == Spec => []SocketInv
  BY SocketInvInit, SocketInvNext, PTL DEF Spec

(* Type correctness, for any paths and prefixes.                            *)
THEOREM ForwarderTypeCorrect == Spec => []TypeOK
<1>1. SocketInv => TypeOK
  BY DEF SocketInv
<1> QED
  BY <1>1, SocketInvHolds, PTL

(* A settled request leaves no client without an end, and the outbound      *)
(* request under way only behind an answer that overtook the upload: the    *)
(* handlers of forward() destroy it in every other case.                    *)
THEOREM NoSocketLeftBehindHolds == Spec => []NoSocketLeftBehind
<1>1. SocketInv => NoSocketLeftBehind
  BY DEF SocketInv
<1> QED
  BY <1>1, SocketInvHolds, PTL

-----------------------------------------------------------------------------
(* Every step keeps the ledger's shape: what settle() appends describes the *)
(* outcome it sets, and afterwards neither changes, nor does the timeout    *)
(* flag the status of a failure was taken from.                             *)
LEMMA SettleKeepsLog ==
  ASSUME LogInv, NEW outcome \in {"completed", "aborted", "failed"}, NEW status \in Statuses,
         Settle(outcome, status), UNCHANGED <<logRequests, request>>,
         settled = "none" =>
           /\ outcome = "failed" => status = StatusOf(timedOut')
           /\ outcome = "completed" => status = "legacy",
         settled = "failed" => UNCHANGED timedOut
  PROVE  LogInv'
<1>1. CASE settled = "none"
  <2>1. log = <<>> /\ settled' = outcome /\ LogOutcome(outcome, status)
    BY <1>1 DEF LogInv, Settle
  <2>2. ASSUME NEW x PROVE Append(<<>>, x) = <<x>>
    OBVIOUS
  <2>3. CASE outcome = "failed" \/ logRequests
    <3>1. log' = <<Line(status)'>>
      BY <2>1, <2>2, <2>3 DEF LogOutcome, Line
    <3> QED
      BY <1>1, <2>1, <2>3, <3>1 DEF LogInv
  <2>4. CASE ~(outcome = "failed" \/ logRequests)
    <3>1. log' = <<>>
      BY <2>1, <2>4 DEF LogOutcome
    <3> QED
      BY <2>1, <2>4, <3>1 DEF LogInv
  <2> QED
    BY <2>3, <2>4
<1>2. CASE settled # "none"
  <2>1. settled' = settled /\ log' = log /\ (settled = "failed" => timedOut' = timedOut)
    BY <1>2 DEF Settle, outcomeVars
  <2> QED
    BY <2>1 DEF LogInv, Line
<1> QED
  BY <1>1, <1>2

LEMMA OnErrorKeepsLog ==
  ASSUME SocketInv, LogInv, Listening \/ hop = "aborting",
         OnError, UNCHANGED inputs, timedOut' \in BOOLEAN,
         hop = "aborting" => UNCHANGED timedOut
  PROVE  LogInv'
<1>1. Settle("failed", StatusOf(timedOut')) /\ StatusOf(timedOut') \in Statuses
  BY DEF OnError, StatusOf, Statuses
<1>2. settled = "failed" => UNCHANGED timedOut
  BY DEF SocketInv, NoSocketLeftBehind, Listening
<1> QED
  BY <1>1, <1>2, SettleKeepsLog DEF inputs, options

LEMMA ConnectionClosesKeepsLog ==
  ASSUME LogInv, NEW who, ConnectionCloses(who)
  PROVE  LogInv'
<1>1. UNCHANGED <<logRequests, request, timedOut>>
  BY DEF ConnectionCloses, inputs, options
<1>2. CASE Settle("aborted", "none")
  BY <1>1, <1>2, SettleKeepsLog DEF Statuses
<1>3. CASE Settle("aborted", "legacy")
  BY <1>1, <1>3, SettleKeepsLog DEF Statuses
<1>4. CASE Settle("completed", "legacy")
  BY <1>1, <1>4, SettleKeepsLog DEF Statuses
<1>5. CASE UNCHANGED outcomeVars
  BY <1>1, <1>5 DEF LogInv, Line, outcomeVars
<1> QED
  BY <1>2, <1>3, <1>4, <1>5 DEF ConnectionCloses

LEMMA LogInvNext ==
  ASSUME SocketInv, LogInv, [Next]_vars
  PROVE  LogInv'
<1>1. CASE UNCHANGED <<settled, log, timedOut, logRequests, request>>
  BY <1>1 DEF LogInv, Line
<1>2. CASE PassOn \/ Forward \/ UploadEnds \/ OnResponse \/ AnswerEnds \/ AnswerCutShort
  <2>1. UNCHANGED <<settled, log, timedOut, logRequests, request>>
    BY <1>2 DEF PassOn, Forward, UploadEnds, OnResponse, AnswerEnds, AnswerCutShort,
                inputs, options, outcomeVars
  <2> QED
    BY <1>1, <2>1
<1>3. CASE ClientHangsUp \/ ServerTimesOut
  <2>1. CASE \E who : ConnectionCloses(who)
    BY <2>1, ConnectionClosesKeepsLog
  <2>2. CASE \E who \in {"hungUp", "cutOff"} : ConnectionClosesLate(who)
    BY <1>1, <2>2, ConnectionClosesLateChanges DEF inputs, options, outcomeVars
  <2> QED
    BY <1>3, <2>1, <2>2 DEF ClientHangsUp, ServerTimesOut
<1>4. CASE Flushed
  <2>1. UNCHANGED <<logRequests, request, timedOut>>
    BY <1>4 DEF Flushed, inputs, options
  <2>2. CASE Settle("completed", "legacy")
    BY <2>1, <2>2, SettleKeepsLog DEF Statuses
  <2>3. CASE UNCHANGED outcomeVars
    BY <2>1, <2>3 DEF LogInv, Line, outcomeVars
  <2> QED
    BY <1>4, <2>2, <2>3 DEF Flushed
<1>5. CASE HopFails \/ TimesOut \/ DestroyedErrors
  <2>1. /\ OnError /\ UNCHANGED inputs
        /\ Listening \/ hop = "aborting"
        /\ hop = "aborting" => UNCHANGED timedOut
    BY <1>5 DEF HopFails, TimesOut, DestroyedErrors, Listening
  <2>2. timedOut' \in BOOLEAN
    BY <1>5 DEF HopFails, TimesOut, DestroyedErrors, SocketInv, TypeOK
  <2> QED
    BY <2>1, <2>2, OnErrorKeepsLog
<1>6. CASE UNCHANGED vars
  BY <1>1, <1>6 DEF vars, outcomeVars, inputs, options
<1> QED
  BY <1>2, <1>3, <1>4, <1>5, <1>6 DEF Next

LEMMA SentInvNext ==
  ASSUME SentInv, [Next]_vars
  PROVE  SentInv'
<1>1. CASE Forward
  BY <1>1 DEF Forward, SentInv, inputs, options, BuildForwardHeaders, StripHopByHop
<1>2. CASE PassOn
  BY <1>2 DEF PassOn, SentInv
<1>3. CASE ~Forward /\ ~PassOn
  <2>1. /\ UNCHANGED <<sent, request, preserveHostHeader>>
        /\ hop \notin {"none", "passedOn"} \/ UNCHANGED hop
    BY <1>3 DEF Next, vars, UploadEnds, ClientHangsUp, ServerTimesOut, ConnectionCloses, ConnectionClosesLate, Flushed,
                OnResponse, AnswerEnds, AnswerCutShort, HopFails, TimesOut, DestroyedErrors,
                Listening, inputs, options
  <2>2. BuildForwardHeaders(request.headers)' = BuildForwardHeaders(request.headers)
    BY <2>1 DEF BuildForwardHeaders, StripHopByHop, RequestIdFor
  <2> QED
    BY <2>1, <2>2 DEF SentInv
<1> QED
  BY <1>1, <1>2, <1>3

LEMMA LedgerFollows ==
  ASSUME SocketInv, LogInv, SentInv
  PROVE  LedgerTruthful
<1>0. Over /\ settled = "none" => client # "there" /\ got = "nothing"
  BY DEF Over, SocketInv, HopInv
<1>1. CASE settled = "failed" \/ (settled # "none" /\ logRequests)
  <2>1. PICK status \in Statuses :
           /\ log = <<Line(status)>>
           /\ settled = "failed" => status = StatusOf(timedOut)
           /\ settled = "completed" => status = "legacy"
    BY <1>1 DEF LogInv
  <2>2. sent.requestId = RequestIdFor(request.headers)
    <3>1. request.headers \in Headers /\ sent = BuildForwardHeaders(request.headers)
      BY <1>1 DEF SocketInv, TypeOK, HopInv, SentInv
    <3> QED
      BY <3>1 DEF Headers, BuildForwardHeaders, StripHopByHop
  <2>3. Len(log) = 1 /\ DOMAIN log = {1} /\ log[1] = Line(status)
    BY <2>1
  <2> QED
    BY <1>0, <1>1, <2>1, <2>2, <2>3 DEF LedgerTruthful, Line
<1>2. CASE ~(settled = "failed" \/ (settled # "none" /\ logRequests))
  <2>1. log = <<>> /\ Len(log) = 0 /\ DOMAIN log = {}
    BY <1>2 DEF LogInv
  <2> QED
    BY <1>0, <1>2, <2>1 DEF LedgerTruthful
<1> QED
  BY <1>1, <1>2

(* One line at most, of the first outcome, with the status this hop came to *)
(* and the id that went to the legacy service; none at all only where the   *)
(* client left unseen before the head of its answer, or where lines are     *)
(* switched off and the hop did not fail: settle() and logOutcome().        *)
THEOREM LedgerTruthfulHolds == Spec => []LedgerTruthful
<1>1. Init => LogInv /\ SentInv
  BY DEF Init, LogInv, SentInv
<1>2. Spec => [](LogInv /\ SentInv)
  BY <1>1, SocketInvHolds, LogInvNext, SentInvNext, PTL DEF Spec
<1> QED
  BY <1>2, SocketInvHolds, LedgerFollows, PTL

-----------------------------------------------------------------------------
LEMMA OnErrorKeepsPromise ==
  ASSUME SocketInv, Listening \/ hop = "aborting", OnError
  PROVE  Promise!PromiseNext \/ UNCHANGED Promise!promiseVars
<1> USE DEF SocketInv, TypeOK, HopInv, NoSocketLeftBehind, Listening
<1>1. Settle("failed", StatusOf(timedOut'))
  BY DEF OnError
<1>2. CASE settled = "none"
  <2>1. settled' = "failed"
    BY <1>1, <1>2, SettleSettles
  <2>2. \/ got = "nothing" /\ got' = "gatewayError"
        \/ got # "gatewayError" /\ UNCHANGED got
    BY <1>2 DEF OnError
  <2> QED
    BY <1>2, <2>1, <2>2 DEF Promise!PromiseNext, Promise!Fails
<1>3. CASE settled # "none"
  <2>1. settled' = settled
    BY <1>1, <1>3, SettleSettles
  <2>2. got' = got
    BY <1>3 DEF OnError
  <2> QED
    BY <2>1, <2>2 DEF Promise!promiseVars
<1> QED
  BY <1>2, <1>3

LEMMA SettlingKeepsPromise ==
  ASSUME SocketInv, NEW outcome \in {"completed", "aborted"}, NEW status,
         Settle(outcome, status), UNCHANGED got,
         outcome = "completed" => got = "whole"
  PROVE  Promise!PromiseNext \/ UNCHANGED Promise!promiseVars
<1>1. CASE settled = "none"
  <2>1. settled' = outcome /\ got # "gatewayError"
    BY <1>1, SettleSettles DEF SocketInv, HopInv
  <2> QED
    BY <1>1, <2>1 DEF Promise!PromiseNext, Promise!Aborts, Promise!Completes
<1>2. CASE settled # "none"
  BY <1>2, SettleSettles DEF Promise!promiseVars
<1> QED
  BY <1>1, <1>2

LEMMA ConnectionClosesKeepsPromise ==
  ASSUME SocketInv, NEW who, ConnectionCloses(who)
  PROVE  Promise!PromiseNext \/ UNCHANGED Promise!promiseVars
<1>1. UNCHANGED got
  BY DEF ConnectionCloses
<1>2. CASE \E status : Settle("aborted", status)
  BY <1>1, <1>2, SettlingKeepsPromise
<1>3. CASE res = "ended" /\ headers = "legacy" /\ Settle("completed", "legacy")
  BY <1>1, <1>3, SettlingKeepsPromise DEF SocketInv, HopInv
<1>4. CASE UNCHANGED outcomeVars
  BY <1>1, <1>4 DEF outcomeVars, Promise!promiseVars
<1> QED
  BY <1>2, <1>3, <1>4 DEF ConnectionCloses

(* Every step of the handlers is a step of the promise, or none: one        *)
(* outcome, in agreement with what the client's connection was given.       *)
THEOREM ForwardPromiseImplemented == Spec => ForwardPromiseKept
<1>1. Init => Promise!PromiseInit
  BY DEF Init, Promise!PromiseInit
<1>2. SocketInv /\ [Next]_vars => [Promise!PromiseNext]_(Promise!promiseVars)
  <2> SUFFICES ASSUME SocketInv, [Next]_vars
               PROVE  Promise!PromiseNext \/ UNCHANGED Promise!promiseVars
    OBVIOUS
  <2> USE DEF SocketInv, TypeOK, HopInv, NoSocketLeftBehind
  <2>1. ASSUME UNCHANGED <<got, settled>>
        PROVE  UNCHANGED Promise!promiseVars
    BY <2>1 DEF Promise!promiseVars
  <2>2. CASE PassOn \/ Forward \/ UploadEnds \/ AnswerCutShort
    BY <2>2, <2>1 DEF PassOn, Forward, UploadEnds, AnswerCutShort, answerVars, outcomeVars
  <2>3. CASE OnResponse \/ AnswerEnds
    <3>1. settled = "none" /\ settled' = settled
      BY <2>3 DEF OnResponse, AnswerEnds, outcomeVars
    <3>2. got' = got \/ (got = "nothing" /\ got' = "part") \/ (got = "part" /\ got' = "whole")
      BY <2>3 DEF OnResponse, AnswerEnds
    <3> QED
      BY <3>1, <3>2, <2>1 DEF Promise!PromiseNext, Promise!Answers
  <2>4. CASE ClientHangsUp \/ ServerTimesOut
    <3>1. CASE \E who : ConnectionCloses(who)
      BY <3>1, ConnectionClosesKeepsPromise
    <3>2. CASE \E who \in {"hungUp", "cutOff"} : ConnectionClosesLate(who)
      BY <2>1, <3>2, ConnectionClosesLateChanges DEF answerVars, outcomeVars
    <3> QED
      BY <2>4, <3>1, <3>2 DEF ClientHangsUp, ServerTimesOut
  <2>5. CASE Flushed
    <3>1. CASE headers = "legacy"
      <4>1. Settle("completed", "legacy") /\ UNCHANGED got /\ got = "whole"
        BY <2>5, <3>1 DEF Flushed
      <4> QED
        BY <4>1, SettlingKeepsPromise
    <3>2. CASE headers # "legacy"
      BY <2>5, <3>2, <2>1 DEF Flushed, outcomeVars
    <3> QED
      BY <3>1, <3>2
  <2>6. CASE HopFails \/ TimesOut \/ DestroyedErrors
    BY <2>6, OnErrorKeepsPromise DEF HopFails, TimesOut, DestroyedErrors
  <2>7. CASE UNCHANGED vars
    BY <2>7, <2>1 DEF vars, answerVars, outcomeVars
  <2> QED
    BY <2>2, <2>3, <2>4, <2>5, <2>6, <2>7 DEF Next
<1> QED
  BY <1>1, <1>2, SocketInvHolds, PTL DEF Spec, ForwardPromiseKept, Promise!PromiseSpec

-----------------------------------------------------------------------------
(* Which paths take the hop.                                                *)

LEMMA PartOfSequence ==
  ASSUME NEW S, NEW s \in Seq(S), NEW n \in 1..Len(s)
  PROVE  /\ SubSeq(s, 1, n) \in Seq(S) \ {<<>>}
         /\ Len(SubSeq(s, 1, n)) = n
         /\ \A i \in 1..n : SubSeq(s, 1, n)[i] = s[i]
<1>1. /\ Len(s) \in Nat /\ n \in Nat /\ n >= 1 /\ n <= Len(s) /\ 1 \in Int /\ n \in Int
      /\ \A i \in 1..n : s[i] \in S
  BY ElementOfSeq, LenProperties
<1>2. /\ SubSeq(s, 1, n) \in Seq(S)
      /\ Len(SubSeq(s, 1, n)) = IF 1 <= n THEN n - 1 + 1 ELSE 0
      /\ \A i \in 1..(n - 1 + 1) : SubSeq(s, 1, n)[i] = s[1 + i - 1]
  BY <1>1, SubSeqProperties
<1> DEFINE part == SubSeq(s, 1, n)
<1> HIDE DEF part
<1>3. Len(part) = n /\ n # 0
  BY <1>1, <1>2 DEF part
<1>4. part # <<>>
  <2>1. Len(<<>>) = 0
    OBVIOUS
  <2> QED
    BY <1>3, <2>1
<1>5. ASSUME NEW i \in 1..n PROVE part[i] = s[i]
  <2>1. i \in 1..(n - 1 + 1) /\ 1 + i - 1 = i
    BY <1>1
  <2>2. SubSeq(s, 1, n)[i] = s[1 + i - 1]
    BY <1>2, <2>1
  <2> QED
    BY <2>1, <2>2 DEF part
<1> QED
  BY <1>2, <1>3, <1>4, <1>5 DEF part

(* A sequence is its front with its last element put back.                  *)
LEMMA FrontAndLast ==
  ASSUME NEW S, NEW s \in Seq(S), Len(s) > 1
  PROVE  s = Append(SubSeq(s, 1, Len(s) - 1), s[Len(s)])
<1> DEFINE front == SubSeq(s, 1, Len(s) - 1)
           e == s[Len(s)]
<1>1. Len(s) \in Nat /\ Len(s) - 1 \in 1..Len(s) /\ Len(s) \in 1..Len(s)
  BY LenProperties
<1>2. e \in S
  BY <1>1, ElementOfSeq
<1>3. /\ front \in Seq(S) /\ Len(front) = Len(s) - 1
      /\ \A i \in 1..(Len(s) - 1) : front[i] = s[i]
  BY <1>1, PartOfSequence
<1> DEFINE back == Append(front, e)
<1> HIDE DEF front
<1>4. /\ back \in Seq(S) /\ Len(back) = Len(front) + 1
      /\ \A i \in 1..Len(front) : back[i] = front[i]
      /\ back[Len(front) + 1] = e
  BY <1>2, <1>3, AppendProperties
<1> HIDE DEF back
<1>5. ASSUME NEW i \in 1..Len(s) PROVE s[i] = back[i]
  <2>1. CASE i = Len(s)
    BY <2>1, <1>1, <1>3, <1>4
  <2>2. CASE i \in 1..(Len(s) - 1)
    BY <2>2, <1>3, <1>4
  <2> QED
    BY <2>1, <2>2, <1>1
<1>6. Len(s) = Len(back)
  BY <1>1, <1>3, <1>4
<1> QED
  BY <1>4, <1>5, <1>6, SeqEqual DEF back, front

LEMMA FrontOfAppend ==
  ASSUME NEW S, NEW s \in Seq(S), NEW e \in S
  PROVE  SubSeq(Append(s, e), 1, Len(s)) = s
<1> DEFINE back == Append(s, e)
<1>1. /\ back \in Seq(S) /\ Len(back) = Len(s) + 1
      /\ \A i \in 1..Len(s) : back[i] = s[i]
      /\ Len(s) \in Nat
  BY AppendProperties, LenProperties
<1> HIDE DEF back
<1>2. CASE Len(s) = 0
  <2>1. s = <<>>
    BY <1>2, EmptySeq
  <2>2. SubSeq(back, 1, 0) = <<>>
    BY SubSeqEmpty
  <2> QED
    BY <1>2, <2>1, <2>2 DEF back
<1>3. CASE Len(s) > 0
  <2>1. Len(s) \in 1..Len(back)
    BY <1>1, <1>3
  <2>2. /\ SubSeq(back, 1, Len(s)) \in Seq(S)
        /\ Len(SubSeq(back, 1, Len(s))) = Len(s)
        /\ \A i \in 1..Len(s) : SubSeq(back, 1, Len(s))[i] = back[i]
    BY <1>1, <2>1, PartOfSequence
  <2> DEFINE part == SubSeq(back, 1, Len(s))
  <2> HIDE DEF part
  <2>3. part \in Seq(S) /\ Len(part) = Len(s) /\ \A i \in 1..Len(part) : part[i] = s[i]
    BY <1>1, <2>2 DEF part
  <2> QED
    BY <2>3, SeqEqual DEF part, back
<1> QED
  BY <1>1, <1>2, <1>3

(* normalize() takes nothing but a slash from the end of a path.            *)
LEMMA NormalizeDropsSlash ==
  ASSUME NEW path \in Seq(STRING) \ {<<>>}
  PROVE  \/ /\ Normalize(path) = path
            /\ Len(path) = 1 \/ path[Len(path)] # ""
         \/ /\ Len(path) > 1 /\ path[Len(path)] = ""
            /\ Normalize(path) = SubSeq(path, 1, Len(path) - 1)
<1>1. Len(path) = 1 \/ Len(path) > 1
  <2>1. Len(path) \in Nat \ {0}
    BY EmptySeq
  <2> QED
    BY <2>1
<1> QED
  BY <1>1, Zenon DEF Normalize, Last, Front

(* What normalize() leaves of a path ends where the path may be cut.        *)
LEMMA NormalizedIsCut ==
  ASSUME NEW path \in Seq(STRING) \ {<<>>}
  PROVE  \E last \in 1..Len(path) :
            /\ Normalize(path) = SubSeq(path, 1, last)
            /\ Cuts(path) = 1..last
<1>1. Len(path) \in Nat /\ Len(path) >= 1
  <2>1. Len(path) \in Nat \ {0}
    BY EmptySeq
  <2> QED
    BY <2>1
<1>2. CASE Normalize(path) = path /\ (Len(path) = 1 \/ path[Len(path)] # "")
  <2>1. ASSUME NEW n \in 1..Len(path)
        PROVE  n = 1 \/ n < Len(path) \/ path[n] # ""
    <3>1. n = Len(path) \/ n < Len(path)
      BY <1>1
    <3> QED
      BY <1>2, <3>1, Zenon
  <2>2. Cuts(path) = 1..Len(path)
    BY <2>1, Zenon DEF Cuts
  <2>3. SubSeq(path, 1, Len(path)) = path /\ Len(path) \in 1..Len(path)
    BY <1>1, SubSeqFull
  <2> QED
    BY <1>2, <2>2, <2>3, Zenon
<1>3. CASE /\ Len(path) > 1 /\ path[Len(path)] = ""
           /\ Normalize(path) = SubSeq(path, 1, Len(path) - 1)
  <2>0. Len(path) > 1
    BY <1>3, Zenon
  <2>1. Len(path) - 1 \in 1..Len(path)
    BY <1>1, <2>0
  <2>2. ASSUME NEW n \in 1..Len(path)
        PROVE  n \in 1..(Len(path) - 1) <=> n = 1 \/ n < Len(path) \/ path[n] # ""
    <3>1. n \in 1..(Len(path) - 1) <=> n < Len(path)
      BY <1>1
    <3>2. n = Len(path) \/ n < Len(path)
      BY <1>1
    <3>3. n = Len(path) => n # 1 /\ ~(n < Len(path))
      BY <1>1, <2>0
    <3>4. n = Len(path) => ~(path[n] # "")
      BY <1>3, Zenon
    <3> QED
      BY <3>1, <3>2, <3>3, <3>4, Zenon
  <2>3. 1..(Len(path) - 1) \subseteq 1..Len(path)
    BY <1>1
  <2>4. Cuts(path) = 1..(Len(path) - 1)
    BY <2>2, <2>3, Zenon DEF Cuts
  <2> QED
    BY <1>3, <2>1, <2>4, Zenon
<1> QED
  BY <1>2, <1>3, NormalizeDropsSlash, Zenon

LEMMA PrefixOfCut ==
  ASSUME NEW S, NEW short \in Seq(S) \ {<<>>}, NEW path \in Seq(S), NEW last \in 1..Len(path)
  PROVE  IsPrefix(short, SubSeq(path, 1, last))
           <=> Len(short) <= last /\ short = SubSeq(path, 1, Len(short))
<1> DEFINE cut == SubSeq(path, 1, last)
           len == Len(short)
<1>1. /\ len \in Nat \ {0} /\ Len(path) \in Nat
      /\ SubSeq(short, 1, len) = short
      /\ Len(cut) = last
  BY EmptySeq, LenProperties, SubSeqFull, PartOfSequence
<1>2. ASSUME len <= last
      PROVE  SubSeq(cut, 1, len) = SubSeq(path, 1, len)
  <2> HIDE DEF len
  <2>1. /\ 1 \in 1..Len(path) /\ last \in 1..Len(path)
        /\ 1 \in 1..(last - 1 + 1) /\ len \in 1..(last - 1 + 1)
        /\ 1 + 1 - 1 = 1 /\ 1 + len - 1 = len
    BY <1>1, <1>2
  <2>2. SubSeq(cut, 1, len) = SubSeq(path, 1 + 1 - 1, 1 + len - 1)
    BY <2>1, SubSeqOfSubSeq
  <2> QED
    BY <2>1, <2>2
<1>3. IsPrefix(short, cut) <=> len <= last /\ SubSeq(short, 1, len) = SubSeq(cut, 1, len)
  <2> HIDE DEF cut
  <2> QED
    BY <1>1 DEF IsPrefix
<1> QED
  BY <1>1, <1>2, <1>3

(* A path matches when some part of it is a prefix, slash or no slash.      *)
LEMMA MatchesUnderPrefix ==
  ASSUME request.path \in Paths
  PROVE  MatchesLegacyPrefix(request.path) <=> ~UnderNoPrefix
<1> DEFINE path == request.path
           Part(n) == SubSeq(path, 1, n)
<1>1. path \in Seq(STRING) \ {<<>>}
  BY PathAssumption
<1>2. PICK last \in 1..Len(path) : Normalize(path) = Part(last) /\ Cuts(path) = 1..last
  BY <1>1, NormalizedIsCut
<1>3. last \in Nat /\ last <= Len(path) /\ Len(path) \in Nat
  BY <1>1, LenProperties
<1>4. ASSUME NEW n \in 1..last
      PROVE  n \in 1..Len(path) /\ Part(n) \in Seq(STRING) \ {<<>>} /\ Len(Part(n)) = n
  <2>1. n \in 1..Len(path)
    BY <1>3
  <2> QED
    BY <1>1, <2>1, PartOfSequence
<1>5. ASSUME NEW prefix \in ForwardPrefixes, IsPrefix(Normalize(prefix), Normalize(path))
      PROVE  ~UnderNoPrefix
  <2>1. prefix \in Seq(STRING) \ {<<>>}
    BY PathAssumption
  <2>2. PICK n \in 1..Len(prefix) : Normalize(prefix) = SubSeq(prefix, 1, n)
    BY <2>1, NormalizedIsCut
  <2>3. Normalize(prefix) \in Seq(STRING) \ {<<>>} /\ Len(Normalize(prefix)) = n
    BY <2>1, <2>2, PartOfSequence
  <2>4. n <= last /\ Normalize(prefix) = Part(n)
    <3>1. Len(Normalize(prefix)) <= last
          /\ Normalize(prefix) = SubSeq(path, 1, Len(Normalize(prefix)))
      BY <1>1, <1>2, <1>5, <2>3, PrefixOfCut
    <3> QED
      BY <2>3, <3>1, Zenon
  <2>5. n \in Cuts(path)
    <3>1. n \in 1..last
      BY <1>3, <2>1, <2>4, LenProperties
    <3> QED
      BY <1>2, <3>1
  <2>6. prefix = Part(n) \/ prefix = Append(Part(n), "")
    <3>1. CASE Normalize(prefix) = prefix
      BY <2>4, <3>1, Zenon
    <3>2. CASE /\ Len(prefix) > 1 /\ prefix[Len(prefix)] = ""
               /\ Normalize(prefix) = SubSeq(prefix, 1, Len(prefix) - 1)
      <4>1. prefix = Append(SubSeq(prefix, 1, Len(prefix) - 1), prefix[Len(prefix)])
        BY <2>1, <3>2, FrontAndLast
      <4> QED
        BY <2>4, <3>2, <4>1, Zenon
    <3> QED
      BY <2>1, <3>1, <3>2, NormalizeDropsSlash, Zenon
  <2> HIDE DEF path
  <2>7. Part(n) \in ForwardPrefixes \/ Append(Part(n), "") \in ForwardPrefixes
    BY <2>6, Zenon
  <2> QED
    BY <2>5, <2>7, Zenon DEF UnderNoPrefix, path
<1>6. ASSUME NEW n \in 1..last, Part(n) \in ForwardPrefixes
      PROVE  MatchesLegacyPrefix(path)
  <2>1. PICK m \in 1..Len(Part(n)) : Normalize(Part(n)) = SubSeq(Part(n), 1, m)
    BY <1>4, NormalizedIsCut
  <2>2. m \in 1..n /\ m \in 1..last /\ Len(Part(n)) = n
    BY <1>3, <1>4
  <2>3. SubSeq(Part(n), 1, m) = Part(m)
    <3>1. /\ 1 \in 1..Len(path) /\ n \in 1..Len(path)
          /\ 1 \in 1..(n - 1 + 1) /\ m \in 1..(n - 1 + 1)
          /\ 1 + 1 - 1 = 1 /\ 1 + m - 1 = m
      BY <1>3, <1>4, <2>2
    <3>2. SubSeq(SubSeq(path, 1, n), 1, m) = SubSeq(path, 1 + 1 - 1, 1 + m - 1)
      BY <1>1, <3>1, SubSeqOfSubSeq
    <3> QED
      BY <3>1, <3>2
  <2>4. Part(m) \in Seq(STRING) \ {<<>>} /\ Len(Part(m)) = m /\ m <= last
    BY <1>3, <1>4, <2>2
  <2>5. IsPrefix(Part(m), Normalize(path))
    <3> DEFINE short == Part(m)
    <3>1. short = SubSeq(path, 1, Len(short)) /\ Len(short) <= last
          /\ short \in Seq(STRING) \ {<<>>} /\ path \in Seq(STRING)
      BY <1>1, <2>4, Zenon
    <3> HIDE DEF short
    <3>2. IsPrefix(short, SubSeq(path, 1, last))
      BY <3>1, PrefixOfCut
    <3> QED
      BY <1>2, <3>2, Zenon DEF short
  <2>6. IsPrefix(Normalize(Part(n)), Normalize(path))
    BY <2>1, <2>3, <2>5, Zenon
  <2> QED
    BY <1>6, <2>6, Zenon DEF MatchesLegacyPrefix
<1>7. ASSUME NEW n \in 1..last, Append(Part(n), "") \in ForwardPrefixes
      PROVE  MatchesLegacyPrefix(path)
  <2> DEFINE part == Part(n)
             prefix == Append(part, "")
  <2>1. part \in Seq(STRING) \ {<<>>} /\ part = SubSeq(path, 1, Len(part))
    BY <1>4, Zenon
  <2>2. Len(part) \in Nat \ {0} /\ Len(part) <= last
    <3>1. Len(part) = n
      BY <1>4, Zenon
    <3> HIDE DEF part
    <3> QED
      BY <1>3, <3>1
  <2> HIDE DEF part
  <2>3. part \in Seq(STRING \cup {""}) /\ "" \in STRING \cup {""}
    BY <2>1, SeqMonotonic
  <2>4. Len(prefix) = Len(part) + 1 /\ prefix[Len(part) + 1] = ""
    BY <2>3, AppendProperties
  <2>5. SubSeq(prefix, 1, Len(part)) = part
    BY <2>3, FrontOfAppend
  <2> HIDE DEF prefix
  <2>6. Len(prefix) = Len(part) + 1
    BY <2>4, Zenon
  <2>7. Len(prefix) # 1 /\ Len(prefix) - 1 = Len(part)
    BY <2>2, <2>6
  <2>8. prefix \in ForwardPrefixes /\ prefix \in Seq(STRING) \ {<<>>}
    BY <1>7, PathAssumption, Zenon DEF prefix, part
  <2>9. Normalize(prefix) = part
    <3>1. prefix[Len(prefix)] = ""
      BY <2>4, <2>6, Zenon
    <3>2. Normalize(prefix) = SubSeq(prefix, 1, Len(prefix) - 1)
      BY <2>7, <2>8, <3>1, NormalizeDropsSlash, Zenon
    <3> QED
      BY <2>5, <2>7, <3>2, Zenon
  <2>10. IsPrefix(part, Normalize(path))
    <3>1. path \in Seq(STRING)
      BY <1>1, Zenon
    <3>2. IsPrefix(part, SubSeq(path, 1, last))
      BY <2>1, <2>2, <3>1, PrefixOfCut
    <3> QED
      BY <1>2, <3>2, Zenon
  <2> QED
    BY <2>8, <2>9, <2>10, Zenon DEF MatchesLegacyPrefix
<1> HIDE DEF path
<1>8. ASSUME ~UnderNoPrefix PROVE MatchesLegacyPrefix(path)
  <2>1. PICK n \in Cuts(path) : Part(n) \in ForwardPrefixes \/ Append(Part(n), "") \in ForwardPrefixes
    BY <1>8, Zenon DEF UnderNoPrefix, path
  <2> QED
    BY <1>2, <1>6, <1>7, <2>1, Zenon
<1>9. ASSUME MatchesLegacyPrefix(path) PROVE ~UnderNoPrefix
  BY <1>5, <1>9, Zenon DEF MatchesLegacyPrefix
<1> QED
  BY <1>8, <1>9, Zenon DEF path

(* The middleware's decision stands for as long as the request does.        *)
MatchInv ==
    /\ hop = "passedOn" => ~MatchesLegacyPrefix(request.path)
    /\ hop \notin {"none", "passedOn"} => MatchesLegacyPrefix(request.path)

LEMMA MatchInvNext ==
  ASSUME MatchInv, [Next]_vars
  PROVE  MatchInv'
<1>1. UNCHANGED request
  BY DEF Next, vars, PassOn, Forward, UploadEnds, ClientHangsUp, ServerTimesOut,
         ConnectionCloses, ConnectionClosesLate, Flushed, OnResponse, AnswerEnds, AnswerCutShort, HopFails,
         TimesOut, DestroyedErrors, Listening, inputs, options
<1>2. MatchesLegacyPrefix(request.path)' = MatchesLegacyPrefix(request.path)
  BY <1>1 DEF MatchesLegacyPrefix
<1>3. CASE PassOn
  BY <1>2, <1>3 DEF PassOn, MatchInv
<1>4. CASE Forward
  BY <1>2, <1>4 DEF Forward, MatchInv
<1>5. CASE ~PassOn /\ ~Forward
  <2>1. \/ hop \notin {"none", "passedOn"} /\ hop' \notin {"none", "passedOn"}
        \/ UNCHANGED hop
    BY <1>5 DEF Next, vars, UploadEnds, ClientHangsUp, ServerTimesOut, ConnectionCloses, ConnectionClosesLate, Flushed,
                OnResponse, AnswerEnds, AnswerCutShort, HopFails, TimesOut, DestroyedErrors,
                OnError, DestroyOutbound, Listening, inputs, options
  <2> QED
    BY <1>2, <2>1 DEF MatchInv
<1> QED
  BY <1>3, <1>4, <1>5

(* Exactly the paths under a prefix are forwarded, whatever slashes the two *)
(* end in, and what goes out belongs to the next connection.                *)
THEOREM ForwardedFaithfullyHolds == Spec => []ForwardedFaithfully
<1>1. Init => MatchInv /\ SentInv
  BY DEF Init, MatchInv, SentInv
<1>2. Spec => [](MatchInv /\ SentInv)
  BY <1>1, MatchInvNext, SentInvNext, PTL DEF Spec
<1>3. SocketInv /\ MatchInv /\ SentInv => ForwardedFaithfully
  <2> SUFFICES ASSUME SocketInv, MatchInv, SentInv PROVE ForwardedFaithfully
    OBVIOUS
  <2>1. request.path \in Paths /\ request.headers \in Headers /\ preserveHostHeader \in BOOLEAN
    BY DEF SocketInv, TypeOK
  <2>2. ASSUME hop \notin {"none", "passedOn"} PROVE HeadersOfOneHop
    <3>1. sent = BuildForwardHeaders(request.headers)
      BY <2>2 DEF SentInv
    <3> QED
      BY <2>1, <3>1
         DEF BuildForwardHeaders, StripHopByHop, RequestIdFor, Headers, HeadersOfOneHop
  <2> QED
    BY <2>1, <2>2, MatchesUnderPrefix DEF MatchInv, ForwardedFaithfully
<1> QED
  BY <1>2, <1>3, SocketInvHolds, PTL
=============================================================================
