-------------------------- MODULE LegacyForwarder --------------------------
(***************************************************************************)
(* One request through LegacyForwarder: the event handlers of the client's  *)
(* request and response and of the outbound request, in every order in      *)
(* which Node may call them.                                                *)
(*                                                                          *)
(* A path is the sequence of its segments; a trailing slash is an empty     *)
(* last segment.                                                            *)
(***************************************************************************)
EXTENDS Integers, SequencesExt

CONSTANTS
    Paths,           \* paths a client may ask for
    ForwardPrefixes  \* options.forwardPrefixes

(* A path begins with a slash, so it has a segment.                         *)
ASSUME PathAssumption == \A path \in Paths \cup ForwardPrefixes : path \in Seq(STRING) \ {<<>>}

VARIABLES
    preserveHostHeader, logRequests,  \* options, never written
    request,   \* path and headers the client sent
    bodyless,  \* whether the legacy service's answer has an empty body
    upload,    \* the client's request message: "sending", or "whole" when it has
               \* been read to its end and passed on (pipe() buffers nothing here)
    client,    \* "there", "hungUp" or "cutOff" by this service
    headers,   \* who wrote the response's head: "none", "legacy" or "own"
    res,       \* the response: "open", "ended" (not flushed yet), "closed"
    hop,       \* the outbound request: "answered" when the answer has ended and the
               \* client's message has not, "drained" when both have
    sent,      \* headers of the outbound request
    timedOut,
    settled,   \* the outcome settle() was first called with, or "none"
    log,       \* lines of the forwarding log
    got        \* history: what was written while the client was connected

options == <<preserveHostHeader, logRequests>>
inputs == <<options, request, bodyless>>
answerVars == <<headers, res, got>>
outcomeVars == <<settled, log>>
vars == <<inputs, upload, client, answerVars, hop, sent, timedOut, outcomeVars>>

Normalize(path) == IF Len(path) > 1 /\ Last(path) = "" THEN Front(path) ELSE path

\* Mutant of MatchesLegacyPrefix: a trailing slash of the prefix is kept.
MatchesLegacyPrefix_KeepSlash(path) ==
    \E prefix \in ForwardPrefixes : IsPrefix(prefix, Normalize(path))

MatchesLegacyPrefix(path) ==
    \E prefix \in ForwardPrefixes : IsPrefix(Normalize(prefix), Normalize(path))

RequestIdFor(h) == IF h.requestId = "safe" THEN "safe" ELSE "generated"

(* Hop-by-hop headers describe one connection only, whichever the way.      *)
StripHopByHop(h) == [h EXCEPT !.hopByHop = {}]

BuildForwardHeaders(h) ==
    [StripHopByHop(h) EXCEPT !.forwardedFor = Append(@, "client"),
                             !.host = IF preserveHostHeader /\ @ # "none" THEN @ ELSE "target",
                             !.requestId = RequestIdFor(h)]

Headers == [hopByHop : SUBSET {"connection", "te"}, forwardedFor : {<<>>, <<"proxy">>},
            host : {"none", "public"}, requestId : {"none", "safe", "unsafe"}]

NoHeaders == [hopByHop |-> {}, forwardedFor |-> <<>>, host |-> "none", requestId |-> "none"]

Init ==
    /\ preserveHostHeader \in BOOLEAN
    /\ logRequests \in BOOLEAN
    /\ request \in [path : Paths, headers : Headers]
    /\ bodyless \in BOOLEAN
    /\ upload = "sending"
    /\ client = "there"
    /\ headers = "none"
    /\ res = "open"
    /\ hop = "none"
    /\ sent = NoHeaders
    /\ timedOut = FALSE
    /\ settled = "none"
    /\ log = <<>>
    /\ got = "nothing"

LogOutcome(outcome, status) ==
    log' = IF outcome = "failed" \/ logRequests
             THEN Append(log, [outcome |-> outcome, status |-> status,
                               requestId |-> RequestIdFor(request.headers)])
             ELSE log

\* Mutant of Settle: without the settled flag.
Settle_Always(outcome, status) == settled' = outcome /\ LogOutcome(outcome, status)

Settle(outcome, status) ==
    IF settled = "none"
      THEN settled' = outcome /\ LogOutcome(outcome, status)
      ELSE UNCHANGED outcomeVars

-----------------------------------------------------------------------------
(* The middleware and forward(), up to their return.                        *)
PassOn ==
    /\ hop = "none"
    /\ ~MatchesLegacyPrefix(request.path)
    /\ hop' = "passedOn"
    /\ UNCHANGED <<inputs, upload, client, answerVars, sent, timedOut, outcomeVars>>

Forward ==
    /\ hop = "none"
    /\ MatchesLegacyPrefix(request.path)
    /\ hop' = "waiting"
    /\ sent' = BuildForwardHeaders(request.headers)
    /\ UNCHANGED <<inputs, upload, client, answerVars, timedOut, outcomeVars>>

(* The client's request message has been read to its end: pipe() ends the   *)
(* outbound request.                                                        *)
UploadEnds ==
    /\ upload = "sending" /\ client = "there"
    /\ hop \in {"waiting", "answering", "answered"}
    /\ upload' = "whole"
    /\ hop' = IF hop = "answered" THEN "drained" ELSE hop
    /\ UNCHANGED <<inputs, client, answerVars, sent, timedOut, outcomeVars>>

(* 'response' on the outbound request.  On a response that has closed, the  *)
(* head goes nowhere and the close handler comes too late.                  *)
OnResponse ==
    /\ hop = "waiting"
    /\ hop' = "answering"
    /\ headers' = "legacy"
    /\ got' = IF res = "open" THEN "part" ELSE got
    /\ UNCHANGED <<inputs, upload, client, res, sent, timedOut, outcomeVars>>

(* 'end' on the answer: pipe() ends the response.  A closed response takes   *)
(* no data, so an answer with a body stays paused for good.  A legacy        *)
(* service may answer before it has read the request: req.pipe(outbound)    *)
(* then goes on, unless it closes the connection behind its answer.         *)
AnswerEnds ==
    /\ hop = "answering"
    /\ res = "open" \/ bodyless
    /\ IF upload = "whole" THEN hop' = "drained" ELSE hop' \in {"answered", "closed"}
    /\ IF res = "open" THEN res' = "ended" /\ got' = "whole" ELSE UNCHANGED <<res, got>>
    /\ UNCHANGED <<inputs, upload, client, headers, sent, timedOut, outcomeVars>>

(* The legacy service closes in the middle of its answer: the answer is     *)
(* destroyed, nobody listens for its error, and the response stays open.    *)
AnswerCutShort ==
    /\ hop = "answering"
    /\ hop' = "closed"
    /\ UNCHANGED <<inputs, upload, client, answerVars, sent, timedOut, outcomeVars>>

StatusOf(late) == IF late THEN 504 ELSE 502

\* Mutant of OnError: the client is left without an answer.
OnError_KeepOpen ==
    /\ Settle("failed", StatusOf(timedOut'))
    /\ hop' = "closed"
    /\ UNCHANGED <<answerVars, client>>

(* 'error' on the outbound request, in the turn that destroyed it.  A        *)
(* response that is written out has let go of its socket: destroying it     *)
(* cuts nobody off.                                                         *)
OnError ==
    /\ Settle("failed", StatusOf(timedOut'))
    /\ hop' = "closed"
    /\ IF headers = "none"
         THEN /\ headers' = "own"
              /\ IF res = "open" THEN res' = "ended" /\ got' = "gatewayError"
                                 ELSE UNCHANGED <<res, got>>
              /\ UNCHANGED client
         ELSE /\ res' = "closed"
              /\ client' = IF res # "closed" THEN "cutOff" ELSE client
              /\ UNCHANGED <<headers, got>>

(* The outbound request's handlers listen for as long as it is under way,    *)
(* behind the end of its answer as well.                                    *)
Listening == hop \in {"waiting", "answering", "answered"}

(* Refused, unresolved or reset; a close before any answer is one as well.  *)
HopFails ==
    /\ Listening
    /\ UNCHANGED timedOut
    /\ OnError
    /\ UNCHANGED <<inputs, upload, sent>>

\* Mutant of TimesOut: the outbound request is not destroyed.
TimesOut_FlagOnly ==
    /\ Listening
    /\ timedOut' = TRUE
    /\ UNCHANGED <<inputs, upload, client, answerVars, hop, sent, outcomeVars>>

(* 'timeout': the outbound socket was idle for timeoutMs.  Behind the end of *)
(* the answer it may fire as well, and nothing here relies on it.           *)
TimesOut ==
    /\ Listening
    /\ timedOut' = TRUE
    /\ OnError
    /\ UNCHANGED <<inputs, upload, sent>>

(* The error that follows a destroy() without one, if nothing was answered. *)
DestroyedErrors ==
    /\ hop = "aborting"
    /\ UNCHANGED timedOut
    /\ OnError
    /\ UNCHANGED <<inputs, upload, sent>>

DestroyOutbound ==
    hop' = IF hop = "waiting" THEN "aborting"
           ELSE IF hop \in {"answering", "answered"} THEN "closed" ELSE hop

(* The response has been written out: 'finish' and 'close'.                 *)
Flushed ==
    /\ res = "ended" /\ client = "there"
    /\ res' = "closed"
    /\ IF headers = "legacy" THEN Settle("completed", "legacy") ELSE UNCHANGED outcomeVars
    /\ UNCHANGED <<inputs, upload, client, headers, got, hop, sent, timedOut>>

\* Mutant of ConnectionCloses: any close of an answer is a completion.
ConnectionCloses_AllComplete(who) ==
    /\ hop \notin {"none", "passedOn"} /\ res # "closed" /\ client = "there"
    /\ client' = who
    /\ res' = "closed"
    /\ \/ upload = "sending" /\ Settle("aborted", "none") /\ DestroyOutbound
       \/ upload = "whole" /\ headers = "legacy" /\ Settle("completed", "legacy") /\ DestroyOutbound
       \/ upload = "whole" /\ headers # "legacy" /\ UNCHANGED <<outcomeVars, hop>>
    /\ UNCHANGED <<inputs, upload, headers, got, sent, timedOut>>

(* The client's connection closes under a request: 'aborted' if its message *)
(* was not read to the end, then 'close' of the response, if anyone listens *)
(* for it yet.  Whether a response that was ended but not flushed counts as *)
(* finished depends on what the dead socket still holds.                    *)
ConnectionCloses(who) ==
    /\ hop \notin {"none", "passedOn"} /\ res # "closed" /\ client = "there"
    /\ client' = who
    /\ res' = "closed"
    /\ \/ upload = "sending" /\ Settle("aborted", "none") /\ DestroyOutbound
       \/ /\ upload = "whole" /\ headers = "legacy"
          /\ \/ Settle("aborted", "legacy") /\ DestroyOutbound
             \/ res = "ended" /\ Settle("completed", "legacy") /\ UNCHANGED hop
       \/ upload = "whole" /\ headers # "legacy" /\ UNCHANGED <<outcomeVars, hop>>
    /\ UNCHANGED <<inputs, upload, headers, got, sent, timedOut>>

(* The same under a request that was answered in full and is still being    *)
(* sent.  Nothing is left to log; whether Node still emits 'aborted' on it   *)
(* is not for this program to say, so that either may happen.               *)
ConnectionClosesLate(who) ==
    /\ hop = "answered" /\ res = "closed" /\ client = "there"
    /\ client' = who
    /\ \/ Settle("aborted", "none") /\ DestroyOutbound
       \/ UNCHANGED <<outcomeVars, hop>>
    /\ UNCHANGED <<inputs, upload, answerVars, sent, timedOut>>

ClientHangsUp == ConnectionCloses("hungUp") \/ ConnectionClosesLate("hungUp")

(* server.setTimeout: the client's connection was idle for serverTimeout.   *)
ServerTimesOut == ConnectionCloses("cutOff") \/ ConnectionClosesLate("cutOff")

Next ==
    \/ PassOn \/ Forward
    \/ UploadEnds \/ ClientHangsUp \/ ServerTimesOut \/ Flushed
    \/ OnResponse \/ AnswerEnds \/ AnswerCutShort
    \/ HopFails \/ TimesOut \/ DestroyedErrors

Spec == Init /\ [][Next]_vars

(* No byte can move on the outbound socket.                                 *)
Idle ==
    \/ hop = "waiting" /\ upload = "whole"
    \/ hop = "answering" /\ res = "closed" /\ ~bodyless

(* Timers fire; an empty answer ends by itself.  Nothing is assumed of the  *)
(* client or of the legacy service.                                         *)
FairSpec ==
    /\ Spec
    /\ WF_vars(Idle /\ TimesOut)
    /\ WF_vars(bodyless /\ AnswerEnds)
    /\ WF_vars(DestroyedErrors)

-----------------------------------------------------------------------------
TypeOK ==
    /\ preserveHostHeader \in BOOLEAN /\ logRequests \in BOOLEAN /\ bodyless \in BOOLEAN
    /\ request \in [path : Paths, headers : Headers]
    /\ upload \in {"sending", "whole"}
    /\ client \in {"there", "hungUp", "cutOff"}
    /\ headers \in {"none", "legacy", "own"}
    /\ res \in {"open", "ended", "closed"}
    /\ hop \in {"none", "passedOn", "waiting", "answering", "answered", "drained", "aborting",
               "closed"}
    /\ timedOut \in BOOLEAN
    /\ settled \in {"none", "completed", "aborted", "failed"}
    /\ got \in {"nothing", "part", "whole", "gatewayError"}

(* The single outcome agrees with what the client was handed, and nothing   *)
(* is handed over after it.                                                 *)
Promise == INSTANCE ForwardPromise WITH outcome <- settled
ForwardPromiseKept == Promise!PromiseSpec

(* Nothing is left of the request on either side.                           *)
Over == hop \in {"drained", "closed"} /\ res = "closed"

(* The ledger: at most one line, of the first outcome, failures even when   *)
(* lines are switched off.  The line carries the id that went to the legacy *)
(* service; a completion its status; a failure 504 if the outbound request  *)
(* had timed out and 502 if not, whether or not a client was still there to *)
(* be sent it.  A request is over without an outcome, hence without a line, *)
(* only if its client left before the head of the answer was written.       *)
LedgerTruthful ==
    /\ Len(log) = IF settled = "failed" \/ (settled # "none" /\ logRequests) THEN 1 ELSE 0
    /\ \A i \in DOMAIN log :
         /\ log[i].outcome = settled
         /\ log[i].requestId = sent.requestId
         /\ settled = "failed" => log[i].status = StatusOf(timedOut)
         /\ settled = "completed" => log[i].status = "legacy"
    /\ Over /\ settled = "none" => client # "there" /\ got = "nothing"

(* Once the request is settled the client is not left without an end, and   *)
(* the outbound socket is not left open for a body nobody reads: it is open *)
(* only where the answer went to the client whole, ahead of the client's    *)
(* own message.                                                             *)
NoSocketLeftBehind ==
    settled # "none" =>
        /\ res # "open"
        /\ hop \notin {"waiting", "answering"}
        /\ hop = "answered" => settled = "completed" /\ got = "whole" /\ upload = "sending"

(* The hop adds itself to what it was given and repeats nothing that        *)
(* belongs to one connection, nor an id that is not safe to print.          *)
HeadersOfOneHop ==
    /\ sent.hopByHop = {}
    /\ sent.forwardedFor = Append(request.headers.forwardedFor, "client")
    /\ sent.requestId \in {"safe", "generated"}
    /\ sent.host = "public" => preserveHostHeader

(* The places where a path may be cut: after a segment, of which a slash at *)
(* the end of a longer path is none.                                        *)
Cuts(path) == {n \in 1..Len(path) : n = 1 \/ n < Len(path) \/ path[n] # ""}

(* No part of the path, cut at a segment, is a prefix, slash or no slash.   *)
UnderNoPrefix ==
    \A n \in Cuts(request.path) :
        LET part == SubSeq(request.path, 1, n)
        IN  part \notin ForwardPrefixes /\ Append(part, "") \notin ForwardPrefixes

(* Exactly the paths under a configured prefix take the hop, and what it    *)
(* sends is fit for the next connection.                                    *)
ForwardedFaithfully ==
    /\ hop = "passedOn" => UnderNoPrefix
    /\ hop \notin {"none", "passedOn"} => HeadersOfOneHop /\ ~UnderNoPrefix

(* A client that leaves an unanswered request does not keep the outbound    *)
(* socket for ever, even when no handler saw it go.                         *)
OutboundReleased ==
    client # "there" /\ hop \in {"waiting", "answering", "aborting"} ~> hop \in {"drained", "closed"}

(* "A client that hung up first has already settled as aborted: that is not *)
(* a legacy-service failure": nothing is logged as failed behind a client    *)
(* that left before it was given an answer.                                 *)
FailedIsThisHop == settled = "failed" => client # "hungUp" \/ got = "gatewayError"
=============================================================================
