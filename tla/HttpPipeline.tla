---------------------------- MODULE HttpPipeline ----------------------------
(***************************************************************************)
(* One request through the interface layer, in the order of main.ts and of  *)
(* interface.module.ts: body parser, request id, the three guards, the      *)
(* interceptors, the handler, the formatter; whatever throws on the way     *)
(* goes to the exception filter.  The readiness probe is one of the         *)
(* handlers and meets a process that may begin to shut down.                *)
(***************************************************************************)
EXTENDS HttpErrors, FiniteSets

CONSTANTS
    Routes,   \* [public, roles, deprecated, parts, async, raw, handler]; deprecated
              \* holds the options of a @Deprecated, at most one
    Graphs,   \* [root, cause, stack] of errors a handler may throw
    Sources   \* database sources with a client

NoDate == -1

(* A @Deprecated lists its options once; "none" is no user, hence no role.  *)
ASSUME RoutesDeclared ==
    \A route \in Routes :
        /\ "none" \notin route.roles
        /\ \A one, other \in route.deprecated : one = other
        /\ \A options \in route.deprecated : {options.since, options.sunset} \subseteq Int

(* An error's cause is an error of its graph or nothing to go on with.      *)
ASSUME GraphsClosed ==
    \A graph \in Graphs :
        /\ graph.root \in DOMAIN graph.stack /\ Nothing \notin DOMAIN graph.stack
        /\ \A error \in DOMAIN graph.stack :
              graph.cause[error] \in DOMAIN graph.stack \cup {Nothing}

(* Dates count days.  A link or successor is absent, a URL or no URL.       *)
ParsesDeprecatedOptions(options) ==
    /\ options.since # NoDate /\ options.sunset # NoDate
    /\ "noUrl" \notin {options.successor, options.link}
    /\ options.since <= options.sunset

(* The decorator of a bad one throws when its module is loaded.             *)
ASSUME RoutesLoad == \A route \in Routes : \A options \in route.deprecated :
                        ParsesDeprecatedOptions(options)

LinkTo(url, rel) == IF url = "none" THEN <<>> ELSE <<[rel |-> rel, url |-> url]>>

(* The seconds of RFC 9745, the date, and the rels of one Link header.      *)
FormatDeprecationHeaders(options) ==
    [deprecation |-> options.since * 86400, sunset |-> options.sunset,
     link |-> LinkTo(options.successor, "successor-version") \o LinkTo(options.link, "deprecation")]

VARIABLES
    csrfEnabled, production,  \* configuration, never written
    request,       \* what the client sent
    route,         \* the route that matches
    shuttingDown,  \* ShutdownState's flag
    overtaken,     \* history: the flag was set behind the back of a handler that had read it
    stage,         \* who has the request
    id,            \* req.id
    user,          \* req.user's role, or "none"
    notice,        \* deprecation headers set on the response, at most once
    validated,     \* parts stored in req.validated
    pending,       \* parts still being validated
    probe,         \* per source, the ping of a readiness probe
    outcome,       \* history: what the handler came to: a "value", a "failure", a failure
                   \* shown "asWritten", or an error "envelope" it returned
    answer,        \* what the client gets
    lines          \* the filter's log line and the access log's

inputs == <<csrfEnabled, production, request, route>>
shutdown == <<shuttingDown, overtaken>>
vars == <<inputs, shutdown, stage, id, user, notice, validated, pending, probe, outcome, answer, lines>>

(* A cookie or bearer token: absent, one the strategy refuses, or the role  *)
(* it carries.  From its headers a request's site is the API's own, a       *)
(* trusted origin, or anything else.                                        *)
Requests == [write : BOOLEAN, cookie : {"none", "invalid", "user", "admin"},
             bearer : {"none", "invalid", "user"}, site : {"same", "trusted", "foreign"},
             id : {"none", "safe", "unsafe"}, skipFormat : BOOLEAN]

NoAnswer == [status |-> 0, shape |-> "none", text |-> "none", details |-> "none", id |-> "none"]
NoOrigin == [origin |-> NoFrame, causeOrigin |-> NoFrame]
NoLines == [filter |-> "none", id |-> "none", from |-> NoOrigin, graph |-> <<>>, access |-> "none"]

Init ==
    /\ csrfEnabled \in BOOLEAN /\ production \in BOOLEAN
    /\ request \in Requests
    /\ route \in Routes
    /\ shuttingDown = FALSE /\ overtaken = FALSE
    /\ stage = "parsing"
    /\ id = "none"
    /\ user = "none"
    /\ notice = {}
    /\ validated = {} /\ pending = {}
    /\ probe = [s \in Sources |-> "idle"]
    /\ outcome = "none"
    /\ answer = NoAnswer
    /\ lines = NoLines

-----------------------------------------------------------------------------
IsHealthCheck == route.handler \in {"live", "ready"}

(* customLogLevel of the access log, which exists once pino-http has run.   *)
AccessLevel(status) ==
    IF id = "none" THEN "none"
    ELSE IF status >= 500 THEN "error"
    ELSE IF status >= 400 THEN "warn"
    ELSE IF IsHealthCheck THEN "silent" ELSE "info"

(* The id the filter works with: the middleware's, or the raw header.       *)
FilterId == IF id # "none" THEN id ELSE request.id

(* GlobalExceptionFilter.catch.  What no handler threw has a graph of one.  *)
Catch(error, graph) ==
    LET a == CatchAnswer(error)
    IN  /\ stage' = "answered"
        /\ answer' = [status |-> a.status, shape |-> "error", text |-> a.text,
                      details |-> a.details, id |-> FilterId]
        /\ lines' = [filter |-> LogLevel(a.status), id |-> FilterId, graph |-> graph,
                     from |-> IF graph = <<>> THEN NoOrigin
                              ELSE ResolveErrorOrigin(graph[1], graph[1].root),
                     access |-> AccessLevel(a.status)]

Send(shape, text) ==
    /\ stage' = "answered"
    /\ answer' = [status |-> 200, shape |-> shape, text |-> text, details |-> "none",
                  id |-> IF shape = "raw" THEN "none" ELSE id]
    /\ lines' = [lines EXCEPT !.access = AccessLevel(200)]

Moves(from, to) == stage = from /\ stage' = to /\ UNCHANGED <<answer, lines>>

(* Before Nest's middleware: no id yet, and errors straight from express.   *)
ParseBody ==
    /\ stage = "parsing"
    /\ \/ Moves("parsing", "identifying")
       \/ \E status \in {400, 413} : Catch(HttpError(status, TRUE), <<>>)
    /\ UNCHANGED <<inputs, shutdown, id, user, notice, validated, pending, probe, outcome>>

RequestIdFor(inbound) == IF inbound = "safe" THEN inbound ELSE "generated"

(* genReqId and RequestIdMiddleware: the second finds what the first left.  *)
AssignRequestId ==
    /\ Moves("identifying", "csrf")
    /\ id' = RequestIdFor(request.id)
    /\ UNCHANGED <<inputs, shutdown, user, notice, validated, pending, probe, outcome>>

CsrfPasses ==
    \/ ~csrfEnabled
    \/ ~request.write
    \/ request.cookie = "none"
    \/ request.bearer # "none"
    \/ request.site \in {"same", "trusted"}

CsrfGuard ==
    /\ stage = "csrf"
    /\ IF CsrfPasses THEN Moves("csrf", "jwt") ELSE Catch(CsrfRejectedError, <<>>)
    /\ UNCHANGED <<inputs, shutdown, id, user, notice, validated, pending, probe, outcome>>

(* The strategy looks at the cookie first.                                  *)
Credential == IF request.cookie # "none" THEN request.cookie ELSE request.bearer
IsValidToken == Credential \in {"user", "admin"}

JwtGuard ==
    /\ stage = "jwt"
    /\ \/ route.public /\ Moves("jwt", "roles") /\ UNCHANGED user
       \/ ~route.public /\ IsValidToken /\ Moves("jwt", "roles") /\ user' = Credential
       \/ ~route.public /\ ~IsValidToken /\ Catch(HttpException(401, "record"), <<>>) /\ UNCHANGED user
    /\ UNCHANGED <<inputs, shutdown, id, notice, validated, pending, probe, outcome>>

RolesGuard ==
    /\ stage = "roles"
    /\ IF route.roles = {} \/ user \in route.roles
         THEN Moves("roles", "deprecating")
         ELSE Catch(IF user = "none" THEN UnauthorizedError ELSE ForbiddenError, <<>>)
    /\ UNCHANGED <<inputs, shutdown, id, user, notice, validated, pending, probe, outcome>>

(* DeprecationInterceptor, the first interceptor.                           *)
Deprecate ==
    /\ Moves("deprecating", "validating")
    /\ notice' = {FormatDeprecationHeaders(options) : options \in route.deprecated}
    /\ UNCHANGED <<inputs, shutdown, id, user, validated, pending, probe, outcome>>

(* What a part that is not valid rejects with: zod's report, or what the    *)
(* schema's own code throws, such as zod's complaint about a refinement     *)
(* that is async in a schema that does not say so.                          *)
ValidationFailures == {HttpException(400, "details"), Thrown}

(* The promises of all parts are made in one turn; without `async` they     *)
(* have all run when it ends.                                               *)
Validate ==
    /\ stage = "validating" /\ pending = {} /\ validated = {}
    /\ IF route.async
         THEN pending' = route.parts /\ UNCHANGED <<stage, answer, lines, validated>>
         ELSE \E bad \in SUBSET route.parts :
                /\ validated' = route.parts \ bad
                /\ IF bad = {} THEN Moves("validating", "handling")
                               ELSE \E error \in ValidationFailures : Catch(error, <<>>)
                /\ UNCHANGED pending
    /\ UNCHANGED <<inputs, shutdown, id, user, notice, probe, outcome>>

\* Mutant of PartSettles: the first part that is valid starts the handler.
PartSettles_Race(part) ==
    /\ part \in pending
    /\ pending' = pending \ {part}
    /\ validated' = validated \cup {part}
    /\ IF stage = "validating" THEN Moves("validating", "handling")
                               ELSE UNCHANGED <<stage, answer, lines>>
    /\ UNCHANGED <<inputs, shutdown, id, user, notice, probe, outcome>>

\* Mutant of PartSettles: the last part to settle starts the handler.
PartSettles_LateHandler(part) ==
    /\ part \in pending
    /\ pending' = pending \ {part}
    /\ \/ /\ validated' = validated \cup {part}
          /\ IF pending' = {}
               THEN stage' = "handling" /\ UNCHANGED <<answer, lines>>
               ELSE UNCHANGED <<stage, answer, lines>>
       \/ /\ IF stage = "validating"
               THEN \E error \in ValidationFailures : Catch(error, <<>>)
               ELSE UNCHANGED <<stage, answer, lines>>
          /\ UNCHANGED validated
    /\ UNCHANGED <<inputs, shutdown, id, user, notice, probe, outcome>>

(* One part of an async schema.  The first failure rejects for all; what    *)
(* settles later still stores.                                              *)
PartSettles(part) ==
    /\ part \in pending
    /\ pending' = pending \ {part}
    /\ \/ /\ validated' = validated \cup {part}
          /\ IF stage = "validating" /\ pending' = {}
               THEN Moves("validating", "handling")
               ELSE UNCHANGED <<stage, answer, lines>>
       \/ /\ IF stage = "validating"
               THEN \E error \in ValidationFailures : Catch(error, <<>>)
               ELSE UNCHANGED <<stage, answer, lines>>
          /\ UNCHANGED validated
    /\ UNCHANGED <<inputs, shutdown, id, user, notice, probe, outcome>>

Untouched == request.skipFormat \/ route.raw

(* The exception made of an error that cannot be presented: its own         *)
(* message, code and details, whoever wrote them.                           *)
UnprocessableEntity(error) == [HttpException(422, error.body) EXCEPT !.message = error.message]

(* ResponseFormatterInterceptor on a Result that failed.                    *)
Format(error) ==
    \/ Untouched /\ outcome' = "failure" /\ Send("raw", error.message)
    \/ ~Untouched /\ IsPresentableError(error) /\ outcome' = "failure" /\ Catch(error, <<>>)
    \/ /\ ~Untouched /\ ~IsPresentableError(error)
       /\ outcome' = "asWritten"
       /\ Catch(UnprocessableEntity(error), <<>>)

(* What a use case's failed Result holds: an error that can be presented,   *)
(* or any other Error, record or code, with or without details.             *)
UseCaseErrors == {ConflictError, ValidationError, AggregateNotFoundError, PlainDomainError}
PlainErrors == {[Thrown EXCEPT !.message = text, !.body = details] :
                  text \in {"fixed", "authored", "internal"},
                  details \in {"none", "details", "driverDetails"}}

(* What it throws, at any depth.  An HttpException says what its thrower    *)
(* wrote into it.                                                           *)
ThrownErrors ==
    {Thrown, UnexpectedError, InfrastructureError, BadRequestError, PlainAppError,
     AggregateDbHealthError, [PlainDomainError EXCEPT !.toProblem = "throws"],
     [DatabaseExecutionError EXCEPT !.toProblem = "malformed"], HttpError(503, TRUE)}
HttpExceptions ==
    {HttpException(404, "envelope"), HttpException(500, "other"),
     [HttpException(400, "driverDetails") EXCEPT !.message = "internal"]}

(* The handlers of a use case: a value, an envelope of one or a Result that *)
(* is ok; a stream; an envelope of an error, which goes out as it is; a     *)
(* Result that failed; or something thrown.                                 *)
UseCaseHandler ==
    /\ stage = "handling" /\ route.handler = "useCase"
    /\ \/ outcome' = "value" /\ Send(IF Untouched THEN "raw" ELSE "data", "authored")
       \/ outcome' = "value" /\ Send("raw", "authored")
       \/ \E text \in {"authored", "internal"} :
            outcome' = "envelope" /\ Send(IF Untouched THEN "raw" ELSE "error", text)
       \/ \E error \in UseCaseErrors \cup PlainErrors : Format(error)
       \/ \E error \in ThrownErrors, graph \in Graphs :
            outcome' = "failure" /\ Catch(error, <<graph>>)
       \/ \E error \in HttpExceptions, graph \in Graphs :
            outcome' = "asWritten" /\ Catch(error, <<graph>>)
    /\ UNCHANGED <<inputs, shutdown, id, user, notice, validated, pending, probe>>

(* What withConnection rejects with, by the client the manager has for a    *)
(* key.                                                                     *)
ConnectionErrors(client) ==
    CASE client = "missing" -> {UnknownSourceKeyError}
      [] client = "notImplemented" -> {UnsupportedDialectError}
      [] client = "oracle" ->
           {MapOracleError(code) : code \in {"none", "ORA-00001", "connection", "other"}}

(* DatabaseInfoController.get through its use case and its DAO: one query   *)
(* of the source "main", whatever that is.                                  *)
DatabaseInfo ==
    /\ stage = "handling" /\ route.handler = "databaseInfo"
    /\ \/ outcome' = "value" /\ Send(IF Untouched THEN "raw" ELSE "data", "authored")
       \/ \E client \in {"missing", "notImplemented", "oracle"}, graph \in Graphs :
            \E error \in ConnectionErrors(client) : outcome' = "failure" /\ Catch(error, <<graph>>)
    /\ UNCHANGED <<inputs, shutdown, id, user, notice, validated, pending, probe>>

(* HealthController.live and FallbackController.                            *)
Live ==
    /\ stage = "handling" /\ route.handler = "live"
    /\ outcome' = "value"
    /\ Send(IF Untouched THEN "raw" ELSE "data", "authored")
    /\ UNCHANGED <<inputs, shutdown, id, user, notice, validated, pending, probe>>

Fallback ==
    /\ stage = "handling" /\ route.handler = "fallback"
    /\ outcome' = "failure"
    /\ Catch(NotFoundError, <<>>)
    /\ UNCHANGED <<inputs, shutdown, id, user, notice, validated, pending, probe>>

(* HealthController.ready up to its await, with health()'s pings sent.      *)
ReadyBegins ==
    /\ stage = "handling" /\ route.handler = "ready"
    /\ IF shuttingDown
         THEN /\ outcome' = "failure"
              /\ Catch(HttpException(503, "record"), <<>>)
              /\ UNCHANGED probe
         ELSE /\ Moves("handling", "pinging")
              /\ probe' = [s \in Sources |-> "asked"]
              /\ UNCHANGED outcome
    /\ UNCHANGED <<inputs, shutdown, id, user, notice, validated, pending>>

Pinged(s) ==
    /\ probe[s] = "asked"
    /\ \E result \in {"up", "down"} : probe' = [probe EXCEPT ![s] = result]
    /\ UNCHANGED <<inputs, shutdown, stage, id, user, notice, validated, pending, outcome, answer, lines>>

\* Mutant of ReadyEnds: one answering source is enough.
ReadyEnds_AnySource ==
    /\ stage = "pinging" /\ \A s \in Sources : probe[s] \in {"up", "down"}
    /\ IF \E s \in Sources : probe[s] = "up"
         THEN outcome' = "value" /\ Send(IF Untouched THEN "raw" ELSE "data", "authored")
         ELSE outcome' = "failure" /\ Catch(HttpException(503, "details"), <<>>)
    /\ UNCHANGED <<inputs, shutdown, id, user, notice, validated, pending, probe>>

ReadyEnds ==
    /\ stage = "pinging" /\ \A s \in Sources : probe[s] \in {"up", "down"}
    /\ IF \A s \in Sources : probe[s] = "up"
         THEN outcome' = "value" /\ Send(IF Untouched THEN "raw" ELSE "data", "authored")
         ELSE /\ outcome' = "failure"
              /\ Catch(HttpException(503, IF production THEN "details" ELSE "driverDetails"), <<>>)
    /\ UNCHANGED <<inputs, shutdown, id, user, notice, validated, pending, probe>>

ShutdownBegins ==
    /\ ~shuttingDown
    /\ shuttingDown' = TRUE
    /\ overtaken' = (stage \in {"pinging", "answered"})
    /\ UNCHANGED <<inputs, stage, id, user, notice, validated, pending, probe, outcome, answer, lines>>

Handler == UseCaseHandler \/ DatabaseInfo \/ Live \/ Fallback \/ ReadyBegins \/ ReadyEnds

Next ==
    \/ ParseBody \/ AssignRequestId
    \/ CsrfGuard \/ JwtGuard \/ RolesGuard
    \/ Deprecate \/ Validate \/ \E part \in pending : PartSettles(part)
    \/ Handler \/ \E s \in Sources : Pinged(s)
    \/ ShutdownBegins

Spec == Init /\ [][Next]_vars

-----------------------------------------------------------------------------
Handled == stage \in {"handling", "pinging"} \/ outcome # "none"

(* A handler runs only behind all guards together: for a write that rides   *)
(* on the cookie alone, from a page that may; on a route that is not open,  *)
(* for a valid token; where roles are named, for a holder of one; and with  *)
(* every part of its schema parsed and stored.                              *)
HandlerIsGuarded ==
    Handled =>
        /\ csrfEnabled /\ request.write /\ request.cookie # "none" =>
             request.bearer # "none" \/ request.site # "foreign"
        /\ route.public \/ Credential \in {"user", "admin"}
        /\ route.roles # {} => ~route.public /\ Credential \in route.roles
        /\ validated = route.parts

(* A formatted answer reports success exactly when the handler succeeded,   *)
(* and an error travels under a success status only in an envelope that the *)
(* handler made itself.  A probe is told "ready" only when every source     *)
(* answered it, and, if the process shuts down, only when that began behind *)
(* the probe's own look at the flag.  Every answer that interceptors lead   *)
(* to carries a deprecated route's notice, with the document it was given   *)
(* and a sunset no earlier than its start.                                  *)
AnswerIsHonest ==
    stage = "answered" =>
        /\ answer.shape = "data" => outcome = "value"
        /\ answer.status >= 400 => answer.shape = "error"
        /\ answer.shape = "error" /\ answer.status < 400 => outcome = "envelope"
        /\ outcome = "value" => answer.status = 200 /\ answer.shape # "error"
        /\ route.handler = "ready" /\ outcome = "value" =>
             /\ \A s \in Sources : probe[s] = "up"
             /\ shuttingDown => overtaken
        /\ outcome # "none" \/ answer.details = "fields" =>
             /\ (notice = {}) <=> (route.deprecated = {})
             /\ \A headers \in notice, options \in route.deprecated :
                   /\ 86400 * headers.sunset >= headers.deprecation
                   /\ options.link # "none" =>
                        \E i \in DOMAIN headers.link : headers.link[i].rel = "deprecation"

(* What a driver or a library says stays in the logs, whatever error is     *)
(* thrown, however its toProblem behaves, and whichever presentable error a *)
(* Result holds.  It does not when the handler itself puts it before the    *)
(* client: in an HttpException, in an envelope, or as the error of a Result *)
(* that cannot be presented, whose own message and details are shown.       *)
NothingInternalShown ==
    answer.shape # "raw" /\ outcome \notin {"asWritten", "envelope"} =>
        answer.text # "internal" /\ (production => answer.details # "internal")

Reaches(graph, e, n) ==
    LET ends[k \in 0..n] == IF k = 0 THEN {graph.root}
                            ELSE ends[k - 1] \cup {graph.cause[x] : x \in ends[k - 1] \ {Nothing}}
    IN  e \in ends[n]

OwnFrames(graph) ==
    {FrameFromStack(graph.stack[e]) :
        e \in {x \in DOMAIN graph.stack : Reaches(graph, x, MAX_CAUSE_DEPTH - 1)}} \ {NoFrame}

(* Every failure leaves a line that can be found by the id the client was   *)
(* given, at the level its status calls for, and that names our own frame   *)
(* wherever the causes hold one.                                            *)
LinesMatchAnswer ==
    stage = "answered" =>
        /\ answer.status >= 400 => lines.filter # "none" /\ lines.id = answer.id
        /\ answer.status >= 500 <=> lines.filter = "error"
        /\ id # "none" => id \in {"safe", "generated"} /\ answer.id \in {id, "none"}
        /\ lines.access = "silent" => answer.status < 400 /\ IsHealthCheck
        /\ lines.graph # <<>> =>
             LET own == OwnFrames(lines.graph[1])
             IN  /\ lines.from.origin \in own \/ (own = {} /\ lines.from.origin = NoFrame)
                 /\ lines.from.causeOrigin \in (own \ {lines.from.origin}) \cup {NoFrame}
                 /\ Cardinality(own) > 1 => lines.from.causeOrigin # NoFrame

(* A request is answered once: the parts of an async schema that settle     *)
(* after the first failure change neither the answer nor its log line.      *)
AnsweredOnce == [][stage = "answered" => UNCHANGED <<stage, answer, lines, outcome>>]_vars
=============================================================================
