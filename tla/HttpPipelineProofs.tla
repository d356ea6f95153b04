------------------------- MODULE HttpPipelineProofs -------------------------
(***************************************************************************)
(* Proofs about one request through the interface layer, for any routes,    *)
(* any graphs of thrown errors with any cap on the causes followed, and any *)
(* sources behind the readiness probe.                                      *)
(***************************************************************************)
EXTENDS HttpPipeline, FiniteSetTheorems, WellFoundedInduction, TLAPS

Stages == {"parsing", "identifying", "csrf", "jwt", "roles", "deprecating", "validating",
           "handling", "pinging", "answered"}

TypeInv ==
    /\ route \in Routes /\ request \in Requests /\ csrfEnabled \in BOOLEAN /\ production \in BOOLEAN
    /\ stage \in Stages
    /\ id \in {"none", "safe", "generated"}
    /\ outcome \in {"none", "value", "failure", "asWritten", "envelope"}
    /\ probe \in [Sources -> {"idle", "asked", "up", "down"}]
    /\ outcome # "none" => stage = "answered"
    /\ stage # "answered" => answer = NoAnswer /\ lines = NoLines

(* How far a request has come that is in the hands of one of the stages, or *)
(* of which a handler already made something.                               *)
BehindRoles == stage \in {"deprecating", "validating"} \/ Handled
BehindJwt == stage = "roles" \/ BehindRoles
BehindCsrf == stage = "jwt" \/ BehindJwt

(* What each guard has established stays true of the request behind it.     *)
GuardInv ==
    /\ BehindCsrf => CsrfPasses
    /\ ~BehindJwt => user = "none" \/ stage = "answered"
    /\ BehindJwt => IF route.public THEN user = "none" ELSE IsValidToken /\ user = Credential
    /\ BehindRoles => route.roles = {} \/ user \in route.roles

(* The parts of a schema: none before their stage; during it all of them    *)
(* stored or pending, and some still pending; all stored for a handler.     *)
ValidInv ==
    /\ stage \notin {"validating", "answered"} /\ ~Handled => validated = {} /\ pending = {}
    /\ stage = "validating" =>
         \/ validated = {} /\ pending = {}
         \/ validated \cup pending = route.parts /\ pending # {}
    /\ Handled => validated = route.parts /\ pending = {}

(* Past its interceptor, a response carries the notices its route declares. *)
NoticeInv ==
    /\ notice \in {{}, {FormatDeprecationHeaders(options) : options \in route.deprecated}}
    /\ stage = "validating" \/ Handled \/ answer.details = "fields" =>
         notice = {FormatDeprecationHeaders(options) : options \in route.deprecated}

(* An answer and its lines come from the filter, or from the formatter.     *)
Filtered ==
    /\ answer.shape = "error" /\ answer.status \in 400..599
    /\ outcome # "asWritten" =>
         /\ answer.text \in {"authored", "fixed"}
         /\ answer.details \in {"none", "fields"} \cup (IF production THEN {} ELSE {"internal"})
    /\ outcome \notin {"value", "envelope"}
    /\ answer.id = FilterId
    /\ lines.filter = LogLevel(answer.status) /\ lines.id = answer.id
    /\ lines.access = AccessLevel(answer.status)
    /\ \/ lines.graph = <<>>
       \/ \E graph \in Graphs : /\ lines.graph = <<graph>>
                                /\ lines.from = ResolveErrorOrigin(graph, graph.root)

Formatted ==
    /\ answer.shape \in {"raw", "data", "error"} /\ answer.status = 200
    /\ answer.shape = "data" => outcome = "value" /\ answer.text = "authored"
    /\ answer.shape = "error" => outcome = "envelope"
    /\ answer.details = "none"
    /\ answer.id \in {id, "none"}
    /\ lines.filter = "none" /\ lines.graph = <<>>
    /\ lines.access = AccessLevel(200)

AnswerInv ==
    stage = "answered" =>
        /\ Filtered \/ Formatted
        /\ route.handler = "ready" /\ outcome = "value" => \A s \in Sources : probe[s] = "up"

IInv == TypeInv /\ GuardInv /\ ValidInv /\ NoticeInv /\ AnswerInv

(* A probe that is under way while the process shuts down, or was told that *)
(* it is ready, looked at the flag before that was set.                     *)
ProbeInv ==
    stage = "pinging" \/ (route.handler = "ready" /\ outcome = "value") =>
        (shuttingDown => overtaken)

-----------------------------------------------------------------------------
(* What the filter answers is an error ...                                  *)
Answers(error, details) ==
    CatchAnswer(error).status \in 400..599 /\ CatchAnswer(error).details = details

(* ... whose text is for the client.                                        *)
Shows(error, details) ==
    Answers(error, details) /\ CatchAnswer(error).text \in {"authored", "fixed"}

(* An HttpException shows its message, and its details of their own accord. *)
LEMMA HttpExceptionShown ==
    ASSUME NEW status \in 400..599, NEW body
    PROVE  Shows(HttpException(status, body),
                 IF body = "details" THEN "fields"
                 ELSE IF body = "driverDetails" THEN "internal" ELSE "none")
BY DEF Shows, Answers, HttpException, Thrown, CatchAnswer, Answer

(* An error of express middleware shows its message or a fixed text.        *)
LEMMA HttpErrorShown ==
    ASSUME NEW status \in 400..599
    PROVE  Shows(HttpError(status, TRUE), "none")
<1> DEFINE error == HttpError(status, TRUE)
<1>1. /\ error.http = 0 /\ error.expose = TRUE /\ error.status = status
      /\ error.message = "authored" /\ error.toProblem = "none" /\ error.marker = "none"
  BY DEF HttpError, Thrown
<1> HIDE DEF error
<1>2. Shows(error, "none")
  BY <1>1 DEF Shows, Answers, CatchAnswer, IsExposedClientError, Present, ToProblemOnce, Answer
<1> QED
  BY <1>2 DEF error

(* A problem of a known kind that shows the message of an error made for    *)
(* clients, or a fixed text.                                                *)
LEMMA PresentableShown ==
    ASSUME NEW marker, NEW message, NEW problem,
           problem.kind \in DOMAIN KIND_TO_STATUS, problem # NoProblem,
           problem.detail = "message" => message \in {"authored", "fixed"}
    PROVE  Shows(Presentable(marker, message, problem), IF problem.fields THEN "fields" ELSE "none")
<1> DEFINE error == Presentable(marker, message, problem)
<1>1. /\ error.http = 0 /\ error.expose = FALSE /\ error.message = message
      /\ error.toProblem = "returns" /\ error.problem = problem
  BY DEF Presentable, Thrown
<1> HIDE DEF error
<1>2. CatchAnswer(error) = Answer(KIND_TO_STATUS[problem.kind],
                                  IF problem.detail = "message" THEN message ELSE "fixed",
                                  IF problem.fields THEN "fields" ELSE "none")
  BY <1>1 DEF CatchAnswer, IsExposedClientError, Present, ToProblemOnce
<1>3. KIND_TO_STATUS[problem.kind] \in 400..599
  BY DEF KIND_TO_STATUS
<1>4. Shows(error, IF problem.fields THEN "fields" ELSE "none")
  BY <1>2, <1>3 DEF Shows, Answers, Answer
<1> QED
  BY <1>4 DEF error

(* An error without a problem shows its message only when it is marked as   *)
(* one of the domain.                                                       *)
LEMMA UnpresentableShown ==
    ASSUME NEW error, error.http = 0, error.expose = FALSE,
           ToProblemOnce(error) = NoProblem,
           error.marker = "domain" => error.message \in {"authored", "fixed"}
    PROVE  Shows(error, "none")
BY DEF Shows, Answers, CatchAnswer, IsExposedClientError, Present, Answer

(* Of the errors of the code's own classes, by the kind of their problem.   *)
LEMMA ProblemShown ==
    ASSUME NEW marker, NEW message \in {"authored", "fixed", "internal"},
           NEW kind \in DOMAIN KIND_TO_STATUS, NEW detail \in {"message", "fixed"},
           detail = "message" => message # "internal"
    PROVE  Shows(Presentable(marker, message, Problem(kind, detail)), "none")
<1>1. /\ Problem(kind, detail).kind = kind /\ Problem(kind, detail).detail = detail
      /\ Problem(kind, detail).fields = FALSE
  BY DEF Problem
<1>2. Problem(kind, detail) # NoProblem
  BY <1>1 DEF NoProblem, KIND_TO_STATUS
<1> QED
  BY <1>1, <1>2, PresentableShown

(* Every class but ValidationError, which also lists its fields.            *)
LEMMA AppErrorsShown ==
    \A error \in {PlainAppError, BadRequestError, ConflictError, ForbiddenError, NotFoundError,
                  UnauthorizedError, UnexpectedError, InfrastructureError,
                  DatabaseConnectionError, DatabaseExecutionError, AggregateDbHealthError,
                  UnknownSourceKeyError, UnsupportedDialectError,
                  PlainDomainError, AggregateNotFoundError} : Shows(error, "none")
<1> DEFINE Kinds == DOMAIN KIND_TO_STATUS
<1>1. {"internal", "bad_request", "conflict", "forbidden", "not_found", "unauthorized",
       "service_unavailable", "not_implemented", "validation"} \subseteq Kinds
  BY DEF KIND_TO_STATUS
<1> HIDE DEF Kinds
<1>2. \A marker \in {"app", "domain"}, kind \in Kinds, message \in {"authored", "fixed"},
         detail \in {"message", "fixed"} :
         Shows(Presentable(marker, message, Problem(kind, detail)), "none")
  BY ProblemShown DEF Kinds
<1>3. \A kind \in Kinds : Shows(Presentable("app", "internal", Problem(kind, "fixed")), "none")
  BY ProblemShown DEF Kinds
<1>4. \A error \in {PlainAppError, BadRequestError, ConflictError, ForbiddenError, NotFoundError,
                    UnauthorizedError, UnexpectedError} : Shows(error, "none")
  BY <1>1, <1>2 DEF AppError, PlainAppError, BadRequestError, ConflictError, ForbiddenError,
                    NotFoundError, UnauthorizedError, UnexpectedError
<1>5. \A error \in {InfrastructureError, DatabaseConnectionError, DatabaseExecutionError} :
         Shows(error, "none")
  BY <1>1, <1>3 DEF AppError, InfrastructureError, DatabaseConnectionError, DatabaseExecutionError
<1>6. \A error \in {AggregateDbHealthError, UnknownSourceKeyError, UnsupportedDialectError} :
         Shows(error, "none")
  BY <1>1, <1>2 DEF AppError, AggregateDbHealthError, UnknownSourceKeyError, UnsupportedDialectError
<1>7. \A error \in {PlainDomainError, AggregateNotFoundError} : Shows(error, "none")
  BY <1>1, <1>2 DEF DomainError, PlainDomainError, AggregateNotFoundError
<1> QED
  BY <1>4, <1>5, <1>6, <1>7

(* An error of nobody's shows nothing of its own.                           *)
LEMMA ThrownShown == Shows(Thrown, "none")
<1>1. Thrown.http = 0 /\ Thrown.expose = FALSE /\ Thrown.toProblem = "none" /\ Thrown.marker = "none"
  BY DEF Thrown
<1> QED
  BY <1>1, UnpresentableShown DEF ToProblemOnce

(* Whatever a use case throws that is no HttpException.                     *)
LEMMA ThrownErrorsShown == \A error \in ThrownErrors : Shows(error, "none")
<1>1. Shows([PlainDomainError EXCEPT !.toProblem = "throws"], "none")
  <2> DEFINE error == [PlainDomainError EXCEPT !.toProblem = "throws"]
  <2>1. /\ error.http = 0 /\ error.expose = FALSE /\ error.toProblem = "throws"
        /\ error.message = "authored"
    BY DEF PlainDomainError, DomainError, Presentable, Thrown
  <2> HIDE DEF error
  <2>2. Shows(error, "none")
    BY <2>1, UnpresentableShown DEF ToProblemOnce
  <2> QED
    BY <2>2 DEF error
<1>2. Shows([DatabaseExecutionError EXCEPT !.toProblem = "malformed"], "none")
  <2> DEFINE error == [DatabaseExecutionError EXCEPT !.toProblem = "malformed"]
  <2>1. /\ error.http = 0 /\ error.expose = FALSE /\ error.toProblem = "malformed"
        /\ error.marker = "app"
    BY DEF DatabaseExecutionError, AppError, Presentable, Thrown
  <2> HIDE DEF error
  <2>2. Shows(error, "none")
    BY <2>1, UnpresentableShown DEF ToProblemOnce
  <2> QED
    BY <2>2 DEF error
<1>3. 503 \in 400..599 => Shows(HttpError(503, TRUE), "none")
  BY HttpErrorShown, Zenon
<1> QED
  <2>1. 503 \in 400..599
    OBVIOUS
  <2>2. \A error \in {Thrown, UnexpectedError, InfrastructureError, BadRequestError, PlainAppError,
                     AggregateDbHealthError} : Shows(error, "none")
    BY ThrownShown, AppErrorsShown, Zenon
  <2> QED
    BY <1>1, <1>2, <1>3, <2>1, <2>2, ZenonT(60) DEF ThrownErrors

(* An error with an HTTP status of its own is answered under it.            *)
LEMMA WrittenAnswered ==
    ASSUME NEW error, error.http \in 400..599
    PROVE  \E details \in {"none", "fields", "internal"} : Answers(error, details)
<1>1. error.http # 0
  OBVIOUS
<1>2. CatchAnswer(error).status = error.http
  BY <1>1 DEF CatchAnswer, Answer
<1>3. CatchAnswer(error).details \in {"none", "fields", "internal"}
  BY <1>1 DEF CatchAnswer, Answer
<1> QED
  BY <1>2, <1>3 DEF Answers

(* The HttpExceptions a use case throws, and what the formatter makes of an *)
(* error that cannot be presented.                                          *)
LEMMA WrittenErrors ==
    /\ \A error \in HttpExceptions : error.http \in 400..599
    /\ \A error : UnprocessableEntity(error).http \in 400..599
<1>1. HttpException(404, "envelope").http = 404 /\ HttpException(500, "other").http = 500
  BY DEF HttpException, Thrown
<1>2. [HttpException(400, "driverDetails") EXCEPT !.message = "internal"].http = 400
  BY DEF HttpException, Thrown
<1>3. ASSUME NEW error PROVE UnprocessableEntity(error).http = 422
  BY DEF UnprocessableEntity, HttpException, Thrown
<1>4. 400 \in 400..599 /\ 404 \in 400..599 /\ 422 \in 400..599 /\ 500 \in 400..599
  OBVIOUS
<1>5. ASSUME NEW error \in HttpExceptions PROVE error.http \in {400, 404, 500}
  <2> DEFINE one == HttpException(404, "envelope")
             two == HttpException(500, "other")
             three == [HttpException(400, "driverDetails") EXCEPT !.message = "internal"]
  <2>1. error \in {one, two, three}
    BY DEF HttpExceptions
  <2>2. one.http = 404 /\ two.http = 500 /\ three.http = 400
    BY <1>1, <1>2
  <2> HIDE DEF one, two, three
  <2> QED
    BY <2>1, <2>2
<1> QED
  BY <1>3, <1>4, <1>5

(* The errors of a failed Result that can be presented.                     *)
LEMMA UseCaseErrorsShown ==
    ASSUME NEW error \in UseCaseErrors
    PROVE  \E details \in {"none", "fields"} : Shows(error, details)
<1>1. CASE error \in {ConflictError, AggregateNotFoundError, PlainDomainError}
  BY <1>1, AppErrorsShown
<1>2. CASE error = ValidationError
  <2> DEFINE problem == [Problem("validation", "message") EXCEPT !.fields = TRUE]
  <2>1. problem.kind = "validation" /\ problem.fields = TRUE
    BY DEF Problem
  <2>2. problem # NoProblem /\ problem.kind \in DOMAIN KIND_TO_STATUS
    BY <2>1 DEF NoProblem, KIND_TO_STATUS
  <2> HIDE DEF problem
  <2>3. Shows(Presentable("domain", "fixed", problem), "fields")
    BY <2>1, <2>2, PresentableShown
  <2>4. Shows(error, "fields")
    BY <1>2, <2>3 DEF problem, ValidationError, DomainError
  <2> QED
    BY <2>4
<1> QED
  BY <1>1, <1>2 DEF UseCaseErrors

(* Of the others none can be presented.                                     *)
LEMMA PlainErrorsUnpresentable ==
    ASSUME NEW error \in PlainErrors
    PROVE  ~IsPresentableError(error)
<1>1. PICK text \in {"fixed", "authored", "internal"}, details \in {"none", "details", "driverDetails"} :
        error = [Thrown EXCEPT !.message = text, !.body = details]
  BY DEF PlainErrors
<1>2. error.toProblem = "none"
  BY <1>1 DEF Thrown
<1> QED
  BY <1>2 DEF IsPresentableError, ToProblemOnce

(* Whatever a connection rejects with.                                      *)
LEMMA ConnectionErrorsShown ==
    ASSUME NEW client \in {"missing", "notImplemented", "oracle"}, NEW error \in ConnectionErrors(client)
    PROVE  Shows(error, "none")
<1>1. error \in {UnknownSourceKeyError, UnsupportedDialectError, Thrown, ConflictError,
                DatabaseConnectionError, DatabaseExecutionError}
  BY DEF ConnectionErrors, MapOracleError
<1> QED
  BY <1>1, ThrownShown, AppErrorsShown

-----------------------------------------------------------------------------
(* Whatever the filter catches, an error answer and its lines come of it.   *)
LEMMA CatchFilters ==
    ASSUME TypeInv, UNCHANGED <<inputs, id>>, outcome' \notin {"value", "envelope"},
           NEW error, NEW details \in {"none", "fields", "internal"}, Answers(error, details),
           outcome' # "asWritten" => Shows(error, details) /\ (details = "internal" => ~production),
           NEW graph, graph # <<>> => \E one \in Graphs : graph = <<one>>,
           Catch(error, graph)
    PROVE  stage' = "answered" /\ Filtered' /\ answer'.details = details
<1> DEFINE a == CatchAnswer(error)
<1> HIDE DEF a
<1>1. /\ a.status \in 400..599 /\ a.details = details
      /\ outcome' # "asWritten" => a.text \in {"authored", "fixed"}
  BY DEF Shows, Answers, a
<1>2. /\ stage' = "answered"
      /\ answer' = [status |-> a.status, shape |-> "error", text |-> a.text,
                    details |-> a.details, id |-> FilterId]
      /\ lines' = [filter |-> LogLevel(a.status), id |-> FilterId, graph |-> graph,
                   from |-> IF graph = <<>> THEN NoOrigin
                            ELSE ResolveErrorOrigin(graph[1], graph[1].root),
                   access |-> AccessLevel(a.status)]
  BY DEF Catch, a
<1>3. production' = production /\ FilterId' = FilterId
  BY DEF inputs, FilterId
<1>4. \A status : AccessLevel(status)' = AccessLevel(status)
  BY DEF inputs, AccessLevel, IsHealthCheck
<1>5. lines'.graph = <<>> \/ \E one \in Graphs :
        lines'.graph = <<one>> /\ lines'.from = ResolveErrorOrigin(one, one.root)
  BY <1>2
<1>6. answer'.status = a.status /\ answer'.details = details
  BY <1>1, <1>2
<1>7. LogLevel(answer.status)' = LogLevel(a.status) /\ AccessLevel(answer.status)' = AccessLevel(a.status)
  BY <1>4, <1>6 DEF LogLevel, AccessLevel, inputs, IsHealthCheck
<1> QED
  BY <1>1, <1>2, <1>3, <1>5, <1>6, <1>7 DEF Filtered

(* Whatever the formatter sends goes out under a success status.            *)
LEMMA SendFormats ==
    ASSUME TypeInv, stage # "answered", UNCHANGED <<inputs, id>>,
           NEW shape \in {"raw", "data", "error"}, NEW text,
           shape = "data" => outcome' = "value" /\ text = "authored",
           shape = "error" => outcome' = "envelope",
           Send(shape, text)
    PROVE  stage' = "answered" /\ Formatted'
<1>1. /\ stage' = "answered"
      /\ answer' = [status |-> 200, shape |-> shape, text |-> text, details |-> "none",
                    id |-> IF shape = "raw" THEN "none" ELSE id]
      /\ lines' = [lines EXCEPT !.access = AccessLevel(200)]
  BY DEF Send
<1>2. lines'.access = AccessLevel(200) /\ lines'.filter = "none" /\ lines'.graph = <<>>
  BY <1>1 DEF TypeInv, NoLines
<1>3. AccessLevel(200)' = AccessLevel(200)
  BY DEF inputs, AccessLevel, IsHealthCheck
<1> QED
  BY <1>1, <1>2, <1>3 DEF Formatted

(* A guard, a parser or a schema turns the request away.                    *)
LEMMA RejectionKeepsIInv ==
    ASSUME IInv, stage # "answered", UNCHANGED <<inputs, id, user, notice, probe, outcome>>,
           NEW error, NEW details \in {"none", "fields"}, Shows(error, details),
           details = "fields" => stage = "validating",
           Catch(error, <<>>)
    PROVE  IInv'
<1>1. stage' = "answered" /\ Filtered' /\ answer'.details = details
  BY CatchFilters DEF IInv, TypeInv, Shows
<1>2. outcome' = "none" /\ ~Handled'
  BY <1>1 DEF IInv, TypeInv, Handled
<1>3. TypeInv'
  BY <1>1 DEF IInv, TypeInv, inputs, Stages
<1>4. GuardInv'
  BY <1>1, <1>2 DEF GuardInv, BehindCsrf, BehindJwt, BehindRoles
<1>5. ValidInv'
  BY <1>1, <1>2 DEF ValidInv
<1>6. NoticeInv'
  BY <1>1, <1>2 DEF IInv, NoticeInv, inputs
<1>7. AnswerInv'
  BY <1>1, <1>2 DEF AnswerInv
<1> QED
  BY <1>3, <1>4, <1>5, <1>6, <1>7 DEF IInv

(* What a handler established keeps its guards, its parts and its notice.   *)
LEMMA HandledKeeps ==
    ASSUME IInv, Handled, UNCHANGED <<inputs, user, notice, validated, pending>>,
           stage' = "answered", outcome' # "none"
    PROVE  GuardInv' /\ ValidInv' /\ NoticeInv'
<1>1. CsrfPasses' = CsrfPasses /\ IsValidToken' = IsValidToken /\ Credential' = Credential
  BY DEF inputs, CsrfPasses, IsValidToken, Credential
<1>2. Handled'
  BY DEF Handled
<1>3. GuardInv'
  BY <1>1, <1>2 DEF IInv, GuardInv, BehindCsrf, BehindJwt, BehindRoles, inputs
<1>4. ValidInv'
  BY <1>2 DEF IInv, ValidInv, inputs
<1>5. NoticeInv'
  BY DEF IInv, NoticeInv, inputs
<1> QED
  BY <1>3, <1>4, <1>5

(* A handler fails, and the filter answers.                                 *)
LEMMA FailureKeepsIInv ==
    ASSUME IInv, stage \in {"handling", "pinging"},
           UNCHANGED <<inputs, id, user, notice, validated, pending, probe>>,
           outcome' \in {"failure", "asWritten"},
           NEW error, NEW details \in {"none", "fields", "internal"}, Answers(error, details),
           outcome' # "asWritten" => Shows(error, details) /\ (details = "internal" => ~production),
           NEW graph, graph # <<>> => \E one \in Graphs : graph = <<one>>,
           Catch(error, graph)
    PROVE  IInv'
<1>1. stage' = "answered" /\ Filtered'
  BY CatchFilters DEF IInv
<1>2. GuardInv' /\ ValidInv' /\ NoticeInv'
  BY <1>1, HandledKeeps DEF Handled
<1>3. TypeInv'
  BY <1>1 DEF IInv, TypeInv, inputs, Stages
<1>4. AnswerInv'
  BY <1>1 DEF AnswerInv
<1> QED
  BY <1>2, <1>3, <1>4 DEF IInv

(* A handler ends, and the formatter answers.                               *)
LEMMA SuccessKeepsIInv ==
    ASSUME IInv, stage \in {"handling", "pinging"},
           UNCHANGED <<inputs, id, user, notice, validated, pending, probe>>,
           outcome' \in {"value", "failure", "envelope"},
           NEW shape \in {"raw", "data", "error"}, NEW text,
           shape = "data" => outcome' = "value" /\ text = "authored",
           shape = "error" => outcome' = "envelope",
           route.handler = "ready" /\ outcome' = "value" => \A s \in Sources : probe[s] = "up",
           Send(shape, text)
    PROVE  IInv'
<1>1. stage' = "answered" /\ Formatted'
  BY SendFormats DEF IInv
<1>2. GuardInv' /\ ValidInv' /\ NoticeInv'
  BY <1>1, HandledKeeps DEF Handled
<1>3. TypeInv'
  BY <1>1 DEF IInv, TypeInv, inputs, Stages
<1>4. AnswerInv'
  BY <1>1 DEF AnswerInv, inputs
<1> QED
  BY <1>2, <1>3, <1>4 DEF IInv

(* The invariant holds of a request that just arrived.                      *)
LEMMA IInvInit == Init => IInv
<1> SUFFICES ASSUME Init PROVE IInv
  OBVIOUS
<1>1. TypeInv
  BY DEF Init, TypeInv, Stages
<1>2. GuardInv /\ ValidInv /\ NoticeInv /\ AnswerInv
  BY DEF Init, GuardInv, BehindCsrf, BehindJwt, BehindRoles, Handled, ValidInv, NoticeInv,
         NoAnswer, AnswerInv
<1> QED
  BY <1>1, <1>2 DEF IInv

(* A request that goes on to its next stage takes nothing from its answer.  *)
LEMMA MoveKeepsTypes ==
    ASSUME TypeInv, UNCHANGED <<inputs, probe, outcome>>, id' \in {"none", "safe", "generated"},
           NEW from \in Stages \ {"answered"}, NEW to \in Stages \ {"answered"}, Moves(from, to)
    PROVE  TypeInv' /\ AnswerInv' /\ ~(stage = "answered") /\ outcome = "none" /\ answer'.details = "none"
BY DEF TypeInv, inputs, Moves, AnswerInv, NoAnswer

(* The body parser and the request id.                                      *)
LEMMA ParserSteps == IInv /\ (ParseBody \/ AssignRequestId) => IInv'
<1> USE DEF GuardInv, BehindCsrf, BehindJwt, BehindRoles, Handled, ValidInv, NoticeInv
<1>1. ASSUME IInv, ParseBody PROVE IInv'
  <2>1. CASE Moves("parsing", "identifying")
    <3>1. TypeInv' /\ AnswerInv' /\ outcome = "none" /\ answer'.details = "none"
      BY <1>1, <2>1, MoveKeepsTypes DEF IInv, TypeInv, ParseBody, Stages
    <3> QED
      BY <1>1, <2>1, <3>1 DEF IInv, ParseBody, Moves, inputs
  <2>2. ASSUME NEW status \in {400, 413}, Catch(HttpError(status, TRUE), <<>>) PROVE IInv'
    <3>0. status \in 400..599
      OBVIOUS
    <3>1. Shows(HttpError(status, TRUE), "none")
      BY <3>0, HttpErrorShown, Zenon
    <3> QED
      BY <1>1, <2>2, <3>1, RejectionKeepsIInv DEF ParseBody
  <2> QED
    BY <1>1, <2>1, <2>2 DEF ParseBody
<1>2. ASSUME IInv, AssignRequestId PROVE IInv'
  <2>1. id' \in {"none", "safe", "generated"}
    BY <1>2 DEF AssignRequestId, RequestIdFor
  <2>2. TypeInv' /\ AnswerInv' /\ outcome = "none" /\ answer'.details = "none"
    BY <1>2, <2>1, MoveKeepsTypes DEF IInv, AssignRequestId, Stages
  <2> QED
    BY <1>2, <2>2 DEF IInv, AssignRequestId, Moves, inputs
<1> QED
  BY <1>1, <1>2

(* Each guard passes what it may pass, and turns the rest away.             *)
LEMMA GuardSteps == IInv /\ (CsrfGuard \/ JwtGuard \/ RolesGuard) => IInv'
<1> SUFFICES ASSUME IInv, CsrfGuard \/ JwtGuard \/ RolesGuard PROVE IInv'
  OBVIOUS
<1> USE DEF BehindCsrf, BehindJwt, BehindRoles, Handled
<1>a. /\ UNCHANGED <<inputs, shutdown, id, notice, validated, pending, probe, outcome>>
      /\ id \in {"none", "safe", "generated"}
  BY DEF CsrfGuard, JwtGuard, RolesGuard, IInv, TypeInv
<1>b. CsrfPasses' = CsrfPasses /\ IsValidToken' = IsValidToken /\ Credential' = Credential
  BY <1>a DEF inputs, CsrfPasses, IsValidToken, Credential
<1>1. CASE CsrfGuard
  <2>1. CASE CsrfPasses /\ Moves("csrf", "jwt")
    <3>1. TypeInv' /\ AnswerInv' /\ outcome = "none" /\ answer'.details = "none"
      BY <1>a, <2>1, MoveKeepsTypes DEF IInv, Stages
    <3>2. GuardInv'
      BY <1>1, <1>a, <1>b, <2>1, <3>1 DEF IInv, GuardInv, CsrfGuard, Moves
    <3>3. ValidInv' /\ NoticeInv'
      BY <1>a, <2>1, <3>1 DEF IInv, ValidInv, NoticeInv, Moves, inputs
    <3> QED
      BY <3>1, <3>2, <3>3 DEF IInv
  <2>2. CASE Catch(CsrfRejectedError, <<>>)
    <3>1. Shows(CsrfRejectedError, "none")
      BY AppErrorsShown DEF CsrfRejectedError
    <3> QED
      BY <1>1, <1>a, <2>2, <3>1, RejectionKeepsIInv DEF CsrfGuard
  <2> QED
    BY <1>1, <2>1, <2>2 DEF CsrfGuard
<1>2. CASE JwtGuard
  <2>1. CASE Moves("jwt", "roles") /\ IF route.public THEN UNCHANGED user
                                      ELSE IsValidToken /\ user' = Credential
    <3>1. TypeInv' /\ AnswerInv' /\ outcome = "none" /\ answer'.details = "none"
      BY <1>a, <2>1, MoveKeepsTypes DEF IInv, Stages
    <3>2. GuardInv'
      BY <1>2, <1>a, <1>b, <2>1, <3>1 DEF IInv, GuardInv, JwtGuard, Moves, inputs
    <3>3. ValidInv' /\ NoticeInv'
      BY <1>a, <2>1, <3>1 DEF IInv, ValidInv, NoticeInv, Moves, inputs
    <3> QED
      BY <3>1, <3>2, <3>3 DEF IInv
  <2>2. CASE Catch(HttpException(401, "record"), <<>>) /\ UNCHANGED user
    <3>1. Shows(HttpException(401, "record"), "none")
      BY HttpExceptionShown
    <3> QED
      BY <1>2, <1>a, <2>2, <3>1, RejectionKeepsIInv DEF JwtGuard
  <2> QED
    BY <1>2, <2>1, <2>2 DEF JwtGuard
<1>3. CASE RolesGuard
  <2>1. CASE (route.roles = {} \/ user \in route.roles) /\ Moves("roles", "deprecating")
    <3>1. TypeInv' /\ AnswerInv' /\ outcome = "none" /\ answer'.details = "none"
      BY <1>a, <2>1, MoveKeepsTypes DEF IInv, Stages
    <3>2. GuardInv'
      BY <1>3, <1>a, <1>b, <2>1, <3>1 DEF IInv, GuardInv, RolesGuard, Moves, inputs
    <3>3. ValidInv' /\ NoticeInv'
      BY <1>a, <2>1, <3>1 DEF IInv, ValidInv, NoticeInv, Moves, inputs
    <3> QED
      BY <3>1, <3>2, <3>3 DEF IInv
  <2>2. CASE Catch(IF user = "none" THEN UnauthorizedError ELSE ForbiddenError, <<>>)
    <3>1. Shows(IF user = "none" THEN UnauthorizedError ELSE ForbiddenError, "none")
      BY AppErrorsShown
    <3> QED
      BY <1>3, <1>a, <2>2, <3>1, RejectionKeepsIInv DEF RolesGuard
  <2> QED
    BY <1>3, <2>1, <2>2 DEF RolesGuard
<1> QED
  BY <1>1, <1>2, <1>3

(* The notice, and the parts of a schema, stored one by one or at once.     *)
LEMMA InterceptorSteps ==
    IInv /\ (Deprecate \/ Validate \/ \E part \in pending : PartSettles(part)) => IInv'
<1> SUFFICES ASSUME IInv, Deprecate \/ Validate \/ \E part \in pending : PartSettles(part) PROVE IInv'
  OBVIOUS
<1> USE DEF BehindCsrf, BehindJwt, BehindRoles, Handled
<1>a. UNCHANGED <<inputs, shutdown, id, user, probe, outcome>> /\ id \in {"none", "safe", "generated"}
  BY DEF Deprecate, Validate, PartSettles, IInv, TypeInv
<1>b. CsrfPasses' = CsrfPasses /\ IsValidToken' = IsValidToken /\ Credential' = Credential
  BY <1>a DEF inputs, CsrfPasses, IsValidToken, Credential
<1>c. \A error \in ValidationFailures : \E details \in {"none", "fields"} : Shows(error, details)
  <2>1. 400 \in 400..599
    OBVIOUS
  <2>2. Shows(HttpException(400, "details"), "fields")
    BY <2>1, HttpExceptionShown
  <2> QED
    BY <2>2, ThrownShown DEF ValidationFailures
<1>d. ASSUME NEW error \in ValidationFailures, stage = "validating", notice' = notice, Catch(error, <<>>)
      PROVE  IInv'
  <2>1. PICK details \in {"none", "fields"} : Shows(error, details)
    BY <1>c, <1>d
  <2> QED
    BY <1>a, <1>d, <2>1, RejectionKeepsIInv
<1>1. CASE Deprecate
  <2>1. TypeInv' /\ AnswerInv' /\ outcome = "none" /\ answer'.details = "none"
    BY <1>1, <1>a, MoveKeepsTypes DEF IInv, Deprecate, Stages
  <2>2. GuardInv'
    BY <1>1, <1>a, <1>b, <2>1 DEF IInv, GuardInv, Deprecate, Moves, inputs
  <2>3. ValidInv' /\ NoticeInv'
    BY <1>1, <1>a, <2>1 DEF IInv, ValidInv, NoticeInv, Deprecate, Moves, inputs
  <2> QED
    BY <2>1, <2>2, <2>3 DEF IInv
<1>2. ASSUME Moves("validating", "handling"), notice' = notice, validated' = route.parts, pending' = {}
      PROVE  IInv'
  <2>1. TypeInv' /\ AnswerInv' /\ outcome = "none" /\ answer'.details = "none"
    BY <1>2, <1>a, MoveKeepsTypes DEF IInv, Stages
  <2>2. GuardInv'
    BY <1>2, <1>a, <1>b, <2>1 DEF IInv, GuardInv, Moves, inputs
  <2>3. ValidInv' /\ NoticeInv'
    BY <1>2, <1>a, <2>1 DEF IInv, ValidInv, NoticeInv, Moves, inputs
  <2> QED
    BY <2>1, <2>2, <2>3 DEF IInv
<1>3. ASSUME UNCHANGED <<stage, answer, lines, notice>>, ValidInv' PROVE IInv'
  <2>1. TypeInv' /\ NoticeInv'
    BY <1>3, <1>a DEF IInv, TypeInv, NoticeInv, inputs
  <2>2. GuardInv'
    BY <1>3, <1>a, <1>b DEF IInv, GuardInv, inputs
  <2>3. AnswerInv'
    <3>1. Filtered' = Filtered /\ Formatted' = Formatted
      BY <1>3, <1>a DEF Filtered, Formatted, inputs, FilterId, AccessLevel, IsHealthCheck, LogLevel
    <3> QED
      BY <1>3, <1>a, <3>1 DEF IInv, AnswerInv, inputs
  <2> QED
    BY <1>3, <2>1, <2>2, <2>3 DEF IInv
<1>4. CASE Validate
  <2>1. CASE pending' = route.parts /\ UNCHANGED <<stage, answer, lines, validated>>
    <3>1. ValidInv'
      BY <1>4, <1>a, <2>1 DEF IInv, TypeInv, ValidInv, Validate, inputs
    <3> QED
      BY <1>3, <1>4, <2>1, <3>1 DEF Validate
  <2>2. ASSUME NEW bad \in SUBSET route.parts, validated' = route.parts \ bad, pending' = pending,
               IF bad = {} THEN Moves("validating", "handling")
                           ELSE \E error \in ValidationFailures : Catch(error, <<>>)
        PROVE  IInv'
    <3>1. CASE bad = {}
      BY <1>2, <1>4, <2>2, <3>1 DEF Validate
    <3>2. CASE bad # {}
      BY <1>4, <1>d, <2>2, <3>2 DEF Validate
    <3> QED
      BY <3>1, <3>2
  <2> QED
    BY <1>4, <2>1, <2>2 DEF Validate
<1>5. ASSUME NEW part \in pending, PartSettles(part) PROVE IInv'
  <2>1. CASE stage = "validating" /\ validated' = validated \cup {part} /\ pending' = {}
             /\ Moves("validating", "handling")
    <3>1. validated' = route.parts
      BY <1>5, <2>1 DEF IInv, ValidInv, PartSettles
    <3> QED
      BY <1>2, <1>5, <2>1, <3>1 DEF PartSettles
  <2>2. CASE UNCHANGED <<stage, answer, lines>>
             /\ (stage = "validating" => validated' = validated \cup {part} /\ pending' # {})
    <3>1. ~Handled
      BY <1>5 DEF IInv, ValidInv
    <3>2. ValidInv'
      BY <1>5, <1>a, <2>2, <3>1 DEF IInv, ValidInv, PartSettles, inputs
    <3> QED
      BY <1>3, <1>5, <2>2, <3>2 DEF PartSettles
  <2>3. CASE stage = "validating" /\ \E error \in ValidationFailures : Catch(error, <<>>)
    BY <1>5, <1>d, <2>3 DEF PartSettles
  <2> QED
    BY <1>5, <2>1, <2>2, <2>3 DEF PartSettles
<1> QED
  BY <1>1, <1>4, <1>5

(* Every handler, up to its answer.                                         *)
LEMMA HandlerSteps == IInv /\ Handler => IInv'
<1> SUFFICES ASSUME IInv, Handler PROVE IInv'
  OBVIOUS
<1>a. UNCHANGED <<inputs, shutdown, id, user, notice, validated, pending>>
  BY DEF Handler, UseCaseHandler, DatabaseInfo, Live, Fallback, ReadyBegins, ReadyEnds
<1>b. ASSUME stage = "handling", UNCHANGED probe, outcome' = "value", route.handler # "ready",
             Send(IF Untouched THEN "raw" ELSE "data", "authored")
      PROVE  IInv'
  BY <1>a, <1>b, SuccessKeepsIInv
<1>1. CASE UseCaseHandler
  <2>1. stage = "handling" /\ UNCHANGED probe /\ route.handler # "ready"
    BY <1>1 DEF UseCaseHandler
  <2>2. CASE outcome' = "value" /\ Send(IF Untouched THEN "raw" ELSE "data", "authored")
    BY <1>b, <2>1, <2>2
  <2>3. CASE outcome' = "value" /\ Send("raw", "authored")
    BY <1>a, <2>1, <2>3, SuccessKeepsIInv
  <2>4. ASSUME NEW text \in {"authored", "internal"}, outcome' = "envelope",
               Send(IF Untouched THEN "raw" ELSE "error", text)
        PROVE  IInv'
    BY <1>a, <2>1, <2>4, SuccessKeepsIInv
  <2>5. ASSUME NEW error \in UseCaseErrors \cup PlainErrors, Format(error)
        PROVE  IInv'
    <3>1. CASE Untouched /\ outcome' = "failure" /\ Send("raw", error.message)
      BY <1>a, <2>1, <3>1, SuccessKeepsIInv
    <3>2. CASE IsPresentableError(error) /\ outcome' = "failure" /\ Catch(error, <<>>)
      <4>1. PICK details \in {"none", "fields"} : Shows(error, details)
        BY <3>2, UseCaseErrorsShown, PlainErrorsUnpresentable
      <4> QED
        BY <1>a, <2>1, <3>2, <4>1, FailureKeepsIInv DEF Shows
    <3>3. CASE outcome' = "asWritten" /\ Catch(UnprocessableEntity(error), <<>>)
      <4>1. PICK details \in {"none", "fields", "internal"} : Answers(UnprocessableEntity(error), details)
        BY WrittenErrors, WrittenAnswered
      <4> QED
        BY <1>a, <2>1, <3>3, <4>1, FailureKeepsIInv
    <3> QED
      BY <2>5, <3>1, <3>2, <3>3 DEF Format
  <2>6. ASSUME NEW error \in ThrownErrors, NEW graph \in Graphs, outcome' = "failure", Catch(error, <<graph>>)
        PROVE  IInv'
    <3>1. Shows(error, "none")
      BY <2>6, ThrownErrorsShown
    <3> QED
      BY <1>a, <2>1, <2>6, <3>1, FailureKeepsIInv DEF Shows
  <2>7. ASSUME NEW error \in HttpExceptions, NEW graph \in Graphs, outcome' = "asWritten", Catch(error, <<graph>>)
        PROVE  IInv'
    <3>1. PICK details \in {"none", "fields", "internal"} : Answers(error, details)
      BY <2>7, WrittenErrors, WrittenAnswered
    <3> QED
      BY <1>a, <2>1, <2>7, <3>1, FailureKeepsIInv
  <2> QED
    BY <1>1, <2>2, <2>3, <2>4, <2>5, <2>6, <2>7 DEF UseCaseHandler
<1>2. CASE DatabaseInfo
  <2>1. stage = "handling" /\ UNCHANGED probe /\ route.handler # "ready"
    BY <1>2 DEF DatabaseInfo
  <2>2. CASE outcome' = "value" /\ Send(IF Untouched THEN "raw" ELSE "data", "authored")
    BY <1>b, <2>1, <2>2
  <2>3. ASSUME NEW client \in {"missing", "notImplemented", "oracle"}, NEW graph \in Graphs,
               NEW error \in ConnectionErrors(client), outcome' = "failure", Catch(error, <<graph>>)
        PROVE  IInv'
    <3>1. Shows(error, "none")
      BY <2>3, ConnectionErrorsShown
    <3> QED
      BY <1>a, <2>1, <2>3, <3>1, FailureKeepsIInv DEF Shows
  <2> QED
    BY <1>2, <2>2, <2>3 DEF DatabaseInfo
<1>3. CASE Live
  BY <1>b, <1>3 DEF Live
<1>4. CASE Fallback
  <2>1. Shows(NotFoundError, "none")
    BY AppErrorsShown
  <2> QED
    BY <1>a, <1>4, <2>1, FailureKeepsIInv DEF Fallback, Shows
<1>5. CASE ReadyBegins
  <2>1. CASE outcome' = "failure" /\ Catch(HttpException(503, "record"), <<>>) /\ UNCHANGED probe
    <3>1. Shows(HttpException(503, "record"), "none")
      BY HttpExceptionShown
    <3> QED
      BY <1>a, <1>5, <2>1, <3>1, FailureKeepsIInv DEF ReadyBegins, Shows
  <2>2. CASE Moves("handling", "pinging") /\ probe' = [s \in Sources |-> "asked"] /\ UNCHANGED outcome
    <3>1. TypeInv' /\ AnswerInv' /\ outcome = "none" /\ stage' = "pinging"
      BY <1>a, <2>2 DEF IInv, TypeInv, Moves, AnswerInv, inputs, Stages
    <3>2. CsrfPasses' = CsrfPasses /\ IsValidToken' = IsValidToken /\ Credential' = Credential
      BY <1>a DEF inputs, CsrfPasses, IsValidToken, Credential
    <3>3. GuardInv'
      BY <1>a, <2>2, <3>1, <3>2 DEF IInv, GuardInv, BehindCsrf, BehindJwt, BehindRoles, Handled, Moves, inputs
    <3>4. ValidInv' /\ NoticeInv'
      BY <1>a, <2>2, <3>1 DEF IInv, ValidInv, NoticeInv, Handled, Moves, inputs
    <3> QED
      BY <3>1, <3>3, <3>4 DEF IInv
  <2> QED
    BY <1>5, <2>1, <2>2 DEF ReadyBegins
<1>6. CASE ReadyEnds
  <2>1. stage = "pinging" /\ UNCHANGED probe
    BY <1>6 DEF ReadyEnds
  <2>2. CASE /\ \A s \in Sources : probe[s] = "up"
             /\ outcome' = "value" /\ Send(IF Untouched THEN "raw" ELSE "data", "authored")
    BY <1>a, <2>1, <2>2, SuccessKeepsIInv
  <2>3. CASE /\ outcome' = "failure"
             /\ Catch(HttpException(503, IF production THEN "details" ELSE "driverDetails"), <<>>)
    <3>1. Shows(HttpException(503, IF production THEN "details" ELSE "driverDetails"),
                IF production THEN "fields" ELSE "internal")
      BY HttpExceptionShown
    <3> QED
      BY <1>a, <2>1, <2>3, <3>1, FailureKeepsIInv DEF Shows
  <2> QED
    BY <1>6, <2>2, <2>3 DEF ReadyEnds
<1> QED
  BY <1>1, <1>2, <1>3, <1>4, <1>5, <1>6 DEF Handler

(* The pings of a probe, the flag of a shutdown, and steps of others.       *)
LEMMA OtherSteps ==
    ASSUME IInv, (\E s \in Sources : Pinged(s)) \/ ShutdownBegins \/ UNCHANGED vars
    PROVE  IInv'
<1>1. UNCHANGED <<inputs, stage, id, user, notice, validated, pending, outcome, answer, lines>>
  BY DEF Pinged, ShutdownBegins, vars
<1>2. /\ probe' \in [Sources -> {"idle", "asked", "up", "down"}]
      /\ (\A s \in Sources : probe[s] = "up") => probe' = probe
  BY DEF Pinged, ShutdownBegins, vars, IInv, TypeInv
<1>3. TypeInv'
  BY <1>1, <1>2 DEF IInv, TypeInv, inputs
<1>4. CsrfPasses' = CsrfPasses /\ IsValidToken' = IsValidToken /\ Credential' = Credential
  BY <1>1 DEF inputs, CsrfPasses, IsValidToken, Credential
<1>5. GuardInv'
  BY <1>1, <1>4 DEF IInv, GuardInv, BehindCsrf, BehindJwt, BehindRoles, Handled, inputs
<1>6. ValidInv' /\ NoticeInv'
  BY <1>1 DEF IInv, ValidInv, NoticeInv, Handled, inputs
<1>7. AnswerInv'
  <2>1. Filtered' = Filtered /\ Formatted' = Formatted
    BY <1>1 DEF Filtered, Formatted, inputs, FilterId, AccessLevel, IsHealthCheck, LogLevel
  <2> QED
    BY <1>1, <1>2, <2>1 DEF IInv, AnswerInv, inputs
<1> QED
  BY <1>3, <1>5, <1>6, <1>7 DEF IInv

(* Every request that any pipeline handles satisfies the invariant.         *)
THEOREM RequestInvariance == Spec => []IInv
<1>1. IInv /\ [Next]_vars => IInv'
  BY ParserSteps, GuardSteps, InterceptorSteps, HandlerSteps, OtherSteps DEF Next
<1> QED
  BY <1>1, IInvInit, PTL DEF Spec

(* No handler runs for a forged page, without a token its route asks for,   *)
(* without a role it names, or on parts of a schema that are not stored.    *)
THEOREM HandlerIsGuardedHolds == Spec => []HandlerIsGuarded
<1>1. IInv => HandlerIsGuarded
  <2> SUFFICES ASSUME IInv, Handled PROVE HandlerIsGuarded
    BY DEF HandlerIsGuarded
  <2>1. BehindCsrf /\ BehindJwt /\ BehindRoles
    BY DEF BehindCsrf, BehindJwt, BehindRoles
  <2>2. csrfEnabled /\ request.write /\ request.cookie # "none" =>
          request.bearer # "none" \/ request.site # "foreign"
    BY <2>1 DEF IInv, GuardInv, CsrfPasses
  <2>3. route.public \/ Credential \in {"user", "admin"}
    BY <2>1 DEF IInv, GuardInv, IsValidToken
  <2>4. route.roles # {} => ~route.public /\ Credential \in route.roles
    BY <2>1, RoutesDeclared DEF IInv, TypeInv, GuardInv
  <2>5. validated = route.parts
    BY DEF IInv, ValidInv
  <2> QED
    BY <2>2, <2>3, <2>4, <2>5 DEF HandlerIsGuarded
<1> QED
  BY <1>1, RequestInvariance, PTL

(* Once the answer is out, nothing that is still running changes it.        *)
THEOREM AnsweredOnceHolds == Spec => AnsweredOnce
<1>1. ASSUME [Next]_vars, stage = "answered" PROVE UNCHANGED <<stage, answer, lines, outcome>>
  <2>1. CASE \E part \in pending : PartSettles(part)
    BY <1>1, <2>1 DEF PartSettles
  <2>2. CASE (\E s \in Sources : Pinged(s)) \/ ShutdownBegins \/ UNCHANGED vars
    BY <2>2 DEF Pinged, ShutdownBegins, vars
  <2>3. ~(ParseBody \/ AssignRequestId \/ CsrfGuard \/ JwtGuard \/ RolesGuard \/ Deprecate \/ Validate)
    BY <1>1 DEF ParseBody, AssignRequestId, CsrfGuard, JwtGuard, RolesGuard, Deprecate, Validate, Moves
  <2>4. ~Handler
    BY <1>1 DEF Handler, UseCaseHandler, DatabaseInfo, Live, Fallback, ReadyBegins, ReadyEnds
  <2> QED
    BY <1>1, <2>1, <2>2, <2>3, <2>4 DEF Next
<1> QED
  BY <1>1, PTL DEF Spec, AnsweredOnce

(* No text or detail of a driver or a library is in a formatted answer,     *)
(* unless the handler itself wrote it for the client: in an HttpException,  *)
(* an envelope, or the error of a Result that cannot be presented.          *)
THEOREM NothingInternalShownHolds == Spec => []NothingInternalShown
<1>1. IInv => NothingInternalShown
  <2> SUFFICES ASSUME IInv, answer.shape # "raw", outcome \notin {"asWritten", "envelope"}
               PROVE  answer.text # "internal" /\ (production => answer.details # "internal")
    BY DEF NothingInternalShown
  <2>1. CASE stage # "answered"
    BY <2>1 DEF IInv, TypeInv, NoAnswer
  <2>2. CASE Filtered
    BY <2>2 DEF Filtered
  <2>3. CASE Formatted
    BY <2>3 DEF Formatted
  <2> QED
    BY <2>1, <2>2, <2>3 DEF IInv, AnswerInv
<1> QED
  BY <1>1, RequestInvariance, PTL

(* The headers of a @Deprecated: a sunset no earlier than the deprecation,  *)
(* and the document it was given.                                           *)
LEMMA HeadersFormatted ==
    ASSUME NEW options, options.since \in Int, options.sunset \in Int, options.since <= options.sunset
    PROVE  LET headers == FormatDeprecationHeaders(options)
           IN  /\ 86400 * headers.sunset >= headers.deprecation
               /\ options.link # "none" =>
                    \E i \in DOMAIN headers.link : headers.link[i].rel = "deprecation"
<1> DEFINE headers == FormatDeprecationHeaders(options)
           successors == LinkTo(options.successor, "successor-version")
           entry == [rel |-> "deprecation", url |-> options.link]
<1>1. /\ headers.deprecation = options.since * 86400 /\ headers.sunset = options.sunset
      /\ headers.link = successors \o LinkTo(options.link, "deprecation")
  BY DEF FormatDeprecationHeaders
<1>2. ASSUME options.link # "none"
      PROVE  \E i \in DOMAIN headers.link : headers.link[i].rel = "deprecation"
  <2>1. successors = <<>> \/ \E other : successors = <<other>>
    BY DEF LinkTo
  <2>2. headers.link = successors \o <<entry>>
    BY <1>1, <1>2 DEF LinkTo
  <2> HIDE DEF successors, headers, entry
  <2>3. CASE successors = <<>>
    <3>1. headers.link = <<entry>>
      BY <2>2, <2>3
    <3> QED
      BY <3>1 DEF entry
  <2>4. ASSUME NEW other, successors = <<other>>
        PROVE  \E i \in DOMAIN headers.link : headers.link[i].rel = "deprecation"
    <3>1. <<other>> \in Seq({other, entry}) /\ <<entry>> \in Seq({other, entry})
      OBVIOUS
    <3>2. (<<other>> \o <<entry>>)[2] = entry /\ 2 \in DOMAIN (<<other>> \o <<entry>>)
      BY <3>1
    <3>3. entry.rel = "deprecation"
      BY DEF entry
    <3> QED
      BY <2>2, <2>4, <3>2, <3>3
  <2> QED
    BY <2>1, <2>3, <2>4
<1>3. 86400 * headers.sunset >= headers.deprecation
  BY <1>1
<1> QED
  BY <1>2, <1>3

(* A probe reads the flag and starts its pings in one step, so that a       *)
(* shutdown it does not know of began behind its back.                      *)
LEMMA ProbeSteps == IInv /\ ProbeInv /\ [Next]_vars => ProbeInv'
<1> SUFFICES ASSUME IInv, ProbeInv, [Next]_vars PROVE ProbeInv'
  OBVIOUS
<1>1. ASSUME UNCHANGED <<inputs, shutdown>>, stage' = "pinging" => stage = "pinging",
             outcome' = outcome \/ outcome' # "value" \/ route.handler # "ready" \/ stage = "pinging"
      PROVE  ProbeInv'
  BY <1>1 DEF ProbeInv, inputs, shutdown
<1>2. CASE ParseBody \/ AssignRequestId \/ CsrfGuard \/ JwtGuard \/ RolesGuard \/ Deprecate \/ Validate
  BY <1>1, <1>2 DEF ParseBody, AssignRequestId, CsrfGuard, JwtGuard, RolesGuard, Deprecate, Validate,
                    Moves, Catch
<1>3. CASE \E part \in pending : PartSettles(part)
  BY <1>1, <1>3 DEF PartSettles, Moves, Catch
<1>4. CASE UseCaseHandler \/ DatabaseInfo \/ Live \/ Fallback
  <2>1. UNCHANGED <<inputs, shutdown>> /\ route.handler # "ready" /\ stage' = "answered"
    BY <1>4 DEF UseCaseHandler, DatabaseInfo, Live, Fallback, Format, Send, Catch
  <2> QED
    BY <1>1, <2>1
<1>5. CASE ReadyBegins
  <2>1. CASE shuttingDown
    BY <1>1, <1>5, <2>1 DEF ReadyBegins, Catch
  <2>2. CASE ~shuttingDown
    BY <1>5, <2>2 DEF ReadyBegins, ProbeInv, shutdown
  <2> QED
    BY <2>1, <2>2
<1>6. CASE ReadyEnds
  <2>1. UNCHANGED <<inputs, shutdown>> /\ stage = "pinging" /\ stage' = "answered"
    BY <1>6 DEF ReadyEnds, Send, Catch
  <2> QED
    BY <1>1, <2>1
<1>7. CASE ShutdownBegins
  BY <1>7 DEF ShutdownBegins, ProbeInv, IInv, TypeInv, inputs
<1>8. CASE (\E s \in Sources : Pinged(s)) \/ UNCHANGED vars
  BY <1>1, <1>8 DEF Pinged, vars
<1> QED
  BY <1>2, <1>3, <1>4, <1>5, <1>6, <1>7, <1>8 DEF Next, Handler

(* Success is reported for success, and failure as an error unless the      *)
(* handler wrote the envelope; readiness stands for every source, and for   *)
(* no shutdown that began before the probe; and a deprecated route's notice *)
(* is on every answer that its interceptor let through.                     *)
THEOREM AnswerIsHonestHolds == Spec => []AnswerIsHonest
<1>1. IInv /\ ProbeInv => AnswerIsHonest
  <2> SUFFICES ASSUME IInv, ProbeInv, stage = "answered" PROVE AnswerIsHonest
    BY DEF AnswerIsHonest
  <2>1. /\ answer.shape = "data" => outcome = "value"
        /\ answer.status >= 400 => answer.shape = "error"
        /\ answer.shape = "error" /\ answer.status < 400 => outcome = "envelope"
        /\ outcome = "value" => answer.status = 200 /\ answer.shape # "error"
    <3>1. CASE Filtered
      <4>1. answer.shape = "error" /\ answer.status \in 400..599 /\ outcome # "value"
        BY <3>1 DEF Filtered
      <4>2. answer.status >= 400 /\ ~(answer.status < 400)
        BY <4>1
      <4> QED
        BY <4>1, <4>2
    <3>2. CASE Formatted
      <4>1. ~(200 >= 400)
        OBVIOUS
      <4> QED
        BY <3>2, <4>1 DEF Formatted
    <3> QED
      BY <3>1, <3>2 DEF IInv, AnswerInv
  <2>2. route.handler = "ready" /\ outcome = "value" =>
          (\A s \in Sources : probe[s] = "up") /\ (shuttingDown => overtaken)
    BY DEF IInv, AnswerInv, ProbeInv
  <2>3. ASSUME outcome # "none" \/ answer.details = "fields"
        PROVE  /\ (notice = {}) <=> (route.deprecated = {})
               /\ \A headers \in notice, options \in route.deprecated :
                     /\ 86400 * headers.sunset >= headers.deprecation
                     /\ options.link # "none" =>
                          \E i \in DOMAIN headers.link : headers.link[i].rel = "deprecation"
    <3>1. notice = {FormatDeprecationHeaders(options) : options \in route.deprecated}
      BY <2>3 DEF IInv, NoticeInv, Handled
    <3>2. ASSUME NEW headers \in notice, NEW options \in route.deprecated
          PROVE  headers = FormatDeprecationHeaders(options)
      BY <3>1, RoutesDeclared DEF IInv, TypeInv
    <3>3. ASSUME NEW options \in route.deprecated
          PROVE  options.since \in Int /\ options.sunset \in Int /\ options.since <= options.sunset
      BY RoutesDeclared, RoutesLoad DEF IInv, TypeInv, ParsesDeprecatedOptions
    <3> QED
      BY <3>1, <3>2, <3>3, HeadersFormatted
  <2> QED
    BY <2>1, <2>2, <2>3 DEF AnswerIsHonest
<1>2. Init => ProbeInv
  BY DEF Init, ProbeInv
<1> QED
  BY <1>1, <1>2, ProbeSteps, RequestInvariance, PTL DEF Spec

-----------------------------------------------------------------------------
(* Induction over the naturals, for a set.                                  *)
LEMMA NatSetInduction ==
    ASSUME NEW T, 0 \in T, \A n \in Nat : n \in T => n + 1 \in T
    PROVE  Nat \subseteq T
<1> SUFFICES ASSUME Nat \ T # {} PROVE FALSE
  OBVIOUS
<1>1. PICK x \in Nat \ T : \A y \in Nat \ T : <<y, x>> \notin OpToRel(<, Nat)
  BY NatLessThanWellFounded, WFMin
<1>2. x - 1 \in Nat /\ x - 1 < x
  OBVIOUS
<1>3. <<x - 1, x>> \in OpToRel(<, Nat)
  BY <1>2 DEF OpToRel
<1>4. x - 1 \in T
  BY <1>1, <1>2, <1>3
<1> QED
  BY <1>2, <1>4

(* A set of naturals that is not empty has a least element.                 *)
LEMMA MinFound ==
    ASSUME NEW S \in SUBSET Nat, S # {}
    PROVE  Min(S) \in S
<1>1. PICK x \in S : \A y \in S : <<y, x>> \notin OpToRel(<, Nat)
  BY NatLessThanWellFounded, WFMin
<1>2. \A y \in S : y < x => <<y, x>> \in OpToRel(<, Nat)
  BY DEF OpToRel
<1>3. \A y \in S : x <= y
  <2> SUFFICES ASSUME NEW y \in S, ~(x <= y) PROVE FALSE
    OBVIOUS
  <2>1. y < x
    OBVIOUS
  <2> QED
    BY <1>1, <1>2, <2>1
<1> QED
  BY <1>3 DEF Min

(* The first frame outside a set of frames to skip is found if there is any. *)
First(frames, skipped) ==
    LET I == {i \in 1..Len(frames) : frames[i] \notin skipped}
        first == IF I # {} THEN Min(I) ELSE 0
    IN  IF first = 0 THEN NoFrame ELSE frames[first]

(* ... and only if there is any.                                            *)
LEMMA FirstFound ==
    ASSUME NEW frames, NEW n \in Nat, Len(frames) = n, NEW skipped
    PROVE  \/ First(frames, skipped) \in {frames[i] : i \in 1..n} \ skipped
           \/ {frames[i] : i \in 1..n} \ skipped = {} /\ First(frames, skipped) = NoFrame
<1> DEFINE I == {i \in 1..Len(frames) : frames[i] \notin skipped}
           first == IF I # {} THEN Min(I) ELSE 0
           found == First(frames, skipped)
<1>1. found = IF first = 0 THEN NoFrame ELSE frames[first]
  BY DEF First
<1>2. I \in SUBSET Nat
  OBVIOUS
<1>3. I # {} => Min(I) \in I
  BY <1>2, MinFound
<1> HIDE DEF I, found
<1>4. CASE I = {}
  BY <1>1, <1>4 DEF I, found
<1>5. CASE I # {}
  <2>1. first \in 1..n /\ found = frames[first]
    BY <1>1, <1>3, <1>5 DEF I
  <2>2. found \notin skipped
    BY <1>3, <1>5, <2>1 DEF I
  <2> QED
    BY <2>1, <2>2 DEF found
<1> QED
  BY <1>4, <1>5

(* The errors of a walk down the causes, each the cause of the one before.  *)
Walk(graph, seen) ==
    /\ seen \in Seq(DOMAIN graph.stack) /\ seen # <<>>
    /\ \A i \in 1..(Len(seen) - 1) : seen[i + 1] = graph.cause[seen[i]]

Elements(seen) == {seen[i] : i \in 1..Len(seen)}

CausesOf(graph, errors) == {graph.cause[x] : x \in errors \ {Nothing}}

(* A sequence of one element.                                               *)
LEMMA OneElement ==
    ASSUME NEW D, NEW d \in D
    PROVE  <<d>> \in Seq(D) /\ Len(<<d>>) = 1 /\ <<d>> # <<>>
<1>1. <<d>> \in Seq(D)
  OBVIOUS
<1>2. Len(<<d>>) = 1 /\ <<d>> # <<>>
  OBVIOUS
<1> QED
  BY <1>1, <1>2

(* The first visit is to the error itself.                                  *)
LEMMA FirstVisit ==
    ASSUME NEW graph \in Graphs
    PROVE  LET seen == Visit(graph, graph.root, <<>>)
           IN  Walk(graph, seen) /\ Elements(seen) = {graph.root}
<1> DEFINE seen == Visit(graph, graph.root, <<>>)
<1>1. graph.root # Nothing /\ graph.root \in DOMAIN graph.stack
  BY GraphsClosed
<1>2. seen = <<graph.root>>
  BY <1>1 DEF Visit, Contains
<1> HIDE DEF seen
<1>3. Walk(graph, seen)
  <2>1. /\ <<graph.root>> \in Seq(DOMAIN graph.stack) /\ <<graph.root>> # <<>>
        /\ Len(<<graph.root>>) = 1
    BY <1>1, OneElement, Zenon
  <2>2. \A i \in 1..(Len(seen) - 1) : FALSE
    BY <1>2, <2>1
  <2> QED
    BY <1>2, <2>1, <2>2 DEF Walk
<1>4. Elements(seen) = {graph.root}
  BY <1>2 DEF Elements
<1> QED
  BY <1>3, <1>4 DEF seen

(* A further visit goes to the causes of all that was seen, and no further. *)
LEMMA FurtherVisit ==
    ASSUME NEW graph \in Graphs, NEW seen, Walk(graph, seen)
    PROVE  LET next == Visit(graph, graph.root, seen)
           IN  /\ Walk(graph, next)
               /\ Elements(next) = (Elements(seen) \cup CausesOf(graph, Elements(seen))) \ {Nothing}
<1> DEFINE E == DOMAIN graph.stack
           next == Visit(graph, graph.root, seen)
           n == Len(seen)
           current == graph.cause[seen[n]]
<1>1. /\ seen \in Seq(E) /\ n \in Nat \ {0} /\ seen # <<>>
      /\ \A i \in 1..n : seen[i] \in E
      /\ \A i \in 1..(n - 1) : seen[i + 1] = graph.cause[seen[i]]
  BY DEF Walk
<1>2. Nothing \notin E /\ current \in E \cup {Nothing}
  BY <1>1, GraphsClosed
<1>3. next = IF current = Nothing \/ current \in Elements(seen) THEN seen ELSE Append(seen, current)
  BY <1>1 DEF Visit, CauseOf, Last, Contains, Elements
<1>4. CausesOf(graph, Elements(seen)) = {graph.cause[seen[i]] : i \in 1..n}
  BY <1>1, <1>2 DEF CausesOf, Elements
<1>5. {graph.cause[seen[i]] : i \in 1..n} = {graph.cause[seen[i]] : i \in 1..(n - 1)} \cup {current}
  <2>1. \A i \in 1..n : i \in 1..(n - 1) \/ i = n
    BY <1>1
  <2>2. n \in 1..n /\ \A i \in 1..(n - 1) : i \in 1..n
    BY <1>1
  <2> QED
    BY <2>1, <2>2
<1>6. {graph.cause[seen[i]] : i \in 1..(n - 1)} \subseteq Elements(seen)
  <2> SUFFICES ASSUME NEW i \in 1..(n - 1) PROVE graph.cause[seen[i]] \in Elements(seen)
    OBVIOUS
  <2>1. i + 1 \in 1..n /\ graph.cause[seen[i]] = seen[i + 1]
    BY <1>1
  <2> QED
    BY <2>1 DEF Elements
<1>7. Elements(seen) \subseteq E
  BY <1>1 DEF Elements
<1> HIDE DEF next, current, E, n
<1>8. (Elements(seen) \cup CausesOf(graph, Elements(seen))) \ {Nothing}
        = (Elements(seen) \cup {current}) \ {Nothing}
  BY <1>4, <1>5, <1>6
<1>9. CASE current = Nothing \/ current \in Elements(seen)
  <2>1. next = seen
    BY <1>3, <1>9
  <2>2. (Elements(seen) \cup {current}) \ {Nothing} = Elements(seen)
    BY <1>2, <1>7, <1>9
  <2> QED
    BY <1>8, <2>1, <2>2 DEF next
<1>10. CASE current # Nothing /\ current \notin Elements(seen)
  <2>1. next = Append(seen, current) /\ current \in E
    BY <1>2, <1>3, <1>10
  <2>2. /\ next \in Seq(E) /\ Len(next) = n + 1 /\ next[n + 1] = current
        /\ \A i \in 1..n : next[i] = seen[i]
    BY <1>1, <2>1 DEF n
  <2>3. \A i \in 1..(Len(next) - 1) : next[i + 1] = graph.cause[next[i]]
    <3> SUFFICES ASSUME NEW i \in 1..n PROVE next[i + 1] = graph.cause[next[i]]
      BY <1>1, <2>2
    <3>1. CASE i = n
      BY <2>2, <3>1, <1>1 DEF current
    <3>2. CASE i # n
      <4>1. i \in 1..(n - 1) /\ i + 1 \in 1..n
        BY <1>1, <3>2
      <4> QED
        BY <1>1, <2>2, <4>1
    <3> QED
      BY <3>1, <3>2
  <2>4. next # <<>>
    BY <1>1, <2>2
  <2>5. Walk(graph, next)
    BY <2>2, <2>3, <2>4 DEF Walk, E
  <2>6. Elements(next) = Elements(seen) \cup {current}
    <3>1. \A i \in 1..Len(next) : i \in 1..n \/ i = n + 1
      BY <1>1, <2>2
    <3>2. \A i \in 1..n : i \in 1..Len(next)
      BY <1>1, <2>2
    <3>3. n + 1 \in 1..Len(next)
      BY <1>1, <2>2
    <3>4. Elements(seen) = {seen[i] : i \in 1..n}
      BY DEF Elements, n
    <3> QED
      BY <2>2, <3>1, <3>2, <3>3, <3>4 DEF Elements
  <2>7. (Elements(seen) \cup {current}) \ {Nothing} = Elements(seen) \cup {current}
    BY <1>2, <1>7, <1>10
  <2> QED
    BY <1>8, <2>5, <2>6, <2>7 DEF next
<1> QED
  BY <1>9, <1>10

(* A function defined by recursion over a range of naturals exists.         *)
LEMMA RecursionDefined ==
    ASSUME NEW D, NEW base \in D, NEW step \in [D -> D]
    PROVE  \A m \in Nat : \E f \in [0..m -> D] :
              f = [n \in 0..m |-> IF n = 0 THEN base ELSE step[f[n - 1]]]
<1> DEFINE Unfold(f, m) == [n \in 0..m |-> IF n = 0 THEN base ELSE step[f[n - 1]]]
           T == {m \in Nat : \E f \in [0..m -> D] : f = Unfold(f, m)}
<1>1. 0 \in T
  <2> DEFINE f == [n \in 0..0 |-> base]
  <2>1. f = Unfold(f, 0) /\ f \in [0..0 -> D]
    OBVIOUS
  <2> QED
    BY <2>1
<1>2. ASSUME NEW m \in Nat, m \in T PROVE m + 1 \in T
  <2>1. PICK f \in [0..m -> D] : f = Unfold(f, m)
    BY <1>2
  <2> DEFINE g == [n \in 0..(m + 1) |-> IF n = m + 1 THEN step[f[m]] ELSE f[n]]
  <2>2. g \in [0..(m + 1) -> D]
    OBVIOUS
  <2>3. ASSUME NEW n \in 0..(m + 1) PROVE g[n] = IF n = 0 THEN base ELSE step[g[n - 1]]
    <3>1. CASE n = 0
      BY <2>1, <3>1
    <3>2. CASE n \in 1..m
      <4>1. g[n] = f[n] /\ g[n - 1] = f[n - 1]
        BY <3>2
      <4>2. f[n] = step[f[n - 1]]
        BY <2>1, <3>2
      <4> QED
        BY <3>2, <4>1, <4>2
    <3>3. CASE n = m + 1
      <4>1. g[m + 1] = step[f[m]] /\ g[m] = f[m] /\ n - 1 = m /\ n # 0
        BY <3>3
      <4> QED
        BY <3>3, <4>1
    <3> QED
      BY <3>1, <3>2, <3>3
  <2>4. g = Unfold(g, m + 1)
    BY <2>3
  <2> HIDE DEF g, Unfold
  <2>5. m + 1 \in Nat /\ \E h \in [0..(m + 1) -> D] : h = Unfold(h, m + 1)
    BY <2>2, <2>4
  <2> QED
    BY <2>5
<1> HIDE DEF T
<1>3. Nat \subseteq T
  BY <1>1, <1>2, NatSetInduction
<1> QED
  BY <1>3 DEF T

(* What the two loops have seen of a graph when they stop: the elements of  *)
(* a walk, namely all errors within the cap's reach of the root.            *)
LEMMA ChainReaches ==
    ASSUME NEW graph \in Graphs
    PROVE  LET chain == Chain(graph, graph.root)
           IN  /\ Walk(graph, chain)
               /\ Elements(chain) = {x \in DOMAIN graph.stack : Reaches(graph, x, MAX_CAUSE_DEPTH - 1)}
<1> DEFINE E == DOMAIN graph.stack
           M == MAX_CAUSE_DEPTH
           root == graph.root
           stepV == [seen \in Seq(E) |-> Visit(graph, root, seen)]
           stepR == [errors \in SUBSET (E \cup {Nothing}) |-> errors \cup CausesOf(graph, errors)]
           UnfoldV(v) == [n \in 0..M |-> IF n = 0 THEN <<>> ELSE Visit(graph, root, v[n - 1])]
           UnfoldR(r) == [k \in 0..(M - 1) |-> IF k = 0 THEN {root}
                            ELSE r[k - 1] \cup {graph.cause[x] : x \in r[k - 1] \ {Nothing}}]
           v == CHOOSE f : f = UnfoldV(f)
           r == CHOOSE f : f = UnfoldR(f)
<1>1. M \in Nat \ {0} /\ root \in E /\ Nothing \notin E /\ \A x \in E : graph.cause[x] \in E \cup {Nothing}
  BY DepthAssumption, GraphsClosed
<1>2. stepV \in [Seq(E) -> Seq(E)] /\ <<>> \in Seq(E)
  <2> SUFFICES ASSUME NEW seen \in Seq(E) PROVE Visit(graph, root, seen) \in Seq(E)
    OBVIOUS
  <2> DEFINE current == IF seen = <<>> THEN root ELSE CauseOf(graph, Last(seen))
  <2>1. seen # <<>> => Last(seen) \in E
    BY DEF Last
  <2>2. current \in E \cup {Nothing}
    BY <1>1, <2>1 DEF CauseOf
  <2>3. Visit(graph, root, seen) = IF current = Nothing \/ Contains(seen, current)
                                    THEN seen ELSE Append(seen, current)
    BY DEF Visit
  <2> HIDE DEF current, E
  <2> QED
    BY <2>2, <2>3
<1>3. stepR \in [SUBSET (E \cup {Nothing}) -> SUBSET (E \cup {Nothing})] /\ {root} \in SUBSET (E \cup {Nothing})
  BY <1>1 DEF CausesOf
<1>4. \E f : f = UnfoldV(f)
  <2> DEFINE S == Seq(E)
             start == <<>>
  <2>0. M \in Nat /\ start \in S /\ stepV \in [S -> S]
    BY <1>1, <1>2
  <2>1. \A seen \in S : stepV[seen] = Visit(graph, root, seen)
    OBVIOUS
  <2> HIDE DEF S, stepV, M, start
  <2>2. PICK f \in [0..M -> S] : f = [n \in 0..M |-> IF n = 0 THEN start ELSE stepV[f[n - 1]]]
    BY <2>0, RecursionDefined
  <2>3. \A n \in 0..M : n # 0 => f[n - 1] \in S
    BY <2>0
  <2>4. f = UnfoldV(f)
    BY <2>1, <2>2, <2>3 DEF start
  <2> QED
    BY <2>4
<1>5. \E f : f = UnfoldR(f)
  <2> DEFINE S == SUBSET (E \cup {Nothing})
             K == M - 1
  <2>1. K \in Nat /\ {root} \in S /\ stepR \in [S -> S]
    BY <1>1, <1>3
  <2>4. \A errors \in S : stepR[errors] = errors \cup {graph.cause[x] : x \in errors \ {Nothing}}
    BY DEF CausesOf
  <2> HIDE DEF S, stepR, K
  <2>2. PICK f \in [0..K -> S] : f = [k \in 0..K |-> IF k = 0 THEN {root} ELSE stepR[f[k - 1]]]
    BY <2>1, RecursionDefined
  <2>3. \A k \in 0..K : k # 0 => f[k - 1] \in S
    BY <2>1
  <2>5. f = UnfoldR(f)
    BY <2>2, <2>3, <2>4 DEF K
  <2> QED
    BY <2>5
<1>6. v = UnfoldV(v) /\ r = UnfoldR(r)
  BY <1>4, <1>5
<1>7. Chain(graph, root) = v[M]
  BY DEF Chain
<1>8. \A x : Reaches(graph, x, M - 1) <=> x \in r[M - 1]
  BY DEF Reaches
<1> DEFINE T == {n \in Nat : n + 1 <= M => /\ Walk(graph, v[n + 1])
                                          /\ Elements(v[n + 1]) = r[n] \ {Nothing}}
<1> HIDE DEF v, r, stepV, stepR
<1>9. 0 \in T
  <2>1. 1 \in 0..M /\ 0 \in 0..M /\ 0 \in 0..(M - 1)
    BY <1>1
  <2>2. v[1] = Visit(graph, root, <<>>) /\ r[0] = {root}
    BY <1>6, <2>1
  <2>3. Walk(graph, v[1]) /\ Elements(v[1]) = r[0] \ {Nothing}
    BY <1>1, <2>2, FirstVisit
  <2> QED
    BY <2>3
<1>10. ASSUME NEW n \in Nat, n \in T PROVE n + 1 \in T
  <2> SUFFICES ASSUME (n + 1) + 1 <= M
               PROVE  Walk(graph, v[(n + 1) + 1]) /\ Elements(v[(n + 1) + 1]) = r[n + 1] \ {Nothing}
    OBVIOUS
  <2>1. n + 1 <= M /\ n + 2 \in 0..M /\ n + 1 \in 0..(M - 1) /\ (n + 1) + 1 = n + 2
    BY <1>1
  <2>2. Walk(graph, v[n + 1]) /\ Elements(v[n + 1]) = r[n] \ {Nothing}
    BY <1>10, <2>1
  <2>3. v[n + 2] = Visit(graph, root, v[n + 1])
    <3>1. n + 2 # 0 /\ (n + 2) - 1 = n + 1
      OBVIOUS
    <3> QED
      BY <1>6, <2>1, <3>1
  <2>4. r[n + 1] = r[n] \cup CausesOf(graph, r[n])
    <3>1. n + 1 # 0 /\ (n + 1) - 1 = n
      OBVIOUS
    <3> QED
      BY <1>6, <2>1, <3>1 DEF CausesOf
  <2>5. CausesOf(graph, Elements(v[n + 1])) = CausesOf(graph, r[n])
    BY <2>2 DEF CausesOf
  <2>6. Walk(graph, v[n + 2]) /\ Elements(v[n + 2])
            = (Elements(v[n + 1]) \cup CausesOf(graph, Elements(v[n + 1]))) \ {Nothing}
    BY <2>2, <2>3, FurtherVisit
  <2>7. Elements(v[n + 2]) = r[n + 1] \ {Nothing}
    BY <2>2, <2>4, <2>5, <2>6
  <2> QED
    BY <2>1, <2>6, <2>7
<1>11. M - 1 \in Nat /\ M - 1 \in T
  <2> HIDE DEF T
  <2> QED
    BY <1>1, <1>9, <1>10, NatSetInduction
<1>12. Walk(graph, v[M]) /\ Elements(v[M]) = r[M - 1] \ {Nothing}
  <2>1. (M - 1) + 1 = M /\ (M - 1) + 1 <= M
    BY <1>1
  <2> QED
    BY <1>11, <2>1
<1>13. Elements(v[M]) \subseteq E
  BY <1>12 DEF Walk, Elements
<1>14. Elements(v[M]) = {x \in E : x \in r[M - 1]}
  BY <1>1, <1>12, <1>13
<1> QED
  BY <1>7, <1>8, <1>12, <1>14

(* The frames an error log line names: the first of ours along the causes,  *)
(* and another one, whenever there is one, further down.                    *)
LEMMA OriginResolved ==
    ASSUME NEW graph \in Graphs, NEW from, from = ResolveErrorOrigin(graph, graph.root)
    PROVE  LET own == OwnFrames(graph)
           IN  /\ from.origin \in own \/ (own = {} /\ from.origin = NoFrame)
               /\ from.causeOrigin \in (own \ {from.origin}) \cup {NoFrame}
               /\ Cardinality(own) > 1 => from.causeOrigin # NoFrame
<1> DEFINE chain == Chain(graph, graph.root)
           n == Len(chain)
           frames == [i \in DOMAIN chain |-> FrameFromStack(graph.stack[chain[i]])]
           origin == FirstFrame(frames, LAMBDA f : f # NoFrame)
           causeOrigin == FirstFrame(frames, LAMBDA f : f \notin {NoFrame, origin})
           all == {frames[i] : i \in 1..n}
           own == OwnFrames(graph)
<1>1. from.origin = origin /\ from.causeOrigin = causeOrigin
  BY DEF ResolveErrorOrigin
<1>2. Walk(graph, chain) /\ Elements(chain) = {x \in DOMAIN graph.stack : Reaches(graph, x, MAX_CAUSE_DEPTH - 1)}
  BY ChainReaches
<1>3. n \in Nat /\ DOMAIN chain = 1..n
  BY <1>2 DEF Walk
<1>4. DOMAIN frames = 1..n /\ Len(frames) = n
  BY <1>3
<1>5. all = {FrameFromStack(graph.stack[e]) : e \in Elements(chain)}
  BY <1>3 DEF Elements
<1>6. own = all \ {NoFrame}
  BY <1>2, <1>5 DEF OwnFrames
<1> HIDE DEF chain, n, frames, all, own
<1>7. origin \in own \/ (own = {} /\ origin = NoFrame)
  <2>1. origin = First(frames, {NoFrame})
    BY DEF FirstFrame, SelectInSeq, First
  <2> HIDE DEF origin
  <2>2. origin \in all \ {NoFrame} \/ (all \ {NoFrame} = {} /\ origin = NoFrame)
    BY <1>3, <1>4, <2>1, FirstFound DEF all
  <2> QED
    BY <1>6, <2>2
<1> HIDE DEF origin
<1>8. causeOrigin \in all \ {NoFrame, origin} \/ (all \ {NoFrame, origin} = {} /\ causeOrigin = NoFrame)
  <2>1. causeOrigin = First(frames, {NoFrame, origin})
    BY DEF FirstFrame, SelectInSeq, First
  <2> HIDE DEF causeOrigin
  <2> QED
    BY <1>3, <1>4, <2>1, FirstFound DEF all
<1> HIDE DEF causeOrigin
<1>9. ASSUME causeOrigin = NoFrame PROVE ~(Cardinality(own) > 1)
  <2>1. own \subseteq {origin}
    BY <1>6, <1>8, <1>9
  <2>2. IsFiniteSet({origin}) /\ Cardinality({origin}) = 1
    BY FS_Singleton
  <2>3. Cardinality(own) \in Nat /\ Cardinality(own) <= 1
    BY <2>1, <2>2, FS_Subset, FS_CardinalityType
  <2> QED
    BY <2>3
<1> QED
  BY <1>1, <1>6, <1>7, <1>8, <1>9 DEF own

(* Every failure has its log line, under the client's id and at its level,  *)
(* and names our own frames wherever the causes within reach hold any.      *)
THEOREM LinesMatchAnswerHolds == Spec => []LinesMatchAnswer
<1>1. IInv => LinesMatchAnswer
  <2> SUFFICES ASSUME IInv, stage = "answered" PROVE LinesMatchAnswer
    BY DEF LinesMatchAnswer
  <2>1. /\ answer.status >= 400 => lines.filter # "none" /\ lines.id = answer.id
        /\ answer.status >= 500 <=> lines.filter = "error"
        /\ id # "none" => answer.id \in {id, "none"}
        /\ lines.access = "silent" => answer.status < 400 /\ IsHealthCheck
        /\ lines.graph # <<>> => \E graph \in Graphs :
             lines.graph = <<graph>> /\ lines.from = ResolveErrorOrigin(graph, graph.root)
    <3>1. CASE Filtered
      <4>1. answer.status \in 400..599 /\ lines.filter = LogLevel(answer.status)
        BY <3>1 DEF Filtered
      <4>2. lines.filter = IF answer.status >= 500 THEN "error" ELSE "warn"
        BY <4>1 DEF LogLevel
      <4>3. lines.access # "silent"
        <5>0. answer.status >= 400
          BY <4>1
        <5>1. lines.access = AccessLevel(answer.status)
          BY <3>1 DEF Filtered
        <5>2. AccessLevel(answer.status) \in {"none", "error", "warn"}
          BY <5>0 DEF AccessLevel
        <5> QED
          BY <5>1, <5>2
      <4>4. lines.id = answer.id /\ (id # "none" => answer.id = id)
        BY <3>1 DEF Filtered, FilterId
      <4>5. lines.graph # <<>> => \E graph \in Graphs :
              lines.graph = <<graph>> /\ lines.from = ResolveErrorOrigin(graph, graph.root)
        BY <3>1 DEF Filtered
      <4> QED
        BY <4>2, <4>3, <4>4, <4>5
    <3>2. CASE Formatted
      <4>1. answer.status = 200 /\ lines.filter = "none" /\ lines.graph = <<>> /\ answer.id \in {id, "none"}
        BY <3>2 DEF Formatted
      <4>2. lines.access = "silent" => IsHealthCheck
        BY <3>2 DEF Formatted, AccessLevel
      <4>3. ~(200 >= 400) /\ ~(200 >= 500) /\ 200 < 400
        OBVIOUS
      <4> QED
        BY <4>1, <4>2, <4>3
    <3> QED
      BY <3>1, <3>2 DEF IInv, AnswerInv
  <2>2. id # "none" => id \in {"safe", "generated"}
    BY DEF IInv, TypeInv
  <2>3. lines.graph # <<>> =>
          LET own == OwnFrames(lines.graph[1])
          IN  /\ lines.from.origin \in own \/ (own = {} /\ lines.from.origin = NoFrame)
              /\ lines.from.causeOrigin \in (own \ {lines.from.origin}) \cup {NoFrame}
              /\ Cardinality(own) > 1 => lines.from.causeOrigin # NoFrame
    <3> SUFFICES ASSUME NEW graph \in Graphs, lines.graph = <<graph>>,
                        lines.from = ResolveErrorOrigin(graph, graph.root)
                 PROVE  LET own == OwnFrames(graph)
                        IN  /\ lines.from.origin \in own \/ (own = {} /\ lines.from.origin = NoFrame)
                            /\ lines.from.causeOrigin \in (own \ {lines.from.origin}) \cup {NoFrame}
                            /\ Cardinality(own) > 1 => lines.from.causeOrigin # NoFrame
      BY <2>1
    <3> QED
      BY OriginResolved
  <2> QED
    BY <2>1, <2>2, <2>3 DEF LinesMatchAnswer
<1> QED
  BY <1>1, RequestInvariance, PTL
=============================================================================
