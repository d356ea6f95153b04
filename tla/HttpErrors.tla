---------------------------- MODULE HttpErrors ----------------------------
(***************************************************************************)
(* What is thrown at the interface layer, and what GlobalExceptionFilter    *)
(* and ErrorPresenter answer for it.  Of a text only its origin matters:    *)
(* "authored" for the client, "internal" (a driver's or library's message), *)
(* or "fixed" in the code that writes the answer.                           *)
(***************************************************************************)
EXTENDS Integers, ErrorOrigin

NoProblem == [kind |-> "none", detail |-> "none", fields |-> FALSE]

Problem(kind, detail) == [kind |-> kind, detail |-> detail, fields |-> FALSE]

Thrown == [http |-> 0, body |-> "none", status |-> 0, expose |-> FALSE, message |-> "internal",
           toProblem |-> "none", problem |-> NoProblem, marker |-> "none"]

(* A Nest HttpException: its response is an envelope, a record, a text or   *)
(* a list of texts, or something without a message to show.                 *)
HttpException(status, body) == [Thrown EXCEPT !.http = status, !.body = body, !.message = "authored"]

(* The errors of express middleware.                                        *)
HttpError(status, expose) ==
    [Thrown EXCEPT !.status = status, !.expose = expose, !.message = "authored"]

Presentable(marker, message, problem) ==
    [Thrown EXCEPT !.marker = marker, !.message = message, !.toProblem = "returns", !.problem = problem]

AppError(message, problem) == Presentable("app", message, problem)
DomainError(message, problem) == Presentable("domain", message, problem)

PlainAppError == AppError("authored", Problem("internal", "message"))
PlainDomainError == DomainError("authored", Problem("validation", "message"))
BadRequestError == AppError("authored", Problem("bad_request", "message"))
ConflictError == AppError("authored", Problem("conflict", "message"))
ForbiddenError == AppError("authored", Problem("forbidden", "message"))
NotFoundError == AppError("authored", Problem("not_found", "message"))
UnauthorizedError == AppError("authored", Problem("unauthorized", "message"))
UnexpectedError == AppError("fixed", Problem("internal", "message"))
InfrastructureError == AppError("internal", Problem("service_unavailable", "fixed"))
CsrfRejectedError == ForbiddenError
AggregateNotFoundError == DomainError("authored", Problem("not_found", "message"))
ValidationError == DomainError("fixed", [Problem("validation", "message") EXCEPT !.fields = TRUE])
DatabaseConnectionError == AppError("internal", Problem("service_unavailable", "fixed"))
DatabaseExecutionError == AppError("internal", Problem("internal", "fixed"))
AggregateDbHealthError == AppError("fixed", Problem("service_unavailable", "fixed"))
UnknownSourceKeyError == AppError("fixed", Problem("service_unavailable", "fixed"))
UnsupportedDialectError == AppError("fixed", Problem("not_implemented", "fixed"))

(* What a driver error becomes, by its code.                                *)
MapOracleError(code) ==
    IF code = "none" THEN Thrown
    ELSE IF code = "ORA-00001" THEN ConflictError
    ELSE IF code = "connection" THEN DatabaseConnectionError ELSE DatabaseExecutionError

KIND_TO_STATUS ==
    [validation |-> 422, not_found |-> 404, conflict |-> 409, unauthorized |-> 401,
     forbidden |-> 403, service_unavailable |-> 503, bad_request |-> 400, internal |-> 500,
     not_implemented |-> 501]

Answer(status, text, details) == [status |-> status, text |-> text, details |-> details]

(* A toProblem that throws, or returns something that is no problem, counts *)
(* as none.                                                                 *)
ToProblemOnce(error) == IF error.toProblem = "returns" THEN error.problem ELSE NoProblem

IsPresentableError(error) == ToProblemOnce(error) # NoProblem

\* Mutant of Present: the last resort shows the error's own message.
Present_OwnMessage(error) ==
    LET problem == ToProblemOnce(error)
    IN  IF problem # NoProblem
          THEN Answer(KIND_TO_STATUS[problem.kind],
                      IF problem.detail = "message" THEN error.message ELSE "fixed",
                      IF problem.fields THEN "fields" ELSE "none")
          ELSE Answer(500, error.message, "none")

Present(error) ==
    LET problem == ToProblemOnce(error)
    IN  IF problem # NoProblem
          THEN Answer(KIND_TO_STATUS[problem.kind],
                      IF problem.detail = "message" THEN error.message ELSE "fixed",
                      IF problem.fields THEN "fields" ELSE "none")
        ELSE IF error.marker = "domain" THEN Answer(422, error.message, "none")
        ELSE Answer(500, "fixed", "none")

IsExposedClientError(error) == error.expose /\ error.status \in 400..499

(* The body of catch(), by the type of what was caught.                     *)
CatchAnswer(error) ==
    IF error.http # 0
      THEN Answer(error.http,
                  IF error.body = "other" THEN "fixed" ELSE error.message,
                  IF error.body = "details" THEN "fields"
                  ELSE IF error.body = "driverDetails" THEN "internal" ELSE "none")
    ELSE IF IsExposedClientError(error) THEN Answer(error.status, error.message, "none")
    ELSE Present(error)

LogLevel(status) == IF status < 400 THEN "none" ELSE IF status >= 500 THEN "error" ELSE "warn"
=============================================================================
