--------------------------- MODULE ForwardPromise ---------------------------
(***************************************************************************)
(* What the legacy forwarder promises of one request: one outcome, settled  *)
(* once, that agrees with what was handed to the client, and nothing handed *)
(* over after it.                                                           *)
(***************************************************************************)

VARIABLES
    got,     \* what the client's connection was given
    outcome  \* how the request ended

promiseVars == <<got, outcome>>

PromiseInit == got = "nothing" /\ outcome = "none"

Answers ==
    /\ outcome = "none"
    /\ \/ got = "nothing" /\ got' = "part"
       \/ got = "part" /\ got' = "whole"
    /\ UNCHANGED outcome

Completes == got = "whole" /\ outcome' = "completed" /\ UNCHANGED got

Aborts == got # "gatewayError" /\ outcome' = "aborted" /\ UNCHANGED got

(* Also behind a whole answer, while that is not written out.               *)
Fails ==
    /\ outcome' = "failed"
    /\ \/ got = "nothing" /\ got' = "gatewayError"
       \/ got # "gatewayError" /\ UNCHANGED got

PromiseNext == Answers \/ (outcome = "none" /\ (Completes \/ Aborts \/ Fails))

PromiseSpec == PromiseInit /\ [][PromiseNext]_promiseVars
=============================================================================
