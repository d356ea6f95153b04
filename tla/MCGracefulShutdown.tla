------------------------- MODULE MCGracefulShutdown -------------------------
(***************************************************************************)
(* A few clients, jobs and pools; the cfg gives the constants their values. *)
(***************************************************************************)
EXTENDS GracefulShutdown
=============================================================================
