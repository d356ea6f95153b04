-------------------------- MODULE MCClusterShutdown --------------------------
(***************************************************************************)
(* One worker under a primary, with small budgets.                          *)
(***************************************************************************)
EXTENDS ClusterShutdown
==============================================================================
