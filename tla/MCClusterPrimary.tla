-------------------------- MODULE MCClusterPrimary --------------------------
(***************************************************************************)
(* Small clusters for TLC; the cfgs give every constant its value.          *)
(***************************************************************************)
EXTENDS ClusterPrimary
=============================================================================
