--------------------------- MODULE MCOracleClient ---------------------------
(***************************************************************************)
(* A few calls on fewer sessions.  Calls and users are interchangeable.     *)
(***************************************************************************)
EXTENDS OracleClient, TLC

Symmetry == Permutations(Calls) \cup Permutations(Users)
=============================================================================
