------------------------- MODULE MCLegacyForwarder -------------------------
(***************************************************************************)
(* Paths around a configured prefix: the prefix, a path below it, and a     *)
(* path that only shares its first letters; and a prefix with a slash too   *)
(* many next to the path with one.                                          *)
(***************************************************************************)
EXTENDS LegacyForwarder

MCPaths == {<<"v1", "orders", "">>, <<"v1", "orders", "1">>, <<"v1", "orders-archive">>,
            <<"v2", "">>}
MCForwardPrefixes == {<<"v1", "orders", "">>, <<"v2", "", "">>}
=============================================================================
