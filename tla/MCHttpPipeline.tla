--------------------------- MODULE MCHttpPipeline ---------------------------
(***************************************************************************)
(* A route of each kind, and error graphs with a cycle, a chain as long as  *)
(* the cap, one line in two errors, a dependency's stack on top, and no     *)
(* frame of ours at all.                                                    *)
(***************************************************************************)
EXTENDS HttpPipeline

Route(public, roles, deprecated, parts, async, raw, handler) ==
    [public |-> public, roles |-> roles, deprecated |-> deprecated, parts |-> parts,
     async |-> async, raw |-> raw, handler |-> handler]

Options(successor, link) ==
    [since |-> 1, sunset |-> 1, successor |-> successor, link |-> link]

MCRoutes ==
    {Route(TRUE, {}, {}, {}, FALSE, FALSE, "live"),
     Route(TRUE, {}, {}, {}, FALSE, FALSE, "ready"),
     Route(TRUE, {}, {}, {}, FALSE, FALSE, "fallback"),
     Route(FALSE, {}, {}, {}, FALSE, FALSE, "databaseInfo"),
     Route(TRUE, {"admin"}, {Options("none", "docs")}, {}, FALSE, FALSE, "useCase"),
     Route(FALSE, {}, {}, {"body", "query"}, FALSE, FALSE, "useCase"),
     Route(FALSE, {"admin"}, {Options("v2", "none")}, {"body", "query"}, TRUE, FALSE, "useCase"),
     Route(FALSE, {}, {}, {}, FALSE, TRUE, "useCase")}

Own(n) == [place |-> "src", line |-> n]
Built(n) == [place |-> "dist", line |-> n]
Lib == [place |-> "node_modules", line |-> 9]

Graph(cause2, cause3, stack1, stack2, stack3) ==
    [root |-> "e1", cause |-> [e1 |-> "e2", e2 |-> cause2, e3 |-> cause3],
     stack |-> [e1 |-> stack1, e2 |-> stack2, e3 |-> stack3]]

MCGraphs ==
    {Graph("e1", Nothing, <<Lib, Own(1)>>, <<Own(2)>>, <<>>),
     Graph("e3", "e2", <<Lib>>, <<Own(1), Own(3)>>, <<Own(2)>>),
     Graph("e3", Nothing, <<Built(1)>>, <<Built(1)>>, <<Lib, Built(2)>>),
     Graph("e2", Nothing, <<Lib>>, <<Lib>>, <<Own(1)>>),
     Graph(Nothing, Nothing, <<>>, <<Own(2)>>, <<Own(1)>>)}
=============================================================================
