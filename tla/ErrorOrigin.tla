---------------------------- MODULE ErrorOrigin ----------------------------
(***************************************************************************)
(* The frame of our own code that an error log line names.  An error graph  *)
(* gives each error object its cause and its stack; causes may form cycles. *)
(* A frame is the place it is in ("src", "dist", "test", "node_modules" or  *)
(* "node") and the line it names.                                           *)
(***************************************************************************)
EXTENDS Integers, SequencesExt

CONSTANT MAX_CAUSE_DEPTH

ASSUME DepthAssumption == MAX_CAUSE_DEPTH \in Nat \ {0}

Nothing == "nothing"
NoFrame == [place |-> "none", line |-> 0]

IsOwnFrame(frame) == frame.place \in {"src", "dist", "test"}

(* The first frame that passes the test, or none.                           *)
FirstFrame(frames, Test(_)) ==
    LET i == SelectInSeq(frames, Test) IN IF i = 0 THEN NoFrame ELSE frames[i]

FrameFromStack(stack) == FirstFrame(stack, IsOwnFrame)

CauseOf(graph, error) == graph.cause[error]

\* Mutant of Chain: only the error itself is looked at.
Chain_NoCauses(graph, error) == <<error>>

(* The errors the two loops visit between them: down the causes, until one  *)
(* was seen before or the cap is reached.                                   *)
Visit(graph, error, seen) ==
    LET current == IF seen = <<>> THEN error ELSE CauseOf(graph, Last(seen))
    IN  IF current = Nothing \/ Contains(seen, current) THEN seen ELSE Append(seen, current)

Chain(graph, error) ==
    LET visited[n \in 0..MAX_CAUSE_DEPTH] ==
          IF n = 0 THEN <<>> ELSE Visit(graph, error, visited[n - 1])
    IN  visited[MAX_CAUSE_DEPTH]

ResolveErrorOrigin(graph, error) ==
    LET chain == Chain(graph, error)
        frames == [i \in DOMAIN chain |-> FrameFromStack(graph.stack[chain[i]])]
        origin == FirstFrame(frames, LAMBDA f : f # NoFrame)
    IN  [origin |-> origin,
         causeOrigin |-> FirstFrame(frames, LAMBDA f : f \notin {NoFrame, origin})]
=============================================================================
