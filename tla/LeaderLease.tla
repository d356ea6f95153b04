----------------------------- MODULE LeaderLease -----------------------------
(***************************************************************************)
(* What the cluster promises to the job scheduler: leadership is held by    *)
(* one process at a time, passes only to a process that never held it, and  *)
(* only after the previous holder is gone.  It may be vacant.               *)
(***************************************************************************)
EXTENDS Naturals

VARIABLES
    holders,    \* the processes that hold the leadership
    lastHolder  \* the process that was given it last

vars == <<holders, lastHolder>>

Init ==
    /\ holders = {1}
    /\ lastHolder = 1

Vacate ==
    /\ holders # {}
    /\ holders' = {}
    /\ UNCHANGED lastHolder

TakeOver ==
    /\ holders = {}
    /\ lastHolder' \in Nat
    /\ lastHolder' > lastHolder
    /\ holders' = {lastHolder'}

Next == Vacate \/ TakeOver

Spec == Init /\ [][Next]_vars
==============================================================================
