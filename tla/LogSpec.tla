------------------------------ MODULE LogSpec ------------------------------
(***************************************************************************)
(* What the log of kernel/log.c promises ("Simple logging that allows      *)
(* concurrent FS system calls"): the blocks as the running system sees     *)
(* them, and the blocks as a crash would leave them once recovery has run. *)
(* The second becomes the first in one step, and only while no file system *)
(* operation is under way: a crash shows all of an operation or nothing.   *)
(***************************************************************************)
CONSTANTS Proc, Block, Val

VARIABLES
    live,     \* the contents of the blocks as the system calls see them
    stable,   \* what is left of them after a crash
    active    \* the processes between begin_op() and end_op()

vars == <<live, stable, active>>

Init ==
    /\ live \in [Block -> Val]
    /\ stable = live
    /\ active = {}

Begin(p) == active' = active \cup {p} /\ UNCHANGED <<live, stable>>

Write(p, b, v) ==
    /\ p \in active
    /\ live' = [live EXCEPT ![b] = v]
    /\ UNCHANGED <<stable, active>>

End(p) == active' = active \ {p} /\ UNCHANGED <<live, stable>>

Commit ==
    /\ active = {}
    /\ stable' = live
    /\ UNCHANGED <<live, active>>

Crash ==
    /\ live' = stable
    /\ active' = {}
    /\ UNCHANGED stable

Next ==
    \/ \E p \in Proc : Begin(p) \/ End(p)
    \/ \E p \in Proc, b \in Block, v \in Val : Write(p, b, v)
    \/ Commit \/ Crash

Spec == Init /\ [][Next]_vars
=============================================================================
