---------------------------- MODULE AdvisoryLease ----------------------------
(***************************************************************************)
(* What the registry's writer lock promises its users, with no file        *)
(* system: at most one holder at a time, until the lease is broken, and it *)
(* is only ever broken after some process has terminated.                  *)
(***************************************************************************)
CONSTANT Proc

VARIABLES
    holders,  \* the processes that act as the holder
    gone,     \* the processes that have terminated
    broken    \* the lease no longer excludes

vars == <<holders, gone, broken>>

Init == holders = {} /\ gone = {} /\ broken = FALSE

Acquire(p) ==
    /\ holders = {} \/ broken
    /\ holders' = holders \union {p}
    /\ UNCHANGED <<gone, broken>>

Drop(p) ==
    /\ holders' = holders \ {p}
    /\ UNCHANGED <<gone, broken>>

Terminate(p) ==
    /\ holders' = holders \ {p}
    /\ gone' = gone \union {p}
    /\ UNCHANGED broken

Break ==
    /\ gone # {}
    /\ broken' = TRUE
    /\ UNCHANGED <<holders, gone>>

Next == Break \/ \E p \in Proc : Acquire(p) \/ Drop(p) \/ Terminate(p)

Spec == Init /\ [][Next]_vars
=============================================================================
