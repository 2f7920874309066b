------------------------------ MODULE PlayCounter ------------------------------
(***************************************************************************)
(* What the host promises about plays: a play becomes counted once and     *)
(* stays counted, and a guest is told so only about plays that are.  The   *)
(* promise ends with the first fault.                                      *)
(***************************************************************************)
CONSTANT Events

VARIABLES
    counted,    \* plays that are part of the lifetime totals
    told,       \* plays a guest may forget
    faulty      \* a fault has struck

Init == counted = {} /\ told = {} /\ ~faulty

Count(new) ==
    /\ counted' = counted \cup new
    /\ UNCHANGED <<told, faulty>>

Tell(some) ==
    /\ some \subseteq counted
    /\ told' = told \cup some
    /\ UNCHANGED <<counted, faulty>>

Next == faulty' \/ \E some \in SUBSET Events : Count(some) \/ Tell(some)

Spec == Init /\ [][Next]_<<counted, told, faulty>>
=============================================================================
