------------------------------ MODULE MCEventLog ------------------------------
(***************************************************************************)
(* EventLog on small instances.  Events and instances are interchangeable. *)
(***************************************************************************)
EXTENDS EventLog, TLC

Symmetry == Permutations(Events) \cup Permutations(Instances)
=============================================================================
