------------------------------ MODULE MCPlayQueue ------------------------------
(***************************************************************************)
(* PlayQueue on small instances.  Tabs are interchangeable; hosts are not, *)
(* one of them is the device's own.                                        *)
(***************************************************************************)
EXTENDS PlayQueue, TLC

TabSymmetry == Permutations(Tabs)
=============================================================================
