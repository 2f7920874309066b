---------------------------- MODULE MCHostVouching ----------------------------
(***************************************************************************)
(* HostVouching on small instances: one person, one device, two handlers.  *)
(***************************************************************************)
EXTENDS HostVouching, TLC
=============================================================================
