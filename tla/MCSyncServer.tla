---------------------------- MODULE MCSyncServer ----------------------------
(* Bounds for the sync server: one guest, a launch and a restart. *)
EXTENDS SyncServer

CONSTANTS g1
=============================================================================
