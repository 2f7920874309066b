--------------------------- MODULE MCRendererRepo ---------------------------
(* Bounds for the desktop window: two starts of the server, three builds. *)
EXTENDS RendererRepo
=============================================================================
