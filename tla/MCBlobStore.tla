------------------------------ MODULE MCBlobStore ------------------------------
(***************************************************************************)
(* BlobStore on small instances.  Slots are interchangeable, and so are    *)
(* recordings.                                                             *)
(***************************************************************************)
EXTENDS BlobStore, TLC

Symmetry ==
    Permutations(Uploads) \cup Permutations(Releases) \cup Permutations(Recordings)
=============================================================================
