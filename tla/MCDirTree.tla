----------------------------- MODULE MCDirTree -----------------------------
(* Instances of the directory test for TLC. *)
EXTENDS DirTree
=============================================================================
