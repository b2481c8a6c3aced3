-------------------------- MODULE MCParallelWrite --------------------------
(* Instances of the parallel write test for TLC. *)
EXTENDS ParallelWrite
=============================================================================
