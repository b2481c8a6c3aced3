----------------------------- MODULE MCKillTest -----------------------------
(* Instances of the fault-injection test for TLC. *)
EXTENDS KillTest
=============================================================================
