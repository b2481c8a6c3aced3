---------------------------- MODULE MCAggregate ----------------------------
(* Up to three clients, for TLC; an earlier run has used the first one. *)
EXTENDS Aggregate

MCBefore == [c \in Clients |-> IF c = 0 THEN "stale" ELSE "missing"]
=============================================================================
