--------------------------- MODULE MCPoolWorkers ---------------------------
(* Two workers with arrays of two objects, for TLC, on a slab of three       *)
(* chunks that holds all but one.                                            *)
EXTENDS PoolWorkers

CONSTANTS t1, t2, m1

MCHeapBlocks == {32, 192}
=============================================================================
