----------------------------- MODULE MCMemPool -----------------------------
(* Instances of MemPool for TLC: two chunks of 32 bytes at address 64, and  *)
(* heap blocks below and above the slab.                                    *)
EXTENDS MemPool

CONSTANTS t1, t2, m1

MCHeapBlocks == {32, 128}
=============================================================================
