--------------------------- MODULE MemPoolLayout ---------------------------
(***************************************************************************)
(* The address arithmetic of platform-test/mem-pool.c and mem-pool.h: how  *)
(* a slab is cut into chunks, how a chunk head and the object handed to a  *)
(* client are converted into each other, and how __is_member tells an      *)
(* object of the slab from one that came from the heap.                    *)
(*                                                                         *)
(*      head            head + 16        head + 24     head + 28           *)
(*      | list_head     | mem_pool *     | int in_use  | object ...        *)
(***************************************************************************)
EXTENDS Integers

CONSTANTS
  SizeofType,   \* sizeof_type, the size of a client object
  Count,        \* count, the number of chunks of the slab
  Pool,         \* address of the slab returned by calloc
  HeapBlocks,   \* addresses calloc may return when the slab is exhausted
  WordSize      \* 2^64 on the target: the modulus of unsigned long

\* GF_MEM_POOL_LIST_BOUNDARY, GF_MEM_POOL_PTR and sizeof(int) on LP64; the
\* recorded run in platform-test/check_log (lines 4-7, 29-33) shows them.
ListBoundary == 16
PoolPtrSize == 8
IntSize == 4

\* GF_MEM_POOL_PAD_BOUNDARY: the bookkeeping in front of every object.
PadBoundary == ListBoundary + PoolPtrSize + IntSize

PaddedSize == SizeofType + PadBoundary

PoolEnd == Pool + Count * PaddedSize

Chunk(i) == Pool + i * PaddedSize

Chunks == {Chunk(i) : i \in 0 .. Count - 1}

\* The NULL pointer.
NULL == 0

\* mem_pool_chunkhead2ptr and mem_pool_ptr2chunkhead.
ChunkHead2Ptr(head) == head + PadBoundary
Ptr2ChunkHead(ptr) == ptr - PadBoundary

\* Everything mem_get can be given to hand out, by its head.
Heads == Chunks \cup HeapBlocks

(***************************************************************************)
(* calloc returns a non-null block that fits the address space; the slab   *)
(* and the blocks allocated later do not overlap.                          *)
(***************************************************************************)
ASSUME LayoutAssumption ==
  /\ SizeofType \in Nat \ {0}
  /\ Count \in Nat \ {0}
  /\ Pool \in Nat \ {0}
  /\ WordSize \in Nat
  /\ PoolEnd <= WordSize
  /\ HeapBlocks \subseteq Nat \ {0}
  /\ \A b \in HeapBlocks : b + PaddedSize <= Pool \/ PoolEnd <= b

\* Seeded fault: the alignment test is made on the object, not on its head.
IsMemberOfObject(ptr) ==
  IF ptr < Pool \/ ptr >= PoolEnd
  THEN 0
  ELSE IF ((ptr - Pool) % WordSize) % PaddedSize # 0 THEN -1 ELSE 1

\* Seeded fault: only the lower end of the slab is tested.
IsMemberFromBelow(ptr) ==
  IF ptr < Pool
  THEN 0
  ELSE IF ((Ptr2ChunkHead(ptr) - Pool) % WordSize) % PaddedSize # 0
       THEN -1
       ELSE 1

(***************************************************************************)
(* __is_member: 0 outside the slab, 1 on an object of the slab, -1 inside  *)
(* the slab at an address that is no object.  The difference of two        *)
(* pointers is signed, padded_sizeof_type is unsigned long, so the         *)
(* difference is taken modulo WordSize before the remainder.               *)
(***************************************************************************)
IsMember(ptr) ==
  IF ptr < Pool \/ ptr >= PoolEnd
  THEN 0
  ELSE IF ((Ptr2ChunkHead(ptr) - Pool) % WordSize) % PaddedSize # 0
       THEN -1
       ELSE 1
=============================================================================
