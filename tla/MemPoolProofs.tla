--------------------------- MODULE MemPoolProofs ---------------------------
(***************************************************************************)
(* Theorems about MemPoolLayout for every object size, number of chunks    *)
(* and placement of the slab, and about MemPool for any number of threads, *)
(* monitors and chunks, with clients that call mem_put twice and a calloc  *)
(* that may fail.                                                          *)
(***************************************************************************)
EXTENDS MemPool, FiniteSetTheorems, FunctionTheorems, TLAPS

-----------------------------------------------------------------------------
(* The address arithmetic *)

\* A chunk ends where the next begins (mem-pool.c:57).
LEMMA ChunkEnd ==
  ASSUME NEW p \in Nat, NEW n \in Nat, NEW i \in 0 .. n - 1
  PROVE  i * p + p <= n * p
<1>1. n - i - 1 \in Nat
  OBVIOUS
<1>2. n * p = (i + 1 + (n - i - 1)) * p
  OBVIOUS
<1>3. n * p = i * p + p + (n - i - 1) * p
  BY <1>1, <1>2
<1>4. (n - i - 1) * p \in Nat
  BY <1>1
<1> QED
  BY <1>3, <1>4

LEMMA LayoutTypes ==
  /\ PaddedSize \in Nat
  /\ PadBoundary = 28
  /\ PadBoundary < PaddedSize
  /\ PoolEnd \in Nat
BY LayoutAssumption
   DEF LayoutAssumption, PaddedSize, PadBoundary, ListBoundary, PoolPtrSize,
       IntSize, PoolEnd

\* Chunks lie inside the slab, header and object.
LEMMA ChunkInSlab ==
  ASSUME NEW i \in 0 .. Count - 1
  PROVE  /\ i * PaddedSize \in Nat
         /\ Chunk(i) \in Nat
         /\ Pool <= Chunk(i)
         /\ Chunk(i) + PaddedSize <= PoolEnd
<1>1. PaddedSize \in Nat /\ Count \in Nat /\ Pool \in Nat /\ i \in Nat
  BY LayoutTypes, LayoutAssumption DEF LayoutAssumption
<1>2. i * PaddedSize + PaddedSize <= Count * PaddedSize
  BY <1>1, ChunkEnd
<1>3. i * PaddedSize \in Nat /\ Count * PaddedSize \in Nat
  BY <1>1
<1> QED
  BY <1>1, <1>2, <1>3 DEF Chunk, PoolEnd

\* No heap block is a chunk, and NULL is neither.
LEMMA HeadsDisjoint ==
  /\ Chunks \cap HeapBlocks = {}
  /\ NULL \notin Heads
  /\ Heads \subseteq Nat
<1>1. ASSUME NEW i \in 0 .. Count - 1
      PROVE  Chunk(i) \notin HeapBlocks /\ Chunk(i) # 0 /\ Chunk(i) \in Nat
  BY ChunkInSlab, LayoutTypes, LayoutAssumption DEF LayoutAssumption
<1> QED
  BY <1>1, LayoutAssumption DEF LayoutAssumption, Chunks, Heads, NULL

\* Different indices give different chunks.
LEMMA ChunkInjective ==
  ASSUME NEW i \in 0 .. Count - 1, NEW j \in 0 .. Count - 1,
         Chunk(i) = Chunk(j)
  PROVE  i = j
<1>1. PaddedSize \in Nat /\ PaddedSize > 0 /\ Pool \in Nat /\ Count \in Nat
  BY LayoutTypes, LayoutAssumption DEF LayoutAssumption
<1>2. i * PaddedSize = j * PaddedSize
  BY <1>1, ChunkInSlab DEF Chunk
<1>3. CASE i < j
  <2>1. i * PaddedSize + PaddedSize <= j * PaddedSize
    BY <1>1, <1>3, ChunkEnd
  <2> QED
    BY <2>1, <1>1, <1>2, ChunkInSlab
<1>4. CASE j < i
  <2>1. j * PaddedSize + PaddedSize <= i * PaddedSize
    BY <1>1, <1>4, ChunkEnd
  <2> QED
    BY <2>1, <1>1, <1>2, ChunkInSlab
<1> QED
  BY <1>3, <1>4

LEMMA FiniteChunks == IsFiniteSet(Chunks)
<1>1. IsFiniteSet(0 .. Count - 1)
  BY FS_Interval, LayoutAssumption DEF LayoutAssumption
<1> DEFINE f == [i \in 0 .. Count - 1 |-> Chunk(i)]
<1>2. f \in Surjection(0 .. Count - 1, Chunks)
  BY DEF Surjection, Chunks
<1> QED
  BY <1>1, <1>2, FS_Surjection

LEMMA MultipleMod ==
  ASSUME NEW i \in Nat, NEW p \in Nat, p > 0
  PROVE  (i * p) % p = 0
OBVIOUS

LEMMA SmallMod ==
  ASSUME NEW a \in Nat, NEW w \in Nat, a < w
  PROVE  a % w = a
OBVIOUS

\* The difference of two pointers, converted to unsigned long, wraps.
LEMMA WrappedMod ==
  ASSUME NEW d \in Nat, NEW w \in Nat, 0 < d, d < w
  PROVE  (- d) % w = w - d
OBVIOUS

\* __is_member returns 1 for the object of every chunk: mem_put never aborts
\* on an object mem_get took from the slab (mem-pool.c:170-177).
THEOREM ChunkObjectIsMember ==
  \A c \in Chunks : IsMember(ChunkHead2Ptr(c)) = 1
<1> SUFFICES ASSUME NEW i \in 0 .. Count - 1
             PROVE  IsMember(ChunkHead2Ptr(Chunk(i))) = 1
  BY DEF Chunks
<1> DEFINE ptr == ChunkHead2Ptr(Chunk(i))
<1>1. /\ PaddedSize \in Nat /\ PadBoundary = 28 /\ PadBoundary < PaddedSize
      /\ Pool \in Nat /\ WordSize \in Nat /\ PoolEnd \in Nat
      /\ PoolEnd <= WordSize /\ i \in Nat
  BY LayoutTypes, LayoutAssumption DEF LayoutAssumption
<1>2. Chunk(i) \in Nat /\ Pool <= Chunk(i) /\ Chunk(i) + PaddedSize <= PoolEnd
  BY ChunkInSlab
<1>3. ~(ptr < Pool \/ ptr >= PoolEnd)
  BY <1>1, <1>2 DEF ChunkHead2Ptr
<1>4. Ptr2ChunkHead(ptr) - Pool = i * PaddedSize
  BY <1>1, ChunkInSlab DEF Ptr2ChunkHead, ChunkHead2Ptr, Chunk
<1>5. i * PaddedSize < WordSize /\ i * PaddedSize \in Nat
  BY <1>1, <1>2, ChunkInSlab DEF Chunk
<1>6. ((Ptr2ChunkHead(ptr) - Pool) % WordSize) % PaddedSize = 0
  <2>1. (i * PaddedSize) % WordSize = i * PaddedSize
    BY <1>1, <1>5, SmallMod
  <2> QED
    BY <2>1, <1>1, <1>4, MultipleMod
<1> QED
  BY <1>3, <1>6 DEF IsMember

\* __is_member returns 0 for an object made from a heap block, wherever the
\* block lies (mem-pool.c:145, 155, 170): mem_put frees it.
THEOREM HeapObjectIsNoMember ==
  \A b \in HeapBlocks : IsMember(ChunkHead2Ptr(b)) = 0
BY LayoutTypes, LayoutAssumption
   DEF LayoutAssumption, IsMember, ChunkHead2Ptr

\* From the end of the first header on only objects are members.
LEMMA MisalignedAboveHeader ==
  \A ptr \in (Pool + PadBoundary) .. (PoolEnd - 1) :
    (\A c \in Chunks : ptr # ChunkHead2Ptr(c)) => IsMember(ptr) = -1
<1> SUFFICES ASSUME NEW ptr \in (Pool + PadBoundary) .. (PoolEnd - 1),
                    \A c \in Chunks : ptr # ChunkHead2Ptr(c)
             PROVE  IsMember(ptr) = -1
  OBVIOUS
<1> DEFINE d == Ptr2ChunkHead(ptr) - Pool
           k == d \div PaddedSize
<1>1. /\ PaddedSize \in Nat /\ PadBoundary = 28 /\ PadBoundary < PaddedSize
      /\ Pool \in Nat /\ WordSize \in Nat /\ PoolEnd \in Nat
      /\ PoolEnd <= WordSize /\ Count \in Nat
  BY LayoutTypes, LayoutAssumption DEF LayoutAssumption
<1>2. d \in Nat /\ d < WordSize /\ d < PoolEnd - Pool /\ ptr = Pool + d + 28
  BY <1>1 DEF Ptr2ChunkHead
<1>3. d % WordSize = d
  BY <1>1, <1>2, SmallMod
<1>4. d % PaddedSize # 0
  <2> SUFFICES ASSUME d % PaddedSize = 0 PROVE FALSE
    OBVIOUS
  <2>1. k \in Nat /\ d = k * PaddedSize
    BY <1>1, <1>2, Z3
  <2>2. k < Count
    <3> SUFFICES ASSUME Count <= k PROVE FALSE
      BY <1>1, <2>1
    <3>1. Count * PaddedSize <= k * PaddedSize
      <4>1. CASE Count = k
        BY <4>1, <1>1, <2>1
      <4>2. CASE Count < k
        BY <4>2, <1>1, <2>1, ChunkEnd
      <4> QED
        BY <4>1, <4>2, <1>1, <2>1
    <3> QED
      BY <3>1, <1>1, <1>2, <2>1 DEF PoolEnd
  <2>3. Chunk(k) \in Chunks /\ ptr = ChunkHead2Ptr(Chunk(k))
    <3> HIDE DEF k, d
    <3>1. k \in 0 .. Count - 1
      BY <1>1, <2>1, <2>2
    <3>2. ptr = Chunk(k) + PadBoundary
      BY <1>1, <1>2, <2>1 DEF Chunk
    <3> QED
      BY <3>1, <3>2 DEF Chunks, ChunkHead2Ptr
  <2> QED
    BY <2>3
<1> QED
  BY <1>1, <1>2, <1>3, <1>4 DEF IsMember

\* What __is_member says of every address inside the slab: 1 of the objects, and
\* of those addresses of the first header whose negative distance from the first
\* object is, modulo 2^64, a multiple of the padded size; -1 of all the others,
\* for which mem_put aborts instead of linking a bad chunk (mem-pool.c:163-178).
THEOREM MisalignedIsCaught ==
  \A ptr \in Pool .. (PoolEnd - 1) :
    IF \/ \E c \in Chunks : ptr = ChunkHead2Ptr(c)
       \/ /\ ptr < Pool + PadBoundary
          /\ (WordSize - (Pool + PadBoundary - ptr)) % PaddedSize = 0
    THEN IsMember(ptr) = 1
    ELSE IsMember(ptr) = -1
<1> SUFFICES ASSUME NEW ptr \in Pool .. (PoolEnd - 1)
             PROVE  IF \/ \E c \in Chunks : ptr = ChunkHead2Ptr(c)
                       \/ /\ ptr < Pool + PadBoundary
                          /\ (WordSize - (Pool + PadBoundary - ptr)) % PaddedSize = 0
                    THEN IsMember(ptr) = 1
                    ELSE IsMember(ptr) = -1
  OBVIOUS
<1>1. /\ PaddedSize \in Nat /\ PadBoundary = 28 /\ PadBoundary < PaddedSize
      /\ Pool \in Nat /\ WordSize \in Nat /\ PoolEnd \in Nat
      /\ PoolEnd <= WordSize /\ Count \in Nat /\ 0 \in 0 .. Count - 1
  BY LayoutTypes, LayoutAssumption DEF LayoutAssumption
<1>2. CASE ptr >= Pool + PadBoundary
  BY <1>1, <1>2, MisalignedAboveHeader, ChunkObjectIsMember
<1>3. CASE ptr < Pool + PadBoundary
  <2> DEFINE d == Pool + PadBoundary - ptr
  <2>1. d \in 1 .. WordSize - 1 /\ Ptr2ChunkHead(ptr) - Pool = - d
    <3>1. /\ Chunk(0) \in Nat /\ Pool <= Chunk(0)
          /\ Chunk(0) + PaddedSize <= PoolEnd
      BY <1>1, ChunkInSlab
    <3> QED
      BY <1>1, <1>3, <3>1 DEF Ptr2ChunkHead
  <2>2. (- d) % WordSize = WordSize - d
    <3>1. d \in Nat /\ 0 < d /\ d < WordSize
      BY <1>1, <2>1
    <3> HIDE DEF d
    <3> QED
      BY <1>1, <3>1, WrappedMod
  <2>3. \A c \in Chunks : ptr # ChunkHead2Ptr(c)
    BY <1>1, <1>3, ChunkInSlab DEF Chunks, ChunkHead2Ptr
  <2> QED
    BY <1>1, <1>3, <2>1, <2>2, <2>3 DEF IsMember
<1> QED
  BY <1>1, <1>2, <1>3

-----------------------------------------------------------------------------
(* The inductive invariant *)

\* Where a thread is between LOCK and UNLOCK.
CriticalPC == {"get_take", "get_count", "get_fwd", "put_check", "put_link",
               "put_unlock", "mon_hot", "mon_rest", "mon_unlock"}

\* Where the chunk a thread works on is neither linked nor marked in use.
LinkPC == {"get_count", "put_link"}

\* The lock is held by the one thread that is between LOCK and UNLOCK.
LockInv == \A u \in Users : pc[u] \in CriticalPC <=> lock = u

Linking == {t \in Threads : pc[t] \in LinkPC}

\* Every chunk is in exactly one place: on the free list (once), marked in
\* use, or in the hands of the thread that moves it between the two.
PlaceInv ==
  /\ IsInjective(pool.list)
  /\ FreeList \cap in_use = {}
  /\ \A t \in Linking : head[t] \in Chunks \ (FreeList \cup in_use)
  /\ \A c \in Chunks \ (FreeList \cup in_use) :
       \E t \in Linking : head[t] = c

\* The counters, with the chunk in somebody's hands counted as cold.
CountInv ==
  /\ Linking = {} => pool.cold_count = Len(pool.list)
  /\ Linking # {} => pool.cold_count = Len(pool.list) + 1
  /\ pool.hot_count = Cardinality(in_use)
  /\ pool.hot_count + pool.cold_count = Count

\* Where a thread works on a head that must be the head of an object.
ObjectPC == {"get_zero", "get_ret", "get0_ret",
             "put_lock", "put_check", "put_link", "put_unlock"}

\* A head that is to be returned, or was passed to mem_put, is the head of an
\* object; only a failing calloc brings NULL to fwd_addr_out.
HeadInv ==
  \A t \in Threads :
    /\ pc[t] \in ObjectPC => head[t] \in Heads
    /\ pc[t] = "get_fwd" => head[t] # NULL \/ CallocFails

PoolInv ==
  TypeOK /\ LockInv /\ HeadInv /\ PlaceInv /\ CountInv /\ StaysAlive

-----------------------------------------------------------------------------
(* Sequences without repetitions *)

\* list_del of the first element leaves a list of the others.
LEMMA TailOfList ==
  ASSUME NEW S, NEW s \in Seq(S), Len(s) > 0, IsInjective(s)
  PROVE  /\ Tail(s) \in Seq(S)
         /\ Len(Tail(s)) = Len(s) - 1
         /\ IsInjective(Tail(s))
         /\ Head(s) \in S
         /\ Head(s) \in Range(s)
         /\ Range(Tail(s)) = Range(s) \ {Head(s)}
<1>1. /\ s \in [1 .. Len(s) -> S] /\ Len(s) \in Nat
      /\ Tail(s) \in Seq(S) /\ Len(Tail(s)) = Len(s) - 1
      /\ Head(s) = s[1]
      /\ \A i \in 1 .. Len(s) - 1 : Tail(s)[i] = s[i + 1]
      /\ DOMAIN s = 1 .. Len(s) /\ DOMAIN Tail(s) = 1 .. Len(s) - 1
  OBVIOUS
<1>2. IsInjective(Tail(s))
  BY <1>1 DEF IsInjective
<1>3. Range(Tail(s)) \subseteq Range(s) \ {Head(s)}
  BY <1>1 DEF IsInjective, Range
<1>4. ASSUME NEW x \in Range(s) \ {Head(s)} PROVE x \in Range(Tail(s))
  <2>1. PICK i \in 1 .. Len(s) : s[i] = x
    BY <1>1 DEF Range
  <2>2. i # 1 /\ i - 1 \in 1 .. Len(s) - 1
    BY <1>1, <1>4, <2>1
  <2>3. Tail(s)[i - 1] = x
    BY <1>1, <2>1, <2>2
  <2> QED
    BY <1>1, <2>2, <2>3 DEF Range
<1>5. Head(s) \in S /\ Head(s) \in Range(s)
  <2>1. 1 \in 1 .. Len(s)
    BY <1>1
  <2> QED
    BY <1>1, <2>1 DEF Range
<1>6. Range(Tail(s)) = Range(s) \ {Head(s)}
  BY <1>3, <1>4
<1> QED
  BY <1>1, <1>2, <1>5, <1>6

\* list_add of an element that is not linked.
LEMMA AddToList ==
  ASSUME NEW S, NEW s \in Seq(S), NEW x \in S, x \notin Range(s),
         IsInjective(s)
  PROVE  /\ <<x>> \o s \in Seq(S)
         /\ Len(<<x>> \o s) = Len(s) + 1
         /\ IsInjective(<<x>> \o s)
         /\ Range(<<x>> \o s) = Range(s) \cup {x}
<1> DEFINE r == <<x>> \o s
<1>1. /\ r \in Seq(S) /\ Len(r) = Len(s) + 1 /\ Len(s) \in Nat
      /\ r[1] = x
      /\ \A i \in 1 .. Len(s) : r[i + 1] = s[i]
      /\ DOMAIN s = 1 .. Len(s) /\ DOMAIN r = 1 .. Len(s) + 1
  OBVIOUS
<1> HIDE DEF r
<1>2. \A i \in 1 .. Len(s) + 1 : i # 1 => r[i] = s[i - 1] /\ i - 1 \in DOMAIN s
  <2> SUFFICES ASSUME NEW i \in 1 .. Len(s) + 1, i # 1
               PROVE  r[i] = s[i - 1] /\ i - 1 \in DOMAIN s
    OBVIOUS
  <2>1. i - 1 \in 1 .. Len(s) /\ (i - 1) + 1 = i
    BY <1>1
  <2> QED
    BY <1>1, <2>1
<1>3. IsInjective(r)
  <2> SUFFICES ASSUME NEW i \in DOMAIN r, NEW j \in DOMAIN r, r[i] = r[j]
               PROVE  i = j
    BY DEF IsInjective
  <2>1. \A k \in DOMAIN s : s[k] # x
    BY DEF Range
  <2>2. CASE i = 1 \/ j = 1
    BY <1>1, <1>2, <2>1, <2>2
  <2>3. CASE i # 1 /\ j # 1
    <3>1. s[i - 1] = s[j - 1] /\ i - 1 \in DOMAIN s /\ j - 1 \in DOMAIN s
      BY <1>1, <1>2, <2>3
    <3>2. i - 1 = j - 1
      BY <3>1 DEF IsInjective
    <3> QED
      BY <1>1, <3>2
  <2> QED
    BY <2>2, <2>3
<1>4. Range(r) = Range(s) \cup {x}
  <2>1. ASSUME NEW y \in Range(r) PROVE y \in Range(s) \cup {x}
    BY <1>1, <1>2 DEF Range
  <2>2. x \in Range(r)
    <3>1. 1 \in DOMAIN r
      BY <1>1
    <3> QED
      BY <1>1, <3>1 DEF Range
  <2>3. ASSUME NEW y \in Range(s) PROVE y \in Range(r)
    <3>1. PICK i \in DOMAIN s : s[i] = y
      BY DEF Range
    <3>2. i + 1 \in DOMAIN r /\ r[i + 1] = y
      BY <1>1, <3>1
    <3> QED
      BY <3>2 DEF Range
  <2> QED
    BY <2>1, <2>2, <2>3
<1> QED
  BY <1>1, <1>3, <1>4 DEF r

-----------------------------------------------------------------------------
(* Moving one thread *)

LEMMA GoMoves ==
  ASSUME TypeOK, NEW t \in Users, NEW from, NEW to, Go(t, from, to)
  PROVE  /\ pc[t] = from
         /\ pc'[t] = to
         /\ \A u \in Users : u # t => pc'[u] = pc[u]
BY DEF TypeOK, Go

LEMMA AcquireLock ==
  ASSUME TypeOK, LockInv, NEW t \in Users,
         NEW from, NEW to \in CriticalPC, Acquire(t, from, to)
  PROVE  LockInv'
<1>1. lock = NoThread /\ lock' = t /\ Go(t, from, to)
  BY DEF Acquire
<1>2. \A u \in Users : pc[u] \notin CriticalPC
  BY <1>1, ThreadsAssumption DEF LockInv, Users, ThreadsAssumption
<1> QED
  BY <1>1, <1>2, GoMoves DEF LockInv

LEMMA ReleaseLock ==
  ASSUME TypeOK, LockInv, NEW t \in Users, NEW from \in CriticalPC,
         NEW to, to \notin CriticalPC, Release(t, from, to)
  PROVE  LockInv'
<1>1. lock' = NoThread /\ Go(t, from, to)
  BY DEF Release
<1>2. lock = t /\ \A u \in Users : u # t => pc[u] \notin CriticalPC
  BY <1>1, GoMoves DEF LockInv
<1>3. NoThread \notin Users
  BY ThreadsAssumption DEF Users, ThreadsAssumption
<1> QED
  BY <1>1, <1>2, <1>3, GoMoves DEF LockInv

LEMMA KeepLock ==
  ASSUME TypeOK, LockInv, NEW t \in Users, NEW from, NEW to,
         from \in CriticalPC <=> to \in CriticalPC,
         Go(t, from, to), UNCHANGED lock
  PROVE  LockInv'
BY GoMoves DEF LockInv

\* The lock serves one call at a time: while t works on the list, no other
\* thread holds a chunk that is neither linked nor in use.
LEMMA OneLinking ==
  ASSUME LockInv, NEW t \in Threads, pc[t] \in CriticalPC
  PROVE  Linking = IF pc[t] \in LinkPC THEN {t} ELSE {}
<1>1. \A u \in Threads : u # t => pc[u] \notin CriticalPC
  BY DEF LockInv, Users
<1>2. LinkPC \subseteq CriticalPC
  BY DEF LinkPC, CriticalPC
<1> QED
  BY <1>1, <1>2 DEF Linking

\* A step that moves no chunk and no counter keeps the invariant.
LEMMA QuietStep ==
  ASSUME PlaceInv, CountInv,
         pool'.list = pool.list,
         pool'.cold_count = pool.cold_count,
         pool'.hot_count = pool.hot_count,
         in_use' = in_use,
         Linking' = Linking,
         \A t \in Linking : head'[t] = head[t]
  PROVE  PlaceInv' /\ CountInv'
<1>1. FreeList' = FreeList
  BY DEF FreeList
<1> QED
  BY <1>1 DEF PlaceInv, CountInv

\* The step of a thread that was not linking a chunk and is not now.
LEMMA QuietMove ==
  ASSUME TypeOK, NEW t \in Users, NEW from, NEW to, Go(t, from, to),
         from \notin LinkPC, to \notin LinkPC
  PROVE  Linking' = Linking /\ t \notin Linking
BY GoMoves DEF Linking, Users

-----------------------------------------------------------------------------
(* The actions that touch the slab *)

\* CountInv spelled out for a state in which nobody, or somebody, links.
LEMMA Counted ==
  ASSUME TypeOK, CountInv
  PROVE  /\ Linking = {} => pool.cold_count = Len(pool.list)
         /\ Linking # {} => pool.cold_count = Len(pool.list) + 1
         /\ pool.hot_count = Cardinality(in_use)
         /\ pool.hot_count + pool.cold_count = Count
         /\ pool.hot_count \in Int /\ pool.cold_count \in Int
         /\ Len(pool.list) \in Nat /\ Count \in Nat
         /\ IsFiniteSet(in_use) /\ Cardinality(in_use) \in Nat
<1>1. IsFiniteSet(in_use) /\ Cardinality(in_use) \in Nat
  BY FiniteChunks, FS_Subset, FS_CardinalityType DEF TypeOK, PoolRecord
<1>2. pool.list \in Seq(Chunks) /\ Len(pool.list) \in Nat
      /\ pool.hot_count \in Int /\ pool.cold_count \in Int
  BY DEF TypeOK, PoolRecord
<1> QED
  BY <1>1, <1>2, LayoutAssumption DEF CountInv, LayoutAssumption

\* list_del takes the first element: there is one when cold_count is not zero.
LEMMA TakeStep ==
  ASSUME PoolInv, NEW t \in Threads, GetTake(t)
  PROVE  /\ head'[t] \in Chunks
         /\ pool'.list \in Seq(Chunks)
         /\ PlaceInv' /\ CountInv'
<1>1. /\ pc[t] = "get_take" /\ pc' = [pc EXCEPT ![t] = "get_count"]
      /\ head' = [head EXCEPT ![t] = Head(pool.list)]
      /\ pool' = [pool EXCEPT !.alloc_count = @ + 1, !.list = Tail(@)]
      /\ in_use' = in_use /\ pool.cold_count # 0
  BY DEF GetTake, Go, memory
<1>2. /\ pool.list \in Seq(Chunks) /\ head \in [Threads -> Heads \cup {NULL}]
      /\ pool.cold_count \in Int /\ t \in Users
      /\ pool'.list = Tail(pool.list)
      /\ pool'.cold_count = pool.cold_count
      /\ pool'.hot_count = pool.hot_count
  BY <1>1 DEF PoolInv, TypeOK, PoolRecord, Users
<1>3. Linking = {}
  BY <1>1, OneLinking DEF PoolInv, CriticalPC, LinkPC
<1>4. Len(pool.list) > 0 /\ pool.cold_count = Len(pool.list)
  BY <1>1, <1>2, <1>3 DEF PoolInv, CountInv
<1>5. /\ Tail(pool.list) \in Seq(Chunks)
      /\ Len(Tail(pool.list)) = Len(pool.list) - 1
      /\ IsInjective(Tail(pool.list))
      /\ Head(pool.list) \in Chunks
      /\ Head(pool.list) \in FreeList
      /\ FreeList' = FreeList \ {Head(pool.list)}
  BY <1>2, <1>4, TailOfList DEF PoolInv, PlaceInv, FreeList
<1>6. Linking' = {t} /\ head'[t] = Head(pool.list)
  BY <1>1, <1>2, <1>3 DEF Linking, LinkPC, PoolInv, TypeOK, Users
<1>7. PlaceInv'
  BY <1>1, <1>2, <1>3, <1>5, <1>6 DEF PoolInv, PlaceInv
<1>8. CountInv'
  <2>1. /\ Len(pool'.list) = Len(pool.list) - 1 /\ Len(pool.list) \in Nat
        /\ Linking' # {}
    BY <1>2, <1>5, <1>6, Counted DEF PoolInv
  <2> QED
    BY <1>1, <1>2, <1>4, <2>1, Counted DEF PoolInv, CountInv
<1> QED
  BY <1>2, <1>5, <1>6, <1>7, <1>8

\* in_use is marked on the chunk in t's hands.
LEMMA CountStep ==
  ASSUME PoolInv, NEW t \in Threads, GetCount(t)
  PROVE  head[t] \in Chunks /\ PlaceInv' /\ CountInv'
<1>1. /\ pc[t] = "get_count" /\ pc' = [pc EXCEPT ![t] = "get_fwd"]
      /\ in_use' = in_use \cup {head[t]} /\ head' = head
      /\ pool' = [pool EXCEPT !.hot_count = @ + 1,
                              !.cold_count = @ - 1,
                              !.max_alloc = MaxOf(@, pool.hot_count + 1)]
  BY DEF GetCount, Go
<1>2. /\ pool.list \in Seq(Chunks) /\ Len(pool.list) \in Nat
      /\ pool'.list = pool.list
      /\ pool'.hot_count = pool.hot_count + 1
      /\ pool'.cold_count = pool.cold_count - 1
      /\ pool.hot_count \in Int /\ pool.cold_count \in Int
  BY <1>1 DEF PoolInv, TypeOK, PoolRecord
<1>3. Linking = {t}
  BY <1>1, OneLinking DEF PoolInv, CriticalPC, LinkPC
<1>4. Linking' = {}
  <2>1. \A u \in Threads : pc'[u] = IF u = t THEN "get_fwd" ELSE pc[u]
    BY <1>1 DEF PoolInv, TypeOK, PoolRecord, Users
  <2> QED
    BY <1>3, <2>1 DEF Linking, LinkPC
<1>5. head[t] \in Chunks \ (FreeList \cup in_use)
  BY <1>3 DEF PoolInv, PlaceInv
<1>6. PlaceInv'
  <2>1. FreeList' = FreeList
    BY <1>2 DEF FreeList
  <2> QED
    BY <1>1, <1>2, <1>3, <1>4, <1>5, <2>1 DEF PoolInv, PlaceInv
<1>7. CountInv'
  <2>1. Cardinality(in_use') = Cardinality(in_use) + 1
    BY <1>1, <1>5, Counted, FS_AddElement DEF PoolInv
  <2>2. pool.cold_count = Len(pool.list) + 1
    BY <1>3, Counted DEF PoolInv
  <2> QED
    BY <1>2, <1>4, <2>1, <2>2, Counted DEF PoolInv, CountInv
<1> QED
  BY <1>5, <1>6, <1>7

\* The in_use word of a chunk in use is cleared; the chunk is in t's hands.
LEMMA UncountStep ==
  ASSUME PoolInv, NEW t \in Threads, PutCount(t)
  PROVE  PlaceInv' /\ CountInv'
<1>1. /\ pc[t] = "put_check" /\ pc' = [pc EXCEPT ![t] = "put_link"]
      /\ in_use' = in_use \ {head[t]} /\ head' = head /\ head[t] \in in_use
      /\ pool' = [pool EXCEPT !.hot_count = @ - 1, !.cold_count = @ + 1]
  BY DEF PutCount, Go
<1>2. /\ pool.list \in Seq(Chunks) /\ Len(pool.list) \in Nat
      /\ pool'.list = pool.list
      /\ pool'.hot_count = pool.hot_count - 1
      /\ pool'.cold_count = pool.cold_count + 1
      /\ pool.hot_count \in Int /\ pool.cold_count \in Int
      /\ in_use \subseteq Chunks
  BY <1>1 DEF PoolInv, TypeOK, PoolRecord
<1>3. Linking = {}
  BY <1>1, OneLinking DEF PoolInv, CriticalPC, LinkPC
<1>4. Linking' = {t}
  <2>1. \A u \in Threads : pc'[u] = IF u = t THEN "put_link" ELSE pc[u]
    BY <1>1 DEF PoolInv, TypeOK, PoolRecord, Users
  <2> QED
    BY <1>3, <2>1 DEF Linking, LinkPC
<1>5. PlaceInv'
  <2>1. FreeList' = FreeList
    BY <1>2 DEF FreeList
  <2> QED
    BY <1>1, <1>2, <1>3, <1>4, <2>1 DEF PoolInv, PlaceInv
<1>6. CountInv'
  <2>1. Cardinality(in_use') = Cardinality(in_use) - 1
    BY <1>1, Counted, FS_RemoveElement DEF PoolInv
  <2>2. pool.cold_count = Len(pool.list) /\ Linking' # {}
    BY <1>3, <1>4, Counted DEF PoolInv
  <2> QED
    BY <1>2, <2>1, <2>2, Counted DEF PoolInv, CountInv
<1> QED
  BY <1>5, <1>6

\* list_add links the chunk in t's hands.
LEMMA LinkStep ==
  ASSUME PoolInv, NEW t \in Threads, PutLink(t)
  PROVE  pool'.list \in Seq(Chunks) /\ PlaceInv' /\ CountInv'
<1>1. /\ pc[t] = "put_link" /\ pc' = [pc EXCEPT ![t] = "put_unlock"]
      /\ in_use' = in_use /\ head' = head
      /\ pool' = [pool EXCEPT !.list = <<head[t]>> \o @]
  BY DEF PutLink, Go, memory
<1>2. /\ pool.list \in Seq(Chunks) /\ Len(pool.list) \in Nat
      /\ pool'.list = <<head[t]>> \o pool.list
      /\ pool'.hot_count = pool.hot_count
      /\ pool'.cold_count = pool.cold_count
  BY <1>1 DEF PoolInv, TypeOK, PoolRecord
<1>3. Linking = {t}
  BY <1>1, OneLinking DEF PoolInv, CriticalPC, LinkPC
<1>4. Linking' = {}
  <2>1. \A u \in Threads : pc'[u] = IF u = t THEN "put_unlock" ELSE pc[u]
    BY <1>1 DEF PoolInv, TypeOK, PoolRecord, Users
  <2> QED
    BY <1>3, <2>1 DEF Linking, LinkPC
<1>5. head[t] \in Chunks \ (FreeList \cup in_use)
  BY <1>3 DEF PoolInv, PlaceInv
<1>6. /\ pool'.list \in Seq(Chunks)
      /\ Len(pool'.list) = Len(pool.list) + 1
      /\ IsInjective(pool'.list)
      /\ FreeList' = FreeList \cup {head[t]}
  BY <1>2, <1>5, AddToList DEF PoolInv, PlaceInv, FreeList
<1>7. PlaceInv'
  BY <1>1, <1>3, <1>4, <1>5, <1>6 DEF PoolInv, PlaceInv
<1>8. CountInv'
  <2>1. pool.cold_count = Len(pool.list) + 1
    BY <1>3, Counted DEF PoolInv
  <2> QED
    BY <1>1, <1>2, <1>4, <1>6, <2>1, Counted DEF PoolInv, CountInv
<1> QED
  BY <1>6, <1>7, <1>8

-----------------------------------------------------------------------------
(* Every step keeps the invariant *)

\* An object's head is recovered from the pointer the client holds.
LEMMA HeadOfHeld ==
  ASSUME TypeOK, NEW t \in Threads, NEW ptr \in held[t]
  PROVE  Ptr2ChunkHead(ptr) \in Heads
<1>1. PICK h \in Heads : ptr = ChunkHead2Ptr(h)
  BY DEF TypeOK
<1>2. h \in Nat /\ PadBoundary = 28
  BY HeadsDisjoint, LayoutTypes
<1>3. Ptr2ChunkHead(ptr) = h
  BY <1>1, <1>2 DEF Ptr2ChunkHead, ChunkHead2Ptr
<1> QED
  BY <1>3

LEMMA HeadOfPuttable ==
  ASSUME TypeOK, NEW t \in Threads, NEW ptr \in Puttable(t)
  PROVE  Ptr2ChunkHead(ptr) \in Heads
<1>1. CASE ptr \in held[t]
  BY <1>1, HeadOfHeld
<1>2. CASE ptr \notin held[t]
  <2>1. PICK c \in Chunks : ptr = ChunkHead2Ptr(c)
    BY <1>2 DEF Puttable
  <2>2. c \in Nat /\ c \in Heads /\ PadBoundary = 28
    BY HeadsDisjoint, LayoutTypes DEF Heads
  <2>3. Ptr2ChunkHead(ptr) = c
    BY <2>1, <2>2 DEF Ptr2ChunkHead, ChunkHead2Ptr
  <2> QED
    BY <2>2, <2>3
<1> QED
  BY <1>1, <1>2

\* Storing into a field of struct mem_pool yields a struct mem_pool.
LEMMA FieldUpdates ==
  ASSUME NEW p \in PoolRecord
  PROVE  /\ \A l \in Seq(Chunks) : [p EXCEPT !.list = l] \in PoolRecord
         /\ \A n \in Int : [p EXCEPT !.hot_count = n] \in PoolRecord
         /\ \A n \in Int : [p EXCEPT !.cold_count = n] \in PoolRecord
         /\ \A n \in Nat : [p EXCEPT !.alloc_count = n] \in PoolRecord
         /\ \A n \in Nat : [p EXCEPT !.pool_misses = n] \in PoolRecord
         /\ \A n \in Int : [p EXCEPT !.max_alloc = n] \in PoolRecord
         /\ \A n \in Int : [p EXCEPT !.curr_stdalloc = n] \in PoolRecord
         /\ \A n \in Int : [p EXCEPT !.max_stdalloc = n] \in PoolRecord
<1>1. \A l \in Seq(Chunks) : [p EXCEPT !.list = l] \in PoolRecord
  BY DEF PoolRecord
<1>2. \A n \in Int : [p EXCEPT !.hot_count = n] \in PoolRecord
  BY DEF PoolRecord
<1>3. \A n \in Int : [p EXCEPT !.cold_count = n] \in PoolRecord
  BY DEF PoolRecord
<1>4. \A n \in Nat : [p EXCEPT !.alloc_count = n] \in PoolRecord
  BY DEF PoolRecord
<1>5. \A n \in Nat : [p EXCEPT !.pool_misses = n] \in PoolRecord
  BY DEF PoolRecord
<1>6. \A n \in Int : [p EXCEPT !.max_alloc = n] \in PoolRecord
  BY DEF PoolRecord
<1>7. \A n \in Int : [p EXCEPT !.curr_stdalloc = n] \in PoolRecord
  BY DEF PoolRecord
<1>8. \A n \in Int : [p EXCEPT !.max_stdalloc = n] \in PoolRecord
  BY DEF PoolRecord
<1> QED
  BY <1>1, <1>2, <1>3, <1>4, <1>5, <1>6, <1>7, <1>8

\* The updates the actions make, several fields at a time.
LEMMA PoolUpdates ==
  ASSUME NEW p \in PoolRecord, NEW l \in Seq(Chunks)
  PROVE  /\ [p EXCEPT !.alloc_count = @ + 1, !.list = l] \in PoolRecord
         /\ [p EXCEPT !.list = l] \in PoolRecord
         /\ [p EXCEPT !.hot_count = @ + 1, !.cold_count = @ - 1,
                      !.max_alloc = MaxOf(@, p.hot_count + 1)] \in PoolRecord
         /\ [p EXCEPT !.hot_count = @ - 1, !.cold_count = @ + 1] \in PoolRecord
         /\ [p EXCEPT !.curr_stdalloc = @ - 1] \in PoolRecord
         /\ [p EXCEPT !.alloc_count = @ + 1,
                      !.pool_misses = @ + 1,
                      !.curr_stdalloc = @ + 1,
                      !.max_stdalloc = MaxOf(@, p.curr_stdalloc + 1)]
              \in PoolRecord
<1>1. /\ p.hot_count \in Int /\ p.cold_count \in Int
      /\ p.alloc_count \in Nat /\ p.pool_misses \in Nat
      /\ p.max_alloc \in Int
      /\ p.curr_stdalloc \in Int /\ p.max_stdalloc \in Int
  BY DEF PoolRecord
<1>2. ASSUME NEW a \in Nat
      PROVE  [p EXCEPT !.alloc_count = a, !.list = l] \in PoolRecord
  <2> DEFINE q == [p EXCEPT !.alloc_count = a]
  <2>1. q \in PoolRecord
    BY FieldUpdates
  <2>2. [q EXCEPT !.list = l] \in PoolRecord
    BY ONLY <2>1, FieldUpdates, l \in Seq(Chunks)
  <2> QED
    BY <2>2
<1>3. ASSUME NEW h \in Int, NEW c \in Int
      PROVE  [p EXCEPT !.hot_count = h, !.cold_count = c] \in PoolRecord
  <2> DEFINE q == [p EXCEPT !.hot_count = h]
  <2>1. q \in PoolRecord
    BY FieldUpdates
  <2>2. [q EXCEPT !.cold_count = c] \in PoolRecord
    BY ONLY <2>1, FieldUpdates, c \in Int
  <2> QED
    BY <2>2
<1>4. ASSUME NEW h \in Int, NEW c \in Int, NEW m \in Int
      PROVE  [p EXCEPT !.hot_count = h, !.cold_count = c, !.max_alloc = m]
               \in PoolRecord
  <2> DEFINE q == [p EXCEPT !.hot_count = h, !.cold_count = c]
  <2>1. q \in PoolRecord
    BY <1>3
  <2>2. [q EXCEPT !.max_alloc = m] \in PoolRecord
    BY ONLY <2>1, FieldUpdates, m \in Int
  <2> QED
    BY <2>2
<1>5. ASSUME NEW a \in Nat, NEW n \in Nat, NEW c \in Int, NEW m \in Int
      PROVE  [p EXCEPT !.alloc_count = a, !.pool_misses = n,
                       !.curr_stdalloc = c, !.max_stdalloc = m] \in PoolRecord
  <2> DEFINE q1 == [p EXCEPT !.alloc_count = a]
             q2 == [q1 EXCEPT !.pool_misses = n]
             q3 == [q2 EXCEPT !.curr_stdalloc = c]
             q4 == [q3 EXCEPT !.max_stdalloc = m]
  <2>1. q1 \in PoolRecord
    BY FieldUpdates
  <2>2. q2 \in PoolRecord
    BY ONLY <2>1, FieldUpdates, n \in Nat
  <2>3. q3 \in PoolRecord
    BY ONLY <2>2, FieldUpdates, c \in Int
  <2>4. q4 \in PoolRecord
    BY ONLY <2>3, FieldUpdates, m \in Int
  <2> QED
    BY <2>4
<1>6. /\ p.hot_count + 1 \in Int /\ p.hot_count - 1 \in Int
      /\ p.cold_count + 1 \in Int /\ p.cold_count - 1 \in Int
      /\ p.alloc_count + 1 \in Nat /\ p.pool_misses + 1 \in Nat
      /\ p.curr_stdalloc + 1 \in Int /\ p.curr_stdalloc - 1 \in Int
      /\ MaxOf(p.max_alloc, p.hot_count + 1) \in Int
      /\ MaxOf(p.max_stdalloc, p.curr_stdalloc + 1) \in Int
  BY <1>1 DEF MaxOf
<1>7. [p EXCEPT !.alloc_count = @ + 1, !.list = l] \in PoolRecord
  BY <1>2, <1>6, Zenon
<1>8. [p EXCEPT !.hot_count = @ - 1, !.cold_count = @ + 1] \in PoolRecord
  BY <1>3, <1>6, Zenon
<1>9. [p EXCEPT !.hot_count = @ + 1, !.cold_count = @ - 1,
                !.max_alloc = MaxOf(@, p.hot_count + 1)] \in PoolRecord
  BY <1>4, <1>6, Zenon
<1>10. [p EXCEPT !.alloc_count = @ + 1,
                 !.pool_misses = @ + 1,
                 !.curr_stdalloc = @ + 1,
                 !.max_stdalloc = MaxOf(@, p.curr_stdalloc + 1)] \in PoolRecord
  BY <1>5, <1>6, Zenon
<1>11. [p EXCEPT !.list = l] \in PoolRecord
  BY FieldUpdates
<1>12. [p EXCEPT !.curr_stdalloc = @ - 1] \in PoolRecord
  BY <1>6, FieldUpdates, Zenon
<1> QED
  BY <1>7, <1>8, <1>9, <1>10, <1>11, <1>12

LEMMA TypeStep == PoolInv /\ Next => TypeOK'
<1> SUFFICES ASSUME PoolInv, Next PROVE TypeOK'
  OBVIOUS
<1> USE DEF PoolInv, TypeOK, Go, Users, memory
<1>1. ASSUME NEW t \in Threads, GetCall(t) PROVE TypeOK'
  BY <1>1 DEF GetCall, GetPC
<1>2. ASSUME NEW t \in Threads, GetLock(t) PROVE TypeOK'
  BY <1>2 DEF GetLock, Acquire, GetPC
<1>3. ASSUME NEW t \in Threads, GetTake(t) PROVE TypeOK'
  <2>1. head'[t] \in Chunks /\ pool'.list \in Seq(Chunks)
    BY <1>3, TakeStep
  <2>2. pool'.list = Tail(pool.list) /\ head'[t] = Head(pool.list)
    BY <1>3 DEF GetTake, PoolRecord
  <2>3. pool' \in PoolRecord
    BY <1>3, <2>1, <2>2, PoolUpdates DEF GetTake
  <2> QED
    BY <1>3, <2>1, <2>2, <2>3 DEF GetTake, GetPC, Heads
<1>4. ASSUME NEW t \in Threads, GetCount(t) PROVE TypeOK'
  <2>1. pool' \in PoolRecord
    <3>1. pool.list \in Seq(Chunks)
      BY DEF PoolRecord
    <3> QED
      BY <1>4, <3>1, PoolUpdates DEF GetCount
  <2>2. head[t] \in Chunks
    BY <1>4, CountStep
  <2> QED
    BY <1>4, <2>1, <2>2 DEF GetCount, GetPC
<1>5. ASSUME NEW t \in Threads, GetMiss(t) PROVE TypeOK'
  <2>1. /\ heap' \subseteq HeapBlocks /\ head' \in [Threads -> Heads \cup {NULL}]
        /\ header' \subseteq Heads /\ dirty' \subseteq Heads
    BY <1>5 DEF GetMiss, Calloc, Heads
  <2>2. pool' \in PoolRecord
    <3>1. pool.list \in Seq(Chunks)
      BY DEF PoolRecord
    <3> QED
      BY <1>5, <3>1, PoolUpdates DEF GetMiss
  <2> QED
    BY <1>5, <2>1, <2>2 DEF GetMiss, GetPC
<1>6. ASSUME NEW t \in Threads, GetUnlock(t) PROVE TypeOK'
  BY <1>6 DEF GetUnlock, Release, GetPC
<1>7. ASSUME NEW t \in Threads, GetCrash(t) PROVE TypeOK'
  BY <1>7 DEF GetCrash
<1>8. ASSUME NEW t \in Threads, GetZero(t) PROVE TypeOK'
  BY <1>8 DEF GetZero, GetPC
<1>9. ASSUME NEW t \in Threads, GetReturn(t) PROVE TypeOK'
  <2>1. head[t] \in Heads
    BY <1>9 DEF GetReturn, HeadInv, ObjectPC
  <2> QED
    BY <1>9, <2>1 DEF GetReturn
<1>10. ASSUME NEW t \in Threads, UserWrite(t) PROVE TypeOK'
  BY <1>10, HeadOfHeld DEF UserWrite
<1>11. ASSUME NEW t \in Threads, PutCall(t) PROVE TypeOK'
  BY <1>11, HeadOfPuttable DEF PutCall, PutPC
<1>12. ASSUME NEW t \in Threads, PutNoPool(t) PROVE TypeOK'
  BY <1>12 DEF PutNoPool
<1>13. ASSUME NEW t \in Threads, PutLock(t) PROVE TypeOK'
  BY <1>13 DEF PutLock, Acquire, PutPC
<1>14. ASSUME NEW t \in Threads, PutFreed(t) PROVE TypeOK'
  BY <1>14 DEF PutFreed, PutPC
<1>15. ASSUME NEW t \in Threads, PutCount(t) PROVE TypeOK'
  <2>1. pool' \in PoolRecord
    <3>1. pool.list \in Seq(Chunks)
      BY DEF PoolRecord
    <3> QED
      BY <1>15, <3>1, PoolUpdates DEF PutCount
  <2> QED
    BY <1>15, <2>1 DEF PutCount, PutPC
<1>16. ASSUME NEW t \in Threads, PutLink(t) PROVE TypeOK'
  <2>1. pool'.list \in Seq(Chunks) /\ pool'.list = <<head[t]>> \o pool.list
    BY <1>16, LinkStep DEF PutLink, PoolRecord
  <2>2. pool' \in PoolRecord
    BY <1>16, <2>1, PoolUpdates DEF PutLink
  <2> QED
    BY <1>16, <2>2 DEF PutLink, PutPC
<1>17. ASSUME NEW t \in Threads, PutElsewhere(t) PROVE TypeOK'
  <2>1. pool' \in PoolRecord
    <3>1. pool.list \in Seq(Chunks)
      BY DEF PoolRecord
    <3> QED
      BY <1>17, <3>1, PoolUpdates DEF PutElsewhere
  <2> QED
    BY <1>17, <2>1 DEF PutElsewhere, PutPC
<1>18. ASSUME NEW t \in Threads, PutUnlock(t) PROVE TypeOK'
  BY <1>18 DEF PutUnlock, Release
<1>19. ASSUME NEW m \in Monitors, MonitorLock(m) PROVE TypeOK'
  BY <1>19 DEF MonitorLock, Acquire, MonitorPC
<1>20. ASSUME NEW m \in Monitors, MonitorHot(m) PROVE TypeOK'
  <2>1. snap' \in [hot : Int, cold : Int, alloc : Nat, max : Int]
    BY <1>20 DEF MonitorHot, PoolRecord
  <2> QED
    BY <1>20, <2>1 DEF MonitorHot, MonitorPC
<1>21. ASSUME NEW m \in Monitors, MonitorRest(m) PROVE TypeOK'
  <2>1. snap' \in [hot : Int, cold : Int, alloc : Nat, max : Int]
    BY <1>21 DEF MonitorRest, PoolRecord
  <2> QED
    BY <1>21, <2>1 DEF MonitorRest, MonitorPC
<1>22. ASSUME NEW m \in Monitors, MonitorUnlock(m) PROVE TypeOK'
  BY <1>22 DEF MonitorUnlock, Release, NothingPrinted
<1> QED
  BY <1>1, <1>2, <1>3, <1>4, <1>5, <1>6, <1>7, <1>8, <1>9, <1>10, <1>11,
     <1>12, <1>13, <1>14, <1>15, <1>16, <1>17, <1>18, <1>19, <1>20, <1>21,
     <1>22
  DEF Next, ThreadNext, GetStep, PutStep, MonitorStep

LEMMA LockStep == PoolInv /\ Next => LockInv'
<1> SUFFICES ASSUME PoolInv, Next PROVE LockInv'
  OBVIOUS
<1> USE DEF PoolInv, CriticalPC, Users
<1>1. ASSUME NEW t \in Threads,
             GetCall(t) \/ GetZero(t) \/ GetReturn(t) \/ PutCall(t)
      PROVE  LockInv'
  BY <1>1, KeepLock DEF GetCall, GetZero, GetReturn, PutCall
<1>2. ASSUME NEW t \in Threads,
             \/ GetTake(t) \/ GetCount(t) \/ GetMiss(t) \/ PutFreed(t)
             \/ PutCount(t) \/ PutLink(t) \/ PutElsewhere(t)
      PROVE  LockInv'
  BY <1>2, KeepLock
  DEF GetTake, GetCount, GetMiss, PutFreed, PutCount, PutLink, PutElsewhere
<1>3. ASSUME NEW t \in Threads, GetCrash(t) \/ UserWrite(t) \/ PutNoPool(t)
      PROVE  LockInv'
  BY <1>3 DEF GetCrash, UserWrite, PutNoPool, LockInv
<1>4. ASSUME NEW t \in Threads, GetLock(t) \/ PutLock(t) PROVE LockInv'
  BY <1>4, AcquireLock DEF GetLock, PutLock
<1>5. ASSUME NEW t \in Threads, GetUnlock(t) \/ PutUnlock(t) PROVE LockInv'
  BY <1>5, ReleaseLock DEF GetUnlock, PutUnlock
<1>6. ASSUME NEW m \in Monitors, MonitorLock(m) PROVE LockInv'
  BY <1>6, AcquireLock DEF MonitorLock
<1>7. ASSUME NEW m \in Monitors, MonitorHot(m) \/ MonitorRest(m)
      PROVE  LockInv'
  BY <1>7, KeepLock DEF MonitorHot, MonitorRest
<1>8. ASSUME NEW m \in Monitors, MonitorUnlock(m) PROVE LockInv'
  BY <1>8, ReleaseLock DEF MonitorUnlock
<1> QED
  BY <1>1, <1>2, <1>3, <1>4, <1>5, <1>6, <1>7, <1>8
  DEF Next, ThreadNext, GetStep, PutStep, MonitorStep

LEMMA HeadStep == PoolInv /\ Next => HeadInv'
<1> SUFFICES ASSUME PoolInv, Next PROVE HeadInv'
  OBVIOUS
<1> DEFINE HeadOK(t) == /\ pc[t] \in ObjectPC => head[t] \in Heads
                        /\ pc[t] = "get_fwd" => head[t] # NULL \/ CallocFails
\* The steps after which t works on a head it did not have to have before.
<1>1. ASSUME NEW t \in Threads, GetCount(t) PROVE HeadOK(t)'
  <2>1. head'[t] \in Heads /\ pc'[t] = "get_fwd"
    BY <1>1, CountStep, GoMoves DEF GetCount, PoolInv, Users, Heads
  <2> QED
    BY <2>1, HeadsDisjoint DEF ObjectPC
<1>2. ASSUME NEW t \in Threads, GetMiss(t) PROVE HeadOK(t)'
  <2>1. pc'[t] = "get_fwd"
    BY <1>2, GoMoves DEF GetMiss, PoolInv, Users
  <2>2. head'[t] \in Heads \/ CallocFails
    BY <1>2 DEF GetMiss, Calloc, PoolInv, TypeOK, Heads
  <2> QED
    BY <2>1, <2>2, HeadsDisjoint DEF ObjectPC
<1>3. ASSUME NEW t \in Threads, GetUnlock(t) PROVE HeadOK(t)'
  <2>1. head'[t] \in Heads /\ pc'[t] # "get_fwd"
    BY <1>3, GoMoves DEF GetUnlock, Release, PoolInv, TypeOK, Users
  <2> QED
    BY <2>1
<1>4. ASSUME NEW t \in Threads, PutCall(t) PROVE HeadOK(t)'
  <2>1. head'[t] \in Heads /\ pc'[t] = "put_lock"
    BY <1>4, HeadOfPuttable, GoMoves DEF PutCall, PoolInv, TypeOK, Users
  <2> QED
    BY <2>1
<1>5. ASSUME NEW t \in Threads,
             \/ GetZero(t) \/ PutLock(t) \/ PutFreed(t) \/ PutCount(t)
             \/ PutLink(t) \/ PutElsewhere(t)
      PROVE  HeadOK(t)'
  <2>1. pc[t] \in ObjectPC /\ head' = head /\ pc'[t] # "get_fwd"
    BY <1>5, GoMoves
    DEF GetZero, PutLock, PutFreed, PutCount, PutLink, PutElsewhere, Acquire,
        PoolInv, Users, ObjectPC
  <2> QED
    BY <2>1 DEF PoolInv, HeadInv
<1>6. ASSUME NEW t \in Threads,
             \/ GetCall(t) \/ GetLock(t) \/ GetTake(t) \/ GetReturn(t)
             \/ PutUnlock(t)
      PROVE  HeadOK(t)'
  <2>1. pc'[t] \in {"get_lock", "get_take", "get_count", "idle"}
    BY <1>6, GoMoves
    DEF GetCall, GetLock, GetTake, GetReturn, PutUnlock, Acquire, Release,
        PoolInv, Users
  <2> QED
    BY <2>1 DEF ObjectPC
<1>7. ASSUME NEW t \in Threads,
             \/ GetCall(t) \/ GetLock(t) \/ GetTake(t) \/ GetCount(t)
             \/ GetMiss(t) \/ GetUnlock(t) \/ GetZero(t) \/ GetReturn(t)
             \/ PutCall(t) \/ PutLock(t) \/ PutFreed(t) \/ PutCount(t)
             \/ PutLink(t) \/ PutElsewhere(t) \/ PutUnlock(t),
             HeadOK(t)'
      PROVE  HeadInv'
  <2>1. \A u \in Threads : u # t => pc'[u] = pc[u] /\ head'[u] = head[u]
    BY <1>7
    DEF GetCall, GetLock, GetTake, GetCount, GetMiss, Calloc, GetUnlock,
        GetZero, GetReturn, PutCall, PutLock, PutFreed, PutCount, PutLink,
        PutElsewhere, PutUnlock, Acquire, Release, Go, PoolInv, TypeOK, Users
  <2> QED
    BY <2>1, <1>7 DEF HeadInv, PoolInv
<1>8. ASSUME NEW t \in Threads, GetCrash(t) \/ UserWrite(t) \/ PutNoPool(t)
      PROVE  HeadInv'
  BY <1>8 DEF GetCrash, UserWrite, PutNoPool, HeadInv, PoolInv
<1>9. ASSUME NEW m \in Monitors, MonitorLock(m) \/ MonitorStep(m)
      PROVE  HeadInv'
  <2>1. head' = head /\ \A u \in Threads : pc'[u] = pc[u]
    BY <1>9, ThreadsAssumption
    DEF MonitorLock, MonitorStep, MonitorHot, MonitorRest, MonitorUnlock,
        Acquire, Release, Go, PoolInv, TypeOK, Users, ThreadsAssumption
  <2> QED
    BY <2>1 DEF HeadInv, PoolInv
<1> QED
  BY <1>1, <1>2, <1>3, <1>4, <1>5, <1>6, <1>7, <1>8, <1>9
  DEF Next, ThreadNext, GetStep, PutStep

\* mem_put does not abort on the object of a chunk or of a heap block, and
\* mem_get faults only after a failing calloc.
LEMMA AliveStep == PoolInv /\ Next => StaysAlive'
<1> SUFFICES ASSUME PoolInv, Next, ~CallocFails PROVE alive'
  BY DEF StaysAlive
<1>1. alive
  BY DEF PoolInv, StaysAlive
<1>2. ASSUME NEW t \in Threads PROVE ~GetCrash(t)
  BY DEF GetCrash, PoolInv, HeadInv
<1>3. ASSUME NEW t \in Threads, PutElsewhere(t) PROVE alive'
  <2>1. head[t] \in Chunks \cup HeapBlocks /\ Member(t) # 1
    BY <1>3 DEF PutElsewhere, Go, PoolInv, HeadInv, ObjectPC, Heads
  <2>2. Member(t) = 0
    BY <2>1, ChunkObjectIsMember, HeapObjectIsNoMember DEF Member
  <2> QED
    BY <1>1, <1>3, <2>2 DEF PutElsewhere
<1>4. ASSUME NEW t \in Threads,
             \/ GetCall(t) \/ GetLock(t) \/ GetTake(t) \/ GetCount(t)
             \/ GetMiss(t) \/ GetUnlock(t) \/ GetZero(t) \/ GetReturn(t)
             \/ UserWrite(t) \/ PutCall(t) \/ PutNoPool(t) \/ PutLock(t)
             \/ PutFreed(t) \/ PutCount(t) \/ PutLink(t) \/ PutUnlock(t)
      PROVE  alive'
  BY <1>1, <1>4
  DEF GetCall, GetLock, GetTake, GetCount, GetMiss, GetUnlock, GetZero,
      GetReturn, UserWrite, PutCall, PutNoPool, PutLock, PutFreed, PutCount,
      PutLink, PutUnlock
<1>5. ASSUME NEW m \in Monitors, MonitorLock(m) \/ MonitorStep(m)
      PROVE  alive'
  BY <1>1, <1>5
  DEF MonitorLock, MonitorStep, MonitorHot, MonitorRest, MonitorUnlock
<1> QED
  BY <1>2, <1>3, <1>4, <1>5 DEF Next, ThreadNext, GetStep, PutStep

LEMMA SlabStep == PoolInv /\ Next => PlaceInv' /\ CountInv'
<1> SUFFICES ASSUME PoolInv, Next PROVE PlaceInv' /\ CountInv'
  OBVIOUS
<1> USE DEF PoolInv
<1>1. ASSUME NEW t \in Threads,
             GetTake(t) \/ GetCount(t) \/ PutCount(t) \/ PutLink(t)
      PROVE  PlaceInv' /\ CountInv'
  BY <1>1, TakeStep, CountStep, UncountStep, LinkStep
\* The other steps of a call leave the list, the counters and in_use alone,
\* and t's head was not and is not being linked.
<1>2. ASSUME NEW t \in Threads,
             \/ GetCall(t) \/ GetLock(t) \/ GetMiss(t) \/ GetUnlock(t)
             \/ GetZero(t) \/ GetReturn(t) \/ PutCall(t) \/ PutLock(t)
             \/ PutFreed(t) \/ PutElsewhere(t) \/ PutUnlock(t)
      PROVE  PlaceInv' /\ CountInv'
  <2>1. /\ pool'.list = pool.list
        /\ pool'.cold_count = pool.cold_count
        /\ pool'.hot_count = pool.hot_count
    BY <1>2
    DEF GetCall, GetLock, GetMiss, GetUnlock, GetZero, GetReturn, PutCall,
        PutLock, PutFreed, PutElsewhere, PutUnlock, TypeOK, PoolRecord
  <2>2. in_use' = in_use
    BY <1>2
    DEF GetCall, GetLock, GetMiss, GetUnlock, GetZero, GetReturn, PutCall,
        PutLock, PutFreed, PutElsewhere, PutUnlock, memory
  <2>3. Linking' = Linking /\ t \notin Linking
    BY <1>2, QuietMove
    DEF GetCall, GetLock, GetMiss, GetUnlock, GetZero, GetReturn, PutCall,
        PutLock, PutFreed, PutElsewhere, PutUnlock, Acquire, Release, LinkPC,
        Users
  <2>4. \A u \in Linking : head'[u] = head[u]
    <3>1. \A u \in Threads : u # t => head'[u] = head[u]
      BY <1>2
      DEF GetCall, GetLock, GetMiss, Calloc, GetUnlock, GetZero, GetReturn,
          PutCall, PutLock, PutFreed, PutElsewhere, PutUnlock, TypeOK
    <3> QED
      BY <2>3, <3>1 DEF Linking
  <2> QED
    BY <2>1, <2>2, <2>3, <2>4, QuietStep
<1>3. ASSUME NEW t \in Threads, GetCrash(t) \/ UserWrite(t) \/ PutNoPool(t)
      PROVE  PlaceInv' /\ CountInv'
  <2>1. UNCHANGED <<pool, in_use, pc, head>>
    BY <1>3 DEF GetCrash, UserWrite, PutNoPool, memory
  <2> QED
    BY <2>1, QuietStep DEF Linking
<1>4. ASSUME NEW m \in Monitors, MonitorLock(m) \/ MonitorStep(m)
      PROVE  PlaceInv' /\ CountInv'
  <2>1. UNCHANGED <<pool, in_use, head>>
    BY <1>4
    DEF MonitorLock, MonitorStep, MonitorHot, MonitorRest, MonitorUnlock,
        memory
  <2>2. Linking' = Linking
    BY <1>4, QuietMove
    DEF MonitorLock, MonitorStep, MonitorHot, MonitorRest, MonitorUnlock,
        Acquire, Release, LinkPC, Users
  <2> QED
    BY <2>1, <2>2, QuietStep
<1> QED
  BY <1>1, <1>2, <1>3, <1>4 DEF Next, ThreadNext, GetStep, PutStep

\* mem_pool_new_fn links every chunk once (mem-pool.c:56-60).
LEMMA InitialList ==
  /\ InitList \in Seq(Chunks)
  /\ Len(InitList) = Count
  /\ IsInjective(InitList)
  /\ Range(InitList) = Chunks
<1>1. Count \in Nat
  BY LayoutAssumption DEF LayoutAssumption
<1>2. \A i \in 1 .. Count : i - 1 \in 0 .. Count - 1
  BY <1>1
<1>3. InitList \in [1 .. Count -> Chunks]
  BY <1>2 DEF InitList, Chunks
<1>4. InitList \in Seq(Chunks) /\ Len(InitList) = Count
  BY <1>1, <1>3
<1>5. IsInjective(InitList)
  <2> SUFFICES ASSUME NEW i \in 1 .. Count, NEW j \in 1 .. Count,
                      Chunk(i - 1) = Chunk(j - 1)
               PROVE  i = j
    BY DEF IsInjective, InitList
  <2>1. i - 1 = j - 1
    BY <1>2, ChunkInjective
  <2> QED
    BY <2>1, <1>1
<1>6. Range(InitList) = Chunks
  <2>1. ASSUME NEW k \in 0 .. Count - 1 PROVE Chunk(k) \in Range(InitList)
    <3>1. k + 1 \in 1 .. Count /\ (k + 1) - 1 = k
      BY <1>1
    <3>2. InitList[k + 1] = Chunk(k) /\ k + 1 \in DOMAIN InitList
      BY <3>1 DEF InitList
    <3> QED
      BY <3>2 DEF Range
  <2>2. Range(InitList) \subseteq Chunks
    BY <1>3 DEF Range
  <2> QED
    BY <2>1, <2>2 DEF Chunks
<1> QED
  BY <1>4, <1>5, <1>6

LEMMA InitInv == Init => PoolInv
<1> SUFFICES ASSUME Init PROVE PoolInv
  OBVIOUS
<1>1. /\ pool.list = InitList /\ pool.hot_count = 0
      /\ pool.cold_count = Count /\ in_use = {}
      /\ pc = [t \in Users |-> "idle"] /\ lock = NoThread
  BY DEF Init
<1>2. Count \in Nat
  BY LayoutAssumption DEF LayoutAssumption
<1>3. Linking = {}
  BY <1>1 DEF Linking, LinkPC, Users
<1>4. TypeOK
  BY <1>2, InitialList
  DEF Init, TypeOK, PoolRecord, NothingPrinted
<1>5. LockInv
  BY <1>1, ThreadsAssumption
  DEF LockInv, CriticalPC, Users, ThreadsAssumption
<1>6. HeadInv
  BY <1>1 DEF HeadInv, ObjectPC, Users
<1>7. PlaceInv
  BY <1>1, <1>3, InitialList DEF PlaceInv, FreeList
<1>8. CountInv
  BY <1>1, <1>2, <1>3, InitialList, FS_EmptySet DEF CountInv
<1>9. StaysAlive
  BY DEF Init, StaysAlive
<1> QED
  BY <1>4, <1>5, <1>6, <1>7, <1>8, <1>9 DEF PoolInv

LEMMA StutterInv == PoolInv /\ UNCHANGED vars => PoolInv'
BY DEF PoolInv, vars, memory, TypeOK, LockInv, HeadInv, PlaceInv, CountInv,
       StaysAlive, Linking, FreeList

-----------------------------------------------------------------------------
(* The theorems *)

\* The invariant holds in every reachable state, misuse and a failing calloc
\* included.
THEOREM Invariance == Spec => []PoolInv
<1>1. Init => PoolInv
  BY InitInv
<1>2. PoolInv /\ [Next]_vars => PoolInv'
  BY TypeStep, LockStep, HeadStep, SlabStep, AliveStep, StutterInv DEF PoolInv
<1> QED
  BY <1>1, <1>2, PTL DEF Spec

\* Type correctness: in particular mem_get never unlinks the first element of
\* an empty list (mem-pool.c:104-105).
THEOREM TypeCorrectness == Spec => []TypeOK
<1>1. PoolInv => TypeOK
  BY DEF PoolInv
<1> QED
  BY <1>1, Invariance, PTL

\* Between critical sections the free list and the in_use words partition the
\* slab and both counters agree with them, whatever a client passes to mem_put
\* (mem-pool.c:103-119, 212-223).
THEOREM Consistency == Spec => []PoolConsistent
<1>1. PoolInv => PoolConsistent
  <2> SUFFICES ASSUME PoolInv, lock = NoThread
               PROVE  /\ IsInjective(pool.list)
                      /\ FreeList \cap in_use = {}
                      /\ FreeList \cup in_use = Chunks
                      /\ pool.cold_count = Len(pool.list)
                      /\ pool.hot_count = Cardinality(in_use)
                      /\ pool.hot_count + pool.cold_count = Count
    BY DEF PoolConsistent
  <2>1. Linking = {}
    BY ThreadsAssumption
    DEF PoolInv, LockInv, Linking, LinkPC, CriticalPC, Users, ThreadsAssumption
  <2>2. FreeList \subseteq Chunks
    BY DEF PoolInv, TypeOK, PoolRecord, FreeList, Range
  <2> QED
    BY <2>1, <2>2 DEF PoolInv, PlaceInv, CountInv, TypeOK
<1> QED
  BY <1>1, Invariance, PTL

\* Every address a client can legally or by a repeated call pass to mem_put is
\* an object of the slab or of the heap to __is_member: mem_put never aborts,
\* and mem_get does not fault unless calloc fails (mem-pool.c:153-154, 231).
THEOREM Survival == Spec => []StaysAlive
<1>1. PoolInv => StaysAlive
  BY DEF PoolInv
<1> QED
  BY <1>1, Invariance, PTL

-----------------------------------------------------------------------------
(* The statistics *)

\* An allocation that was counted and has not moved the maximum yet.
Counting == {t \in Threads : pc[t] = "get_count"}

\* While a thread is between list_del and hot_count++ the sum is one behind.
StatInv ==
  /\ Watermarks
  /\ Counting # {} => pool.max_alloc + pool.pool_misses < pool.alloc_count

\* What the monitor read so far is still what the pool says.
SnapInv ==
  /\ \A m \in Monitors : pc[m] = "mon_rest" => snap.hot = pool.hot_count
  /\ SnapshotConsistent

\* The counters as numbers.
LEMMA CounterTypes ==
  ASSUME TypeOK
  PROVE  /\ pool.hot_count \in Int /\ pool.cold_count \in Int
         /\ pool.alloc_count \in Nat /\ pool.pool_misses \in Nat
         /\ pool.max_alloc \in Int /\ pool.curr_stdalloc \in Int
         /\ pool.max_stdalloc \in Int
         /\ Len(pool.list) \in Nat
         /\ Count \in Nat
<1>1. pool.list \in Seq(Chunks)
  BY DEF TypeOK, PoolRecord
<1> QED
  BY <1>1, LayoutAssumption DEF TypeOK, PoolRecord, LayoutAssumption

\* A step that leaves the counters alone and counts no chunk.
LEMMA QuietStat ==
  ASSUME StatInv, pool'.hot_count = pool.hot_count,
         pool'.alloc_count = pool.alloc_count,
         pool'.pool_misses = pool.pool_misses,
         pool'.max_alloc = pool.max_alloc,
         pool'.curr_stdalloc = pool.curr_stdalloc,
         pool'.max_stdalloc = pool.max_stdalloc,
         Counting' \subseteq Counting
  PROVE  StatInv'
BY DEF StatInv, Watermarks

\* The thread inside the critical section is the only one that may count.
LEMMA OneCounting ==
  ASSUME LockInv, NEW t \in Threads, pc[t] \in CriticalPC
  PROVE  Counting \subseteq {t}
BY DEF LockInv, Counting, CriticalPC, Users

LEMMA TakeStat ==
  ASSUME PoolInv, StatInv, NEW t \in Threads, GetTake(t)
  PROVE  StatInv'
<1>1. /\ pool'.hot_count = pool.hot_count
      /\ pool'.alloc_count = pool.alloc_count + 1
      /\ pool'.pool_misses = pool.pool_misses
      /\ pool'.max_alloc = pool.max_alloc
      /\ pool'.curr_stdalloc = pool.curr_stdalloc
      /\ pool'.max_stdalloc = pool.max_stdalloc
  BY DEF GetTake, PoolInv, TypeOK, PoolRecord
<1> QED
  BY <1>1, CounterTypes DEF StatInv, Watermarks, PoolInv

\* cold_count is not zero while a chunk is in somebody's hands, so hot_count
\* stays below count.
LEMMA CountStat ==
  ASSUME PoolInv, StatInv, NEW t \in Threads, GetCount(t)
  PROVE  StatInv'
<1>1. pc[t] = "get_count" /\ pc' = [pc EXCEPT ![t] = "get_fwd"]
  BY DEF GetCount, Go
<1>2. /\ pool'.hot_count = pool.hot_count + 1
      /\ pool'.alloc_count = pool.alloc_count
      /\ pool'.pool_misses = pool.pool_misses
      /\ pool'.max_alloc = MaxOf(pool.max_alloc, pool.hot_count + 1)
      /\ pool'.curr_stdalloc = pool.curr_stdalloc
      /\ pool'.max_stdalloc = pool.max_stdalloc
  BY DEF GetCount, PoolInv, TypeOK, PoolRecord
<1>3. Counting = {t}
  BY <1>1, OneCounting DEF PoolInv, CriticalPC, Counting
<1>4. Counting' = {}
  BY <1>1, <1>3 DEF Counting, PoolInv, TypeOK, Users
<1>5. pool.hot_count + 1 <= Count
  <2>1. Linking = {t}
    BY <1>1, OneLinking DEF PoolInv, CriticalPC, LinkPC
  <2> QED
    BY <2>1, CounterTypes DEF PoolInv, CountInv
<1> QED
  BY <1>2, <1>3, <1>4, <1>5, CounterTypes
  DEF StatInv, Watermarks, PoolInv, MaxOf

LEMMA MissStat ==
  ASSUME PoolInv, StatInv, NEW t \in Threads, GetMiss(t)
  PROVE  StatInv'
<1>1. pc[t] = "get_take" /\ pc' = [pc EXCEPT ![t] = "get_fwd"]
  BY DEF GetMiss, Go
<1>2. /\ pool'.hot_count = pool.hot_count
      /\ pool'.alloc_count = pool.alloc_count + 1
      /\ pool'.pool_misses = pool.pool_misses + 1
      /\ pool'.max_alloc = pool.max_alloc
      /\ pool'.curr_stdalloc = pool.curr_stdalloc + 1
      /\ pool'.max_stdalloc = MaxOf(pool.max_stdalloc, pool.curr_stdalloc + 1)
  BY DEF GetMiss, PoolInv, TypeOK, PoolRecord
<1>3. Counting' = {}
  <2>1. Counting = {}
    BY <1>1, OneCounting DEF PoolInv, CriticalPC, Counting
  <2> QED
    BY <1>1, <2>1 DEF Counting, PoolInv, TypeOK, Users
<1> QED
  BY <1>2, <1>3, CounterTypes DEF StatInv, Watermarks, PoolInv, MaxOf

\* mem_put lowers counters, never a maximum.
LEMMA UncountStat ==
  ASSUME PoolInv, StatInv, NEW t \in Threads, PutCount(t)
  PROVE  StatInv'
<1>1. /\ Go(t, "put_check", "put_link")
      /\ head[t] \in in_use /\ in_use' = in_use \ {head[t]}
  BY DEF PutCount
<1>2. /\ pool'.hot_count = pool.hot_count - 1
      /\ pool'.alloc_count = pool.alloc_count
      /\ pool'.pool_misses = pool.pool_misses
      /\ pool'.max_alloc = pool.max_alloc
      /\ pool'.curr_stdalloc = pool.curr_stdalloc
      /\ pool'.max_stdalloc = pool.max_stdalloc
  BY DEF PutCount, PoolInv, TypeOK, PoolRecord
<1>3. pool.hot_count > 0
  <2>1. /\ Cardinality(in_use') = Cardinality(in_use) - 1
        /\ Cardinality(in_use') \in Nat /\ Cardinality(in_use) \in Nat
        /\ pool.hot_count = Cardinality(in_use)
    BY <1>1, Counted, FS_RemoveElement, FS_CardinalityType DEF PoolInv
  <2> QED
    BY <2>1
<1>4. Counting' \subseteq Counting
  BY <1>1, GoMoves DEF Counting, PoolInv, Users
<1> QED
  BY <1>2, <1>3, <1>4, CounterTypes DEF StatInv, Watermarks, PoolInv

LEMMA ElsewhereStat ==
  ASSUME PoolInv, StatInv, NEW t \in Threads, PutElsewhere(t)
  PROVE  StatInv'
<1>1. Go(t, "put_check", "put_unlock")
  BY DEF PutElsewhere
<1>2. /\ pool'.hot_count = pool.hot_count
      /\ pool'.alloc_count = pool.alloc_count
      /\ pool'.pool_misses = pool.pool_misses
      /\ pool'.max_alloc = pool.max_alloc
      /\ pool'.curr_stdalloc \in Int
      /\ pool'.curr_stdalloc <= pool.curr_stdalloc
      /\ pool'.max_stdalloc = pool.max_stdalloc
  BY DEF PutElsewhere, PoolInv, TypeOK, PoolRecord
<1>3. Counting' \subseteq Counting
  BY <1>1, GoMoves DEF Counting, PoolInv, Users
<1> QED
  BY <1>2, <1>3, CounterTypes DEF StatInv, Watermarks, PoolInv

LEMMA StatStep == PoolInv /\ StatInv /\ Next => StatInv'
<1> SUFFICES ASSUME PoolInv, StatInv, Next PROVE StatInv'
  OBVIOUS
<1>1. ASSUME NEW t \in Threads,
             \/ GetTake(t) \/ GetCount(t) \/ GetMiss(t) \/ PutCount(t)
             \/ PutElsewhere(t)
      PROVE  StatInv'
  BY <1>1, TakeStat, CountStat, MissStat, UncountStat, ElsewhereStat
<1>2. ASSUME NEW t \in Threads,
             \/ GetCall(t) \/ GetLock(t) \/ GetUnlock(t) \/ GetZero(t)
             \/ GetReturn(t) \/ PutCall(t) \/ PutLock(t) \/ PutFreed(t)
             \/ PutUnlock(t)
      PROVE  StatInv'
  <2>1. pool' = pool
    BY <1>2 DEF GetCall, GetLock, GetUnlock, GetZero, GetReturn, PutCall,
                PutLock, PutFreed, PutUnlock
  <2>2. \E from, to : Go(t, from, to) /\ to # "get_count"
    BY <1>2 DEF GetCall, GetLock, GetUnlock, GetZero, GetReturn, PutCall,
                PutLock, PutFreed, PutUnlock, Acquire, Release
  <2>3. Counting' \subseteq Counting
    BY <2>2, GoMoves DEF Counting, PoolInv, Users
  <2> QED
    BY <2>1, <2>3, QuietStat
<1>3. ASSUME NEW t \in Threads, PutLink(t)
      PROVE  StatInv'
  <2>1. /\ pool'.hot_count = pool.hot_count
        /\ pool'.alloc_count = pool.alloc_count
        /\ pool'.pool_misses = pool.pool_misses
        /\ pool'.max_alloc = pool.max_alloc
        /\ pool'.curr_stdalloc = pool.curr_stdalloc
        /\ pool'.max_stdalloc = pool.max_stdalloc
    BY <1>3 DEF PutLink, PoolInv, TypeOK, PoolRecord
  <2>2. Go(t, "put_link", "put_unlock")
    BY <1>3 DEF PutLink
  <2>3. Counting' \subseteq Counting
    BY <2>2, GoMoves DEF Counting, PoolInv, Users
  <2> QED
    BY <2>1, <2>3, QuietStat
<1>4. ASSUME NEW t \in Threads, GetCrash(t) \/ UserWrite(t) \/ PutNoPool(t)
      PROVE  StatInv'
  <2>1. UNCHANGED <<pool, pc>>
    BY <1>4 DEF GetCrash, UserWrite, PutNoPool
  <2> QED
    BY <2>1, QuietStat DEF Counting
<1>5. ASSUME NEW m \in Monitors, MonitorLock(m) \/ MonitorStep(m)
      PROVE  StatInv'
  <2>1. pool' = pool
    BY <1>5
    DEF MonitorLock, MonitorStep, MonitorHot, MonitorRest, MonitorUnlock
  <2>2. \E from, to : Go(m, from, to) /\ to # "get_count"
    BY <1>5
    DEF MonitorLock, MonitorStep, MonitorHot, MonitorRest, MonitorUnlock,
        Acquire, Release
  <2>3. Counting' \subseteq Counting
    BY <2>2, GoMoves DEF Counting, PoolInv, Users
  <2> QED
    BY <2>1, <2>3, QuietStat
<1> QED
  BY <1>1, <1>2, <1>3, <1>4, <1>5 DEF Next, ThreadNext, GetStep, PutStep

\* While a monitor holds the lock nobody changes a counter.
LEMMA SnapStep == PoolInv /\ StatInv /\ SnapInv /\ Next => SnapInv'
<1> SUFFICES ASSUME PoolInv, StatInv, SnapInv, Next PROVE SnapInv'
  OBVIOUS
<1>1. ASSUME NEW t \in Threads, ThreadNext(t) PROVE SnapInv'
  <2>1. snap' = snap
    BY <1>1
    DEF ThreadNext, GetStep, PutStep, GetCall, GetLock, GetTake, GetCount,
        GetMiss, GetUnlock, GetCrash, GetZero, GetReturn, UserWrite, PutCall,
        PutNoPool, PutLock, PutFreed, PutCount, PutLink, PutElsewhere,
        PutUnlock
  <2>2. \A m \in Monitors : pc'[m] = pc[m]
    <3>1. \A m \in Monitors : m # t /\ m \in Users
      BY ThreadsAssumption DEF ThreadsAssumption, Users
    <3>2. (\E from, to : Go(t, from, to)) \/ pc' = pc
      BY <1>1
      DEF ThreadNext, GetStep, PutStep, GetCall, GetLock, GetTake, GetCount,
          GetMiss, GetUnlock, GetCrash, GetZero, GetReturn, UserWrite,
          PutCall, PutNoPool, PutLock, PutFreed, PutCount, PutLink,
          PutElsewhere, PutUnlock, Acquire, Release
    <3> QED
      BY <3>1, <3>2, GoMoves DEF PoolInv, Users
  <2>3. pool'.hot_count = pool.hot_count
        \/ \A m \in Monitors : pc[m] \notin MonitorPC
    <3>1. CASE GetCount(t) \/ PutCount(t)
      <4>1. pc[t] \in CriticalPC
        BY <3>1 DEF GetCount, PutCount, Go, CriticalPC
      <4>2. \A m \in Monitors : m # t /\ m \in Users
        BY ThreadsAssumption DEF ThreadsAssumption, Users
      <4> QED
        BY <4>1, <4>2
        DEF PoolInv, LockInv, Users, MonitorPC, CriticalPC
    <3>2. CASE ~(GetCount(t) \/ PutCount(t))
      BY <1>1, <3>2
      DEF ThreadNext, GetStep, PutStep, GetCall, GetLock, GetTake,
          GetMiss, GetUnlock, GetCrash, GetZero, GetReturn, UserWrite,
          PutCall, PutNoPool, PutLock, PutFreed, PutLink,
          PutElsewhere, PutUnlock, PoolInv, TypeOK, PoolRecord
    <3> QED
      BY <3>1, <3>2
  <2> QED
    BY <2>1, <2>2, <2>3 DEF SnapInv, SnapshotConsistent, MonitorPC
<1>2. ASSUME NEW m \in Monitors, MonitorLock(m) \/ MonitorStep(m)
      PROVE  SnapInv'
  <2>1. /\ m \in Users
        /\ \A n \in Monitors : n \in Users
        /\ pool' = pool
    BY <1>2
    DEF MonitorLock, MonitorStep, MonitorHot, MonitorRest, MonitorUnlock,
        Users
  <2>2. \A n \in Monitors : n # m => pc'[n] \notin MonitorPC
    <3>1. lock' = m \/ (lock = m /\ pc[m] \in CriticalPC)
      BY <1>2, <2>1
      DEF MonitorLock, MonitorStep, MonitorHot, MonitorRest, MonitorUnlock,
          Acquire, Release, Go, PoolInv, LockInv, CriticalPC
    <3>2. \A n \in Monitors : n # m => pc'[n] = pc[n]
      BY <1>2, <2>1, GoMoves
      DEF MonitorLock, MonitorStep, MonitorHot, MonitorRest, MonitorUnlock,
          Acquire, Release, PoolInv
    <3>3. lock \in {m, NoThread}
      BY <1>2, <2>1, <3>1
      DEF MonitorLock, MonitorStep, MonitorHot, MonitorRest, MonitorUnlock,
          Acquire, Release, Go, PoolInv, LockInv, CriticalPC
    <3>4. NoThread \notin Monitors
      BY ThreadsAssumption DEF ThreadsAssumption
    <3> QED
      BY <2>1, <3>2, <3>3, <3>4 DEF PoolInv, LockInv, MonitorPC, CriticalPC
  <2>3. CASE MonitorLock(m) \/ MonitorUnlock(m)
    <3>1. pc'[m] \notin {"mon_rest", "mon_unlock"}
      BY <2>1, <2>3, GoMoves
      DEF MonitorLock, MonitorUnlock, Acquire, Release, PoolInv
    <3> QED
      BY <2>2, <3>1 DEF SnapInv, SnapshotConsistent, MonitorPC
  <2>4. CASE MonitorHot(m)
    <3>1. pc'[m] = "mon_rest" /\ snap'.hot = pool.hot_count
      BY <2>1, <2>4, GoMoves DEF MonitorHot, PoolInv, TypeOK
    <3> QED
      BY <2>1, <2>2, <3>1 DEF SnapInv, SnapshotConsistent, MonitorPC
  <2>5. CASE MonitorRest(m)
    <3>1. /\ pc[m] = "mon_rest" /\ pc'[m] = "mon_unlock"
          /\ snap'.hot = snap.hot /\ snap'.cold = pool.cold_count
          /\ snap'.alloc = pool.alloc_count /\ snap'.max = pool.max_alloc
      BY <2>1, <2>5, GoMoves DEF MonitorRest, PoolInv, TypeOK
    <3>2. snap.hot = pool.hot_count
      BY <3>1 DEF SnapInv
    <3>3. /\ snap'.hot + snap'.cold = Count
          /\ snap'.hot <= snap'.max
          /\ snap'.max <= snap'.alloc
      BY <3>1, <3>2, CounterTypes
      DEF PoolInv, CountInv, StatInv, Watermarks
    <3> QED
      BY <2>2, <3>1, <3>3 DEF SnapInv, SnapshotConsistent, MonitorPC
  <2> QED
    BY <1>2, <2>3, <2>4, <2>5 DEF MonitorStep
<1> QED
  BY <1>1, <1>2 DEF Next

LEMMA StatInit == Init => StatInv /\ SnapInv
<1> SUFFICES ASSUME Init PROVE StatInv /\ SnapInv
  OBVIOUS
<1>1. /\ pool.hot_count = 0 /\ pool.alloc_count = 0 /\ pool.pool_misses = 0
      /\ pool.max_alloc = 0 /\ pool.curr_stdalloc = 0
      /\ pool.max_stdalloc = 0
      /\ \A u \in Users : pc[u] = "idle"
  BY DEF Init
<1>2. Count \in Nat
  BY LayoutAssumption DEF LayoutAssumption
<1>3. StatInv
  BY <1>1, <1>2 DEF StatInv, Watermarks, Counting, Users
<1>4. SnapInv
  BY <1>1 DEF SnapInv, SnapshotConsistent, Users
<1> QED
  BY <1>3, <1>4

THEOREM StatInvariance == Spec => [](StatInv /\ SnapInv)
<1>1. Init => StatInv /\ SnapInv
  BY StatInit
<1>2. PoolInv /\ StatInv /\ SnapInv /\ [Next]_vars => StatInv' /\ SnapInv'
  <2>1. CASE UNCHANGED vars
    BY <2>1 DEF vars, StatInv, Watermarks, Counting, SnapInv,
                SnapshotConsistent
  <2> QED
    BY <2>1, StatStep, SnapStep
<1> QED
  BY <1>1, <1>2, Invariance, PTL DEF Spec

\* The statistics never contradict each other, not even between two steps of
\* a critical section and not even with clients that call mem_put twice:
\* every allocation is a miss or raised max_alloc by at most one, and the
\* maxima bound what they are the maxima of (mem-pool.c:103-144, 217-242).
THEOREM Statistics == Spec => []Watermarks
<1>1. StatInv => Watermarks
  BY DEF StatInv
<1> QED
  BY <1>1, StatInvariance, PTL

\* monitor_mem_pool reads four counters one after the other; what it prints
\* is one moment of the pool, because it holds the pool's lock (check.c:81-100).
THEOREM Snapshots == Spec => []SnapshotConsistent
<1>1. SnapInv => SnapshotConsistent
  BY DEF SnapInv
<1> QED
  BY <1>1, StatInvariance, PTL
=============================================================================
