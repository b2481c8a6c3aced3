------------------------ MODULE MemPoolClientProofs ------------------------
(***************************************************************************)
(* What the clients of MemPool may rely on, for any number of threads and  *)
(* chunks: who owns an object, as long as no client calls mem_put on an    *)
(* object it does not hold; and that the simulator of check.c keeps to     *)
(* that rule, for any number of workers, chunks and objects in a round.    *)
(***************************************************************************)
EXTENDS PoolWorkers, MemPoolProofs

-----------------------------------------------------------------------------
(* Who owns an object *)

\* The heads that are out of the pool: marked in use, allocated from the heap,
\* or unlinked and about to be marked.
Taken == in_use \cup heap \cup {head[t] : t \in Counting}

\* ExclusiveOwnership and NoLeak, in terms of what is lent to whom.
LendInv ==
  /\ \A t, u \in Threads : t # u => Lent[t] \cap Lent[u] = {}
  /\ UNION {Lent[t] : t \in Threads} = Taken

\* A client does not keep what it is putting back, and has not yet got what
\* mem_get is still working on.
OnceInv ==
  \A t \in Threads :
    pc[t] \in OwnerPC => ChunkHead2Ptr(head[t]) \notin held[t]

\* The header of what a client has, or is about to get, names the pool, so
\* mem_put does not take it for an object of no pool.
NamedPC == {"get_zero", "get_ret", "get0_ret"}

NamedInv ==
  \A t \in Threads :
    /\ \A ptr \in held[t] : Ptr2ChunkHead(ptr) \in header
    /\ pc[t] \in NamedPC => head[t] \in header

\* curr_stdalloc is exact until a calloc returned NULL; the call that counted
\* the missing block never releases the lock.
Faulting == {t \in Threads : pc[t] = "get_fwd" /\ head[t] = NULL}

HeapInv ==
  /\ IsFiniteSet(heap)
  /\ Faulting = {} => pool.curr_stdalloc = Cardinality(heap)

OwnerInv == LendInv /\ OnceInv /\ NamedInv /\ ReturnedZeroed /\ HeapInv

\* The clients keep to the rules: they put back what they hold.
PutsOwn(t) == PutCall(t) /\ ChunkHead2Ptr(head'[t]) \in held[t]

OwnStep(t) ==
  GetCall(t) \/ GetStep(t) \/ UserWrite(t) \/ PutsOwn(t) \/ PutStep(t)

OwnNext ==
  \/ \E t \in Threads : OwnStep(t)
  \/ \E m \in Monitors : MonitorLock(m) \/ MonitorStep(m)

\* A chunk is no heap block, and an object and its head determine each other.
LEMMA HeadFacts ==
  /\ Chunks \cap HeapBlocks = {}
  /\ NULL \notin Heads
  /\ \A h \in Heads : Ptr2ChunkHead(ChunkHead2Ptr(h)) = h
  /\ \A h \in Heads, k \in Heads \cup {NULL} :
       ChunkHead2Ptr(h) = ChunkHead2Ptr(k) => h = k
<1>1. \A h \in Heads \cup {NULL} : h \in Int
  BY HeadsDisjoint DEF NULL
<1> QED
  BY <1>1, HeadsDisjoint, LayoutTypes DEF Ptr2ChunkHead, ChunkHead2Ptr

\* Lent, thread by thread.
LEMMA LentOf ==
  \A t \in Threads :
    /\ Lent[t] = {h \in Heads : Owns(t, h)}
    /\ Lent'[t] = {h \in Heads : Owns(t, h)'}
BY DEF Lent

\* What a step of t does to what t owns, it does to nobody else's.
LEMMA OthersKeep ==
  ASSUME NEW t \in Threads,
         \A u \in Threads : u # t =>
           /\ pc'[u] = pc[u] /\ head'[u] = head[u] /\ held'[u] = held[u]
  PROVE  \A u \in Threads : u # t => Lent'[u] = Lent[u]
<1> SUFFICES ASSUME NEW u \in Threads, u # t PROVE Lent'[u] = Lent[u]
  OBVIOUS
<1>1. \A h \in Heads : Owns(u, h)' <=> Owns(u, h)
  BY DEF Owns
<1>2. /\ Lent[u] = {h \in Heads : Owns(u, h)}
      /\ Lent'[u] = {h \in Heads : Owns(u, h)'}
  BY LentOf
<1> QED
  BY <1>1, <1>2

LEMMA SameLent ==
  ASSUME \A u \in Threads : Lent'[u] = Lent[u]
  PROVE  Lent' = Lent
<1>1. /\ Lent = [u \in Threads |-> Lent[u]]
      /\ Lent' = [u \in Threads |-> Lent'[u]]
  BY DEF Lent
<1>2. [u \in Threads |-> Lent'[u]] = [u \in Threads |-> Lent[u]]
  OBVIOUS
<1> QED
  BY <1>1, <1>2

\* One thread's share changes, the others' do not.
LEMMA LentExcept ==
  ASSUME NEW t \in Threads, NEW S, Lent'[t] = S,
         \A u \in Threads : u # t => Lent'[u] = Lent[u]
  PROVE  Lent' = [Lent EXCEPT ![t] = S]
<1> DEFINE L == [Lent EXCEPT ![t] = S]
<1>1. /\ Lent' = [u \in Threads |-> Lent'[u]]
      /\ Lent = [u \in Threads |-> Lent[u]]
  BY DEF Lent
<1>2. \A u \in Threads : Lent'[u] = L[u]
  BY <1>1
<1>3. L = [u \in Threads |-> L[u]]
  BY <1>1
<1> QED
  BY <1>1, <1>2, <1>3, Zenon

\* A step of t leaves the other threads where they are.
LEMMA ThreadFrame ==
  ASSUME TypeOK, NEW t \in Threads, ThreadNext(t)
  PROVE  \A u \in Threads : u # t =>
           /\ pc'[u] = pc[u] /\ head'[u] = head[u] /\ held'[u] = held[u]
<1>1. ASSUME GetCall(t) \/ GetLock(t) \/ GetTake(t) \/ GetCount(t)
             \/ GetMiss(t) \/ GetUnlock(t)
      PROVE  \A u \in Threads : u # t =>
               /\ pc'[u] = pc[u] /\ head'[u] = head[u] /\ held'[u] = held[u]
  BY <1>1 DEF GetCall, GetLock, GetTake, GetCount, GetMiss, Calloc, GetUnlock,
              Acquire, Release, Go, TypeOK, Users
<1>2. ASSUME GetCrash(t) \/ GetZero(t) \/ GetReturn(t) \/ UserWrite(t)
             \/ PutCall(t) \/ PutNoPool(t)
      PROVE  \A u \in Threads : u # t =>
               /\ pc'[u] = pc[u] /\ head'[u] = head[u] /\ held'[u] = held[u]
  BY <1>2 DEF GetCrash, GetZero, GetReturn, UserWrite, PutCall, PutNoPool,
              Go, TypeOK, Users
<1>3. ASSUME PutLock(t) \/ PutFreed(t) \/ PutCount(t) \/ PutLink(t)
             \/ PutElsewhere(t) \/ PutUnlock(t)
      PROVE  \A u \in Threads : u # t =>
               /\ pc'[u] = pc[u] /\ head'[u] = head[u] /\ held'[u] = held[u]
  BY <1>3 DEF PutLock, PutFreed, PutCount, PutLink, PutElsewhere, PutUnlock,
              Acquire, Release, Go, TypeOK, Users
<1> QED
  BY <1>1, <1>2, <1>3 DEF ThreadNext, GetStep, PutStep

\* The three things a step may do to the objects: lend one that is free, take
\* one back from the thread it was lent to, or leave them as they are.
Lends(t, ob) ==
  /\ ob \in Heads \ Taken
  /\ Lent' = [Lent EXCEPT ![t] = @ \cup {ob}]
  /\ Taken' = Taken \cup {ob}

TakesBack(t, ob) ==
  /\ ob \in Lent[t]
  /\ Lent' = [Lent EXCEPT ![t] = @ \ {ob}]
  /\ Taken' = Taken \ {ob}

Keeps == Lent' = Lent /\ Taken' = Taken

\* list_del takes a chunk that nobody has: it was on the free list.
LEMMA TakeLends ==
  ASSUME PoolInv, NEW t \in Threads, GetTake(t)
  PROVE  Lends(t, Head(pool.list))
<1> DEFINE c == Head(pool.list)
<1>1. /\ pc[t] = "get_take" /\ pc'[t] = "get_count"
      /\ head'[t] = c /\ held' = held /\ in_use' = in_use /\ heap' = heap
  BY DEF GetTake, Go, memory, PoolInv, TypeOK, Users
<1>2. c \in Chunks /\ c \in FreeList
  <2>1. pool.list \in Seq(Chunks) /\ pool.cold_count \in Int
    BY DEF PoolInv, TypeOK, PoolRecord
  <2>2. Linking = {}
    BY <1>1, OneLinking DEF PoolInv, CriticalPC, LinkPC
  <2>3. Len(pool.list) > 0
    BY <2>1, <2>2 DEF PoolInv, CountInv, GetTake
  <2> QED
    BY <2>1, <2>3, TailOfList DEF PoolInv, PlaceInv, FreeList
<1>3. Counting = {}
  BY <1>1, OneCounting DEF PoolInv, CriticalPC, Counting
<1>4. c \in Heads \ Taken
  BY <1>2, <1>3, HeadFacts DEF Taken, Heads, PoolInv, PlaceInv, TypeOK
<1>5. \A u \in Threads : u # t =>
        /\ pc'[u] = pc[u] /\ head'[u] = head[u] /\ held'[u] = held[u]
  BY ThreadFrame DEF ThreadNext, GetStep, PoolInv
<1>6. Taken' = Taken \cup {c}
  <2>1. Counting' = {t}
    BY <1>1, <1>3, <1>5 DEF Counting
  <2> QED
    BY <1>1, <1>3, <2>1 DEF Taken
<1>7. Lent' = [Lent EXCEPT ![t] = @ \cup {c}]
  <2>1. \A h \in Heads : Owns(t, h)' <=> Owns(t, h) \/ h = c
    BY <1>1 DEF Owns, OwnerPC
  <2>2. Lent'[t] = Lent[t] \cup {c}
    BY <1>4, <2>1, LentOf
  <2> QED
    BY <1>5, <2>2, OthersKeep, LentExcept
<1> QED
  BY <1>4, <1>6, <1>7 DEF Lends

\* calloc lends a block that is not allocated; one that fails lends nothing.
LEMMA MissLends ==
  ASSUME PoolInv, NEW t \in Threads, GetMiss(t)
  PROVE  \/ /\ head'[t] \in HeapBlocks \ heap
            /\ heap' = heap \cup {head'[t]}
            /\ header' = header \ {head'[t]}
            /\ dirty' = dirty \ {head'[t]}
            /\ Lends(t, head'[t])
         \/ head'[t] = NULL /\ UNCHANGED <<header, dirty, heap>> /\ Keeps
<1> DEFINE b == head'[t]
<1>1. /\ pc[t] = "get_take" /\ pc'[t] = "get_fwd"
      /\ held' = held /\ in_use' = in_use
  BY DEF GetMiss, Go, PoolInv, TypeOK, Users
<1>2. \/ /\ b \in HeapBlocks \ heap /\ heap' = heap \cup {b}
         /\ header' = header \ {b} /\ dirty' = dirty \ {b}
      \/ b = NULL /\ UNCHANGED <<header, dirty, heap>>
  BY DEF GetMiss, Calloc, PoolInv, TypeOK
<1>3. Counting = {} /\ Counting' = {}
  <2>1. Counting = {}
    BY <1>1, OneCounting DEF PoolInv, CriticalPC, Counting
  <2>2. \A u \in Threads : u # t => pc'[u] = pc[u]
    BY ThreadFrame DEF ThreadNext, GetStep, PoolInv
  <2> QED
    BY <1>1, <2>1, <2>2 DEF Counting
<1>4. \A u \in Threads : u # t =>
        /\ pc'[u] = pc[u] /\ head'[u] = head[u] /\ held'[u] = held[u]
  BY ThreadFrame DEF ThreadNext, GetStep, PoolInv
<1>5. \A h \in Heads : Owns(t, h)' <=> Owns(t, h) \/ h = b
  BY <1>1 DEF Owns, OwnerPC
<1>6. CASE b = NULL /\ UNCHANGED <<header, dirty, heap>>
  <2>1. Lent'[t] = Lent[t]
    <3>1. \A h \in Heads : Owns(t, h)' <=> Owns(t, h)
      BY <1>5, <1>6, HeadFacts
    <3>2. /\ Lent[t] = {h \in Heads : Owns(t, h)}
          /\ Lent'[t] = {h \in Heads : Owns(t, h)'}
      BY LentOf
    <3> QED
      BY <3>1, <3>2
  <2>2. \A u \in Threads : Lent'[u] = Lent[u]
    BY <1>4, <2>1, OthersKeep
  <2> QED
    BY <1>1, <1>3, <1>6, <2>2, SameLent DEF Keeps, Taken
<1>7. CASE b \in HeapBlocks \ heap /\ heap' = heap \cup {b}
           /\ header' = header \ {b} /\ dirty' = dirty \ {b}
  <2>1. b \in Heads \ Taken
    BY <1>3, <1>7, HeadFacts DEF Taken, Heads, PoolInv, TypeOK
  <2>2. Lent'[t] = Lent[t] \cup {b}
    BY <1>5, <2>1, LentOf
  <2>3. Lent' = [Lent EXCEPT ![t] = @ \cup {b}]
    BY <1>4, <2>2, OthersKeep, LentExcept
  <2>4. Taken' = Taken \cup {b}
    BY <1>1, <1>3, <1>7 DEF Taken
  <2> QED
    BY <1>7, <2>1, <2>3, <2>4 DEF Lends
<1> QED
  BY <1>2, <1>6, <1>7

\* What t owns does not change when its share is the same head by head.
LEMMA KeepsLent ==
  ASSUME TypeOK, NEW t \in Threads, ThreadNext(t),
         \A h \in Heads : Owns(t, h)' <=> Owns(t, h)
  PROVE  Lent' = Lent
<1>1. \A u \in Threads : u # t => Lent'[u] = Lent[u]
  BY ThreadFrame, OthersKeep
<1>2. /\ Lent[t] = {h \in Heads : Owns(t, h)}
      /\ Lent'[t] = {h \in Heads : Owns(t, h)'}
  BY LentOf
<1>3. Lent'[t] = Lent[t]
  BY <1>2
<1> QED
  BY <1>1, <1>3, SameLent

LEMMA KeepsTaken ==
  ASSUME TypeOK, NEW t \in Threads, ThreadNext(t),
         pc[t] # "get_count", pc'[t] # "get_count",
         in_use' = in_use, heap' = heap
  PROVE  Taken' = Taken
<1>1. \A u \in Threads : u # t => pc'[u] = pc[u] /\ head'[u] = head[u]
  BY ThreadFrame
<1>2. Counting' = Counting /\ t \notin Counting
  BY <1>1 DEF Counting
<1>3. \A u \in Counting : u \in Threads /\ head'[u] = head[u]
  BY <1>1, <1>2 DEF Counting
<1> QED
  BY <1>2, <1>3 DEF Taken

\* The chunk that is being counted stays taken when its in_use word is set.
LEMMA CountKeeps ==
  ASSUME PoolInv, NEW t \in Threads, GetCount(t)
  PROVE  Keeps
<1>1. /\ pc[t] = "get_count" /\ pc'[t] = "get_fwd"
      /\ head' = head /\ held' = held /\ heap' = heap
      /\ in_use' = in_use \cup {head[t]}
  BY DEF GetCount, Go, PoolInv, TypeOK, Users
<1>2. ThreadNext(t)
  BY DEF ThreadNext, GetStep
<1>3. Lent' = Lent
  BY <1>1, <1>2, KeepsLent DEF Owns, OwnerPC, PoolInv
<1>4. Counting = {t} /\ Counting' = {}
  <2>1. Counting = {t}
    BY <1>1, OneCounting DEF PoolInv, CriticalPC, Counting
  <2>2. \A u \in Threads : u # t => pc'[u] = pc[u]
    BY <1>2, ThreadFrame DEF PoolInv
  <2> QED
    BY <1>1, <2>1, <2>2 DEF Counting
<1> QED
  BY <1>1, <1>3, <1>4 DEF Keeps, Taken

\* Steps of a call that neither get nor give up a head.
LEMMA CallKeeps ==
  ASSUME PoolInv, NEW t \in Threads,
         \/ GetCall(t) \/ GetLock(t) \/ GetUnlock(t) \/ GetZero(t)
         \/ PutLock(t) \/ PutLink(t) \/ PutUnlock(t)
  PROVE  Keeps
<1>1. /\ ThreadNext(t) /\ held' = held /\ in_use' = in_use /\ heap' = heap
      /\ t \in Users
  BY DEF ThreadNext, GetStep, PutStep, GetCall, GetLock, GetUnlock, GetZero,
         PutLock, PutLink, PutUnlock, memory, Users
<1>2. /\ pc[t] # "get_count" /\ pc'[t] # "get_count"
      /\ pc[t] \in OwnerPC <=> pc'[t] \in OwnerPC
      /\ pc[t] \in OwnerPC => head'[t] = head[t]
  BY <1>1
  DEF GetCall, GetLock, GetUnlock, GetZero, PutLock, PutLink, PutUnlock,
      Acquire, Release, Go, OwnerPC, PoolInv, TypeOK
<1> QED
  BY <1>1, <1>2, KeepsLent, KeepsTaken DEF Keeps, Owns, PoolInv

\* mem_get returns: what the call had is what the client has now.
LEMMA ReturnKeeps ==
  ASSUME PoolInv, NEW t \in Threads, GetReturn(t)
  PROVE  Keeps
<1>1. /\ ThreadNext(t) /\ in_use' = in_use /\ heap' = heap
      /\ pc[t] \in {"get_ret", "get0_ret"} /\ pc'[t] = "idle"
      /\ held'[t] = held[t] \cup {ChunkHead2Ptr(head[t])}
  BY DEF ThreadNext, GetStep, GetReturn, Go, memory, PoolInv, TypeOK, Users
<1>2. head[t] \in Heads
  BY <1>1 DEF PoolInv, HeadInv, ObjectPC
<1>3. \A h \in Heads : Owns(t, h)' <=> Owns(t, h)
  BY <1>1, <1>2, HeadFacts DEF Owns, OwnerPC
<1> QED
  BY <1>1, <1>3, KeepsLent, KeepsTaken DEF Keeps, PoolInv

\* mem_put is called: what the client had is what the call has now.
LEMMA PutCallKeeps ==
  ASSUME PoolInv, NEW t \in Threads, PutsOwn(t)
  PROVE  /\ Keeps
         /\ pc'[t] = "put_lock"
         /\ ChunkHead2Ptr(head'[t]) \in held[t]
         /\ held'[t] = held[t] \ {ChunkHead2Ptr(head'[t])}
<1>1. PICK ptr \in Puttable(t) :
        /\ Go(t, "idle", "put_lock")
        /\ head' = [head EXCEPT ![t] = Ptr2ChunkHead(ptr)]
        /\ held' = [held EXCEPT ![t] = @ \ {ptr}]
        /\ UNCHANGED memory
  BY DEF PutsOwn, PutCall
<1>2. PICK h \in Heads : ptr = ChunkHead2Ptr(h)
  BY <1>1 DEF PoolInv, TypeOK, Puttable, Heads
<1>3. /\ ThreadNext(t) /\ in_use' = in_use /\ heap' = heap
      /\ pc[t] = "idle" /\ pc'[t] = "put_lock"
      /\ head'[t] = h /\ held'[t] = held[t] \ {ChunkHead2Ptr(h)}
      /\ ChunkHead2Ptr(h) \in held[t]
  BY <1>1, <1>2, HeadFacts
  DEF ThreadNext, Go, memory, PoolInv, TypeOK, Users, PutsOwn
<1>4. \A k \in Heads : Owns(t, k)' <=> Owns(t, k)
  BY <1>1, <1>2, <1>3, HeadFacts DEF Owns, OwnerPC
<1> QED
  BY <1>1, <1>2, <1>3, <1>4, KeepsLent, KeepsTaken DEF Keeps, PoolInv

\* A client that may pass to mem_put only what it holds keeps to the rules: as
\* every header names the pool, the call that does nothing is never made.
LEMMA OwnPuts ==
  ASSUME StrayPutters = {}, PoolInv, NamedInv, Next
  PROVE  OwnNext
<1>1. ASSUME NEW t \in Threads, PutCall(t) PROVE PutsOwn(t)
  <2>1. PICK ptr \in held[t] :
          /\ Go(t, "idle", "put_lock")
          /\ head' = [head EXCEPT ![t] = Ptr2ChunkHead(ptr)]
    BY <1>1 DEF PutCall, Puttable
  <2>2. PICK h \in Heads : ptr = ChunkHead2Ptr(h)
    BY <2>1 DEF PoolInv, TypeOK
  <2>3. head'[t] = h
    BY <2>1, <2>2, HeadFacts DEF PoolInv, TypeOK
  <2> QED
    BY <1>1, <2>1, <2>2, <2>3 DEF PutsOwn
<1>2. ASSUME NEW t \in Threads PROVE ~PutNoPool(t)
  BY DEF PutNoPool, Puttable, NamedInv
<1> QED
  BY <1>1, <1>2 DEF Next, ThreadNext, OwnNext, OwnStep

LEMMA OwnIsThread ==
  ASSUME NEW t \in Threads, OwnStep(t)
  PROVE  ThreadNext(t)
BY DEF OwnStep, PutsOwn, ThreadNext

\* What mem_put checks under the lock is lent to its caller and marked in use
\* or allocated, as __is_member says which.
LEMMA PutChecks ==
  ASSUME PoolInv, LendInv, NEW t \in Threads, pc[t] = "put_check"
  PROVE  /\ head[t] \in Lent[t]
         /\ Counting = {}
         /\ \/ head[t] \in in_use \ heap /\ Member(t) = 1
            \/ head[t] \in heap \ in_use /\ Member(t) = 0
<1>1. head[t] \in Heads
  BY DEF PoolInv, HeadInv, ObjectPC
<1>2. head[t] \in Lent[t]
  BY <1>1, LentOf DEF Owns, OwnerPC
<1>3. Counting = {}
  BY OneCounting DEF PoolInv, CriticalPC, Counting
<1>4. head[t] \in in_use \cup heap
  BY <1>2, <1>3 DEF LendInv, Taken
<1>5. /\ in_use \subseteq Chunks /\ heap \subseteq HeapBlocks
      /\ Chunks \cap HeapBlocks = {}
  BY HeadFacts DEF PoolInv, TypeOK
<1> QED
  BY <1>2, <1>3, <1>4, <1>5, ChunkObjectIsMember, HeapObjectIsNoMember
  DEF Member

\* A client that puts back what it has is never told that it was freed.
LEMMA NoPutFreed ==
  ASSUME PoolInv, LendInv, NEW t \in Threads
  PROVE  ~PutFreed(t)
BY PutChecks DEF PutFreed, Go

\* Giving a head up, once its mark is gone.
LEMMA GivesUp ==
  ASSUME PoolInv, LendInv, OnceInv, NEW t \in Threads, pc[t] = "put_check",
         ThreadNext(t), pc'[t] \in {"put_link", "put_unlock"},
         held' = held, in_use' \cup heap' = (in_use \cup heap) \ {head[t]}
  PROVE  TakesBack(t, head[t])
<1>1. head[t] \in Lent[t] /\ Counting = {}
  BY PutChecks
<1>2. \A u \in Threads : u # t =>
        /\ pc'[u] = pc[u] /\ head'[u] = head[u] /\ held'[u] = held[u]
  BY ThreadFrame DEF PoolInv
<1>3. Counting' = {}
  BY <1>1, <1>2 DEF Counting
<1>4. Taken' = Taken \ {head[t]}
  BY <1>1, <1>3 DEF Taken
<1>5. \A h \in Heads : Owns(t, h)' <=> Owns(t, h) /\ h # head[t]
  BY <1>1 DEF Owns, OwnerPC, OnceInv
<1>6. Lent'[t] = Lent[t] \ {head[t]}
  <2>1. /\ Lent[t] = {h \in Heads : Owns(t, h)}
        /\ Lent'[t] = {h \in Heads : Owns(t, h)'}
    BY LentOf
  <2> QED
    BY <1>5, <2>1
<1>7. Lent' = [Lent EXCEPT ![t] = @ \ {head[t]}]
  BY <1>2, <1>6, OthersKeep, LentExcept
<1> QED
  BY <1>1, <1>4, <1>7 DEF TakesBack

LEMMA UncountTakesBack ==
  ASSUME PoolInv, LendInv, OnceInv, NEW t \in Threads, PutCount(t)
  PROVE  TakesBack(t, head[t])
<1>1. /\ pc[t] = "put_check" /\ pc'[t] = "put_link" /\ ThreadNext(t)
      /\ Member(t) = 1 /\ in_use' = in_use \ {head[t]}
      /\ heap' = heap /\ held' = held
  BY DEF PutCount, Go, ThreadNext, PutStep, PoolInv, TypeOK, Users
<1>2. head[t] \notin heap
  BY <1>1, PutChecks
<1> QED
  BY <1>1, <1>2, GivesUp

LEMMA ElsewhereTakesBack ==
  ASSUME PoolInv, LendInv, OnceInv, NEW t \in Threads, PutElsewhere(t)
  PROVE  /\ TakesBack(t, head[t])
         /\ head[t] \in heap /\ heap' = heap \ {head[t]}
         /\ pool'.curr_stdalloc = pool.curr_stdalloc - 1
<1>1. /\ pc[t] = "put_check" /\ pc'[t] = "put_unlock" /\ ThreadNext(t)
      /\ Member(t) # 1 /\ in_use' = in_use /\ held' = held
  BY DEF PutElsewhere, Go, ThreadNext, PutStep, PoolInv, TypeOK, Users
<1>2. Member(t) = 0 /\ head[t] \in heap \ in_use
  BY <1>1, PutChecks
<1>3. /\ heap' = heap \ {head[t]}
      /\ pool'.curr_stdalloc = pool.curr_stdalloc - 1
  BY <1>2 DEF PutElsewhere, PoolInv, TypeOK, PoolRecord
<1> QED
  BY <1>1, <1>2, <1>3, GivesUp

LEMMA OthersKeepAll ==
  ASSUME NEW t \in Threads, UserWrite(t) \/ GetCrash(t)
  PROVE  Keeps
<1>1. UNCHANGED <<pc, head, held, in_use, heap>>
  BY DEF UserWrite, GetCrash, memory
<1>2. \A u \in Threads, h \in Heads : Owns(u, h)' <=> Owns(u, h)
  BY <1>1 DEF Owns
<1>3. Lent' = Lent
  <2>1. \A u \in Threads : Lent'[u] = Lent[u]
    <3> SUFFICES ASSUME NEW u \in Threads PROVE Lent'[u] = Lent[u]
      OBVIOUS
    <3>1. /\ Lent[u] = {h \in Heads : Owns(u, h)}
          /\ Lent'[u] = {h \in Heads : Owns(u, h)'}
      BY LentOf
    <3> QED
      BY <1>2, <3>1
  <2> QED
    BY <2>1, SameLent
<1> QED
  BY <1>1, <1>3 DEF Keeps, Taken, Counting

LEMMA MonitorKeeps ==
  ASSUME PoolInv, NEW m \in Monitors, MonitorLock(m) \/ MonitorStep(m)
  PROVE  /\ Keeps
         /\ UNCHANGED <<pool, memory, head, held>>
         /\ \A u \in Threads : pc'[u] = pc[u]
<1>1. UNCHANGED <<pool, memory, head, held>>
  BY DEF MonitorLock, MonitorStep, MonitorHot, MonitorRest, MonitorUnlock
<1>2. \A u \in Threads : pc'[u] = pc[u]
  <2>1. \A u \in Threads : u # m
    BY ThreadsAssumption DEF ThreadsAssumption
  <2>2. m \in Users /\ \A u \in Threads : u \in Users
    BY DEF Users
  <2>3. \E from, to : Go(m, from, to)
    BY DEF MonitorLock, MonitorStep, MonitorHot, MonitorRest, MonitorUnlock,
           Acquire, Release
  <2> QED
    BY <2>1, <2>2, <2>3, GoMoves DEF PoolInv
<1>3. Lent' = Lent
  <2>1. \A u \in Threads : Lent'[u] = Lent[u]
    <3> SUFFICES ASSUME NEW u \in Threads PROVE Lent'[u] = Lent[u]
      OBVIOUS
    <3>1. \A h \in Heads : Owns(u, h)' <=> Owns(u, h)
      BY <1>1, <1>2 DEF Owns
    <3>2. /\ Lent[u] = {h \in Heads : Owns(u, h)}
          /\ Lent'[u] = {h \in Heads : Owns(u, h)'}
      BY LentOf
    <3> QED
      BY <3>1, <3>2
  <2> QED
    BY <2>1, SameLent
<1>4. Counting' = Counting
  BY <1>2 DEF Counting
<1>5. \A u \in Counting : head'[u] = head[u]
  BY <1>1
<1> QED
  BY <1>1, <1>2, <1>3, <1>4, <1>5 DEF Keeps, Taken, memory

\* mem_get goes to the heap only when every chunk is out of the pool.
LEMMA MissWhenSlabIsOut ==
  ASSUME PoolInv, NEW t \in Threads, GetMiss(t)
  PROVE  Chunks \subseteq Taken
<1>1. pc[t] = "get_take" /\ pool.cold_count = 0
  BY DEF GetMiss, Go
<1>2. Linking = {}
  BY <1>1, OneLinking DEF PoolInv, CriticalPC, LinkPC
<1>3. pool.list \in Seq(Chunks) /\ Len(pool.list) = 0
  BY <1>1, <1>2 DEF PoolInv, TypeOK, PoolRecord, CountInv
<1>4. FreeList = {}
  BY <1>3 DEF FreeList, Range
<1> QED
  BY <1>2, <1>4 DEF PoolInv, PlaceInv, Taken

\* Every step lends one free object, takes one back from the thread it was
\* lent to, or moves none; an object of the heap is lent while the slab is out.
LEMMA EveryStep ==
  ASSUME PoolInv, OwnerInv, OwnNext
  PROVE  \/ Keeps
         \/ \E t \in Threads :
              /\ Lends(t, head'[t])
              /\ head'[t] \in HeapBlocks => Chunks \subseteq Taken
         \/ \E t \in Threads : TakesBack(t, head[t])
<1> USE DEF OwnerInv
<1>1. ASSUME NEW t \in Threads, GetTake(t)
      PROVE  Lends(t, head'[t]) /\ head'[t] \notin HeapBlocks
  <2>1. Lends(t, Head(pool.list)) /\ head'[t] = Head(pool.list)
    BY <1>1, TakeLends DEF GetTake, PoolInv, TypeOK
  <2>2. head'[t] \in Chunks
    BY <1>1, TakeStep
  <2> QED
    BY <2>1, <2>2, HeadFacts
<1>2. ASSUME NEW t \in Threads, GetMiss(t)
      PROVE  Keeps \/ (Lends(t, head'[t]) /\ Chunks \subseteq Taken)
  BY <1>2, MissLends, MissWhenSlabIsOut
<1>3. ASSUME NEW t \in Threads, PutCount(t) \/ PutElsewhere(t)
      PROVE  TakesBack(t, head[t])
  BY <1>3, UncountTakesBack, ElsewhereTakesBack
<1>4. ASSUME NEW t \in Threads,
             \/ GetCall(t) \/ GetLock(t) \/ GetCount(t) \/ GetUnlock(t)
             \/ GetCrash(t) \/ GetZero(t) \/ GetReturn(t) \/ UserWrite(t)
             \/ PutsOwn(t) \/ PutLock(t) \/ PutLink(t) \/ PutUnlock(t)
      PROVE  Keeps
  BY <1>4, CountKeeps, CallKeeps, ReturnKeeps, PutCallKeeps, OthersKeepAll
<1>5. ASSUME NEW t \in Threads PROVE ~PutFreed(t)
  BY NoPutFreed
<1>6. ASSUME NEW m \in Monitors, MonitorLock(m) \/ MonitorStep(m)
      PROVE  Keeps
  BY <1>6, MonitorKeeps
<1> QED
  BY <1>1, <1>2, <1>3, <1>4, <1>5, <1>6
  DEF OwnNext, OwnStep, GetStep, PutStep

LEMMA LendStep ==
  ASSUME PoolInv, OwnerInv, OwnNext
  PROVE  LendInv'
<1>1. CASE Keeps
  BY <1>1 DEF Keeps, OwnerInv, LendInv
<1>2. ASSUME NEW t \in Threads, NEW ob, Lends(t, ob)
      PROVE  LendInv'
  <2>1. /\ Lent'[t] = Lent[t] \cup {ob} /\ ob \notin Taken
        /\ \A u \in Threads : u # t => Lent'[u] = Lent[u]
        /\ Taken' = Taken \cup {ob}
    BY <1>2 DEF Lends, Lent
  <2>2. \A u \in Threads : ob \notin Lent[u]
    BY <2>1 DEF OwnerInv, LendInv
  <2>3. \A u, v \in Threads : u # v => Lent'[u] \cap Lent'[v] = {}
    BY <2>1, <2>2 DEF OwnerInv, LendInv
  <2>4. UNION {Lent'[u] : u \in Threads} = Taken'
    BY <2>1 DEF OwnerInv, LendInv
  <2> QED
    BY <2>3, <2>4 DEF LendInv
<1>3. ASSUME NEW t \in Threads, NEW ob, TakesBack(t, ob)
      PROVE  LendInv'
  <2>1. /\ Lent'[t] = Lent[t] \ {ob} /\ ob \in Lent[t]
        /\ \A u \in Threads : u # t => Lent'[u] = Lent[u]
        /\ Taken' = Taken \ {ob}
    BY <1>3 DEF TakesBack, Lent
  <2>2. \A u \in Threads : u # t => ob \notin Lent[u]
    BY <2>1 DEF OwnerInv, LendInv
  <2>3. \A u, v \in Threads : u # v => Lent'[u] \cap Lent'[v] = {}
    BY <2>1 DEF OwnerInv, LendInv
  <2>4. UNION {Lent'[u] : u \in Threads} = Taken'
    BY <2>1, <2>2 DEF OwnerInv, LendInv
  <2> QED
    BY <2>3, <2>4 DEF LendInv
<1> QED
  BY <1>1, <1>2, <1>3, EveryStep

LEMMA OnceStep ==
  ASSUME PoolInv, OwnerInv, OwnNext
  PROVE  OnceInv'
<1> DEFINE Once(u) ==
      pc[u] \in OwnerPC => ChunkHead2Ptr(head[u]) \notin held[u]
<1>1. \A u \in Threads : Once(u)
  BY DEF OwnerInv, OnceInv
<1>2. ASSUME NEW t \in Threads, ThreadNext(t), Once(t)'
      PROVE  OnceInv'
  BY <1>1, <1>2, ThreadFrame DEF OnceInv, PoolInv
<1>3. ASSUME NEW t \in Threads, GetTake(t) \/ GetMiss(t)
      PROVE  Once(t)'
  <2>1. held'[t] = held[t]
    BY <1>3 DEF GetTake, GetMiss
  <2>2. CASE head'[t] = NULL
    <3>1. \A ptr \in held[t] : \E h \in Heads : ptr = ChunkHead2Ptr(h)
      BY DEF PoolInv, TypeOK
    <3> QED
      BY <2>1, <2>2, <3>1, HeadFacts
  <2>3. CASE Lends(t, head'[t])
    <3>1. head'[t] \in Heads /\ head'[t] \notin Lent[t]
      BY <2>3 DEF Lends, OwnerInv, LendInv
    <3> QED
      BY <2>1, <3>1, LentOf DEF Owns
  <2>4. head'[t] = NULL \/ Lends(t, head'[t])
    <3>1. CASE GetTake(t)
      BY <3>1, TakeLends DEF GetTake, PoolInv, TypeOK
    <3> QED
      BY <1>3, <3>1, MissLends
  <2> QED
    BY <2>2, <2>3, <2>4
<1>4. ASSUME NEW t \in Threads, PutsOwn(t) PROVE Once(t)'
  BY <1>4, PutCallKeeps
<1>5. ASSUME NEW t \in Threads, GetReturn(t) PROVE Once(t)'
  BY <1>5 DEF GetReturn, Go, OwnerPC, PoolInv, TypeOK, Users
<1>6. ASSUME NEW t \in Threads,
             \/ GetCall(t) \/ GetLock(t) \/ GetCount(t) \/ GetUnlock(t)
             \/ GetZero(t) \/ PutLock(t) \/ PutCount(t) \/ PutLink(t)
             \/ PutElsewhere(t) \/ PutUnlock(t)
      PROVE  Once(t)'
  <2>1. held'[t] = held[t] /\ t \in Users
    BY <1>6
    DEF GetCall, GetLock, GetCount, GetUnlock, GetZero, PutLock, PutCount,
        PutLink, PutElsewhere, PutUnlock, Users
  <2>2. pc'[t] \in OwnerPC => pc[t] \in OwnerPC /\ head'[t] = head[t]
    BY <1>6, <2>1
    DEF GetCall, GetLock, GetCount, GetUnlock, GetZero, PutLock, PutCount,
        PutLink, PutElsewhere, PutUnlock, Acquire, Release, Go, OwnerPC,
        PoolInv, TypeOK
  <2> QED
    BY <1>1, <2>1, <2>2
<1>7. ASSUME NEW t \in Threads, UserWrite(t) \/ GetCrash(t) PROVE Once(t)'
  BY <1>1, <1>7 DEF UserWrite, GetCrash
<1>8. ASSUME NEW t \in Threads PROVE ~PutFreed(t)
  BY NoPutFreed DEF OwnerInv
<1>9. ASSUME NEW m \in Monitors, MonitorLock(m) \/ MonitorStep(m)
      PROVE  OnceInv'
  BY <1>1, <1>9, MonitorKeeps DEF OnceInv
<1> HIDE DEF Once
<1>10. ASSUME NEW t \in Threads, OwnStep(t) PROVE OnceInv'
  <2>1. Once(t)'
    BY <1>3, <1>4, <1>5, <1>6, <1>7, <1>8, <1>10
    DEF OwnStep, GetStep, PutStep
  <2> QED
    BY <1>2, <1>10, <2>1, OwnIsThread
<1> QED
  BY <1>9, <1>10 DEF OwnNext

\* What a client holds, or is about to get, is lent to it.
LEMMA HeldIsLent ==
  ASSUME PoolInv, LendInv, NEW u \in Threads
  PROVE  /\ \A ptr \in held[u] : Ptr2ChunkHead(ptr) \in Lent[u]
         /\ pc[u] \in NamedPC => head[u] \in Lent[u]
         /\ Lent[u] \subseteq Taken
<1>1. ASSUME NEW ptr \in held[u] PROVE Ptr2ChunkHead(ptr) \in Lent[u]
  <2>1. PICK h \in Heads : ptr = ChunkHead2Ptr(h)
    BY DEF PoolInv, TypeOK
  <2> QED
    BY <2>1, HeadFacts, LentOf DEF Owns
<1>2. pc[u] \in NamedPC => head[u] \in Lent[u]
  BY LentOf DEF NamedPC, Owns, OwnerPC, PoolInv, HeadInv, ObjectPC
<1> QED
  BY <1>1, <1>2 DEF LendInv

LEMMA NamedStep ==
  ASSUME PoolInv, OwnerInv, OwnNext
  PROVE  NamedInv'
<1> DEFINE Named(u) ==
      /\ \A ptr \in held[u] : Ptr2ChunkHead(ptr) \in header
      /\ pc[u] \in NamedPC => head[u] \in header
<1>1. \A u \in Threads : Named(u)
  BY DEF OwnerInv, NamedInv
<1>2. ASSUME NEW t \in Threads, ThreadNext(t), header \subseteq header',
             Named(t)'
      PROVE  NamedInv'
  BY <1>1, <1>2, ThreadFrame DEF NamedInv, PoolInv
<1>3. ASSUME NEW t \in Threads, GetMiss(t) PROVE NamedInv'
  <2>1. header' = header \/ \E b : b \notin Taken /\ header' = header \ {b}
    BY <1>3, MissLends DEF Lends
  <2>2. \A u \in Threads :
          /\ held'[u] = held[u]
          /\ pc'[u] \in NamedPC => pc[u] \in NamedPC /\ head'[u] = head[u]
    <3>1. held' = held /\ pc'[t] = "get_fwd"
      BY <1>3 DEF GetMiss, Go, PoolInv, TypeOK, Users
    <3> QED
      BY <1>3, <3>1, ThreadFrame DEF ThreadNext, GetStep, NamedPC, PoolInv
  <2> QED
    BY <1>1, <2>1, <2>2, HeldIsLent DEF NamedInv, OwnerInv
<1>4. ASSUME NEW t \in Threads, GetUnlock(t)
      PROVE  header \subseteq header' /\ Named(t)'
  <2>1. held' = held /\ head' = head /\ header' = header \cup {head[t]}
    BY <1>4 DEF GetUnlock
  <2> QED
    BY <1>1, <2>1
<1>5. ASSUME NEW t \in Threads, GetReturn(t)
      PROVE  header \subseteq header' /\ Named(t)'
  <2>1. /\ held'[t] = held[t] \cup {ChunkHead2Ptr(head[t])}
        /\ header' = header /\ pc'[t] = "idle"
        /\ pc[t] \in {"get_ret", "get0_ret"}
    BY <1>5 DEF GetReturn, Go, memory, PoolInv, TypeOK, Users
  <2>2. head[t] \in Heads /\ head[t] \in header
    BY <1>1, <2>1 DEF PoolInv, HeadInv, ObjectPC, NamedPC
  <2> QED
    BY <1>1, <2>1, <2>2, HeadFacts DEF NamedPC
<1>6. ASSUME NEW t \in Threads, PutsOwn(t)
      PROVE  header \subseteq header' /\ Named(t)'
  <2>1. header' = header
    BY <1>6 DEF PutsOwn, PutCall, memory
  <2> QED
    BY <1>1, <1>6, <2>1, PutCallKeeps DEF NamedPC
<1>7. ASSUME NEW t \in Threads,
             \/ GetCall(t) \/ GetLock(t) \/ GetTake(t) \/ GetCount(t)
             \/ GetZero(t) \/ PutLock(t) \/ PutCount(t) \/ PutLink(t)
             \/ PutElsewhere(t) \/ PutUnlock(t)
      PROVE  header \subseteq header' /\ Named(t)'
  <2>1. held' = held /\ header' = header /\ t \in Users
    BY <1>7
    DEF GetCall, GetLock, GetTake, GetCount, GetZero, PutLock, PutCount,
        PutLink, PutElsewhere, PutUnlock, Users, memory
  <2>2. pc'[t] \in NamedPC => pc[t] \in NamedPC /\ head'[t] = head[t]
    BY <1>7, <2>1
    DEF GetCall, GetLock, GetTake, GetCount, GetZero, PutLock, PutCount,
        PutLink, PutElsewhere, PutUnlock, Acquire, Release, Go, NamedPC,
        PoolInv, TypeOK
  <2> QED
    BY <1>1, <2>1, <2>2
<1>8. ASSUME NEW t \in Threads, UserWrite(t) \/ GetCrash(t)
      PROVE  header \subseteq header' /\ Named(t)'
  BY <1>1, <1>8 DEF UserWrite, GetCrash, memory
<1>9. ASSUME NEW t \in Threads PROVE ~PutFreed(t)
  BY NoPutFreed DEF OwnerInv
<1>10. ASSUME NEW m \in Monitors, MonitorLock(m) \/ MonitorStep(m)
       PROVE  NamedInv'
  BY <1>1, <1>10, MonitorKeeps DEF NamedInv, memory
<1> HIDE DEF Named
<1>11. ASSUME NEW t \in Threads, OwnStep(t) PROVE NamedInv'
  <2>1. GetMiss(t) \/ (header \subseteq header' /\ Named(t)')
    BY <1>4, <1>5, <1>6, <1>7, <1>8, <1>9, <1>11
    DEF OwnStep, GetStep, PutStep
  <2> QED
    BY <1>2, <1>3, <1>11, <2>1, OwnIsThread
<1> QED
  BY <1>10, <1>11 DEF OwnNext

\* The object mem_get0 clears after UNLOCK is lent to its caller already, so
\* no other client writes to it.
LEMMA ZeroStep ==
  ASSUME PoolInv, OwnerInv, OwnNext
  PROVE  ReturnedZeroed'
<1> DEFINE Zeroed(u) == pc[u] = "get0_ret" => head[u] \notin dirty
<1>1. \A u \in Threads : Zeroed(u)
  BY DEF OwnerInv, ReturnedZeroed
<1>2. ASSUME NEW t \in Threads, ThreadNext(t), dirty' \subseteq dirty,
             Zeroed(t)'
      PROVE  ReturnedZeroed'
  BY <1>1, <1>2, ThreadFrame DEF ReturnedZeroed, PoolInv
<1>3. ASSUME NEW t \in Threads, UserWrite(t) PROVE ReturnedZeroed'
  <2>1. PICK ptr \in held[t] : dirty' = dirty \cup {Ptr2ChunkHead(ptr)}
    BY <1>3 DEF UserWrite
  <2>2. pc[t] = "idle" /\ pc' = pc /\ head' = head
    BY <1>3 DEF UserWrite
  <2>3. ASSUME NEW u \in Threads, pc[u] = "get0_ret"
        PROVE  head[u] # Ptr2ChunkHead(ptr)
    <3>1. Ptr2ChunkHead(ptr) \in Lent[t] /\ head[u] \in Lent[u] /\ u # t
      BY <2>2, <2>3, HeldIsLent DEF NamedPC, OwnerInv
    <3> QED
      BY <3>1 DEF OwnerInv, LendInv
  <2> QED
    BY <1>1, <2>1, <2>2, <2>3 DEF ReturnedZeroed
<1>4. ASSUME NEW t \in Threads, GetMiss(t)
      PROVE  dirty' \subseteq dirty /\ Zeroed(t)'
  <2>1. pc'[t] = "get_fwd"
    BY <1>4 DEF GetMiss, Go, PoolInv, TypeOK, Users
  <2> QED
    BY <1>4, <2>1, MissLends
<1>5. ASSUME NEW t \in Threads, GetZero(t)
      PROVE  dirty' \subseteq dirty /\ Zeroed(t)'
  BY <1>5 DEF GetZero
<1>6. ASSUME NEW t \in Threads,
             \/ GetCall(t) \/ GetLock(t) \/ GetTake(t) \/ GetCount(t)
             \/ GetUnlock(t) \/ GetReturn(t) \/ PutsOwn(t) \/ PutLock(t)
             \/ PutFreed(t) \/ PutCount(t) \/ PutLink(t) \/ PutElsewhere(t)
             \/ PutUnlock(t)
      PROVE  dirty' \subseteq dirty /\ Zeroed(t)'
  <2>1. dirty' = dirty /\ t \in Users
    BY <1>6
    DEF GetCall, GetLock, GetTake, GetCount, GetUnlock, GetReturn, PutCall,
        PutLock, PutFreed, PutCount, PutLink, PutElsewhere, PutUnlock,
        PutsOwn, memory, Users
  <2>2. pc'[t] # "get0_ret"
    BY <1>6, <2>1
    DEF GetCall, GetLock, GetTake, GetCount, GetUnlock, GetReturn, PutCall,
        PutLock, PutFreed, PutCount, PutLink, PutElsewhere, PutUnlock,
        PutsOwn, Acquire, Release, Go, PoolInv, TypeOK
  <2> QED
    BY <2>1, <2>2
<1>7. ASSUME NEW t \in Threads, GetCrash(t)
      PROVE  dirty' \subseteq dirty /\ Zeroed(t)'
  BY <1>1, <1>7 DEF GetCrash, memory
<1>8. ASSUME NEW m \in Monitors, MonitorLock(m) \/ MonitorStep(m)
      PROVE  ReturnedZeroed'
  BY <1>1, <1>8, MonitorKeeps DEF ReturnedZeroed, memory
<1> HIDE DEF Zeroed
<1>9. ASSUME NEW t \in Threads, OwnStep(t) PROVE ReturnedZeroed'
  <2>1. UserWrite(t) \/ (dirty' \subseteq dirty /\ Zeroed(t)')
    BY <1>4, <1>5, <1>6, <1>7, <1>9 DEF OwnStep, GetStep, PutStep
  <2> QED
    BY <1>2, <1>3, <1>9, <2>1, OwnIsThread
<1> QED
  BY <1>8, <1>9 DEF OwnNext

\* Nobody else is inside the critical section when a heap block is counted.
LEMMA OneFaulting ==
  ASSUME PoolInv, NEW t \in Threads, pc[t] \in CriticalPC \ {"get_fwd"}
  PROVE  Faulting = {}
BY DEF PoolInv, LockInv, Faulting, CriticalPC, Users

LEMMA HeapStep ==
  ASSUME PoolInv, OwnerInv, OwnNext
  PROVE  HeapInv'
<1> USE DEF OwnerInv
\* A thread that got NULL is stuck with the lock.
<1>1. ASSUME heap' = heap, pool'.curr_stdalloc = pool.curr_stdalloc,
             Faulting \subseteq Faulting'
      PROVE  HeapInv'
  BY <1>1 DEF HeapInv
<1>2. ASSUME NEW t \in Threads, GetMiss(t) PROVE HeapInv'
  <2>1. /\ pc[t] = "get_take" /\ pc'[t] = "get_fwd"
        /\ pool'.curr_stdalloc = pool.curr_stdalloc + 1
    BY <1>2 DEF GetMiss, Go, PoolInv, TypeOK, PoolRecord, Users
  <2>2. pool.curr_stdalloc = Cardinality(heap) /\ IsFiniteSet(heap)
    BY <2>1, OneFaulting DEF HeapInv, CriticalPC
  <2>3. CASE head'[t] = NULL /\ heap' = heap
    <3>1. t \in Faulting'
      BY <2>1, <2>3 DEF Faulting
    <3> QED
      BY <2>2, <2>3, <3>1 DEF HeapInv
  <2>4. CASE head'[t] \notin heap /\ heap' = heap \cup {head'[t]}
    <3>1. IsFiniteSet(heap') /\ Cardinality(heap') = Cardinality(heap) + 1
      BY <2>2, <2>4, FS_AddElement
    <3> QED
      BY <2>1, <2>2, <3>1 DEF HeapInv
  <2> QED
    BY <1>2, <2>3, <2>4, MissLends
<1>3. ASSUME NEW t \in Threads, PutElsewhere(t) PROVE HeapInv'
  <2>1. pc[t] = "put_check"
    BY <1>3 DEF PutElsewhere, Go
  <2>2. pool.curr_stdalloc = Cardinality(heap) /\ IsFiniteSet(heap)
    BY <2>1, OneFaulting DEF HeapInv, CriticalPC
  <2>3. /\ head[t] \in heap /\ heap' = heap \ {head[t]}
        /\ pool'.curr_stdalloc = pool.curr_stdalloc - 1
    BY <1>3, ElsewhereTakesBack
  <2>4. IsFiniteSet(heap') /\ Cardinality(heap') = Cardinality(heap) - 1
    BY <2>2, <2>3, FS_RemoveElement
  <2> QED
    BY <2>2, <2>3, <2>4 DEF HeapInv
<1>4. ASSUME NEW t \in Threads,
             \/ GetCall(t) \/ GetLock(t) \/ GetTake(t) \/ GetCount(t)
             \/ GetUnlock(t) \/ GetZero(t) \/ GetReturn(t) \/ PutsOwn(t)
             \/ PutLock(t) \/ PutCount(t) \/ PutLink(t) \/ PutUnlock(t)
      PROVE  HeapInv'
  <2>1. heap' = heap /\ t \in Users
    BY <1>4
    DEF GetCall, GetLock, GetTake, GetCount, GetUnlock, GetZero, GetReturn,
        PutCall, PutLock, PutCount, PutLink, PutUnlock, PutsOwn, memory, Users
  <2>2. pool'.curr_stdalloc = pool.curr_stdalloc
    BY <1>4
    DEF GetCall, GetLock, GetTake, GetCount, GetUnlock, GetZero, GetReturn,
        PutCall, PutLock, PutCount, PutLink, PutUnlock, PutsOwn, PoolInv,
        TypeOK, PoolRecord
  <2>3. t \notin Faulting
    BY <1>4
    DEF GetCall, GetLock, GetTake, GetCount, GetUnlock, GetZero, GetReturn,
        PutCall, PutLock, PutCount, PutLink, PutUnlock, PutsOwn, Acquire, Release,
        Go, Faulting
  <2>4. ThreadNext(t)
    BY <1>4 DEF ThreadNext, GetStep, PutStep, PutsOwn
  <2>5. Faulting \subseteq Faulting'
    BY <2>3, <2>4, ThreadFrame DEF Faulting, PoolInv
  <2> QED
    BY <1>1, <2>1, <2>2, <2>5
<1>5. ASSUME NEW t \in Threads, UserWrite(t) \/ GetCrash(t) PROVE HeapInv'
  BY <1>1, <1>5 DEF UserWrite, GetCrash, memory, Faulting
<1>6. ASSUME NEW t \in Threads PROVE ~PutFreed(t)
  BY NoPutFreed
<1>7. ASSUME NEW m \in Monitors, MonitorLock(m) \/ MonitorStep(m)
      PROVE  HeapInv'
  BY <1>1, <1>7, MonitorKeeps DEF memory, Faulting
<1> QED
  BY <1>2, <1>3, <1>4, <1>5, <1>6, <1>7 DEF OwnNext, OwnStep, GetStep, PutStep

LEMMA NothingLent ==
  ASSUME Init
  PROVE  /\ Lent = [t \in Threads |-> {}]
         /\ Taken = {}
<1>1. /\ \A t \in Threads : held[t] = {} /\ pc[t] = "idle"
      /\ in_use = {} /\ heap = {}
  BY DEF Init, Users
<1>2. \A t \in Threads : Lent[t] = {}
  BY <1>1, LentOf DEF Owns, OwnerPC
<1>3. Lent = [t \in Threads |-> Lent[t]]
  BY DEF Lent
<1>4. [t \in Threads |-> Lent[t]] = [t \in Threads |-> {}]
  BY <1>2
<1>5. Counting = {}
  BY <1>1 DEF Counting
<1> QED
  BY <1>1, <1>3, <1>4, <1>5 DEF Taken

LEMMA OwnerInit == Init => OwnerInv
<1> SUFFICES ASSUME Init PROVE OwnerInv
  OBVIOUS
<1>1. /\ \A t \in Threads : held[t] = {} /\ pc[t] = "idle"
      /\ heap = {} /\ pool.curr_stdalloc = 0
  BY DEF Init, Users
<1>2. LendInv
  <2>1. \A t \in Threads : Lent[t] = {}
    BY NothingLent
  <2> QED
    BY <2>1, NothingLent DEF LendInv
<1>3. OnceInv /\ NamedInv /\ ReturnedZeroed
  BY <1>1 DEF OnceInv, NamedInv, ReturnedZeroed, OwnerPC, NamedPC
<1>4. HeapInv
  BY <1>1, FS_EmptySet DEF HeapInv
<1> QED
  BY <1>2, <1>3, <1>4 DEF OwnerInv

LEMMA OwnerStutter == OwnerInv /\ UNCHANGED vars => OwnerInv'
<1> SUFFICES ASSUME OwnerInv, UNCHANGED vars PROVE OwnerInv'
  OBVIOUS
<1>1. UNCHANGED <<pool, in_use, header, dirty, heap, pc, head, held>>
  BY DEF vars, memory
<1>2. Lent' = Lent /\ Taken' = Taken
  BY <1>1 DEF Lent, Owns, Taken, Counting
<1> QED
  BY <1>1, <1>2 DEF OwnerInv, LendInv, OnceInv, NamedInv, ReturnedZeroed,
                    HeapInv, Faulting

LEMMA OwnerStep == PoolInv /\ OwnerInv /\ OwnNext => OwnerInv'
BY LendStep, OnceStep, NamedStep, ZeroStep, HeapStep DEF OwnerInv

\* With clients that put back only what they hold, the bookkeeping of the pool
\* says exactly who has what.
THEOREM Ownership ==
  ASSUME StrayPutters = {}
  PROVE  Spec => []OwnerInv
<1>1. Init => OwnerInv
  BY OwnerInit
<1>2. PoolInv /\ OwnerInv /\ [Next]_vars => OwnerInv'
  <2>1. PoolInv /\ OwnerInv /\ Next => OwnNext
    BY OwnPuts DEF OwnerInv
  <2> QED
    BY <2>1, OwnerStep, OwnerStutter
<1> QED
  BY <1>1, <1>2, Invariance, PTL DEF Spec

\* No object is handed to two threads, nor kept by the call that frees it
\* while another got it (mem-pool.c:101-155, 207-250).
THEOREM Exclusive ==
  ASSUME StrayPutters = {}
  PROVE  Spec => []ExclusiveOwnership
<1>1. OwnerInv => ExclusiveOwnership
  BY LentOf DEF OwnerInv, LendInv, ExclusiveOwnership
<1> QED
  BY <1>1, Ownership, PTL

\* What in_use and the heap say is out is what somebody answers for: nothing
\* leaks and nothing is handed out unmarked (mem-pool.c:104-151, 212-242).
THEOREM NothingLeaks ==
  ASSUME StrayPutters = {}
  PROVE  Spec => []NoLeak
<1>1. ASSUME OwnerInv, NEW h \in Heads
      PROVE  (\E t \in Threads : Owns(t, h)) <=>
               \/ h \in in_use \cup heap
               \/ \E t \in Threads : pc[t] = "get_count" /\ head[t] = h
  <2>1. (\E t \in Threads : Owns(t, h)) <=> \E t \in Threads : h \in Lent[t]
    BY LentOf
  <2>2. (\E t \in Threads : h \in Lent[t]) <=> h \in Taken
    BY <1>1 DEF OwnerInv, LendInv
  <2> QED
    BY <2>1, <2>2 DEF Taken, Counting
<1>2. OwnerInv => NoLeak
  BY <1>1 DEF NoLeak
<1> QED
  BY <1>2, Ownership, PTL

\* mem_get0 may clear the object after UNLOCK (mem-pool.c:81-84).
THEOREM Zeroed ==
  ASSUME StrayPutters = {}
  PROVE  Spec => []ReturnedZeroed
<1>1. OwnerInv => ReturnedZeroed
  BY DEF OwnerInv
<1> QED
  BY <1>1, Ownership, PTL

\* curr_stdalloc is exact whenever the lock is free, a failing calloc included
\* (mem-pool.c:142-151, 242-243).
THEOREM HeapCounted ==
  ASSUME StrayPutters = {}
  PROVE  Spec => []HeapAccounted
<1>1. PoolInv /\ OwnerInv => HeapAccounted
  <2> SUFFICES ASSUME PoolInv, OwnerInv, lock = NoThread
               PROVE  pool.curr_stdalloc = Cardinality(heap)
    BY DEF HeapAccounted
  <2>1. Faulting = {}
    BY ThreadsAssumption
    DEF PoolInv, LockInv, Faulting, CriticalPC, Users, ThreadsAssumption
  <2> QED
    BY <2>1 DEF OwnerInv, HeapInv
<1> QED
  BY <1>1, Ownership, Invariance, PTL

\* Every step of the pool is a step of ObjectPool, or none.
LEMMA StepRefines ==
  ASSUME PoolInv, OwnerInv, [OwnNext]_vars
  PROVE  [Abstract!Next]_Lent
<1>1. CASE UNCHANGED vars
  <2>1. Lent' = Lent
    BY <1>1 DEF vars, memory, Lent, Owns
  <2> QED
    BY <2>1
<1>2. CASE Keeps
  BY <1>2 DEF Keeps
<1>3. ASSUME NEW t \in Threads, NEW ob, Lends(t, ob),
             ob \in HeapBlocks => Chunks \subseteq Taken
      PROVE  Abstract!Next
  <2>1. ob \in Chunks \cup HeapBlocks
    BY <1>3 DEF Lends, Heads
  <2>2. \A other \in Heads : Abstract!Free(other) <=> other \notin Taken
    BY DEF Abstract!Free, OwnerInv, LendInv
  <2>3. Abstract!Lend(t, ob)
    BY <1>3, <2>1, <2>2 DEF Abstract!Lend, Lends, Heads
  <2> QED
    BY <2>1, <2>3 DEF Abstract!Next
<1>4. ASSUME NEW t \in Threads, NEW ob, TakesBack(t, ob)
      PROVE  Abstract!Next
  <2>1. ob \in Chunks \cup HeapBlocks
    BY <1>4, LentOf DEF TakesBack, Heads
  <2>2. Abstract!GiveBack(t, ob)
    BY <1>4 DEF Abstract!GiveBack, TakesBack
  <2> QED
    BY <2>1, <2>2 DEF Abstract!Next
<1> QED
  BY <1>1, <1>2, <1>3, <1>4, EveryStep

\* The pool is an object pool: it lends an object to one thread at a time,
\* takes it back from that thread, and goes to the heap only while every
\* chunk is lent (mem-pool.c:104-119, 141-151, 219-243).
THEOREM Refinement ==
  ASSUME StrayPutters = {}
  PROVE  Spec => ImplementsObjectPool
<1>1. Init => Abstract!Init
  BY NothingLent DEF Abstract!Init
<1>2. PoolInv /\ OwnerInv /\ [Next]_vars => [Abstract!Next]_Lent
  BY OwnPuts, StepRefines DEF OwnerInv
<1> QED
  BY <1>1, <1>2, Ownership, Invariance, PTL
  DEF Spec, ImplementsObjectPool, Abstract!Spec

-----------------------------------------------------------------------------
(* The simulator is a client of the pool *)

LEMMA WorkerIsThread ==
  ASSUME NEW t \in Threads, Worker(t)
  PROVE  ThreadNext(t)
BY DEF Worker, InCall, StartGet, EndGet, Fill, StartPut, ThreadNext, GetStep,
       PutStep

LEMMA StepOfPool == [NextWorkers]_workerVars => [Next]_vars
<1>1. NextWorkers => Next
  BY WorkerIsThread DEF NextWorkers, Monitoring, Next
<1>2. UNCHANGED workerVars => UNCHANGED vars
  BY DEF workerVars
<1> QED
  BY <1>1, <1>2

\* Every behaviour of the workers is one of threads that call the pool as they
\* like: do_work only chooses among the calls (check.c:54-79, 102-108).
THEOREM UsesPool == SpecWorkers => Spec
<1>1. InitWorkers => Init
  BY DEF InitWorkers
<1> QED
  BY <1>1, StepOfPool, PTL DEF SpecWorkers, Spec

-----------------------------------------------------------------------------
(* The array of a worker *)

\* The array names what its worker holds, each object once; while an object
\* waits to be filled the worker is in no call.
ArrayOK(t) ==
  /\ obj[t] \in Seq({ChunkHead2Ptr(h) : h \in Heads})
  /\ IsInjective(obj[t])
  /\ Range(obj[t]) = held[t]
  /\ phase[t] = "fill" => pc[t] = "idle"
  /\ phase[t] = "put" => obj[t] # <<>>

ArrayInv ==
  /\ obj = [t \in Threads |-> obj[t]]
  /\ phase = [t \in Threads |-> phase[t]]
  /\ \A t \in Threads : ArrayOK(t)

\* The part of ContentsKept that is about one worker.
Kept(t) ==
  \A i \in DOMAIN obj[t] :
    (phase[t] # "fill" \/ i < Len(obj[t])) => Ptr2ChunkHead(obj[t][i]) \in dirty

WorkerInv == PoolInv /\ OwnerInv /\ ArrayInv /\ ContentsKept

LEMMA AppendNew ==
  ASSUME NEW S, NEW s \in Seq(S), NEW x \in S, x \notin Range(s),
         IsInjective(s)
  PROVE  /\ Append(s, x) \in Seq(S)
         /\ Len(Append(s, x)) = Len(s) + 1
         /\ IsInjective(Append(s, x))
         /\ Range(Append(s, x)) = Range(s) \cup {x}
         /\ DOMAIN Append(s, x) = 1 .. Len(s) + 1
         /\ \A i \in 1 .. Len(s) : Append(s, x)[i] = s[i]
<1> DEFINE r == Append(s, x)
<1>1. /\ r \in Seq(S) /\ Len(r) = Len(s) + 1 /\ Len(s) \in Nat
      /\ r[Len(s) + 1] = x
      /\ \A i \in 1 .. Len(s) : r[i] = s[i]
      /\ DOMAIN s = 1 .. Len(s) /\ DOMAIN r = 1 .. Len(s) + 1
  OBVIOUS
<1> HIDE DEF r
<1>2. \A i \in DOMAIN s : s[i] # x
  BY DEF Range
<1>3. \A i \in DOMAIN r : i = Len(s) + 1 \/ i \in DOMAIN s
  BY <1>1
<1>4. IsInjective(r)
  BY <1>1, <1>2, <1>3 DEF IsInjective
<1>5. Range(r) = Range(s) \cup {x}
  <2>1. ASSUME NEW y \in Range(r) PROVE y \in Range(s) \cup {x}
    BY <1>1, <1>3 DEF Range
  <2>2. x \in Range(r)
    <3>1. Len(s) + 1 \in DOMAIN r
      BY <1>1
    <3> QED
      BY <1>1, <3>1 DEF Range
  <2>3. ASSUME NEW y \in Range(s) PROVE y \in Range(r)
    <3>1. PICK i \in DOMAIN s : s[i] = y
      BY DEF Range
    <3>2. i \in DOMAIN r /\ r[i] = y
      BY <1>1, <3>1
    <3> QED
      BY <3>2 DEF Range
  <2> QED
    BY <2>1, <2>2, <2>3
<1> QED
  BY <1>1, <1>4, <1>5 DEF r

\* A worker puts the first object of its array, which it holds.
LEMMA StartPutsOwn ==
  ASSUME WorkerInv, NEW t \in Threads, StartPut(t)
  PROVE  /\ PutsOwn(t)
         /\ Len(obj[t]) > 0
         /\ Head(obj[t]) \in held[t]
         /\ held'[t] = held[t] \ {Head(obj[t])}
         /\ dirty' = dirty
         /\ pc'[t] = "put_lock"
<1>1. /\ PutCall(t) /\ ChunkHead2Ptr(head'[t]) = Head(obj[t])
      /\ phase[t] = "put" /\ dirty' = dirty
  BY DEF StartPut, PutCall, memory
<1>2. Len(obj[t]) > 0 /\ Head(obj[t]) \in held[t]
  <2>1. ArrayOK(t) /\ obj[t] # <<>>
    BY <1>1 DEF WorkerInv, ArrayInv, ArrayOK
  <2>2. /\ obj[t] \in Seq({ChunkHead2Ptr(h) : h \in Heads})
        /\ IsInjective(obj[t]) /\ Range(obj[t]) = held[t]
    BY <2>1 DEF ArrayOK
  <2>3. Len(obj[t]) > 0
    BY <2>1, <2>2
  <2> QED
    BY <2>2, <2>3, TailOfList
<1>3. PutsOwn(t)
  BY <1>1, <1>2 DEF PutsOwn
<1> QED
  BY <1>1, <1>2, <1>3, PutCallKeeps DEF WorkerInv

\* No step of the simulator breaks the rules of the pool.
LEMMA OwnWorkers ==
  ASSUME WorkerInv, NextWorkers
  PROVE  OwnNext
<1>1. ASSUME NEW t \in Threads, Worker(t)
      PROVE  OwnStep(t)
  BY <1>1, StartPutsOwn
  DEF Worker, InCall, StartGet, EndGet, Fill, OwnStep, GetStep, PutStep
<1> QED
  BY <1>1 DEF NextWorkers, Monitoring, OwnNext

\* A step that leaves the arrays alone.
LEMMA QuietArrays ==
  ASSUME WorkerInv, UNCHANGED <<obj, phase>>,
         \A t \in Threads :
           /\ held'[t] = held[t]
           /\ phase[t] = "fill" => pc'[t] = pc[t]
  PROVE  ArrayInv'
BY DEF WorkerInv, ArrayInv, ArrayOK

\* What a step clears, nobody has in an array: a block that was not allocated,
\* or the object that mem_get0 is about to return.
LEMMA ClearedIsNew ==
  ASSUME WorkerInv, NEW t \in Threads, InCall(t)
  PROVE  /\ \A u \in Threads : held'[u] = held[u]
         /\ pc[t] # "idle"
         /\ \A u \in Threads : \A ptr \in held[u] :
              Ptr2ChunkHead(ptr) \in dirty => Ptr2ChunkHead(ptr) \in dirty'
<1>1. held' = held /\ pc[t] # "idle"
  BY DEF InCall, GetLock, GetTake, GetCount, GetMiss, GetCrash, GetUnlock,
         GetZero, PutStep, PutLock, PutFreed, PutCount, PutLink, PutElsewhere,
         PutUnlock, Acquire, Release, Go
<1>2. ASSUME NEW u \in Threads, NEW ptr \in held[u],
             Ptr2ChunkHead(ptr) \in dirty
      PROVE  Ptr2ChunkHead(ptr) \in dirty'
  <2>1. /\ Ptr2ChunkHead(ptr) \in Lent[u]
        /\ Ptr2ChunkHead(ptr) \in Taken
    BY HeldIsLent DEF WorkerInv, OwnerInv
  <2>2. CASE GetMiss(t)
    <3>1. dirty' = dirty \/ \E b : b \notin Taken /\ dirty' = dirty \ {b}
      BY <2>2, MissLends DEF WorkerInv, Lends
    <3> QED
      BY <1>2, <2>1, <3>1
  <2>3. CASE GetZero(t)
    <3>1. pc[t] = "get_zero" /\ dirty' = dirty \ {head[t]}
      BY <2>3 DEF GetZero, Go
    <3>2. head[t] \in Lent[t]
      BY <3>1, HeldIsLent DEF WorkerInv, OwnerInv, NamedPC
    <3>3. CASE u # t
      BY <1>2, <2>1, <3>1, <3>2, <3>3 DEF WorkerInv, OwnerInv, LendInv
    <3>4. CASE u = t
      <4>1. PICK h \in Heads : ptr = ChunkHead2Ptr(h)
        BY DEF WorkerInv, PoolInv, TypeOK
      <4>2. ChunkHead2Ptr(head[t]) \notin held[t]
        BY <3>1 DEF WorkerInv, OwnerInv, OnceInv, OwnerPC
      <4>3. Ptr2ChunkHead(ptr) = h /\ h # head[t]
        BY <3>4, <4>1, <4>2, HeadFacts
      <4> QED
        BY <1>2, <3>1, <4>3
    <3> QED
      BY <3>3, <3>4
  <2>4. CASE ~(GetMiss(t) \/ GetZero(t))
    <3>1. dirty' = dirty
      BY <2>4
      DEF InCall, GetLock, GetTake, GetCount, GetCrash, GetUnlock, PutStep,
          PutLock, PutFreed, PutCount, PutLink, PutElsewhere, PutUnlock,
          memory
    <3> QED
      BY <1>2, <3>1
  <2> QED
    BY <2>2, <2>3, <2>4
<1> QED
  BY <1>1, <1>2

\* The entries of an array are what its worker holds.
LEMMA EntryIsHeld ==
  ASSUME WorkerInv, NEW t \in Threads, NEW k \in DOMAIN obj[t]
  PROVE  obj[t][k] \in held[t]
BY DEF WorkerInv, ArrayInv, ArrayOK, Range

\* Where the arrays do not change and what is held stays written.
LEMMA QuietContents ==
  ASSUME WorkerInv, UNCHANGED <<obj, phase>>,
         \A u \in Threads : \A ptr \in held[u] :
           Ptr2ChunkHead(ptr) \in dirty => Ptr2ChunkHead(ptr) \in dirty'
  PROVE  ContentsKept'
BY EntryIsHeld DEF WorkerInv, ContentsKept

LEMMA CallArrays ==
  ASSUME WorkerInv, NEW t \in Threads, InCall(t) \/ StartGet(t)
  PROVE  ArrayInv' /\ ContentsKept'
<1>1. UNCHANGED <<obj, phase>>
  BY DEF InCall, StartGet
<1>2. \A u \in Threads : u # t => pc'[u] = pc[u]
  BY WorkerIsThread, ThreadFrame DEF Worker, WorkerInv, PoolInv
<1>3. CASE InCall(t)
  <2>1. phase[t] # "fill"
    BY <1>3, ClearedIsNew DEF WorkerInv, ArrayInv, ArrayOK
  <2> QED
    BY <1>1, <1>2, <1>3, <2>1, ClearedIsNew, QuietArrays, QuietContents
<1>4. CASE StartGet(t)
  <2>1. phase[t] = "get" /\ held' = held /\ dirty' = dirty
    BY <1>4 DEF StartGet, GetCall, memory
  <2>2. \A u \in Threads :
          /\ held'[u] = held[u]
          /\ phase[u] = "fill" => pc'[u] = pc[u]
    BY <1>2, <2>1
  <2> QED
    BY <1>1, <2>1, <2>2, QuietArrays, QuietContents
<1> QED
  BY <1>3, <1>4

\* A step of t that leaves the others' arrays, and what they hold, alone.
LEMMA OneArray ==
  ASSUME WorkerInv, NEW t \in Threads, ThreadNext(t),
         NEW s, NEW p,
         obj' = [obj EXCEPT ![t] = s], phase' = [phase EXCEPT ![t] = p],
         dirty \subseteq dirty', ArrayOK(t)', Kept(t)'
  PROVE  ArrayInv' /\ ContentsKept'
<1>1. /\ \A u \in Threads : u # t => obj'[u] = obj[u] /\ phase'[u] = phase[u]
      /\ obj' = [u \in Threads |-> obj'[u]]
      /\ phase' = [u \in Threads |-> phase'[u]]
  BY DEF WorkerInv, ArrayInv
<1>2. \A u \in Threads : u # t => pc'[u] = pc[u] /\ held'[u] = held[u]
  BY ThreadFrame DEF WorkerInv, PoolInv
<1>3. \A u \in Threads : ArrayOK(u)'
  BY <1>1, <1>2 DEF ArrayOK, WorkerInv, ArrayInv
<1>4. \A u \in Threads : Kept(u)'
  BY <1>1 DEF Kept, WorkerInv, ContentsKept
<1> QED
  BY <1>1, <1>3, <1>4 DEF ArrayInv, ContentsKept, Kept

LEMMA EndGetArrays ==
  ASSUME WorkerInv, NEW t \in Threads, EndGet(t)
  PROVE  ArrayInv' /\ ContentsKept'
<1> DEFINE x == ChunkHead2Ptr(head[t])
           S == {ChunkHead2Ptr(h) : h \in Heads}
<1>1. /\ pc[t] \in {"get_ret", "get0_ret"} /\ pc'[t] = "idle"
      /\ held'[t] = held[t] \cup {x} /\ dirty' = dirty
      /\ ThreadNext(t)
      /\ obj' = [obj EXCEPT ![t] = Append(obj[t], x)]
      /\ phase' = [phase EXCEPT ![t] = "fill"]
  BY DEF EndGet, GetReturn, Go, memory, ThreadNext, GetStep, WorkerInv,
         PoolInv, TypeOK, Users
<1>2. x \in S /\ x \notin held[t]
  BY <1>1 DEF WorkerInv, PoolInv, HeadInv, ObjectPC, OwnerInv, OnceInv, OwnerPC
<1>3. /\ ArrayOK(t) /\ phase[t] # "fill" /\ Kept(t)
      /\ obj'[t] = Append(obj[t], x) /\ phase'[t] = "fill"
  BY <1>1 DEF WorkerInv, ArrayInv, ArrayOK, ContentsKept, Kept
<1>4. /\ obj'[t] \in Seq(S) /\ IsInjective(obj'[t])
      /\ Range(obj'[t]) = Range(obj[t]) \cup {x}
      /\ Len(obj'[t]) = Len(obj[t]) + 1 /\ Len(obj[t]) \in Nat
      /\ DOMAIN obj'[t] = 1 .. Len(obj[t]) + 1
      /\ DOMAIN obj[t] = 1 .. Len(obj[t])
      /\ \A k \in 1 .. Len(obj[t]) : obj'[t][k] = obj[t][k]
  BY <1>2, <1>3, AppendNew DEF ArrayOK
<1>5. ArrayOK(t)'
  BY <1>1, <1>3, <1>4 DEF ArrayOK
<1>6. Kept(t)'
  <2> SUFFICES ASSUME NEW k \in DOMAIN obj'[t], k < Len(obj'[t])
               PROVE  Ptr2ChunkHead(obj'[t][k]) \in dirty
    BY <1>1, <1>3 DEF Kept
  <2>1. k \in DOMAIN obj[t] /\ obj'[t][k] = obj[t][k]
    BY <1>4
  <2> QED
    BY <1>3, <2>1 DEF Kept
<1> QED
  BY <1>1, <1>5, <1>6, OneArray

LEMMA FillArrays ==
  ASSUME WorkerInv, NEW t \in Threads, Fill(t)
  PROVE  ArrayInv' /\ ContentsKept'
<1> DEFINE last == Last(obj[t])
           p == IF Len(obj[t]) = Iter THEN "put" ELSE "get"
<1>1. /\ phase[t] = "fill" /\ pc[t] = "idle" /\ pc' = pc
      /\ held' = held /\ obj' = obj
      /\ dirty' = dirty \cup {Ptr2ChunkHead(last)}
      /\ phase' = [phase EXCEPT ![t] = p] /\ ThreadNext(t)
      /\ held[t] # {}
  BY DEF Fill, UserWrite, ThreadNext
<1>2. ArrayOK(t) /\ Kept(t) /\ phase'[t] = p
  BY <1>1 DEF WorkerInv, ArrayInv, ContentsKept, Kept
<1>3. /\ Len(obj[t]) \in Nat /\ DOMAIN obj[t] = 1 .. Len(obj[t])
      /\ last = obj[t][Len(obj[t])]
  BY <1>2 DEF ArrayOK, Last
<1>4. ArrayOK(t)'
  <2>1. p = "put" => obj[t] # <<>>
    <3>1. Iter # 0
      BY IterAssumption DEF IterAssumption
    <3> QED
      BY <3>1
  <2> QED
    BY <1>1, <1>2, <2>1 DEF ArrayOK
<1>5. Kept(t)'
  <2> SUFFICES ASSUME NEW k \in DOMAIN obj[t]
               PROVE  Ptr2ChunkHead(obj[t][k]) \in dirty'
    BY <1>1 DEF Kept
  <2>1. CASE k < Len(obj[t])
    BY <1>1, <1>2, <2>1 DEF Kept
  <2>2. CASE k = Len(obj[t])
    BY <1>1, <1>3, <2>2
  <2> QED
    BY <1>3, <2>1, <2>2
<1>6. obj' = [obj EXCEPT ![t] = obj[t]]
  BY <1>1 DEF WorkerInv, ArrayInv
<1> QED
  BY <1>1, <1>4, <1>5, <1>6, OneArray

LEMMA StartPutArrays ==
  ASSUME WorkerInv, NEW t \in Threads, StartPut(t)
  PROVE  ArrayInv' /\ ContentsKept'
<1> DEFINE S == {ChunkHead2Ptr(h) : h \in Heads}
           p == IF Len(obj[t]) = 1 THEN "get" ELSE "put"
<1>1. /\ phase[t] = "put"
      /\ obj' = [obj EXCEPT ![t] = Tail(obj[t])]
      /\ phase' = [phase EXCEPT ![t] = p]
      /\ ThreadNext(t)
  BY WorkerIsThread DEF StartPut, Worker
<1>2. /\ ArrayOK(t) /\ Kept(t)
      /\ obj'[t] = Tail(obj[t]) /\ phase'[t] = p
  BY <1>1 DEF WorkerInv, ArrayInv, ContentsKept, Kept
<1>3. /\ Len(obj[t]) > 0 /\ held'[t] = held[t] \ {Head(obj[t])}
      /\ dirty' = dirty
  BY StartPutsOwn
<1>4. obj[t] \in Seq(S) /\ IsInjective(obj[t]) /\ Range(obj[t]) = held[t]
  BY <1>2 DEF ArrayOK
<1>5. /\ obj'[t] \in Seq(S) /\ IsInjective(obj'[t])
      /\ Len(obj'[t]) = Len(obj[t]) - 1
      /\ Range(obj'[t]) = Range(obj[t]) \ {Head(obj[t])}
  BY <1>2, <1>3, <1>4, TailOfList
<1>6. ArrayOK(t)'
  <2>1. p = "put" => obj'[t] # <<>>
    <3>1. Len(obj[t]) \in Nat
      BY <1>4
    <3>2. p = "put" => Len(obj'[t]) # 0
      BY <1>3, <1>5, <3>1
    <3> QED
      BY <3>2
  <2> QED
    BY <1>2, <1>3, <1>4, <1>5, <2>1 DEF ArrayOK
<1>7. Kept(t)'
  <2> SUFFICES ASSUME NEW k \in DOMAIN obj'[t]
               PROVE  Ptr2ChunkHead(obj'[t][k]) \in dirty
    BY <1>3 DEF Kept
  <2>1. k + 1 \in DOMAIN obj[t] /\ obj'[t][k] = obj[t][k + 1]
    BY <1>2, <1>3, <1>4, <1>5
  <2> QED
    BY <1>1, <1>2, <2>1 DEF Kept
<1> QED
  BY <1>1, <1>3, <1>6, <1>7, OneArray

LEMMA MonitorArrays ==
  ASSUME WorkerInv, NEW m \in Monitors, Monitoring(m)
  PROVE  ArrayInv' /\ ContentsKept'
<1>1. UNCHANGED <<obj, phase>> /\ (MonitorLock(m) \/ MonitorStep(m))
  BY DEF Monitoring
<1>2. /\ \A u \in Threads : pc'[u] = pc[u] /\ held'[u] = held[u]
      /\ dirty' = dirty
  BY <1>1, MonitorKeeps DEF WorkerInv, memory
<1> QED
  BY <1>1, <1>2, QuietArrays, QuietContents

-----------------------------------------------------------------------------
(* How many objects are out *)

\* A worker has room in its array for the object it is asking for, or has just
\* given one up.
RoomInv ==
  \A t \in Threads :
    /\ Len(obj[t]) <= Iter
    /\ phase[t] = "get" \/ pc[t] # "idle" => Len(obj[t]) < Iter

\* What is in the k-th slot of a worker's array; behind the entries we put the
\* object that its call is about.
InSlot(t, k) ==
  IF k <= Len(obj[t]) THEN Ptr2ChunkHead(obj[t][k]) ELSE head[t]

Slots == Threads \X (1 .. Iter)

Demand == Cardinality(Threads) * Iter

LEMMA Lengths ==
  ASSUME WorkerInv
  PROVE  /\ Iter \in Nat \ {0} /\ Iter \in 1 .. Iter
         /\ \A t \in Threads : /\ Len(obj[t]) \in Nat
                               /\ DOMAIN obj[t] = 1 .. Len(obj[t])
<1>1. \A t \in Threads : obj[t] \in Seq({ChunkHead2Ptr(h) : h \in Heads})
  BY DEF WorkerInv, ArrayInv, ArrayOK
<1> QED
  BY <1>1, IterAssumption DEF IterAssumption

\* Every object that is out of the pool is in a slot of some worker.
LEMMA HasSlot ==
  ASSUME WorkerInv, RoomInv, NEW h \in Taken
  PROVE  \E t \in Threads, k \in 1 .. Iter :
           /\ InSlot(t, k) = h
           /\ k <= Len(obj[t]) \/ pc[t] \in OwnerPC
<1>1. PICK t \in Threads : h \in Lent[t]
  BY DEF WorkerInv, OwnerInv, LendInv
<1>2. h \in Heads /\ Owns(t, h)
  BY <1>1, LentOf
<1>3. CASE ChunkHead2Ptr(h) \in held[t]
  <2>0. Range(obj[t]) = held[t]
    BY DEF WorkerInv, ArrayInv, ArrayOK
  <2>1. PICK k \in DOMAIN obj[t] : obj[t][k] = ChunkHead2Ptr(h)
    <3>1. ChunkHead2Ptr(h) \in Range(obj[t])
      BY <1>3, <2>0
    <3> QED
      BY <3>1 DEF Range
  <2>2. k \in 1 .. Iter /\ k <= Len(obj[t])
    BY Lengths DEF RoomInv
  <2>3. InSlot(t, k) = h
    BY <1>2, <2>1, <2>2, HeadFacts DEF InSlot
  <2> QED
    BY <2>2, <2>3
<1>4. CASE pc[t] \in OwnerPC /\ head[t] = h
  <2>1. pc[t] # "idle"
    BY <1>4 DEF OwnerPC
  <2>2. Iter \in 1 .. Iter /\ ~ (Iter <= Len(obj[t]))
    BY <2>1, Lengths DEF RoomInv
  <2>3. InSlot(t, Iter) = h
    BY <1>4, <2>2 DEF InSlot
  <2> QED
    BY <1>4, <2>2, <2>3
<1> QED
  BY <1>2, <1>3, <1>4 DEF Owns

\* There are no more of them than slots that are used.
LEMMA Fits ==
  ASSUME WorkerInv, RoomInv, NEW used \in SUBSET Slots, IsFiniteSet(used),
         \A t \in Threads, k \in 1 .. Iter :
           k <= Len(obj[t]) \/ pc[t] \in OwnerPC => <<t, k>> \in used
  PROVE  /\ IsFiniteSet(Taken)
         /\ Cardinality(Taken) <= Cardinality(used)
         /\ Cardinality(Taken) \in Nat /\ Cardinality(used) \in Nat
<1> DEFINE f == [x \in used |-> InSlot(x[1], x[2])]
           T == {f[x] : x \in used}
<1>1. f \in Surjection(used, T)
  BY DEF Surjection
<1>2. IsFiniteSet(T) /\ Cardinality(T) <= Cardinality(used)
  BY <1>1, FS_Surjection
<1>3. Taken \subseteq T
  <2> SUFFICES ASSUME NEW h \in Taken PROVE h \in T
    OBVIOUS
  <2>1. PICK t \in Threads, k \in 1 .. Iter :
          /\ InSlot(t, k) = h
          /\ k <= Len(obj[t]) \/ pc[t] \in OwnerPC
    BY HasSlot
  <2>2. <<t, k>> \in used /\ f[<<t, k>>] = h
    BY <2>1
  <2> QED
    BY <2>2
<1>4. IsFiniteSet(Taken) /\ Cardinality(Taken) <= Cardinality(T)
  BY <1>2, <1>3, FS_Subset
<1>5. /\ Cardinality(Taken) \in Nat /\ Cardinality(T) \in Nat
      /\ Cardinality(used) \in Nat
  BY <1>2, <1>4, FS_CardinalityType
<1> QED
  BY <1>2, <1>4, <1>5

LEMMA SlotCount ==
  ASSUME IsFiniteSet(Threads)
  PROVE  IsFiniteSet(Slots) /\ Cardinality(Slots) = Demand /\ Demand \in Nat
<1>1. Iter \in Nat /\ IsFiniteSet(1 .. Iter) /\ Cardinality(1 .. Iter) = Iter
  BY IterAssumption, FS_Interval DEF IterAssumption
<1>2. Cardinality(Threads) \in Nat
  BY FS_CardinalityType
<1> QED
  BY <1>1, <1>2, FS_Product DEF Slots, Demand

\* All together have at most what their arrays hold, and one less while a call
\* has no object yet.
LEMMA TakenIsBounded ==
  ASSUME WorkerInv, RoomInv, IsFiniteSet(Threads)
  PROVE  /\ IsFiniteSet(Taken) /\ Cardinality(Taken) \in Nat
         /\ Cardinality(Taken) <= Demand
         /\ \A t \in Threads :
              pc[t] # "idle" /\ pc[t] \notin OwnerPC => Cardinality(Taken) < Demand
<1>1. /\ IsFiniteSet(Taken) /\ Cardinality(Taken) \in Nat
      /\ Cardinality(Taken) <= Demand
  BY Fits, SlotCount DEF Slots
<1>2. ASSUME NEW t \in Threads, pc[t] # "idle", pc[t] \notin OwnerPC
      PROVE  Cardinality(Taken) < Demand
  <2> DEFINE used == Slots \ {<<t, Iter>>}
  <2>1. <<t, Iter>> \in Slots
    BY Lengths DEF Slots
  <2>2. IsFiniteSet(used) /\ Cardinality(used) = Demand - 1
    BY <2>1, SlotCount, FS_RemoveElement
  <2>3. ASSUME NEW u \in Threads, NEW k \in 1 .. Iter,
               k <= Len(obj[u]) \/ pc[u] \in OwnerPC
        PROVE  <<u, k>> \in used
    <3>1. u = t => k # Iter
      BY <1>2, <2>3, Lengths DEF RoomInv
    <3> QED
      BY <3>1 DEF Slots
  <2>4. Cardinality(Taken) <= Cardinality(used)
    BY <2>2, <2>3, Fits
  <2> QED
    BY <1>1, <2>2, <2>4, SlotCount
<1> QED
  BY <1>1, <1>2

\* A step of t that leaves the others' arrays alone.
LEMMA OneRoom ==
  ASSUME WorkerInv, RoomInv, NEW t \in Threads, ThreadNext(t),
         NEW s, NEW p,
         obj' = [obj EXCEPT ![t] = s], phase' = [phase EXCEPT ![t] = p],
         Len(s) <= Iter, p = "get" \/ pc'[t] # "idle" => Len(s) < Iter
  PROVE  RoomInv'
<1>1. /\ \A u \in Threads : u # t => obj'[u] = obj[u] /\ phase'[u] = phase[u]
      /\ obj'[t] = s /\ phase'[t] = p
  BY DEF WorkerInv, ArrayInv
<1>2. \A u \in Threads : u # t => pc'[u] = pc[u]
  BY ThreadFrame DEF WorkerInv, PoolInv
<1> QED
  BY <1>1, <1>2 DEF RoomInv

LEMMA RoomStep ==
  ASSUME WorkerInv, RoomInv, NextWorkers
  PROVE  RoomInv'
<1> USE DEF RoomInv
<1>1. ASSUME NEW t \in Threads, InCall(t) \/ StartGet(t) PROVE RoomInv'
  <2>1. UNCHANGED <<obj, phase>>
    BY <1>1 DEF InCall, StartGet
  <2>2. \A u \in Threads : u # t => pc'[u] = pc[u]
    BY <1>1, WorkerIsThread, ThreadFrame DEF Worker, WorkerInv, PoolInv
  <2>3. phase[t] = "get" \/ pc[t] # "idle"
    BY <1>1, ClearedIsNew DEF StartGet
  <2> QED
    BY <2>1, <2>2, <2>3
<1>2. ASSUME NEW t \in Threads, EndGet(t) PROVE RoomInv'
  <2> DEFINE s == Append(obj[t], ChunkHead2Ptr(head[t]))
  <2>1. /\ pc[t] # "idle" /\ pc'[t] = "idle" /\ ThreadNext(t)
        /\ obj' = [obj EXCEPT ![t] = s]
        /\ phase' = [phase EXCEPT ![t] = "fill"]
    BY <1>2 DEF EndGet, GetReturn, Go, ThreadNext, GetStep, WorkerInv,
                PoolInv, TypeOK, Users
  <2>2. Len(s) = Len(obj[t]) + 1
    BY DEF WorkerInv, ArrayInv, ArrayOK
  <2>3. Len(s) <= Iter
    BY <2>1, <2>2, Lengths
  <2> HIDE DEF s, RoomInv
  <2> QED
    BY <2>1, <2>3, OneRoom
<1>3. ASSUME NEW t \in Threads, Fill(t) PROVE RoomInv'
  <2> DEFINE p == IF Len(obj[t]) = Iter THEN "put" ELSE "get"
  <2>1. /\ pc[t] = "idle" /\ pc' = pc /\ obj' = obj /\ ThreadNext(t)
        /\ phase' = [phase EXCEPT ![t] = p]
    BY <1>3 DEF Fill, UserWrite, ThreadNext
  <2>2. obj' = [obj EXCEPT ![t] = obj[t]]
    BY <2>1 DEF WorkerInv, ArrayInv
  <2>3. p = "get" => Len(obj[t]) < Iter
    BY Lengths
  <2> QED
    BY <2>1, <2>2, <2>3, OneRoom
<1>4. ASSUME NEW t \in Threads, StartPut(t) PROVE RoomInv'
  <2> DEFINE s == Tail(obj[t])
             p == IF Len(obj[t]) = 1 THEN "get" ELSE "put"
  <2>1. /\ obj' = [obj EXCEPT ![t] = s]
        /\ phase' = [phase EXCEPT ![t] = p]
        /\ ThreadNext(t)
    BY <1>4, WorkerIsThread DEF StartPut, Worker
  <2>2. Len(s) = Len(obj[t]) - 1
    BY <1>4, StartPutsOwn DEF WorkerInv, ArrayInv, ArrayOK
  <2>3. Len(s) < Iter /\ Len(s) <= Iter
    BY <2>2, Lengths
  <2> HIDE DEF s, p, RoomInv
  <2> QED
    BY <2>1, <2>3, OneRoom
<1>5. ASSUME NEW m \in Monitors, Monitoring(m) PROVE RoomInv'
  <2>1. UNCHANGED <<obj, phase>> /\ \A u \in Threads : pc'[u] = pc[u]
    BY <1>5, MonitorKeeps DEF Monitoring, WorkerInv
  <2> QED
    BY <2>1
<1> QED
  BY <1>1, <1>2, <1>3, <1>4, <1>5 DEF NextWorkers, Worker

\* mem_get counts a chunk as hot that was out of the pool already.
LEMMA CountFits ==
  ASSUME WorkerInv, RoomInv, WorkingSet, IsFiniteSet(Threads),
         NEW t \in Threads, GetCount(t)
  PROVE  WorkingSet'
<1>1. /\ pool'.max_alloc = MaxOf(pool.max_alloc, pool.hot_count + 1)
      /\ pool'.max_stdalloc = pool.max_stdalloc /\ pc[t] = "get_count"
  BY DEF GetCount, Go, WorkerInv, PoolInv, TypeOK, PoolRecord
<1>2. /\ pool.hot_count = Cardinality(in_use) /\ IsFiniteSet(in_use)
      /\ Cardinality(in_use) \in Nat /\ pool.max_alloc \in Int
  BY Counted, CounterTypes DEF WorkerInv, PoolInv
<1>3. head[t] \notin in_use
  BY <1>1 DEF WorkerInv, PoolInv, PlaceInv, Linking, LinkPC
<1>4. in_use \cup {head[t]} \subseteq Taken
  BY <1>1 DEF Taken, Counting
<1>5. Cardinality(in_use \cup {head[t]}) = Cardinality(in_use) + 1
  BY <1>2, <1>3, FS_AddElement
<1>6. /\ Cardinality(in_use \cup {head[t]}) <= Cardinality(Taken)
      /\ Cardinality(Taken) <= Demand
      /\ Cardinality(Taken) \in Nat /\ Demand \in Nat
  BY <1>4, TakenIsBounded, SlotCount, FS_Subset
<1>7. pool.hot_count + 1 <= Demand
  BY <1>2, <1>5, <1>6
<1> QED
  BY <1>1, <1>2, <1>6, <1>7 DEF WorkingSet, Demand, MaxOf

\* mem_get goes to the heap while the slab is out and it has no object yet.
LEMMA MissFits ==
  ASSUME WorkerInv, RoomInv, WorkingSet, IsFiniteSet(Threads),
         NEW t \in Threads, GetMiss(t)
  PROVE  WorkingSet'
<1>1. /\ pool'.max_stdalloc = MaxOf(pool.max_stdalloc, pool.curr_stdalloc + 1)
      /\ pool'.max_alloc = pool.max_alloc
      /\ pc[t] = "get_take" /\ pool.cold_count = 0
  BY DEF GetMiss, Go, WorkerInv, PoolInv, TypeOK, PoolRecord
<1>2. /\ Cardinality(in_use) = Count /\ IsFiniteSet(in_use) /\ Count \in Nat
  BY <1>1, Counted DEF WorkerInv, PoolInv
<1>3. pool.curr_stdalloc = Cardinality(heap) /\ IsFiniteSet(heap)
  BY <1>1, OneFaulting
  DEF WorkerInv, OwnerInv, HeapInv, PoolInv, CriticalPC
<1>4. in_use \cap heap = {} /\ in_use \cup heap \subseteq Taken
  BY HeadFacts DEF Taken, WorkerInv, PoolInv, TypeOK
<1>5. /\ Cardinality(in_use \cup heap) = Count + Cardinality(heap)
      /\ Cardinality(heap) \in Nat
  <2>1. Cardinality(in_use \cap heap) = 0
    BY <1>4, FS_EmptySet
  <2>2. Cardinality(in_use \cup heap)
          = Cardinality(in_use) + Cardinality(heap) - Cardinality(in_use \cap heap)
    BY <1>2, <1>3, FS_Union
  <2> QED
    BY <1>2, <1>3, <2>1, <2>2, FS_CardinalityType
<1>6. /\ Cardinality(in_use \cup heap) <= Cardinality(Taken)
      /\ Cardinality(Taken) < Demand
      /\ Cardinality(Taken) \in Nat /\ Demand \in Nat
  BY <1>1, <1>4, TakenIsBounded, SlotCount, FS_Subset DEF OwnerPC
<1>7. Count + (pool.curr_stdalloc + 1) <= Demand
  BY <1>2, <1>3, <1>5, <1>6
<1>8. pool.max_stdalloc \in Int /\ pool.curr_stdalloc \in Int
  BY CounterTypes DEF WorkerInv, PoolInv
<1> QED
  BY <1>1, <1>2, <1>6, <1>7, <1>8 DEF WorkingSet, Demand, MaxOf

LEMMA WorkingSetStep ==
  ASSUME WorkerInv, RoomInv, WorkingSet, IsFiniteSet(Threads), NextWorkers
  PROVE  WorkingSet'
<1>1. ASSUME NEW t \in Threads, GetCount(t) \/ GetMiss(t) PROVE WorkingSet'
  BY <1>1, CountFits, MissFits
<1>2. ASSUME pool'.max_alloc = pool.max_alloc,
             pool'.max_stdalloc = pool.max_stdalloc
      PROVE  WorkingSet'
  BY <1>2 DEF WorkingSet
<1>3. ASSUME NEW t \in Threads,
             \/ GetCall(t) \/ GetLock(t) \/ GetTake(t) \/ GetUnlock(t)
             \/ GetCrash(t) \/ GetZero(t) \/ GetReturn(t) \/ UserWrite(t)
             \/ PutCall(t) \/ PutLock(t) \/ PutFreed(t) \/ PutCount(t)
             \/ PutLink(t) \/ PutElsewhere(t) \/ PutUnlock(t)
      PROVE  WorkingSet'
  <2>1. /\ pool'.max_alloc = pool.max_alloc
        /\ pool'.max_stdalloc = pool.max_stdalloc
    BY <1>3
    DEF GetCall, GetLock, GetTake, GetUnlock, GetCrash, GetZero, GetReturn,
        UserWrite, PutCall, PutLock, PutFreed, PutCount, PutLink,
        PutElsewhere, PutUnlock, WorkerInv, PoolInv, TypeOK, PoolRecord
  <2> QED
    BY <1>2, <2>1
<1>4. ASSUME NEW m \in Monitors, MonitorLock(m) \/ MonitorStep(m)
      PROVE  WorkingSet'
  BY <1>2, <1>4, MonitorKeeps DEF WorkerInv
<1> QED
  BY <1>1, <1>3, <1>4, OwnWorkers
  DEF OwnNext, OwnStep, PutsOwn, GetStep, PutStep

-----------------------------------------------------------------------------
(* The theorems *)

\* The rules of the pool, the arrays and what is in the objects hold together:
\* the workers keep to the rules because their arrays say what they hold, and
\* the arrays are right because nobody else is lent what is in them.
THEOREM WorkersInvariance == SpecWorkers => []WorkerInv
<1>1. InitWorkers => WorkerInv
  <2> SUFFICES ASSUME InitWorkers PROVE WorkerInv
    OBVIOUS
  <2>1. /\ Init
        /\ obj = [t \in Threads |-> <<>>] /\ phase = [t \in Threads |-> "get"]
        /\ \A t \in Threads : held[t] = {}
    BY DEF InitWorkers, Init
  <2>2. ArrayInv
    BY <2>1 DEF ArrayInv, ArrayOK, IsInjective, Range
  <2>3. ContentsKept
    BY <2>1 DEF ContentsKept
  <2> QED
    BY <2>1, <2>2, <2>3, InitInv, OwnerInit DEF WorkerInv
<1>2. ASSUME WorkerInv, NextWorkers PROVE WorkerInv'
  <2>1. PoolInv'
    <3>1. Next
      BY <1>2, WorkerIsThread DEF NextWorkers, Monitoring, Next
    <3> QED
      BY <1>2, <3>1, TypeStep, LockStep, HeadStep, SlabStep, AliveStep
      DEF WorkerInv, PoolInv
  <2>2. OwnerInv'
    BY <1>2, OwnWorkers, OwnerStep DEF WorkerInv
  <2>3. ArrayInv' /\ ContentsKept'
    BY <1>2, CallArrays, EndGetArrays, FillArrays, StartPutArrays,
       MonitorArrays
    DEF NextWorkers, Worker
  <2> QED
    BY <2>1, <2>2, <2>3 DEF WorkerInv
<1>3. ASSUME WorkerInv, UNCHANGED workerVars PROVE WorkerInv'
  <2>1. UNCHANGED <<vars, obj, phase, pc, held, dirty>>
    BY <1>3 DEF workerVars, vars, memory
  <2>2. ArrayInv' /\ ContentsKept'
    BY <1>3, <2>1 DEF WorkerInv, ArrayInv, ArrayOK, ContentsKept
  <2> QED
    BY <1>3, <2>1, <2>2, StutterInv, OwnerStutter DEF WorkerInv
<1> QED
  BY <1>1, <1>2, <1>3, PTL DEF SpecWorkers

\* Whatever a worker puts is in use or allocated when mem_put looks at it, in
\* every round (check.c:63-75, mem-pool.c:215-218).
THEOREM NeverFreed == SpecWorkers => []NoFreedPut
<1>1. WorkerInv => NoFreedPut
  BY PutChecks DEF NoFreedPut, WorkerInv, OwnerInv
<1> QED
  BY <1>1, WorkersInvariance, PTL

\* What a worker wrote stays until it puts the object (check.c:64-67,
\* mem-pool.c:81-84).
THEOREM ContentsStay == SpecWorkers => []ContentsKept
<1>1. WorkerInv => ContentsKept
  BY DEF WorkerInv
<1> QED
  BY <1>1, WorkersInvariance, PTL

\* The pool the workers share is the object pool ObjectPool describes.
THEOREM WorkersRefine == SpecWorkers => ImplementsObjectPool
<1>1. InitWorkers => Abstract!Init
  BY NothingLent DEF Abstract!Init, InitWorkers
<1>2. ASSUME WorkerInv, [NextWorkers]_workerVars PROVE [Abstract!Next]_Lent
  <2>1. [OwnNext]_vars
    BY <1>2, OwnWorkers DEF workerVars
  <2> QED
    BY <1>2, <2>1, StepRefines DEF WorkerInv
<1> QED
  BY <1>1, <1>2, WorkersInvariance, PTL
  DEF SpecWorkers, ImplementsObjectPool, Abstract!Spec

\* The maxima of the pool never pass what the arrays of all workers hold
\* together (check.c:60-79, mem-pool.c:116-117, 143-144).
THEOREM Demands ==
  ASSUME IsFiniteSet(Threads)
  PROVE  SpecWorkers => []WorkingSet
<1>1. InitWorkers => RoomInv /\ WorkingSet
  <2> SUFFICES ASSUME InitWorkers PROVE RoomInv /\ WorkingSet
    OBVIOUS
  <2>1. /\ \A t \in Threads : obj[t] = <<>>
        /\ pool.max_alloc = 0 /\ pool.max_stdalloc = 0
    BY DEF InitWorkers, Init
  <2>2. RoomInv
    BY <2>1, IterAssumption DEF RoomInv, IterAssumption
  <2>3. Demand \in Nat /\ Count \in Nat
    BY SlotCount, LayoutAssumption DEF LayoutAssumption
  <2>4. WorkingSet
    BY <2>1, <2>3 DEF WorkingSet, Demand
  <2> QED
    BY <2>2, <2>4
<1>2. WorkerInv /\ RoomInv /\ WorkingSet /\ NextWorkers
        => RoomInv' /\ WorkingSet'
  BY RoomStep, WorkingSetStep
<1>3. RoomInv /\ WorkingSet /\ UNCHANGED workerVars => RoomInv' /\ WorkingSet'
  BY DEF workerVars, vars, RoomInv, WorkingSet
<1> QED
  BY <1>1, <1>2, <1>3, WorkersInvariance, PTL DEF SpecWorkers
=============================================================================
