------------------------------ MODULE MemPool ------------------------------
(***************************************************************************)
(* The object pool of platform-test/mem-pool.c as concurrent threads use   *)
(* it.  A thread runs mem_get, mem_get0 and mem_put; each call takes       *)
(* pool->lock, changes struct mem_pool and the bookkeeping words of one    *)
(* chunk, and releases the lock.  A monitor (monitor_mem_pool in           *)
(* platform-test/check.c) takes the same lock to print the counters.       *)
(*                                                                         *)
(* The steps inside a critical section are separate actions, so an         *)
(* intermediate state is visible to whoever does not take the lock.        *)
(***************************************************************************)
EXTENDS MemPoolLayout, Sequences, FiniteSets, Functions

CONSTANTS
  Threads,       \* the callers of mem_get0 and mem_put
  Monitors,      \* the threads that run monitor_mem_pool
  StrayPutters,  \* callers that may also mem_put a chunk they do not hold
  NoThread,      \* "the lock is free"
  CallocFails,   \* may calloc return NULL when the slab is exhausted?
  MaxHeld,       \* bound: objects a thread asks for before giving some back
  MaxAllocs      \* bound: no call to mem_get is started past this many

ASSUME ThreadsAssumption ==
  /\ StrayPutters \subseteq Threads
  /\ Threads \cap Monitors = {}
  /\ NoThread \notin Threads \cup Monitors
  /\ CallocFails \in BOOLEAN
  /\ MaxHeld \in Nat
  /\ MaxAllocs \in Nat

\* struct mem_pool: the free list and the counters.
PoolRecord == [list          : Seq(Chunks),
               hot_count     : Int,
               cold_count    : Int,
               alloc_count   : Nat,
               pool_misses   : Nat,
               max_alloc     : Int,
               curr_stdalloc : Int,
               max_stdalloc  : Int]

VARIABLES
  pool,    \* struct mem_pool
  in_use,  \* the chunks whose in_use word is 1
  header,  \* the heads whose mem_pool * word names this pool
  dirty,   \* the heads whose object holds bytes other than zero
  heap,    \* the heap blocks that are allocated
  lock,    \* the holder of pool->lock
  pc,      \* where each thread is in the function it runs
  head,    \* the chunk head a call works on (its locals list, ptr, head)
  held,    \* the objects each thread got and has not put back
  snap,    \* the counters monitor_mem_pool printed since it took the lock
  alive    \* FALSE once the process died (abort, or a write through NULL)

memory == <<in_use, header, dirty, heap>>
vars == <<pool, memory, lock, pc, head, held, snap, alive>>

Users == Threads \cup Monitors

MaxOf(a, b) == IF a < b THEN b ELSE a

Go(t, from, to) ==
  /\ pc[t] = from
  /\ pc' = [pc EXCEPT ![t] = to]

\* LOCK and UNLOCK of locking.h, a spin lock in the build of the Makefile.
Acquire(t, from, to) ==
  /\ lock = NoThread
  /\ lock' = t
  /\ Go(t, from, to)

Release(t, from, to) ==
  /\ lock' = NoThread
  /\ Go(t, from, to)

\* Seeded fault: mem_pool_new forgets to link the last chunk.
InitShortList ==
  [i \in 1 .. Count - 1 |-> Chunk(i - 1)]

\* The free list mem_pool_new_fn builds with list_add_tail, in address order.
InitList == [i \in 1 .. Count |-> Chunk(i - 1)]

NothingPrinted == [hot |-> 0, cold |-> 0, alloc |-> 0, max |-> 0]

\* calloc clears the slab: no chunk is in use, no header names a pool.
Init ==
  /\ pool = [list          |-> InitList,
             hot_count     |-> 0,
             cold_count    |-> Count,
             alloc_count   |-> 0,
             pool_misses   |-> 0,
             max_alloc     |-> 0,
             curr_stdalloc |-> 0,
             max_stdalloc  |-> 0]
  /\ in_use = {}
  /\ header = {}
  /\ dirty = {}
  /\ heap = {}
  /\ lock = NoThread
  /\ pc = [t \in Users |-> "idle"]
  /\ head = [t \in Threads |-> NULL]
  /\ held = [t \in Threads |-> {}]
  /\ snap = NothingPrinted
  /\ alive = TRUE

-----------------------------------------------------------------------------
(* mem_get and mem_get0 *)

\* The call, up to LOCK.
GetCall(t) ==
  /\ Cardinality(held[t]) < MaxHeld
  /\ pool.alloc_count < MaxAllocs
  /\ Go(t, "idle", "get_lock")
  /\ UNCHANGED <<pool, memory, lock, head, held, snap, alive>>

GetLock(t) ==
  /\ Acquire(t, "get_lock", "get_take")
  /\ UNCHANGED <<pool, memory, head, held, snap, alive>>

\* Seeded fault: the chunk is used but stays linked.
GetTakeLinked(t) ==
  /\ pool.cold_count # 0
  /\ Go(t, "get_take", "get_count")
  /\ head' = [head EXCEPT ![t] = Head(pool.list)]
  /\ pool' = [pool EXCEPT !.alloc_count = @ + 1]
  /\ UNCHANGED <<memory, lock, held, snap, alive>>

\* Chunks are left: unlink the first one.
GetTake(t) ==
  /\ pool.cold_count # 0
  /\ Go(t, "get_take", "get_count")
  /\ head' = [head EXCEPT ![t] = Head(pool.list)]
  /\ pool' = [pool EXCEPT !.alloc_count = @ + 1, !.list = Tail(@)]
  /\ UNCHANGED <<memory, lock, held, snap, alive>>

\* Seeded fault: max_alloc is compared with hot_count before it is raised.
GetCountLate(t) ==
  /\ Go(t, "get_count", "get_fwd")
  /\ pool' = [pool EXCEPT !.hot_count = @ + 1,
                          !.cold_count = @ - 1,
                          !.max_alloc = MaxOf(@, pool.hot_count)]
  /\ in_use' = in_use \cup {head[t]}
  /\ UNCHANGED <<header, dirty, heap, lock, head, held, snap, alive>>

\* Count the chunk as hot and mark it in use.
GetCount(t) ==
  /\ Go(t, "get_count", "get_fwd")
  /\ pool' = [pool EXCEPT !.hot_count = @ + 1,
                          !.cold_count = @ - 1,
                          !.max_alloc = MaxOf(@, pool.hot_count + 1)]
  /\ in_use' = in_use \cup {head[t]}
  /\ UNCHANGED <<header, dirty, heap, lock, head, held, snap, alive>>

\* calloc: a zeroed block that is not allocated, or NULL.
Calloc(t) ==
  \/ \E b \in HeapBlocks \ heap :
       /\ head' = [head EXCEPT ![t] = b]
       /\ heap' = heap \cup {b}
       /\ header' = header \ {b}
       /\ dirty' = dirty \ {b}
  \/ /\ CallocFails
     /\ head' = [head EXCEPT ![t] = NULL]
     /\ UNCHANGED <<header, dirty, heap>>

\* The slab is exhausted: serve the call from the heap.
GetMiss(t) ==
  /\ pool.cold_count = 0
  /\ Go(t, "get_take", "get_fwd")
  /\ pool' = [pool EXCEPT !.alloc_count = @ + 1,
                          !.pool_misses = @ + 1,
                          !.curr_stdalloc = @ + 1,
                          !.max_stdalloc = MaxOf(@, pool.curr_stdalloc + 1)]
  /\ Calloc(t)
  /\ UNCHANGED <<in_use, lock, held, snap, alive>>

\* Seeded fault: the head is converted to the object before the header is
\* written, not after.
GetUnlockConverted(t) ==
  /\ head[t] # NULL
  /\ header' = header \cup {ChunkHead2Ptr(head[t])}
  /\ \E to \in {"get_zero", "get_ret"} : Release(t, "get_fwd", to)
  /\ UNCHANGED <<pool, in_use, dirty, heap, head, held, snap, alive>>

\* fwd_addr_out: name the pool in the header, then UNLOCK.  The caller is
\* mem_get0, which goes on to memset, or the client itself.
GetUnlock(t) ==
  /\ head[t] # NULL
  /\ header' = header \cup {head[t]}
  /\ \E to \in {"get_zero", "get_ret"} : Release(t, "get_fwd", to)
  /\ UNCHANGED <<pool, in_use, dirty, heap, head, held, snap, alive>>

\* fwd_addr_out when calloc returned NULL: the store through pool_ptr faults.
GetCrash(t) ==
  /\ pc[t] = "get_fwd"
  /\ head[t] = NULL
  /\ alive' = FALSE
  /\ UNCHANGED <<pool, memory, lock, pc, head, held, snap>>

\* Seeded fault: mem_get0 tests ptr the wrong way round and clears nothing.
GetZeroNothing(t) ==
  /\ Go(t, "get_zero", "get0_ret")
  /\ UNCHANGED <<pool, memory, lock, head, held, snap, alive>>

\* mem_get0 clears the object, after the lock was released.
GetZero(t) ==
  /\ Go(t, "get_zero", "get0_ret")
  /\ dirty' = dirty \ {head[t]}
  /\ UNCHANGED <<pool, in_use, header, heap, lock, head, held, snap, alive>>

GetReturn(t) ==
  /\ Go(t, "get_ret", "idle") \/ Go(t, "get0_ret", "idle")
  /\ held' = [held EXCEPT ![t] = @ \cup {ChunkHead2Ptr(head[t])}]
  /\ head' = [head EXCEPT ![t] = NULL]
  /\ UNCHANGED <<pool, memory, lock, snap, alive>>

\* The client fills an object it holds.
UserWrite(t) ==
  /\ pc[t] = "idle"
  /\ \E ptr \in held[t] : dirty' = dirty \cup {Ptr2ChunkHead(ptr)}
  /\ UNCHANGED <<pool, in_use, header, heap, lock, pc, head, held, snap, alive>>

-----------------------------------------------------------------------------
(* mem_put *)

\* What a thread may pass to mem_put: an object it holds; a stray putter
\* also passes the object of any chunk, as a double mem_put does.
Puttable(t) ==
  held[t] \cup (IF t \in StrayPutters THEN {ChunkHead2Ptr(c) : c \in Chunks}
                                      ELSE {})

\* The call, up to LOCK: the header is read before the lock is taken.
PutCall(t) ==
  \E ptr \in Puttable(t) :
    /\ Ptr2ChunkHead(ptr) \in header
    /\ Go(t, "idle", "put_lock")
    /\ head' = [head EXCEPT ![t] = Ptr2ChunkHead(ptr)]
    /\ held' = [held EXCEPT ![t] = @ \ {ptr}]
    /\ UNCHANGED <<pool, memory, lock, snap, alive>>

\* "mem-pool mem-pool is NULL": the call returns and does nothing.
PutNoPool(t) ==
  \E ptr \in Puttable(t) :
    /\ pc[t] = "idle"
    /\ Ptr2ChunkHead(ptr) \notin header
    /\ held' = [held EXCEPT ![t] = @ \ {ptr}]
    /\ UNCHANGED <<pool, memory, lock, pc, head, snap, alive>>

PutLock(t) ==
  /\ Acquire(t, "put_lock", "put_check")
  /\ UNCHANGED <<pool, memory, head, held, snap, alive>>

Member(t) == IsMember(ChunkHead2Ptr(head[t]))

\* Seeded fault: the branch returns instead of breaking out of the switch.
PutFreedReturns(t) ==
  /\ Member(t) = 1
  /\ head[t] \notin in_use
  /\ Go(t, "put_check", "idle")
  /\ UNCHANGED <<pool, memory, lock, head, held, snap, alive>>

\* "mem-pool. mem_put called on freed ptr": break out of the switch.
PutFreed(t) ==
  /\ Member(t) = 1
  /\ head[t] \notin in_use
  /\ Go(t, "put_check", "put_unlock")
  /\ UNCHANGED <<pool, memory, lock, head, held, snap, alive>>

\* Seeded fault: the in_use word is not tested.
PutCountUntested(t) ==
  /\ Member(t) = 1
  /\ Go(t, "put_check", "put_link")
  /\ pool' = [pool EXCEPT !.hot_count = @ - 1, !.cold_count = @ + 1]
  /\ in_use' = in_use \ {head[t]}
  /\ UNCHANGED <<header, dirty, heap, lock, head, held, snap, alive>>

\* Seeded fault: the chunk is not counted as cold again.
PutCountLost(t) ==
  /\ Member(t) = 1
  /\ head[t] \in in_use
  /\ Go(t, "put_check", "put_link")
  /\ pool' = [pool EXCEPT !.hot_count = @ - 1]
  /\ in_use' = in_use \ {head[t]}
  /\ UNCHANGED <<header, dirty, heap, lock, head, held, snap, alive>>

\* A chunk in use: count it as cold and clear its in_use word.
PutCount(t) ==
  /\ Member(t) = 1
  /\ head[t] \in in_use
  /\ Go(t, "put_check", "put_link")
  /\ pool' = [pool EXCEPT !.hot_count = @ - 1, !.cold_count = @ + 1]
  /\ in_use' = in_use \ {head[t]}
  /\ UNCHANGED <<header, dirty, heap, lock, head, held, snap, alive>>

\* list_add puts the chunk at the front of the free list.
PutLink(t) ==
  /\ Go(t, "put_link", "put_unlock")
  /\ pool' = [pool EXCEPT !.list = <<head[t]>> \o @]
  /\ UNCHANGED <<memory, lock, head, held, snap, alive>>

\* Seeded fault: the heap block is freed and stays counted.
PutElsewhereUncounted(t) ==
  /\ Member(t) # 1
  /\ Go(t, "put_check", "put_unlock")
  /\ heap' = heap \ {head[t]}
  /\ UNCHANGED <<pool, in_use, header, dirty, lock, head, held, snap, alive>>

\* Seeded fault: the heap branch returns without UNLOCK.
PutElsewhereReturns(t) ==
  /\ Member(t) # 1
  /\ Go(t, "put_check", "idle")
  /\ pool' = [pool EXCEPT !.curr_stdalloc = @ - 1]
  /\ heap' = heap \ {head[t]}
  /\ UNCHANGED <<in_use, header, dirty, lock, head, held, snap, alive>>

\* Not an object of the slab: free it to the heap (0), or abort, after which
\* nothing else happens (-1).
PutElsewhere(t) ==
  /\ Member(t) # 1
  /\ Go(t, "put_check", "put_unlock")
  /\ IF Member(t) = 0
     THEN /\ pool' = [pool EXCEPT !.curr_stdalloc = @ - 1]
          /\ heap' = heap \ {head[t]}
          /\ UNCHANGED alive
     ELSE /\ alive' = FALSE
          /\ UNCHANGED <<pool, heap>>
  /\ UNCHANGED <<in_use, header, dirty, lock, head, held, snap>>

PutUnlock(t) ==
  /\ Release(t, "put_unlock", "idle")
  /\ head' = [head EXCEPT ![t] = NULL]
  /\ UNCHANGED <<pool, memory, held, snap, alive>>

-----------------------------------------------------------------------------
(* monitor_mem_pool of check.c *)

\* Seeded fault: the counters are read without the lock.
MonitorWithoutLock(m) ==
  /\ Go(m, "idle", "mon_hot")
  /\ UNCHANGED <<pool, memory, lock, head, held, snap, alive>>

MonitorLock(m) ==
  /\ Acquire(m, "idle", "mon_hot")
  /\ UNCHANGED <<pool, memory, head, held, snap, alive>>

\* The printf calls read the counters one after the other.
MonitorHot(m) ==
  /\ Go(m, "mon_hot", "mon_rest")
  /\ snap' = [snap EXCEPT !.hot = pool.hot_count]
  /\ UNCHANGED <<pool, memory, lock, head, held, alive>>

MonitorRest(m) ==
  /\ Go(m, "mon_rest", "mon_unlock")
  /\ snap' = [snap EXCEPT !.cold = pool.cold_count,
                          !.alloc = pool.alloc_count,
                          !.max = pool.max_alloc]
  /\ UNCHANGED <<pool, memory, lock, head, held, alive>>

MonitorUnlock(m) ==
  /\ Release(m, "mon_unlock", "idle")
  /\ snap' = NothingPrinted
  /\ UNCHANGED <<pool, memory, head, held, alive>>

-----------------------------------------------------------------------------
(* The specification *)

\* The steps of a call that was started.
GetStep(t) ==
  GetLock(t) \/ GetTake(t) \/ GetCount(t) \/ GetMiss(t) \/ GetUnlock(t)
    \/ GetCrash(t) \/ GetZero(t) \/ GetReturn(t)

PutStep(t) ==
  PutLock(t) \/ PutFreed(t) \/ PutCount(t) \/ PutLink(t) \/ PutElsewhere(t)
    \/ PutUnlock(t)

MonitorStep(m) == MonitorHot(m) \/ MonitorRest(m) \/ MonitorUnlock(m)

ThreadNext(t) ==
  GetCall(t) \/ GetStep(t) \/ UserWrite(t) \/ PutCall(t) \/ PutNoPool(t)
    \/ PutStep(t)

Next ==
  /\ alive
  /\ \/ \E t \in Threads : ThreadNext(t)
     \/ \E m \in Monitors : MonitorLock(m) \/ MonitorStep(m)

Spec == Init /\ [][Next]_vars

\* A thread that is inside a call keeps running; nothing makes a client start
\* a call, and the spin lock promises no turn to a waiting thread beyond weak
\* fairness.
Fairness ==
  /\ \A t \in Threads : WF_vars(alive /\ (GetStep(t) \/ PutStep(t)))
  /\ \A m \in Monitors : WF_vars(alive /\ MonitorStep(m))

FairSpec == Spec /\ Fairness

-----------------------------------------------------------------------------
(* Properties *)

GetPC == {"get_lock", "get_take", "get_count", "get_fwd", "get_zero",
          "get_ret", "get0_ret"}
PutPC == {"put_lock", "put_check", "put_link", "put_unlock"}
MonitorPC == {"mon_hot", "mon_rest", "mon_unlock"}

TypeOK ==
  /\ pool \in PoolRecord
  /\ in_use \subseteq Chunks
  /\ header \subseteq Heads
  /\ dirty \subseteq Heads
  /\ heap \subseteq HeapBlocks
  /\ lock \in Users \cup {NoThread}
  /\ pc \in [Users -> {"idle"} \cup GetPC \cup PutPC \cup MonitorPC]
  /\ head \in [Threads -> Heads \cup {NULL}]
  /\ held \in [Threads -> SUBSET {ChunkHead2Ptr(h) : h \in Heads}]
  /\ snap \in [hot : Int, cold : Int, alloc : Nat, max : Int]
  /\ alive \in BOOLEAN

FreeList == Range(pool.list)

\* Whenever the lock is free, the free list and the in_use words partition
\* the slab and both counters agree with them: mem_get may take list.next
\* whenever cold_count is not zero, and no chunk is linked twice, even when
\* a client calls mem_put twice (mem-pool.c:104, 215-222).
PoolConsistent ==
  lock = NoThread =>
    /\ IsInjective(pool.list)
    /\ FreeList \cap in_use = {}
    /\ FreeList \cup in_use = Chunks
    /\ pool.cold_count = Len(pool.list)
    /\ pool.hot_count = Cardinality(in_use)
    /\ pool.hot_count + pool.cold_count = Count

\* The head t is answerable for inside a call: obtained and not yet returned
\* to the client, or passed to mem_put and not yet given up.
OwnerPC == {"get_count", "get_fwd", "get_zero", "get_ret", "get0_ret",
            "put_lock", "put_check"}

Owns(t, h) ==
  \/ ChunkHead2Ptr(h) \in held[t]
  \/ pc[t] \in OwnerPC /\ head[t] = h

\* An object has one owner at a time, from the step that takes it off the
\* list or out of the heap to the step of mem_put that gives it up.
ExclusiveOwnership ==
  \A t, u \in Threads : t # u => \A h \in Heads : ~(Owns(t, h) /\ Owns(u, h))

\* Nothing leaks: what is marked in use or allocated has an owner, and what
\* is owned is really marked or allocated.
NoLeak ==
  \A h \in Heads :
    (\E t \in Threads : Owns(t, h)) <=>
      \/ h \in in_use \cup heap
      \/ \E t \in Threads : pc[t] = "get_count" /\ head[t] = h

\* mem_get0 returns a zeroed object although it clears it after UNLOCK
\* (mem-pool.c:81-84): nobody else can be writing to a recycled chunk.
ReturnedZeroed ==
  \A t \in Threads : pc[t] = "get0_ret" => head[t] \notin dirty

\* The statistics: every allocation is a miss or moved max_alloc at most by
\* one; the maxima bound the current values (mem-pool.c:103-144).
Watermarks ==
  /\ pool.max_alloc + pool.pool_misses <= pool.alloc_count
  /\ pool.hot_count \in 0 .. pool.max_alloc
  /\ pool.max_alloc <= Count
  /\ pool.curr_stdalloc <= pool.max_stdalloc
  /\ pool.max_stdalloc <= pool.pool_misses

\* curr_stdalloc counts the heap blocks that are allocated, whenever the lock
\* is free (mem-pool.c:142, 242).
HeapAccounted == lock = NoThread => pool.curr_stdalloc = Cardinality(heap)

\* What the monitor prints under the lock belongs to one moment: hot and cold
\* add up to the size of the slab, as in every record of check_log.
SnapshotConsistent ==
  \A m \in Monitors :
    pc[m] = "mon_unlock" =>
      /\ snap.hot + snap.cold = Count
      /\ snap.hot <= snap.max
      /\ snap.max <= snap.alloc

\* Without a failing calloc the process neither aborts in mem_put (-1 of
\* __is_member) nor faults in mem_get.
StaysAlive == ~CallocFails => alive

\* Whoever holds the lock releases it: no early break leaves it taken.
LockReleased == \A u \in Users : (lock = u) ~> (lock # u \/ ~alive)

-----------------------------------------------------------------------------
(* What the pool promises *)


Lent == [t \in Threads |-> {h \in Heads : Owns(t, h)}]

Abstract ==
  INSTANCE ObjectPool WITH Slab <- Chunks, Extra <- HeapBlocks, owned <- Lent

\* The pool lends every object to one thread at a time, and goes to the heap
\* only while every chunk of the slab is lent (mem-pool.c:104-119, 219-222).
ImplementsObjectPool == Abstract!Spec
=============================================================================
