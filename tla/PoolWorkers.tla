---------------------------- MODULE PoolWorkers ----------------------------
(***************************************************************************)
(* The put/get simulator of platform-test/check.c: every worker runs       *)
(* do_work on one pool, filling an array with Iter objects and putting     *)
(* them back in the same order, for ever.  The pool is MemPool; a worker   *)
(* only chooses which of its calls comes next.                             *)
(***************************************************************************)
EXTENDS MemPool, SequencesExt

CONSTANT Iter   \* ITER, the objects a worker takes in a round

ASSUME IterAssumption == Iter \in Nat \ {0}

VARIABLES
  obj,    \* obj[t]: the entries of the array that hold an object, in order
  phase   \* phase[t]: the loop worker t is in

workerVars == <<vars, obj, phase>>

InitWorkers ==
  /\ Init
  /\ obj = [t \in Threads |-> <<>>]
  /\ phase = [t \in Threads |-> "get"]

\* The steps of a call that leave the worker's own variables alone; do_work
\* calls mem_get0, never mem_get.
InCall(t) ==
  /\ GetLock(t) \/ GetTake(t) \/ GetCount(t) \/ GetMiss(t) \/ GetCrash(t)
       \/ (GetUnlock(t) /\ pc'[t] = "get_zero") \/ GetZero(t) \/ PutStep(t)
  /\ UNCHANGED <<obj, phase>>

\* obj[t] = mem_get0(args->pool), begun and ended.
StartGet(t) ==
  /\ phase[t] = "get"
  /\ GetCall(t)
  /\ UNCHANGED <<obj, phase>>

EndGet(t) ==
  /\ GetReturn(t)
  /\ obj' = [obj EXCEPT ![t] = Append(@, ChunkHead2Ptr(head[t]))]
  /\ phase' = [phase EXCEPT ![t] = "fill"]

\* str[i] = rand()%26+'a' over the whole object, then the next iteration.
Fill(t) ==
  /\ phase[t] = "fill"
  /\ UserWrite(t)
  /\ dirty' = dirty \cup {Ptr2ChunkHead(Last(obj[t]))}
  /\ phase' = [phase EXCEPT ![t] = IF Len(obj[t]) = Iter THEN "put" ELSE "get"]
  /\ UNCHANGED obj

\* Seeded fault: mem_put is called with the wrong loop index.
StartPutLast(t) ==
  /\ phase[t] = "put"
  /\ PutCall(t)
  /\ ChunkHead2Ptr(head'[t]) = Last(obj[t])
  /\ obj' = [obj EXCEPT ![t] = Tail(@)]
  /\ phase' = [phase EXCEPT ![t] = IF Len(obj[t]) = 1 THEN "get" ELSE "put"]

\* nanosleep, then mem_put(obj[t]); the array slot is not read again before
\* the next round overwrites it.
StartPut(t) ==
  /\ phase[t] = "put"
  /\ PutCall(t)
  /\ ChunkHead2Ptr(head'[t]) = Head(obj[t])
  /\ obj' = [obj EXCEPT ![t] = Tail(@)]
  /\ phase' = [phase EXCEPT ![t] = IF Len(obj[t]) = 1 THEN "get" ELSE "put"]

Worker(t) ==
  \/ InCall(t) \/ StartGet(t) \/ EndGet(t) \/ Fill(t) \/ StartPut(t)

\* start_monitor: sleep, then monitor_mem_pool.
Monitoring(m) ==
  /\ MonitorLock(m) \/ MonitorStep(m)
  /\ UNCHANGED <<obj, phase>>

NextWorkers ==
  /\ alive
  /\ (\E t \in Threads : Worker(t)) \/ (\E m \in Monitors : Monitoring(m))

SpecWorkers == InitWorkers /\ [][NextWorkers]_workerVars

\* Every thread runs, and one that waits for the lock gets it at last: the
\* lock promises no turn, but all the others let go of it for long, the workers
\* in the nanosleep before each mem_put and the monitor in its sleep(2).
FairSpecWorkers ==
  /\ SpecWorkers
  /\ \A t \in Threads :
       /\ WF_workerVars(alive /\ Worker(t))
       /\ SF_workerVars(alive /\ pc[t] \in {"get_lock", "put_lock"} /\ InCall(t))
  /\ \A m \in Monitors : WF_workerVars(alive /\ Monitoring(m))

-----------------------------------------------------------------------------
(* Properties *)

\* Objects go to the heap only when the slab is full, so the heap never holds
\* more than what the arrays together need beyond it, and nothing when they
\* fit: the recorded run (check_log) has 16 workers, 4096 chunks and max_alloc
\* 1587 of 16 * 100 (mem-pool.c:102-151).
WorkingSet ==
  LET arrays == Cardinality(Threads) * Iter
  IN  /\ pool.max_alloc <= arrays
      /\ pool.max_stdalloc <= IF arrays > Count THEN arrays - Count ELSE 0

\* Over all the rounds no worker puts an object that is not in use: the
\* "freed ptr" branch of mem_put is never taken (check.c:63-75,
\* mem-pool.c:215-218).
NoFreedPut == \A t \in Threads : pc[t] = "put_check" => head[t] \in in_use \cup heap

\* What a worker wrote into an object stays until it puts the object: no other
\* worker's mem_get0 clears it (check.c:64-67, mem-pool.c:81-84).
ContentsKept ==
  \A t \in Threads : \A i \in DOMAIN obj[t] :
    (phase[t] # "fill" \/ i < Len(obj[t])) => Ptr2ChunkHead(obj[t][i]) \in dirty

\* A worker that filled its array gets through all its calls of mem_put, though
\* the others and the monitor compete for the lock for ever (check.c:69-75).
RoundEnds ==
  \A t \in Threads : (phase[t] = "put") ~> (phase[t] = "get" \/ ~ alive)
=============================================================================
