# tstore-test: verification project

tstore-test is a collection of small C programs that test a distributed file
system and the platform under it. This directory holds TLA+ models of them, the
TLC instances that check the models, and proofs of the main results.

## The system

| component | source | state | operations |
|---|---|---|---|
| memory pool | `platform-test/mem-pool.c`, `mem-pool.h`, `locking.h` | free list of chunks, counters, in_use word and pool pointer of every chunk, one spin lock | `mem_pool_new`, `mem_get`, `mem_get0`, `mem_put` |
| simulator and monitor | `platform-test/check.c` | each worker's array of objects | `do_work`, `start_monitor`, `monitor_mem_pool` |
| intrusive list | `platform-test/list.h` | next and prev pointers | the functions from `list_add` to `list_rotate_left`, the iteration macros |
| aggregate drivers | `client-perf-test/aggregate.c`, `glapi-perf-test/aggregate-*.c` | pid arrays, files on the servers, `./times` | dispatch, test, fetch, average |
| fault-injection test | `glapi-perf-test/test.c` | coordinator and killer processes, bricks, read buffer | write and read under killing, restart, check |
| directory test | `dir-ops/client-dir-ops.c`, `client-write.c` | the tree on the mounted volume, the call stack, the descriptors that failed writes cost | `recursive_create_fn`, `cleandir` |
| parallel write | `dir-ops/parallel_write.c`, `parallel_test.sh` | jobs, files | fork, write, wait, rm |
| client programs | `client-perf-test/{read,write}.c`, `volume.h`, `glapi-perf-test/{read,write}.c` | the mounts stacked on the mountpoint, the files of the volume and of the directory below, `/tmp/<mode>.time` | mount, transfer, time file, umount |
| struct padding | `platform-test/packing.c` | none | prints sizes |

The pool uses the list for its free chunks; the simulator's threads share one
pool and meet only in its lock. The drivers interact with their children by
fork, exit and waitpid, and with other machines by ssh and scp, whose failure
nobody looks at. What is hard: the interleaving of pool calls, with work done
before the lock is taken and after it is released; addresses that alone decide
where an object belongs; pointer updates that depend on the order of the
statements; forks that fail and turn into `waitpid(-1)`; processes that outlive
the one that should wait for them; error results that are dropped; state left by
an earlier run or phase.

What makes each component correct:

- pool: an object has one owner at a time, none is lost, the counters say what
  is on the list, the lock is always released;
- list: every call does to the ring of pointers what it promises of a sequence;
- drivers: a phase begins when the previous one is over, a report is about this
  run, and the program ends;
- client programs: they work on the volume and not below the mountpoint, the
  bandwidth is about all files, the time file is this run's and about the volume,
  and which mounts stay behind is known;
- tests: what a test announces is the case.

`PROJECT.json` lists the hazards at their lines, with the properties that watch
them.

## Modules

| module | models | how state and actions correspond |
|---|---|---|
| `MemPoolLayout` | the address arithmetic of the pool | addresses are integers, `IsMember` is `__is_member`, with the modulus of `unsigned long` |
| `MemPool` | the pool under concurrent threads | `pool` is `struct mem_pool`; `in_use` and `header` are the bookkeeping words of the chunks; `pc` says where a thread is in a call. A critical section is several actions, so that its intermediate states exist. The free list is a sequence of heads |
| `ObjectPool` | what a pool promises | abstract: objects are lent and given back |
| `PoolWorkers` | `do_work`, `start_monitor` | extends `MemPool`: a worker chooses which of its calls comes next |
| `OrderedLists` | what `list.h` promises | abstract: operations on sequences |
| `ListHeap` | `list.h` | `next` and `prev` are functions on nodes; every C function is an operator on the heap with its stores in order, every legal call an action; the iteration macros are walks, the safe ones with bodies that delete or move the entry they are at |
| `Processes` | fork, exit, waitpid (external) | which child a `waitpid` may return; `ForkError` is -1 |
| `PhaseBarrier` | work in phases | abstract: the next phase begins when nothing runs |
| `Aggregate` | the three aggregate drivers | `proc` is the state of every child; a child's command and exit are one step; a time file may be missing at first (`Before`), and a command that fails may leave it empty |
| `ClientRun` | `read` and `write` of the clients and of glapi, as a driver starts them on one server | a run is one program; `mounts` is the stack on the mountpoint, `handle` says through which mount a file was opened, `timefile` whose time is in the file; a run can be killed, and an ssh connection can break, after which the driver starts the next run beside this one |
| `KillTest` | the fault-injection test | `pc` is main's, `coord` the coordinators' locals with the `pids` they overwrite, `up` the bricks that serve |
| `DirTree` | directory test and filler | the recursion is a stack of `(i, dir_cnt)`; a node is the sequence of indices on its path; `lost` counts the descriptors that are never closed, and `nftw` needs one for every level (`CanOpen`) |
| `ParallelWrite` | script and `p-write` | one sequence of control for the script and the main process it waits for, one process per job |

`MC*` modules hold the values of constants for TLC. In every module an operator
introduced by a comment "Seeded fault" is a variant of the definition after it
and belongs to no specification: replacing that definition by the variant makes
the property that `PROJECT.json` names fail, which shows that the property
depends on the code. The `*Proofs` modules hold the proofs.

Two pairs of models meet only in what they promise each other. `Aggregate` takes
of a client's program that it ends (`RunEnds`) and leaves a time file when nothing
failed (`TimeIsLatest`); `ClientRun` takes of the driver that it starts a run when
the ssh of the run before is over, which is what the phases of `PhaseBarrier` give.

Abstractions. Names, formats, times and data bytes are left out; an object is
"dirty" or zero, a file holds the data, part of it or none; in `ClientRun` also
which writer's data, because `fgets` stops at a line feed and `glfs_read` does not,
and a `glfs_write` that breaks off leaves a mixture. `nftw` removes in any order that
puts a directory after everything in it; `MaxDepth` stays below the 128 streams it
may keep open.
A system call that may fail does so nondeterministically when the constant that
allows it is TRUE (`CallocFails`, `ForkFails`, `IOFails`, in `Aggregate` also
`CommandFails`, in `ClientRun` also `Dies` and `SshBreaks`) or, in `KillTest`, at
most `MaxFaults` times. `mount_volume` returns an undefined value after a successful
mount: `Mount` takes it for 0, `MountGivesUp` for something else. The volume of
`KillTest` is external: a transfer moves all the data or, while a brick is down,
not all of it. A partial transfer is not told from none there, as every file holds
the same data and every transfer begins at its start.
History variables, which no guard but the bounds reads: `effective` (`Aggregate`),
`moved`, `faults` and `latest` (`ClientRun`), `got` (`KillTest`, a result the code
drops), `faults` (`KillTest`), `failed` (`DirTree`, `ParallelWrite`), `drawn`
(`DirTree`), `full` (`ParallelWrite`).

## Runs

| run | instance | what it shows |
|---|---|---|
| `pool_threads` | 2 threads, 1 monitor, 2 chunks, 2 heap blocks, 2 objects held, 3 allocations | ownership, no leak, zeroed objects, exact counters, consistent snapshots, refinement of `ObjectPool` |
| `pool_misuse` | as above, one thread also puts chunks it does not hold, calloc fails | the list survives a double put; the lock is released |
| `workers` | 2 workers with arrays of 2, a monitor, 3 chunks, 8 allocations, calloc fails, fairness | the heap holds only what exceeds the slab; no freed object is put, no contents are lost over rounds; every round ends |
| `lists` | 2 heads, 3 entries, two of which compare equal | every function and every safe loop implements its promise, rings stay closed |
| `aggregate` | 0 to 3 clients, each of the three drivers, failing forks and commands, time files of an earlier run or none, fairness | phases are barriers, averages are of this run, the driver gives up only for a cause (`GivesUpForCause`: no clients, or a time file that is missing because a fetch failed), and it ends |
| `client_runs` | 2 runs of any of the 4 programs, 2 files, 4 initial volumes, failures everywhere, kills, broken connections, fairness | programs work on the volume (`OnVolume`), which runs leave a mount behind (`CleanExit`), what the bandwidth is about (`TransferComplete`), whose time is in the time file and that it is about the volume (`TimeIsMeasured`: the only way out of it is a broken connection together with a reader that umounts after its own mount failed), `TimeIsLatest`, and every program, also those of glapi, ends |
| `kill_test` | 2 servers with 2 bricks, up to 2 failing forks or commands, fairness | every restart is over when main goes on (`RestartsDone`), the last killed disk of each server is up again (`LastDisksRecovered`), the test ends |
| `kill_recovered` | 2 servers with 2 bricks, nothing fails | refutes "Disk killed recovered" |
| `kill_verdict` | same | refutes "OK!" |
| `dir_trees` | both programs, depth up to 3, 1 or 2 entries, 3 descriptors, leftover of an earlier run, failures, fairness | the tree keeps its shape, is complete unless something failed, the loop exits only when something failed or the tree has more levels than descriptors are left, so iterations do not meet (`DiesOnlyOfFailure`), the recursion ends, and without descriptors the endless loop ends (`EndsWithoutDescriptors`) |
| `parallel` | 3 jobs, 2 iterations, failing forks and writes, fairness | an iteration has the directory to itself, its files are whole unless something failed; the script ends |
| `parallel_errors` | 2 jobs, failing writes | refutes "iter succeeds" |

### Bounds

Every bound is a constant of a `.cfg`. Two threads reach all conflicts over one
lock, two chunks give a list that is empty, singular and longer, and three
allocations give hits, misses and reuse of a chunk another thread put back.
`MaxHeld` and `MaxAllocs` only limit when a call is started, never what a call
does. Three list entries give empty, singular and longer lists on both of two
heads, an equal pair for the ordered insertion, and a neighbour on each side of
the middle entry. Three clients or jobs are the first number at which a
`waitpid(-1)` can take a child other than the next one; two bricks per server
are the first number at which a pid is lost. Two iterations show whatever one
leaves to the next, and two runs of client programs whatever a run finds or
overlaps; two files give a first and a last one. Three descriptors are as many as
the deepest tree has levels: every loss leaves `nftw` too few for some trees and
enough for others, down to the last. Deadlock is not checked
(`CHECK_DEADLOCK FALSE`) where the program ends, dies or reaches a bound; it is
checked in `pool_threads` and `lists`.

### Fairness

`MemPool!FairSpec` has weak fairness for the steps of a call that was started:
a thread is scheduled, and nothing makes a client start a call. It is enough for
`LockReleased`. A spin lock promises no turn to a waiting thread, so `RoundEnds`
is checked of the simulator, where strong fairness of the steps
that take the lock is justified by the code: every worker sleeps before each
`mem_put` (`check.c:70-73`) and the monitor two seconds before each round
(`check.c:105`), while a waiting thread does nothing but try.

In the drivers and the client programs every process is weakly fair: the
operating system runs it and an ssh, scp or disk command ends, which the
programs themselves rely on (they have no timeouts). No property assumes that a
particular outcome of a failing call is chosen.

### What the runs found

1. `DisksRecovered`: the coordinator forgets all but the last killer of a server
   (`test.c:115`, `153`), which may strike after "Disk killed recovered".
2. `VerdictOfRead`: the check passes on the buffer of the previous read.
3. `SucceedsMeansWritten`: a failed write never reaches the script's test of `$?`.

In the same way `client-dir-ops.c` prints "recursive create ok" after a subtree
or file failed, as the result of the recursive call is dropped (line 60);
`FilledUnlessFailed` is therefore stated for iterations in which nothing failed.
Each failed `fputs` there costs a descriptor for good (line 76 jumps over `fclose`),
so enough failed writes end the loop later, in an iteration in which none fails:
`nftw` keeps a directory open on every level it is in, and returns -1 when the tree
has more levels than descriptors are left.
`TimeIsMeasured` names the runs whose time is not about the volume: after a broken
ssh the next run overlaps this one, and if that is a reader whose mount fails, its
umount at `out` (`read.c:106`) may take this one's mount away; files opened from then on
are in the directory below.
`CleanExit` and `TimeIsLatest` name the runs that leave a mount or an older time
file behind while they exit with status 0 (`write.c:75`, `100-106`).

## Proofs

`MemPoolProofs` proves, for every object size, chunk count, slab address
and word size of `LayoutAssumption`, that `__is_member` recognises the objects
of the slab, excludes those of heap blocks outside it, and, as `MisalignedIsCaught`,
what it returns for any address inside: -1 for all that are no object, with one
exception. In the first header the distance to the first object is negative, and as
an `unsigned long` it may be a multiple of the padded size: with a padded size of 33
the address `Pool + 12` is a member. The argument rests on the range of a chunk, on
`(i * s) % s = 0` and its converse, and on `(-d) % w = w - d`.

It goes on to prove for any set of threads and monitors, any slab, with calls
on chunks a thread does not hold and with a failing calloc:

- `TypeCorrectness`: `Spec => []TypeOK`;
- `Consistency`: `Spec => []PoolConsistent`, the free list and the in_use words
  partition the slab and the counters agree, whenever the lock is free;
- `Survival`: `Spec => []StaysAlive`;
- `Statistics` and `Snapshots`: the maxima bound the counters, and the hot
  and cold counts the monitor prints under the lock add up to the slab.

`PoolConsistent` is not inductive: it says nothing while the lock is held. The
invariant `PoolInv` adds who may be inside a critical section (`LockInv`: only the
holder of the lock), which head a thread works on there (`HeadInv`), that the chunk
of a thread between two halves of a critical section is on neither side
(`PlaceInv`), and that each counter is off by exactly that chunk (`CountInv`). Each
is one step per action; `TypeOK` and `StaysAlive` are conjuncts because the layout
theorems apply only to heads of the right type. The assumptions are
`LayoutAssumption` and `ThreadsAssumption`, which TLC evaluates in every run of the
pool.

`AggregateProofs` proves for any number of clients the arrays have room for (`Init`
takes `client_cnt` from `0..MaxClients`, which `aggregate.c:105` does not check), with
forks and commands that may fail, `PhasesAreBarriers` (`Aggregate` implements
`PhaseBarrier`), `Measured` (`Spec => []ClientMeasured`) and `GivesUp`
(`Spec => []GivesUpForCause`). The refinement maps
the children that run to `running`; its one hard step is that no child runs when
the phase advances. `BarrierInv` makes it inductive: behind the loop index every
child of the phase is over, and ahead of it `pids` names every child that was
forked. That is why a `waitpid(-1)` after a failed fork does no harm: the child it
takes is found gone later, and no child is forgotten. `MeasureInv` adds what each
successful command of a client left behind; it needs the barrier, because the
order of the three commands of one client comes from nothing else.

`ParallelWriteProofs` proves for any number of jobs and iterations
`TypeCorrectness`, `OwnDirectory` (`[]OwnIteration`) and `Written`
(`[]WrittenUnlessFailed`) with an invariant of the same form.

`ClientRunProofs` proves for any number of runs and files, any initial volume, and
every failure, kill and broken connection `TypeCorrectness`, `WorksOnVolume`,
`Unmounts`, `Transfers`, `TimesAreMeasured` and `TimesAreLatest`. Four of the
properties speak of a world without broken connections, and their core is
`AloneInv`: while none broke, one run runs at a time, and once it has mounted its
mount is the uppermost one, whatever lies below. `umount` takes the uppermost mount,
so `MountsInv` (no run is twice on the stack) gives that a run takes its own mount
away and nobody else's, unless its mount had failed. `TimeIsMeasured` speaks of
overlapping runs too. Its core counts: as long as no reader has umounted after a
failed mount, every umount is one of a run that has mounted and is through with its
files, so there are at least as many mounts as runs that rely on one (`HoldersInv`). A
run that finds no mount below the mountpoint is itself one of those, so there was
such a reader (`StrayInv`); and while no connection broke, `AloneInv` excludes it.

`DirTreeProofs` proves for any bounds on entries, depth and descriptors
`TypeCorrectness`, `Shape` and `DiesOfFailure`. `StackInv` says that the stack of
calls spells a path of directories that exist; with it every new node has its
parent. `DiesOnlyOfFailure` says that `mkdir` in the endless loop meets no old
node: an iteration starts on an empty volume (`StartInv`), and every node of this
one lies behind the index of the outermost call, or at it while an inner call fills
that directory (`BehindInv`).

`TreeComplete` (`[]FilledUnlessFailed`) speaks of the finished tree of an iteration
only, so `FilledInv` says it of the unfinished one: a directory that a call on the
stack fills has exactly the entries its loop has come past, and any other directory
all those its call drew. When a call returns, the first of these has become the
second. It needs `DirInv`: a call makes only nodes ahead of every index, so no step
touches the entries of a directory other than the one on top.

`ListHeapProofs` proves for any finite sets of heads and entries, any keys, and
heads that are no list for a while that every call of `list.h` does on the pointers
what `OrderedLists` says of sequences: `ListsRefine` (`ImplementsOrderedLists`),
with `RingsHold` (`[]Rings`) and `QueriesHold` (`[]QueriesAgree`). The inductive
invariant `ListInv` is a representation relation, `Rep(heap, sequences, stale
heads)`: from each head that is a list, `next` spells its sequence and `prev` spells
it backwards; the sequences have no entry twice and share none; and what a stale
head points at does not point back, which is how the two kinds are told apart. One
lemma per C function gives the rings after its stores (insert, delete, replace, join
before and behind, take over, move the head), in terms of the ring alone; `Edits`
adds that the lists it does not name, and the stale heads, stay as they were. The
spots where the code is delicate are steps of these proofs: `list_replace` of an
empty head, after which the old one is stale and the new one an empty list, joining an empty list, and moving
an entry to the list it is on. The walks and the safe loops are recursive functions.
`PathEquation` and `LoopEquation` unfold them once; that they come past the whole
ring is an induction, whose step is proved for the least step at which it would fail
(`Least`, which follows from the theorems about finite sets). Pointers determine the
sequences (`ReadOff`), so the refinement needs no history.

`KillTestProofs` proves for any number of servers and bricks and any number of
failing forks and commands:

- `RestartsEnd`: `Spec => []RestartsDone`. `RestartInv` has where main is
  (`MainInv`), that a coordinator enters its loops afresh (`LoopsInv`), and
  `RestartersInv`: each restarter is kept under the index of its own server, or -1
  stands there and none was forked, so the `waitpid` of a server waits for that
  server's child, and those of the first round are over in the second.
- `LastDisksServe`: `Spec => []LastDisksRecovered`, with `CleanInv` as long as
  nothing failed. The coordinator loses the killers of a server but for the last one
  (`test.c:115`); `KillersInv` says that it does keep the last, and has reaped it
  when it exits, `CoordinatorsInv` that main reaps the coordinator before it restarts
  anything. Hence nobody is left to kill the last brick of a server after its
  restarter brought it back (`BricksInv`). The other killers have no such bound, which
  is why `DisksRecovered` is refuted by the run `kill_recovered`.

### The clients of the pool

`MemPoolClientProofs` proves, for clients that put only what they hold
(`StrayPutters = {}`), `Exclusive`, `NothingLeaks`, `Zeroed`, `HeapCounted` and
`Refinement`. `ExclusiveOwnership` and `NoLeak` become one fact: what is out of the
pool (`Taken`) is the disjoint union of what is lent to each thread (`LendInv`).
`EveryStep` shows that a step lends one free object, takes one back from the thread
it was lent to, or leaves both sides as they are, which is at once the inductive
step and the refinement of `ObjectPool`. Two facts make it go through: a thread has
not yet, or no longer, what its call works on (`OnceInv`), and the header of what it
has names the pool (`NamedInv`), without which `mem_put` would return early and leak
the object.

Its second part shows that `do_work` keeps this rule, so that the assumption
is not needed: `WorkersInvariance` adds that the array of a worker names exactly
what it holds, each object once. Neither half stands alone: the arrays are right
because nobody else is lent what is in them, and that holds because workers put
what is in their arrays. `NeverFreed`, `ContentsStay` and `WorkersRefine` follow
for any number of workers, any `Iter`, any slab and a failing calloc. `Demands`
(`[]WorkingSet`, for finitely many workers) counts: every object that is out has a
slot of its own in some array, a call that has no object yet leaves the last slot
of its worker free (`RoomInv`), so the slots bound `hot_count + 1` and the heap
blocks where the maxima are raised.

### Assumptions, and what is only model-checked

The assumptions are `LayoutAssumption`, `ThreadsAssumption`, `IterAssumption`,
`NodesAssumption`, `AggregateAssumption`, `ClientRunAssumption`, `KillTestAssumption`,
`DirTreeAssumption` and `ParallelWriteAssumption`, each evaluated by a run, and
those the theorems name.

Every invariant, refinement and action property of a passing run is a theorem. Only
model-checked is all liveness (`LockReleased`, `RoundEnds`, `RunEnds`,
`IterationEnds`, `EndsWithoutDescriptors` and the `Ends` of three modules): fairness
and ENABLED are out of the prover's reach. The three refuted properties have
counterexamples and no proof. The induction theorems of the library take an operator
as a parameter, which the provers cannot instantiate; where an induction over data
is needed (the walks of `ListHeap`), it is made by hand on the least counterexample.
No module declares a RECURSIVE operator.

## Not modelled

`packing.c` (prints sizes that the compiler computes: no state, step or input),
`size_check` and `align_check` of `check.c` (print constants; the second is disabled
in `main`), the printing and timing helpers, a pool of 2^31 chunks, whose
construction never ends, more than 16 clients of `aggregate`
(writes past the arrays, undefined behaviour). The address arithmetic of `list_entry` is left out: an
entry is its `list_head`. `mem_pool_destroy` is declared and nowhere defined.

## Plan

Done: every component with state of its own, and the theorems for every safety and
action property. What is left, in this order:

1. `MemPoolList`: the pool with its free list as a ring of `ListHeap`, refining
   `MemPool`, on the lemmas of `ListHeapProofs` about single functions.
2. `ClientRun` in place of the `Test` step of `Aggregate`, where TLC can afford the
   product.
