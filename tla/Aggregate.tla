------------------------------ MODULE Aggregate ------------------------------
(***************************************************************************)
(* The driver client-perf-test/aggregate.c.  It copies a test binary to    *)
(* client_cnt servers, runs it there, copies the measured times back and   *)
(* averages them.  Each of the three phases forks one child per server and *)
(* waits for the children; nobody looks at a fork that failed or at the    *)
(* status of the command a child ran.  aggregate-read.c and                *)
(* aggregate-write.c of glapi-perf-test do the same with MaxClients        *)
(* servers.  What the binary does on a server is the subject of ClientRun. *)
(***************************************************************************)
EXTENDS Integers, Processes

CONSTANTS
  MaxClients,    \* the length of server_list, 16
  Before,        \* the time files an earlier run left, per client
  ForkFails,     \* may fork fail?
  CommandFails   \* may scp or ssh fail?

Clients == 0 .. MaxClients - 1

ASSUME AggregateAssumption ==
  /\ MaxClients \in Nat
  /\ Before \in [Clients -> {"missing", "stale"}]
  /\ ForkFails \in BOOLEAN
  /\ CommandFails \in BOOLEAN
  /\ ForkError \notin (1 .. 3) \X Clients

\* dispatch_binary, test_aggregate_performance, performance_analysis.
DispatchPhase == 1
TestPhase == 2
FetchPhase == 3

\* The child a phase forks for a client.
Children == (1 .. 3) \X Clients

VARIABLES
  client_cnt,  \* argv[2]
  pc,          \* the loop the driver is in
  phase,       \* the function the driver is in; 4 once the times are there
  i,           \* the loop index
  pids,        \* pid_list, or pid_tmp in performance_analysis; what it
               \* holds at first is overwritten before it is read
  proc,        \* the state of every child
  binary,      \* the test binary in /tmp of each server
  measured,    \* the time file in /tmp of each server
  times,       \* ./times/<i>.time
  usecs,       \* usecs[i], what was read from it
  effective    \* the children whose command succeeded (history)

servers == <<binary, measured, times>>
driver == <<client_cnt, pc, phase, i, pids>>
vars == <<driver, proc, servers, usecs, effective>>

\* A time file is missing, left by an earlier run, truncated and not written,
\* or measured in this run by the binary that was there before or by the one
\* this run copied.
Time == {"missing", "stale", "empty", "by_old", "by_new"}

\* The global usecs starts with zeroes, as if the files were empty.
Init ==
  /\ client_cnt \in 0 .. MaxClients
  /\ pc = "fork"
  /\ phase = DispatchPhase
  /\ i = 0
  /\ pids = [c \in Clients |-> ForkError]
  /\ proc = [c \in Children |-> "none"]
  /\ binary = [c \in Clients |-> "old"]
  /\ measured = Before
  /\ times = Before
  /\ usecs = [c \in Clients |-> "empty"]
  /\ effective = {}

-----------------------------------------------------------------------------
(* The driver *)

\* pids[i] = fork(), in the parent.
Fork ==
  /\ pc = "fork"
  /\ i < client_cnt
  /\ \/ /\ pids' = [pids EXCEPT ![i] = <<phase, i>>]
        /\ proc' = [proc EXCEPT ![<<phase, i>>] = "running"]
     \/ /\ ForkFails
        /\ pids' = [pids EXCEPT ![i] = ForkError]
        /\ UNCHANGED proc
  /\ i' = i + 1
  /\ UNCHANGED <<client_cnt, pc, phase, servers, usecs, effective>>

ForkedAll ==
  /\ pc = "fork"
  /\ i = client_cnt
  /\ pc' = "wait"
  /\ i' = 0
  /\ UNCHANGED <<client_cnt, phase, pids, proc, servers, usecs, effective>>

\* Seeded fault: the loop repeats a waitpid that did not return its own pid.
WaitForOwn ==
  /\ pc = "wait"
  /\ i < client_cnt
  /\ \E c \in Reapable(proc, pids[i], Children) :
       /\ proc' = [proc EXCEPT ![c] = "reaped"]
       /\ i' = IF c = pids[i] THEN i + 1 ELSE i
  /\ UNCHANGED <<client_cnt, pc, phase, pids, servers, usecs, effective>>

\* waitpid(pids[i], &status, 0).
Wait ==
  /\ pc = "wait"
  /\ i < client_cnt
  /\ \/ \E c \in Reapable(proc, pids[i], Children) :
          proc' = [proc EXCEPT ![c] = "reaped"]
     \/ /\ NothingToReap(proc, pids[i], Children)
        /\ UNCHANGED proc
  /\ i' = i + 1
  /\ UNCHANGED <<client_cnt, pc, phase, pids, servers, usecs, effective>>

\* Seeded fault: the loop ends before the last client.
WaitedButLast ==
  /\ pc = "wait"
  /\ i + 1 >= client_cnt
  /\ phase' = phase + 1
  /\ pc' = IF phase = FetchPhase THEN "read" ELSE "fork"
  /\ i' = 0
  /\ UNCHANGED <<client_cnt, pids, proc, servers, usecs, effective>>

WaitedAll ==
  /\ pc = "wait"
  /\ i = client_cnt
  /\ phase' = phase + 1
  /\ pc' = IF phase = FetchPhase THEN "read" ELSE "fork"
  /\ i' = 0
  /\ UNCHANGED <<client_cnt, pids, proc, servers, usecs, effective>>

\* fscanf into usecs[i], which an empty file leaves at 0.
ReadTime ==
  /\ pc = "read"
  /\ i < client_cnt
  /\ times[i] # "missing"
  /\ usecs' = [usecs EXCEPT ![i] = times[i]]
  /\ i' = i + 1
  /\ UNCHANGED <<client_cnt, pc, phase, pids, proc, servers, effective>>

\* Without the file the driver exits with errno, and a driver of glapi-perf-test
\* hands the NULL to fscanf.
MissingTime ==
  /\ pc = "read"
  /\ i < client_cnt
  /\ times[i] = "missing"
  /\ pc' \in {"died", "crashed"}
  /\ UNCHANGED <<client_cnt, phase, i, pids, proc, servers, usecs, effective>>

\* avg_time /= client_cnt, which traps when there are no clients.
Average ==
  /\ pc = "read"
  /\ i = client_cnt
  /\ pc' = IF client_cnt = 0 THEN "crashed" ELSE "done"
  /\ UNCHANGED <<client_cnt, phase, i, pids, proc, servers, usecs, effective>>

Driver ==
  Fork \/ ForkedAll \/ Wait \/ WaitedAll \/ ReadTime \/ MissingTime \/ Average

-----------------------------------------------------------------------------
(* The children: system(command), then exit(0) *)

Exits(c) ==
  /\ proc[c] = "running"
  /\ proc' = [proc EXCEPT ![c] = "zombie"]
  /\ UNCHANGED <<driver, usecs>>

Succeeds(c) == Exits(c) /\ effective' = effective \cup {c}

\* scp ./<mode> tstore<i>:/tmp/<mode>.
Dispatch(n) ==
  /\ Succeeds(<<DispatchPhase, n>>)
  /\ binary' = [binary EXCEPT ![n] = "new"]
  /\ UNCHANGED <<measured, times>>

\* The binary truncates /tmp/<mode>.time and writes its time.
TimeBy(b) == IF b = "new" THEN "by_new" ELSE "by_old"

\* ssh tstore<i> /tmp/<mode> ...
Test(n) ==
  /\ Succeeds(<<TestPhase, n>>)
  /\ measured' = [measured EXCEPT ![n] = TimeBy(binary[n])]
  /\ UNCHANGED <<binary, times>>

\* Seeded fault: the time file is copied under the name of the next client.
FetchShifted(n) ==
  /\ measured[n] # "missing"
  /\ Succeeds(<<FetchPhase, n>>)
  /\ times' = [times EXCEPT ![(n + 1) % MaxClients] = measured[n]]
  /\ UNCHANGED <<binary, measured>>

\* scp tstore<i>:/tmp/<mode>.time ./times/<i>.time.
Fetch(n) ==
  /\ measured[n] # "missing"
  /\ Succeeds(<<FetchPhase, n>>)
  /\ times' = [times EXCEPT ![n] = measured[n]]
  /\ UNCHANGED <<binary, measured>>

\* A binary that was copied only in part counts as an old one whose test fails.
DispatchFails(n) ==
  /\ CommandFails
  /\ Exits(<<DispatchPhase, n>>)
  /\ UNCHANGED <<servers, effective>>

\* The binary did not run, left its file truncated, or goes on after its ssh and
\* may be through by the time the file is fetched.
TestFails(n) ==
  /\ CommandFails
  /\ Exits(<<TestPhase, n>>)
  /\ measured' \in {measured, [measured EXCEPT ![n] = "empty"],
                  [measured EXCEPT ![n] = TimeBy(binary[n])]}
  /\ UNCHANGED <<binary, times, effective>>

\* There is nothing to copy, or a copy that broke off.
FetchFails(n) ==
  /\ CommandFails \/ measured[n] = "missing"
  /\ Exits(<<FetchPhase, n>>)
  /\ times' \in {times, [times EXCEPT ![n] = "empty"]}
  /\ UNCHANGED <<binary, measured, effective>>

Child(n) ==
  \/ Dispatch(n) \/ Test(n) \/ Fetch(n)
  \/ DispatchFails(n) \/ TestFails(n) \/ FetchFails(n)

Next == Driver \/ \E n \in Clients : Child(n)

Spec == Init /\ [][Next]_vars

\* The driver and every child run; a command ends.
FairSpec == Spec /\ WF_vars(Driver) /\ \A n \in Clients : WF_vars(Child(n))

-----------------------------------------------------------------------------
(* Properties *)

TypeOK ==
  /\ client_cnt \in 0 .. MaxClients
  /\ pc \in {"fork", "wait", "read", "done", "died", "crashed"}
  /\ phase \in 1 .. 4
  /\ i \in 0 .. client_cnt
  /\ pids \in [Clients -> Children \cup {ForkError}]
  /\ proc \in [Children -> ProcessState]
  /\ binary \in [Clients -> {"old", "new"}]
  /\ measured \in [Clients -> Time]
  /\ times \in [Clients -> Time]
  /\ usecs \in [Clients -> Time]
  /\ effective \subseteq Children

\* A client whose three commands succeeded enters the average with the time
\* that this run's binary measured in this run, whatever fails for the other
\* clients (aggregate.c:20-30, 40-51, 62-84).
ClientMeasured ==
  pc = "done" =>
    \A n \in 0 .. client_cnt - 1 :
      (1 .. 3) \X {n} \subseteq effective => usecs[n] = "by_new"

\* The driver gives up only without clients, which traps after all the phases,
\* or because a client's time was not fetched and no earlier file is there
\* (aggregate.c:76-81, 90, glapi-perf-test/aggregate-read.c:76-77).
GivesUpForCause ==
  pc \in {"died", "crashed"} =>
    \/ client_cnt = 0 /\ pc = "crashed"
    \/ \E n \in 0 .. client_cnt - 1 :
         <<FetchPhase, n>> \notin effective /\ times[n] = "missing"

\* The driver ends: a fork that failed makes it wait for any child, and a
\* child that was reaped that way does not block it (aggregate.c:29-30).
Ends == <>(pc \in {"done", "died", "crashed"})

Barrier ==
  INSTANCE PhaseBarrier WITH
    Jobs <- [p \in 1 .. 3 |-> {p} \X Clients],
    running <- {c \in Children : proc[c] = "running"}

\* No phase begins while a child of an earlier phase runs, failed forks
\* included: the copy is complete before the test, the test before the fetch,
\* and the fetch before the average (aggregate.c:29-30, 50-51, 71-72).
ImplementsPhaseBarrier == Barrier!Spec
=============================================================================
