------------------------------ MODULE KillTest ------------------------------
(***************************************************************************)
(* The fault-injection test glapi-perf-test/test.c.  The main process      *)
(* writes and reads files of a volume whose bricks run on NumServers       *)
(* servers.  Twice it forks a coordinator, which forks one killer per      *)
(* brick while the main process writes (round "w") or reads (round "r");   *)
(* after each round restart_glusterd forks one process per server to bring *)
(* the bricks back.  The verdict compares the read buffer with the data.   *)
(***************************************************************************)
EXTENDS Integers, Processes

CONSTANTS
  NumServers,    \* the length of server_list
  NumBricks,     \* the length of brick_list
  MaxFaults      \* bound: forks and ssh commands that fail in a run

ServerIds == 0 .. NumServers - 1
BrickIds == 0 .. NumBricks - 1
Bricks == ServerIds \X BrickIds
Rounds == {"w", "r"}

Coordinators == {<<"coordinator", r>> : r \in Rounds}
Killers(r) == {<<"killer", r, b>> : b \in Bricks}
Restarters(r) == {<<"restart", r, s>> : s \in ServerIds}

\* main's children; a coordinator's children are its round's killers.
MainChildren == Coordinators \cup UNION {Restarters(r) : r \in Rounds}
Forked == MainChildren \cup UNION {Killers(r) : r \in Rounds}

ASSUME KillTestAssumption ==
  /\ NumServers \in Nat \ {0}
  /\ NumBricks \in Nat \ {0}
  /\ MaxFaults \in Nat
  /\ ForkError \notin Forked

VARIABLES
  pc,       \* where the main process is
  round,    \* "w" in write_file_with_process_killing and its restart, else "r"
  i,        \* the loop index of restart_glusterd
  pid,      \* the coordinator, as fork returned it
  pids,     \* the local pids of restart_glusterd
  coord,    \* coord[r]: the loops of the coordinator: pc, i, j and its pids
  proc,     \* the state of every process but main
  up,       \* the bricks that serve
  faults,   \* the forks and commands that failed so far
  stored,   \* the files that hold the data
  buffer,   \* does the read buffer hold the data?
  got,      \* did the last read return the data? (its result is not looked at)
  verdict   \* what the last "Check Correcness" line said

io == <<stored, buffer, got, verdict>>
main == <<pc, round, i, pid, pids>>
vars == <<main, coord, proc, up, faults, io>>

NoPids == [s \in ServerIds |-> ForkError]
FreshLoops == [pc |-> "fork", i |-> 0, j |-> 0, pids |-> NoPids]

\* alloc_buffer zeroes the buffer; the test starts with all bricks serving.
Init ==
  /\ pc = "write_file"
  /\ round = "w"
  /\ i = 0
  /\ pid = ForkError
  /\ pids = NoPids
  /\ coord = [r \in Rounds |-> FreshLoops]
  /\ proc = [p \in Forked |-> "none"]
  /\ up = Bricks
  /\ faults = 0
  /\ stored = {}
  /\ buffer = FALSE
  /\ got = FALSE
  /\ verdict = "none"

Go(from, to) ==
  /\ pc = from
  /\ pc' = to

-----------------------------------------------------------------------------
(* The volume, as glfs_write and glfs_read show it *)

\* All the data, or not all of it once a brick is down; with no brick nothing.
\* A transfer that stops half way shows like one that does nothing: the data are
\* the same for every file and a transfer begins at offset 0, so a part changes
\* neither a buffer that holds the data nor the verdict about one that does not.
GlfsWrite(file) ==
  /\ \/ up # {} /\ stored' = stored \cup {file}
     \/ up # Bricks /\ UNCHANGED stored
  /\ UNCHANGED <<buffer, got, verdict>>

GlfsRead(file) ==
  /\ \/ /\ up # {}
        /\ file \in stored
        /\ buffer' = TRUE
        /\ got' = TRUE
     \/ /\ up # Bricks \/ file \notin stored
        /\ got' = FALSE
        /\ UNCHANGED buffer
  /\ UNCHANGED <<stored, verdict>>

\* !memcmp(data, buffer, size) ? "OK!" : "Error!".
Check ==
  /\ verdict' = IF buffer THEN "OK!" ELSE "Error!"
  /\ UNCHANGED <<stored, buffer, got>>

File(r) == IF r = "w" THEN "test-write-killing.dat" ELSE "test-read-killing.dat"

-----------------------------------------------------------------------------
(* main *)

\* A fork or a command fails.
Fault ==
  /\ faults < MaxFaults
  /\ faults' = faults + 1

Idle == UNCHANGED <<round, i, pid, pids, coord, proc, up, faults>>

\* The undisturbed pass over test.dat.
WriteFile == Go("write_file", "read_file") /\ GlfsWrite("test.dat") /\ Idle
ReadFile == Go("read_file", "check_file") /\ GlfsRead("test.dat") /\ Idle
CheckFile == Go("check_file", "fork_killers") /\ Check /\ Idle

\* fork() of the coordinator.
ForkCoordinator ==
  /\ Go("fork_killers", "killing")
  /\ \/ /\ pid' = <<"coordinator", round>>
        /\ proc' = [proc EXCEPT ![pid'] = "running"]
        /\ UNCHANGED faults
     \/ /\ Fault
        /\ pid' = ForkError
        /\ UNCHANGED proc
  /\ UNCHANGED <<round, i, pids, coord, up, io>>

\* glfs_write or glfs_read, next to the killers.
KillingIO ==
  /\ Go("killing", "wait_killers")
  /\ IF round = "w" THEN GlfsWrite(File("w")) ELSE GlfsRead(File("r"))
  /\ Idle

\* waitpid(pid, &status, 0).
WaitCoordinator ==
  /\ pc = "wait_killers"
  /\ pc' = IF round = "w" THEN "read_back" ELSE "check"
  /\ \/ \E c \in Reapable(proc, pid, MainChildren) :
          proc' = [proc EXCEPT ![c] = "reaped"]
     \/ /\ NothingToReap(proc, pid, MainChildren)
        /\ UNCHANGED proc
  /\ UNCHANGED <<round, i, pid, pids, coord, up, faults, io>>

\* Round "w" reads its file back before the check.
ReadBack == Go("read_back", "check") /\ GlfsRead(File("w")) /\ Idle

CheckRound == Go("check", "fork_restart") /\ Check /\ Idle

ForkRestart ==
  /\ pc = "fork_restart"
  /\ i < NumServers
  /\ \/ /\ pids' = [pids EXCEPT ![i] = <<"restart", round, i>>]
        /\ proc' = [proc EXCEPT ![<<"restart", round, i>>] = "running"]
        /\ UNCHANGED faults
     \/ /\ Fault
        /\ pids' = [pids EXCEPT ![i] = ForkError]
        /\ UNCHANGED proc
  /\ i' = i + 1
  /\ UNCHANGED <<pc, round, pid, coord, up, io>>

ForkedRestarts ==
  /\ i = NumServers
  /\ Go("fork_restart", "wait_restart")
  /\ i' = 0
  /\ UNCHANGED <<round, pid, pids, coord, proc, up, faults, io>>

\* Seeded fault: a waitpid that did not return its own pid is repeated.
WaitRestartForOwn ==
  /\ pc = "wait_restart"
  /\ i < NumServers
  /\ \E c \in Reapable(proc, pids[i], MainChildren) :
       /\ proc' = [proc EXCEPT ![c] = "reaped"]
       /\ i' = IF c = pids[i] THEN i + 1 ELSE i
  /\ UNCHANGED <<pc, round, pid, pids, coord, up, faults, io>>

WaitRestart ==
  /\ pc = "wait_restart"
  /\ i < NumServers
  /\ \/ \E c \in Reapable(proc, pids[i], MainChildren) :
          proc' = [proc EXCEPT ![c] = "reaped"]
     \/ /\ NothingToReap(proc, pids[i], MainChildren)
        /\ UNCHANGED proc
  /\ i' = i + 1
  /\ UNCHANGED <<pc, round, pid, pids, coord, up, faults, io>>

\* Seeded fault: restart_glusterd returns without waiting for the last server.
RestartedButLast ==
  /\ i + 1 >= NumServers
  /\ pc = "wait_restart"
  /\ pc' = IF round = "w" THEN "recovered" ELSE "done"
  /\ i' = 0
  /\ pids' = NoPids
  /\ UNCHANGED <<round, pid, coord, proc, up, faults, io>>

\* "Disk killed recovered" after round "w", the end of main after round "r".
Restarted ==
  /\ i = NumServers
  /\ pc = "wait_restart"
  /\ pc' = IF round = "w" THEN "recovered" ELSE "done"
  /\ i' = 0
  /\ pids' = NoPids
  /\ UNCHANGED <<round, pid, coord, proc, up, faults, io>>

\* write_file of the file that round "r" reads.
WriteNext ==
  /\ Go("recovered", "fork_killers")
  /\ GlfsWrite(File("r"))
  /\ round' = "r"
  /\ UNCHANGED <<i, pid, pids, coord, proc, up, faults>>

Main ==
  \/ WriteFile \/ ReadFile \/ CheckFile
  \/ ForkCoordinator \/ KillingIO \/ WaitCoordinator \/ ReadBack \/ CheckRound
  \/ ForkRestart \/ ForkedRestarts \/ WaitRestart \/ Restarted \/ WriteNext

-----------------------------------------------------------------------------
(* The coordinator of a round *)

CoordinatorRuns(r) == proc[<<"coordinator", r>>] = "running"

\* pids[i] = fork(): the pid of the server's previous killer is lost.
ForkKiller(r) ==
  LET c == coord[r] IN
  /\ CoordinatorRuns(r)
  /\ c.pc = "fork"
  /\ c.j < NumBricks
  /\ \/ /\ proc' = [proc EXCEPT ![<<"killer", r, <<c.i, c.j>>>>] = "running"]
        /\ coord' = [coord EXCEPT ![r].pids[c.i] = <<"killer", r, <<c.i, c.j>>>>,
                                  ![r].j = c.j + 1]
        /\ UNCHANGED faults
     \/ /\ Fault
        /\ coord' = [coord EXCEPT ![r].pids[c.i] = ForkError, ![r].j = c.j + 1]
        /\ UNCHANGED proc
  /\ UNCHANGED <<main, up, io>>

\* The inner loop over the bricks ends, and with it perhaps the outer one.
NextServer(r) ==
  LET c == coord[r]
      last == c.i + 1 = NumServers IN
  /\ CoordinatorRuns(r)
  /\ c.pc = "fork"
  /\ c.j = NumBricks
  /\ coord' = [coord EXCEPT ![r].pc = IF last THEN "wait" ELSE "fork",
                            ![r].i = IF last THEN 0 ELSE c.i + 1,
                            ![r].j = 0]
  /\ UNCHANGED <<main, proc, up, faults, io>>

\* Seeded fault: only the first server's killer is waited for.
WaitKillerOfFirst(r) ==
  LET c == coord[r] IN
  /\ CoordinatorRuns(r)
  /\ c.pc = "wait"
  /\ c.i < NumServers
  /\ \/ \E k \in Reapable(proc, c.pids[0], Killers(r)) :
          proc' = [proc EXCEPT ![k] = "reaped"]
     \/ /\ NothingToReap(proc, c.pids[0], Killers(r))
        /\ UNCHANGED proc
  /\ coord' = [coord EXCEPT ![r].i = c.i + 1]
  /\ UNCHANGED <<main, up, faults, io>>

\* waitpid(pids[i], &status, 0).
WaitKiller(r) ==
  LET c == coord[r] IN
  /\ CoordinatorRuns(r)
  /\ c.pc = "wait"
  /\ c.i < NumServers
  /\ \/ \E k \in Reapable(proc, c.pids[c.i], Killers(r)) :
          proc' = [proc EXCEPT ![k] = "reaped"]
     \/ /\ NothingToReap(proc, c.pids[c.i], Killers(r))
        /\ UNCHANGED proc
  /\ coord' = [coord EXCEPT ![r].i = c.i + 1]
  /\ UNCHANGED <<main, up, faults, io>>

\* exit(0) of the coordinator; its locals and remaining zombies go with it.
CoordinatorExits(r) ==
  /\ CoordinatorRuns(r)
  /\ coord[r].pc = "wait"
  /\ coord[r].i = NumServers
  /\ proc' = [p \in Forked |->
                CASE p = <<"coordinator", r>> -> "zombie"
                  [] p \in Killers(r) /\ proc[p] = "zombie" -> "reaped"
                  [] OTHER -> proc[p]]
  /\ coord' = [coord EXCEPT ![r] = FreshLoops]
  /\ UNCHANGED <<main, up, faults, io>>

Coordinator(r) ==
  ForkKiller(r) \/ NextServer(r) \/ WaitKiller(r) \/ CoordinatorExits(r)

-----------------------------------------------------------------------------
(* The killers and restarters: system(command), then exit(0) *)

\* init reaps a process whose parent is gone.
Exits(p, orphan) ==
  /\ proc[p] = "running"
  /\ proc' = [proc EXCEPT ![p] = IF orphan THEN "reaped" ELSE "zombie"]
  /\ UNCHANGED <<main, coord, io>>

\* ssh ... xargs kill -9 stops the processes of one brick.
Kill(r, b) ==
  /\ Exits(<<"killer", r, b>>, ~ CoordinatorRuns(r))
  /\ \/ up' = up \ {b} /\ UNCHANGED faults
     \/ Fault /\ UNCHANGED up

\* service glusterd restart brings the bricks of the server back.
Restart(r, s) ==
  /\ Exits(<<"restart", r, s>>, FALSE)
  /\ \/ up' = up \cup ({s} \X BrickIds) /\ UNCHANGED faults
     \/ Fault /\ UNCHANGED up

Worker(r) == \/ \E b \in Bricks : Kill(r, b)
             \/ \E s \in ServerIds : Restart(r, s)

Next == Main \/ \E r \in Rounds : Coordinator(r) \/ Worker(r)

Spec == Init /\ [][Next]_vars

\* Every process runs, and every ssh command ends.
FairSpec ==
  /\ Spec
  /\ WF_vars(Main)
  /\ \A r \in Rounds : WF_vars(Coordinator(r)) /\ WF_vars(Worker(r))

-----------------------------------------------------------------------------
(* Properties *)

MainPC == {"write_file", "read_file", "check_file", "fork_killers", "killing",
           "wait_killers", "read_back", "check", "fork_restart",
           "wait_restart", "recovered", "done"}

Loops(r) == [pc   : {"fork", "wait"},
             i    : 0 .. NumServers,
             j    : 0 .. NumBricks,
             pids : [ServerIds -> Killers(r) \cup {ForkError}]]

TypeOK ==
  /\ pc \in MainPC
  /\ round \in Rounds
  /\ i \in 0 .. NumServers
  /\ pid \in Coordinators \cup {ForkError}
  /\ pids \in [ServerIds -> MainChildren \cup {ForkError}]
  /\ DOMAIN coord = Rounds
  /\ \A r \in Rounds : coord[r] \in Loops(r)
  /\ proc \in [Forked -> ProcessState]
  /\ up \subseteq Bricks
  /\ faults \in 0 .. MaxFaults
  /\ stored \subseteq {"test.dat", File("w"), File("r")}
  /\ buffer \in BOOLEAN
  /\ got \in BOOLEAN
  /\ verdict \in {"none", "OK!", "Error!"}

\* No restart runs while main is outside restart_glusterd
\* (test.c:178-194, 224-229).
RestartsDone ==
  pc \notin {"fork_restart", "wait_restart"} =>
    \A r \in Rounds : \A p \in Restarters(r) : proc[p] # "running"

\* The test ends.  A waitpid(-1) after a fork that failed may reap a child that is
\* waited for later; that wait then finds no such child and returns, and nobody
\* blocks or tries again (test.c:122, 135, 161, 173, 193).
Ends == <>(pc = "done")

\* "Disk killed recovered" (test.c:227), and the same after the last restart:
\* all the bricks serve.
DisksRecovered == pc \in {"recovered", "done"} => up = Bricks

\* What is true of it: when no fork and no command failed, the bricks whose
\* killer was the last of its server serve (test.c:113-122, 178-194).
LastDisksRecovered ==
  pc \in {"recovered", "done"} /\ faults = 0 =>
    ServerIds \X {NumBricks - 1} \subseteq up

\* "Check Correcness----OK!" (test.c:211, 218, 233): what was read is what was
\* written.
VerdictOfRead ==
  verdict = "OK!" /\ pc \in {"fork_killers", "fork_restart"} => got
=============================================================================
