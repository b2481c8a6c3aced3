---------------------------- MODULE ParallelWrite ----------------------------
(***************************************************************************)
(* The parallel write test of dir-ops: parallel_test.sh runs p-write       *)
(* (parallel_write.c) again and again, looks at its exit status and clears *)
(* the directory in between.  p-write forks numjobs jobs, each of which    *)
(* writes one file (dir_depth and dir_cnt are 1), and waits for them.      *)
(***************************************************************************)
EXTENDS Naturals, Processes

CONSTANTS
  NumJobs,    \* argv[1] of p-write, 8 in the script
  MaxIter,    \* bound: iterations of the script, 100 in the source
  ForkFails,  \* may fork fail?
  IOFails     \* may fopen, fputs or rm fail?

Iterations == 1 .. MaxIter
JobIds == 0 .. NumJobs - 1
Jobs == Iterations \X JobIds

ASSUME ParallelWriteAssumption ==
  /\ NumJobs \in Nat \ {0}
  /\ MaxIter \in Nat \ {0}
  /\ ForkFails \in BOOLEAN
  /\ IOFails \in BOOLEAN
  /\ ForkError \notin Jobs

VARIABLES
  pc,     \* where the script, or p-write on its behalf, is
  iter,   \* $i of the script
  i,      \* the loop index of main
  pids,   \* the array of main
  proc,   \* the state of every job
  files,  \* the files in the directory, named after the job (its pid)
  full,   \* the jobs that wrote all their data (history)
  failed  \* did a fork or a write of this iteration fail? (history)

vars == <<pc, iter, i, pids, proc, files, full, failed>>

Init ==
  /\ pc = "fork"
  /\ iter = 1
  /\ i = 0
  /\ pids = [j \in JobIds |-> ForkError]
  /\ proc = [j \in Jobs |-> "none"]
  /\ files = {}
  /\ full = {}
  /\ failed = FALSE

Go(from, to) ==
  /\ pc = from
  /\ pc' = to

-----------------------------------------------------------------------------
(* main of p-write *)

\* stat(root_dir) fails, p-write exits with 1 and the script says "iter write
\* fails" and breaks.
StatFails ==
  /\ IOFails
  /\ i = 0
  /\ Go("fork", "done")
  /\ UNCHANGED <<iter, i, pids, proc, files, full, failed>>

\* pids[i] = fork(), in the parent.
Fork ==
  /\ pc = "fork"
  /\ i < NumJobs
  /\ \/ /\ pids' = [pids EXCEPT ![i] = <<iter, i>>]
        /\ proc' = [proc EXCEPT ![<<iter, i>>] = "running"]
        /\ UNCHANGED failed
     \/ /\ ForkFails
        /\ pids' = [pids EXCEPT ![i] = ForkError]
        /\ failed' = TRUE
        /\ UNCHANGED proc
  /\ i' = i + 1
  /\ UNCHANGED <<pc, iter, files, full>>

ForkedAll ==
  /\ i = NumJobs
  /\ Go("fork", "wait")
  /\ i' = 0
  /\ UNCHANGED <<iter, pids, proc, files, full, failed>>

\* Seeded fault: a waitpid that did not return its own pid is repeated.
WaitForOwn ==
  /\ pc = "wait"
  /\ i < NumJobs
  /\ \E job \in Reapable(proc, pids[i], Jobs) :
       /\ proc' = [proc EXCEPT ![job] = "reaped"]
       /\ i' = IF job = pids[i] THEN i + 1 ELSE i
  /\ UNCHANGED <<pc, iter, pids, files, full, failed>>

\* Seeded fault: the jobs are waited for with WNOHANG.
WaitNoHang ==
  /\ pc = "wait"
  /\ i < NumJobs
  /\ \/ \E job \in Reapable(proc, pids[i], Jobs) :
          proc' = [proc EXCEPT ![job] = "reaped"]
     \/ UNCHANGED proc
  /\ i' = i + 1
  /\ UNCHANGED <<pc, iter, pids, files, full, failed>>

\* waitpid(pids[i], &status, 0).
Wait ==
  /\ pc = "wait"
  /\ i < NumJobs
  /\ \/ \E job \in Reapable(proc, pids[i], Jobs) :
          proc' = [proc EXCEPT ![job] = "reaped"]
     \/ /\ NothingToReap(proc, pids[i], Jobs)
        /\ UNCHANGED proc
  /\ i' = i + 1
  /\ UNCHANGED <<pc, iter, pids, files, full, failed>>

\* return 0, whatever the jobs' statuses.
Exit ==
  /\ i = NumJobs
  /\ Go("wait", "rm")
  /\ UNCHANGED <<iter, i, pids, proc, files, full, failed>>

-----------------------------------------------------------------------------
(* A job: recursive_create_fn at depth 1, then exit(0) *)

\* fopen "w" makes the file.
Open(job) ==
  /\ proc[job] = "running"
  /\ job \notin files
  /\ files' = files \cup {job}
  /\ UNCHANGED <<pc, iter, i, pids, proc, full, failed>>

JobExits(job) ==
  /\ proc[job] = "running"
  /\ proc' = [proc EXCEPT ![job] = "zombie"]
  /\ UNCHANGED <<pc, iter, i, pids, files>>

\* Seeded fault: the data stays in the buffer of a FILE that is not closed.
WriteUnflushed(job) ==
  /\ job \in files
  /\ JobExits(job)
  /\ UNCHANGED <<full, failed>>

\* fputs and fclose.
Write(job) ==
  /\ job \in files
  /\ JobExits(job)
  /\ full' = full \cup {job}
  /\ UNCHANGED failed

\* fopen or fputs fails; the errno that recursive_create_fn returns is not -1,
\* so the job exits with 0 as well.
WriteFails(job) ==
  /\ IOFails
  /\ JobExits(job)
  /\ failed' = TRUE
  /\ UNCHANGED full

-----------------------------------------------------------------------------
(* The script *)

\* rm -f ${path}/*, after "$? -ne 0" was false.
Clear ==
  /\ Go("rm", "succeeds")
  /\ files' = {}
  /\ UNCHANGED <<iter, i, pids, proc, full, failed>>

\* "iter rm fails": break.
ClearFails ==
  /\ IOFails
  /\ Go("rm", "done")
  /\ UNCHANGED <<iter, i, pids, proc, files, full, failed>>

\* "$i iter succeeds", and the next iteration.
NextIteration ==
  /\ pc = "succeeds"
  /\ pc' = IF iter = MaxIter THEN "done" ELSE "fork"
  /\ iter' = IF iter = MaxIter THEN iter ELSE iter + 1
  /\ i' = 0
  /\ failed' = FALSE
  /\ UNCHANGED <<pids, proc, files, full>>

Script ==
  \/ StatFails \/ Fork \/ ForkedAll \/ Wait \/ Exit
  \/ Clear \/ ClearFails \/ NextIteration

Job(job) == Open(job) \/ Write(job) \/ WriteFails(job)

Next == Script \/ \E job \in Jobs : Job(job)

Spec == Init /\ [][Next]_vars

\* The script and every job run.
FairSpec == Spec /\ WF_vars(Script) /\ \A job \in Jobs : WF_vars(Job(job))

-----------------------------------------------------------------------------
(* Properties *)

TypeOK ==
  /\ pc \in {"fork", "wait", "rm", "succeeds", "done"}
  /\ iter \in Iterations
  /\ i \in 0 .. NumJobs
  /\ pids \in [JobIds -> Jobs \cup {ForkError}]
  /\ proc \in [Jobs -> ProcessState]
  /\ files \subseteq Jobs
  /\ full \subseteq Jobs
  /\ failed \in BOOLEAN

\* An iteration has the directory to itself: no job of an earlier one is still
\* writing, and rm left nothing behind and took away no file in the making
\* (parallel_write.c:150-152, parallel_test.sh:12-17).
OwnIteration ==
  /\ \A job \in Jobs : job[1] # iter => proc[job] # "running"
  /\ \A job \in files : job[1] = iter
  /\ pc \in {"rm", "succeeds"} => \A job \in Jobs : proc[job] # "running"

\* Waiting for the jobs is enough: when no fork and no write of the iteration
\* failed, every file is whole before rm takes it away, though the statuses are
\* dropped (parallel_write.c:73-83, 150-152).
WrittenUnlessFailed ==
  pc = "succeeds" /\ ~ failed => {iter} \X JobIds \subseteq full

\* "$i iter succeeds" (parallel_test.sh:28, as opposed to "iter write fails"):
\* every job wrote its file.
SucceedsMeansWritten ==
  pc = "succeeds" => {iter} \X JobIds \subseteq full

\* The script ends, though a fork that failed makes main wait for any job
\* (parallel_write.c:150-152).
Ends == <>(pc = "done")
=============================================================================
