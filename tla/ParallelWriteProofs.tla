------------------------ MODULE ParallelWriteProofs ------------------------
(***************************************************************************)
(* Theorems about ParallelWrite for any number of jobs and iterations,     *)
(* with forks and writes that may fail.                                    *)
(***************************************************************************)
EXTENDS ParallelWrite, TLAPS

-----------------------------------------------------------------------------
(* The inductive invariant *)

Over(job) == proc[job] \in {"none", "reaped"}

\* The fork of job j of this iteration was tried.
Tried(j) == IF pc = "fork" THEN j < i ELSE pc # "done"

\* The jobs of earlier iterations are over, later ones have not begun.
OtherIterationsInv ==
  \A job \in Jobs :
    /\ job[1] < iter => Over(job)
    /\ job[1] > iter => proc[job] = "none"

\* pids names every job of this iteration that was forked, and the jobs before
\* the one that is waited for are over.
ThisIterationInv ==
  \A j \in JobIds :
    LET job == <<iter, j>>
    IN  /\ pc = "fork" /\ ~ Tried(j) => proc[job] = "none"
        /\ pc \in {"fork", "wait"} /\ Tried(j) =>
             \/ pids[j] = job
             \/ pids[j] = ForkError /\ proc[job] = "none"
        /\ pc = "wait" /\ j < i => Over(job)
        /\ pc \in {"rm", "succeeds", "done"} => Over(job)

FilesInv ==
  /\ \A job \in files : job[1] = iter
  /\ pc = "succeeds" => files = {}

\* Unless something failed, the jobs that ended wrote their files, and every
\* job whose fork was tried exists.
WrittenInv ==
  ~ failed =>
    \A j \in JobIds :
      /\ Tried(j) => proc[<<iter, j>>] # "none"
      /\ proc[<<iter, j>>] \in {"zombie", "reaped"} => pc = "done" \/ <<iter, j>> \in full

IterationInv ==
  TypeOK /\ OtherIterationsInv /\ ThisIterationInv /\ FilesInv /\ WrittenInv

-----------------------------------------------------------------------------
(* The steps *)

LEMMA JobsOfIterations ==
  /\ \A it \in Iterations, j \in JobIds : <<it, j>> \in Jobs
  /\ \A job \in Jobs : job = <<job[1], job[2]>> /\ job[1] \in Iterations /\ job[2] \in JobIds
  /\ ForkError \notin Jobs
  /\ NumJobs \in Nat /\ MaxIter \in Nat
  /\ Iterations \subseteq Nat /\ JobIds \subseteq Nat
  /\ \A j \in JobIds : j < NumJobs /\ j >= 0
<1>1. /\ \A it \in Iterations, j \in JobIds : <<it, j>> \in Jobs
      /\ \A job \in Jobs : /\ job = <<job[1], job[2]>>
                            /\ job[1] \in Iterations
                            /\ job[2] \in JobIds
  BY DEF Jobs
<1>2. ForkError \notin Jobs /\ NumJobs \in Nat /\ MaxIter \in Nat
  BY ParallelWriteAssumption
<1> QED
  BY <1>1, <1>2 DEF Iterations, JobIds

LEMMA InitIteration == Init => IterationInv
<1> SUFFICES ASSUME Init PROVE IterationInv
  OBVIOUS
<1> USE JobsOfIterations
<1>. 1 \in Iterations /\ 0 \in 0 .. NumJobs
  BY ParallelWriteAssumption DEF Iterations
<1>1. TypeOK
  BY DEF Init, TypeOK, ProcessState
<1>2. OtherIterationsInv /\ FilesInv
  BY DEF Init, OtherIterationsInv, FilesInv, Over
<1>3. ThisIterationInv /\ WrittenInv
  BY DEF Init, ThisIterationInv, WrittenInv, Over, Tried
<1> QED
  BY <1>1, <1>2, <1>3 DEF IterationInv

LEMMA ForkIteration == IterationInv /\ Fork => IterationInv'
<1> SUFFICES ASSUME IterationInv, Fork PROVE IterationInv'
  OBVIOUS
<1> USE JobsOfIterations
<1>1. /\ iter \in Iterations /\ i \in JobIds /\ i \in Nat /\ <<iter, i>> \in Jobs
      /\ i + 1 \in 0 .. NumJobs /\ pc = "fork" /\ pc' = "fork" /\ iter' = iter /\ i' = i + 1
  BY DEF IterationInv, TypeOK, Fork, JobIds
<1>2. TypeOK'
  <2>1. pids' \in [JobIds -> Jobs \cup {ForkError}]
    BY <1>1 DEF IterationInv, TypeOK, Fork
  <2>2. proc' \in [Jobs -> ProcessState]
    BY <1>1 DEF IterationInv, TypeOK, Fork, ProcessState
  <2>3. failed' \in BOOLEAN
    BY DEF IterationInv, TypeOK, Fork
  <2> QED
    BY <1>1, <2>1, <2>2, <2>3 DEF IterationInv, TypeOK, Fork
<1>3. \A job \in Jobs : job # <<iter, i>> => proc'[job] = proc[job]
  BY <1>1 DEF IterationInv, TypeOK, Fork
<1>4. \A j \in JobIds : j # i => pids'[j] = pids[j]
  BY <1>1 DEF IterationInv, TypeOK, Fork
<1>5. \/ pids'[i] = <<iter, i>> /\ proc'[<<iter, i>>] = "running" /\ failed' = failed
      \/ pids'[i] = ForkError /\ proc' = proc /\ failed' = TRUE
  BY <1>1 DEF IterationInv, TypeOK, Fork
<1>6. proc[<<iter, i>>] = "none"
  BY <1>1 DEF IterationInv, ThisIterationInv, Tried
<1>7. OtherIterationsInv' /\ FilesInv'
  BY <1>1, <1>3 DEF IterationInv, OtherIterationsInv, FilesInv, Over, Fork
<1>8. ASSUME NEW j \in JobIds
      PROVE  /\ ~ (j < i + 1) => proc'[<<iter, j>>] = "none"
             /\ j < i + 1 => \/ pids'[j] = <<iter, j>>
                             \/ pids'[j] = ForkError /\ proc'[<<iter, j>>] = "none"
             /\ ~ failed' => /\ j < i + 1 => proc'[<<iter, j>>] # "none"
                             /\ proc'[<<iter, j>>] \in {"zombie", "reaped"} =>
                                  <<iter, j>> \in full
  <2>1. CASE j = i
    BY <1>1, <1>5, <1>6, <2>1
  <2>2. CASE j # i
    <3>1. /\ <<iter, j>> \in Jobs /\ proc'[<<iter, j>>] = proc[<<iter, j>>]
          /\ pids'[j] = pids[j] /\ (j < i + 1 <=> j < i)
      BY <1>1, <1>3, <1>4, <2>2
    <3>2. /\ ~ (j < i) => proc[<<iter, j>>] = "none"
          /\ j < i => \/ pids[j] = <<iter, j>>
                      \/ pids[j] = ForkError /\ proc[<<iter, j>>] = "none"
      BY <1>1 DEF IterationInv, ThisIterationInv, Tried
    <3>3. ~ failed => /\ j < i => proc[<<iter, j>>] # "none"
                      /\ proc[<<iter, j>>] \in {"zombie", "reaped"} => <<iter, j>> \in full
      BY <1>1 DEF IterationInv, WrittenInv, Tried
    <3>4. ~ failed' => ~ failed
      BY <1>5
    <3> QED
      BY <3>1, <3>2, <3>3, <3>4
  <2> QED
    BY <2>1, <2>2
<1>9. ThisIterationInv'
  BY <1>1, <1>8 DEF ThisIterationInv, Over, Tried
<1>10. WrittenInv'
  BY <1>1, <1>8 DEF WrittenInv, Tried, Fork
<1> QED
  BY <1>2, <1>7, <1>9, <1>10 DEF IterationInv

\* waitpid reaps the job that pids names, finds it reaped already, or takes
\* another one; in every case that job is over afterwards.
LEMMA WaitIteration == IterationInv /\ Wait => IterationInv'
<1> SUFFICES ASSUME IterationInv, Wait PROVE IterationInv'
  OBVIOUS
<1> USE JobsOfIterations
<1>1. /\ iter \in Iterations /\ i \in JobIds /\ i \in Nat /\ <<iter, i>> \in Jobs
      /\ i + 1 \in 0 .. NumJobs /\ pc = "wait" /\ i' = i + 1
      /\ UNCHANGED <<pc, iter, pids, files, full, failed>>
  BY DEF IterationInv, TypeOK, Wait, JobIds
<1>2. \A job \in Jobs :
        proc'[job] = proc[job] \/ (proc[job] = "zombie" /\ proc'[job] = "reaped")
  BY DEF IterationInv, TypeOK, Wait, Reapable, WaitedFor
<1>3. TypeOK'
  <2>1. proc' \in [Jobs -> ProcessState]
    BY DEF IterationInv, TypeOK, Wait, Reapable, WaitedFor, ProcessState
  <2> QED
    BY <1>1, <2>1 DEF IterationInv, TypeOK
<1>4. proc'[<<iter, i>>] \in {"none", "reaped"}
  <2>1. pids[i] = <<iter, i>> \/ proc[<<iter, i>>] = "none"
    BY <1>1 DEF IterationInv, ThisIterationInv, Tried
  <2>2. CASE proc[<<iter, i>>] = "none"
    BY <1>1, <1>2, <2>2
  <2>3. CASE pids[i] = <<iter, i>>
    <3>1. WaitedFor(pids[i], Jobs) = {<<iter, i>>}
      BY <1>1, <2>3 DEF WaitedFor
    <3> QED
      BY <1>1, <3>1 DEF IterationInv, TypeOK, Wait, Reapable, NothingToReap
  <2> QED
    BY <2>1, <2>2, <2>3
<1>5. OtherIterationsInv' /\ FilesInv'
  BY <1>1, <1>2 DEF IterationInv, OtherIterationsInv, FilesInv, Over
<1>6. ThisIterationInv'
  <2> SUFFICES ASSUME NEW j \in JobIds
               PROVE  /\ \/ pids[j] = <<iter, j>>
                         \/ pids[j] = ForkError /\ proc'[<<iter, j>>] = "none"
                      /\ j < i + 1 => proc'[<<iter, j>>] \in {"none", "reaped"}
    BY <1>1 DEF ThisIterationInv, Over, Tried
  <2>1. /\ <<iter, j>> \in Jobs
        /\ \/ pids[j] = <<iter, j>>
           \/ pids[j] = ForkError /\ proc[<<iter, j>>] = "none"
        /\ j < i => proc[<<iter, j>>] \in {"none", "reaped"}
    BY <1>1 DEF IterationInv, ThisIterationInv, Over, Tried
  <2>2. j < i + 1 => j < i \/ j = i
    BY <1>1
  <2> QED
    BY <1>2, <1>4, <2>1, <2>2
<1>7. WrittenInv'
  BY <1>1, <1>2 DEF IterationInv, WrittenInv, Tried
<1> QED
  BY <1>3, <1>5, <1>6, <1>7 DEF IterationInv

\* The other steps of p-write's main.
LEMMA MainIteration == IterationInv /\ (StatFails \/ ForkedAll \/ Exit) => IterationInv'
<1> SUFFICES ASSUME IterationInv, StatFails \/ ForkedAll \/ Exit PROVE IterationInv'
  OBVIOUS
<1> USE JobsOfIterations
<1>1. iter \in Iterations /\ UNCHANGED <<iter, pids, proc, files, full, failed>>
  BY DEF IterationInv, TypeOK, StatFails, ForkedAll, Exit
<1>2. TypeOK'
  BY <1>1 DEF IterationInv, TypeOK, StatFails, ForkedAll, Exit, Go
<1>3. OtherIterationsInv' /\ FilesInv'
  BY <1>1 DEF IterationInv, OtherIterationsInv, FilesInv, Over, StatFails,
     ForkedAll, Exit, Go
<1>4. CASE StatFails
  BY <1>1, <1>2, <1>3, <1>4
     DEF IterationInv, ThisIterationInv, WrittenInv, Over, Tried, StatFails, Go
<1>5. CASE ForkedAll
  BY <1>1, <1>2, <1>3, <1>5
     DEF IterationInv, ThisIterationInv, WrittenInv, Over, Tried, ForkedAll, Go
<1>6. CASE Exit
  BY <1>1, <1>2, <1>3, <1>6
     DEF IterationInv, ThisIterationInv, WrittenInv, Over, Tried, Exit, Go
<1> QED
  BY <1>4, <1>5, <1>6

\* When main is past its wait loop, all jobs of all iterations are over.
LEMMA AllOver ==
  ASSUME IterationInv, pc \in {"rm", "succeeds", "done"}, NEW job \in Jobs
  PROVE  Over(job) /\ (job[1] > iter => proc[job] = "none")
<1> USE JobsOfIterations
<1>1. iter \in Nat /\ job[1] \in Nat /\ job = <<job[1], job[2]>> /\ job[2] \in JobIds
  BY DEF IterationInv, TypeOK
<1>2. CASE job[1] = iter
  BY <1>1, <1>2 DEF IterationInv, ThisIterationInv, Over
<1>3. CASE job[1] # iter
  <2>1. job[1] < iter \/ job[1] > iter
    BY <1>1, <1>3
  <2> QED
    BY <1>1, <2>1 DEF IterationInv, OtherIterationsInv, Over
<1> QED
  BY <1>2, <1>3

LEMMA ClearIteration == IterationInv /\ (Clear \/ ClearFails) => IterationInv'
<1> SUFFICES ASSUME IterationInv, Clear \/ ClearFails PROVE IterationInv'
  OBVIOUS
<1> USE JobsOfIterations
<1>1. /\ UNCHANGED <<iter, i, pids, proc, full, failed>>
      /\ pc = "rm" /\ pc' \in {"succeeds", "done"}
      /\ \/ pc' = "done" /\ files' = files
         \/ pc' = "succeeds" /\ files' = {}
  BY DEF Clear, ClearFails, Go
<1>2. TypeOK' /\ OtherIterationsInv' /\ FilesInv'
  BY <1>1 DEF IterationInv, TypeOK, OtherIterationsInv, FilesInv, Over
<1>3. ThisIterationInv' /\ WrittenInv'
  BY <1>1 DEF IterationInv, ThisIterationInv, WrittenInv, Over, Tried
<1> QED
  BY <1>2, <1>3 DEF IterationInv

LEMMA NextIterationStarts == IterationInv /\ NextIteration => IterationInv'
<1> SUFFICES ASSUME IterationInv, NextIteration PROVE IterationInv'
  OBVIOUS
<1> USE JobsOfIterations
<1>1. \A job \in Jobs : Over(job) /\ (job[1] > iter => proc[job] = "none")
  BY AllOver DEF NextIteration
<1>2. /\ iter \in Nat /\ i' \in 0 .. NumJobs /\ files = {} /\ pc = "succeeds"
      /\ i' = 0 /\ failed' = FALSE /\ UNCHANGED <<pids, proc, files, full>>
  BY DEF IterationInv, TypeOK, FilesInv, NextIteration
<1>3. CASE iter = MaxIter
  <2>1. pc' = "done" /\ iter' = iter
    BY <1>3 DEF NextIteration
  <2>2. TypeOK'
    BY <1>2, <2>1 DEF IterationInv, TypeOK
  <2>3. OtherIterationsInv' /\ ThisIterationInv' /\ FilesInv' /\ WrittenInv'
    BY <1>1, <1>2, <2>1 DEF IterationInv, TypeOK, OtherIterationsInv,
       ThisIterationInv, FilesInv, WrittenInv, Over, Tried
  <2> QED
    BY <2>2, <2>3 DEF IterationInv
<1>4. CASE iter # MaxIter
  <2>1. pc' = "fork" /\ iter' = iter + 1 /\ iter + 1 \in Iterations
    BY <1>4 DEF NextIteration, IterationInv, TypeOK, Iterations
  <2>2. TypeOK'
    BY <1>2, <2>1 DEF IterationInv, TypeOK
  <2>3. OtherIterationsInv' /\ FilesInv'
    BY <1>1, <1>2, <2>1 DEF OtherIterationsInv, FilesInv, Over
  <2>4. \A j \in JobIds : proc[<<iter + 1, j>>] = "none"
    BY <1>1, <1>2, <2>1
  <2>5. ThisIterationInv' /\ WrittenInv'
    BY <1>2, <2>1, <2>4 DEF ThisIterationInv, WrittenInv, Over, Tried
  <2> QED
    BY <2>2, <2>3, <2>5 DEF IterationInv
<1> QED
  BY <1>3, <1>4

\* A job runs only in its own iteration, before main is past the wait loop.
LEMMA JobIteration ==
  ASSUME IterationInv, NEW job \in Jobs, Job(job)
  PROVE  IterationInv'
<1> USE JobsOfIterations
<1>1. /\ proc[job] = "running"
      /\ UNCHANGED <<pc, iter, i, pids>>
      /\ proc' = proc \/ proc' = [proc EXCEPT ![job] = "zombie"]
      /\ files' \subseteq files \cup {job}
      /\ full \subseteq full' /\ full' \subseteq full \cup {job}
      /\ \/ proc' = proc /\ failed' = failed
         \/ job \in full' /\ failed' = failed
         \/ failed' = TRUE
  BY DEF Job, Open, Write, WriteFails, JobExits
<1>2. job[1] = iter /\ pc \notin {"rm", "succeeds", "done"} /\ iter \in Nat
  <2>1. job[1] \in Nat /\ iter \in Nat
    BY DEF IterationInv, TypeOK
  <2>2. ~ (job[1] < iter) /\ ~ (job[1] > iter)
    BY <1>1 DEF IterationInv, OtherIterationsInv, Over
  <2> QED
    BY <1>1, <2>1, <2>2, AllOver DEF Over
<1>3. /\ \A other \in Jobs : other # job => proc'[other] = proc[other]
      /\ proc'[job] \in {"running", "zombie"}
      /\ proc'[job] = "zombie" => proc' # proc
      /\ proc' \in [Jobs -> ProcessState]
  BY <1>1 DEF IterationInv, TypeOK, ProcessState
<1>4. TypeOK'
  BY <1>1, <1>3 DEF IterationInv, TypeOK
<1>5. OtherIterationsInv' /\ FilesInv'
  BY <1>1, <1>2, <1>3 DEF IterationInv, OtherIterationsInv, FilesInv, Over
<1>6. ThisIterationInv'
  BY <1>1, <1>2, <1>3 DEF IterationInv, TypeOK, ThisIterationInv, Over, Tried
<1>7. WrittenInv'
  <2> SUFFICES ASSUME ~ failed', NEW j \in JobIds
               PROVE  /\ Tried(j)' => proc'[<<iter, j>>] # "none"
                      /\ proc'[<<iter, j>>] \in {"zombie", "reaped"} =>
                           <<iter, j>> \in full'
    BY <1>1 DEF WrittenInv
  <2>1. ~ failed
    BY <1>1 DEF IterationInv, TypeOK
  <2>2. /\ Tried(j) => proc[<<iter, j>>] # "none"
        /\ proc[<<iter, j>>] \in {"zombie", "reaped"} => <<iter, j>> \in full
    BY <1>2, <2>1 DEF IterationInv, WrittenInv
  <2>3. <<iter, j>> \in Jobs /\ (Tried(j)' <=> Tried(j))
    BY <1>1 DEF IterationInv, TypeOK, Tried
  <2> QED
    BY <1>1, <1>3, <2>2, <2>3
<1> QED
  BY <1>4, <1>5, <1>6, <1>7 DEF IterationInv

-----------------------------------------------------------------------------
(* The theorems *)

\* The inductive invariant holds in every reachable state.
THEOREM IterationInvariance == Spec => []IterationInv
<1>1. Init => IterationInv
  BY InitIteration
<1>2. IterationInv /\ [Next]_vars => IterationInv'
  <2> SUFFICES ASSUME IterationInv, [Next]_vars PROVE IterationInv'
    OBVIOUS
  <2>1. CASE Script
    BY <2>1, ForkIteration, WaitIteration, MainIteration, ClearIteration,
       NextIterationStarts DEF Script
  <2>2. CASE \E job \in Jobs : Job(job)
    BY <2>2, JobIteration
  <2>3. CASE UNCHANGED vars
    BY <2>3 DEF vars, IterationInv, TypeOK, OtherIterationsInv,
       ThisIterationInv, FilesInv, WrittenInv, Over, Tried
  <2> QED
    BY <2>1, <2>2, <2>3 DEF Next
<1> QED
  BY <1>1, <1>2, PTL DEF Spec

\* The variables of the script and of main keep their types: no index leaves
\* pids (parallel_write.c:132-152).
THEOREM TypeCorrectness == Spec => []TypeOK
<1>1. IterationInv => TypeOK
  BY DEF IterationInv
<1> QED
  BY <1>1, IterationInvariance, PTL

\* An iteration has the directory to itself, for any number of jobs and
\* iterations, though a failed fork makes main wait for any job
\* (parallel_write.c:150-152, parallel_test.sh:12-17).
THEOREM OwnDirectory == Spec => []OwnIteration
<1>1. IterationInv => OwnIteration
  <2> SUFFICES ASSUME IterationInv PROVE OwnIteration
    OBVIOUS
  <2> USE JobsOfIterations
  <2>1. ASSUME NEW job \in Jobs, job[1] # iter PROVE proc[job] # "running"
    <3>1. job[1] < iter \/ job[1] > iter
      BY <2>1 DEF IterationInv, TypeOK
    <3> QED
      BY <3>1 DEF IterationInv, OtherIterationsInv, Over
  <2>2. pc \in {"rm", "succeeds"} => \A job \in Jobs : proc[job] # "running"
    BY AllOver DEF Over
  <2> QED
    BY <2>1, <2>2 DEF OwnIteration, IterationInv, FilesInv
<1> QED
  BY <1>1, IterationInvariance, PTL

\* When nothing failed in an iteration, every one of its files was written
\* before rm, for any number of jobs (parallel_write.c:73-83, 150-152).
THEOREM Written == Spec => []WrittenUnlessFailed
<1>1. IterationInv => WrittenUnlessFailed
  <2> SUFFICES ASSUME IterationInv, pc = "succeeds", ~ failed, NEW j \in JobIds
               PROVE  <<iter, j>> \in full
    BY DEF WrittenUnlessFailed
  <2>1. proc[<<iter, j>>] \in {"none", "reaped"} /\ proc[<<iter, j>>] # "none"
    BY DEF IterationInv, ThisIterationInv, WrittenInv, Over, Tried
  <2> QED
    BY <2>1 DEF IterationInv, WrittenInv
<1> QED
  BY <1>1, IterationInvariance, PTL
=============================================================================
