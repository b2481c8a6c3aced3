------------------------------ MODULE Processes ------------------------------
(***************************************************************************)
(* The part of fork, exit and waitpid that the drivers of                  *)
(* client-perf-test, glapi-perf-test and dir-ops rely on.  A process is    *)
(* "none" until it is forked, then "running", a "zombie" once it exited,   *)
(* and "reaped" when its parent waited for it.                             *)
(***************************************************************************)
CONSTANT ForkError   \* -1, what fork returns when it fails

ProcessState == {"none", "running", "zombie", "reaped"}

\* The children waitpid(pid) is about: pid itself, or every one for -1.
WaitedFor(pid, children) == IF pid = ForkError THEN children ELSE {pid} \cap children

\* Those it can return now.
Reapable(proc, pid, children) ==
  {c \in WaitedFor(pid, children) : proc[c] = "zombie"}

\* ECHILD: there is nothing to wait for and waitpid returns at once.
NothingToReap(proc, pid, children) ==
  \A c \in WaitedFor(pid, children) : proc[c] \in {"none", "reaped"}
=============================================================================
