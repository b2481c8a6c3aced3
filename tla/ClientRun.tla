------------------------------ MODULE ClientRun ------------------------------
(***************************************************************************)
(* The test programs that the aggregate drivers start on one server by     *)
(* ssh: read.c and write.c of client-perf-test, which mount the volume     *)
(* with volume.h, and read.c and write.c of glapi-perf-test, which reach   *)
(* it through libgfapi.  What one run leaves behind, its files, its mount  *)
(* and its time file, the next run finds.  When the ssh connection breaks  *)
(* the driver goes on while the program may still run.                     *)
(***************************************************************************)
EXTENDS Naturals, SequencesExt

CONSTANTS
  Runs,      \* the runs of programs on this server
  NumFiles,  \* argv[2], the files of a run
  Volumes,   \* what the volume may hold at first
  IOFails,   \* may mount, umount and operations on files fail?
  Dies,      \* may a program be killed?
  SshBreaks  \* may an ssh connection break?

Files == 0 .. NumFiles - 1
Programs == {"read", "write", "glapi_read", "glapi_write"}
Mounting(p) == p \in {"read", "write"}
Mode(p) == IF p \in {"read", "glapi_read"} THEN "read" ELSE "write"

\* The letters of client-perf-test/write.c, or the bytes, line feeds among
\* them, of glapi-perf-test/write.c, also over a part of what was there.
Content == {"absent", "part", "letters", "bytes", "mixed"}

ASSUME ClientRunAssumption ==
  /\ NumFiles \in Nat
  /\ Volumes \subseteq [Files -> Content]
  /\ Runs \cap {"none", "local", "libgfapi", "old", "empty"} = {}
  /\ {IOFails, Dies, SshBreaks} \subseteq BOOLEAN

VARIABLES
  prog, pc,  \* the program of a run, and where it is
  i,         \* its loop index
  handle,    \* where its open file is: on the mount of a run, or "local" to
             \* the directory below, or reached through "libgfapi"
  mounts,    \* the runs whose mounts are stacked on the mountpoint
  files,     \* files[place][i]: what test<i>.dat holds
  timefile,  \* the run whose time is in /tmp/<mode>.time, "old" if that is
             \* missing or was there before
  cut,       \* the runs whose ssh connection broke
  moved,     \* the files whose data a run read or wrote completely (history)
  faults,    \* what failed in a run, or that it left the volume (history)
  latest     \* the last run of each mode (history)

host == <<mounts, files, timefile>>
history == <<moved, faults, latest>>
vars == <<prog, pc, i, handle, host, cut, history>>

Init ==
  /\ prog = [r \in Runs |-> "read"]  \* chosen at Start
  /\ pc = [r \in Runs |-> "idle"]
  /\ i = [r \in Runs |-> 0]
  /\ handle = [r \in Runs |-> "none"]
  /\ mounts = <<>>
  /\ \E volume \in Volumes :
       files = [volume |-> volume, local |-> [f \in Files |-> "absent"]]
  /\ timefile = [m \in {"read", "write"} |-> "old"]
  /\ cut = {}
  /\ moved = [r \in Runs |-> {}]
  /\ faults = [r \in Runs |-> {}]
  /\ latest = [m \in {"read", "write"} |-> "none"]

Running(r) == pc[r] \notin {"idle", "ended"}

Go(r, from, to) ==
  /\ pc[r] = from
  /\ pc' = [pc EXCEPT ![r] = to]

Failed(r, what) == faults' = [faults EXCEPT ![r] = @ \cup {what}]

-----------------------------------------------------------------------------
(* main *)

\* The driver runs a program when the ssh of the one before it is over.  The
\* mount_volume of the glapi programs checks nothing and has no step.
Start(r) ==
  /\ \A s \in Runs : Running(s) => s \in cut
  /\ \E p \in Programs :
       /\ prog' = [prog EXCEPT ![r] = p]
       /\ latest' = [latest EXCEPT ![Mode(p)] = r]
       /\ Go(r, "idle", IF Mounting(p) THEN "mount" ELSE "transfer")
  /\ UNCHANGED <<i, handle, host, cut, moved, faults>>

\* Seeded fault: write.c's label out also in read.c.
OutAfterUmount(r) == "ended"

\* Seeded fault: write.c calls umount_volume at out, as read.c does.
OutOfBoth(r) == IF Mounting(prog[r]) THEN "out" ELSE "ended"

\* goto out: read.c calls umount_volume there, write.c has called it before;
\* the glapi programs end by a failed assertion or on a NULL file.
Out(r) == IF prog[r] = "read" THEN "out" ELSE "ended"

\* mount_volume, with the undefined value it returns taken for 0.
Mount(r) ==
  /\ Go(r, "mount", "transfer")
  /\ mounts' = Append(mounts, r)
  /\ UNCHANGED <<prog, i, handle, files, timefile, cut, history>>

\* Seeded fault: the result of mount_volume is dropped.
MountUnchecked(r) ==
  /\ Go(r, "mount", "transfer")
  /\ \/ mounts' = Append(mounts, r)
     \/ IOFails /\ UNCHANGED mounts
  /\ Failed(r, "mount")
  /\ UNCHANGED <<prog, i, handle, files, timefile, cut, moved, latest>>

\* mount fails, or succeeds and the undefined value is not 0.
MountGivesUp(r) ==
  /\ Go(r, "mount", Out(r))
  /\ \/ mounts' = Append(mounts, r)
     \/ IOFails /\ UNCHANGED mounts
  /\ Failed(r, "mount")
  /\ UNCHANGED <<prog, i, handle, files, timefile, cut, moved, latest>>

-----------------------------------------------------------------------------
(* read_file, write_file and the loop around them *)

\* Where a path below the mountpoint leads.
Reached(p) ==
  IF ~ Mounting(p) THEN "libgfapi" ELSE IF mounts = <<>> THEN "local" ELSE Last(mounts)

Place(h) == IF h = "local" THEN "local" ELSE "volume"

Next_i(r) == i' = [i EXCEPT ![r] = @ + 1]

Opening(r) == pc[r] = "transfer" /\ handle[r] = "none" /\ i[r] < NumFiles

\* What a file holds when it was opened: fopen "w" truncates, glfs_creat makes
\* a missing file, also for the reader.
OpenedAs(p, c) ==
  CASE p = "write" -> "part"
    [] p = "read"  -> c
    [] OTHER       -> IF c = "absent" THEN "part" ELSE c

Absent(r) == prog[r] = "read" /\ files[Place(Reached("read"))][i[r]] = "absent"

OpenFile(r) ==
  /\ Opening(r)
  /\ ~ Absent(r)
  /\ handle' = [handle EXCEPT ![r] = Reached(prog[r])]
  /\ files' = [files EXCEPT ![Place(handle'[r])][i[r]] = OpenedAs(prog[r], @)]
  /\ IF handle'[r] = "local" THEN Failed(r, "local") ELSE UNCHANGED faults
  /\ UNCHANGED <<prog, pc, i, mounts, timefile, cut, moved, latest>>

\* fopen fails and the loop goes on.
SkipFile(r) ==
  /\ Opening(r)
  /\ Mounting(prog[r])
  /\ IOFails \/ Absent(r)
  /\ Next_i(r)
  /\ Failed(r, "file")
  /\ UNCHANGED <<prog, pc, handle, host, cut, moved, latest>>

\* glfs_creat fails and so does assert(fd != NULL).
Abort(r) ==
  /\ Opening(r)
  /\ ~ Mounting(prog[r])
  /\ IOFails
  /\ Go(r, "transfer", Out(r))
  /\ Failed(r, "file")
  /\ UNCHANGED <<prog, i, handle, host, cut, moved, latest>>

\* What a program reads to the end, fgets only up to a line feed, or writes.
Whole(p) == IF Mounting(p) THEN {"letters"} ELSE {"letters", "bytes", "mixed"}

MovedAs(p, c) ==
  CASE p = "write"       -> "letters"
    [] p = "glapi_write" -> "bytes"
    [] OTHER             -> c

\* What may be in the open file when a transfer ends too early: glapi_write does
\* not truncate, and has written over some of the file or none.
LeftAs(p, c) ==
  IF p = "glapi_write" /\ c = "letters" THEN {"letters", "mixed"} ELSE {c}

BreaksOff(r) ==
  LET place == Place(handle[r]) IN
  \E c \in LeftAs(prog[r], files[place][i[r]]) :
    files' = [files EXCEPT ![place][i[r]] = c]

Closes(r) ==
  /\ pc[r] = "transfer"
  /\ handle[r] # "none"
  /\ handle' = [handle EXCEPT ![r] = "none"]
  /\ Next_i(r)

\* fputs, fgets, glfs_write or glfs_read, and the close.
MoveFile(r) ==
  LET place == Place(handle[r])
      c == MovedAs(prog[r], files[place][i[r]]) IN
  /\ Closes(r)
  /\ files' = [files EXCEPT ![place][i[r]] = c]
  /\ moved' = [moved EXCEPT ![r] = IF c \in Whole(prog[r]) THEN @ \cup {i[r]} ELSE @]
  /\ UNCHANGED <<prog, pc, mounts, timefile, cut, faults, latest>>

\* The same failing, which nobody looks at.
MoveFails(r) ==
  /\ Closes(r)
  /\ IOFails
  /\ BreaksOff(r)
  /\ Failed(r, "file")
  /\ UNCHANGED <<prog, pc, mounts, timefile, cut, moved, latest>>

\* Seeded fault: the loop leaves out the last file.
TransferredButLast(r) ==
  /\ i[r] + 1 >= NumFiles
  /\ Go(r, "transfer", "time")
  /\ UNCHANGED <<prog, i, handle, host, cut, history>>

\* perf_stop, and the bandwidth line for size * times bytes.
Transferred(r) ==
  /\ i[r] = NumFiles
  /\ Go(r, "transfer", "time")
  /\ UNCHANGED <<prog, i, handle, host, cut, history>>

-----------------------------------------------------------------------------
(* The time file, and umount_volume *)

\* fopen "w+" truncates.
OpenTime(r) ==
  /\ Go(r, "time", "store")
  /\ timefile' = [timefile EXCEPT ![Mode(prog[r])] = "empty"]
  /\ UNCHANGED <<prog, i, handle, mounts, files, cut, history>>

OpenTimeFails(r) ==
  /\ IOFails
  /\ Go(r, "time", Out(r))
  /\ Failed(r, "time")
  /\ UNCHANGED <<prog, i, handle, host, cut, moved, latest>>

\* Seeded fault: write.c keeps the path of read.c.
StoreTimeOfRead(r) ==
  /\ Go(r, "store", IF Mounting(prog[r]) THEN "out" ELSE "ended")
  /\ timefile' = [timefile EXCEPT !["read"] = r]
  /\ UNCHANGED <<prog, i, handle, mounts, files, cut, history>>

\* fprintf and fclose, of which nobody looks at the results.
StoreTime(r) ==
  /\ Go(r, "store", IF Mounting(prog[r]) THEN "out" ELSE "ended")
  /\ \/ /\ timefile' = [timefile EXCEPT ![Mode(prog[r])] = r]
        /\ UNCHANGED faults
     \/ /\ IOFails
        /\ Failed(r, "store")
        /\ UNCHANGED timefile
  /\ UNCHANGED <<prog, i, handle, mounts, files, cut, moved, latest>>

\* A file is open on the uppermost mount.
Busy == mounts # <<>> /\ \E s \in Runs : handle[s] = Last(mounts)

\* umount takes the uppermost mount, whoever mounted it.
Umount(r) ==
  /\ Go(r, "out", "ended")
  /\ mounts # <<>>
  /\ ~ Busy
  /\ mounts' = Front(mounts)
  /\ UNCHANGED <<prog, i, handle, files, timefile, cut, history>>

\* Seeded fault: umount is tried until it succeeds.
UmountAgain(r) ==
  /\ pc[r] = "out"
  /\ IOFails \/ mounts = <<>> \/ Busy
  /\ Failed(r, "umount")
  /\ UNCHANGED <<prog, pc, i, handle, host, cut, moved, latest>>

UmountFails(r) ==
  /\ Go(r, "out", "ended")
  /\ IOFails \/ mounts = <<>> \/ Busy
  /\ Failed(r, "umount")
  /\ UNCHANGED <<prog, i, handle, host, cut, moved, latest>>

-----------------------------------------------------------------------------

Killed(r) ==
  /\ Dies
  /\ Running(r)
  /\ pc' = [pc EXCEPT ![r] = "ended"]
  /\ IF handle[r] = "none" THEN UNCHANGED files ELSE BreaksOff(r)
  /\ handle' = [handle EXCEPT ![r] = "none"]
  /\ Failed(r, "killed")
  /\ UNCHANGED <<prog, i, mounts, timefile, cut, moved, latest>>

\* The driver takes the run for ended.
SshDies(r) ==
  /\ SshBreaks
  /\ Running(r)
  /\ r \notin cut
  /\ cut' = cut \cup {r}
  /\ UNCHANGED <<prog, pc, i, handle, host, history>>

Program(r) ==
  \/ Mount(r) \/ MountGivesUp(r)
  \/ OpenFile(r) \/ SkipFile(r) \/ Abort(r)
  \/ MoveFile(r) \/ MoveFails(r) \/ Transferred(r)
  \/ OpenTime(r) \/ OpenTimeFails(r) \/ StoreTime(r)
  \/ Umount(r) \/ UmountFails(r)

Next == \E r \in Runs : Start(r) \/ Program(r) \/ Killed(r) \/ SshDies(r)

Spec == Init /\ [][Next]_vars

\* A program that was started runs, and its system calls return.
FairSpec == Spec /\ \A r \in Runs : WF_vars(Program(r))

-----------------------------------------------------------------------------
(* Properties *)

Fault == {"mount", "file", "local", "time", "store", "umount", "killed"}

TypeOK ==
  /\ prog \in [Runs -> Programs]
  /\ pc \in [Runs -> {"idle", "mount", "transfer", "time", "store", "out", "ended"}]
  /\ i \in [Runs -> 0 .. NumFiles]
  /\ handle \in [Runs -> Runs \cup {"none", "local", "libgfapi"}]
  /\ mounts \in Seq(Runs)
  /\ files \in [{"volume", "local"} -> [Files -> Content]]
  /\ timefile \in [{"read", "write"} -> Runs \cup {"old", "empty"}]
  /\ cut \subseteq Runs
  /\ moved \in [Runs -> SUBSET Files]
  /\ faults \in [Runs -> SUBSET Fault]
  /\ latest \in [{"read", "write"} -> Runs \cup {"none"}]

\* While no ssh connection breaks, no program works on the directory below the
\* mountpoint in place of the volume, whatever fails and whatever mounts
\* earlier runs left or took away (client-perf-test/read.c:71-85).
OnVolume ==
  cut = {} => \A r \in Runs : handle[r] # "local"

\* Which runs leave their mount behind, as far as no ssh connection breaks: one
\* that was killed or whose umount failed, and a write that gave up after its
\* mount or at its time file (client-perf-test/write.c:75, 100-106).
CleanExit ==
  cut = {} =>
    \A r \in Range(mounts) :
      \/ Running(r)
      \/ faults[r] \cap {"killed", "umount"} # {}
      \/ prog[r] = "write" /\ faults[r] \cap {"mount", "time"} # {}

\* The bandwidth line counts every file of the run.  When no call failed, a
\* writer has written them all and a reader has read those it could read to
\* the end; missing files and lines cut short it counts as well
\* (client-perf-test/read.c:80-90, glapi-perf-test/read.c:44-47).
TransferComplete ==
  \A r \in Runs :
    cut = {} /\ pc[r] = "time" /\ "file" \notin faults[r] =>
      moved[r] = {f \in Files : Mode(prog[r]) = "write"
                                  \/ files["volume"][f] \in Whole(prog[r])}

\* A reader that gave up at its mount, and umounted all the same.
TookMount(s) ==
  /\ prog[s] = "read" /\ "mount" \in faults[s]
  /\ pc[s] = "ended" /\ faults[s] \cap {"umount", "killed"} = {}

\* A time in /tmp/<mode>.time was measured by a run that had mounted and went over
\* all its files.  It may have measured the directory below the mountpoint, for
\* which two things must come together: an ssh connection broke, so that runs
\* overlapped, and a reader whose mount had failed took a mount away, not
\* necessarily this run's own (client-perf-test/read.c:71-106, write.c:100-107).
TimeIsMeasured ==
  \A m \in {"read", "write"} :
    LET r == timefile[m] IN
    r \in Runs =>
      /\ Mode(prog[r]) = m /\ i[r] = NumFiles /\ "mount" \notin faults[r]
      /\ "local" \in faults[r] => cut # {} /\ \E s \in Runs : TookMount(s)

\* What the driver relies on when it fetches the time file of a run that ended:
\* if nothing failed it is this run's.  The exit status says nothing of it, and
\* after a failure it may be older or empty (client-perf-test/read.c:97-107).
TimeIsLatest ==
  \A m \in {"read", "write"} :
    LET r == latest[m] IN
    cut = {} /\ r \in Runs /\ pc[r] = "ended" /\ faults[r] = {} => timefile[m] = r

\* A program ends, which is what a driver without timeouts relies on: no mount
\* that is busy, missing or somebody else's keeps it.
RunEnds == \A r \in Runs : Running(r) ~> pc[r] = "ended"
=============================================================================
