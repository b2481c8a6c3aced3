------------------------------- MODULE DirTree -------------------------------
(***************************************************************************)
(* The directory test dir-ops/client-dir-ops.c: for ever, build a tree of  *)
(* random shape with recursive_create_fn, then remove it with cleandir.    *)
(* With once it is dir-ops/client-write.c, which builds one tree and ends. *)
(* The recursion is a stack of the calls' local variables; a node of the   *)
(* tree is the sequence of the loop indices on the way to it.              *)
(***************************************************************************)
EXTENDS Naturals, SequencesExt

CONSTANTS
  MinCnt, MaxCnt,  \* the entries of a directory: 5 to 99 in the source
  MaxDepth,        \* dir_depth is at most 5 in the source
  Descriptors,     \* how many files the program can have open
  IOFails          \* may mkdir, fopen, fputs, opendir and remove fail for no reason?

ASSUME DirTreeAssumption ==
  /\ MinCnt \in Nat \ {0}
  /\ MaxCnt \in Nat
  /\ MinCnt <= MaxCnt
  /\ MaxDepth \in 1 .. 128  \* the streams cleandir lets nftw have open
  /\ Descriptors \in Nat \ {0}
  /\ IOFails \in BOOLEAN

VARIABLES
  once,      \* one tree and no cleandir: client-write.c
  pc,        \* where main is
  dir_depth, \* the depth of the tree of this iteration
  stack,     \* the calls of recursive_create_fn: their i and dir_cnt
  dirs,      \* the directories below root_dir
  files,     \* the files below root_dir
  lost,      \* the descriptors that nobody closes
  drawn,     \* the dir_cnt that each directory's call drew (history)
  failed     \* did the volume fail in this iteration? (history)

vars == <<once, pc, dir_depth, stack, dirs, files, lost, drawn, failed>>

Nodes == dirs \cup files

Call == [i : 0 .. MaxCnt, dir_cnt : MinCnt .. MaxCnt]

\* dir_cnt is 5 + rand() % 95, or the constant of client-write.c.
DirCnts == IF once THEN {MaxCnt} ELSE MinCnt .. MaxCnt

Frame(cnt) == [i |-> 0, dir_cnt |-> cnt]

Top == Last(stack)

\* path_buf of the innermost call.
Path == [k \in 1 .. Len(stack) |-> stack[k].i]

\* Seeded fault: i is shared by all the calls.
ReturnedShared ==
  LET rest == Front(stack)
  IN  IF rest = <<>> THEN rest ELSE [rest EXCEPT ![Len(rest)].i = rest[Len(rest)].dir_cnt]

\* The innermost call returns; its caller, which drops the result, goes on
\* with its next entry.
Returned ==
  LET rest == Front(stack)
  IN  IF rest = <<>> THEN rest ELSE [rest EXCEPT ![Len(rest)].i = @ + 1]

\* After the first cleandir, which the user confirmed, root_dir is empty;
\* client-write.c may find the tree of an earlier run.
Init ==
  /\ once \in BOOLEAN
  /\ pc = "loop"
  /\ dir_depth = IF once THEN MaxDepth ELSE 1
  /\ stack = <<>>
  /\ dirs \in IF once /\ MaxDepth > 1 THEN {{}, {<<0>>}} ELSE {{}}
  /\ files = {}
  /\ lost = 0
  /\ drawn = <<>>
  /\ failed = FALSE

-----------------------------------------------------------------------------
(* Building the tree *)

\* dir_depth = 1 + rand() % 5, or the constant of client-write.c, and the call
\* of main.
Begin ==
  /\ pc = "loop"
  /\ pc' = "create"
  /\ dir_depth' \in IF once THEN {MaxDepth} ELSE 1 .. MaxDepth
  /\ \E cnt \in DirCnts :
       /\ stack' = <<Frame(cnt)>>
       /\ drawn' = [node \in {<<>>} |-> cnt]
  /\ failed' = FALSE
  /\ UNCHANGED <<once, lost, dirs, files>>

\* The body of the loop over the entries of a directory.
Creating == pc = "create" /\ stack # <<>> /\ Top.i < Top.dir_cnt

\* mkdir and the call for the new directory, which draws its own dir_cnt.
MakeDir ==
  /\ Creating
  /\ Len(stack) < dir_depth
  /\ Path \notin Nodes
  /\ dirs' = dirs \cup {Path}
  /\ \E cnt \in DirCnts :
       /\ stack' = Append(stack, Frame(cnt))
       /\ drawn' = [node \in DOMAIN drawn \cup {Path} |->
                      IF node = Path THEN cnt ELSE drawn[node]]
  /\ UNCHANGED <<once, lost, pc, dir_depth, files, failed>>

\* Seeded fault: mkdir is tried again until it succeeds.
MakeDirAgain ==
  /\ Creating
  /\ Len(stack) < dir_depth
  /\ IOFails \/ Path \in Nodes
  /\ failed' = (failed \/ Path \notin Nodes)
  /\ UNCHANGED <<once, lost, drawn, pc, dir_depth, stack, dirs, files>>

\* mkdir fails, because the node exists or otherwise: the call returns -1.
\* main exits on that; any other caller does not look at it.
MakeDirFails ==
  /\ Creating
  /\ Len(stack) < dir_depth
  /\ IOFails \/ Path \in Nodes
  /\ stack' = Returned
  /\ pc' = IF stack' = <<>> THEN "died" ELSE pc
  /\ failed' = (failed \/ Path \notin Nodes)
  /\ UNCHANGED <<once, lost, drawn, dir_depth, dirs, files>>

\* Seeded fault: the file goes into the directory above.
MakeFileAbove ==
  /\ Creating
  /\ Len(stack) = dir_depth
  /\ LET above == Front(Path)
     IN  /\ above \notin dirs
         /\ files' = files \cup {above}
  /\ stack' = [stack EXCEPT ![Len(stack)].i = @ + 1]
  /\ UNCHANGED <<once, lost, drawn, pc, dir_depth, dirs, failed>>

\* fopen "w" makes the file or truncates it.
MakeFile ==
  /\ Creating
  /\ Len(stack) = dir_depth
  /\ Path \notin dirs
  /\ lost < Descriptors
  /\ files' = files \cup {Path}
  /\ stack' = [stack EXCEPT ![Len(stack)].i = @ + 1]
  /\ UNCHANGED <<once, lost, drawn, pc, dir_depth, dirs, failed>>

\* fopen or, with the file made, fputs fails: the call gives up its remaining
\* entries and returns 0, after fputs without fclose.
MakeFileFails ==
  /\ Creating
  /\ Len(stack) = dir_depth
  /\ \/ /\ IOFails \/ Path \in dirs \/ lost = Descriptors
        /\ UNCHANGED <<files, lost>>
     \/ /\ IOFails /\ Path \notin dirs /\ lost < Descriptors
        /\ files' = files \cup {Path}
        /\ lost' = lost + 1
  /\ stack' = Returned
  /\ pc' = IF stack' = <<>> THEN "created" ELSE pc
  /\ failed' = (failed \/ (Path \notin dirs /\ lost < Descriptors))
  /\ UNCHANGED <<once, drawn, dir_depth, dirs>>

\* The loop over the entries is over and the call returns 0.
Return ==
  /\ pc = "create"
  /\ Top.i = Top.dir_cnt
  /\ stack' = Returned
  /\ pc' = IF stack' = <<>> THEN "created" ELSE pc
  /\ UNCHANGED <<once, lost, drawn, dir_depth, dirs, files, failed>>

\* "recursive create ok"; client-write.c returns from main.
Created ==
  /\ pc = "created"
  /\ pc' = IF once THEN "done" ELSE "clean"
  /\ drawn' = <<>>
  /\ UNCHANGED <<once, lost, dir_depth, stack, dirs, files, failed>>

-----------------------------------------------------------------------------
(* cleandir: nftw with FTW_DEPTH calls remove_fn on everything but the root *)

Childless(node) == \A child \in Nodes : child = node \/ ~ IsPrefix(node, child)

\* Seeded fault: FTW_DEPTH is forgotten, and remove fails on a directory that
\* is visited before its entries.
RemoveInPreorder ==
  /\ pc = "clean"
  /\ \E node \in Nodes :
       IF Childless(node)
       THEN dirs' = dirs \ {node} /\ files' = files \ {node} /\ UNCHANGED pc
       ELSE pc' = "died" /\ UNCHANGED <<dirs, files>>
  /\ UNCHANGED <<once, lost, drawn, dir_depth, stack, failed>>

\* nftw has the directory open, and all directories above it, while it visits
\* the entries.
CanOpen(dir) == lost + Len(dir) + 1 <= Descriptors

\* A directory comes after everything in it.
RemoveNode ==
  /\ pc = "clean"
  /\ \E node \in Nodes :
       /\ Childless(node)
       /\ CanOpen(IF node \in dirs THEN node ELSE Front(node))
       /\ dirs' = dirs \ {node}
       /\ files' = files \ {node}
  /\ UNCHANGED <<once, lost, drawn, pc, dir_depth, stack, failed>>

\* nftw fails because the volume does, or comes to a directory for which no
\* descriptor is left.
NftwFails ==
  \/ IOFails /\ failed' = TRUE
  \/ (\E dir \in dirs \cup {<<>>} : ~ CanOpen(dir)) /\ UNCHANGED failed

\* Seeded fault: main does not look at the result of cleandir.
RemoveIgnored ==
  /\ pc = "clean"
  /\ NftwFails
  /\ pc' = "loop"
  /\ UNCHANGED <<once, lost, drawn, dir_depth, stack, dirs, files>>

\* cleandir returns -1 and main exits.
RemoveFails ==
  /\ pc = "clean"
  /\ NftwFails
  /\ pc' = "died"
  /\ UNCHANGED <<once, lost, drawn, dir_depth, stack, dirs, files>>

\* "recursive delete ok", and the next iteration.
Cleaned ==
  /\ pc = "clean"
  /\ CanOpen(<<>>)
  /\ Nodes = {}
  /\ pc' = "loop"
  /\ UNCHANGED <<once, lost, drawn, dir_depth, stack, dirs, files, failed>>

Next ==
  \/ Begin \/ MakeDir \/ MakeDirFails \/ MakeFile \/ MakeFileFails \/ Return
  \/ Created \/ RemoveNode \/ RemoveFails \/ Cleaned

Spec == Init /\ [][Next]_vars

\* The program runs on.
FairSpec == Spec /\ WF_vars(Next)

-----------------------------------------------------------------------------
(* Properties *)

TypeOK ==
  /\ once \in BOOLEAN
  /\ pc \in {"loop", "create", "created", "clean", "died", "done"}
  /\ dir_depth \in 1 .. MaxDepth
  /\ stack \in Seq(Call)
  /\ Len(stack) <= dir_depth
  /\ dirs \cup files \subseteq Seq(0 .. MaxCnt - 1)
  /\ lost \in 0 .. Descriptors
  /\ failed \in BOOLEAN

\* The tree is a tree, whatever failed while it was built or removed: the
\* parent of a node is a directory, and files are at the bottom, where nothing
\* is a directory (client-dir-ops.c:51-79).
TreeShape ==
  /\ dirs \cap files = {}
  /\ \A node \in Nodes : Len(node) > 1 => Front(node) \in dirs
  /\ \A node \in files : Len(node) = dir_depth
  /\ \A node \in dirs : Len(node) < dir_depth

\* The entries of a node, or of root_dir.
EntriesOf(node) == {child \in Nodes : Len(child) = Len(node) + 1 /\ IsPrefix(node, child)}

\* "each dir has 5~99 files/subdirs" (client-dir-ops.c:46): the number its call
\* drew.
Filled ==
  \A node \in dirs \cup {<<>>} :
    EntriesOf(node) = {Append(node, k) : k \in 0 .. drawn[node] - 1}

\* When the volume did not fail the tree is complete: in spite of the dropped
\* results, every directory at every level got all its entries before main went
\* on (client-dir-ops.c:48-80, 113), as long as the failed writes of earlier
\* iterations left a descriptor. client-write.c may have met an old node.
FilledUnlessFailed ==
  pc = "created" /\ ~ failed /\ ~ once /\ lost < Descriptors => Filled

\* The endless loop exits only because the volume failed in this iteration, or
\* because failed writes of earlier ones left fewer descriptors than the tree has
\* levels, which is what nftw needs: mkdir never meets a node that an earlier
\* iteration left behind, not even one in which operations failed
\* (client-dir-ops.c:40, 56, 76, 113-122).
DiesOnlyOfFailure ==
  pc = "died" => failed \/ once \/ lost + dir_depth > Descriptors

\* An iteration ends: the recursion returns to main and cleandir empties the
\* tree, or the program exits (client-dir-ops.c:108-125).
IterationEnds == (pc = "create") ~> (pc \in {"loop", "died", "done"})

\* When failed writes have cost all descriptors the program ends; it does not
\* announce trees without files for ever (client-dir-ops.c:76, 119-122).
EndsWithoutDescriptors == (lost = Descriptors) ~> (pc \in {"died", "done"})
=============================================================================
