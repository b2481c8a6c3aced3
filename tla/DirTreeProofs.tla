---------------------------- MODULE DirTreeProofs ----------------------------
(***************************************************************************)
(* Theorems about the directory test, for any bounds on the entries, the   *)
(* depth and the descriptors, and whatever fails while a tree is built or  *)
(* removed.                                                                *)
(***************************************************************************)
EXTENDS DirTree, SequenceTheorems, TLAPS

-----------------------------------------------------------------------------
(* The inductive invariant *)

\* path_buf of the k-th call of a stack.
PathOf(s, k) == [j \in 1 .. k |-> s[j].i]

\* Every call but the innermost is at an entry for which it made a directory.
StackOK(s, ds) ==
  \A k \in 1 .. Len(s) :
    /\ s[k].i <= s[k].dir_cnt
    /\ k < Len(s) => s[k].i < s[k].dir_cnt /\ PathOf(s, k) \in ds

StackInv ==
  /\ pc = "create" <=> stack # <<>>
  /\ StackOK(stack, dirs)

\* An iteration of the endless loop starts without a node; client-write.c has
\* one iteration, at a fixed depth.
StartInv ==
  /\ pc = "loop" /\ ~ once => Nodes = {}
  /\ once => dir_depth = MaxDepth

\* The entries of root_dir that the outermost call made are behind it, but for
\* the one whose directory an inner call is filling.
BehindInv ==
  ~ once /\ stack # <<>> =>
    \A node \in Nodes :
      /\ Len(node) > 0
      /\ node[1] <= stack[1].i
      /\ Len(stack) = 1 => node[1] < stack[1].i

DirInv ==
  TypeOK /\ StackInv /\ StartInv /\ BehindInv /\ TreeShape /\ DiesOnlyOfFailure

-----------------------------------------------------------------------------
(* Sequences *)

\* A function on 1 .. n is a sequence of length n.
LEMMA FunctionIsSequence ==
  ASSUME NEW S, NEW n \in Nat, NEW f \in [1 .. n -> S]
  PROVE  f \in Seq(S) /\ Len(f) = n
OBVIOUS

LEMMA FrontOf ==
  ASSUME NEW S, NEW s \in Seq(S), s # <<>>
  PROVE  /\ Len(s) \in Nat \ {0}
         /\ Front(s) \in Seq(S)
         /\ Len(Front(s)) = Len(s) - 1
         /\ \A j \in 1 .. Len(s) - 1 : Front(s)[j] = s[j]
<1>1. Len(s) \in Nat \ {0} /\ Front(s) = SubSeq(s, 1, Len(s) - 1)
  BY DEF Front
<1>2. 1 \in Int /\ Len(s) - 1 \in Int /\ \A j \in 1 .. Len(s) - 1 : s[j] \in S
  BY <1>1
<1>3. /\ Front(s) \in Seq(S)
      /\ Len(Front(s)) = IF 1 <= Len(s) - 1 THEN (Len(s) - 1) - 1 + 1 ELSE 0
      /\ \A j \in 1 .. (Len(s) - 1) - 1 + 1 : Front(s)[j] = s[1 + j - 1]
  BY <1>1, <1>2, SubSeqProperties
<1>4. Len(Front(s)) = Len(s) - 1
  <2>1. Len(s) - 1 \in Nat
    BY <1>1
  <2>2. \A n \in Nat : (IF 1 <= n THEN n - 1 + 1 ELSE 0) = n
    OBVIOUS
  <2> QED
    BY <1>3, <2>1, <2>2
<1>5. \A j \in 1 .. Len(s) - 1 : j \in 1 .. (Len(s) - 1) - 1 + 1 /\ 1 + j - 1 = j
  BY <1>1
<1> QED
  BY <1>1, <1>3, <1>4, <1>5

\* A parent is a prefix of its child: a directory with an entry is not
\* childless.
LEMMA ParentIsPrefix ==
  ASSUME NEW S, NEW s \in Seq(S), s # <<>>
  PROVE  IsPrefix(Front(s), s) /\ Front(s) # s
<1>1. /\ Len(s) \in Nat \ {0} /\ Front(s) \in Seq(S)
      /\ Len(Front(s)) = Len(s) - 1
      /\ \A j \in 1 .. Len(s) - 1 : Front(s)[j] = s[j]
  BY FrontOf
<1>2. SubSeq(Front(s), 1, Len(Front(s))) = Front(s)
  BY <1>1, SubSeqFull
<1>3. SubSeq(s, 1, Len(Front(s))) = Front(s)
  BY <1>1 DEF Front
<1> QED
  BY <1>1, <1>2, <1>3 DEF IsPrefix

-----------------------------------------------------------------------------
(* The recursion *)

LEMMA Numbers == MinCnt \in Nat \ {0} /\ MaxCnt \in Nat /\ MinCnt <= MaxCnt
                 /\ MaxDepth \in Nat \ {0} /\ Descriptors \in Nat \ {0}
BY DirTreeAssumption DEF DirTreeAssumption

LEMMA FrameIsCall == \A cnt \in DirCnts : Frame(cnt) \in Call /\ cnt > 0
BY Numbers DEF DirCnts, Frame, Call

\* Where the program is while it fills a directory.
LEMMA PathFacts ==
  ASSUME DirInv, Creating
  PROVE  /\ Len(stack) \in Nat \ {0} /\ pc = "create"
         /\ Path \in Seq(0 .. MaxCnt - 1)
         /\ Len(Path) = Len(stack)
         /\ Path[1] = stack[1].i
         /\ Len(stack) > 1 => Front(Path) \in dirs
<1>1. /\ pc = "create" /\ stack # <<>> /\ stack \in Seq(Call)
      /\ StackOK(stack, dirs) /\ Top.i < Top.dir_cnt
  BY DEF Creating, DirInv, TypeOK, StackInv
<1>2. /\ Len(stack) \in Nat \ {0} /\ Top = stack[Len(stack)]
  BY <1>1 DEF Top, Last
<1>3. \A k \in 1 .. Len(stack) :
        /\ stack[k] \in Call
        /\ stack[k].i < stack[k].dir_cnt
  <2> SUFFICES ASSUME NEW k \in 1 .. Len(stack)
               PROVE  stack[k] \in Call /\ stack[k].i < stack[k].dir_cnt
    OBVIOUS
  <2>1. CASE k < Len(stack)
    BY <1>1, <1>2, <2>1 DEF StackOK
  <2>2. CASE k = Len(stack)
    BY <1>1, <1>2, <2>2
  <2> QED
    BY <1>2, <2>1, <2>2
<1>4. \A k \in 1 .. Len(stack) : stack[k].i \in 0 .. MaxCnt - 1
  BY <1>3, Numbers DEF Call
<1>5. /\ Path \in [1 .. Len(stack) -> 0 .. MaxCnt - 1]
      /\ \A k \in 1 .. Len(stack) : Path[k] = stack[k].i
  BY <1>4 DEF Path
<1>6. Path \in Seq(0 .. MaxCnt - 1) /\ Len(Path) = Len(stack)
  BY <1>2, <1>5, FunctionIsSequence
<1>7. ASSUME Len(stack) > 1 PROVE Front(Path) \in dirs
  <2> DEFINE n == Len(stack) - 1
  <2>1. n \in 1 .. Len(stack) /\ n < Len(stack)
    BY <1>2, <1>7
  <2>2. PathOf(stack, n) \in dirs
    BY <1>1, <2>1 DEF StackOK
  <2>3. /\ PathOf(stack, n) \in Seq(0 .. MaxCnt - 1)
        /\ Len(PathOf(stack, n)) = n
        /\ \A j \in 1 .. n : PathOf(stack, n)[j] = stack[j].i
    <3>1. \A j \in 1 .. n : j \in 1 .. Len(stack)
      BY <1>2, <2>1
    <3>2. PathOf(stack, n) \in [1 .. n -> 0 .. MaxCnt - 1]
      BY <1>4, <3>1 DEF PathOf
    <3> QED
      BY <1>2, <2>1, <3>2, FunctionIsSequence DEF PathOf
  <2>4. Path # <<>>
    BY <1>2, <1>6
  <2>5. /\ Front(Path) \in Seq(0 .. MaxCnt - 1)
        /\ Len(Front(Path)) = n
        /\ \A j \in 1 .. n : Front(Path)[j] = Path[j]
    BY <1>6, <2>4, FrontOf
  <2>6. \A j \in 1 .. n : Front(Path)[j] = PathOf(stack, n)[j]
    BY <1>2, <1>5, <2>3, <2>5
  <2>7. Front(Path) = PathOf(stack, n)
    BY <2>3, <2>5, <2>6, SeqEqual
  <2> QED
    BY <2>2, <2>7
<1> QED
  BY <1>1, <1>2, <1>5, <1>6, <1>7

LEMMA NextIndex ==
  ASSUME NEW c \in Call, c.i < c.dir_cnt
  PROVE  /\ [c EXCEPT !.i = @ + 1] \in Call
         /\ [c EXCEPT !.i = @ + 1].i = c.i + 1
         /\ [c EXCEPT !.i = @ + 1].dir_cnt = c.dir_cnt
         /\ c.i + 1 <= c.dir_cnt
         /\ c.i <= c.dir_cnt
BY Numbers DEF Call

\* A call goes on with its next entry.
LEMMA NextEntry ==
  ASSUME NEW s \in Seq(Call), s # <<>>, NEW ds,
         \A k \in 1 .. Len(s) : s[k].i < s[k].dir_cnt,
         \A k \in 1 .. Len(s) : k < Len(s) => PathOf(s, k) \in ds,
         NEW t, t = [s EXCEPT ![Len(s)].i = @ + 1]
  PROVE  /\ t \in Seq(Call)
         /\ Len(t) = Len(s)
         /\ StackOK(t, ds)
         /\ Len(s) = 1 => t[1].i = s[1].i + 1
         /\ Len(s) > 1 => t[1].i = s[1].i
<1> DEFINE n == Len(s)
<1>1. n \in Nat \ {0} /\ n \in 1 .. n /\ 1 \in 1 .. n
  OBVIOUS
<1>2. s[n] \in Call /\ s[n].i < s[n].dir_cnt
  BY <1>1
<1>3. [s[n] EXCEPT !.i = @ + 1] \in Call
  BY <1>2, NextIndex
<1>4. /\ t \in [1 .. n -> Call]
      /\ t[n] = [s[n] EXCEPT !.i = @ + 1]
      /\ \A j \in 1 .. n : j # n => t[j] = s[j]
  <2>1. s \in [1 .. n -> Call]
    OBVIOUS
  <2>2. t = [s EXCEPT ![n] = [s[n] EXCEPT !.i = @ + 1]]
    OBVIOUS
  <2> QED
    BY <1>1, <1>3, <2>1, <2>2
<1>5. t \in Seq(Call) /\ Len(t) = n
  BY <1>1, <1>4, FunctionIsSequence
<1>6. \A k \in 1 .. n : k < n => PathOf(t, k) = PathOf(s, k)
  BY <1>1, <1>4 DEF PathOf
<1>7. t[n].i = s[n].i + 1 /\ t[n].dir_cnt = s[n].dir_cnt
  BY <1>2, <1>4, NextIndex
<1>8. StackOK(t, ds)
  <2> SUFFICES ASSUME NEW k \in 1 .. n
               PROVE  /\ t[k].i <= t[k].dir_cnt
                      /\ k < n => t[k].i < t[k].dir_cnt /\ PathOf(t, k) \in ds
    BY <1>5 DEF StackOK
  <2>1. CASE k = n
    BY <1>2, <1>7, <2>1, NextIndex
  <2>2. CASE k # n
    <3>1. t[k] = s[k] /\ s[k] \in Call /\ s[k].i < s[k].dir_cnt
      BY <1>4, <2>2
    <3>2. s[k].i <= s[k].dir_cnt
      BY <3>1, NextIndex
    <3>3. k < n => PathOf(t, k) \in ds
      BY <1>6
    <3> QED
      BY <3>1, <3>2, <3>3
  <2> QED
    BY <2>1, <2>2
<1> QED
  BY <1>1, <1>4, <1>5, <1>7, <1>8

\* The innermost call returns, and its caller goes on with its next entry.
LEMMA ReturnedStack ==
  ASSUME stack \in Seq(Call), stack # <<>>, StackOK(stack, dirs),
         stack' = Returned
  PROVE  /\ stack' \in Seq(Call)
         /\ Len(stack) \in Nat \ {0}
         /\ Len(stack') = Len(stack) - 1
         /\ StackOK(stack', dirs)
         /\ stack' = <<>> <=> Len(stack) = 1
         /\ Len(stack) = 2 => stack'[1].i = stack[1].i + 1
         /\ Len(stack) > 2 => stack'[1].i = stack[1].i
<1> DEFINE rest == Front(stack)
           n == Len(rest)
<1>1. /\ Len(stack) \in Nat \ {0} /\ rest \in Seq(Call)
      /\ n = Len(stack) - 1 /\ n \in Nat
      /\ \A j \in 1 .. n : rest[j] = stack[j]
  BY FrontOf
<1>2. CASE rest = <<>>
  <2>1. stack' = <<>> /\ n = 0 /\ Len(stack) = 1
    BY <1>1, <1>2 DEF Returned
  <2>2. <<>> \in Seq(Call) /\ Len(<<>>) = 0
    OBVIOUS
  <2>3. StackOK(<<>>, dirs)
    BY <2>2 DEF StackOK
  <2> QED
    BY <2>1, <2>2, <2>3
<1>3. CASE rest # <<>>
  <2>1. stack' = [rest EXCEPT ![n].i = @ + 1]
    BY <1>3 DEF Returned
  <2>2. \A k \in 1 .. n : k \in 1 .. Len(stack) /\ k < Len(stack)
    BY <1>1
  <2>3. \A k \in 1 .. n : rest[k].i < rest[k].dir_cnt
    BY <1>1, <2>2 DEF StackOK
  <2>4. \A k \in 1 .. n : PathOf(rest, k) = PathOf(stack, k)
    BY <1>1 DEF PathOf
  <2>5. \A k \in 1 .. n : k < n => PathOf(rest, k) \in dirs
    BY <2>2, <2>4 DEF StackOK
  <2>6. /\ stack' \in Seq(Call) /\ Len(stack') = n
        /\ StackOK(stack', dirs)
        /\ n = 1 => stack'[1].i = rest[1].i + 1
        /\ n > 1 => stack'[1].i = rest[1].i
    BY <1>1, <1>3, <2>1, <2>3, <2>5, NextEntry
  <2>7. n > 0 /\ rest[1] = stack[1] /\ stack' # <<>>
    BY <1>1, <1>3, <2>6
  <2> QED
    BY <1>1, <2>6, <2>7
<1> QED
  BY <1>2, <1>3

-----------------------------------------------------------------------------
(* Each step keeps the invariant *)

LEMMA NoCalls == <<>> \in Seq(Call) /\ Len(<<>>) = 0 /\ \A ds : StackOK(<<>>, ds)
BY DEF StackOK

\* The nodes after a step that makes none or the file it is at.
LEMMA NodesAfter ==
  ASSUME DirInv, pc = "create",
         \/ files' = files
         \/ /\ Creating /\ Len(stack) = dir_depth /\ Path \notin dirs
            /\ files' = files \cup {Path},
         UNCHANGED <<dirs, dir_depth>>
  PROVE  /\ TreeShape'
         /\ (dirs \cup files \subseteq Seq(0 .. MaxCnt - 1))'
         /\ ~ once => \A node \in Nodes' : /\ Len(node) > 0
                                           /\ node[1] <= stack[1].i
<1>1. /\ stack # <<>> /\ TreeShape /\ dirs \cup files \subseteq Seq(0 .. MaxCnt - 1)
      /\ ~ once => \A node \in Nodes : Len(node) > 0 /\ node[1] <= stack[1].i
  BY DEF DirInv, TypeOK, StackInv, BehindInv
<1>2. CASE files' = files
  <2>1. Nodes' = Nodes
    BY <1>2 DEF Nodes
  <2> QED
    BY <1>1, <1>2, <2>1 DEF TreeShape
<1>3. CASE Creating /\ Len(stack) = dir_depth /\ Path \notin dirs
           /\ files' = files \cup {Path}
  <2>1. /\ Path \in Seq(0 .. MaxCnt - 1) /\ Len(Path) = Len(stack)
        /\ Len(stack) > 0 /\ stack[1].i \in Int /\ Path[1] = stack[1].i
        /\ Len(stack) > 1 => Front(Path) \in dirs
    <3>1. stack \in Seq(Call) /\ Len(stack) \in Nat \ {0}
      BY <1>3, PathFacts DEF DirInv, TypeOK
    <3>2. stack[1] \in Call
      BY <3>1
    <3> QED
      BY <1>3, <3>1, <3>2, PathFacts, Numbers DEF Call
  <2>2. Nodes' = Nodes \cup {Path}
    BY <1>3 DEF Nodes
  <2>3. TreeShape'
    BY <1>1, <1>3, <2>1, <2>2 DEF TreeShape
  <2>4. ~ once => \A node \in Nodes' : Len(node) > 0 /\ node[1] <= stack[1].i
    BY <1>1, <2>1, <2>2
  <2> QED
    BY <1>1, <1>3, <2>1, <2>3, <2>4
<1> QED
  BY <1>2, <1>3

\* A return, with or without the file it is at.
LEMMA ReturnKeeps ==
  ASSUME DirInv, pc = "create", stack' = Returned,
         pc' \in {pc, "created", "died"}, pc' = "create" <=> stack' # <<>>,
         failed' \in BOOLEAN, lost' \in 0 .. Descriptors,
         \/ files' = files
         \/ /\ Creating /\ Len(stack) = dir_depth /\ Path \notin dirs
            /\ files' = files \cup {Path},
         UNCHANGED <<once, dir_depth, dirs>>
  PROVE  (TypeOK /\ StackInv /\ StartInv /\ BehindInv /\ TreeShape)'
<1>1. stack \in Seq(Call) /\ stack # <<>> /\ StackOK(stack, dirs)
  BY DEF DirInv, TypeOK, StackInv
<1>2. /\ stack' \in Seq(Call)
      /\ Len(stack) \in Nat \ {0} /\ Len(stack') = Len(stack) - 1
      /\ StackOK(stack', dirs)
      /\ stack' = <<>> <=> Len(stack) = 1
      /\ Len(stack) = 2 => stack'[1].i = stack[1].i + 1
      /\ Len(stack) > 2 => stack'[1].i = stack[1].i
  BY <1>1, ReturnedStack
<1>3. TypeOK'
  <2>1. Len(stack') <= dir_depth
    BY <1>2, Numbers DEF DirInv, TypeOK
  <2>2. pc' \in {"loop", "create", "created", "clean", "died", "done"}
    OBVIOUS
  <2>3. (dirs \cup files \subseteq Seq(0 .. MaxCnt - 1))'
    BY NodesAfter
  <2> QED
    BY <1>2, <2>1, <2>2, <2>3 DEF DirInv, TypeOK
<1>4. StackInv'
  BY <1>2 DEF StackInv
<1>5. StartInv'
  BY DEF DirInv, StartInv
<1>6. BehindInv'
  <2> SUFFICES ASSUME ~ once, stack' # <<>>, NEW node \in Nodes'
               PROVE  /\ Len(node) > 0
                      /\ node[1] <= stack'[1].i
                      /\ Len(stack') = 1 => node[1] < stack'[1].i
    BY DEF BehindInv
  <2>1. Len(node) > 0 /\ node[1] <= stack[1].i
    BY NodesAfter
  <2>2. node[1] \in Int /\ stack[1].i \in Int
    <3>1. node \in Seq(0 .. MaxCnt - 1) /\ stack[1] \in Call
      BY <1>1, <1>2, <1>3 DEF TypeOK, Nodes
    <3>2. 1 \in 1 .. Len(node)
      BY <2>1, <3>1
    <3>3. node[1] \in 0 .. MaxCnt - 1
      BY <3>1, <3>2, ElementOfSeq
    <3> QED
      BY <3>1, <3>3, Numbers DEF Call
  <2>3. Len(stack) >= 2
    BY <1>2
  <2> QED
    BY <1>2, <2>1, <2>2, <2>3
<1>7. TreeShape'
  BY NodesAfter
<1> QED
  BY <1>3, <1>4, <1>5, <1>6, <1>7

\* Steps of main between the calls: no call is open before or after.
LEMMA MainKeeps ==
  ASSUME DirInv, pc # "create", stack' = stack, pc' # "create",
         pc' \in {"loop", "clean", "died", "done"}, failed' \in BOOLEAN,
         dirs' \subseteq dirs, files' \subseteq files,
         pc' = "loop" => Nodes = {},
         UNCHANGED <<once, lost, dir_depth>>
  PROVE  (TypeOK /\ StackInv /\ StartInv /\ BehindInv)'
<1>1. stack = <<>>
  BY DEF DirInv, StackInv
<1>2. TypeOK'
  BY DEF DirInv, TypeOK
<1>3. StackInv'
  BY <1>1, NoCalls DEF StackInv
<1>4. StartInv'
  BY DEF DirInv, StartInv, Nodes
<1>5. BehindInv'
  BY <1>1 DEF BehindInv
<1> QED
  BY <1>2, <1>3, <1>4, <1>5

LEMMA BeginStep == DirInv /\ Begin => DirInv'
<1> SUFFICES ASSUME DirInv, Begin PROVE DirInv'
  OBVIOUS
<1>1. /\ pc = "loop" /\ pc' = "create" /\ failed' = FALSE
      /\ UNCHANGED <<once, lost, dirs, files>>
  BY DEF Begin
<1>2. dir_depth' \in 1 .. MaxDepth /\ (once => dir_depth' = dir_depth)
  BY Numbers DEF Begin, DirInv, StartInv
<1>3. PICK cnt \in DirCnts : stack' = <<Frame(cnt)>>
  BY DEF Begin
<1>4. /\ Frame(cnt) \in Call /\ Frame(cnt).i = 0
      /\ Frame(cnt).i <= Frame(cnt).dir_cnt
  BY <1>3, FrameIsCall DEF Frame, Call
<1>5. /\ stack' \in Seq(Call) /\ Len(stack') = 1 /\ stack' # <<>>
      /\ stack'[1] = Frame(cnt)
  BY <1>3, <1>4
<1>6. ~ once => Nodes = {}
  BY <1>1 DEF DirInv, StartInv
<1>7. TypeOK'
  <2>1. Len(stack') <= dir_depth'
    BY <1>2, <1>5, Numbers
  <2> QED
    BY <1>1, <1>2, <1>5, <2>1 DEF DirInv, TypeOK
<1>8. StackInv'
  <2>1. StackOK(stack', dirs)
    BY <1>4, <1>5 DEF StackOK
  <2> QED
    BY <1>1, <1>5, <2>1 DEF StackInv
<1>9. StartInv'
  BY <1>1, <1>2 DEF DirInv, StartInv
<1>10. BehindInv'
  BY <1>1, <1>6 DEF BehindInv, Nodes
<1>11. TreeShape'
  <2>1. CASE once
    BY <1>1, <1>2, <2>1 DEF DirInv, TreeShape, Nodes
  <2>2. CASE ~ once
    BY <1>1, <1>6, <2>2 DEF TreeShape, Nodes
  <2> QED
    BY <2>1, <2>2
<1>12. DiesOnlyOfFailure'
  BY <1>1 DEF DiesOnlyOfFailure
<1> QED
  BY <1>7, <1>8, <1>9, <1>10, <1>11, <1>12 DEF DirInv

LEMMA MakeDirStep == DirInv /\ MakeDir => DirInv'
<1> SUFFICES ASSUME DirInv, MakeDir PROVE DirInv'
  OBVIOUS
<1>1. /\ Creating /\ Len(stack) < dir_depth /\ Path \notin Nodes
      /\ dirs' = dirs \cup {Path}
      /\ UNCHANGED <<once, lost, pc, dir_depth, files, failed>>
  BY DEF MakeDir
<1>2. /\ Len(stack) \in Nat \ {0} /\ pc = "create"
      /\ Path \in Seq(0 .. MaxCnt - 1) /\ Len(Path) = Len(stack)
      /\ Path[1] = stack[1].i
      /\ Len(stack) > 1 => Front(Path) \in dirs
  BY <1>1, PathFacts
<1>3. PICK cnt \in DirCnts : stack' = Append(stack, Frame(cnt))
  BY DEF MakeDir
<1>4. /\ Frame(cnt) \in Call /\ Frame(cnt).i = 0
      /\ Frame(cnt).i <= Frame(cnt).dir_cnt
  BY <1>3, FrameIsCall DEF Frame, Call
<1>5. stack \in Seq(Call) /\ StackOK(stack, dirs) /\ Top.i < Top.dir_cnt
  BY <1>1, <1>2 DEF DirInv, TypeOK, StackInv, Creating
<1>6. /\ stack' \in Seq(Call) /\ Len(stack') = Len(stack) + 1
      /\ stack'[Len(stack) + 1] = Frame(cnt)
      /\ \A k \in 1 .. Len(stack) : stack'[k] = stack[k]
      /\ stack' # <<>>
  BY <1>2, <1>3, <1>4, <1>5
<1>7. TypeOK'
  <2>1. Len(stack') <= dir_depth
    BY <1>1, <1>2, <1>6, Numbers DEF DirInv, TypeOK
  <2>2. dirs' \cup files' \subseteq Seq(0 .. MaxCnt - 1)
    BY <1>1, <1>2 DEF DirInv, TypeOK
  <2> QED
    BY <1>1, <1>6, <2>1, <2>2 DEF DirInv, TypeOK
<1>8. StackInv'
  <2>1. \A k \in 1 .. Len(stack) : PathOf(stack', k) = PathOf(stack, k)
    BY <1>2, <1>6 DEF PathOf
  <2>2. PathOf(stack, Len(stack)) = Path
    BY DEF PathOf, Path
  <2>3. ASSUME NEW k \in 1 .. Len(stack)
        PROVE  /\ stack'[k].i <= stack'[k].dir_cnt
               /\ stack'[k].i < stack'[k].dir_cnt
               /\ PathOf(stack', k) \in dirs'
    <3>1. stack[k] \in Call /\ stack'[k] = stack[k]
      BY <1>5, <1>6
    <3>2. stack[k].i < stack[k].dir_cnt
      BY <1>2, <1>5 DEF StackOK, Top, Last
    <3>3. PathOf(stack, k) \in dirs'
      <4>1. CASE k = Len(stack)
        BY <1>1, <2>2, <4>1
      <4>2. CASE k < Len(stack)
        BY <1>1, <1>5, <4>2 DEF StackOK
      <4> QED
        BY <1>2, <4>1, <4>2
    <3> QED
      BY <2>1, <3>1, <3>2, <3>3, NextIndex
  <2>4. StackOK(stack', dirs')
    <3> SUFFICES ASSUME NEW k \in 1 .. Len(stack')
                 PROVE  /\ stack'[k].i <= stack'[k].dir_cnt
                        /\ k < Len(stack') => /\ stack'[k].i < stack'[k].dir_cnt
                                              /\ PathOf(stack', k) \in dirs'
      BY DEF StackOK
    <3>1. CASE k = Len(stack')
      BY <1>2, <1>4, <1>6, <3>1
    <3>2. CASE k < Len(stack')
      BY <1>2, <1>6, <2>3, <3>2
    <3> QED
      BY <1>2, <1>6, <3>1, <3>2
  <2> QED
    BY <1>1, <1>2, <1>6, <2>4 DEF StackInv
<1>9. StartInv'
  BY <1>1, <1>2 DEF DirInv, StartInv
<1>10. BehindInv'
  <2>1. stack'[1] = stack[1] /\ Len(stack') # 1 /\ stack[1].i \in Int
    <3>1. stack[1] \in Call
      BY <1>2, <1>5
    <3> QED
      BY <1>2, <1>6, <3>1, Numbers DEF Call
  <2>2. Nodes' = Nodes \cup {Path}
    BY <1>1 DEF Nodes
  <2>3. stack # <<>>
    BY <1>1 DEF Creating
  <2>4. Len(Path) > 0 /\ Path[1] <= stack[1].i
    BY <1>2, <2>1
  <2> QED
    BY <1>1, <2>1, <2>2, <2>3, <2>4 DEF DirInv, BehindInv
<1>11. TreeShape'
  BY <1>1, <1>2 DEF DirInv, TreeShape, Nodes
<1>12. DiesOnlyOfFailure'
  BY <1>1, <1>2 DEF DiesOnlyOfFailure
<1> QED
  BY <1>7, <1>8, <1>9, <1>10, <1>11, <1>12 DEF DirInv

LEMMA MakeDirFailsStep == DirInv /\ MakeDirFails => DirInv'
<1> SUFFICES ASSUME DirInv, MakeDirFails PROVE DirInv'
  OBVIOUS
<1>1. /\ Creating /\ stack' = Returned
      /\ pc' = IF stack' = <<>> THEN "died" ELSE pc
      /\ failed' = (failed \/ Path \notin Nodes)
      /\ UNCHANGED <<once, lost, dir_depth, dirs, files>>
  BY DEF MakeDirFails
<1>2. /\ Len(stack) \in Nat \ {0} /\ pc = "create" /\ Len(Path) = Len(stack)
      /\ Path[1] = stack[1].i
  BY <1>1, PathFacts
<1>3. (TypeOK /\ StackInv /\ StartInv /\ BehindInv /\ TreeShape)'
  <2>1. failed' \in BOOLEAN /\ lost' \in 0 .. Descriptors
    BY <1>1 DEF DirInv, TypeOK
  <2>2. pc' \in {pc, "created", "died"} /\ (pc' = "create" <=> stack' # <<>>)
    BY <1>1, <1>2
  <2> QED
    BY <1>1, <1>2, <2>1, <2>2, ReturnKeeps
<1>4. DiesOnlyOfFailure'
  <2> SUFFICES ASSUME pc' = "died", ~ once, Path \in Nodes PROVE FALSE
    BY <1>1 DEF DiesOnlyOfFailure
  <2>1. stack \in Seq(Call) /\ stack # <<>> /\ StackOK(stack, dirs)
    BY <1>1 DEF DirInv, TypeOK, StackInv, Creating
  <2>2. Len(stack) = 1
    BY <1>1, <1>2, <2>1, ReturnedStack
  <2>3. Path[1] < stack[1].i
    BY <2>1, <2>2 DEF DirInv, BehindInv
  <2>4. stack[1].i \in Int
    <3>1. stack[1] \in Call
      BY <2>1, <2>2
    <3> QED
      BY <3>1, Numbers DEF Call
  <2> QED
    BY <1>2, <2>3, <2>4
<1> QED
  BY <1>3, <1>4 DEF DirInv

LEMMA ReturnStep == DirInv /\ Return => DirInv'
<1> SUFFICES ASSUME DirInv, Return PROVE DirInv'
  OBVIOUS
<1>1. /\ pc = "create" /\ stack' = Returned
      /\ pc' = IF stack' = <<>> THEN "created" ELSE pc
      /\ UNCHANGED <<once, lost, dir_depth, dirs, files, failed>>
  BY DEF Return
<1>2. failed' \in BOOLEAN /\ lost' \in 0 .. Descriptors
  BY <1>1 DEF DirInv, TypeOK
<1>3. pc' \in {pc, "created", "died"} /\ (pc' = "create" <=> stack' # <<>>)
  BY <1>1
<1>4. (TypeOK /\ StackInv /\ StartInv /\ BehindInv /\ TreeShape)'
  BY <1>1, <1>2, <1>3, ReturnKeeps
<1>5. DiesOnlyOfFailure'
  BY <1>1 DEF DiesOnlyOfFailure
<1> QED
  BY <1>4, <1>5 DEF DirInv

LEMMA MakeFileStep == DirInv /\ MakeFile => DirInv'
<1> SUFFICES ASSUME DirInv, MakeFile PROVE DirInv'
  OBVIOUS
<1>1. /\ Creating /\ Len(stack) = dir_depth /\ Path \notin dirs
      /\ files' = files \cup {Path}
      /\ stack' = [stack EXCEPT ![Len(stack)].i = @ + 1]
      /\ UNCHANGED <<once, lost, pc, dir_depth, dirs, failed>>
  BY DEF MakeFile
<1>2. Len(stack) \in Nat \ {0} /\ pc = "create" /\ Path[1] = stack[1].i
  BY <1>1, PathFacts
<1>3. stack \in Seq(Call) /\ stack # <<>> /\ StackOK(stack, dirs)
  BY <1>1 DEF DirInv, TypeOK, StackInv, Creating
<1>4. /\ stack' \in Seq(Call) /\ Len(stack') = Len(stack)
      /\ StackOK(stack', dirs)
      /\ Len(stack) = 1 => stack'[1].i = stack[1].i + 1
      /\ Len(stack) > 1 => stack'[1].i = stack[1].i
  <2>1. \A k \in 1 .. Len(stack) : stack[k].i < stack[k].dir_cnt
    BY <1>1, <1>2, <1>3 DEF StackOK, Creating, Top, Last
  <2>2. \A k \in 1 .. Len(stack) : k < Len(stack) => PathOf(stack, k) \in dirs
    BY <1>3 DEF StackOK
  <2> QED
    BY <1>1, <1>3, <2>1, <2>2, NextEntry
<1>5. TreeShape' /\ (dirs \cup files \subseteq Seq(0 .. MaxCnt - 1))'
  BY <1>1, <1>2, NodesAfter
<1>6. TypeOK'
  BY <1>1, <1>4, <1>5 DEF DirInv, TypeOK
<1>7. StackInv'
  BY <1>1, <1>2, <1>4, <1>3, NoCalls DEF StackInv
<1>8. StartInv'
  BY <1>1, <1>2 DEF DirInv, StartInv
<1>9. BehindInv'
  <2> SUFFICES ASSUME ~ once, NEW node \in Nodes'
               PROVE  /\ Len(node) > 0
                      /\ node[1] <= stack'[1].i
                      /\ Len(stack') = 1 => node[1] < stack'[1].i
    BY <1>1 DEF BehindInv
  <2>1. Len(node) > 0 /\ node[1] <= stack[1].i
    BY <1>1, <1>2, NodesAfter
  <2>2. node[1] \in Int /\ stack[1].i \in Int
    <3>1. node \in Seq(0 .. MaxCnt - 1) /\ stack[1] \in Call
      BY <1>2, <1>3, <1>5 DEF Nodes
    <3>2. 1 \in 1 .. Len(node)
      BY <2>1, <3>1
    <3>3. node[1] \in 0 .. MaxCnt - 1
      BY <3>1, <3>2, ElementOfSeq
    <3> QED
      BY <3>1, <3>3, Numbers DEF Call
  <2> QED
    BY <1>2, <1>4, <2>1, <2>2
<1>10. DiesOnlyOfFailure'
  BY <1>1, <1>2 DEF DiesOnlyOfFailure
<1> QED
  BY <1>5, <1>6, <1>7, <1>8, <1>9, <1>10 DEF DirInv

LEMMA MakeFileFailsStep == DirInv /\ MakeFileFails => DirInv'
<1> SUFFICES ASSUME DirInv, MakeFileFails PROVE DirInv'
  OBVIOUS
<1>1. /\ Creating /\ Len(stack) = dir_depth /\ stack' = Returned
      /\ pc' = IF stack' = <<>> THEN "created" ELSE pc
      /\ failed' = (failed \/ (Path \notin dirs /\ lost < Descriptors))
      /\ UNCHANGED <<once, dir_depth, dirs>>
  BY DEF MakeFileFails
<1>2. pc = "create"
  BY <1>1 DEF Creating
<1>3. /\ \/ files' = files /\ lost' = lost
         \/ Path \notin dirs /\ files' = files \cup {Path}
      /\ lost' \in 0 .. Descriptors
  <2>1. lost \in 0 .. Descriptors
    BY DEF DirInv, TypeOK
  <2>2. CASE UNCHANGED <<files, lost>>
    BY <2>1, <2>2
  <2>3. CASE /\ Path \notin dirs /\ lost < Descriptors
             /\ files' = files \cup {Path} /\ lost' = lost + 1
    BY <2>1, <2>3, Numbers
  <2> QED
    BY <2>2, <2>3 DEF MakeFileFails
<1>4. failed' \in BOOLEAN
  BY <1>1 DEF DirInv, TypeOK
<1>5. pc' \in {pc, "created", "died"} /\ (pc' = "create" <=> stack' # <<>>)
  BY <1>1, <1>2
<1>6. (TypeOK /\ StackInv /\ StartInv /\ BehindInv /\ TreeShape)'
  BY <1>1, <1>2, <1>3, <1>4, <1>5, ReturnKeeps
<1>7. DiesOnlyOfFailure'
  BY <1>1, <1>2 DEF DiesOnlyOfFailure
<1> QED
  BY <1>6, <1>7 DEF DirInv

LEMMA CreatedStep == DirInv /\ Created => DirInv'
<1> SUFFICES ASSUME DirInv, Created PROVE DirInv'
  OBVIOUS
<1>1. /\ pc = "created" /\ pc' = IF once THEN "done" ELSE "clean"
      /\ UNCHANGED <<once, lost, dir_depth, stack, dirs, files, failed>>
  BY DEF Created
<1>2. failed' \in BOOLEAN
  BY <1>1 DEF DirInv, TypeOK
<1>3. (TypeOK /\ StackInv /\ StartInv /\ BehindInv)'
  BY <1>1, <1>2, MainKeeps
<1>4. TreeShape' /\ DiesOnlyOfFailure'
  BY <1>1 DEF DirInv, TreeShape, DiesOnlyOfFailure, Nodes
<1> QED
  BY <1>3, <1>4 DEF DirInv

\* nftw comes to a directory after everything in it, so that no node is left
\* without its parent.
LEMMA RemoveNodeStep == DirInv /\ RemoveNode => DirInv'
<1> SUFFICES ASSUME DirInv, RemoveNode PROVE DirInv'
  OBVIOUS
<1>1. pc = "clean" /\ UNCHANGED <<once, lost, pc, dir_depth, stack, failed>>
  BY DEF RemoveNode
<1>2. PICK node \in Nodes : /\ Childless(node)
                            /\ dirs' = dirs \ {node}
                            /\ files' = files \ {node}
  BY DEF RemoveNode
<1>3. failed' \in BOOLEAN
  BY <1>1 DEF DirInv, TypeOK
<1>4. (TypeOK /\ StackInv /\ StartInv /\ BehindInv)'
  BY <1>1, <1>2, <1>3, MainKeeps
<1>5. TreeShape'
  <2>1. TreeShape /\ dirs \cup files \subseteq Seq(0 .. MaxCnt - 1)
    BY DEF DirInv, TypeOK
  <2>2. ASSUME NEW child \in Nodes', Len(child) > 1
        PROVE  Front(child) \in dirs'
    <3>1. child \in Nodes /\ child \in Seq(0 .. MaxCnt - 1)
      BY <1>2, <2>1 DEF Nodes
    <3>2. child # <<>>
      BY <2>2, NoCalls
    <3>3. IsPrefix(Front(child), child) /\ Front(child) # child
      BY <3>1, <3>2, ParentIsPrefix
    <3>4. Front(child) # node
      BY <1>2, <3>1, <3>3 DEF Childless
    <3> QED
      BY <1>2, <2>1, <2>2, <3>1, <3>4 DEF TreeShape
  <2> QED
    BY <1>1, <1>2, <2>1, <2>2 DEF TreeShape
<1>6. DiesOnlyOfFailure'
  BY <1>1 DEF DiesOnlyOfFailure
<1> QED
  BY <1>4, <1>5, <1>6 DEF DirInv

LEMMA RemoveFailsStep == DirInv /\ RemoveFails => DirInv'
<1> SUFFICES ASSUME DirInv, RemoveFails PROVE DirInv'
  OBVIOUS
<1>1. /\ pc = "clean" /\ pc' = "died" /\ NftwFails
      /\ UNCHANGED <<once, lost, dir_depth, stack, dirs, files>>
  BY DEF RemoveFails
<1>2. failed' \in BOOLEAN
  BY <1>1 DEF DirInv, TypeOK, NftwFails
<1>3. (TypeOK /\ StackInv /\ StartInv /\ BehindInv)'
  BY <1>1, <1>2, MainKeeps
<1>4. TreeShape'
  BY <1>1 DEF DirInv, TreeShape, Nodes
<1>5. DiesOnlyOfFailure'
  <2> SUFFICES ASSUME ~ failed' PROVE lost + dir_depth > Descriptors
    BY <1>1 DEF DiesOnlyOfFailure
  <2>1. PICK dir \in dirs \cup {<<>>} : lost + Len(dir) + 1 > Descriptors
    <3>1. lost \in Nat /\ Descriptors \in Nat
      BY Numbers DEF DirInv, TypeOK
    <3>2. \A dir \in dirs \cup {<<>>} : Len(dir) \in Nat
      BY NoCalls DEF DirInv, TypeOK
    <3> QED
      BY <1>1, <3>1, <3>2 DEF NftwFails, CanOpen
  <2>2. Len(dir) < dir_depth /\ Len(dir) \in Nat /\ dir_depth \in Nat
    BY Numbers, NoCalls DEF DirInv, TypeOK, TreeShape
  <2>3. lost \in Nat /\ Descriptors \in Nat
    BY Numbers DEF DirInv, TypeOK
  <2> QED
    BY <2>1, <2>2, <2>3
<1> QED
  BY <1>3, <1>4, <1>5 DEF DirInv

LEMMA CleanedStep == DirInv /\ Cleaned => DirInv'
<1> SUFFICES ASSUME DirInv, Cleaned PROVE DirInv'
  OBVIOUS
<1>1. /\ pc = "clean" /\ pc' = "loop" /\ Nodes = {}
      /\ UNCHANGED <<once, lost, dir_depth, stack, dirs, files, failed>>
  BY DEF Cleaned
<1>2. failed' \in BOOLEAN
  BY <1>1 DEF DirInv, TypeOK
<1>3. (TypeOK /\ StackInv /\ StartInv /\ BehindInv)'
  BY <1>1, <1>2, MainKeeps
<1>4. TreeShape' /\ DiesOnlyOfFailure'
  BY <1>1 DEF DirInv, TreeShape, DiesOnlyOfFailure, Nodes
<1> QED
  BY <1>3, <1>4 DEF DirInv

-----------------------------------------------------------------------------
(* The theorems *)

LEMMA InitHolds == Init => DirInv
<1> SUFFICES ASSUME Init PROVE DirInv
  OBVIOUS
<1>1. /\ pc = "loop" /\ stack = <<>> /\ files = {} /\ lost = 0 /\ failed = FALSE
      /\ once \in BOOLEAN /\ dir_depth = IF once THEN MaxDepth ELSE 1
      /\ dirs \in IF once /\ MaxDepth > 1 THEN {{}, {<<0>>}} ELSE {{}}
  BY DEF Init
<1>2. ASSUME NEW node \in Nodes
      PROVE  /\ node \in Seq(0 .. MaxCnt - 1) /\ Len(node) = 1
             /\ once /\ Len(node) < dir_depth
  <2>1. node = <<0>> /\ once /\ MaxDepth > 1
    BY <1>1 DEF Nodes
  <2>2. 0 \in 0 .. MaxCnt - 1
    BY Numbers
  <2> QED
    BY <1>1, <2>1, <2>2
<1>3. TypeOK
  <2>1. dir_depth \in 1 .. MaxDepth /\ 0 <= dir_depth /\ 0 \in 0 .. Descriptors
    BY <1>1, Numbers
  <2> QED
    BY <1>1, <1>2, <2>1, NoCalls DEF TypeOK, Nodes
<1>4. StackInv
  BY <1>1, NoCalls DEF StackInv
<1>5. StartInv
  BY <1>1, <1>2 DEF StartInv
<1>6. BehindInv
  BY <1>1 DEF BehindInv
<1>7. TreeShape
  <2>1. dirs \cap files = {}
    BY <1>1
  <2>2. ASSUME NEW node \in Nodes PROVE ~ (Len(node) > 1)
    <3>1. Len(node) = 1
      BY <1>2
    <3> QED
      BY <3>1
  <2>3. \A node \in dirs : Len(node) < dir_depth
    BY <1>2 DEF Nodes
  <2>4. \A node \in files : Len(node) = dir_depth
    BY <1>1
  <2> QED
    BY <2>1, <2>2, <2>3, <2>4 DEF TreeShape
<1>8. DiesOnlyOfFailure
  BY <1>1 DEF DiesOnlyOfFailure
<1> QED
  BY <1>3, <1>4, <1>5, <1>6, <1>7, <1>8 DEF DirInv

LEMMA StutterKeeps == DirInv /\ UNCHANGED vars => DirInv'
BY DEF DirInv, vars, TypeOK, StackInv, StackOK, PathOf, StartInv, BehindInv, TreeShape,
       DiesOnlyOfFailure, Nodes

\* The invariant holds in every state: the stack of calls is the path of
\* directories down to the one that is being filled, and an iteration of the
\* endless loop starts on an empty volume (client-dir-ops.c:37-125).
THEOREM Invariance == Spec => []DirInv
<1>1. DirInv /\ [Next]_vars => DirInv'
  BY BeginStep, MakeDirStep, MakeDirFailsStep, MakeFileStep, MakeFileFailsStep,
     ReturnStep, CreatedStep, RemoveNodeStep, RemoveFailsStep, CleanedStep,
     StutterKeeps DEF Next
<1> QED
  BY InitHolds, <1>1, PTL DEF Spec

\* Every variable keeps its type, and the recursion its bound.
THEOREM TypeCorrectness == Spec => []TypeOK
<1>1. DirInv => TypeOK
  BY DEF DirInv
<1> QED
  BY <1>1, Invariance, PTL

\* Whatever fails, what is on the volume is a tree with its files at the
\* bottom: the loop of one call goes on after an inner call failed, and cleandir
\* may stop half way (client-dir-ops.c:51-79).
THEOREM Shape == Spec => []TreeShape
<1>1. DirInv => TreeShape
  BY DEF DirInv
<1> QED
  BY <1>1, Invariance, PTL

\* The endless loop exits only because the volume failed in this iteration or
\* because the tree has more levels than there are descriptors left for nftw
\* (client-dir-ops.c:40, 56, 76, 113-122).
THEOREM DiesOfFailure == Spec => []DiesOnlyOfFailure
<1>1. DirInv => DiesOnlyOfFailure
  BY DEF DirInv
<1> QED
  BY <1>1, Invariance, PTL

-----------------------------------------------------------------------------
(* The tree of an iteration in which nothing failed *)

\* The nodes have the entries 0 .. n - 1 of this node.
HasEntries(nodes, node, n) ==
  {child \in nodes : child # <<>> /\ Front(child) = node}
    = {Append(node, j) : j \in 0 .. n - 1}

\* How many entries the k-th call of a stack has made.
Entered(s, k) == IF k < Len(s) THEN s[k].i + 1 ELSE s[k].i

\* The directory that a call fills has the entries the call has come past, and
\* any other directory those that its call drew.
Fills(s, ds, fs, d) ==
  /\ DOMAIN d = ds \cup {<<>>}
  /\ \A k \in 1 .. Len(s) :
       /\ HasEntries(ds \cup fs, PathOf(s, k - 1), Entered(s, k))
       /\ d[PathOf(s, k - 1)] = s[k].dir_cnt
  /\ \A node \in ds \cup {<<>>} :
       (\A k \in 1 .. Len(s) : node # PathOf(s, k - 1))
         => HasEntries(ds \cup fs, node, d[node])

Unspoilt == pc \in {"create", "created"} /\ ~ failed /\ ~ once /\ lost < Descriptors

FilledInv == Unspoilt => Fills(stack, dirs, files, drawn)

LEMMA AppendOf ==
  ASSUME NEW S, NEW s \in Seq(S), NEW x \in S
  PROVE  /\ Append(s, x) \in Seq(S) /\ Append(s, x) # <<>>
         /\ Len(Append(s, x)) = Len(s) + 1
         /\ Front(Append(s, x)) = s
         /\ Append(s, x)[Len(s) + 1] = x
<1> DEFINE t == Append(s, x)
<1>1. /\ t \in Seq(S) /\ t # <<>> /\ Len(t) = Len(s) + 1 /\ Len(s) \in Nat
      /\ \A j \in 1 .. Len(s) : t[j] = s[j]
      /\ t[Len(s) + 1] = x
  OBVIOUS
<1> HIDE DEF t
<1>2. /\ Front(t) \in Seq(S) /\ Len(Front(t)) = Len(s)
      /\ \A j \in 1 .. Len(s) : Front(t)[j] = s[j]
  <2>1. /\ Front(t) \in Seq(S) /\ Len(Front(t)) = Len(t) - 1
        /\ \A j \in 1 .. Len(t) - 1 : Front(t)[j] = t[j]
    BY <1>1, FrontOf
  <2> QED
    BY <1>1, <2>1
<1>3. Front(t) = s
  BY <1>2, SeqEqual
<1> QED
  BY <1>1, <1>3 DEF t

\* The entries of a node are the nodes whose front it is.
LEMMA ChildOf ==
  ASSUME NEW S, NEW node \in Seq(S), NEW child \in Seq(S)
  PROVE  Len(child) = Len(node) + 1 /\ IsPrefix(node, child)
           <=> child # <<>> /\ Front(child) = node
<1>1. ASSUME Len(child) = Len(node) + 1, IsPrefix(node, child)
      PROVE  child # <<>> /\ Front(child) = node
  <2>1. SubSeq(node, 1, Len(node)) = node
    BY SubSeqFull
  <2>2. Len(node) \in Nat /\ Len(child) - 1 = Len(node) /\ child # <<>>
    BY <1>1
  <2> QED
    BY <1>1, <2>1, <2>2 DEF IsPrefix, Front
<1>2. ASSUME child # <<>>, Front(child) = node
      PROVE  Len(child) = Len(node) + 1 /\ IsPrefix(node, child)
  <2>1. Len(child) \in Nat \ {0} /\ Len(node) = Len(child) - 1
    BY <1>2, FrontOf
  <2> QED
    BY <1>2, <2>1, ParentIsPrefix
<1> QED
  BY <1>1, <1>2

\* One entry more.
LEMMA EntryAdded ==
  ASSUME NEW S, NEW nodes \in SUBSET Seq(S), NEW p \in Seq(S), NEW x \in Nat,
         x \in S
  PROVE  /\ HasEntries(nodes, p, x)
              => HasEntries(nodes \cup {Append(p, x)}, p, x + 1)
         /\ \A node, n : node # p /\ HasEntries(nodes, node, n)
              => HasEntries(nodes \cup {Append(p, x)}, node, n)
<1> DEFINE t == Append(p, x)
           Children(set, node) == {child \in set : child # <<>> /\ Front(child) = node}
<1>1. t # <<>> /\ Front(t) = p
  BY AppendOf
<1>2. \A node : Children(nodes \cup {t}, node)
        = Children(nodes, node) \cup (IF node = p THEN {t} ELSE {})
  <2> HIDE DEF t
  <2> QED
    BY <1>1
<1>3. {Append(p, j) : j \in 0 .. (x + 1) - 1} = {Append(p, j) : j \in 0 .. x - 1} \cup {t}
  <2>1. 0 .. (x + 1) - 1 = (0 .. x - 1) \cup {x}
    OBVIOUS
  <2> QED
    BY <2>1
<1>4. ASSUME HasEntries(nodes, p, x) PROVE HasEntries(nodes \cup {t}, p, x + 1)
  <2>1. Children(nodes, p) = {Append(p, j) : j \in 0 .. x - 1}
    BY <1>4 DEF HasEntries
  <2>2. Children(nodes \cup {t}, p) = Children(nodes, p) \cup {t}
    BY <1>2
  <2> QED
    BY <1>3, <2>1, <2>2 DEF HasEntries
<1>5. ASSUME NEW node, NEW n, node # p, HasEntries(nodes, node, n)
      PROVE  HasEntries(nodes \cup {t}, node, n)
  <2>1. Children(nodes, node) = {Append(node, j) : j \in 0 .. n - 1}
    BY <1>5 DEF HasEntries
  <2>2. Children(nodes \cup {t}, node) = Children(nodes, node)
    BY <1>2, <1>5
  <2> QED
    BY <2>1, <2>2 DEF HasEntries
<1> QED
  BY <1>4, <1>5

\* The paths of the calls on the stack.
LEMMA CallPaths ==
  ASSUME DirInv
  PROVE  /\ stack \in Seq(Call) /\ Len(stack) \in Nat
         /\ \A k \in 1 .. Len(stack) :
              /\ stack[k] \in Call /\ stack[k].i \in Nat
              /\ PathOf(stack, k - 1) \in Seq(0 .. MaxCnt - 1)
              /\ Len(PathOf(stack, k - 1)) = k - 1
              /\ PathOf(stack, k - 1) \in dirs \cup {<<>>}
<1>1. stack \in Seq(Call) /\ Len(stack) \in Nat /\ StackOK(stack, dirs)
  BY DEF DirInv, TypeOK, StackInv
<1>2. ASSUME NEW k \in 1 .. Len(stack)
      PROVE  /\ stack[k] \in Call /\ stack[k].i \in Nat
             /\ PathOf(stack, k - 1) \in Seq(0 .. MaxCnt - 1)
             /\ Len(PathOf(stack, k - 1)) = k - 1
             /\ PathOf(stack, k - 1) \in dirs \cup {<<>>}
  <2>1. stack[k] \in Call
    BY <1>1
  <2>2. stack[k].i \in Nat
    BY <2>1, Numbers DEF Call
  <2>3. k - 1 \in Nat /\ \A j \in 1 .. k - 1 : j \in 1 .. Len(stack) /\ j < Len(stack)
    BY <1>1
  <2>4. \A j \in 1 .. k - 1 : stack[j].i \in 0 .. MaxCnt - 1
    <3> SUFFICES ASSUME NEW j \in 1 .. k - 1 PROVE stack[j].i \in 0 .. MaxCnt - 1
      OBVIOUS
    <3>1. stack[j] \in Call /\ stack[j].i < stack[j].dir_cnt
      BY <1>1, <2>3 DEF StackOK
    <3> QED
      BY <3>1, Numbers DEF Call
  <2>5. PathOf(stack, k - 1) \in [1 .. k - 1 -> 0 .. MaxCnt - 1]
    BY <2>4 DEF PathOf
  <2>6. PathOf(stack, k - 1) \in Seq(0 .. MaxCnt - 1) /\ Len(PathOf(stack, k - 1)) = k - 1
    BY <2>3, <2>5, FunctionIsSequence
  <2>7. PathOf(stack, k - 1) \in dirs \cup {<<>>}
    <3>1. CASE k = 1
      BY <2>6, <3>1
    <3>2. CASE k # 1
      <4>1. k - 1 \in 1 .. Len(stack) /\ k - 1 < Len(stack)
        BY <1>1, <3>2
      <4> QED
        BY <1>1, <4>1 DEF StackOK
    <3> QED
      BY <3>1, <3>2
  <2> QED
    BY <2>1, <2>2, <2>6, <2>7
<1> QED
  BY <1>1, <1>2

\* path_buf of the innermost call is the next entry of the directory it fills.
LEMMA PathIsNext ==
  ASSUME DirInv, Creating
  PROVE  LET n == Len(stack)
             p == PathOf(stack, n - 1)
         IN  /\ n \in 1 .. n /\ n \in Nat
             /\ p \in Seq(0 .. MaxCnt - 1) /\ Len(p) = n - 1
             /\ stack[n].i \in Nat /\ stack[n].i \in 0 .. MaxCnt - 1
             /\ Path = Append(p, stack[n].i) /\ Path \in Seq(0 .. MaxCnt - 1)
             /\ Path # <<>> /\ Front(Path) = p
             /\ Len(Path) = n /\ PathOf(stack, n) = Path
<1> DEFINE n == Len(stack)
           p == PathOf(stack, n - 1)
           x == stack[n].i
<1>1. /\ n \in Nat \ {0} /\ n \in 1 .. n /\ Path \in Seq(0 .. MaxCnt - 1)
      /\ Len(Path) = n
  BY PathFacts
<1>2. p \in Seq(0 .. MaxCnt - 1) /\ Len(p) = n - 1 /\ x \in Nat /\ stack[n] \in Call
  BY <1>1, CallPaths
<1>3. x \in 0 .. MaxCnt - 1
  <2>1. x < stack[n].dir_cnt
    BY DEF Creating, Top, Last
  <2> QED
    BY <1>2, <2>1, Numbers DEF Call
<1>4. /\ Append(p, x) \in Seq(0 .. MaxCnt - 1) /\ Append(p, x) # <<>>
      /\ Len(Append(p, x)) = (n - 1) + 1 /\ Front(Append(p, x)) = p
      /\ Append(p, x)[(n - 1) + 1] = x
  <2> DEFINE S == 0 .. MaxCnt - 1
  <2> HIDE DEF p, x, S
  <2>1. p \in Seq(S) /\ x \in S
    BY <1>2, <1>3 DEF S
  <2>2. /\ Append(p, x) \in Seq(S) /\ Append(p, x) # <<>>
        /\ Len(Append(p, x)) = Len(p) + 1 /\ Front(Append(p, x)) = p
        /\ Append(p, x)[Len(p) + 1] = x
    BY <2>1, AppendOf
  <2> QED
    BY <1>2, <2>2 DEF S
<1>5. \A j \in 1 .. n - 1 : Append(p, x)[j] = stack[j].i
  <2>1. \A j \in 1 .. n - 1 : Append(p, x)[j] = p[j]
    BY <1>2, <1>3
  <2> QED
    BY <2>1 DEF PathOf
<1>6. \A j \in 1 .. n : Path[j] = stack[j].i
  BY DEF Path
<1>7. Path = Append(p, x)
  <2>1. Len(Append(p, x)) = n /\ Append(p, x)[n] = x
    BY <1>1, <1>4
  <2>2. \A j \in 1 .. n : Path[j] = Append(p, x)[j]
    <3> SUFFICES ASSUME NEW j \in 1 .. n PROVE Path[j] = Append(p, x)[j]
      OBVIOUS
    <3>1. j = n \/ j \in 1 .. n - 1
      BY <1>1
    <3> HIDE DEF p
    <3> QED
      BY <1>5, <1>6, <2>1, <3>1
  <2> HIDE DEF p, x
  <2> QED
    BY <1>1, <1>4, <2>1, <2>2, SeqEqual
<1>8. PathOf(stack, n) = Path
  BY DEF PathOf, Path
<1> QED
  BY <1>1, <1>2, <1>3, <1>4, <1>7, <1>8

\* The stack after a return, call by call.
LEMMA ReturnedCalls ==
  ASSUME stack \in Seq(Call), stack # <<>>, stack' = Returned
  PROVE  /\ Len(stack) \in Nat \ {0} /\ Len(stack') = Len(stack) - 1
         /\ \A k \in 1 .. Len(stack) - 1 :
              /\ PathOf(stack', k - 1) = PathOf(stack, k - 1)
              /\ Entered(stack', k) = Entered(stack, k)
              /\ stack'[k].dir_cnt = stack[k].dir_cnt
<1> DEFINE rest == Front(stack)
           n == Len(rest)
<1>1. /\ Len(stack) \in Nat \ {0} /\ rest \in Seq(Call)
      /\ n = Len(stack) - 1 /\ n \in Nat
      /\ \A j \in 1 .. n : rest[j] = stack[j]
  BY FrontOf
<1>2. CASE rest = <<>>
  <2>1. stack' = <<>> /\ n = 0
    BY <1>2 DEF Returned
  <2>2. Len(stack') = 0 /\ Len(stack) - 1 = 0 /\ 1 .. 0 = {}
    BY <1>1, <2>1
  <2> QED
    BY <1>1, <2>2
<1>3. CASE rest # <<>>
  <2>1. stack' = [rest EXCEPT ![n] = [rest[n] EXCEPT !.i = @ + 1]]
    BY <1>3 DEF Returned
  <2>2. n \in 1 .. n /\ rest[n] \in Call
    BY <1>1, <1>3
  <2>3. /\ [rest[n] EXCEPT !.i = @ + 1].i = rest[n].i + 1
        /\ [rest[n] EXCEPT !.i = @ + 1].dir_cnt = rest[n].dir_cnt
        /\ [rest[n] EXCEPT !.i = @ + 1] \in Call \/ rest[n].i >= rest[n].dir_cnt
    BY <2>2, Numbers DEF Call
  <2>4. rest \in [1 .. n -> Call]
    BY <1>1
  <2>5. /\ DOMAIN stack' = 1 .. n
        /\ stack'[n] = [rest[n] EXCEPT !.i = @ + 1]
        /\ \A j \in 1 .. n : j # n => stack'[j] = stack[j]
    BY <1>1, <2>1, <2>2, <2>4
  <2>6. Len(stack') = n
    <3>1. DOMAIN stack' = 1 .. n /\ n \in Nat
      BY <1>1, <2>5
    <3>2. stack' \in Seq({stack'[j] : j \in 1 .. n})
      <4>1. stack' \in [1 .. n -> {stack'[j] : j \in 1 .. n}]
        BY <2>1, <2>4, <2>5
      <4> QED
        BY <1>1, <4>1, FunctionIsSequence
    <3> QED
      BY <3>1, <3>2, LenProperties
  <2>7. ASSUME NEW k \in 1 .. n
        PROVE  /\ PathOf(stack', k - 1) = PathOf(stack, k - 1)
               /\ Entered(stack', k) = Entered(stack, k)
               /\ stack'[k].dir_cnt = stack[k].dir_cnt
    <3>1. \A j \in 1 .. k - 1 : j \in 1 .. n /\ j # n
      BY <1>1
    <3>2. PathOf(stack', k - 1) = PathOf(stack, k - 1)
      BY <2>5, <3>1 DEF PathOf
    <3>3. stack'[n].i = stack[n].i + 1 /\ stack'[n].dir_cnt = stack[n].dir_cnt
      BY <1>1, <2>2, <2>3, <2>5
    <3>4. CASE k = n
      <4>1. n < Len(stack) /\ ~ (n < n)
        BY <1>1
      <4> QED
        BY <2>6, <3>2, <3>3, <3>4, <4>1 DEF Entered
    <3>5. CASE k # n
      <4>1. k < n /\ k < Len(stack)
        BY <1>1, <3>5
      <4> QED
        BY <2>5, <2>6, <3>2, <3>5, <4>1 DEF Entered
    <3> QED
      BY <3>4, <3>5
  <2> QED
    BY <1>1, <2>6, <2>7
<1> QED
  BY <1>2, <1>3

LEMMA BeginFills == DirInv /\ Begin => FilledInv'
<1> SUFFICES ASSUME DirInv, Begin, Unspoilt' PROVE Fills(stack, dirs, files, drawn)'
  BY DEF FilledInv
<1>0. ~ once
  BY DEF Unspoilt, Begin
<1>1. dirs' = {} /\ files' = {}
  BY <1>0 DEF DirInv, StartInv, Nodes, Begin
<1>2. PICK cnt \in DirCnts : stack' = <<Frame(cnt)>> /\ drawn' = [node \in {<<>>} |-> cnt]
  BY DEF Begin
<1>3. DOMAIN drawn' = {<<>>} /\ drawn'[<<>>] = cnt
  BY <1>2
<1>4. Len(stack') = 1 /\ stack'[1].i = 0 /\ stack'[1].dir_cnt = cnt
  BY <1>2 DEF Frame
<1>5. PathOf(stack', 0) = <<>>
  <2>1. PathOf(stack', 0) \in [1 .. 0 -> {}]
    BY DEF PathOf
  <2>2. PathOf(stack', 0) \in Seq({}) /\ Len(PathOf(stack', 0)) = 0
    BY <2>1, FunctionIsSequence
  <2> QED
    BY <2>2
<1>6. HasEntries({}, <<>>, 0)
  BY DEF HasEntries
<1>7. Entered(stack', 1) = 0
  BY <1>4 DEF Entered
<1>8. \A k \in 1 .. Len(stack') : k = 1 /\ k - 1 = 0
  BY <1>4
<1>9. 1 \in 1 .. Len(stack')
  BY <1>4
<1>10. dirs' \cup files' = {} /\ dirs' \cup {<<>>} = {<<>>}
  BY <1>1
<1> QED
  BY <1>3, <1>4, <1>5, <1>6, <1>7, <1>8, <1>9, <1>10 DEF Fills

LEMMA MakeDirFills == DirInv /\ FilledInv /\ MakeDir => FilledInv'
<1> DEFINE S == 0 .. MaxCnt - 1
           n == Len(stack)
           p == PathOf(stack, n - 1)
           x == stack[n].i
<1> SUFFICES ASSUME DirInv, MakeDir, Fills(stack, dirs, files, drawn)
             PROVE  Fills(stack, dirs, files, drawn)'
  BY DEF FilledInv, Unspoilt, MakeDir
<1>1. /\ Creating /\ Path \notin Nodes /\ dirs' = dirs \cup {Path} /\ files' = files
  BY DEF MakeDir
<1>2. PICK cnt \in DirCnts : /\ stack' = Append(stack, Frame(cnt))
                             /\ drawn' = [node \in DOMAIN drawn \cup {Path} |->
                                            IF node = Path THEN cnt ELSE drawn[node]]
  BY DEF MakeDir
<1>3. /\ n \in 1 .. n /\ n \in Nat /\ p \in Seq(S) /\ Len(p) = n - 1
      /\ x \in Nat /\ x \in S /\ Path = Append(p, x) /\ Path \in Seq(S)
      /\ Path # <<>> /\ Front(Path) = p /\ Len(Path) = n /\ PathOf(stack, n) = Path
  BY <1>1, PathIsNext
<1>4. Nodes \in SUBSET Seq(S) /\ dirs \cup files = Nodes
      /\ dirs' \cup files' = Nodes \cup {Path}
  BY <1>1 DEF DirInv, TypeOK, Nodes
<1>5. /\ DOMAIN drawn = dirs \cup {<<>>}
      /\ \A k \in 1 .. n : /\ HasEntries(Nodes, PathOf(stack, k - 1), Entered(stack, k))
                           /\ drawn[PathOf(stack, k - 1)] = stack[k].dir_cnt
      /\ \A node \in dirs \cup {<<>>} :
           (\A k \in 1 .. n : node # PathOf(stack, k - 1))
             => HasEntries(Nodes, node, drawn[node])
  BY <1>4 DEF Fills
<1>6. /\ DOMAIN drawn' = dirs' \cup {<<>>}
      /\ drawn'[Path] = cnt
      /\ \A node \in dirs \cup {<<>>} : drawn'[node] = drawn[node]
  <2>1. Path \notin dirs \cup {<<>>}
    BY <1>1, <1>3 DEF Nodes
  <2> HIDE DEF x, p
  <2> QED
    BY <1>1, <1>2, <1>5, <2>1
<1>7. /\ Len(stack') = n + 1 /\ stack'[n + 1] = Frame(cnt)
      /\ \A k \in 1 .. n : stack'[k] = stack[k]
  <2>1. stack \in Seq(Call) /\ Frame(cnt) \in Call
    BY CallPaths, FrameIsCall
  <2> QED
    BY <1>2, <2>1
<1>8. \A k \in 1 .. n + 1 : PathOf(stack', k - 1) = PathOf(stack, k - 1)
  <2>1. \A k \in 1 .. n + 1 : \A j \in 1 .. k - 1 : j \in 1 .. n
    BY <1>3
  <2> QED
    BY <1>7, <2>1 DEF PathOf
<1>9. HasEntries(Nodes \cup {Path}, p, x + 1)
      /\ \A node, m : node # p /\ HasEntries(Nodes, node, m)
           => HasEntries(Nodes \cup {Path}, node, m)
  <2>1. HasEntries(Nodes, p, x)
    <3>1. Entered(stack, n) = x
      BY <1>3 DEF Entered
    <3> QED
      BY <1>3, <1>5, <3>1
  <2> HIDE DEF p, x, S
  <2> QED
    BY <1>3, <1>4, <2>1, EntryAdded
<1>10. HasEntries(Nodes \cup {Path}, Path, 0)
  <2>1. ASSUME NEW child \in Nodes \cup {Path}, child # <<>>, Front(child) = Path
        PROVE  FALSE
    <3>1. child \in Seq(S)
      BY <1>3, <1>4
    <3>2. Len(child) \in Nat /\ Len(child) - 1 = n
      BY <1>3, <2>1, <3>1, FrontOf
    <3>3. child # Path
      BY <1>3, <3>2
    <3>4. child \in Nodes /\ Len(child) > 1
      BY <1>3, <2>1, <3>2, <3>3
    <3>5. Path \in dirs
      BY <2>1, <3>4 DEF DirInv, TreeShape
    <3> QED
      BY <1>1, <3>5 DEF Nodes
  <2> HIDE DEF p, x
  <2>2. {child \in Nodes \cup {Path} : child # <<>> /\ Front(child) = Path} = {}
    BY <2>1
  <2>3. {Append(Path, j) : j \in 0 .. 0 - 1} = {}
    OBVIOUS
  <2> QED
    BY <2>2, <2>3 DEF HasEntries
<1>11. ASSUME NEW k \in 1 .. n + 1
       PROVE  /\ HasEntries(Nodes \cup {Path}, PathOf(stack', k - 1), Entered(stack', k))
              /\ drawn'[PathOf(stack', k - 1)] = stack'[k].dir_cnt
  <2>1. CASE k = n + 1
    <3>1. PathOf(stack', k - 1) = Path
      <4>1. k - 1 = n
        BY <1>3, <2>1
      <4> QED
        BY <1>3, <1>8, <4>1
    <3>2. Entered(stack', k) = 0 /\ stack'[k].dir_cnt = cnt
      BY <1>3, <1>7, <2>1 DEF Entered, Frame
    <3> QED
      BY <1>6, <1>10, <3>1, <3>2
  <2>2. CASE k # n + 1
    <3>1. k \in 1 .. n /\ k < n + 1
      BY <1>3, <2>2
    <3>2. PathOf(stack', k - 1) = PathOf(stack, k - 1) /\ stack'[k] = stack[k]
      BY <1>7, <1>8, <3>1
    <3>3. Entered(stack', k) = stack[k].i + 1
      BY <1>7, <3>1, <3>2 DEF Entered
    <3>4. drawn'[PathOf(stack', k - 1)] = stack'[k].dir_cnt
      BY <1>5, <1>6, <3>1, <3>2, CallPaths
    <3>5. CASE k = n
      BY <1>9, <3>2, <3>3, <3>4, <3>5
    <3>6. CASE k # n
      <4>1. Entered(stack, k) = stack[k].i + 1
        BY <1>3, <3>1, <3>6 DEF Entered
      <4>2. Len(PathOf(stack, k - 1)) = k - 1
        BY <3>1, CallPaths
      <4>3. PathOf(stack, k - 1) # p
        BY <1>3, <3>1, <3>6, <4>2
      <4>4. HasEntries(Nodes, PathOf(stack, k - 1), stack[k].i + 1)
        BY <1>5, <3>1, <4>1
      <4> HIDE DEF p, x
      <4> QED
        BY <1>9, <3>2, <3>3, <3>4, <4>3, <4>4
    <3> QED
      BY <3>5, <3>6
  <2> QED
    BY <2>1, <2>2
<1>12. ASSUME NEW node \in dirs' \cup {<<>>},
              \A k \in 1 .. n + 1 : node # PathOf(stack', k - 1)
       PROVE  HasEntries(Nodes \cup {Path}, node, drawn'[node])
  <2>1. \A k \in 1 .. n + 1 : node # PathOf(stack, k - 1)
    BY <1>8, <1>12
  <2>2. node # Path /\ node # p
    <3>1. n + 1 \in 1 .. n + 1 /\ n \in 1 .. n + 1 /\ (n + 1) - 1 = n
      BY <1>3
    <3>2. node # PathOf(stack, (n + 1) - 1) /\ node # PathOf(stack, n - 1)
      BY <2>1, <3>1
    <3> QED
      BY <1>3, <3>1, <3>2
  <2>3. node \in dirs \cup {<<>>} /\ \A k \in 1 .. n : node # PathOf(stack, k - 1)
    <3>1. \A k \in 1 .. n : k \in 1 .. n + 1
      BY <1>3
    <3> QED
      BY <1>1, <2>1, <2>2, <3>1
  <2> HIDE DEF p, x
  <2> QED
    BY <1>5, <1>6, <1>9, <2>2, <2>3
<1> HIDE DEF p, x
<1> QED
  BY <1>4, <1>6, <1>7, <1>11, <1>12 DEF Fills

\* mkdir meets no node that is there already.
LEMMA MakeDirFailsFills == DirInv /\ FilledInv /\ MakeDirFails => FilledInv'
<1> DEFINE n == Len(stack)
           p == PathOf(stack, n - 1)
           x == stack[n].i
<1> SUFFICES ASSUME DirInv, FilledInv, MakeDirFails, Unspoilt' PROVE FALSE
  BY DEF FilledInv
<1>1. Creating /\ Unspoilt /\ Path \in Nodes
  BY DEF Unspoilt, MakeDirFails, Creating
<1>2. /\ n \in 1 .. n /\ n \in Nat /\ p \in Seq(0 .. MaxCnt - 1)
      /\ x \in Nat /\ x \in 0 .. MaxCnt - 1 /\ Path = Append(p, x)
      /\ Path # <<>> /\ Front(Path) = p
  BY <1>1, PathIsNext
<1>3. HasEntries(Nodes, p, x)
  <2>1. Entered(stack, n) = x
    BY <1>2 DEF Entered
  <2>2. dirs \cup files = Nodes
    BY DEF Nodes
  <2> QED
    BY <1>1, <1>2, <2>1, <2>2 DEF FilledInv, Fills
<1>4. PICK j \in 0 .. x - 1 : Path = Append(p, j)
  <2> HIDE DEF p, x
  <2> QED
    BY <1>1, <1>2, <1>3 DEF HasEntries
<1>5. j \in 0 .. MaxCnt - 1 /\ j # x
  <2> HIDE DEF p, x
  <2> QED
    BY <1>2, <1>4, Numbers
<1> HIDE DEF p, x
<1>6. Append(p, j)[Len(p) + 1] = j /\ Append(p, x)[Len(p) + 1] = x
  BY <1>2, <1>5, AppendOf
<1> QED
  BY <1>2, <1>4, <1>5, <1>6

LEMMA MakeFileFills == DirInv /\ FilledInv /\ MakeFile => FilledInv'
<1> DEFINE S == 0 .. MaxCnt - 1
           n == Len(stack)
           p == PathOf(stack, n - 1)
           x == stack[n].i
<1> SUFFICES ASSUME DirInv, MakeFile, Fills(stack, dirs, files, drawn)
             PROVE  Fills(stack, dirs, files, drawn)'
  BY DEF FilledInv, Unspoilt, MakeFile
<1>1. /\ Creating /\ files' = files \cup {Path} /\ dirs' = dirs /\ drawn' = drawn
      /\ stack' = [stack EXCEPT ![n].i = @ + 1]
  BY DEF MakeFile
<1>2. /\ n \in 1 .. n /\ n \in Nat /\ p \in Seq(S) /\ Len(p) = n - 1
      /\ x \in Nat /\ x \in S /\ Path = Append(p, x) /\ Path \in Seq(S)
  BY <1>1, PathIsNext
<1>3. Nodes \in SUBSET Seq(S) /\ dirs \cup files = Nodes
      /\ dirs' \cup files' = Nodes \cup {Path}
  BY <1>1 DEF DirInv, TypeOK, Nodes
<1>4. /\ DOMAIN drawn = dirs \cup {<<>>}
      /\ \A k \in 1 .. n : /\ HasEntries(Nodes, PathOf(stack, k - 1), Entered(stack, k))
                           /\ drawn[PathOf(stack, k - 1)] = stack[k].dir_cnt
      /\ \A node \in dirs \cup {<<>>} :
           (\A k \in 1 .. n : node # PathOf(stack, k - 1))
             => HasEntries(Nodes, node, drawn[node])
  BY <1>3 DEF Fills
<1>5. /\ Len(stack') = n /\ stack'[n].i = x + 1
      /\ stack'[n].dir_cnt = stack[n].dir_cnt
      /\ \A k \in 1 .. n : k # n => stack'[k] = stack[k]
  <2>1. stack \in Seq(Call) /\ stack[n] \in Call
    BY <1>2, CallPaths
  <2>2. stack' = [stack EXCEPT ![n] = [stack[n] EXCEPT !.i = @ + 1]]
    BY <1>1
  <2>3. /\ [stack[n] EXCEPT !.i = @ + 1].i = x + 1
        /\ [stack[n] EXCEPT !.i = @ + 1].dir_cnt = stack[n].dir_cnt
    BY <2>1 DEF Call
  <2>4. Len(stack') = n
    BY <2>1, <2>2
  <2> HIDE DEF x, p
  <2> QED
    BY <1>2, <2>1, <2>2, <2>3, <2>4
<1>6. \A k \in 1 .. n : PathOf(stack', k - 1) = PathOf(stack, k - 1)
  <2>1. \A k \in 1 .. n : \A j \in 1 .. k - 1 : j \in 1 .. n /\ j # n
    BY <1>2
  <2> QED
    BY <1>5, <2>1 DEF PathOf
<1>7. HasEntries(Nodes \cup {Path}, p, x + 1)
      /\ \A node, m : node # p /\ HasEntries(Nodes, node, m)
           => HasEntries(Nodes \cup {Path}, node, m)
  <2>1. HasEntries(Nodes, p, x)
    <3>1. Entered(stack, n) = x
      BY <1>2 DEF Entered
    <3> QED
      BY <1>2, <1>4, <3>1
  <2> HIDE DEF p, x, S
  <2> QED
    BY <1>2, <1>3, <2>1, EntryAdded
<1>8. ASSUME NEW k \in 1 .. n
      PROVE  /\ HasEntries(Nodes \cup {Path}, PathOf(stack', k - 1), Entered(stack', k))
             /\ drawn'[PathOf(stack', k - 1)] = stack'[k].dir_cnt
  <2>1. stack'[k].dir_cnt = stack[k].dir_cnt
    BY <1>5
  <2>2. CASE k = n
    <3>1. Entered(stack', k) = x + 1
      BY <1>2, <1>5, <2>2 DEF Entered
    <3> QED
      BY <1>1, <1>4, <1>6, <1>7, <2>1, <2>2, <3>1
  <2>3. CASE k # n
    <3>1. Entered(stack', k) = Entered(stack, k)
      BY <1>5, <2>3 DEF Entered
    <3>2. PathOf(stack, k - 1) # p
      BY <1>2, <2>3, CallPaths
    <3> HIDE DEF p, x
    <3> QED
      BY <1>1, <1>4, <1>6, <1>7, <2>1, <3>1, <3>2
  <2> QED
    BY <2>2, <2>3
<1>9. ASSUME NEW node \in dirs' \cup {<<>>},
             \A k \in 1 .. n : node # PathOf(stack', k - 1)
      PROVE  HasEntries(Nodes \cup {Path}, node, drawn'[node])
  <2>1. node \in dirs \cup {<<>>} /\ \A k \in 1 .. n : node # PathOf(stack, k - 1)
    BY <1>1, <1>6, <1>9
  <2>2. node # p
    BY <1>2, <2>1
  <2> HIDE DEF p, x
  <2> QED
    BY <1>1, <1>4, <1>7, <2>1, <2>2
<1> HIDE DEF p, x
<1> QED
  BY <1>1, <1>3, <1>4, <1>5, <1>8, <1>9 DEF Fills

\* fopen fails for no reason but the one the premise excludes.
LEMMA MakeFileFailsFills == DirInv /\ FilledInv /\ MakeFileFails => FilledInv'
<1> SUFFICES ASSUME DirInv, MakeFileFails, Unspoilt' PROVE FALSE
  BY DEF FilledInv
<1>1. Creating /\ Len(stack) = dir_depth /\ ~ failed' /\ lost' < Descriptors
      /\ lost' \in {lost, lost + 1} /\ lost \in 0 .. Descriptors
      /\ (failed' <=> failed \/ (Path \notin dirs /\ lost < Descriptors))
  BY DEF MakeFileFails, Unspoilt, DirInv, TypeOK
<1>2. Path \in dirs
  BY <1>1, Numbers
<1>3. Len(Path) = Len(stack) /\ Len(stack) \in Nat /\ Len(Path) < dir_depth
  BY <1>1, <1>2, PathFacts DEF DirInv, TreeShape
<1> QED
  BY <1>1, <1>3

\* The loop over the entries of a directory ends when all of them are made.
LEMMA ReturnFills == DirInv /\ FilledInv /\ Return => FilledInv'
<1> DEFINE n == Len(stack)
           p == PathOf(stack, n - 1)
<1> SUFFICES ASSUME DirInv, Return, Fills(stack, dirs, files, drawn)
             PROVE  Fills(stack, dirs, files, drawn)'
  BY DEF FilledInv, Unspoilt, Return
<1>1. /\ stack # <<>> /\ stack' = Returned /\ stack[n].i = stack[n].dir_cnt
      /\ dirs' = dirs /\ files' = files /\ drawn' = drawn
  BY DEF Return, Top, Last, DirInv, StackInv
<1>2. stack \in Seq(Call)
  BY CallPaths
<1>3. /\ n \in Nat \ {0} /\ Len(stack') = n - 1
      /\ \A k \in 1 .. n - 1 : /\ PathOf(stack', k - 1) = PathOf(stack, k - 1)
                               /\ Entered(stack', k) = Entered(stack, k)
                               /\ stack'[k].dir_cnt = stack[k].dir_cnt
  BY <1>1, <1>2, ReturnedCalls
<1>4. /\ DOMAIN drawn = dirs \cup {<<>>}
      /\ \A k \in 1 .. n :
           /\ HasEntries(dirs \cup files, PathOf(stack, k - 1), Entered(stack, k))
           /\ drawn[PathOf(stack, k - 1)] = stack[k].dir_cnt
      /\ \A node \in dirs \cup {<<>>} :
           (\A k \in 1 .. n : node # PathOf(stack, k - 1))
             => HasEntries(dirs \cup files, node, drawn[node])
  BY DEF Fills
<1>5. HasEntries(dirs \cup files, p, drawn[p])
  <2>1. n \in 1 .. n /\ Entered(stack, n) = stack[n].i
    BY <1>3 DEF Entered
  <2> QED
    BY <1>1, <1>4, <2>1
<1>6. \A k \in 1 .. n : k = n \/ k \in 1 .. n - 1
  BY <1>3
<1>7. \A k \in 1 .. n - 1 : k \in 1 .. n
  BY <1>3
<1>8. ASSUME NEW node \in dirs \cup {<<>>},
             \A k \in 1 .. n - 1 : node # PathOf(stack, k - 1)
      PROVE  HasEntries(dirs \cup files, node, drawn[node])
  <2>1. CASE node = p
    BY <1>5, <2>1
  <2>2. CASE node # p
    <3>1. \A k \in 1 .. n : node # PathOf(stack, k - 1)
      BY <1>6, <1>8, <2>2
    <3> QED
      BY <1>4, <3>1
  <2> QED
    BY <2>1, <2>2
<1> HIDE DEF p
<1> QED
  BY <1>1, <1>3, <1>4, <1>7, <1>8 DEF Fills

LEMMA StepFills == DirInv /\ FilledInv /\ [Next]_vars => FilledInv'
<1> SUFFICES ASSUME DirInv, FilledInv, [Next]_vars PROVE FilledInv'
  OBVIOUS
<1>1. CASE Created \/ RemoveNode \/ RemoveFails \/ Cleaned
  BY <1>1 DEF Created, RemoveNode, RemoveFails, Cleaned, FilledInv, Unspoilt
<1>2. CASE UNCHANGED vars
  <2>1. UNCHANGED <<once, pc, stack, dirs, files, lost, drawn, failed>>
    BY <1>2 DEF vars
  <2> QED
    BY <2>1 DEF FilledInv, Unspoilt
<1> QED
  BY <1>1, <1>2, BeginFills, MakeDirFills, MakeDirFailsFills, MakeFileFills,
     MakeFileFailsFills, ReturnFills DEF Next

\* When nothing failed in an iteration the tree is complete: every directory at
\* every level has exactly the entries its call drew, although no caller looks
\* at the result of its call (client-dir-ops.c:48-80, 113).
THEOREM TreeComplete == Spec => []FilledUnlessFailed
<1>1. Init => FilledInv
  BY DEF Init, FilledInv, Unspoilt
<1>2. DirInv /\ FilledInv => FilledUnlessFailed
  <2> SUFFICES ASSUME DirInv, Fills(stack, dirs, files, drawn), stack = <<>>,
                      NEW node \in dirs \cup {<<>>}
               PROVE  EntriesOf(node) = {Append(node, k) : k \in 0 .. drawn[node] - 1}
    BY DEF FilledUnlessFailed, FilledInv, Unspoilt, Filled, DirInv, StackInv
  <2>1. HasEntries(Nodes, node, drawn[node])
    <3>1. \A k \in 1 .. Len(stack) : node # PathOf(stack, k - 1)
      OBVIOUS
    <3> QED
      BY <3>1 DEF Fills, Nodes
  <2>2. Nodes \subseteq Seq(0 .. MaxCnt - 1) /\ node \in Seq(0 .. MaxCnt - 1)
    <3>1. <<>> \in Seq(0 .. MaxCnt - 1)
      OBVIOUS
    <3> QED
      BY <3>1 DEF DirInv, TypeOK, Nodes
  <2>3. EntriesOf(node) = {child \in Nodes : child # <<>> /\ Front(child) = node}
    <3> DEFINE S == 0 .. MaxCnt - 1
    <3>1. Nodes \subseteq Seq(S) /\ node \in Seq(S)
      BY <2>2
    <3> HIDE DEF S
    <3>2. \A child \in Nodes : Len(child) = Len(node) + 1 /\ IsPrefix(node, child)
                                <=> child # <<>> /\ Front(child) = node
      BY <3>1, ChildOf
    <3> QED
      BY <3>2 DEF EntriesOf
  <2> QED
    BY <2>1, <2>3 DEF HasEntries
<1> QED
  BY <1>1, <1>2, Invariance, StepFills, PTL DEF Spec
=============================================================================
