-------------------------- MODULE ClientRunProofs --------------------------
(***************************************************************************)
(* Theorems about ClientRun for any number of runs and files, with every   *)
(* failure, death and broken connection the model has.                     *)
(***************************************************************************)
EXTENDS ClientRun, FiniteSetTheorems, TLAPS

-----------------------------------------------------------------------------
(* The inductive invariant *)

\* Where a run is says what it has done.
ControlInv ==
  \A r \in Runs :
    /\ pc[r] \in {"idle", "mount"} => i[r] = 0 /\ faults[r] = {} /\ moved[r] = {}
    /\ pc[r] \in {"mount", "out"} => Mounting(prog[r])
    /\ handle[r] # "none" => pc[r] = "transfer" /\ i[r] < NumFiles
    /\ pc[r] \in {"time", "store"} => i[r] = NumFiles
    /\ pc[r] \in {"transfer", "time", "store"} => "mount" \notin faults[r]
    /\ handle[r] \in Runs \cup {"local"} => Mounting(prog[r])
    /\ pc[r] # "ended" => "umount" \notin faults[r] /\ "killed" \notin faults[r]
    /\ pc[r] = "out" /\ "mount" \in faults[r] => prog[r] = "read"

\* Only a run that went over its files has its time in a time file.
TimeInv ==
  \A m \in {"read", "write"} :
    LET r == timefile[m]
    IN  r \in Runs => /\ Mode(prog[r]) = m /\ i[r] = NumFiles
                      /\ "mount" \notin faults[r] /\ pc[r] \in {"out", "ended"}

\* A run is at most once among the mounts, and only a mounting one that passed
\* its mount.
MountsInv ==
  /\ \A j, k \in DOMAIN mounts : mounts[j] = mounts[k] => j = k
  /\ \A r \in Range(mounts) : Mounting(prog[r]) /\ pc[r] \notin {"idle", "mount"}

\* While no connection broke, one run at a time runs, it is the last one of its
\* mode, and its mount is the uppermost one.
AloneInv ==
  cut = {} =>
    \A r \in Runs : Running(r) =>
      /\ \A s \in Runs : Running(s) => s = r
      /\ latest[Mode(prog[r])] = r
      /\ r \in Range(mounts) => mounts # <<>> /\ Last(mounts) = r
      /\ pc[r] \in {"transfer", "time", "store"} /\ Mounting(prog[r]) => r \in Range(mounts)
      /\ handle[r] \in {"none", "libgfapi"} \cup {r}

\* What the last run of each mode has done, while no connection broke.
WorkInv ==
  /\ \A m \in {"read", "write"} :
       latest[m] \in Runs => Mode(prog[latest[m]]) = m /\ pc[latest[m]] # "idle"
  /\ cut = {} =>
       \A r \in Runs :
         /\ /\ latest[Mode(prog[r])] = r
            /\ pc[r] \in {"out", "ended"}
            /\ faults[r] = {}
            => timefile[Mode(prog[r])] = r
         /\ pc[r] \in {"transfer", "time"} /\ "file" \notin faults[r] =>
              moved[r] = {f \in Files : /\ f < i[r]
                                       /\ \/ Mode(prog[r]) = "write"
                                          \/ files["volume"][f] \in Whole(prog[r])}

\* The runs whose mount succeeded and that have not umounted.
Holders ==
  {r \in Runs : /\ Mounting(prog[r]) /\ pc[r] \in {"transfer", "time", "store", "out"}
               /\ "mount" \notin faults[r]}

\* As long as no reader umounted after a failed mount there is a mount for each
\* of them, its own or another one's.
HoldersInv ==
  /\ IsFiniteSet(Holders)
  /\ (\A s \in Runs : ~ TookMount(s)) => Cardinality(Holders) <= Len(mounts)

\* What has happened when a run left the volume.
StrayInv ==
  \A r \in Runs : "local" \in faults[r] => cut # {} /\ \E s \in Runs : TookMount(s)

RunInv ==
  /\ TypeOK /\ ControlInv /\ TimeInv /\ MountsInv /\ AloneInv /\ WorkInv
  /\ HoldersInv /\ StrayInv

-----------------------------------------------------------------------------
(* Stacks of mounts *)

LEMMA PushMount ==
  ASSUME NEW S, NEW s \in Seq(S), NEW x \in S
  PROVE  /\ Append(s, x) \in Seq(S) /\ Append(s, x) # <<>>
         /\ Last(Append(s, x)) = x
         /\ Range(Append(s, x)) = Range(s) \cup {x}
         /\ (\A j, k \in DOMAIN s : s[j] = s[k] => j = k) /\ x \notin Range(s) =>
              \A j, k \in DOMAIN Append(s, x) :
                Append(s, x)[j] = Append(s, x)[k] => j = k
<1> DEFINE t == Append(s, x)
<1>1. /\ t \in Seq(S) /\ Len(t) = Len(s) + 1 /\ t[Len(t)] = x
      /\ \A j \in 1 .. Len(s) : t[j] = s[j]
      /\ DOMAIN t = 1 .. Len(s) + 1 /\ DOMAIN s = 1 .. Len(s) /\ Len(s) \in Nat
  OBVIOUS
<1>2. t # <<>> /\ Last(t) = x
  BY <1>1 DEF Last
<1>3. Range(t) = Range(s) \cup {x}
  <2>1. Range(t) \subseteq Range(s) \cup {x}
    BY <1>1 DEF Range
  <2>2. Range(s) \cup {x} \subseteq Range(t)
    BY <1>1 DEF Range
  <2> QED
    BY <2>1, <2>2
<1>4. ASSUME \A j, k \in DOMAIN s : s[j] = s[k] => j = k, x \notin Range(s),
             NEW j \in DOMAIN t, NEW k \in DOMAIN t, t[j] = t[k]
      PROVE  j = k
  <2>1. \A l \in 1 .. Len(s) : t[l] # x
    BY <1>1, <1>4 DEF Range
  <2> QED
    BY <1>1, <1>4, <2>1
<1> QED
  BY <1>1, <1>2, <1>3, <1>4

LEMMA PopMount ==
  ASSUME NEW S, NEW s \in Seq(S), s # <<>>
  PROVE  /\ Front(s) \in Seq(S) /\ Len(Front(s)) = Len(s) - 1
         /\ Range(Front(s)) \subseteq Range(s)
         /\ (\A j, k \in DOMAIN s : s[j] = s[k] => j = k) =>
              /\ \A j, k \in DOMAIN Front(s) : Front(s)[j] = Front(s)[k] => j = k
              /\ Last(s) \notin Range(Front(s))
<1> DEFINE t == Front(s)
<1>1. /\ t \in Seq(S) /\ Len(t) = Len(s) - 1 /\ Len(s) \in Nat \ {0}
      /\ \A j \in 1 .. Len(t) : t[j] = s[j]
      /\ DOMAIN t = 1 .. Len(t) /\ DOMAIN s = 1 .. Len(s)
  <2>1. Len(s) \in Nat \ {0} /\ DOMAIN s = 1 .. Len(s) /\ t = SubSeq(s, 1, Len(s) - 1)
    BY DEF Front
  <2>2. Len(t) = Len(s) - 1
    BY <2>1
  <2>3. t \in Seq(S)
    BY <2>1
  <2>4. \A j \in 1 .. Len(t) : t[j] = s[j]
    BY <2>1, <2>2
  <2> QED
    BY <2>1, <2>2, <2>3, <2>4
<1> HIDE DEF t
<1>2. Range(t) \subseteq Range(s)
  BY <1>1 DEF Range
<1>3. ASSUME \A j, k \in DOMAIN s : s[j] = s[k] => j = k
      PROVE  /\ \A j, k \in DOMAIN t : t[j] = t[k] => j = k
             /\ Last(s) \notin Range(t)
  BY <1>1, <1>3 DEF Range, Last
<1> QED
  BY <1>1, <1>2, <1>3 DEF t

LEMMA LastIsMember ==
  ASSUME NEW S, NEW s \in Seq(S), s # <<>>
  PROVE  Last(s) \in Range(s) /\ Last(s) \in S
<1>1. Len(s) \in Nat \ {0} /\ DOMAIN s = 1 .. Len(s)
  OBVIOUS
<1> QED
  BY <1>1 DEF Range, Last

LEMMA RangeOfMounts == ASSUME NEW S, NEW s \in Seq(S) PROVE Range(s) \subseteq S
  BY DEF Range

-----------------------------------------------------------------------------
(* What a step changes *)

LEMMA ModeTyped == \A p \in Programs : Mode(p) \in {"read", "write"}
  BY DEF Mode, Programs

LEMMA Outcomes == \A r \in Runs : Out(r) \in {"out", "ended"}
  BY DEF Out

\* A step of one run leaves the control of the others alone.
LEMMA OneRun ==
  ASSUME TypeOK, NEW r \in Runs, Start(r) \/ Program(r) \/ Killed(r)
  PROVE  /\ UNCHANGED cut
         /\ \A s \in Runs \ {r} :
              /\ prog'[s] = prog[s] /\ pc'[s] = pc[s] /\ i'[s] = i[s]
              /\ handle'[s] = handle[s] /\ faults'[s] = faults[s]
              /\ moved'[s] = moved[s]
<1>1. CASE Start(r)
  BY <1>1 DEF TypeOK, Start, Go, host
<1>2. CASE Mount(r) \/ MountGivesUp(r)
  BY <1>2 DEF TypeOK, Mount, MountGivesUp, Go, Failed, history
<1>3. CASE OpenFile(r) \/ SkipFile(r) \/ Abort(r)
  BY <1>3 DEF TypeOK, OpenFile, SkipFile, Abort, Go, Failed, Next_i, history, host
<1>4. CASE MoveFile(r) \/ MoveFails(r) \/ Transferred(r)
  BY <1>4 DEF TypeOK, MoveFile, MoveFails, Closes, Transferred, Go, Failed, Next_i,
     history, host
<1>5. CASE OpenTime(r) \/ OpenTimeFails(r) \/ StoreTime(r)
  BY <1>5 DEF TypeOK, OpenTime, OpenTimeFails, StoreTime, Go, Failed, history, host
<1>6. CASE Umount(r) \/ UmountFails(r) \/ Killed(r)
  BY <1>6 DEF TypeOK, Umount, UmountFails, Killed, Go, Failed, history, host
<1> QED
  BY <1>1, <1>2, <1>3, <1>4, <1>5, <1>6 DEF Program

-----------------------------------------------------------------------------
(* Types *)

LEMMA InitTypes == Init => TypeOK
<1> SUFFICES ASSUME Init PROVE TypeOK
  OBVIOUS
<1>1. files \in [{"volume", "local"} -> [Files -> Content]]
  BY ClientRunAssumption DEF Init, Content
<1>2. mounts \in Seq(Runs) /\ i \in [Runs -> 0 .. NumFiles]
  BY ClientRunAssumption DEF Init
<1> QED
  BY <1>1, <1>2 DEF Init, TypeOK, Programs, Fault

\* Where the next file is reached.
LEMMA ReachedTyped ==
  ASSUME TypeOK, NEW p \in Programs
  PROVE  /\ Reached(p) \in Runs \cup {"local", "libgfapi"}
         /\ \A h : Place(h) \in {"volume", "local"}
<1>1. mounts # <<>> => Last(mounts) \in Runs
  BY LastIsMember DEF TypeOK
<1> QED
  BY <1>1 DEF Reached, Place

LEMMA ContentTyped ==
  ASSUME NEW p \in Programs, NEW c \in Content
  PROVE  OpenedAs(p, c) \in Content /\ MovedAs(p, c) \in Content
  BY DEF OpenedAs, MovedAs, Content, Programs

LEMMA FilesTyped ==
  ASSUME TypeOK, NEW place \in {"volume", "local"}, NEW f \in Files, NEW c \in Content
  PROVE  [files EXCEPT ![place][f] = c] \in [{"volume", "local"} -> [Files -> Content]]
<1>1. [files[place] EXCEPT ![f] = c] \in [Files -> Content]
  BY DEF TypeOK
<1> QED
  BY <1>1 DEF TypeOK

LEMMA BreaksOffTyped ==
  ASSUME TypeOK, NEW r \in Runs, i[r] \in Files, BreaksOff(r)
  PROVE  files' \in [{"volume", "local"} -> [Files -> Content]]
<1>1. Place(handle[r]) \in {"volume", "local"}
  BY DEF Place
<1>2. files[Place(handle[r])][i[r]] \in Content
  BY <1>1 DEF TypeOK
<1>3. PICK c \in LeftAs(prog[r], files[Place(handle[r])][i[r]]) :
        files' = [files EXCEPT ![Place(handle[r])][i[r]] = c]
  BY DEF BreaksOff
<1>4. c \in Content
  BY <1>2, <1>3 DEF LeftAs, Content
<1> QED
  BY <1>1, <1>3, <1>4, FilesTyped

LEMMA FaultsTyped ==
  ASSUME TypeOK, NEW r \in Runs, NEW what \in Fault, Failed(r, what)
  PROVE  faults' \in [Runs -> SUBSET Fault]
<1>1. faults[r] \cup {what} \in SUBSET Fault
  BY DEF TypeOK
<1> QED
  BY <1>1 DEF TypeOK, Failed

LEMMA IndexTyped ==
  ASSUME TypeOK, NEW r \in Runs, Next_i(r), i[r] < NumFiles
  PROVE  i' \in [Runs -> 0 .. NumFiles]
<1>1. i[r] + 1 \in 0 .. NumFiles
  BY ClientRunAssumption DEF TypeOK
<1> QED
  BY <1>1 DEF TypeOK, Next_i

LEMMA StepTypes ==
  ASSUME TypeOK, ControlInv, NEW r \in Runs,
         Start(r) \/ Program(r) \/ Killed(r) \/ SshDies(r)
  PROVE  TypeOK'
<1> USE ClientRunAssumption, Outcomes
<1>1. prog[r] \in Programs /\ i[r] \in 0 .. NumFiles /\ Mode(prog[r]) \in {"read", "write"}
  BY ModeTyped DEF TypeOK
<1>2. CASE Start(r)
  <2>1. PICK p \in Programs :
          /\ prog' = [prog EXCEPT ![r] = p]
          /\ latest' = [latest EXCEPT ![Mode(p)] = r]
          /\ pc' = [pc EXCEPT ![r] = IF Mounting(p) THEN "mount" ELSE "transfer"]
    BY <1>2 DEF Start, Go
  <2>2. latest' \in [{"read", "write"} -> Runs \cup {"none"}]
    BY <2>1, ModeTyped DEF TypeOK
  <2> QED
    BY <1>2, <2>1, <2>2 DEF TypeOK, Start, host
<1>3. CASE Mount(r)
  BY <1>3, PushMount DEF TypeOK, Mount, Go, history
<1>4. CASE MountGivesUp(r)
  <2>1. mounts' \in Seq(Runs)
    <3>1. Append(mounts, r) \in Seq(Runs)
      BY PushMount DEF TypeOK
    <3> QED
      BY <1>4, <3>1 DEF TypeOK, MountGivesUp
  <2>2. faults' \in [Runs -> SUBSET Fault]
    BY <1>4, FaultsTyped DEF MountGivesUp, Fault
  <2> QED
    BY <1>4, <2>1, <2>2 DEF TypeOK, MountGivesUp, Go
<1>5. CASE OpenFile(r)
  <2>1. i[r] \in Files
    BY <1>1, <1>5 DEF OpenFile, Opening, Files
  <2>2. /\ handle' = [handle EXCEPT ![r] = Reached(prog[r])]
        /\ Reached(prog[r]) \in Runs \cup {"local", "libgfapi"}
    BY <1>1, <1>5, ReachedTyped DEF OpenFile
  <2>3. handle' \in [Runs -> Runs \cup {"none", "local", "libgfapi"}]
    BY <2>2 DEF TypeOK
  <2>4. files' \in [{"volume", "local"} -> [Files -> Content]]
    <3>1. PICK place \in {"volume", "local"} :
            files' = [files EXCEPT ![place][i[r]] = OpenedAs(prog[r], files[place][i[r]])]
      BY <1>5, <2>1, ReachedTyped DEF OpenFile, TypeOK, Place
    <3>2. OpenedAs(prog[r], files[place][i[r]]) \in Content
      BY <1>1, <2>1, ContentTyped DEF TypeOK
    <3> QED
      BY <2>1, <3>1, <3>2, FilesTyped
  <2>5. faults' \in [Runs -> SUBSET Fault]
    BY <1>5, FaultsTyped DEF OpenFile, TypeOK, Fault
  <2> QED
    BY <1>5, <2>3, <2>4, <2>5 DEF TypeOK, OpenFile
<1>6. CASE SkipFile(r) \/ Abort(r)
  <2>1. faults' \in [Runs -> SUBSET Fault]
    BY <1>6, FaultsTyped DEF SkipFile, Abort, Fault
  <2>2. i' \in [Runs -> 0 .. NumFiles]
    BY <1>6, IndexTyped DEF TypeOK, SkipFile, Abort, Opening
  <2> QED
    BY <1>6, <2>1, <2>2 DEF TypeOK, SkipFile, Abort, Go, host
<1>7. CASE MoveFile(r) \/ MoveFails(r)
  <2>1. i[r] < NumFiles /\ i[r] \in Files /\ Closes(r)
    BY <1>1, <1>7 DEF MoveFile, MoveFails, Closes, ControlInv, Files
  <2>2. /\ i' \in [Runs -> 0 .. NumFiles]
        /\ handle' \in [Runs -> Runs \cup {"none", "local", "libgfapi"}]
    BY <2>1, IndexTyped DEF TypeOK, Closes
  <2>3. CASE MoveFile(r)
    <3>1. PICK place \in {"volume", "local"} :
            files' = [files EXCEPT ![place][i[r]] = MovedAs(prog[r], files[place][i[r]])]
      BY <1>1, <2>3, ReachedTyped DEF MoveFile
    <3>2. MovedAs(prog[r], files[place][i[r]]) \in Content
      BY <1>1, <2>1, ContentTyped DEF TypeOK
    <3>3. files' \in [{"volume", "local"} -> [Files -> Content]]
      BY <2>1, <3>1, <3>2, FilesTyped
    <3>4. moved' \in [Runs -> SUBSET Files]
      BY <2>1, <2>3 DEF TypeOK, MoveFile
    <3> QED
      BY <2>2, <2>3, <3>3, <3>4 DEF TypeOK, MoveFile
  <2>4. CASE MoveFails(r)
    <3>1. faults' \in [Runs -> SUBSET Fault]
      BY <2>4, FaultsTyped DEF MoveFails, Fault
    <3>2. files' \in [{"volume", "local"} -> [Files -> Content]]
      BY <2>1, <2>4, BreaksOffTyped DEF MoveFails
    <3> QED
      BY <2>2, <2>4, <3>1, <3>2 DEF TypeOK, MoveFails
  <2> QED
    BY <1>7, <2>3, <2>4
<1>8. CASE Transferred(r)
  BY <1>8 DEF TypeOK, Transferred, Go, host, history
<1>9. CASE OpenTime(r) \/ OpenTimeFails(r) \/ StoreTime(r)
  <2>1. faults' \in [Runs -> SUBSET Fault]
    BY <1>9, FaultsTyped DEF TypeOK, OpenTime, OpenTimeFails, StoreTime, Fault, history
  <2>2. timefile' \in [{"read", "write"} -> Runs \cup {"old", "empty"}]
    BY <1>1, <1>9 DEF TypeOK, OpenTime, OpenTimeFails, StoreTime, host
  <2> QED
    BY <1>9, <2>1, <2>2 DEF TypeOK, OpenTime, OpenTimeFails, StoreTime, Go, host, history
<1>10. CASE Umount(r)
  BY <1>10, PopMount DEF TypeOK, Umount, Go, history
<1>11. CASE UmountFails(r) \/ Killed(r)
  <2>1. faults' \in [Runs -> SUBSET Fault]
    BY <1>11, FaultsTyped DEF UmountFails, Killed, Fault
  <2>2. files' \in [{"volume", "local"} -> [Files -> Content]]
    <3>1. handle[r] # "none" => i[r] \in Files
      BY <1>1 DEF ControlInv, Files
    <3> QED
      BY <1>11, <3>1, BreaksOffTyped DEF TypeOK, UmountFails, Killed, host
  <2> QED
    BY <1>11, <2>1, <2>2 DEF TypeOK, UmountFails, Killed, Go, host
<1>12. CASE SshDies(r)
  BY <1>12 DEF TypeOK, SshDies, host, history
<1> QED
  BY <1>2, <1>3, <1>4, <1>5, <1>6, <1>7, <1>8, <1>9, <1>10, <1>11, <1>12 DEF Program

-----------------------------------------------------------------------------
(* Control and the time files *)

LEMMA InitControl == Init => ControlInv /\ TimeInv /\ MountsInv
  BY ClientRunAssumption DEF Init, ControlInv, TimeInv, MountsInv, Range

LEMMA StepControl ==
  ASSUME TypeOK, ControlInv, NEW r \in Runs,
         Start(r) \/ Program(r) \/ Killed(r) \/ SshDies(r)
  PROVE  ControlInv'
<1> USE ClientRunAssumption
<1>1. CASE SshDies(r)
  BY <1>1 DEF SshDies, ControlInv, history
<1>2. ASSUME Start(r) \/ Program(r) \/ Killed(r) PROVE ControlInv'
  <2> SUFFICES ASSUME NEW s \in Runs
      PROVE /\ pc'[s] \in {"idle", "mount"} => i'[s] = 0 /\ faults'[s] = {} /\ moved'[s] = {}
            /\ pc'[s] \in {"mount", "out"} => Mounting(prog'[s])
            /\ handle'[s] # "none" => pc'[s] = "transfer" /\ i'[s] < NumFiles
            /\ pc'[s] \in {"time", "store"} => i'[s] = NumFiles
            /\ pc'[s] \in {"transfer", "time", "store"} => "mount" \notin faults'[s]
            /\ handle'[s] \in Runs \cup {"local"} => Mounting(prog'[s])
            /\ pc'[s] # "ended" => "umount" \notin faults'[s] /\ "killed" \notin faults'[s]
            /\ pc'[s] = "out" /\ "mount" \in faults'[s] => prog'[s] = "read"
    BY DEF ControlInv
  <2>1. CASE s # r
    BY <1>2, <2>1, OneRun DEF ControlInv
  <2>2. CASE s = r /\ Start(r)
    BY <2>2 DEF TypeOK, ControlInv, Start, Go
  <2>3. CASE s = r /\ (Mount(r) \/ MountGivesUp(r))
    <3>1. CASE Mount(r)
      BY <2>3, <3>1 DEF TypeOK, ControlInv, Mount, Go, history
    <3>2. CASE MountGivesUp(r)
      <4>1. /\ pc'[r] = Out(r) /\ prog' = prog /\ i' = i /\ handle' = handle
            /\ faults'[r] = faults[r] \cup {"mount"} /\ pc[r] = "mount"
        BY <3>2 DEF TypeOK, MountGivesUp, Go, Failed
      <4>2. /\ Mounting(prog[r]) /\ handle[r] = "none"
            /\ faults[r] = {} /\ handle[r] \notin Runs
        BY <4>1 DEF ControlInv
      <4>3. Out(r) = "out" => prog[r] = "read"
        BY DEF Out
      <4> QED
        BY <2>3, <4>1, <4>2, <4>3, Outcomes
    <3> QED
      BY <2>3, <3>1, <3>2
  <2>4. CASE s = r /\ OpenFile(r)
    <3>1. /\ pc' = pc /\ prog' = prog /\ i' = i /\ pc[r] = "transfer" /\ i[r] < NumFiles
          /\ faults'[r] \in {faults[r], faults[r] \cup {"local"}}
      BY <2>4 DEF TypeOK, OpenFile, Opening, Failed
    <3>2. handle'[r] \in Runs \cup {"local"} => Mounting(prog[r])
      BY <2>4 DEF TypeOK, OpenFile, Reached
    <3> QED
      BY <2>4, <3>1, <3>2 DEF ControlInv
  <2>5. CASE s = r /\ (SkipFile(r) \/ Abort(r))
    BY <2>5 DEF TypeOK, ControlInv, SkipFile, Abort, Opening, Go, Failed, Next_i, Out, Mounting
  <2>6. CASE s = r /\ (MoveFile(r) \/ MoveFails(r))
    BY <2>6 DEF TypeOK, ControlInv, MoveFile, MoveFails, Closes, Failed, Next_i
  <2>7. CASE s = r /\ Transferred(r)
    BY <2>7 DEF TypeOK, ControlInv, Transferred, Go, history
  <2>8. CASE s = r /\ (OpenTime(r) \/ OpenTimeFails(r) \/ StoreTime(r))
    BY <2>8 DEF TypeOK, ControlInv, OpenTime, OpenTimeFails, StoreTime, Go, Failed, Out,
       Mounting, history
  <2>9. CASE s = r /\ (Umount(r) \/ UmountFails(r) \/ Killed(r))
    BY <2>9 DEF TypeOK, ControlInv, Umount, UmountFails, Killed, Go, Failed, history
  <2> QED
    BY <1>2, <2>1, <2>2, <2>3, <2>4, <2>5, <2>6, <2>7, <2>8, <2>9 DEF Program
<1> QED
  BY <1>1, <1>2

\* Only StoreTime names a run, and what it has done does not change afterwards.
LEMMA StepTime ==
  ASSUME TypeOK, ControlInv, TimeInv, NEW r \in Runs,
         Start(r) \/ Program(r) \/ Killed(r) \/ SshDies(r)
  PROVE  TimeInv'
<1> USE ClientRunAssumption
<1>1. CASE SshDies(r)
  BY <1>1 DEF SshDies, TimeInv, history, host
<1>2. ASSUME Start(r) \/ Program(r) \/ Killed(r),
             NEW m \in {"read", "write"}, timefile'[m] \in Runs
      PROVE  LET s == timefile'[m]
             IN  /\ Mode(prog'[s]) = m /\ i'[s] = NumFiles
                 /\ "mount" \notin faults'[s] /\ pc'[s] \in {"out", "ended"}
  <2> DEFINE s == timefile'[m]
  <2>1. CASE StoreTime(r) /\ s = r /\ timefile[m] # r
    <3>1. m = Mode(prog[r])
      BY <2>1 DEF StoreTime, TypeOK
    <3> QED
      BY <2>1, <3>1 DEF StoreTime, Go, Failed, ControlInv, TypeOK, history
  <2>2. CASE timefile[m] = s
    <3>1. /\ Mode(prog[s]) = m /\ i[s] = NumFiles
          /\ "mount" \notin faults[s] /\ pc[s] \in {"out", "ended"}
      BY <1>2, <2>2 DEF TimeInv
    <3>2. CASE s # r
      BY <1>2, <3>1, <3>2, OneRun
    <3>3. CASE s = r
      <4>1. Umount(r) \/ UmountFails(r) \/ Killed(r)
        BY <1>2, <3>1, <3>3 DEF Program, Start, Mount, MountGivesUp, OpenFile, SkipFile,
           Abort, Opening, MoveFile, MoveFails, Closes, Transferred, OpenTime,
           OpenTimeFails, StoreTime, Go
      <4> QED
        BY <3>1, <3>3, <4>1 DEF Umount, UmountFails, Killed, Go, Failed, TypeOK, history
    <3> QED
      BY <3>2, <3>3
  <2>3. (StoreTime(r) /\ s = r) \/ timefile[m] = s
    <3>1. UNCHANGED timefile \/ OpenTime(r) \/ StoreTime(r)
      BY <1>2 DEF Program, Start, Mount, MountGivesUp, OpenFile, SkipFile, Abort,
         MoveFile, MoveFails, Transferred, OpenTimeFails, Umount, UmountFails, Killed, host
    <3>2. CASE OpenTime(r)
      BY <1>2, <3>2 DEF OpenTime, TypeOK
    <3>3. CASE StoreTime(r)
      BY <1>2, <3>3 DEF StoreTime, TypeOK
    <3> QED
      BY <3>1, <3>2, <3>3
  <2> QED
    BY <2>1, <2>2, <2>3
<1> QED
  BY <1>1, <1>2 DEF TimeInv

-----------------------------------------------------------------------------
(* The mounts *)

\* What a step does to the mounts.
LEMMA MountStep ==
  ASSUME NEW r \in Runs, Start(r) \/ Program(r) \/ Killed(r) \/ SshDies(r)
  PROVE  \/ UNCHANGED mounts
         \/ (Mount(r) \/ MountGivesUp(r)) /\ mounts' = Append(mounts, r)
         \/ Umount(r)
  BY DEF Program, Start, Mount, MountGivesUp, OpenFile, SkipFile, Abort, MoveFile,
     MoveFails, Transferred, OpenTime, OpenTimeFails, StoreTime, UmountFails,
     Killed, SshDies, host

\* A run that mounts or has mounted stays one that passed its mount.
LEMMA PassedMount ==
  ASSUME TypeOK, NEW r \in Runs, Start(r) \/ Program(r) \/ Killed(r) \/ SshDies(r),
         NEW s \in Runs, Mounting(prog[s]), pc[s] \notin {"idle", "mount"}
  PROVE  Mounting(prog'[s]) /\ pc'[s] \notin {"idle", "mount"}
<1>1. CASE s # r \/ SshDies(r)
  BY <1>1, OneRun DEF SshDies
<1>2. CASE s = r /\ Start(r)
  BY <1>2 DEF Start, Go
<1>3. CASE s = r /\ (Mount(r) \/ MountGivesUp(r))
  BY <1>3 DEF Mount, MountGivesUp, Go
<1>4. CASE s = r /\ (OpenFile(r) \/ SkipFile(r) \/ Abort(r))
  BY <1>4 DEF OpenFile, SkipFile, Abort
<1>5. CASE s = r /\ (MoveFile(r) \/ MoveFails(r) \/ Transferred(r))
  BY <1>5 DEF TypeOK, MoveFile, MoveFails, Transferred, Go
<1>6. CASE s = r /\ (OpenTime(r) \/ OpenTimeFails(r) \/ StoreTime(r))
  BY <1>6 DEF TypeOK, OpenTime, OpenTimeFails, StoreTime, Go, Out
<1>7. CASE s = r /\ (Umount(r) \/ UmountFails(r) \/ Killed(r))
  BY <1>7 DEF TypeOK, Umount, UmountFails, Killed, Go
<1> QED
  BY <1>1, <1>2, <1>3, <1>4, <1>5, <1>6, <1>7 DEF Program

LEMMA StepMounts ==
  ASSUME TypeOK, ControlInv, MountsInv, NEW r \in Runs,
         Start(r) \/ Program(r) \/ Killed(r) \/ SshDies(r)
  PROVE  MountsInv'
<1>1. Range(mounts) \subseteq Runs /\ mounts \in Seq(Runs)
  BY RangeOfMounts DEF TypeOK
<1>2. \A s \in Range(mounts) : Mounting(prog'[s]) /\ pc'[s] \notin {"idle", "mount"}
  BY <1>1, PassedMount DEF MountsInv
<1>3. CASE UNCHANGED mounts
  BY <1>2, <1>3 DEF MountsInv
<1>4. CASE (Mount(r) \/ MountGivesUp(r)) /\ mounts' = Append(mounts, r)
  <2>1. pc[r] = "mount" /\ pc'[r] # "mount" /\ pc'[r] # "idle" /\ prog'[r] = prog[r]
    BY <1>4 DEF Mount, MountGivesUp, Go, TypeOK, Out
  <2>2. r \notin Range(mounts) /\ Mounting(prog[r])
    BY <2>1 DEF MountsInv, ControlInv
  <2>3. /\ Range(mounts') = Range(mounts) \cup {r}
        /\ \A j, k \in DOMAIN mounts' : mounts'[j] = mounts'[k] => j = k
    BY <1>1, <1>4, <2>2, PushMount DEF MountsInv
  <2> QED
    BY <1>2, <2>1, <2>2, <2>3 DEF MountsInv
<1>5. CASE Umount(r)
  <2>1. /\ Range(mounts') \subseteq Range(mounts)
        /\ \A j, k \in DOMAIN mounts' : mounts'[j] = mounts'[k] => j = k
    BY <1>1, <1>5, PopMount DEF MountsInv, Umount
  <2> QED
    BY <1>2, <2>1 DEF MountsInv
<1> QED
  BY <1>3, <1>4, <1>5, MountStep

-----------------------------------------------------------------------------
(* One run at a time *)

\* Start waits for every run whose connection did not break, and a run that ended
\* does not run again.
LEMMA StepRunning ==
  ASSUME TypeOK, NEW r \in Runs, Start(r) \/ Program(r) \/ Killed(r) \/ SshDies(r),
         cut' = {}
  PROVE  /\ cut = {}
         /\ \A s \in Runs \ {r} : Running(s)' => Running(s) /\ ~ Start(r)
         /\ ~ Start(r) => Running(r) /\ UNCHANGED <<prog, latest>>
<1>1. cut = {} /\ ~ SshDies(r)
  BY OneRun DEF SshDies
<1>2. \A s \in Runs \ {r} : Running(s)' => Running(s) /\ ~ Start(r)
  BY <1>1, OneRun DEF Start, Running
<1>3. ~ Start(r) => Running(r) /\ UNCHANGED <<prog, latest>>
  BY <1>1 DEF Program, Mount, MountGivesUp, OpenFile, SkipFile, Abort, Opening,
     MoveFile, MoveFails, Closes, Transferred, OpenTime, OpenTimeFails, StoreTime,
     Umount, UmountFails, Killed, Go, Running, history
<1> QED
  BY <1>1, <1>2, <1>3

LEMMA StepAlone ==
  ASSUME TypeOK, ControlInv, MountsInv, AloneInv, NEW r \in Runs,
         Start(r) \/ Program(r) \/ Killed(r) \/ SshDies(r)
  PROVE  AloneInv'
<1> USE ClientRunAssumption
<1> SUFFICES ASSUME cut' = {}, NEW s \in Runs, Running(s)'
             PROVE  /\ \A t \in Runs : Running(t)' => t = s
                    /\ latest'[Mode(prog'[s])] = s
                    /\ s \in Range(mounts') => mounts' # <<>> /\ Last(mounts') = s
                    /\ pc'[s] \in {"transfer", "time", "store"} /\ Mounting(prog'[s]) =>
                         s \in Range(mounts')
                    /\ handle'[s] \in {"none", "libgfapi"} \cup {s}
  BY DEF AloneInv
<1>1. /\ cut = {}
      /\ \A t \in Runs \ {r} : Running(t)' => Running(t) /\ ~ Start(r)
      /\ ~ Start(r) => Running(r) /\ UNCHANGED <<prog, latest>>
  BY StepRunning
<1>2. s = r
  BY <1>1 DEF AloneInv
<1>3. \A t \in Runs : Running(t)' => t = s
  BY <1>1, <1>2 DEF AloneInv
<1>4. mounts \in Seq(Runs) /\ Range(mounts) \subseteq Runs /\ prog[r] \in Programs
  BY RangeOfMounts DEF TypeOK
<1>5. CASE Start(r)
  <2>1. PICK p \in Programs :
          /\ prog' = [prog EXCEPT ![r] = p]
          /\ latest' = [latest EXCEPT ![Mode(p)] = r]
          /\ pc' = [pc EXCEPT ![r] = IF Mounting(p) THEN "mount" ELSE "transfer"]
          /\ UNCHANGED <<handle, mounts>> /\ pc[r] = "idle"
    BY <1>5 DEF Start, Go, host
  <2>2. prog'[r] = p /\ latest'[Mode(p)] = r
    BY <2>1, ModeTyped DEF TypeOK
  <2>3. r \notin Range(mounts) /\ handle[r] = "none"
    BY <2>1 DEF MountsInv, ControlInv
  <2> QED
    BY <1>2, <1>3, <2>1, <2>2, <2>3 DEF TypeOK
<1>6. ASSUME ~ Start(r)
      PROVE  /\ latest'[Mode(prog'[r])] = r
             /\ r \in Range(mounts) => mounts # <<>> /\ Last(mounts) = r
             /\ pc[r] \in {"transfer", "time", "store"} /\ Mounting(prog[r]) => r \in Range(mounts)
             /\ handle[r] \in {"none", "libgfapi"} \cup {r}
  BY <1>1, <1>6 DEF AloneInv
<1>7. CASE Mount(r) \/ MountGivesUp(r)
  <2>1. pc[r] = "mount" /\ ~ Start(r) /\ UNCHANGED <<prog, handle>>
    BY <1>7 DEF Mount, MountGivesUp, Start, Go
  <2>2. r \notin Range(mounts)
    BY <2>1 DEF MountsInv
  <2>3. CASE mounts' = Append(mounts, r)
    <3>1. mounts' # <<>> /\ Last(mounts') = r /\ r \in Range(mounts')
      BY <1>4, <2>3, PushMount
    <3> QED
      BY <1>2, <1>3, <1>6, <2>1, <3>1
  <2>4. CASE UNCHANGED mounts /\ MountGivesUp(r)
    <3>1. pc'[r] = Out(r)
      BY <2>4 DEF MountGivesUp, Go, TypeOK
    <3> QED
      BY <1>2, <1>3, <1>6, <2>1, <2>2, <2>4, <3>1, Outcomes
  <2> QED
    BY <1>7, <2>3, <2>4 DEF Mount, MountGivesUp
<1>8. CASE OpenFile(r)
  <2>1. /\ pc[r] = "transfer" /\ ~ Start(r) /\ UNCHANGED <<prog, pc, mounts>>
        /\ handle'[r] = Reached(prog[r])
    BY <1>8 DEF OpenFile, Opening, Start, Go, TypeOK
  <2>2. Reached(prog[r]) \in {"libgfapi", r}
    BY <1>6, <2>1 DEF Reached
  <2> QED
    BY <1>2, <1>3, <1>6, <2>1, <2>2
<1>9. CASE SkipFile(r) \/ Abort(r)
  <2>1. /\ ~ Start(r) /\ UNCHANGED <<prog, mounts, handle>>
        /\ pc'[r] \in {pc[r], "out", "ended"}
    BY <1>9, Outcomes DEF SkipFile, Abort, Opening, Start, Go, TypeOK, host
  <2> QED
    BY <1>2, <1>3, <1>6, <2>1
<1>10. CASE MoveFile(r) \/ MoveFails(r) \/ Transferred(r)
  <2>1. /\ ~ Start(r) /\ UNCHANGED <<prog, mounts>> /\ handle'[r] \in {handle[r], "none"}
        /\ pc[r] = "transfer" /\ pc'[r] \in {"transfer", "time"}
    BY <1>10 DEF MoveFile, MoveFails, Closes, Transferred, Start, Go, TypeOK, host
  <2> QED
    BY <1>2, <1>3, <1>6, <2>1
<1>11. CASE OpenTime(r) \/ OpenTimeFails(r) \/ StoreTime(r)
  <2>1. /\ ~ Start(r) /\ UNCHANGED <<prog, mounts, handle>>
        /\ pc[r] \in {"time", "store"} /\ pc'[r] \in {"store", "out", "ended"}
    BY <1>11, Outcomes DEF OpenTime, OpenTimeFails, StoreTime, Start, Go, TypeOK, host
  <2> QED
    BY <1>2, <1>3, <1>6, <2>1
<1>12. CASE Umount(r) \/ UmountFails(r) \/ Killed(r)
  BY <1>2, <1>12 DEF Umount, UmountFails, Killed, Go, Running, TypeOK
<1> QED
  BY <1>1, <1>5, <1>7, <1>8, <1>9, <1>10, <1>11, <1>12, OneRun DEF Program, SshDies

-----------------------------------------------------------------------------
(* The runs that rely on a mount *)

\* What took place stays so: a run that ended does not change.
LEMMA TakenStays ==
  ASSUME TypeOK, NEW r \in Runs, Start(r) \/ Program(r) \/ Killed(r) \/ SshDies(r),
         NEW s \in Runs, TookMount(s)
  PROVE  TookMount(s)'
<1>1. CASE SshDies(r)
  BY <1>1 DEF SshDies, TookMount, history
<1>2. CASE s # r /\ ~ SshDies(r)
  <2>1. prog'[s] = prog[s] /\ pc'[s] = pc[s] /\ faults'[s] = faults[s]
    BY <1>2, OneRun
  <2> QED
    BY <2>1 DEF TookMount
<1>3. CASE s = r /\ ~ SshDies(r)
  BY <1>3 DEF TookMount, Program, Start, Mount, MountGivesUp, OpenFile, SkipFile, Abort,
     Opening, MoveFile, MoveFails, Closes, Transferred, OpenTime, OpenTimeFails,
     StoreTime, Umount, UmountFails, Killed, Running, Go
<1> QED
  BY <1>1, <1>2, <1>3

\* Only Mount makes a holder.
LEMMA HoldersAfter ==
  ASSUME TypeOK, ControlInv, NEW r \in Runs,
         Start(r) \/ Program(r) \/ Killed(r) \/ SshDies(r)
  PROVE  /\ Mount(r) => Holders' = Holders \cup {r} /\ r \notin Holders
         /\ ~ Mount(r) => Holders' \subseteq Holders
         /\ Umount(r) => r \notin Holders'
<1>1. CASE SshDies(r)
  BY <1>1 DEF SshDies, Holders, history, Umount, Mount, Go
<1>2. ASSUME ~ SshDies(r), NEW s \in Runs, s # r
      PROVE  s \in Holders' <=> s \in Holders
  BY <1>2, OneRun DEF Holders
<1>3. ASSUME NEW s PROVE /\ s \in Holders => s \in Runs
                         /\ s \in Holders' => s \in Runs
  BY DEF Holders
<1>4. CASE Mount(r)
  <2>1. r \in Holders' /\ r \notin Holders /\ ~ Umount(r) /\ ~ SshDies(r)
    BY <1>4 DEF Mount, Umount, SshDies, Go, Holders, ControlInv, TypeOK, history
  <2> QED
    BY <1>2, <1>3, <1>4, <2>1
<1>5. CASE ~ Mount(r) /\ ~ SshDies(r)
  <2>1. r \in Holders' => r \in Holders
    <3>1. CASE Start(r)
      BY <3>1 DEF Start, Go, Holders, TypeOK
    <3>2. CASE MountGivesUp(r)
      BY <3>2 DEF MountGivesUp, Go, Failed, Holders, TypeOK
    <3>3. CASE OpenFile(r) \/ SkipFile(r) \/ Abort(r)
      BY <3>3 DEF OpenFile, SkipFile, Abort, Opening, Go, Failed, Holders, TypeOK
    <3>4. CASE MoveFile(r) \/ MoveFails(r) \/ Transferred(r)
      BY <3>4 DEF MoveFile, MoveFails, Closes, Transferred, Go, Failed, Holders, TypeOK,
         history
    <3>5. CASE OpenTime(r) \/ OpenTimeFails(r) \/ StoreTime(r)
      BY <3>5 DEF OpenTime, OpenTimeFails, StoreTime, Go, Failed, Holders, TypeOK,
         history
    <3>6. CASE Umount(r) \/ UmountFails(r) \/ Killed(r)
      BY <3>6 DEF Umount, UmountFails, Killed, Go, Failed, Holders, TypeOK, history
    <3> QED
      BY <1>5, <3>1, <3>2, <3>3, <3>4, <3>5, <3>6 DEF Program
  <2>2. Umount(r) => r \notin Holders'
    BY DEF Umount, Go, Holders, TypeOK
  <2> QED
    BY <1>2, <1>3, <1>5, <2>1, <2>2
<1> QED
  BY <1>1, <1>4, <1>5

LEMMA StepHolders ==
  ASSUME TypeOK, ControlInv, HoldersInv, NEW r \in Runs,
         Start(r) \/ Program(r) \/ Killed(r) \/ SshDies(r)
  PROVE  HoldersInv'
<1>1. IsFiniteSet(Holders) /\ Cardinality(Holders) \in Nat
  BY FS_CardinalityType DEF HoldersInv
<1>2. IsFiniteSet(Holders')
  <2>1. Holders' \subseteq Holders \cup {r}
    BY HoldersAfter
  <2> QED
    BY <1>1, <2>1, FS_AddElement, FS_Subset
<1> SUFFICES ASSUME \A s \in Runs : ~ TookMount(s)'
             PROVE  Cardinality(Holders') <= Len(mounts')
  BY <1>2 DEF HoldersInv
<1>3. Cardinality(Holders) <= Len(mounts)
  BY TakenStays DEF HoldersInv
<1>4. mounts \in Seq(Runs) /\ Len(mounts) \in Nat
  BY DEF TypeOK
<1>5. CASE Mount(r)
  <2>1. Cardinality(Holders') = Cardinality(Holders) + 1
    BY <1>1, <1>5, HoldersAfter, FS_AddElement
  <2>2. Len(mounts') = Len(mounts) + 1
    BY <1>4, <1>5 DEF Mount
  <2> QED
    BY <1>1, <1>3, <1>4, <2>1, <2>2
<1>6. CASE Umount(r)
  <2>1. ~ Mount(r) /\ pc[r] = "out"
    BY <1>6 DEF Umount, Mount, Go
  <2>2. r \in Holders
    <3>1. Mounting(prog[r])
      BY <2>1 DEF ControlInv
    <3>2. "mount" \notin faults[r]
      <4> SUFFICES ASSUME "mount" \in faults[r] PROVE TookMount(r)'
        OBVIOUS
      <4>1. /\ prog[r] = "read" /\ "umount" \notin faults[r]
            /\ "killed" \notin faults[r]
        BY <2>1 DEF ControlInv
      <4>2. pc'[r] = "ended" /\ prog' = prog /\ faults' = faults
        BY <1>6 DEF Umount, Go, TypeOK, history
      <4> QED
        BY <4>1, <4>2 DEF TookMount
    <3> QED
      BY <2>1, <3>1, <3>2 DEF Holders
  <2>3. Holders' \subseteq Holders \ {r}
    BY <1>6, <2>1, HoldersAfter
  <2>4. /\ IsFiniteSet(Holders \ {r})
        /\ Cardinality(Holders \ {r}) = Cardinality(Holders) - 1
    BY <1>1, <2>2, FS_RemoveElement
  <2>5. Cardinality(Holders') <= Cardinality(Holders \ {r})
    BY <2>3, <2>4, FS_Subset
  <2>6. Len(mounts') = Len(mounts) - 1
    BY <1>4, <1>6, PopMount DEF Umount
  <2> QED
    BY <1>1, <1>2, <1>3, <1>4, <2>4, <2>5, <2>6, FS_CardinalityType
<1>7. CASE ~ Mount(r) /\ ~ Umount(r)
  <2>1. Cardinality(Holders') <= Cardinality(Holders)
    BY <1>1, <1>7, HoldersAfter, FS_Subset
  <2>2. Len(mounts') \in Nat /\ Len(mounts) <= Len(mounts')
    BY <1>4, <1>7, MountStep
  <2> QED
    BY <1>1, <1>2, <1>3, <1>4, <2>1, <2>2, FS_CardinalityType
<1> QED
  BY <1>5, <1>6, <1>7

LEMMA StepStray ==
  ASSUME TypeOK, ControlInv, HoldersInv, AloneInv', StrayInv, NEW r \in Runs,
         Start(r) \/ Program(r) \/ Killed(r) \/ SshDies(r)
  PROVE  StrayInv'
<1> SUFFICES ASSUME NEW s \in Runs, "local" \in faults'[s]
             PROVE  cut' # {} /\ \E t \in Runs : TookMount(t)'
  BY DEF StrayInv
<1>1. CASE "local" \in faults[s]
  <2>1. cut # {} /\ \E t \in Runs : TookMount(t)
    BY <1>1 DEF StrayInv
  <2>2. cut \subseteq cut'
    BY OneRun DEF SshDies
  <2> QED
    BY <2>1, <2>2, TakenStays
<1>2. CASE "local" \notin faults[s]
  <2>1. s = r /\ ~ SshDies(r)
    BY <1>2, OneRun DEF SshDies, history
  <2>2. OpenFile(r) /\ handle'[r] = "local"
    BY <1>2, <2>1 DEF Program, Start, Mount, MountGivesUp, OpenFile, SkipFile, Abort,
       MoveFile, MoveFails, Transferred, OpenTime, OpenTimeFails, StoreTime, Umount,
       UmountFails, Killed, Failed, TypeOK, history
  <2>3. pc[r] = "transfer" /\ pc'[r] = "transfer" /\ Reached(prog[r]) = "local"
    BY <2>2 DEF OpenFile, Opening, TypeOK
  <2>4. cut' # {}
    BY <2>2, <2>3, ClientRunAssumption DEF AloneInv, Running
  <2>5. ASSUME \A t \in Runs : ~ TookMount(t)'
        PROVE  FALSE
    <3>1. mounts = <<>> /\ Mounting(prog[r])
      <4>1. mounts # <<>> => Last(mounts) \in Runs
        BY LastIsMember DEF TypeOK
      <4> QED
        BY <2>3, <4>1, ClientRunAssumption DEF Reached
    <3>2. r \in Holders
      BY <2>3, <3>1 DEF Holders, ControlInv
    <3>3. Cardinality(Holders) <= 0
      BY <2>5, <3>1, TakenStays DEF HoldersInv
    <3>4. Cardinality(Holders) \in Nat /\ (Cardinality(Holders) = 0 <=> Holders = {})
      BY FS_CardinalityType, FS_EmptySet DEF HoldersInv
    <3> QED
      BY <3>2, <3>3, <3>4
  <2> QED
    BY <2>4, <2>5
<1> QED
  BY <1>1, <1>2

-----------------------------------------------------------------------------
(* What a run has done *)

LEMMA StepLatest ==
  ASSUME TypeOK, NEW r \in Runs, Start(r) \/ Program(r) \/ Killed(r) \/ SshDies(r),
         \A m \in {"read", "write"} :
           latest[m] \in Runs => Mode(prog[latest[m]]) = m /\ pc[latest[m]] # "idle"
  PROVE  \A m \in {"read", "write"} :
           latest'[m] \in Runs => Mode(prog'[latest'[m]]) = m /\ pc'[latest'[m]] # "idle"
<1>1. CASE Start(r)
  <2> SUFFICES ASSUME NEW m \in {"read", "write"}, latest'[m] \in Runs
               PROVE  Mode(prog'[latest'[m]]) = m /\ pc'[latest'[m]] # "idle"
    OBVIOUS
  <2>1. PICK p \in Programs :
          /\ prog' = [prog EXCEPT ![r] = p]
          /\ latest' = [latest EXCEPT ![Mode(p)] = r]
          /\ pc' = [pc EXCEPT ![r] = IF Mounting(p) THEN "mount" ELSE "transfer"]
          /\ pc[r] = "idle"
    BY <1>1 DEF Start, Go
  <2>2. CASE m = Mode(p)
    BY <2>1, <2>2 DEF TypeOK
  <2>3. CASE m # Mode(p)
    BY <2>1, <2>3 DEF TypeOK
  <2> QED
    BY <2>2, <2>3
<1>2. CASE ~ Start(r)
  <2>1. UNCHANGED <<prog, latest>>
    BY <1>2 DEF Program, Mount, MountGivesUp, OpenFile, SkipFile, Abort, MoveFile,
       MoveFails, Transferred, OpenTime, OpenTimeFails, StoreTime, Umount,
       UmountFails, Killed, SshDies, history
  <2>2. \A s \in Runs : pc[s] # "idle" => pc'[s] # "idle"
    BY <1>2, Outcomes DEF TypeOK, Program, Mount, MountGivesUp, OpenFile, SkipFile, Abort,
       MoveFile, MoveFails, Transferred, OpenTime, OpenTimeFails, StoreTime, Umount,
       UmountFails, Killed, SshDies, Go
  <2> QED
    BY <2>1, <2>2
<1> QED
  BY <1>1, <1>2

\* The file at the index is moved as a whole, or read as far as it goes.
LEMMA MovedOne ==
  ASSUME NEW p \in Programs, NEW c \in Content
  PROVE  /\ Mode(p) = "write" => MovedAs(p, c) \in Whole(p)
         /\ Mode(p) # "write" => MovedAs(p, c) = c
  BY DEF Programs, Mode, MovedAs, Whole, Mounting

LEMMA StepMoved ==
  ASSUME RunInv, NEW r \in Runs, Start(r) \/ Program(r) \/ Killed(r) \/ SshDies(r),
         cut' = {}, NEW s \in Runs,
         pc'[s] \in {"transfer", "time"}, "file" \notin faults'[s]
  PROVE  moved'[s] = {f \in Files : /\ f < i'[s]
                                   /\ \/ Mode(prog'[s]) = "write"
                                      \/ files'["volume"][f] \in Whole(prog'[s])}
<1> USE ClientRunAssumption DEF RunInv
<1>1. /\ cut = {}
      /\ \A t \in Runs \ {r} : Running(t)' => Running(t) /\ ~ Start(r)
      /\ ~ Start(r) => Running(r) /\ UNCHANGED <<prog, latest>>
  BY StepRunning
<1>2. s = r
  BY <1>1 DEF AloneInv, Running
<1>3. CASE i'[r] = 0 /\ moved'[r] = {}
  BY <1>2, <1>3 DEF Files
<1>4. CASE Start(r) \/ Mount(r) \/ MountGivesUp(r)
  <2>1. i'[r] = 0 /\ moved'[r] = {}
    BY <1>4 DEF Start, Mount, MountGivesUp, Go, ControlInv, history
  <2> QED
    BY <1>3, <2>1
<1>5. ASSUME pc[r] = "transfer", "file" \notin faults[r]
      PROVE  moved[r] = {f \in Files : /\ f < i[r]
                                      /\ \/ Mode(prog[r]) = "write"
                                         \/ files["volume"][f] \in Whole(prog[r])}
  BY <1>1, <1>5 DEF WorkInv
<1>6. CASE OpenFile(r)
  <2>1. /\ pc[r] = "transfer" /\ "file" \notin faults[r] /\ i[r] \in Files
        /\ UNCHANGED <<prog, moved, i>>
    BY <1>2, <1>6 DEF OpenFile, Opening, TypeOK, Files, Failed
  <2>2. \A f \in Files : f < i[r] => files'["volume"][f] = files["volume"][f]
    BY <1>6, <2>1 DEF OpenFile, TypeOK, Files
  <2> QED
    BY <1>2, <1>5, <2>1, <2>2
<1>7. CASE MoveFile(r)
  <2> DEFINE c == MovedAs(prog[r], files["volume"][i[r]])
  <2>1. /\ pc[r] = "transfer" /\ "file" \notin faults[r] /\ i[r] \in Files
        /\ handle[r] # "none" /\ UNCHANGED prog /\ i'[r] = i[r] + 1
    BY <1>2, <1>7 DEF MoveFile, Closes, Next_i, TypeOK, ControlInv, Files
  <2>2. Place(handle[r]) = "volume"
    BY <1>1, <2>1 DEF AloneInv, Running, Place
  <2>3. /\ files' = [files EXCEPT !["volume"][i[r]] = c]
        /\ moved'[r] = IF c \in Whole(prog[r]) THEN moved[r] \cup {i[r]} ELSE moved[r]
    BY <1>7, <2>1, <2>2 DEF MoveFile, TypeOK
  <2>4. /\ files'["volume"][i[r]] = c
        /\ \A f \in Files : f # i[r] => files'["volume"][f] = files["volume"][f]
    BY <2>1, <2>3 DEF TypeOK
  <2>5. /\ Mode(prog[r]) = "write" => c \in Whole(prog[r])
        /\ Mode(prog[r]) # "write" => c = files["volume"][i[r]]
    BY <2>1, MovedOne DEF TypeOK
  <2>6. \A f \in Files : f < i[r] + 1 <=> f < i[r] \/ f = i[r]
    BY <2>1 DEF Files
  <2>7. ASSUME NEW f \in Files
        PROVE  f \in moved'[r] <=> /\ f < i'[r]
                                   /\ \/ Mode(prog'[r]) = "write"
                                      \/ files'["volume"][f] \in Whole(prog'[r])
    <3>1. CASE f = i[r]
      <4>1. f \notin moved[r]
        BY <1>5, <2>1, <3>1 DEF Files
      <4> QED
        BY <2>1, <2>3, <2>4, <2>5, <2>6, <3>1, <4>1
    <3>2. CASE f # i[r]
      <4>1. f \in moved'[r] <=> f \in moved[r]
        BY <2>3, <3>2
      <4> QED
        BY <1>5, <2>1, <2>4, <2>6, <3>2, <4>1
    <3> QED
      BY <3>1, <3>2
  <2>8. moved'[r] \subseteq Files
    BY <2>1, <2>3 DEF TypeOK
  <2> QED
    BY <1>2, <2>7, <2>8
<1>8. CASE Transferred(r)
  <2>1. pc[r] = "transfer" /\ UNCHANGED <<prog, moved, i, files, faults>>
    BY <1>8 DEF Transferred, Go, host, history
  <2> QED
    BY <1>2, <1>5, <2>1
<1>9. CASE SkipFile(r) \/ Abort(r) \/ MoveFails(r)
  BY <1>2, <1>9 DEF SkipFile, Abort, MoveFails, Failed, TypeOK
<1>10. CASE OpenTime(r) \/ OpenTimeFails(r) \/ StoreTime(r)
  BY <1>2, <1>10, Outcomes DEF OpenTime, OpenTimeFails, StoreTime, Go, TypeOK
<1>11. CASE Umount(r) \/ UmountFails(r) \/ Killed(r)
  BY <1>2, <1>11 DEF Umount, UmountFails, Killed, Go, TypeOK
<1>12. ~ SshDies(r)
  BY <1>1 DEF SshDies
<1> QED
  BY <1>4, <1>6, <1>7, <1>8, <1>9, <1>10, <1>11, <1>12 DEF Program

LEMMA StepStored ==
  ASSUME RunInv, NEW r \in Runs, Start(r) \/ Program(r) \/ Killed(r) \/ SshDies(r),
         cut' = {}, NEW s \in Runs, latest'[Mode(prog'[s])] = s,
         pc'[s] \in {"out", "ended"}, faults'[s] = {}
  PROVE  timefile'[Mode(prog'[s])] = s
<1> USE ClientRunAssumption DEF RunInv
<1>1. /\ cut = {}
      /\ \A t \in Runs \ {r} : Running(t)' => Running(t) /\ ~ Start(r)
      /\ ~ Start(r) => Running(r) /\ UNCHANGED <<prog, latest>>
  BY StepRunning
<1>2. /\ prog[s] \in Programs /\ prog[r] \in Programs
      /\ Mode(prog[s]) \in {"read", "write"} /\ Mode(prog[r]) \in {"read", "write"}
  BY ModeTyped DEF TypeOK
<1>3. ASSUME s # r, ~ Start(r) PROVE timefile'[Mode(prog'[s])] = s
  <2>1. Running(r) /\ latest[Mode(prog[r])] = r /\ UNCHANGED <<prog, latest>>
    BY <1>1, <1>3 DEF AloneInv
  <2>2. Mode(prog[s]) # Mode(prog[r])
    BY <1>3, <2>1
  <2>3. pc[s] \in {"out", "ended"} /\ faults[s] = {}
    BY <1>1, <1>3, OneRun DEF SshDies
  <2>4. timefile[Mode(prog[s])] = s
    BY <1>1, <2>1, <2>3 DEF WorkInv
  <2>5. timefile'[Mode(prog[s])] = timefile[Mode(prog[s])]
    BY <1>1, <1>2, <1>3, <2>2 DEF Program, Mount, MountGivesUp, OpenFile, SkipFile, Abort,
       MoveFile, MoveFails, Transferred, OpenTime, OpenTimeFails, StoreTime, Umount,
       UmountFails, Killed, SshDies, host, TypeOK
  <2> QED
    BY <2>1, <2>4, <2>5
<1>4. CASE s # r /\ Start(r)
  <2>1. PICK p \in Programs :
          /\ prog' = [prog EXCEPT ![r] = p]
          /\ latest' = [latest EXCEPT ![Mode(p)] = r]
          /\ UNCHANGED <<timefile, faults>>
    BY <1>4 DEF Start, host
  <2>2. prog'[s] = prog[s] /\ pc'[s] = pc[s] /\ faults'[s] = faults[s]
    BY <1>4, OneRun
  <2>3. latest[Mode(prog[s])] = s
    BY <1>2, <1>4, <2>1, <2>2, ModeTyped DEF TypeOK
  <2> QED
    BY <1>1, <2>1, <2>2, <2>3 DEF WorkInv
<1>5. CASE s = r
  <2>1. ~ Start(r) /\ UNCHANGED <<prog, latest>>
    BY <1>1, <1>5 DEF Start, Go, TypeOK
  <2>2. ASSUME NEW what, Failed(r, what) PROVE faults'[r] # {}
    <3>1. what \in faults'[r]
      BY <2>2 DEF Failed, TypeOK
    <3> QED
      BY <3>1
  <2>3. CASE StoreTime(r)
    <3>1. timefile' = [timefile EXCEPT ![Mode(prog[r])] = r] /\ prog' = prog
      BY <1>5, <2>3, <2>2 DEF StoreTime
    <3> QED
      BY <1>2, <1>5, <3>1 DEF TypeOK
  <2>4. CASE Umount(r)
    <3>1. pc[r] = "out" /\ UNCHANGED <<timefile, faults>>
      BY <2>4 DEF Umount, Go, history
    <3> QED
      BY <1>1, <1>5, <2>1, <3>1 DEF WorkInv
  <2>5. StoreTime(r) \/ Umount(r)
    <3>1. ~ (MountGivesUp(r) \/ Abort(r) \/ SkipFile(r) \/ OpenTimeFails(r)
               \/ UmountFails(r) \/ Killed(r) \/ MoveFails(r))
      BY <1>5, <2>2 DEF MountGivesUp, Abort, SkipFile, OpenTimeFails, UmountFails,
         Killed, MoveFails
    <3>2. ~ (Mount(r) \/ OpenFile(r) \/ MoveFile(r) \/ Transferred(r) \/ OpenTime(r)
               \/ SshDies(r))
      BY <1>1, <1>5 DEF Mount, OpenFile, Opening, MoveFile, Closes, Transferred, OpenTime,
         SshDies, Go, TypeOK
    <3> QED
      BY <2>1, <3>1, <3>2 DEF Program
  <2> QED
    BY <2>3, <2>4, <2>5
<1> QED
  BY <1>3, <1>4, <1>5

-----------------------------------------------------------------------------
(* Theorems *)

LEMMA InitRun == Init => RunInv
<1> SUFFICES ASSUME Init PROVE RunInv
  OBVIOUS
<1>1. AloneInv
  BY DEF Init, AloneInv, Running
<1>2. WorkInv
  <2>1. \A r \in Runs : latest[Mode(prog[r])] # r
    BY ClientRunAssumption, ModeTyped DEF Init, Programs
  <2> QED
    BY <2>1, ClientRunAssumption DEF Init, WorkInv
<1>3. HoldersInv
  <2>1. Holders = {}
    BY DEF Init, Holders
  <2>2. mounts = <<>> /\ Len(mounts) = 0
    BY DEF Init
  <2> QED
    BY <2>1, <2>2, FS_EmptySet DEF HoldersInv
<1>4. StrayInv
  BY DEF Init, StrayInv
<1> QED
  BY <1>1, <1>2, <1>3, <1>4, InitTypes, InitControl DEF RunInv

LEMMA NextRun == RunInv /\ [Next]_vars => RunInv'
<1> SUFFICES ASSUME RunInv, [Next]_vars PROVE RunInv'
  OBVIOUS
<1>1. ASSUME NEW r \in Runs, Start(r) \/ Program(r) \/ Killed(r) \/ SshDies(r)
      PROVE  RunInv'
  <2>1. TypeOK' /\ ControlInv' /\ TimeInv' /\ MountsInv' /\ AloneInv'
    BY <1>1, StepTypes, StepControl, StepTime, StepMounts, StepAlone DEF RunInv
  <2>2. WorkInv'
    BY <1>1, StepLatest, StepStored, StepMoved DEF RunInv, WorkInv
  <2>3. HoldersInv' /\ StrayInv'
    BY <1>1, <2>1, StepHolders, StepStray DEF RunInv
  <2> QED
    BY <2>1, <2>2, <2>3 DEF RunInv
<1>2. CASE UNCHANGED vars
  <2>1. (TypeOK /\ ControlInv /\ TimeInv /\ MountsInv /\ AloneInv /\ WorkInv)'
    BY <1>2 DEF vars, host, history, RunInv, TypeOK, ControlInv, TimeInv, MountsInv,
       AloneInv, WorkInv, Running
  <2>2. (HoldersInv /\ StrayInv)'
    BY <1>2 DEF vars, host, history, RunInv, HoldersInv, Holders, StrayInv, TookMount
  <2> QED
    BY <2>1, <2>2 DEF RunInv
<1> QED
  BY <1>1, <1>2 DEF Next

\* What every run on a server has done and left behind (client-perf-test/read.c,
\* write.c, glapi-perf-test/read.c, write.c).
THEOREM RunInvariance == Spec => []RunInv
<1>1. Init => RunInv
  BY InitRun
<1>2. RunInv /\ [Next]_vars => RunInv'
  BY NextRun
<1> QED
  BY <1>1, <1>2, PTL DEF Spec

\* The programs' variables keep their types: no loop passes its last file.
THEOREM TypeCorrectness == Spec => []TypeOK
<1>1. RunInv => TypeOK
  BY DEF RunInv
<1> QED
  BY <1>1, RunInvariance, PTL

\* Programs work on the volume, for any number of runs and whatever earlier ones
\* left (client-perf-test/read.c:71-85).
THEOREM WorksOnVolume == Spec => []OnVolume
<1>1. RunInv => OnVolume
  <2> SUFFICES ASSUME RunInv, cut = {}, NEW r \in Runs, handle[r] = "local" PROVE FALSE
    BY DEF OnVolume
  <2>1. Running(r)
    BY DEF RunInv, ControlInv, Running
  <2> QED
    BY <2>1, ClientRunAssumption DEF RunInv, AloneInv
<1> QED
  BY <1>1, RunInvariance, PTL

\* When no call failed, the bandwidth line is about all files a program can move
\* (client-perf-test/read.c:80-90, glapi-perf-test/read.c:44-47).
THEOREM Transfers == Spec => []TransferComplete
<1>1. RunInv => TransferComplete
  <2> SUFFICES ASSUME RunInv, NEW r \in Runs, cut = {}, pc[r] = "time", "file" \notin faults[r]
               PROVE  moved[r] = {f \in Files : Mode(prog[r]) = "write"
                                                  \/ files["volume"][f] \in Whole(prog[r])}
    BY DEF TransferComplete
  <2>1. i[r] = NumFiles /\ \A f \in Files : f < NumFiles
    BY ClientRunAssumption DEF RunInv, ControlInv, Files
  <2> QED
    BY <2>1 DEF RunInv, WorkInv
<1> QED
  BY <1>1, RunInvariance, PTL

\* A time file holds a measurement of all files, and a time that was measured on
\* the directory below the mountpoint has the cause TimeIsMeasured names, for any
\* number of overlapping runs (client-perf-test/read.c:71-106).
THEOREM TimesAreMeasured == Spec => []TimeIsMeasured
<1>1. RunInv => TimeIsMeasured
  BY DEF RunInv, TimeInv, StrayInv, TimeIsMeasured
<1> QED
  BY <1>1, RunInvariance, PTL

\* The time that the driver fetches after a run without failures is that run's
\* (client-perf-test/read.c:97-107).
THEOREM TimesAreLatest == Spec => []TimeIsLatest
<1>1. RunInv => TimeIsLatest
  BY DEF RunInv, WorkInv, TimeIsLatest
<1> QED
  BY <1>1, RunInvariance, PTL

\* A program that ends without its umount is one of those CleanExit names.
LEMMA StepClean ==
  ASSUME RunInv, RunInv', CleanExit, NEW r \in Runs,
         Start(r) \/ Program(r) \/ Killed(r) \/ SshDies(r)
  PROVE  CleanExit'
<1> SUFFICES ASSUME cut' = {}, NEW s \in Range(mounts'), ~ Running(s)'
             PROVE  \/ faults'[s] \cap {"killed", "umount"} # {}
                    \/ prog'[s] = "write" /\ faults'[s] \cap {"mount", "time"} # {}
  BY DEF CleanExit
<1> USE DEF RunInv
<1>1. /\ cut = {} /\ mounts \in Seq(Runs) /\ s \in Runs
      /\ ~ Start(r) => Running(r) /\ UNCHANGED <<prog, latest>>
  BY StepRunning, RangeOfMounts DEF TypeOK
<1>2. Mounting(prog'[s]) /\ pc'[s] = "ended"
  BY DEF MountsInv, Running
<1>3. CASE s # r
  <2>1. /\ s \in Range(mounts) /\ ~ Running(s)
        /\ prog'[s] = prog[s] /\ faults'[s] = faults[s]
    <3>1. s \in Range(mounts)
      <4>1. CASE mounts' = Append(mounts, r)
        <5>1. Range(mounts') = Range(mounts) \cup {r}
          BY <1>1, <4>1, PushMount
        <5> QED
          BY <1>3, <5>1
      <4>2. CASE Umount(r)
        BY <1>1, <4>2, PopMount DEF Umount
      <4> QED
        BY <4>1, <4>2, MountStep
    <3>2. /\ prog'[s] = prog[s] /\ faults'[s] = faults[s] /\ pc'[s] = pc[s]
      BY <1>1, <1>3, OneRun DEF SshDies
    <3> QED
      BY <1>2, <3>1, <3>2 DEF Running
  <2> QED
    BY <1>1, <2>1 DEF CleanExit
<1>4. CASE s = r
  <2>1. ~ Start(r) /\ prog'[r] = prog[r] /\ Running(r)
    BY <1>1, <1>2, <1>4 DEF Start, Go, TypeOK
  <2>2. CASE Umount(r)
    <3>1. r \notin Range(mounts)
      <4> SUFFICES ASSUME r \in Range(mounts) PROVE FALSE
        OBVIOUS
      <4>1. mounts # <<>> /\ Last(mounts) = r
        BY <1>1, <2>1 DEF AloneInv
      <4> QED
        BY <1>1, <1>4, <2>2, <4>1, PopMount DEF Umount, MountsInv
    <3> QED
      BY <1>1, <1>4, <2>2, <3>1, PopMount DEF Umount
  <2>3. CASE UmountFails(r) \/ Killed(r)
    <3>1. \A what \in {"umount", "killed"} : Failed(r, what) => what \in faults'[r]
      BY DEF Failed, TypeOK
    <3>2. faults'[r] \cap {"killed", "umount"} # {}
      BY <2>3, <3>1 DEF UmountFails, Killed
    <3> QED
      BY <1>4, <3>2
  <2>4. CASE MountGivesUp(r)
    <3>1. prog[r] = "write" /\ "mount" \in faults'[r]
      BY <1>1, <1>2, <1>4, <2>1, <2>4 DEF MountGivesUp, Go, Failed, Out, Mounting, TypeOK
    <3> QED
      BY <1>4, <2>1, <3>1
  <2>5. CASE OpenTimeFails(r)
    <3>1. prog[r] = "write" /\ "time" \in faults'[r]
      BY <1>1, <1>2, <1>4, <2>1, <2>5 DEF OpenTimeFails, Go, Failed, Out, Mounting, TypeOK
    <3> QED
      BY <1>4, <2>1, <3>1
  <2>6. ~ (Mount(r) \/ OpenFile(r) \/ SkipFile(r) \/ MoveFile(r) \/ MoveFails(r)
             \/ Transferred(r) \/ OpenTime(r) \/ SshDies(r))
    BY <1>1, <1>2, <1>4 DEF Mount, OpenFile, SkipFile, Opening, MoveFile, MoveFails,
       Closes, Transferred, OpenTime, SshDies, Go, TypeOK
  <2>7. ~ (Abort(r) \/ StoreTime(r))
    BY <1>2, <1>4, <2>1 DEF Abort, StoreTime, Go, TypeOK
  <2> QED
    BY <2>1, <2>2, <2>3, <2>4, <2>5, <2>6, <2>7 DEF Program
<1> QED
  BY <1>3, <1>4

\* A mount is left behind only by the runs that CleanExit names, for any number
\* of runs (client-perf-test/write.c:75, 100-106, read.c:71-106).
THEOREM Unmounts == Spec => []CleanExit
<1>1. Init => CleanExit
  BY DEF Init, CleanExit, Range
<1>2. RunInv /\ RunInv' /\ CleanExit /\ [Next]_vars => CleanExit'
  <2> SUFFICES ASSUME RunInv, RunInv', CleanExit, [Next]_vars PROVE CleanExit'
    OBVIOUS
  <2>1. CASE UNCHANGED vars
    BY <2>1 DEF vars, host, history, CleanExit, Running
  <2> QED
    BY <2>1, StepClean DEF Next
<1> QED
  BY <1>1, <1>2, RunInvariance, PTL DEF Spec
=============================================================================
