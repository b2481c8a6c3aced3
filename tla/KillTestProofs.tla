--------------------------- MODULE KillTestProofs ---------------------------
(***************************************************************************)
(* Theorems about KillTest for any number of servers and bricks, with      *)
(* forks and commands that may fail.                                       *)
(***************************************************************************)
EXTENDS KillTest, TLAPS

-----------------------------------------------------------------------------
(* The inductive invariant *)

CoordinatorOf(r) == <<"coordinator", r>>
Restarter(r, s) == <<"restart", r, s>>

\* The killer of the last brick of server s: the one its coordinator waits for.
LastKiller(r, s) == <<"killer", r, <<s, NumBricks - 1>>>>

Over(p) == proc[p] \in {"none", "reaped"}

InRestart == pc \in {"fork_restart", "wait_restart"}
Recovered == pc \in {"recovered", "done"}
Waited == InRestart \/ Recovered \/ pc \in {"read_back", "check"}

\* Server s has had its turn in the forking loop of restart_glusterd.
Reached(s) == pc = "wait_restart" \/ (pc = "fork_restart" /\ s < i)

\* Where main can be in which round, and its loop index.
MainInv ==
  /\ pc \in {"write_file", "read_file", "check_file", "read_back", "recovered"}
       => round = "w"
  /\ pc = "done" => round = "r"
  /\ ~ InRestart => i = 0

\* A coordinator that does not run has not begun its loops.
LoopsInv ==
  \A r \in Rounds :
    /\ coord[r].pc = "fork" => coord[r].i < NumServers
    /\ proc[CoordinatorOf(r)] # "running" => coord[r] = FreshLoops

\* The restarters of a round are forked and waited for in its restart, each
\* under the pid that restart_glusterd keeps for its server.
RestartersInv ==
  \A s \in ServerIds :
    /\ round = "w" => proc[Restarter("r", s)] = "none"
    /\ round = "r" => Over(Restarter("w", s))
    /\ ~ Reached(s) /\ ~ Recovered => proc[Restarter(round, s)] = "none"
    /\ Reached(s) => \/ pids[s] = Restarter(round, s)
                     \/ pids[s] = ForkError /\ proc[Restarter(round, s)] = "none"
    /\ pc = "wait_restart" /\ s < i => Over(Restarter(round, s))
    /\ Recovered => Over(Restarter(round, s))

RestartInv == TypeOK /\ MainInv /\ LoopsInv /\ RestartersInv

\* While nothing failed: main waits for the coordinator it forked.
CoordinatorsInv ==
  /\ round = "w" => proc[CoordinatorOf("r")] = "none"
  /\ round = "r" => proc[CoordinatorOf("w")] = "reaped"
  /\ pc \in {"write_file", "read_file", "check_file", "fork_killers"}
       => proc[CoordinatorOf(round)] = "none"
  /\ pc \in {"killing", "wait_killers"}
       => pid = CoordinatorOf(round) /\ proc[CoordinatorOf(round)] # "none"
  /\ Waited => proc[CoordinatorOf(round)] = "reaped"

\* The coordinator keeps the pid of the killer it forked last for a server, and
\* when it exits that killer is over.
KillerInv(r, s) ==
  LET c == coord[r]
      state == proc[CoordinatorOf(r)]
  IN  /\ state = "none" => proc[LastKiller(r, s)] = "none"
      /\ state = "running" /\ (\/ c.pc = "wait" \/ s < c.i
                               \/ s = c.i /\ c.j = NumBricks)
           => c.pids[s] = LastKiller(r, s)
      /\ state = "running" /\ c.pc = "wait" /\ s < c.i => Over(LastKiller(r, s))
      /\ state \in {"zombie", "reaped"} => Over(LastKiller(r, s))

KillersInv == \A r \in Rounds, s \in ServerIds : KillerInv(r, s)

\* A restarter that has ended brought its bricks back, and nobody is left who
\* kills the last one again.
BricksInv ==
  \A s \in ServerIds :
    /\ Reached(s) => /\ pids[s] = Restarter(round, s)
                     /\ proc[Restarter(round, s)] # "none"
    /\ InRestart /\ proc[Restarter(round, s)] \in {"zombie", "reaped"}
         => <<s, NumBricks - 1>> \in up
    /\ Recovered => <<s, NumBricks - 1>> \in up

\* What holds as long as no fork and no command failed.
CleanInv == CoordinatorsInv /\ KillersInv /\ BricksInv

NoFaultInv == faults = 0 => CleanInv
-----------------------------------------------------------------------------
(* The processes *)

LEMMA Members ==
  /\ \A r \in Rounds :
       /\ CoordinatorOf(r) \in Coordinators /\ CoordinatorOf(r) \in MainChildren
       /\ CoordinatorOf(r) \in Forked
       /\ Killers(r) \subseteq Forked
       /\ \A b \in Bricks : <<"killer", r, b>> \in Killers(r)
       /\ \A s \in ServerIds :
            /\ Restarter(r, s) \in MainChildren /\ Restarter(r, s) \in Forked
            /\ LastKiller(r, s) \in Killers(r) /\ LastKiller(r, s) \in Forked
  /\ MainChildren \subseteq Forked
  /\ ForkError \notin Forked
  /\ NumServers \in Nat /\ NumServers > 0 /\ NumBricks \in Nat /\ NumBricks > 0
  /\ MaxFaults \in Nat
<1> USE KillTestAssumption
             DEF KillTestAssumption, Rounds, CoordinatorOf, Restarter, LastKiller
<1>1. /\ NumServers \in Nat /\ NumServers > 0 /\ NumBricks \in Nat /\ NumBricks > 0
      /\ NumBricks - 1 \in BrickIds
  BY DEF BrickIds
<1>2. \A s \in ServerIds : <<s, NumBricks - 1>> \in Bricks
  BY <1>1 DEF Bricks
<1>3. \A r \in Rounds : Killers(r) \subseteq Forked
  BY DEF Forked
<1>4. \A r \in Rounds, s \in ServerIds : Restarter(r, s) \in MainChildren
  <2> TAKE r \in Rounds, s \in ServerIds
  <2>1. Restarter(r, s) \in Restarters(r)
    BY DEF Restarters
  <2> QED
    BY <2>1 DEF MainChildren
<1>5. \A r \in Rounds : CoordinatorOf(r) \in Coordinators
  BY DEF Coordinators
<1>6. \A r \in Rounds : \A b \in Bricks : <<"killer", r, b>> \in Killers(r)
  BY DEF Killers
<1>7. Coordinators \subseteq MainChildren /\ MainChildren \subseteq Forked
  BY DEF MainChildren, Forked
<1>8. MaxFaults \in Nat /\ ForkError \notin Forked
  OBVIOUS
<1> QED
  BY <1>1, <1>2, <1>3, <1>4, <1>5, <1>6, <1>7, <1>8

LEMMA Different ==
  \A q, r \in Rounds :
    /\ CoordinatorOf(q) = CoordinatorOf(r) => q = r
    /\ \A p \in Killers(r) : p \notin MainChildren
    /\ \A s \in ServerIds : Restarter(r, s) # CoordinatorOf(q)
    /\ \A s, t \in ServerIds : Restarter(q, s) = Restarter(r, t) => q = r /\ s = t
    /\ \A s \in ServerIds, b \in Bricks :
         LastKiller(q, s) = <<"killer", r, b>> => q = r /\ b = <<s, NumBricks - 1>>
    /\ \A p \in Killers(r) : \E b \in Bricks : p = <<"killer", r, b>>
<1>1. \A q \in Rounds : \A p \in Killers(q) : p[1] = "killer" /\ p = <<p[1], p[2], p[3]>>
  BY DEF Killers
<1>2. \A p \in MainChildren : p[1] \in {"coordinator", "restart"}
  BY DEF MainChildren, Coordinators, Restarters
<1>3. \A q \in Rounds : \A p \in Killers(q) : p \notin MainChildren
  BY <1>1, <1>2
<1>4. \A q, r \in Rounds, s \in ServerIds : Restarter(r, s) # CoordinatorOf(q)
  BY DEF Restarter, CoordinatorOf
<1>5. \A q \in Rounds : \A p \in Killers(q) : \E b \in Bricks : p = <<"killer", q, b>>
  BY DEF Killers
<1> QED
  BY <1>3, <1>4, <1>5 DEF CoordinatorOf, Restarter, LastKiller

USE Members DEF Rounds

LEMMA InitInv == Init => RestartInv /\ NoFaultInv
<1> SUFFICES ASSUME Init PROVE RestartInv /\ NoFaultInv
  OBVIOUS
<1>1. TypeOK
  <2>1. \A r \in Rounds : FreshLoops \in Loops(r)
    <3> SUFFICES ASSUME NEW r \in Rounds PROVE FreshLoops \in Loops(r)
      OBVIOUS
    <3>1. NoPids \in [ServerIds -> Killers(r) \cup {ForkError}]
      BY DEF NoPids
    <3>2. 0 \in 0 .. NumServers /\ 0 \in 0 .. NumBricks
      OBVIOUS
    <3> QED
      BY <3>1, <3>2 DEF Loops, FreshLoops
  <2>2. coord = [r \in Rounds |-> FreshLoops]
    BY DEF Init
  <2>3. DOMAIN coord = Rounds /\ \A r \in Rounds : coord[r] \in Loops(r)
    BY <2>1, <2>2
  <2>4. proc \in [Forked -> ProcessState] /\ pids \in [ServerIds -> MainChildren \cup {ForkError}]
    BY DEF Init, ProcessState, NoPids
  <2>5. 0 \in 0 .. NumServers /\ 0 \in 0 .. MaxFaults
    OBVIOUS
  <2> QED
    BY <2>3, <2>4, <2>5 DEF Init, TypeOK, MainPC
<1>2. MainInv /\ LoopsInv
  BY DEF Init, MainInv, LoopsInv, InRestart, FreshLoops
<1>3. RestartersInv
  BY DEF Init, RestartersInv, Reached, Recovered, Over
<1>4. CoordinatorsInv
  BY DEF Init, CoordinatorsInv, Waited, InRestart, Recovered
<1>5. KillersInv
  BY DEF Init, KillersInv, KillerInv, Over
<1>6. BricksInv
  BY DEF Init, BricksInv, Reached, InRestart, Recovered
<1> QED
  BY <1>1, <1>2, <1>3, <1>4, <1>5, <1>6 DEF RestartInv, NoFaultInv, CleanInv

\* What a waitpid of main does to the processes.
LEMMA WaitReaps ==
  ASSUME proc \in [Forked -> ProcessState], NEW p,
         \/ \E c \in Reapable(proc, p, MainChildren) :
              proc' = [proc EXCEPT ![c] = "reaped"]
         \/ NothingToReap(proc, p, MainChildren) /\ UNCHANGED proc
  PROVE  /\ proc' \in [Forked -> ProcessState]
         /\ \A q \in Forked : \/ proc'[q] = proc[q]
                              \/ proc[q] = "zombie" /\ proc'[q] = "reaped"
         /\ p # ForkError => \A q \in Forked \ {p} : proc'[q] = proc[q]
         /\ \A q \in Forked : q \notin MainChildren => proc'[q] = proc[q]
         /\ p \in MainChildren => proc'[p] \in {"none", "reaped"}
         /\ \A q \in Forked : proc'[q] = "none" <=> proc[q] = "none"
<1>1. p \in MainChildren => WaitedFor(p, MainChildren) = {p} /\ p # ForkError
  BY DEF WaitedFor
<1>2. CASE \E c \in Reapable(proc, p, MainChildren) :
             proc' = [proc EXCEPT ![c] = "reaped"]
  <2>1. PICK c \in Reapable(proc, p, MainChildren) :
          proc' = [proc EXCEPT ![c] = "reaped"]
    BY <1>2
  <2>2. c \in MainChildren /\ proc[c] = "zombie" /\ (p # ForkError => c = p)
    BY DEF Reapable, WaitedFor
  <2> QED
    BY <1>1, <2>1, <2>2 DEF ProcessState
<1>3. CASE NothingToReap(proc, p, MainChildren) /\ UNCHANGED proc
  BY <1>1, <1>3 DEF NothingToReap
<1> QED
  BY <1>2, <1>3

-----------------------------------------------------------------------------
(* Type correctness, and which restarter can run when *)

\* A step outside restart_glusterd that forks and ends no restarter.
LEMMA RestartersKept ==
  ASSUME MainInv, RestartersInv, UNCHANGED <<round, i, pids>>, round \in Rounds,
         \/ pc' = pc
         \/ ~ InRestart /\ ~ Recovered
            /\ pc' \notin {"wait_restart", "recovered", "done"},
         \A r \in Rounds, s \in ServerIds :
           \/ proc'[Restarter(r, s)] = proc[Restarter(r, s)]
           \/ proc[Restarter(r, s)] = "zombie" /\ proc'[Restarter(r, s)] = "reaped"
  PROVE  RestartersInv'
<1> SUFFICES ASSUME NEW s \in ServerIds
             PROVE  /\ round = "w" => proc'[Restarter("r", s)] = "none"
                    /\ round = "r" => proc'[Restarter("w", s)] \in {"none", "reaped"}
                    /\ ~ Reached(s)' /\ ~ Recovered'
                         => proc'[Restarter(round, s)] = "none"
                    /\ Reached(s)' => \/ pids[s] = Restarter(round, s)
                                      \/ /\ pids[s] = ForkError
                                         /\ proc'[Restarter(round, s)] = "none"
                    /\ pc' = "wait_restart" /\ s < i
                         => proc'[Restarter(round, s)] \in {"none", "reaped"}
                    /\ Recovered' => proc'[Restarter(round, s)] \in {"none", "reaped"}
  BY DEF RestartersInv, Over
<1>1. /\ Reached(s)' => Reached(s)
      /\ ~ Reached(s)' /\ ~ Recovered' => ~ Reached(s) /\ ~ Recovered
      /\ pc' = "wait_restart" => pc = "wait_restart"
      /\ Recovered' => Recovered
  BY DEF Reached, Recovered, InRestart, MainInv, ServerIds
<1>2. \A r \in Rounds : \/ proc'[Restarter(r, s)] = proc[Restarter(r, s)]
                        \/ /\ proc[Restarter(r, s)] = "zombie"
                           /\ proc'[Restarter(r, s)] = "reaped"
  OBVIOUS
<1>3. /\ round = "w" => proc[Restarter("r", s)] = "none"
      /\ round = "r" => proc[Restarter("w", s)] \in {"none", "reaped"}
      /\ ~ Reached(s) /\ ~ Recovered => proc[Restarter(round, s)] = "none"
      /\ Reached(s) => \/ pids[s] = Restarter(round, s)
                       \/ pids[s] = ForkError /\ proc[Restarter(round, s)] = "none"
      /\ pc = "wait_restart" /\ s < i
           => proc[Restarter(round, s)] \in {"none", "reaped"}
      /\ Recovered => proc[Restarter(round, s)] \in {"none", "reaped"}
  BY DEF RestartersInv, Over
<1> QED
  BY <1>1, <1>2, <1>3

\* main reads, writes and checks, and moves on.
LEMMA QuietKeepsRestart ==
  ASSUME RestartInv,
         WriteFile \/ ReadFile \/ CheckFile \/ KillingIO \/ ReadBack \/ CheckRound
  PROVE  RestartInv'
<1>1. /\ UNCHANGED <<round, i, pid, pids, coord, proc, up, faults>>
      /\ ~ InRestart /\ ~ Recovered /\ pc' \in MainPC
      /\ pc' \notin {"wait_restart", "recovered", "done"}
  BY DEF WriteFile, ReadFile, CheckFile, KillingIO, ReadBack, CheckRound, Go, Idle,
         InRestart, Recovered, MainPC
<1>2. TypeOK'
  <2>1. /\ stored' \subseteq {"test.dat", File("w"), File("r")}
        /\ buffer' \in BOOLEAN /\ got' \in BOOLEAN
        /\ verdict' \in {"none", "OK!", "Error!"}
    BY DEF RestartInv, TypeOK, WriteFile, ReadFile, CheckFile, KillingIO, ReadBack,
           CheckRound, GlfsWrite, GlfsRead, Check
  <2> QED
    BY <1>1, <2>1 DEF RestartInv, TypeOK
<1>3. MainInv'
  <2>1. ~ InRestart' => i' = 0
    BY <1>1 DEF RestartInv, MainInv
  <2>2. pc' \in {"write_file", "read_file", "check_file", "read_back", "recovered"}
          => pc \in {"write_file", "read_file"}
    BY DEF WriteFile, ReadFile, CheckFile, KillingIO, ReadBack, CheckRound, Go
  <2> QED
    BY <1>1, <2>1, <2>2 DEF RestartInv, MainInv
<1>4. LoopsInv'
  BY <1>1 DEF RestartInv, LoopsInv
<1>5. RestartersInv'
  BY <1>1, RestartersKept DEF RestartInv, TypeOK
<1> QED
  BY <1>2, <1>3, <1>4, <1>5 DEF RestartInv

LEMMA ForkCoordinatorKeepsRestart ==
  ASSUME RestartInv, ForkCoordinator
  PROVE  RestartInv'
<1>1. /\ pc = "fork_killers" /\ pc' = "killing" /\ round \in Rounds
      /\ UNCHANGED <<round, i, pids, coord, up, io>>
      /\ proc \in [Forked -> ProcessState]
  BY DEF RestartInv, TypeOK, ForkCoordinator, Go
<1>2. \/ /\ pid' = CoordinatorOf(round)
         /\ proc' = [proc EXCEPT ![CoordinatorOf(round)] = "running"]
         /\ faults' = faults
      \/ /\ pid' = ForkError /\ proc' = proc /\ faults' \in 0 .. MaxFaults
  BY DEF RestartInv, TypeOK, ForkCoordinator, Fault, CoordinatorOf
<1>3. TypeOK'
  <2>1. proc' \in [Forked -> ProcessState]
    BY <1>1, <1>2 DEF ProcessState
  <2>2. pid' \in Coordinators \cup {ForkError} /\ faults' \in 0 .. MaxFaults
    BY <1>1, <1>2 DEF RestartInv, TypeOK
  <2> QED
    BY <1>1, <2>1, <2>2 DEF RestartInv, TypeOK, MainPC, io
<1>4. MainInv'
  BY <1>1 DEF RestartInv, MainInv, InRestart
<1>5. LoopsInv'
  BY <1>1, <1>2 DEF RestartInv, LoopsInv
<1>6. RestartersInv'
  <2>1. \A r \in Rounds, s \in ServerIds :
          proc'[Restarter(r, s)] = proc[Restarter(r, s)]
    BY <1>1, <1>2, Different
  <2> QED
    BY <1>1, <2>1, RestartersKept DEF RestartInv, InRestart, Recovered
<1> QED
  BY <1>3, <1>4, <1>5, <1>6 DEF RestartInv

LEMMA WaitCoordinatorKeepsRestart ==
  ASSUME RestartInv, WaitCoordinator
  PROVE  RestartInv'
<1>1. /\ pc = "wait_killers" /\ round \in Rounds
      /\ pc' = IF round = "w" THEN "read_back" ELSE "check"
      /\ UNCHANGED <<round, i, pid, pids, coord, up, faults, io>>
      /\ proc \in [Forked -> ProcessState]
  BY DEF RestartInv, TypeOK, WaitCoordinator
<1>2. /\ proc' \in [Forked -> ProcessState]
      /\ \A q \in Forked : \/ proc'[q] = proc[q]
                           \/ proc[q] = "zombie" /\ proc'[q] = "reaped"
  BY <1>1, WaitReaps DEF WaitCoordinator
<1>3. TypeOK'
  BY <1>1, <1>2 DEF RestartInv, TypeOK, MainPC, io
<1>4. MainInv'
  BY <1>1 DEF RestartInv, MainInv, InRestart
<1>5. LoopsInv'
  BY <1>1, <1>2 DEF RestartInv, LoopsInv
<1>6. RestartersInv'
  BY <1>1, <1>2, RestartersKept DEF RestartInv, InRestart, Recovered
<1> QED
  BY <1>3, <1>4, <1>5, <1>6 DEF RestartInv

LEMMA ForkRestartKeepsRestart ==
  ASSUME RestartInv, ForkRestart
  PROVE  RestartInv'
<1> DEFINE p == Restarter(round, i)
<1>1. /\ pc = "fork_restart" /\ round \in Rounds /\ i \in ServerIds /\ i \in Nat
      /\ i' = i + 1 /\ i' \in 0 .. NumServers
      /\ UNCHANGED <<pc, round, pid, coord, up, io>>
      /\ proc \in [Forked -> ProcessState]
      /\ pids \in [ServerIds -> MainChildren \cup {ForkError}]
  BY DEF RestartInv, TypeOK, ForkRestart, ServerIds
<1>2. \/ /\ pids' = [pids EXCEPT ![i] = p]
         /\ proc' = [proc EXCEPT ![p] = "running"]
         /\ faults' = faults
      \/ /\ pids' = [pids EXCEPT ![i] = ForkError]
         /\ proc' = proc /\ faults' \in 0 .. MaxFaults
  BY DEF RestartInv, TypeOK, ForkRestart, Fault, Restarter
<1>3. p \in MainChildren /\ p \in Forked
  BY <1>1
<1>4. TypeOK'
  <2>1. proc' \in [Forked -> ProcessState]
    BY <1>1, <1>2 DEF ProcessState
  <2>2. pids' \in [ServerIds -> MainChildren \cup {ForkError}]
    BY <1>1, <1>2, <1>3
  <2>3. faults' \in 0 .. MaxFaults
    BY <1>2 DEF RestartInv, TypeOK
  <2> QED
    BY <1>1, <2>1, <2>2, <2>3 DEF RestartInv, TypeOK, io
<1>5. MainInv'
  BY <1>1 DEF RestartInv, MainInv, InRestart
<1>6. \A r \in Rounds : proc'[CoordinatorOf(r)] = proc[CoordinatorOf(r)]
  BY <1>1, <1>2, Different
<1>7. LoopsInv'
  BY <1>1, <1>6 DEF RestartInv, LoopsInv
<1>8. RestartersInv'
  <2> SUFFICES ASSUME NEW s \in ServerIds
               PROVE  /\ round = "w" => proc'[Restarter("r", s)] = "none"
                      /\ round = "r" => Over(Restarter("w", s))'
                      /\ ~ (s < i + 1) => proc'[Restarter(round, s)] = "none"
                      /\ s < i + 1 =>
                           \/ pids'[s] = Restarter(round, s)
                           \/ /\ pids'[s] = ForkError
                              /\ proc'[Restarter(round, s)] = "none"
    BY <1>1 DEF RestartersInv, Reached, Recovered
  <2>1. /\ round = "w" => proc[Restarter("r", s)] = "none"
        /\ round = "r" => Over(Restarter("w", s))
        /\ ~ (s < i) => proc[Restarter(round, s)] = "none"
        /\ s < i => \/ pids[s] = Restarter(round, s)
                    \/ pids[s] = ForkError /\ proc[Restarter(round, s)] = "none"
    BY <1>1 DEF RestartInv, RestartersInv, Reached, Recovered
  <2>2. \A r \in Rounds : r # round \/ s # i =>
          proc'[Restarter(r, s)] = proc[Restarter(r, s)]
    BY <1>1, <1>2, Different
  <2>3. s # i => pids'[s] = pids[s]
    BY <1>1, <1>2
  <2>4. s = i => \/ pids'[s] = Restarter(round, s)
                 \/ pids'[s] = ForkError /\ proc'[Restarter(round, s)] = "none"
    BY <1>1, <1>2, <2>1
  <2>5. (s < i + 1 <=> s < i \/ s = i) /\ ~ (s < i /\ s = i)
    BY <1>1 DEF ServerIds
  <2> QED
    BY <1>1, <2>1, <2>2, <2>3, <2>4, <2>5 DEF Over
<1> QED
  BY <1>4, <1>5, <1>7, <1>8 DEF RestartInv

LEMMA ForkedRestartsKeepsRestart ==
  ASSUME RestartInv, ForkedRestarts
  PROVE  RestartInv'
<1>1. /\ pc = "fork_restart" /\ pc' = "wait_restart" /\ i = NumServers /\ i' = 0
      /\ UNCHANGED <<round, pid, pids, coord, proc, up, faults, io>>
  BY DEF ForkedRestarts, Go
<1>2. TypeOK'
  BY <1>1 DEF RestartInv, TypeOK, MainPC, io
<1>3. MainInv' /\ LoopsInv'
  BY <1>1 DEF RestartInv, MainInv, InRestart, LoopsInv
<1>4. RestartersInv'
  <2>1. \A s \in ServerIds : s < NumServers /\ ~ (s < 0)
    BY DEF ServerIds
  <2> QED
    BY <1>1, <2>1 DEF RestartInv, RestartersInv, Reached, Recovered, Over
<1> QED
  BY <1>2, <1>3, <1>4 DEF RestartInv

LEMMA WaitRestartKeepsRestart ==
  ASSUME RestartInv, WaitRestart
  PROVE  RestartInv'
<1> DEFINE p == Restarter(round, i)
<1>1. /\ pc = "wait_restart" /\ round \in Rounds /\ i \in ServerIds /\ i \in Nat
      /\ i' = i + 1 /\ i' \in 0 .. NumServers
      /\ UNCHANGED <<pc, round, pid, pids, coord, up, faults, io>>
      /\ proc \in [Forked -> ProcessState]
  BY DEF RestartInv, TypeOK, WaitRestart, ServerIds
<1>2. /\ proc' \in [Forked -> ProcessState]
      /\ \A q \in Forked : \/ proc'[q] = proc[q]
                           \/ proc[q] = "zombie" /\ proc'[q] = "reaped"
      /\ pids[i] \in MainChildren => proc'[pids[i]] \in {"none", "reaped"}
  BY <1>1, WaitReaps DEF WaitRestart
<1>3. TypeOK'
  BY <1>1, <1>2 DEF RestartInv, TypeOK, io
<1>4. MainInv' /\ LoopsInv'
  BY <1>1, <1>2 DEF RestartInv, MainInv, InRestart, LoopsInv
<1>5. proc'[p] \in {"none", "reaped"}
  <2>1. pids[i] = p \/ proc[p] = "none"
    BY <1>1 DEF RestartInv, RestartersInv, Reached
  <2> QED
    BY <1>1, <1>2, <2>1
<1>6. RestartersInv'
  <2> SUFFICES ASSUME NEW s \in ServerIds
               PROVE  /\ round = "w" => proc'[Restarter("r", s)] = "none"
                      /\ round = "r" => Over(Restarter("w", s))'
                      /\ \/ pids[s] = Restarter(round, s)
                         \/ /\ pids[s] = ForkError
                            /\ proc'[Restarter(round, s)] = "none"
                      /\ s < i + 1 => Over(Restarter(round, s))'
    BY <1>1 DEF RestartersInv, Reached, Recovered
  <2>1. s < i + 1 => s < i \/ s = i
    BY <1>1 DEF ServerIds
  <2>2. /\ round = "w" => proc[Restarter("r", s)] = "none"
        /\ round = "r" => Over(Restarter("w", s))
        /\ \/ pids[s] = Restarter(round, s)
           \/ pids[s] = ForkError /\ proc[Restarter(round, s)] = "none"
        /\ s < i => Over(Restarter(round, s))
    BY <1>1 DEF RestartInv, RestartersInv, Reached
  <2> QED
    BY <1>1, <1>2, <1>5, <2>1, <2>2 DEF Over
<1> QED
  BY <1>3, <1>4, <1>6 DEF RestartInv

LEMMA RestartedKeepsRestart ==
  ASSUME RestartInv, Restarted
  PROVE  RestartInv'
<1>1. /\ pc = "wait_restart" /\ i = NumServers /\ i' = 0 /\ pids' = NoPids
      /\ pc' = IF round = "w" THEN "recovered" ELSE "done"
      /\ round \in Rounds /\ UNCHANGED <<round, pid, coord, proc, up, faults, io>>
  BY DEF RestartInv, TypeOK, Restarted
<1>2. TypeOK'
  BY <1>1 DEF RestartInv, TypeOK, MainPC, NoPids, io
<1>3. MainInv' /\ LoopsInv'
  BY <1>1 DEF RestartInv, MainInv, InRestart, LoopsInv
<1>4. RestartersInv'
  <2>1. \A s \in ServerIds : s < NumServers
    BY DEF ServerIds
  <2> QED
    BY <1>1, <2>1 DEF RestartInv, RestartersInv, Reached, Recovered, Over
<1> QED
  BY <1>2, <1>3, <1>4 DEF RestartInv

LEMMA WriteNextKeepsRestart ==
  ASSUME RestartInv, WriteNext
  PROVE  RestartInv'
<1>1. /\ pc = "recovered" /\ pc' = "fork_killers" /\ round' = "r" /\ round = "w"
      /\ UNCHANGED <<i, pid, pids, coord, proc, up, faults>>
      /\ i = 0
  BY DEF RestartInv, MainInv, InRestart, WriteNext, Go
<1>2. TypeOK'
  <2>1. /\ stored' \subseteq {"test.dat", File("w"), File("r")}
        /\ UNCHANGED <<buffer, got, verdict>>
    BY DEF RestartInv, TypeOK, WriteNext, GlfsWrite
  <2> QED
    BY <1>1, <2>1 DEF RestartInv, TypeOK, MainPC
<1>3. MainInv' /\ LoopsInv'
  BY <1>1 DEF RestartInv, MainInv, InRestart, LoopsInv
<1>4. RestartersInv'
  BY <1>1 DEF RestartInv, RestartersInv, Reached, Recovered, Over
<1> QED
  BY <1>2, <1>3, <1>4 DEF RestartInv

\* A step of a coordinator or of a killer, which changes no restarter.
LEMMA OthersKeepRestart ==
  ASSUME RestartInv, UNCHANGED <<main, io>>, LoopsInv',
         DOMAIN coord' = Rounds, \A r \in Rounds : coord'[r] \in Loops(r),
         proc' \in [Forked -> ProcessState], up' \subseteq Bricks,
         faults' \in 0 .. MaxFaults,
         \A r \in Rounds, s \in ServerIds :
           proc'[Restarter(r, s)] = proc[Restarter(r, s)]
  PROVE  RestartInv'
<1>1. UNCHANGED <<pc, round, i, pid, pids, stored, buffer, got, verdict>>
  BY DEF main, io
<1>2. TypeOK'
  <2>1. DOMAIN coord' = Rounds /\ \A r \in Rounds : coord'[r] \in Loops(r)
    OBVIOUS
  <2> QED
    BY <1>1, <2>1 DEF RestartInv, TypeOK
<1>3. MainInv'
  BY <1>1 DEF RestartInv, MainInv, InRestart
<1>4. RestartersInv'
  BY <1>1, RestartersKept DEF RestartInv, TypeOK
<1> QED
  BY <1>2, <1>3, <1>4 DEF RestartInv

\* The coordinator's record, field by field.
LEMMA LoopsFields ==
  ASSUME TypeOK, NEW r \in Rounds
  PROVE  /\ coord[r] = [pc |-> coord[r].pc, i |-> coord[r].i, j |-> coord[r].j,
                        pids |-> coord[r].pids]
         /\ coord[r].pc \in {"fork", "wait"}
         /\ coord[r].i \in 0 .. NumServers /\ coord[r].j \in 0 .. NumBricks
         /\ coord[r].pids \in [ServerIds -> Killers(r) \cup {ForkError}]
         /\ DOMAIN coord = Rounds /\ \A q \in Rounds : coord[q] \in Loops(q)
         /\ proc \in [Forked -> ProcessState] /\ up \subseteq Bricks
         /\ faults \in 0 .. MaxFaults
<1>1. coord[r] \in Loops(r)
  BY DEF TypeOK
<1>2. DOMAIN coord = Rounds /\ \A q \in Rounds : coord[q] \in Loops(q)
  BY DEF TypeOK
<1> QED
  BY <1>1, <1>2 DEF TypeOK, Loops

\* The coordinator of a round after its record got a new value.
LEMMA LoopsSet ==
  ASSUME TypeOK, NEW r \in Rounds, NEW c \in Loops(r),
         coord' = [coord EXCEPT ![r] = c]
  PROVE  /\ DOMAIN coord' = Rounds /\ \A q \in Rounds : coord'[q] \in Loops(q)
         /\ coord'[r] = c /\ \A q \in Rounds \ {r} : coord'[q] = coord[q]
<1>1. DOMAIN coord = Rounds /\ \A q \in Rounds : coord[q] \in Loops(q)
  BY DEF TypeOK
<1>2. DOMAIN coord' = Rounds /\ coord'[r] = c
      /\ \A q \in Rounds \ {r} : coord'[q] = coord[q]
  BY <1>1
<1> QED
  BY <1>1, <1>2

\* What the fork of a killer does.
LEMMA ForkKillerSteps ==
  ASSUME TypeOK, NEW r \in Rounds, ForkKiller(r)
  PROVE  LET c == coord[r]
             k == <<"killer", r, <<c.i, c.j>>>>
             Forks(p) == coord' = [coord EXCEPT ![r] =
                           [pc |-> c.pc, i |-> c.i, j |-> c.j + 1,
                            pids |-> [c.pids EXCEPT ![c.i] = p]]]
         IN  /\ proc[CoordinatorOf(r)] = "running" /\ c.pc = "fork"
             /\ c.j < NumBricks /\ UNCHANGED <<main, up, io>>
             /\ \/ /\ proc' = [proc EXCEPT ![k] = "running"]
                   /\ Forks(k) /\ faults' = faults
                \/ Fault /\ Forks(ForkError) /\ proc' = proc
<1>1. coord[r] = [pc |-> coord[r].pc, i |-> coord[r].i, j |-> coord[r].j,
                  pids |-> coord[r].pids]
      /\ DOMAIN coord = Rounds
  BY LoopsFields
<1>2. \A p : [coord EXCEPT ![r].pids[coord[r].i] = p, ![r].j = coord[r].j + 1]
               = [coord EXCEPT ![r] =
                    [pc |-> coord[r].pc, i |-> coord[r].i, j |-> coord[r].j + 1,
                     pids |-> [coord[r].pids EXCEPT ![coord[r].i] = p]]]
  <2> SUFFICES ASSUME NEW p
               PROVE  [coord EXCEPT ![r].pids[coord[r].i] = p,
                                    ![r].j = coord[r].j + 1]
                      = [coord EXCEPT ![r] =
                           [pc |-> coord[r].pc, i |-> coord[r].i,
                            j |-> coord[r].j + 1,
                            pids |-> [coord[r].pids EXCEPT ![coord[r].i] = p]]]
    OBVIOUS
  <2> DEFINE one == [coord EXCEPT ![r].pids[coord[r].i] = p]
             next == [pc |-> coord[r].pc, i |-> coord[r].i,
                      j |-> coord[r].j + 1,
                      pids |-> [coord[r].pids EXCEPT ![coord[r].i] = p]]
  <2>1. /\ DOMAIN one = Rounds /\ \A q \in Rounds \ {r} : one[q] = coord[q]
        /\ one[r] = [coord[r] EXCEPT !.pids[coord[r].i] = p]
    BY <1>1
  <2>2. one[r] = [pc |-> coord[r].pc, i |-> coord[r].i, j |-> coord[r].j,
                  pids |-> [coord[r].pids EXCEPT ![coord[r].i] = p]]
    BY <1>1, <2>1
  <2>3. [one EXCEPT ![r].j = coord[r].j + 1] = [one EXCEPT ![r] = next]
    <3>1. [one[r] EXCEPT !.j = coord[r].j + 1] = next
      BY <2>2
    <3> HIDE DEF one, next
    <3> QED
      BY <3>1
  <2>4. [one EXCEPT ![r] = next] = [coord EXCEPT ![r] = next]
    <3> HIDE DEF one, next
    <3> QED
      BY <1>1, <2>1
  <2> QED
    BY <2>3, <2>4
<1> QED
  BY <1>2 DEF ForkKiller, CoordinatorRuns, CoordinatorOf

LEMMA ForkKillerKeepsRestart ==
  ASSUME RestartInv, NEW r \in Rounds, ForkKiller(r), coord[r].i < NumServers
  PROVE  RestartInv'
<1> DEFINE c == coord[r]
           k == <<"killer", r, <<c.i, c.j>>>>
           next(p) == [pc |-> c.pc, i |-> c.i, j |-> c.j + 1,
                       pids |-> [c.pids EXCEPT ![c.i] = p]]
<1>1. /\ proc[CoordinatorOf(r)] = "running" /\ c.pc = "fork" /\ c.j < NumBricks
      /\ UNCHANGED <<main, up, io>>
      /\ \/ /\ proc' = [proc EXCEPT ![k] = "running"]
            /\ coord' = [coord EXCEPT ![r] = next(k)] /\ faults' = faults
         \/ Fault /\ coord' = [coord EXCEPT ![r] = next(ForkError)] /\ proc' = proc
  BY ForkKillerSteps DEF RestartInv
<1>2. /\ c.pc \in {"fork", "wait"} /\ c.i \in 0 .. NumServers /\ c.j \in 0 .. NumBricks
      /\ c.pids \in [ServerIds -> Killers(r) \cup {ForkError}]
      /\ proc \in [Forked -> ProcessState] /\ up \subseteq Bricks
      /\ faults \in 0 .. MaxFaults
  BY LoopsFields DEF RestartInv
<1>3. c.i \in ServerIds /\ c.j \in BrickIds /\ c.j + 1 \in 0 .. NumBricks
  BY <1>1, <1>2 DEF ServerIds, BrickIds
<1>4. k \in Killers(r) /\ k \in Forked
  BY <1>3 DEF Bricks
<1>5. \A p \in Killers(r) \cup {ForkError} : next(p) \in Loops(r)
  BY <1>2, <1>3 DEF Loops
<1>6. PICK p \in Killers(r) \cup {ForkError} : coord' = [coord EXCEPT ![r] = next(p)]
  BY <1>1, <1>4
<1>7. DOMAIN coord' = Rounds /\ (\A q \in Rounds : coord'[q] \in Loops(q))
      /\ coord'[r] = next(p) /\ \A q \in Rounds \ {r} : coord'[q] = coord[q]
  <2> HIDE DEF next
  <2> QED
    BY <1>5, <1>6, LoopsSet DEF RestartInv
<1>8. proc' \in [Forked -> ProcessState] /\ faults' \in 0 .. MaxFaults
  BY <1>1, <1>2, <1>4 DEF ProcessState, Fault
<1>9. \A q \in MainChildren : proc'[q] = proc[q]
  <2>1. k \notin MainChildren
    BY <1>4, Different
  <2> HIDE DEF k, next
  <2> QED
    BY <1>1, <1>2, <2>1
<1>10. LoopsInv'
  BY <1>1, <1>7, <1>9 DEF RestartInv, LoopsInv
<1> QED
  BY <1>1, <1>2, <1>7, <1>8, <1>9, <1>10, OthersKeepRestart

LEMMA NextServerKeepsRestart ==
  ASSUME RestartInv, NEW r \in Rounds, NextServer(r)
  PROVE  RestartInv'
<1> DEFINE c == coord[r]
           last == c.i + 1 = NumServers
           next == [pc |-> IF last THEN "wait" ELSE "fork",
                    i |-> IF last THEN 0 ELSE c.i + 1, j |-> 0, pids |-> c.pids]
<1>1. /\ c = [pc |-> c.pc, i |-> c.i, j |-> c.j, pids |-> c.pids]
      /\ c.pc \in {"fork", "wait"} /\ c.i \in 0 .. NumServers /\ c.j \in 0 .. NumBricks
      /\ c.pids \in [ServerIds -> Killers(r) \cup {ForkError}]
      /\ DOMAIN coord = Rounds
      /\ proc \in [Forked -> ProcessState] /\ up \subseteq Bricks
      /\ faults \in 0 .. MaxFaults
  BY LoopsFields DEF RestartInv
<1>2. /\ proc[CoordinatorOf(r)] = "running" /\ c.pc = "fork"
      /\ coord' = [coord EXCEPT ![r] = next]
      /\ UNCHANGED <<main, proc, up, faults, io>>
  BY <1>1 DEF NextServer, CoordinatorRuns, CoordinatorOf
<1>3. c.i < NumServers
  BY <1>2 DEF RestartInv, LoopsInv
<1>4. (IF last THEN 0 ELSE c.i + 1) \in 0 .. NumServers /\ 0 \in 0 .. NumBricks
      /\ (~ last => c.i + 1 < NumServers)
  <2>1. \A n \in 0 .. NumServers :
          n < NumServers => /\ n + 1 \in 0 .. NumServers
                            /\ n + 1 # NumServers => n + 1 < NumServers
    OBVIOUS
  <2>2. 0 \in 0 .. NumServers /\ 0 \in 0 .. NumBricks
    OBVIOUS
  <2> HIDE DEF c
  <2> QED
    BY <1>1, <1>3, <2>1, <2>2
<1>5. next \in Loops(r)
  BY <1>1, <1>4 DEF Loops
<1>6. next.pc = "fork" => next.i < NumServers
  BY <1>4
<1>7. DOMAIN coord' = Rounds /\ (\A q \in Rounds : coord'[q] \in Loops(q))
      /\ coord'[r] = next /\ \A q \in Rounds \ {r} : coord'[q] = coord[q]
  <2> HIDE DEF next
  <2> QED
    BY <1>2, <1>5, LoopsSet DEF RestartInv
<1>8. LoopsInv'
  <2> HIDE DEF next
  <2> QED
    BY <1>2, <1>6, <1>7 DEF RestartInv, LoopsInv
<1> QED
  <2> HIDE DEF next, c
  <2> QED
    BY <1>1, <1>2, <1>7, <1>8, OthersKeepRestart

\* What a waitpid of a coordinator does to the processes.
LEMMA WaitKillerSteps ==
  ASSUME TypeOK, NEW r \in Rounds, WaitKiller(r)
  PROVE  LET c == coord[r]
         IN  /\ proc[CoordinatorOf(r)] = "running" /\ c.pc = "wait"
             /\ c.i < NumServers
             /\ coord' = [coord EXCEPT ![r] =
                  [pc |-> c.pc, i |-> c.i + 1, j |-> c.j, pids |-> c.pids]]
             /\ UNCHANGED <<main, up, faults, io>>
             /\ proc' \in [Forked -> ProcessState]
             /\ \A q \in Forked : \/ proc'[q] = proc[q]
                                  \/ proc[q] = "zombie" /\ proc'[q] = "reaped"
             /\ \A q \in Forked \ Killers(r) : proc'[q] = proc[q]
             /\ c.pids[c.i] \in Killers(r)
                  => proc'[c.pids[c.i]] \in {"none", "reaped"}
<1> DEFINE c == coord[r]
           p == c.pids[c.i]
<1>1. /\ c = [pc |-> c.pc, i |-> c.i, j |-> c.j, pids |-> c.pids]
      /\ DOMAIN coord = Rounds /\ proc \in [Forked -> ProcessState]
  BY LoopsFields
<1>2. /\ proc[CoordinatorOf(r)] = "running" /\ c.pc = "wait" /\ c.i < NumServers
      /\ coord' = [coord EXCEPT ![r] =
           [pc |-> c.pc, i |-> c.i + 1, j |-> c.j, pids |-> c.pids]]
      /\ UNCHANGED <<main, up, faults, io>>
      /\ \/ \E k \in Reapable(proc, p, Killers(r)) :
              proc' = [proc EXCEPT ![k] = "reaped"]
         \/ NothingToReap(proc, p, Killers(r)) /\ UNCHANGED proc
  <2>1. [coord EXCEPT ![r].i = coord[r].i + 1] = [coord EXCEPT ![r] =
           [pc |-> c.pc, i |-> c.i + 1, j |-> c.j, pids |-> c.pids]]
    <3>1. [coord[r] EXCEPT !.i = coord[r].i + 1]
            = [pc |-> c.pc, i |-> c.i + 1, j |-> c.j, pids |-> c.pids]
      BY <1>1
    <3> QED
      BY <1>1, <3>1
  <2>2. /\ proc[CoordinatorOf(r)] = "running" /\ c.pc = "wait" /\ c.i < NumServers
        /\ coord' = [coord EXCEPT ![r].i = coord[r].i + 1]
        /\ UNCHANGED <<main, up, faults, io>>
        /\ \/ \E k \in Reapable(proc, p, Killers(r)) :
                proc' = [proc EXCEPT ![k] = "reaped"]
           \/ NothingToReap(proc, p, Killers(r)) /\ UNCHANGED proc
    BY DEF WaitKiller, CoordinatorRuns, CoordinatorOf
  <2> QED
    BY <2>1, <2>2
<1>3. p \in Killers(r) => WaitedFor(p, Killers(r)) = {p}
  BY DEF WaitedFor
<1>4. /\ proc' \in [Forked -> ProcessState]
      /\ \A q \in Forked : \/ proc'[q] = proc[q]
                           \/ proc[q] = "zombie" /\ proc'[q] = "reaped"
      /\ \A q \in Forked \ Killers(r) : proc'[q] = proc[q]
      /\ p \in Killers(r) => proc'[p] \in {"none", "reaped"}
  <2>1. CASE \E k \in Reapable(proc, p, Killers(r)) :
               proc' = [proc EXCEPT ![k] = "reaped"]
    <3>1. PICK k \in Reapable(proc, p, Killers(r)) :
            proc' = [proc EXCEPT ![k] = "reaped"]
      BY <2>1
    <3>2. k \in Killers(r) /\ proc[k] = "zombie" /\ (p \in Killers(r) => k = p)
      BY <1>3 DEF Reapable, WaitedFor
    <3> QED
      BY <1>1, <3>1, <3>2 DEF ProcessState
  <2>2. CASE NothingToReap(proc, p, Killers(r)) /\ UNCHANGED proc
    BY <1>1, <1>3, <2>2 DEF NothingToReap
  <2> QED
    BY <1>2, <2>1, <2>2
<1> QED
  BY <1>2, <1>4

LEMMA WaitKillerKeepsRestart ==
  ASSUME RestartInv, NEW r \in Rounds, WaitKiller(r)
  PROVE  RestartInv'
<1> DEFINE c == coord[r]
           next == [pc |-> c.pc, i |-> c.i + 1, j |-> c.j, pids |-> c.pids]
<1>1. /\ proc[CoordinatorOf(r)] = "running" /\ c.pc = "wait" /\ c.i < NumServers
      /\ coord' = [coord EXCEPT ![r] = next]
      /\ UNCHANGED <<main, up, faults, io>>
      /\ proc' \in [Forked -> ProcessState]
      /\ \A q \in Forked \ Killers(r) : proc'[q] = proc[q]
  BY WaitKillerSteps DEF RestartInv
<1>2. /\ c.pc \in {"fork", "wait"} /\ c.i \in 0 .. NumServers /\ c.j \in 0 .. NumBricks
      /\ c.pids \in [ServerIds -> Killers(r) \cup {ForkError}]
      /\ up \subseteq Bricks /\ faults \in 0 .. MaxFaults
  BY LoopsFields DEF RestartInv
<1>3. c.i + 1 \in 0 .. NumServers
  BY <1>1, <1>2
<1>4. next \in Loops(r) /\ next.pc = "wait"
  BY <1>1, <1>2, <1>3 DEF Loops
<1>5. DOMAIN coord' = Rounds /\ (\A q \in Rounds : coord'[q] \in Loops(q))
      /\ coord'[r] = next /\ \A q \in Rounds \ {r} : coord'[q] = coord[q]
  <2> HIDE DEF next
  <2> QED
    BY <1>1, <1>4, LoopsSet DEF RestartInv
<1>6. \A q \in MainChildren : proc'[q] = proc[q]
  BY <1>1, Different
<1>7. LoopsInv'
  <2> HIDE DEF next
  <2> QED
    BY <1>1, <1>4, <1>5, <1>6 DEF RestartInv, LoopsInv
<1> QED
  <2> HIDE DEF next, c
  <2> QED
    BY <1>1, <1>2, <1>5, <1>6, <1>7, OthersKeepRestart

LEMMA CoordinatorExitsKeepsRestart ==
  ASSUME RestartInv, NEW r \in Rounds, CoordinatorExits(r)
  PROVE  RestartInv'
<1>1. /\ coord' = [coord EXCEPT ![r] = FreshLoops]
      /\ UNCHANGED <<main, up, faults, io>>
      /\ proc' = [p \in Forked |->
                    CASE p = CoordinatorOf(r) -> "zombie"
                      [] p \in Killers(r) /\ proc[p] = "zombie" -> "reaped"
                      [] OTHER -> proc[p]]
  BY DEF CoordinatorExits, CoordinatorOf
<1>2. FreshLoops \in Loops(r) /\ FreshLoops.i < NumServers
  <2>1. NoPids \in [ServerIds -> Killers(r) \cup {ForkError}]
    BY DEF NoPids
  <2>2. 0 \in 0 .. NumServers /\ 0 \in 0 .. NumBricks
    OBVIOUS
  <2> QED
    BY <2>1, <2>2 DEF Loops, FreshLoops
<1>3. DOMAIN coord' = Rounds /\ (\A q \in Rounds : coord'[q] \in Loops(q))
      /\ coord'[r] = FreshLoops /\ \A q \in Rounds \ {r} : coord'[q] = coord[q]
  BY <1>1, <1>2, LoopsSet DEF RestartInv
<1>4. proc \in [Forked -> ProcessState] /\ up \subseteq Bricks
      /\ faults \in 0 .. MaxFaults
  BY LoopsFields DEF RestartInv
<1>5. proc' \in [Forked -> ProcessState]
  BY <1>1, <1>4 DEF ProcessState
<1>6. \A q \in MainChildren : q # CoordinatorOf(r) => proc'[q] = proc[q]
  BY <1>1, Different
<1>7. LoopsInv'
  BY <1>2, <1>3, <1>6, Different DEF RestartInv, LoopsInv
<1> QED
  BY <1>1, <1>3, <1>4, <1>5, <1>6, <1>7, Different, OthersKeepRestart

LEMMA KillKeepsRestart ==
  ASSUME RestartInv, NEW r \in Rounds, NEW b \in Bricks, Kill(r, b)
  PROVE  RestartInv'
<1> DEFINE k == <<"killer", r, b>>
<1>1. /\ UNCHANGED <<main, coord, io>>
      /\ proc[k] = "running"
      /\ \E s \in {"reaped", "zombie"} : proc' = [proc EXCEPT ![k] = s]
      /\ \/ up' = up \ {b} /\ faults' = faults
         \/ Fault /\ up' = up
  BY DEF Kill, Exits
<1>2. proc \in [Forked -> ProcessState] /\ up \subseteq Bricks
      /\ faults \in 0 .. MaxFaults /\ DOMAIN coord = Rounds
      /\ \A q \in Rounds : coord[q] \in Loops(q)
  BY LoopsFields DEF RestartInv
<1>3. proc' \in [Forked -> ProcessState] /\ up' \subseteq Bricks
      /\ faults' \in 0 .. MaxFaults
  BY <1>1, <1>2 DEF ProcessState, Fault
<1>4. \A q \in MainChildren : proc'[q] = proc[q]
  BY <1>1, <1>2, Different
<1>5. LoopsInv'
  BY <1>1, <1>4 DEF RestartInv, LoopsInv
<1> QED
  BY <1>1, <1>2, <1>3, <1>4, <1>5, OthersKeepRestart

\* A restarter that runs is one of this round's, and main still is to wait for it.
LEMMA RestarterRuns ==
  ASSUME RestartInv, NEW r \in Rounds, NEW s \in ServerIds,
         proc[Restarter(r, s)] = "running"
  PROVE  /\ r = round /\ Reached(s) /\ pids[s] = Restarter(r, s) /\ InRestart
         /\ ~ Recovered /\ ~ (pc = "wait_restart" /\ s < i)
<1>1. /\ round = "w" => proc[Restarter("r", s)] = "none"
      /\ round = "r" => proc[Restarter("w", s)] \in {"none", "reaped"}
      /\ ~ Reached(s) /\ ~ Recovered => proc[Restarter(round, s)] = "none"
      /\ Reached(s) => \/ pids[s] = Restarter(round, s)
                       \/ pids[s] = ForkError /\ proc[Restarter(round, s)] = "none"
      /\ pc = "wait_restart" /\ s < i
           => proc[Restarter(round, s)] \in {"none", "reaped"}
      /\ Recovered => proc[Restarter(round, s)] \in {"none", "reaped"}
  BY DEF RestartInv, RestartersInv, Over
<1>2. round \in Rounds
  BY DEF RestartInv, TypeOK
<1>3. r = round
  BY <1>1, <1>2
<1> QED
  BY <1>1, <1>3 DEF Reached, InRestart

LEMMA RestartKeepsRestart ==
  ASSUME RestartInv, NEW r \in Rounds, NEW s \in ServerIds, Restart(r, s)
  PROVE  RestartInv'
<1> DEFINE p == Restarter(r, s)
<1>1. /\ UNCHANGED <<pc, round, i, pid, pids, coord, stored, buffer, got, verdict>>
      /\ proc[p] = "running" /\ proc' = [proc EXCEPT ![p] = "zombie"]
      /\ \/ up' = up \cup ({s} \X BrickIds) /\ faults' = faults
         \/ Fault /\ up' = up
  BY DEF Restart, Exits, Restarter, main, io
<1>2. proc \in [Forked -> ProcessState] /\ up \subseteq Bricks
      /\ faults \in 0 .. MaxFaults
  BY LoopsFields DEF RestartInv
<1>3. proc' \in [Forked -> ProcessState] /\ up' \subseteq Bricks
      /\ faults' \in 0 .. MaxFaults
  BY <1>1, <1>2 DEF ProcessState, Fault, Bricks
<1>4. /\ r = round /\ Reached(s) /\ pids[s] = p
      /\ ~ Recovered /\ ~ (pc = "wait_restart" /\ s < i)
  BY <1>1, RestarterRuns
<1>5. /\ \A q \in Rounds, t \in ServerIds : q # round \/ t # s =>
           proc'[Restarter(q, t)] = proc[Restarter(q, t)]
      /\ \A q \in Rounds : proc'[CoordinatorOf(q)] = proc[CoordinatorOf(q)]
  BY <1>1, <1>2, <1>4, Different
<1>6. TypeOK'
  <2>1. DOMAIN coord' = Rounds /\ \A q \in Rounds : coord'[q] \in Loops(q)
    BY <1>1 DEF RestartInv, TypeOK
  <2> QED
    BY <1>1, <1>3, <2>1 DEF RestartInv, TypeOK
<1>7. MainInv' /\ LoopsInv'
  BY <1>1, <1>5 DEF RestartInv, MainInv, InRestart, LoopsInv
<1>8. RestartersInv'
  <2> SUFFICES ASSUME NEW t \in ServerIds
               PROVE  /\ round = "w" => proc'[Restarter("r", t)] = "none"
                      /\ round = "r" => proc'[Restarter("w", t)] \in {"none", "reaped"}
                      /\ ~ Reached(t) => proc'[Restarter(round, t)] = "none"
                      /\ Reached(t) =>
                           \/ pids[t] = Restarter(round, t)
                           \/ /\ pids[t] = ForkError
                              /\ proc'[Restarter(round, t)] = "none"
                      /\ pc = "wait_restart" /\ t < i
                           => proc'[Restarter(round, t)] \in {"none", "reaped"}
    BY <1>1, <1>4 DEF RestartersInv, Reached, Recovered, Over
  <2>1. /\ round = "w" => proc[Restarter("r", t)] = "none"
        /\ round = "r" => proc[Restarter("w", t)] \in {"none", "reaped"}
        /\ ~ Reached(t) => proc[Restarter(round, t)] = "none"
        /\ Reached(t) => \/ pids[t] = Restarter(round, t)
                         \/ pids[t] = ForkError /\ proc[Restarter(round, t)] = "none"
        /\ pc = "wait_restart" /\ t < i
             => proc[Restarter(round, t)] \in {"none", "reaped"}
    BY <1>4 DEF RestartInv, RestartersInv, Over
  <2>2. round = "w" => "r" # round
    OBVIOUS
  <2>3. round = "r" => "w" # round
    OBVIOUS
  <2>4. CASE t = s
    BY <1>4, <1>5, <2>1, <2>2, <2>3, <2>4
  <2>5. CASE t # s
    BY <1>5, <1>4, <2>1, <2>5
  <2> QED
    BY <2>4, <2>5
<1> QED
  BY <1>6, <1>7, <1>8 DEF RestartInv

LEMMA StepKeepsRestart == RestartInv /\ [Next]_vars => RestartInv'
<1> SUFFICES ASSUME RestartInv, [Next]_vars PROVE RestartInv'
  OBVIOUS
<1>1. CASE UNCHANGED vars
  <2>1. UNCHANGED <<pc, round, i, pid, pids, coord, proc, up, faults, stored, buffer,
                    got, verdict>>
    BY <1>1 DEF vars, main, io
  <2> QED
    BY <2>1 DEF RestartInv, TypeOK, MainInv, LoopsInv, RestartersInv, InRestart,
                Reached, Recovered, Over
<1>2. CASE Main
  BY <1>2, QuietKeepsRestart, ForkCoordinatorKeepsRestart,
     WaitCoordinatorKeepsRestart, ForkRestartKeepsRestart,
     ForkedRestartsKeepsRestart, WaitRestartKeepsRestart,
     RestartedKeepsRestart, WriteNextKeepsRestart DEF Main
<1>3. ASSUME NEW r \in Rounds, Coordinator(r) PROVE RestartInv'
  <2>1. CASE ForkKiller(r)
    <3>1. coord[r].i < NumServers
      BY <2>1 DEF RestartInv, LoopsInv, ForkKiller
    <3> QED
      BY <2>1, <3>1, ForkKillerKeepsRestart
  <2> QED
    BY <1>3, <2>1, NextServerKeepsRestart, WaitKillerKeepsRestart,
       CoordinatorExitsKeepsRestart DEF Coordinator
<1>4. ASSUME NEW r \in Rounds, Worker(r) PROVE RestartInv'
  BY <1>4, KillKeepsRestart, RestartKeepsRestart DEF Worker
<1> QED
  BY <1>1, <1>2, <1>3, <1>4 DEF Next

LEMMA RestartInvariance == Spec => []RestartInv
<1>1. Init => RestartInv
  BY InitInv
<1> QED
  BY <1>1, StepKeepsRestart, PTL DEF Spec

\* The state is well typed: in particular the coordinators' loops stay within
\* their lists, and nothing but a fork makes a process (test.c:95-201).
THEOREM KillTestTypes == Spec => []TypeOK
<1>1. RestartInv => TypeOK
  BY DEF RestartInv
<1> QED
  BY <1>1, RestartInvariance, PTL

\* main leaves restart_glusterd only when every restart it forked is over, also
\* when forks of it failed and waitpid(-1) took other children first
\* (test.c:178-194).
THEOREM RestartsEnd == Spec => []RestartsDone
<1>1. RestartInv => RestartsDone
  <2> SUFFICES ASSUME RestartInv, NEW r \in Rounds, NEW p \in Restarters(r),
                      ~ InRestart, proc[p] = "running"
               PROVE  FALSE
    BY DEF RestartsDone, InRestart
  <2>1. PICK s \in ServerIds : p = Restarter(r, s)
    BY DEF Restarters, Restarter
  <2> QED
    BY <2>1, RestarterRuns
<1> QED
  BY <1>1, RestartInvariance, PTL

-----------------------------------------------------------------------------
(* What holds as long as no fork and no command failed *)

\* Once main has waited for the coordinator, nobody kills a last brick.
LEMMA LastKillersOver ==
  ASSUME RestartInv, CleanInv, Waited
  PROVE  \A r \in Rounds : /\ proc[CoordinatorOf(r)] \in {"none", "reaped"}
                           /\ \A s \in ServerIds : Over(LastKiller(r, s))
<1> TAKE r \in Rounds
<1>1. round \in Rounds
  BY DEF RestartInv, TypeOK
<1>2. proc[CoordinatorOf(r)] \in {"none", "reaped"}
  BY <1>1 DEF CleanInv, CoordinatorsInv
<1>3. ASSUME NEW s \in ServerIds PROVE Over(LastKiller(r, s))
  <2>1. KillerInv(r, s)
    BY DEF CleanInv, KillersInv
  <2> QED
    BY <1>2, <2>1 DEF KillerInv, Over
<1> QED
  BY <1>2, <1>3

\* A step that leaves the coordinator of a round and its killers alone, apart
\* from zombies it reaps and a coordinator it starts.
LEMMA KillerKept ==
  ASSUME RestartInv, NEW r \in Rounds, NEW s \in ServerIds, KillerInv(r, s),
         coord'[r] = coord[r],
         \/ proc'[CoordinatorOf(r)] = proc[CoordinatorOf(r)]
         \/ /\ proc[CoordinatorOf(r)] = "zombie"
            /\ proc'[CoordinatorOf(r)] = "reaped"
         \/ /\ proc[CoordinatorOf(r)] = "none"
            /\ proc'[CoordinatorOf(r)] = "running",
         \/ proc'[LastKiller(r, s)] = proc[LastKiller(r, s)]
         \/ /\ proc[LastKiller(r, s)] \in {"running", "zombie"}
            /\ proc'[LastKiller(r, s)] \in {"zombie", "reaped"}
  PROVE  KillerInv(r, s)'
<1> DEFINE c == coord[r]
           state == proc[CoordinatorOf(r)]
<1>1. /\ state = "none" => proc[LastKiller(r, s)] = "none"
      /\ state = "running" /\ (\/ c.pc = "wait" \/ s < c.i
                               \/ s = c.i /\ c.j = NumBricks)
           => c.pids[s] = LastKiller(r, s)
      /\ state = "running" /\ c.pc = "wait" /\ s < c.i
           => proc[LastKiller(r, s)] \in {"none", "reaped"}
      /\ state \in {"zombie", "reaped"}
           => proc[LastKiller(r, s)] \in {"none", "reaped"}
  BY DEF KillerInv, Over
<1>2. SUFFICES
      /\ state' = "none" => proc'[LastKiller(r, s)] = "none"
      /\ state' = "running" /\ (\/ c.pc = "wait" \/ s < c.i
                                \/ s = c.i /\ c.j = NumBricks)
           => c.pids[s] = LastKiller(r, s)
      /\ state' = "running" /\ c.pc = "wait" /\ s < c.i
           => proc'[LastKiller(r, s)] \in {"none", "reaped"}
      /\ state' \in {"zombie", "reaped"}
           => proc'[LastKiller(r, s)] \in {"none", "reaped"}
  BY DEF KillerInv, Over
<1>3. CASE state' = "running" /\ state = "none"
  <2>1. c = FreshLoops
    BY <1>3 DEF RestartInv, LoopsInv
  <2>2. c.pc = "fork" /\ ~ (s < c.i) /\ c.j # NumBricks
    BY <2>1 DEF FreshLoops, ServerIds
  <2> QED
    BY <1>3, <2>2
<1> QED
  BY <1>1, <1>3

LEMMA QuietKeepsClean ==
  ASSUME RestartInv, CleanInv,
         WriteFile \/ ReadFile \/ CheckFile \/ KillingIO \/ ReadBack \/ CheckRound
  PROVE  CleanInv'
<1>1. /\ UNCHANGED <<round, i, pid, pids, coord, proc, up>>
      /\ ~ Recovered' /\ pc' # "wait_restart"
  BY DEF WriteFile, ReadFile, CheckFile, KillingIO, ReadBack, CheckRound, Go, Idle,
         Recovered
<1>2. CoordinatorsInv'
  <2>1. \/ pc = "write_file" /\ pc' = "read_file"
        \/ pc = "read_file" /\ pc' = "check_file"
        \/ pc = "check_file" /\ pc' = "fork_killers"
        \/ pc = "killing" /\ pc' = "wait_killers"
        \/ pc = "read_back" /\ pc' = "check"
        \/ pc = "check" /\ pc' = "fork_restart"
    BY DEF WriteFile, ReadFile, CheckFile, KillingIO, ReadBack, CheckRound, Go
  <2> QED
    BY <1>1, <2>1 DEF CleanInv, CoordinatorsInv, Waited, InRestart, Recovered
<1>3. KillersInv'
  BY <1>1 DEF CleanInv, KillersInv, KillerInv, Over
<1>4. BricksInv'
  <2>1. ASSUME NEW s \in ServerIds
        PROVE  ~ Reached(s)' /\ (InRestart' => proc[Restarter(round, s)] = "none")
    <3>1. pc' = "fork_restart" => pc = "check"
      BY DEF WriteFile, ReadFile, CheckFile, KillingIO, ReadBack, CheckRound, Go
    <3>2. pc = "check" => i = 0 /\ ~ Reached(s) /\ ~ Recovered
      BY DEF RestartInv, MainInv, InRestart, Reached, Recovered
    <3> QED
      BY <1>1, <3>1, <3>2 DEF RestartInv, RestartersInv, Reached, InRestart, ServerIds
  <2> QED
    BY <1>1, <2>1 DEF BricksInv
<1> QED
  BY <1>2, <1>3, <1>4 DEF CleanInv

LEMMA ForkCoordinatorKeepsClean ==
  ASSUME RestartInv, CleanInv, ForkCoordinator, faults' = faults
  PROVE  CleanInv'
<1>1. /\ pc = "fork_killers" /\ pc' = "killing" /\ round \in Rounds
      /\ UNCHANGED <<round, i, pids, coord, up>>
      /\ proc \in [Forked -> ProcessState]
      /\ pid' = CoordinatorOf(round)
      /\ proc' = [proc EXCEPT ![CoordinatorOf(round)] = "running"]
  BY DEF RestartInv, TypeOK, ForkCoordinator, Go, Fault, CoordinatorOf
<1>2. /\ proc[CoordinatorOf(round)] = "none"
      /\ proc'[CoordinatorOf(round)] = "running"
      /\ \A r \in Rounds \ {round} : proc'[CoordinatorOf(r)] = proc[CoordinatorOf(r)]
      /\ \A r \in Rounds, s \in ServerIds :
           proc'[LastKiller(r, s)] = proc[LastKiller(r, s)]
  <2>1. proc[CoordinatorOf(round)] = "none"
    BY <1>1 DEF CleanInv, CoordinatorsInv
  <2> QED
    BY <1>1, <2>1, Different
<1>3. CoordinatorsInv'
  BY <1>1, <1>2 DEF CleanInv, CoordinatorsInv, Waited, InRestart, Recovered
<1>4. KillersInv'
  BY <1>1, <1>2, KillerKept DEF CleanInv, KillersInv
<1>5. BricksInv'
  BY <1>1 DEF BricksInv, Reached, InRestart, Recovered
<1> QED
  BY <1>3, <1>4, <1>5 DEF CleanInv

LEMMA WaitCoordinatorKeepsClean ==
  ASSUME RestartInv, CleanInv, WaitCoordinator
  PROVE  CleanInv'
<1>1. /\ pc = "wait_killers" /\ round \in Rounds
      /\ pc' = IF round = "w" THEN "read_back" ELSE "check"
      /\ UNCHANGED <<round, i, pid, pids, coord, up>>
      /\ proc \in [Forked -> ProcessState]
      /\ pid = CoordinatorOf(round) /\ proc[CoordinatorOf(round)] # "none"
  BY DEF RestartInv, TypeOK, WaitCoordinator, CleanInv, CoordinatorsInv
<1>2. /\ \A q \in Forked : \/ proc'[q] = proc[q]
                           \/ proc[q] = "zombie" /\ proc'[q] = "reaped"
      /\ proc'[pid] \in {"none", "reaped"}
  BY <1>1, WaitReaps DEF WaitCoordinator
<1>3. proc'[CoordinatorOf(round)] = "reaped"
  BY <1>1, <1>2
<1>4. CoordinatorsInv'
  BY <1>1, <1>2, <1>3 DEF CleanInv, CoordinatorsInv, Waited, InRestart, Recovered
<1>5. KillersInv'
  <2> SUFFICES ASSUME NEW r \in Rounds, NEW s \in ServerIds PROVE KillerInv(r, s)'
    BY DEF KillersInv
  <2>1. KillerInv(r, s) /\ coord'[r] = coord[r]
    BY <1>1 DEF CleanInv, KillersInv
  <2>2. /\ \/ proc'[CoordinatorOf(r)] = proc[CoordinatorOf(r)]
           \/ proc[CoordinatorOf(r)] = "zombie" /\ proc'[CoordinatorOf(r)] = "reaped"
        /\ \/ proc'[LastKiller(r, s)] = proc[LastKiller(r, s)]
           \/ proc[LastKiller(r, s)] = "zombie" /\ proc'[LastKiller(r, s)] = "reaped"
    BY <1>2
  <2> QED
    BY <2>1, <2>2, KillerKept
<1>6. BricksInv'
  BY <1>1 DEF BricksInv, Reached, InRestart, Recovered
<1> QED
  BY <1>4, <1>5, <1>6 DEF CleanInv

\* The steps of restart_glusterd leave the coordinators and the killers alone.
LEMMA KillersUntouched ==
  ASSUME RestartInv, CleanInv, Waited, Waited', UNCHANGED <<round, coord>>,
         \A r \in Rounds :
           /\ proc[CoordinatorOf(r)] # "zombie"
                => proc'[CoordinatorOf(r)] = proc[CoordinatorOf(r)]
           /\ \A s \in ServerIds : proc'[LastKiller(r, s)] = proc[LastKiller(r, s)]
  PROVE  CoordinatorsInv' /\ KillersInv'
<1>1. \A r \in Rounds : proc'[CoordinatorOf(r)] = proc[CoordinatorOf(r)]
  BY LastKillersOver
<1>2. CoordinatorsInv'
  BY <1>1 DEF CleanInv, CoordinatorsInv, RestartInv, TypeOK, Waited, InRestart,
              Recovered
<1>3. KillersInv'
  BY <1>1, KillerKept DEF CleanInv, KillersInv
<1> QED
  BY <1>2, <1>3

LEMMA ForkRestartKeepsClean ==
  ASSUME RestartInv, CleanInv, ForkRestart, faults' = faults
  PROVE  CleanInv'
<1> DEFINE p == Restarter(round, i)
<1>1. /\ pc = "fork_restart" /\ round \in Rounds /\ i \in ServerIds /\ i \in Nat
      /\ i' = i + 1 /\ UNCHANGED <<pc, round, pid, coord, up>>
      /\ proc \in [Forked -> ProcessState]
      /\ pids \in [ServerIds -> MainChildren \cup {ForkError}]
      /\ pids' = [pids EXCEPT ![i] = p]
      /\ proc' = [proc EXCEPT ![p] = "running"]
  BY DEF RestartInv, TypeOK, ForkRestart, Fault, Restarter, ServerIds
<1>2. /\ \A r \in Rounds : proc'[CoordinatorOf(r)] = proc[CoordinatorOf(r)]
      /\ \A r \in Rounds, s \in ServerIds :
           proc'[LastKiller(r, s)] = proc[LastKiller(r, s)]
      /\ \A s \in ServerIds \ {i} :
           proc'[Restarter(round, s)] = proc[Restarter(round, s)]
  BY <1>1, Different
<1>3. CoordinatorsInv' /\ KillersInv'
  BY <1>1, <1>2, KillersUntouched DEF Waited, InRestart
<1>4. BricksInv'
  <2> SUFFICES ASSUME NEW s \in ServerIds
               PROVE  /\ s < i + 1 => /\ pids'[s] = Restarter(round, s)
                                      /\ proc'[Restarter(round, s)] # "none"
                      /\ proc'[Restarter(round, s)] \in {"zombie", "reaped"}
                           => <<s, NumBricks - 1>> \in up
    BY <1>1 DEF BricksInv, Reached, InRestart, Recovered
  <2>1. s < i + 1 => s < i \/ s = i
    BY <1>1 DEF ServerIds
  <2>2. /\ s < i => /\ pids[s] = Restarter(round, s)
                    /\ proc[Restarter(round, s)] # "none"
        /\ proc[Restarter(round, s)] \in {"zombie", "reaped"}
             => <<s, NumBricks - 1>> \in up
    BY <1>1 DEF CleanInv, BricksInv, Reached, InRestart
  <2>3. CASE s = i
    BY <1>1, <2>3
  <2>4. CASE s # i
    <3>1. pids'[s] = pids[s]
      BY <1>1, <2>4
    <3> QED
      BY <1>2, <2>1, <2>2, <2>4, <3>1
  <2> QED
    BY <2>3, <2>4
<1> QED
  BY <1>3, <1>4 DEF CleanInv

LEMMA ForkedRestartsKeepsClean ==
  ASSUME RestartInv, CleanInv, ForkedRestarts
  PROVE  CleanInv'
<1>1. /\ pc = "fork_restart" /\ pc' = "wait_restart" /\ i = NumServers
      /\ UNCHANGED <<round, pid, pids, coord, proc, up>>
  BY DEF ForkedRestarts, Go
<1>2. CoordinatorsInv' /\ KillersInv'
  BY <1>1, KillersUntouched DEF Waited, InRestart
<1>3. BricksInv'
  <2>1. \A s \in ServerIds : s < NumServers
    BY DEF ServerIds
  <2> QED
    BY <1>1, <2>1 DEF CleanInv, BricksInv, Reached, InRestart, Recovered
<1> QED
  BY <1>2, <1>3 DEF CleanInv

LEMMA WaitRestartKeepsClean ==
  ASSUME RestartInv, CleanInv, WaitRestart
  PROVE  CleanInv'
<1>1. /\ pc = "wait_restart" /\ round \in Rounds
      /\ UNCHANGED <<pc, round, pid, pids, coord, up>>
      /\ proc \in [Forked -> ProcessState]
  BY DEF RestartInv, TypeOK, WaitRestart
<1>2. /\ \A q \in Forked : \/ proc'[q] = proc[q]
                           \/ proc[q] = "zombie" /\ proc'[q] = "reaped"
      /\ \A q \in Forked : q \notin MainChildren => proc'[q] = proc[q]
      /\ \A q \in Forked : proc'[q] = "none" <=> proc[q] = "none"
  BY <1>1, WaitReaps DEF WaitRestart
<1>3. \A r \in Rounds, s \in ServerIds :
        proc'[LastKiller(r, s)] = proc[LastKiller(r, s)]
  BY <1>2, Different
<1>4. CoordinatorsInv' /\ KillersInv'
  <2>1. \A r \in Rounds : proc[CoordinatorOf(r)] # "zombie"
          => proc'[CoordinatorOf(r)] = proc[CoordinatorOf(r)]
    BY <1>2
  <2> QED
    BY <1>1, <1>3, <2>1, KillersUntouched DEF Waited, InRestart
<1>5. BricksInv'
  <2> SUFFICES ASSUME NEW s \in ServerIds
               PROVE  /\ pids[s] = Restarter(round, s)
                      /\ proc'[Restarter(round, s)] # "none"
                      /\ proc'[Restarter(round, s)] \in {"zombie", "reaped"}
                           => <<s, NumBricks - 1>> \in up
    BY <1>1 DEF BricksInv, Reached, InRestart, Recovered
  <2>1. /\ pids[s] = Restarter(round, s)
        /\ proc[Restarter(round, s)] # "none"
        /\ proc[Restarter(round, s)] \in {"zombie", "reaped"}
             => <<s, NumBricks - 1>> \in up
    BY <1>1 DEF CleanInv, BricksInv, Reached, InRestart
  <2> QED
    BY <1>1, <1>2, <2>1
<1> QED
  BY <1>4, <1>5 DEF CleanInv

LEMMA RestartedKeepsClean ==
  ASSUME RestartInv, CleanInv, Restarted
  PROVE  CleanInv'
<1>1. /\ pc = "wait_restart" /\ i = NumServers
      /\ pc' \in {"recovered", "done"} /\ round \in Rounds
      /\ UNCHANGED <<round, pid, coord, proc, up>>
  BY DEF RestartInv, TypeOK, Restarted
<1>2. CoordinatorsInv' /\ KillersInv'
  BY <1>1, KillersUntouched DEF Waited, InRestart, Recovered
<1>3. BricksInv'
  <2> SUFFICES ASSUME NEW s \in ServerIds PROVE <<s, NumBricks - 1>> \in up
    BY <1>1 DEF BricksInv, Reached, InRestart, Recovered
  <2>1. Over(Restarter(round, s))
    <3>1. s < i
      BY <1>1 DEF ServerIds
    <3> QED
      BY <1>1, <3>1 DEF RestartInv, RestartersInv
  <2>2. proc[Restarter(round, s)] = "reaped"
    BY <1>1, <2>1 DEF CleanInv, BricksInv, Reached, Over
  <2> QED
    BY <1>1, <2>2 DEF CleanInv, BricksInv, InRestart
<1> QED
  BY <1>2, <1>3 DEF CleanInv

LEMMA WriteNextKeepsClean ==
  ASSUME RestartInv, CleanInv, WriteNext
  PROVE  CleanInv'
<1>1. /\ pc = "recovered" /\ pc' = "fork_killers" /\ round' = "r" /\ round = "w"
      /\ UNCHANGED <<i, pid, pids, coord, proc, up>>
  BY DEF RestartInv, MainInv, WriteNext, Go
<1>2. CoordinatorsInv'
  BY <1>1 DEF CleanInv, CoordinatorsInv, Waited, InRestart, Recovered
<1>3. KillersInv'
  BY <1>1 DEF CleanInv, KillersInv, KillerInv, Over
<1>4. BricksInv'
  BY <1>1 DEF BricksInv, Reached, InRestart, Recovered
<1> QED
  BY <1>2, <1>3, <1>4 DEF CleanInv

\* A coordinator runs only while main has not waited for it.
LEMMA CoordinatorStepKeepsClean ==
  ASSUME RestartInv, CleanInv, UNCHANGED main, NEW r \in Rounds,
         proc[CoordinatorOf(r)] = "running",
         \A q \in Rounds : \/ proc'[CoordinatorOf(q)] = proc[CoordinatorOf(q)]
                           \/ q = r /\ proc'[CoordinatorOf(q)] = "zombie",
         KillersInv'
  PROVE  CleanInv'
<1>1. UNCHANGED <<pc, round, i, pid, pids>>
  BY DEF main
<1>2. ~ Waited
  BY LastKillersOver
<1>3. CoordinatorsInv'
  <2>1. round \in Rounds
    BY DEF RestartInv, TypeOK
  <2> QED
    BY <1>1, <1>2, <2>1 DEF CleanInv, CoordinatorsInv, Waited, InRestart, Recovered
<1>4. BricksInv'
  BY <1>1, <1>2 DEF BricksInv, Reached, Waited, InRestart, Recovered
<1> QED
  BY <1>3, <1>4 DEF CleanInv

LEMMA ForkKillerKeepsClean ==
  ASSUME RestartInv, CleanInv, NEW r \in Rounds, ForkKiller(r), faults' = faults
  PROVE  CleanInv'
<1> DEFINE c == coord[r]
           k == <<"killer", r, <<c.i, c.j>>>>
           next == [pc |-> c.pc, i |-> c.i, j |-> c.j + 1,
                    pids |-> [c.pids EXCEPT ![c.i] = k]]
<1>1. /\ c.pc \in {"fork", "wait"} /\ c.i \in 0 .. NumServers /\ c.j \in 0 .. NumBricks
      /\ c.pids \in [ServerIds -> Killers(r) \cup {ForkError}]
      /\ DOMAIN coord = Rounds /\ proc \in [Forked -> ProcessState]
      /\ faults \in 0 .. MaxFaults
  BY LoopsFields DEF RestartInv
<1>2. /\ proc[CoordinatorOf(r)] = "running" /\ c.pc = "fork" /\ c.j < NumBricks
      /\ UNCHANGED <<main, up, io>>
      /\ proc' = [proc EXCEPT ![k] = "running"]
      /\ coord' = [coord EXCEPT ![r] = next]
  <2>1. ~ Fault
    BY <1>1 DEF Fault
  <2> QED
    BY <2>1, ForkKillerSteps DEF RestartInv
<1>3. c.i \in ServerIds /\ c.j \in BrickIds /\ c.i < NumServers
  BY <1>1, <1>2 DEF RestartInv, LoopsInv, ServerIds, BrickIds
<1>4. <<c.i, c.j>> \in Bricks /\ k \in Forked /\ k \notin MainChildren
  BY <1>3, Different DEF Bricks
<1>5. \A q \in Rounds : proc'[CoordinatorOf(q)] = proc[CoordinatorOf(q)]
  <2> HIDE DEF k, next
  <2> QED
    BY <1>1, <1>2, <1>4
<1>6. \A q \in Rounds \ {r}, s \in ServerIds :
        proc'[LastKiller(q, s)] = proc[LastKiller(q, s)] /\ coord'[q] = coord[q]
  <2>1. \A q \in Rounds \ {r}, s \in ServerIds : LastKiller(q, s) # k
    BY DEF LastKiller
  <2> HIDE DEF k, next
  <2> QED
    BY <1>1, <1>2, <2>1
<1>7. coord'[r] = next
  <2> HIDE DEF next
  <2> QED
    BY <1>1, <1>2
<1>8. ASSUME NEW s \in ServerIds PROVE KillerInv(r, s)'
  <2>1. s < c.i \/ (s = c.i /\ c.j = NumBricks) => c.pids[s] = LastKiller(r, s)
    BY <1>2 DEF CleanInv, KillersInv, KillerInv
  <2>2. /\ coord'[r].pc = "fork" /\ coord'[r].i = c.i /\ coord'[r].j = c.j + 1
        /\ coord'[r].pids = [c.pids EXCEPT ![c.i] = k]
    BY <1>2, <1>7
  <2>3. s = c.i /\ c.j + 1 = NumBricks => k = LastKiller(r, s)
    <3>1. c.j + 1 = NumBricks => c.j = NumBricks - 1
      BY <1>1
    <3> QED
      BY <3>1 DEF LastKiller
  <2>4. s < c.i => coord'[r].pids[s] = LastKiller(r, s)
    <3>1. s < c.i => s # c.i
      BY <1>1 DEF ServerIds
    <3> HIDE DEF k
    <3> QED
      BY <1>1, <2>1, <2>2, <3>1
  <2>5. s = c.i /\ c.j + 1 = NumBricks => coord'[r].pids[s] = LastKiller(r, s)
    <3> HIDE DEF k
    <3> QED
      BY <1>1, <1>3, <2>2, <2>3
  <2> HIDE DEF k, next, c
  <2> QED
    BY <1>2, <1>5, <2>2, <2>4, <2>5 DEF KillerInv
<1>9. KillersInv'
  <2> HIDE DEF k, next, c
  <2>1. \A q \in Rounds \ {r}, s \in ServerIds : KillerInv(q, s)'
    BY <1>5, <1>6, KillerKept DEF CleanInv, KillersInv
  <2> QED
    BY <1>8, <2>1 DEF KillersInv
<1> QED
  <2> HIDE DEF k, next, c
  <2> QED
    BY <1>2, <1>5, <1>9, CoordinatorStepKeepsClean

LEMMA NextServerKeepsClean ==
  ASSUME RestartInv, CleanInv, NEW r \in Rounds, NextServer(r)
  PROVE  CleanInv'
<1> DEFINE c == coord[r]
           last == c.i + 1 = NumServers
<1>1. /\ c.pc \in {"fork", "wait"} /\ c.i \in 0 .. NumServers /\ c.j \in 0 .. NumBricks
      /\ DOMAIN coord = Rounds
      /\ c = [pc |-> c.pc, i |-> c.i, j |-> c.j, pids |-> c.pids]
  BY LoopsFields DEF RestartInv
<1>2. /\ proc[CoordinatorOf(r)] = "running" /\ c.pc = "fork" /\ c.j = NumBricks
      /\ coord' = [coord EXCEPT ![r] =
           [pc |-> IF last THEN "wait" ELSE "fork",
            i |-> IF last THEN 0 ELSE c.i + 1, j |-> 0, pids |-> c.pids]]
      /\ UNCHANGED <<main, proc, up, faults, io>>
  BY <1>1 DEF NextServer, CoordinatorRuns, CoordinatorOf
<1>3. /\ coord'[r].i = IF last THEN 0 ELSE c.i + 1
      /\ coord'[r].pc = IF last THEN "wait" ELSE "fork"
      /\ coord'[r].j = 0 /\ coord'[r].pids = c.pids
      /\ \A q \in Rounds \ {r} : coord'[q] = coord[q]
  BY <1>1, <1>2
<1>4. ASSUME NEW s \in ServerIds PROVE KillerInv(r, s)'
  <2>1. s < c.i \/ s = c.i => c.pids[s] = LastKiller(r, s)
    BY <1>2 DEF CleanInv, KillersInv, KillerInv
  <2>2. /\ last => s < c.i \/ s = c.i
        /\ s < c.i + 1 => s < c.i \/ s = c.i
        /\ ~ (s < 0) /\ 0 # NumBricks
    BY <1>1 DEF ServerIds
  <2> HIDE DEF c
  <2> QED
    BY <1>2, <1>3, <2>1, <2>2 DEF KillerInv
<1>5. KillersInv'
  <2> HIDE DEF c
  <2>1. \A q \in Rounds \ {r}, s \in ServerIds : KillerInv(q, s)'
    BY <1>2, <1>3, KillerKept DEF CleanInv, KillersInv
  <2> QED
    BY <1>4, <2>1 DEF KillersInv
<1> QED
  <2> HIDE DEF c
  <2> QED
    BY <1>2, <1>5, CoordinatorStepKeepsClean

LEMMA WaitKillerKeepsClean ==
  ASSUME RestartInv, CleanInv, NEW r \in Rounds, WaitKiller(r)
  PROVE  CleanInv'
<1> DEFINE c == coord[r]
<1>1. /\ c.i \in 0 .. NumServers /\ DOMAIN coord = Rounds
  BY LoopsFields DEF RestartInv
<1>2. /\ proc[CoordinatorOf(r)] = "running" /\ c.pc = "wait" /\ c.i < NumServers
      /\ coord' = [coord EXCEPT ![r] =
           [pc |-> c.pc, i |-> c.i + 1, j |-> c.j, pids |-> c.pids]]
      /\ UNCHANGED main
      /\ \A q \in Forked : \/ proc'[q] = proc[q]
                           \/ proc[q] = "zombie" /\ proc'[q] = "reaped"
      /\ \A q \in Forked \ Killers(r) : proc'[q] = proc[q]
      /\ c.pids[c.i] \in Killers(r) => proc'[c.pids[c.i]] \in {"none", "reaped"}
  BY WaitKillerSteps DEF RestartInv
<1>3. /\ coord'[r].i = c.i + 1 /\ coord'[r].pc = "wait" /\ coord'[r].pids = c.pids
      /\ \A q \in Rounds \ {r} : coord'[q] = coord[q]
  BY <1>1, <1>2
<1>4. \A q \in Rounds : proc'[CoordinatorOf(q)] = proc[CoordinatorOf(q)]
  BY <1>2, Different
<1>5. ASSUME NEW s \in ServerIds PROVE KillerInv(r, s)'
  <2>1. /\ c.pids[s] = LastKiller(r, s)
        /\ s < c.i => proc[LastKiller(r, s)] \in {"none", "reaped"}
    BY <1>2 DEF CleanInv, KillersInv, KillerInv, Over
  <2>2. s < c.i + 1 => s < c.i \/ s = c.i
    BY <1>1 DEF ServerIds
  <2>3. s = c.i => proc'[LastKiller(r, s)] \in {"none", "reaped"}
    BY <1>2, <2>1
  <2>4. s < c.i => proc'[LastKiller(r, s)] \in {"none", "reaped"}
    BY <1>2, <2>1
  <2> HIDE DEF c
  <2> QED
    BY <1>2, <1>3, <1>4, <2>1, <2>2, <2>3, <2>4 DEF KillerInv, Over
<1>6. KillersInv'
  <2> HIDE DEF c
  <2>1. ASSUME NEW q \in Rounds \ {r}, NEW s \in ServerIds PROVE KillerInv(q, s)'
    <3>1. KillerInv(q, s)
      BY DEF CleanInv, KillersInv
    <3>2. \/ proc'[LastKiller(q, s)] = proc[LastKiller(q, s)]
          \/ proc[LastKiller(q, s)] = "zombie" /\ proc'[LastKiller(q, s)] = "reaped"
      BY <1>2
    <3> QED
      BY <1>3, <1>4, <3>1, <3>2, KillerKept
  <2> QED
    BY <1>5, <2>1 DEF KillersInv
<1> QED
  <2> HIDE DEF c
  <2> QED
    BY <1>2, <1>4, <1>6, CoordinatorStepKeepsClean

LEMMA CoordinatorExitsKeepsClean ==
  ASSUME RestartInv, CleanInv, NEW r \in Rounds, CoordinatorExits(r)
  PROVE  CleanInv'
<1>1. /\ proc[CoordinatorOf(r)] = "running"
      /\ coord[r].pc = "wait" /\ coord[r].i = NumServers
      /\ coord' = [coord EXCEPT ![r] = FreshLoops]
      /\ UNCHANGED main
      /\ proc' = [p \in Forked |->
                    CASE p = CoordinatorOf(r) -> "zombie"
                      [] p \in Killers(r) /\ proc[p] = "zombie" -> "reaped"
                      [] OTHER -> proc[p]]
  BY DEF CoordinatorExits, CoordinatorRuns, CoordinatorOf
<1>2. /\ proc'[CoordinatorOf(r)] = "zombie"
      /\ \A q \in Rounds \ {r} : /\ proc'[CoordinatorOf(q)] = proc[CoordinatorOf(q)]
                                 /\ coord'[q] = coord[q]
      /\ \A q \in Rounds, s \in ServerIds :
           \/ proc'[LastKiller(q, s)] = proc[LastKiller(q, s)]
           \/ /\ proc[LastKiller(q, s)] = "zombie"
              /\ proc'[LastKiller(q, s)] = "reaped"
  <2>1. \A q \in Rounds : \A p \in Killers(q) : p # CoordinatorOf(r)
    BY Different
  <2>2. \A q \in Rounds \ {r} :
          CoordinatorOf(q) # CoordinatorOf(r) /\ CoordinatorOf(q) \notin Killers(r)
    BY Different
  <2>3. DOMAIN coord = Rounds
    BY DEF RestartInv, TypeOK
  <2> QED
    BY <1>1, <2>1, <2>2, <2>3
<1>3. ASSUME NEW s \in ServerIds PROVE KillerInv(r, s)'
  <2>1. s < coord[r].i
    BY <1>1 DEF ServerIds
  <2>2. proc[LastKiller(r, s)] \in {"none", "reaped"}
    BY <1>1, <2>1 DEF CleanInv, KillersInv, KillerInv, Over
  <2> QED
    BY <1>2, <2>2 DEF KillerInv, Over
<1>4. KillersInv'
  <2>1. ASSUME NEW q \in Rounds \ {r}, NEW s \in ServerIds PROVE KillerInv(q, s)'
    <3>1. KillerInv(q, s)
      BY DEF CleanInv, KillersInv
    <3> QED
      BY <1>2, <3>1, KillerKept
  <2> QED
    BY <1>3, <2>1 DEF KillersInv
<1> QED
  BY <1>1, <1>2, <1>4, CoordinatorStepKeepsClean

LEMMA KillKeepsClean ==
  ASSUME RestartInv, CleanInv, NEW r \in Rounds, NEW b \in Bricks, Kill(r, b),
         faults' = faults
  PROVE  CleanInv'
<1> DEFINE k == <<"killer", r, b>>
<1>1. /\ UNCHANGED <<pc, round, i, pid, pids, coord>>
      /\ proc[k] = "running" /\ up' = up \ {b}
      /\ \E s \in {"reaped", "zombie"} : proc' = [proc EXCEPT ![k] = s]
  <2>1. ~ Fault
    BY LoopsFields DEF RestartInv, Fault
  <2> QED
    BY <2>1 DEF Kill, Exits, main
<1>2. proc \in [Forked -> ProcessState] /\ k \in Forked /\ k \notin MainChildren
  BY Different DEF RestartInv, TypeOK
<1>3. /\ \A q \in MainChildren : proc'[q] = proc[q]
      /\ \A q \in Forked : \/ proc'[q] = proc[q]
                           \/ proc[q] = "running" /\ proc'[q] \in {"zombie", "reaped"}
  <2> HIDE DEF k
  <2> QED
    BY <1>1, <1>2
<1>4. KillersInv'
  <2> SUFFICES ASSUME NEW q \in Rounds, NEW s \in ServerIds PROVE KillerInv(q, s)'
    BY DEF KillersInv
  <2>1. KillerInv(q, s)
    BY DEF CleanInv, KillersInv
  <2>2. \/ proc'[LastKiller(q, s)] = proc[LastKiller(q, s)]
        \/ /\ proc[LastKiller(q, s)] \in {"running", "zombie"}
           /\ proc'[LastKiller(q, s)] \in {"zombie", "reaped"}
    BY <1>3
  <2>3. coord'[q] = coord[q] /\ proc'[CoordinatorOf(q)] = proc[CoordinatorOf(q)]
    BY <1>1, <1>3
  <2> QED
    BY <2>1, <2>2, <2>3, KillerKept
<1>5. CoordinatorsInv'
  <2>1. round \in Rounds /\ \A q \in Rounds :
          proc'[CoordinatorOf(q)] = proc[CoordinatorOf(q)]
    BY <1>3 DEF RestartInv, TypeOK
  <2> QED
    BY <1>1, <2>1 DEF CleanInv, CoordinatorsInv, Waited, InRestart, Recovered
<1>6. BricksInv'
  <2> SUFFICES ASSUME NEW s \in ServerIds, Waited, <<s, NumBricks - 1>> \in up
               PROVE  <<s, NumBricks - 1>> \in up'
    <3>1. round \in Rounds /\ \A s \in ServerIds :
            proc'[Restarter(round, s)] = proc[Restarter(round, s)]
      BY <1>3 DEF RestartInv, TypeOK
    <3> QED
      BY <1>1, <3>1 DEF CleanInv, BricksInv, Reached, Waited, InRestart, Recovered
  <2>1. proc[LastKiller(r, s)] # "running"
    BY LastKillersOver DEF Over
  <2>2. b # <<s, NumBricks - 1>>
    BY <1>1, <2>1 DEF LastKiller
  <2> QED
    BY <1>1, <2>2
<1> QED
  BY <1>4, <1>5, <1>6 DEF CleanInv

LEMMA RestartKeepsClean ==
  ASSUME RestartInv, CleanInv, NEW r \in Rounds, NEW s \in ServerIds, Restart(r, s),
         faults' = faults
  PROVE  CleanInv'
<1> DEFINE p == Restarter(r, s)
<1>1. /\ UNCHANGED <<pc, round, i, pid, pids, coord>>
      /\ proc[p] = "running" /\ proc' = [proc EXCEPT ![p] = "zombie"]
      /\ up' = up \cup ({s} \X BrickIds)
  <2>1. ~ Fault
    BY LoopsFields DEF RestartInv, Fault
  <2> QED
    BY <2>1 DEF Restart, Exits, Restarter, main
<1>2. proc \in [Forked -> ProcessState]
  BY DEF RestartInv, TypeOK
<1>3. r = round /\ InRestart /\ ~ Recovered
  BY <1>1, RestarterRuns
<1>4. /\ \A q \in Rounds : proc'[CoordinatorOf(q)] = proc[CoordinatorOf(q)]
      /\ \A q \in Rounds, t \in ServerIds :
           proc'[LastKiller(q, t)] = proc[LastKiller(q, t)]
      /\ \A t \in ServerIds \ {s} :
           proc'[Restarter(round, t)] = proc[Restarter(round, t)]
      /\ proc'[p] = "zombie"
  BY <1>1, <1>2, <1>3, Different
<1>5. CoordinatorsInv' /\ KillersInv'
  BY <1>1, <1>3, <1>4, KillersUntouched DEF Waited, InRestart
<1>6. BricksInv'
  <2> SUFFICES ASSUME NEW t \in ServerIds
               PROVE  /\ Reached(t) => /\ pids[t] = Restarter(round, t)
                                       /\ proc'[Restarter(round, t)] # "none"
                      /\ proc'[Restarter(round, t)] \in {"zombie", "reaped"}
                           => <<t, NumBricks - 1>> \in up'
    BY <1>1, <1>3 DEF BricksInv, Reached, InRestart, Recovered
  <2>1. /\ Reached(t) => /\ pids[t] = Restarter(round, t)
                         /\ proc[Restarter(round, t)] # "none"
        /\ proc[Restarter(round, t)] \in {"zombie", "reaped"}
             => <<t, NumBricks - 1>> \in up
    BY <1>3 DEF CleanInv, BricksInv
  <2>2. CASE t = s
    <3>1. NumBricks - 1 \in BrickIds
      BY DEF BrickIds
    <3> QED
      BY <1>1, <1>3, <1>4, <2>1, <2>2, <3>1
  <2>3. CASE t # s
    BY <1>1, <1>4, <2>1, <2>3
  <2> QED
    BY <2>2, <2>3
<1> QED
  BY <1>5, <1>6 DEF CleanInv

\* No step takes a fault back.
LEMMA FaultsGrow ==
  ASSUME TypeOK, [Next]_vars, faults' = 0
  PROVE  faults' = faults
<1>1. faults \in Nat
  BY DEF TypeOK
<1>2. faults' = faults \/ faults' = faults + 1
  BY DEF Next, Main, WriteFile, ReadFile, CheckFile, ForkCoordinator, KillingIO,
         WaitCoordinator, ReadBack, CheckRound, ForkRestart, ForkedRestarts,
         WaitRestart, Restarted, WriteNext, Coordinator, ForkKiller, NextServer,
         WaitKiller, CoordinatorExits, Worker, Kill, Restart, Fault, Idle, vars
<1> QED
  BY <1>1, <1>2

LEMMA StepKeepsClean == RestartInv /\ NoFaultInv /\ [Next]_vars => NoFaultInv'
<1> SUFFICES ASSUME RestartInv, NoFaultInv, [Next]_vars, faults' = 0
             PROVE  CleanInv'
  BY DEF NoFaultInv
<1>1. CleanInv /\ faults' = faults
  BY FaultsGrow DEF NoFaultInv, RestartInv
<1>2. CASE UNCHANGED vars
  <2>1. UNCHANGED <<pc, round, i, pid, pids, coord, proc, up>>
    BY <1>2 DEF vars, main
  <2> QED
    BY <1>1, <2>1 DEF CleanInv, CoordinatorsInv, KillersInv, KillerInv, BricksInv,
                      Waited, InRestart, Reached, Recovered, Over
<1>3. CASE Main
  BY <1>1, <1>3, QuietKeepsClean, ForkCoordinatorKeepsClean,
     WaitCoordinatorKeepsClean, ForkRestartKeepsClean, ForkedRestartsKeepsClean,
     WaitRestartKeepsClean, RestartedKeepsClean, WriteNextKeepsClean DEF Main
<1>4. ASSUME NEW r \in Rounds, Coordinator(r) PROVE CleanInv'
  BY <1>1, <1>4, ForkKillerKeepsClean, NextServerKeepsClean, WaitKillerKeepsClean,
     CoordinatorExitsKeepsClean DEF Coordinator
<1>5. ASSUME NEW r \in Rounds, Worker(r) PROVE CleanInv'
  BY <1>1, <1>5, KillKeepsClean, RestartKeepsClean DEF Worker
<1> QED
  BY <1>2, <1>3, <1>4, <1>5 DEF Next

\* When no fork and no command failed, the bricks whose killer the coordinator
\* waited for serve again after each restart, however the killers, the restarts
\* and the waits interleave; the other bricks may stay dead
\* (test.c:113-122, 178-194, 227).
THEOREM LastDisksServe == Spec => []LastDisksRecovered
<1>1. Init => NoFaultInv
  BY InitInv
<1>2. RestartInv /\ NoFaultInv => LastDisksRecovered
  <2> SUFFICES ASSUME NoFaultInv, Recovered, faults = 0,
                      NEW b \in ServerIds \X {NumBricks - 1}
               PROVE  b \in up
    BY DEF LastDisksRecovered, Recovered
  <2>1. PICK s \in ServerIds : b = <<s, NumBricks - 1>>
    OBVIOUS
  <2> QED
    BY <2>1 DEF NoFaultInv, CleanInv, BricksInv
<1> QED
  BY <1>1, <1>2, RestartInvariance, StepKeepsClean, PTL DEF Spec
=============================================================================
