-------------------------- MODULE AggregateProofs --------------------------
(***************************************************************************)
(* Theorems about Aggregate for any number of clients, with forks and      *)
(* commands that may fail.                                                 *)
(***************************************************************************)
EXTENDS Aggregate, TLAPS

-----------------------------------------------------------------------------
(* The inductive invariant *)

Over(c) == proc[c] \in {"none", "reaped"}

\* The driver is in a phase while it forks and waits, and after them later.
PhaseInv ==
  /\ pc \in {"fork", "wait"} <=> phase \in 1 .. 3
  /\ pc = "done" => i = client_cnt
  /\ pc \in {"died", "crashed"} => \/ i < client_cnt /\ times[i] = "missing"
                                   \/ client_cnt = 0 /\ pc = "crashed"

\* The phases before this one are over and the later ones have not begun.
OtherPhasesInv ==
  \A c \in Children :
    /\ c[1] < phase => Over(c)
    /\ c[1] > phase => proc[c] = "none"

\* pids names every child of this phase that was forked, and the children
\* before the one that is waited for are over.
ThisPhaseInv ==
  \A n \in Clients :
    LET c == <<phase, n>>
        forked == IF pc = "fork" THEN n < i ELSE n < client_cnt
    IN  phase \in 1 .. 3 =>
          /\ ~ forked => proc[c] = "none"
          /\ forked /\ pids[n] # c => proc[c] = "none"
          /\ forked => pids[n] \in {c, ForkError}
          /\ pc = "wait" /\ n < i => Over(c)

BarrierInv == TypeOK /\ PhaseInv /\ OtherPhasesInv /\ ThisPhaseInv

\* What the successful commands of a client left on its server and here.
MeasureInv ==
  /\ \A c \in effective : proc[c] \in {"zombie", "reaped"}
  /\ \A n \in Clients :
       /\ <<1, n>> \in effective => binary[n] = "new"
       /\ {<<1, n>>, <<2, n>>} \subseteq effective => measured[n] = "by_new"
       /\ (1 .. 3) \X {n} \subseteq effective => times[n] = "by_new"
       /\ <<3, n>> \in effective => times[n] # "missing"
       /\ pc \in {"read", "done"} /\ n < i => usecs[n] = times[n]

-----------------------------------------------------------------------------
(* The phases *)

LEMMA ChildrenOfPhases ==
  /\ \A p \in 1 .. 3, n \in Clients : <<p, n>> \in Children
  /\ \A c \in Children : c = <<c[1], c[2]>> /\ c[1] \in 1 .. 3 /\ c[2] \in Clients
  /\ ForkError \notin Children
  /\ MaxClients \in Nat
  /\ Before \in [Clients -> {"missing", "stale"}]
  BY AggregateAssumption DEF Children, Clients

LEMMA InitBarrier == Init => BarrierInv
<1> SUFFICES ASSUME Init PROVE BarrierInv
  OBVIOUS
<1> USE ChildrenOfPhases
<1>1. TypeOK
  BY DEF Init, TypeOK, Time, ProcessState, Clients, DispatchPhase
<1>2. PhaseInv /\ OtherPhasesInv
  BY DEF Init, PhaseInv, OtherPhasesInv, Over, DispatchPhase
<1>3. ThisPhaseInv
  BY DEF Init, ThisPhaseInv, Over, DispatchPhase, Clients
<1> QED
  BY <1>1, <1>2, <1>3 DEF BarrierInv

\* fork adds at most the one child of this phase that pids names.
LEMMA ForkBarrier == BarrierInv /\ Fork => BarrierInv'
<1> SUFFICES ASSUME BarrierInv, Fork PROVE BarrierInv'
  OBVIOUS
<1> USE ChildrenOfPhases
<1>1. /\ phase \in 1 .. 3 /\ i \in Clients /\ <<phase, i>> \in Children
      /\ i + 1 \in 0 .. client_cnt
  BY DEF BarrierInv, TypeOK, PhaseInv, Fork, Clients
<1>2. TypeOK'
  <2>1. pids' \in [Clients -> Children \cup {ForkError}]
    BY <1>1 DEF BarrierInv, TypeOK, Fork
  <2>2. proc' \in [Children -> ProcessState]
    BY <1>1 DEF BarrierInv, TypeOK, Fork, ProcessState
  <2> QED
    BY <1>1, <2>1, <2>2 DEF BarrierInv, TypeOK, Fork, servers
<1>3. PhaseInv' /\ OtherPhasesInv'
  BY <1>1 DEF BarrierInv, TypeOK, PhaseInv, OtherPhasesInv, Over, Fork
<1>4. ThisPhaseInv'
  <2> SUFFICES ASSUME NEW n \in Clients
               PROVE  /\ n >= i + 1 => proc'[<<phase, n>>] = "none"
                      /\ n < i + 1 /\ pids'[n] # <<phase, n>> =>
                           proc'[<<phase, n>>] = "none"
                      /\ n < i + 1 => pids'[n] \in {<<phase, n>>, ForkError}
    BY <1>1 DEF Fork, ThisPhaseInv, Clients
  <2>1. CASE n = i
    BY <1>1, <2>1 DEF BarrierInv, TypeOK, ThisPhaseInv, Fork, Clients
  <2>2. CASE n # i
    BY <1>1, <2>2 DEF BarrierInv, TypeOK, ThisPhaseInv, Fork, Clients
  <2> QED
    BY <2>1, <2>2
<1> QED
  BY <1>2, <1>3, <1>4 DEF BarrierInv

LEMMA ForkedAllBarrier == BarrierInv /\ ForkedAll => BarrierInv'
<1> SUFFICES ASSUME BarrierInv, ForkedAll PROVE BarrierInv'
  OBVIOUS
<1> USE ChildrenOfPhases
<1>1. TypeOK'
  BY DEF BarrierInv, TypeOK, ForkedAll, servers
<1>2. PhaseInv' /\ OtherPhasesInv'
  BY DEF BarrierInv, PhaseInv, OtherPhasesInv, Over, ForkedAll
<1>3. ThisPhaseInv'
  BY DEF BarrierInv, TypeOK, ThisPhaseInv, Over, ForkedAll, Clients
<1> QED
  BY <1>1, <1>2, <1>3 DEF BarrierInv

\* waitpid reaps the child that pids names, finds it reaped already, or takes
\* another one; in every case that child is over afterwards.
LEMMA WaitBarrier == BarrierInv /\ Wait => BarrierInv'
<1> SUFFICES ASSUME BarrierInv, Wait PROVE BarrierInv'
  OBVIOUS
<1> USE ChildrenOfPhases
<1>1. /\ phase \in 1 .. 3 /\ i \in Clients /\ <<phase, i>> \in Children
      /\ i + 1 \in 0 .. client_cnt /\ pc = "wait" /\ i < client_cnt
  BY DEF BarrierInv, TypeOK, PhaseInv, Wait, Clients
<1>2. \A c \in Children : proc'[c] = proc[c] \/ (proc[c] = "zombie" /\ proc'[c] = "reaped")
  BY DEF BarrierInv, TypeOK, Wait, Reapable, WaitedFor
<1>3. TypeOK'
  BY <1>1 DEF BarrierInv, TypeOK, Wait, Reapable, WaitedFor, servers, ProcessState
<1>4. PhaseInv' /\ OtherPhasesInv'
  BY <1>1, <1>2 DEF BarrierInv, PhaseInv, OtherPhasesInv, Over, Wait
<1>5. proc'[<<phase, i>>] \in {"none", "reaped"}
  <2>1. pids[i] = <<phase, i>> \/ proc[<<phase, i>>] = "none"
    BY <1>1 DEF BarrierInv, ThisPhaseInv
  <2>2. CASE proc[<<phase, i>>] = "none"
    BY <1>1, <1>2, <2>2
  <2>3. CASE pids[i] = <<phase, i>>
    <3>1. WaitedFor(pids[i], Children) = {<<phase, i>>}
      BY <1>1, <2>3 DEF WaitedFor
    <3> QED
      BY <1>1, <3>1 DEF BarrierInv, TypeOK, Wait, Reapable, NothingToReap
  <2> QED
    BY <2>1, <2>2, <2>3
<1>6. ThisPhaseInv'
  <2> SUFFICES ASSUME NEW n \in Clients
               PROVE  /\ n >= client_cnt => proc'[<<phase, n>>] = "none"
                      /\ n < client_cnt /\ pids[n] # <<phase, n>> =>
                           proc'[<<phase, n>>] = "none"
                      /\ n < client_cnt => pids[n] \in {<<phase, n>>, ForkError}
                      /\ n < i + 1 => proc'[<<phase, n>>] \in {"none", "reaped"}
    BY <1>1 DEF BarrierInv, TypeOK, Wait, ThisPhaseInv, Over, Clients
  <2>1. <<phase, n>> \in Children
    BY <1>1
  <2>2. CASE n = i
    BY <1>1, <1>2, <1>5, <2>1, <2>2 DEF BarrierInv, TypeOK, ThisPhaseInv, Over, Clients
  <2>3. CASE n # i
    BY <1>1, <1>2, <2>1, <2>3 DEF BarrierInv, TypeOK, ThisPhaseInv, Over, Clients
  <2> QED
    BY <2>2, <2>3
<1> QED
  BY <1>3, <1>4, <1>6 DEF BarrierInv

\* After the last waitpid all children of all phases are over.
LEMMA AllOver ==
  ASSUME BarrierInv, pc = "wait", i = client_cnt
  PROVE  \A c \in Children : Over(c) /\ (c[1] > phase => proc[c] = "none")
<1> USE ChildrenOfPhases
<1>1. phase \in 1 .. 3
  BY DEF BarrierInv, PhaseInv
<1> SUFFICES ASSUME NEW c \in Children PROVE Over(c) /\ (c[1] > phase => proc[c] = "none")
  OBVIOUS
<1>2. CASE c[1] = phase
  <2>1. c = <<phase, c[2]>> /\ c[2] \in Clients
    BY <1>2
  <2>2. c[2] < client_cnt \/ ~ (c[2] < client_cnt)
    OBVIOUS
  <2> QED
    BY <1>1, <1>2, <2>1, <2>2 DEF BarrierInv, ThisPhaseInv, Over
<1>3. CASE c[1] # phase
  <2>1. c[1] < phase \/ c[1] > phase
    BY <1>1, <1>3
  <2> QED
    BY <1>1, <2>1 DEF BarrierInv, OtherPhasesInv, Over
<1> QED
  BY <1>2, <1>3

LEMMA WaitedAllBarrier == BarrierInv /\ WaitedAll => BarrierInv'
<1> SUFFICES ASSUME BarrierInv, WaitedAll PROVE BarrierInv'
  OBVIOUS
<1> USE ChildrenOfPhases
<1>1. phase \in 1 .. 3 /\ client_cnt \in Nat
  BY DEF BarrierInv, TypeOK, PhaseInv, WaitedAll
<1>2. \A c \in Children : Over(c) /\ (c[1] > phase => proc[c] = "none")
  BY AllOver DEF WaitedAll
<1>3. TypeOK'
  BY <1>1 DEF BarrierInv, TypeOK, WaitedAll, servers, FetchPhase
<1>4. PhaseInv'
  BY <1>1 DEF PhaseInv, WaitedAll, FetchPhase
<1>5. OtherPhasesInv'
  BY <1>1, <1>2 DEF OtherPhasesInv, Over, WaitedAll
<1>6. ThisPhaseInv'
  <2> SUFFICES ASSUME NEW n \in Clients, phase + 1 \in 1 .. 3
               PROVE  proc[<<phase + 1, n>>] = "none"
    BY <1>1 DEF ThisPhaseInv, Over, WaitedAll, FetchPhase, Clients
  <2> QED
    BY <1>1, <1>2
<1> QED
  BY <1>3, <1>4, <1>5, <1>6 DEF BarrierInv

LEMMA ReportBarrier == BarrierInv /\ (ReadTime \/ MissingTime \/ Average) => BarrierInv'
<1> SUFFICES ASSUME BarrierInv, ReadTime \/ MissingTime \/ Average PROVE BarrierInv'
  OBVIOUS
<1> USE ChildrenOfPhases
<1>1. phase \notin 1 .. 3 /\ pc' \notin {"fork", "wait"} /\ UNCHANGED <<phase, proc, client_cnt>>
  BY DEF BarrierInv, PhaseInv, ReadTime, MissingTime, Average
<1>2. TypeOK'
  <2>1. CASE ReadTime
    BY <2>1 DEF BarrierInv, TypeOK, ReadTime, servers, Clients
  <2>2. CASE Average
    BY <2>2 DEF BarrierInv, TypeOK, Average, servers
  <2>3. CASE MissingTime
    BY <2>3 DEF BarrierInv, TypeOK, MissingTime, servers
  <2> QED
    BY <2>1, <2>2, <2>3
<1>3. PhaseInv'
  BY <1>1 DEF BarrierInv, PhaseInv, ReadTime, MissingTime, Average, servers
<1>4. OtherPhasesInv' /\ ThisPhaseInv'
  BY <1>1 DEF BarrierInv, OtherPhasesInv, ThisPhaseInv, Over
<1> QED
  BY <1>2, <1>3, <1>4 DEF BarrierInv

\* A child that runs is one of the current phase.
LEMMA RunningInPhase ==
  ASSUME BarrierInv, NEW c \in Children, proc[c] = "running"
  PROVE  c[1] = phase /\ pc \in {"fork", "wait"}
<1> USE ChildrenOfPhases
<1>1. c[1] \in 1 .. 3 /\ phase \in 1 .. 4
  BY DEF BarrierInv, TypeOK
<1>2. ~ (c[1] < phase) /\ ~ (c[1] > phase)
  BY DEF BarrierInv, OtherPhasesInv, Over
<1> QED
  BY <1>1, <1>2 DEF BarrierInv, PhaseInv

\* A command that ends makes its child a zombie and leaves the driver alone.
LEMMA ExitsBarrier ==
  ASSUME BarrierInv, NEW c \in Children, Exits(c), TypeOK'
  PROVE  BarrierInv'
<1> USE ChildrenOfPhases
<1>1. /\ UNCHANGED driver /\ proc[c] = "running"
      /\ \A d \in Children : proc'[d] = IF d = c THEN "zombie" ELSE proc[d]
  BY DEF BarrierInv, TypeOK, Exits
<1>2. PhaseInv' /\ OtherPhasesInv'
  BY <1>1, RunningInPhase DEF BarrierInv, PhaseInv, OtherPhasesInv, Over, driver
<1>3. ThisPhaseInv'
  BY <1>1 DEF BarrierInv, ThisPhaseInv, Over, driver
<1> QED
  BY <1>2, <1>3 DEF BarrierInv

LEMMA ChildBarrier ==
  ASSUME BarrierInv, NEW n \in Clients, Child(n)
  PROVE  BarrierInv'
<1> USE ChildrenOfPhases
<1>1. \A p \in 1 .. 3 : <<p, n>> \in Children
  OBVIOUS
<1>2. ASSUME NEW c \in Children, Exits(c)
      PROVE  /\ client_cnt' \in 0 .. MaxClients
             /\ pc' \in {"fork", "wait", "read", "done", "died", "crashed"}
             /\ phase' \in 1 .. 4
             /\ i' \in 0 .. client_cnt'
             /\ pids' \in [Clients -> Children \cup {ForkError}]
             /\ proc' \in [Children -> ProcessState]
             /\ usecs' \in [Clients -> Time]
  BY <1>2 DEF BarrierInv, TypeOK, Exits, driver, ProcessState
<1>3. CASE Dispatch(n)
  <2>1. <<1, n>> \in Children /\ Exits(<<1, n>>)
    BY <1>1, <1>3 DEF Dispatch, Succeeds, DispatchPhase
  <2>2. TypeOK'
    BY <1>2, <1>3, <2>1
       DEF BarrierInv, TypeOK, Dispatch, Succeeds, DispatchPhase
  <2> QED
    BY <2>1, <2>2, ExitsBarrier
<1>4. CASE Test(n)
  <2>1. <<2, n>> \in Children /\ Exits(<<2, n>>)
    BY <1>1, <1>4 DEF Test, Succeeds, TestPhase
  <2>2. TypeOK'
    BY <1>2, <1>4, <2>1
       DEF BarrierInv, TypeOK, Test, TimeBy, Succeeds, TestPhase, Time
  <2> QED
    BY <2>1, <2>2, ExitsBarrier
<1>5. CASE Fetch(n)
  <2>1. <<3, n>> \in Children /\ Exits(<<3, n>>)
    BY <1>1, <1>5 DEF Fetch, Succeeds, FetchPhase
  <2>2. TypeOK'
    BY <1>2, <1>5, <2>1
       DEF BarrierInv, TypeOK, Fetch, Succeeds, FetchPhase, Time
  <2> QED
    BY <2>1, <2>2, ExitsBarrier
<1>6. CASE DispatchFails(n)
  <2>1. <<1, n>> \in Children /\ Exits(<<1, n>>)
    BY <1>1, <1>6 DEF DispatchFails, DispatchPhase
  <2>2. TypeOK'
    BY <1>2, <1>6, <2>1 DEF BarrierInv, TypeOK, DispatchFails, servers
  <2> QED
    BY <2>1, <2>2, ExitsBarrier
<1>7. CASE TestFails(n)
  <2>1. <<2, n>> \in Children /\ Exits(<<2, n>>)
    BY <1>1, <1>7 DEF TestFails, TestPhase
  <2>2. measured' \in [Clients -> Time]
    BY <1>7 DEF BarrierInv, TypeOK, TestFails, TimeBy, Time
  <2>3. TypeOK'
    BY <1>2, <1>7, <2>1, <2>2 DEF BarrierInv, TypeOK, TestFails
  <2> QED
    BY <2>1, <2>3, ExitsBarrier
<1>8. CASE FetchFails(n)
  <2>1. <<3, n>> \in Children /\ Exits(<<3, n>>)
    BY <1>1, <1>8 DEF FetchFails, FetchPhase
  <2>2. times' \in [Clients -> Time]
    BY <1>8 DEF BarrierInv, TypeOK, FetchFails, Time
  <2>3. TypeOK'
    BY <1>2, <1>8, <2>1, <2>2 DEF BarrierInv, TypeOK, FetchFails
  <2> QED
    BY <2>1, <2>3, ExitsBarrier
<1> QED
  BY <1>3, <1>4, <1>5, <1>6, <1>7, <1>8 DEF Child

LEMMA NextBarrier == BarrierInv /\ [Next]_vars => BarrierInv'
<1> SUFFICES ASSUME BarrierInv, [Next]_vars PROVE BarrierInv'
  OBVIOUS
<1>1. CASE Driver
  BY <1>1, ForkBarrier, ForkedAllBarrier, WaitBarrier, WaitedAllBarrier,
     ReportBarrier DEF Driver
<1>2. CASE \E n \in Clients : Child(n)
  BY <1>2, ChildBarrier
<1>3. CASE UNCHANGED vars
  BY <1>3 DEF vars, driver, servers, BarrierInv, TypeOK, PhaseInv,
     OtherPhasesInv, ThisPhaseInv, Over
<1> QED
  BY <1>1, <1>2, <1>3 DEF Next

\* Every variable of the driver keeps its type, and at any time only children
\* of the current phase run.
THEOREM BarrierInvariance == Spec => []BarrierInv
<1>1. Init => BarrierInv
  BY InitBarrier
<1>2. BarrierInv /\ [Next]_vars => BarrierInv'
  BY NextBarrier
<1> QED
  BY <1>1, <1>2, PTL DEF Spec

\* The driver's variables keep their types, from a client_cnt on that fits the
\* arrays: main does not check what atoi gives it (aggregate.c:17-113).
THEOREM TypeCorrectness == Spec => []TypeOK
<1>1. BarrierInv => TypeOK
  BY DEF BarrierInv
<1> QED
  BY <1>1, BarrierInvariance, PTL

-----------------------------------------------------------------------------
(* The driver implements a barrier between its phases *)

Running == {c \in Children : proc[c] = "running"}

LEMMA StepIsBarrierStep ==
  ASSUME BarrierInv, BarrierInv', [Next]_vars
  PROVE  [Barrier!Next]_<<phase, Running>>
<1> USE ChildrenOfPhases
<1> DEFINE Jobs == [p \in 1 .. 3 |-> {p} \X Clients]
<1>1. DOMAIN Jobs = 1 .. 3 /\ \A p \in 1 .. 3, n \in Clients : <<p, n>> \in Jobs[p]
  OBVIOUS
<1>2. CASE Fork
  <2>1. /\ phase \in 1 .. 3 /\ i \in Clients /\ <<phase, i>> \in Children
        /\ UNCHANGED phase
    BY <1>2 DEF BarrierInv, TypeOK, PhaseInv, Fork, Clients
  <2>2. Running' = Running \cup {<<phase, i>>} \/ Running' = Running
    BY <1>2, <2>1 DEF Running, Fork, BarrierInv, TypeOK
  <2>3. <<phase, i>> \in Jobs[phase]
    BY <1>1, <2>1
  <2> QED
    BY <1>1, <2>1, <2>2, <2>3 DEF Barrier!Next, Barrier!Start, Running
<1>3. CASE Wait
  <2>1. \A c \in Children : proc'[c] = proc[c] \/ (proc[c] = "zombie" /\ proc'[c] = "reaped")
    BY <1>3 DEF BarrierInv, TypeOK, Wait, Reapable, WaitedFor
  <2>2. Running' = Running
    BY <2>1 DEF Running
  <2> QED
    BY <1>3, <2>2 DEF Wait
<1>4. CASE WaitedAll
  <2>1. Running = {}
    BY <1>4, AllOver DEF WaitedAll, Running, Over
  <2>2. phase \in 1 .. 3 /\ phase' = phase + 1 /\ Running' = Running
    BY <1>4 DEF BarrierInv, PhaseInv, WaitedAll, Running
  <2> QED
    BY <1>1, <2>1, <2>2 DEF Barrier!Next, Barrier!Advance, Running
<1>5. CASE ForkedAll \/ ReadTime \/ MissingTime \/ Average \/ UNCHANGED vars
  BY <1>5 DEF ForkedAll, ReadTime, MissingTime, Average, vars, driver, Running
<1>6. ASSUME NEW n \in Clients, Child(n)
      PROVE  [Barrier!Next]_<<phase, Running>>
  <2>1. PICK p \in 1 .. 3 : Exits(<<p, n>>)
    BY <1>6 DEF Child, Dispatch, Test, Fetch, DispatchFails, TestFails,
       FetchFails, Succeeds, DispatchPhase, TestPhase, FetchPhase
  <2>2. Running' = Running \ {<<p, n>>} /\ UNCHANGED phase
    BY <2>1 DEF BarrierInv, TypeOK, Exits, driver, Running
  <2>3. <<p, n>> \in Jobs[p]
    BY <1>1
  <2> QED
    BY <1>1, <2>2, <2>3 DEF Barrier!Next, Barrier!Stop, Running
<1> QED
  BY <1>2, <1>3, <1>4, <1>5, <1>6 DEF Next, Driver

\* No phase begins while a child of an earlier one runs, for any number of
\* clients and whatever forks and commands fail (aggregate.c:29-30, 50-51,
\* 71-72).
THEOREM PhasesAreBarriers == Spec => ImplementsPhaseBarrier
<1>1. Init => Barrier!Init
  BY DEF Init, Barrier!Init, DispatchPhase
<1>2. BarrierInv /\ BarrierInv' /\ [Next]_vars => [Barrier!Next]_<<phase, Running>>
  BY StepIsBarrierStep
<1>3. BarrierInv /\ BarrierInv' /\ [Next]_vars =>
        [Barrier!Next]_<<phase, {c \in Children : proc[c] = "running"}>>
  BY <1>2 DEF Running
<1> QED
  BY <1>1, <1>3, BarrierInvariance, PTL DEF Spec, ImplementsPhaseBarrier, Barrier!Spec

-----------------------------------------------------------------------------
(* The average is about this run *)

LEMMA InitMeasure == Init => MeasureInv
<1>1. \A n : <<1, n>> \in (1 .. 3) \X {n}
  OBVIOUS
<1> QED
  BY <1>1 DEF Init, MeasureInv

LEMMA DriverMeasure == BarrierInv /\ MeasureInv /\ Driver => MeasureInv'
<1> SUFFICES ASSUME BarrierInv, MeasureInv, Driver PROVE MeasureInv'
  OBVIOUS
<1> USE ChildrenOfPhases
<1>1. UNCHANGED <<binary, measured, times, effective>>
  BY DEF Driver, Fork, ForkedAll, Wait, WaitedAll, ReadTime, MissingTime,
     Average, servers
<1>2. ASSUME NEW c \in effective PROVE proc'[c] \in {"zombie", "reaped"}
  <2>1. c \in Children /\ proc[c] \in {"zombie", "reaped"}
    BY DEF BarrierInv, TypeOK, MeasureInv
  <2>2. CASE Fork
    <3>1. i \in Clients /\ phase \in 1 .. 3 /\ proc[<<phase, i>>] = "none"
      BY <2>2 DEF BarrierInv, TypeOK, PhaseInv, ThisPhaseInv, Fork, Clients
    <3> QED
      BY <2>1, <2>2, <3>1 DEF Fork, BarrierInv, TypeOK
  <2>3. CASE Wait
    BY <2>1, <2>3 DEF BarrierInv, TypeOK, Wait, Reapable, WaitedFor
  <2>4. CASE ForkedAll \/ WaitedAll \/ ReadTime \/ MissingTime \/ Average
    BY <2>1, <2>4 DEF ForkedAll, WaitedAll, ReadTime, MissingTime, Average
  <2> QED
    BY <2>2, <2>3, <2>4 DEF Driver
<1>3. ASSUME NEW n \in Clients, pc' \in {"read", "done"}, n < i'
      PROVE  usecs'[n] = times[n]
  <2>1. i \in Nat /\ client_cnt \in Nat /\ n \in Nat
    BY DEF BarrierInv, TypeOK, Clients
  <2>2. CASE ReadTime
    <3>1. i \in Clients
      BY <2>2 DEF BarrierInv, TypeOK, ReadTime, Clients
    <3>2. /\ usecs' = [usecs EXCEPT ![i] = times[i]] /\ i' = i + 1
          /\ pc = "read" /\ usecs \in [Clients -> Time]
      BY <1>3, <2>2 DEF ReadTime, BarrierInv, TypeOK
    <3>3. n = i \/ n < i
      BY <1>3, <2>1, <3>2
    <3> QED
      BY <3>1, <3>2, <3>3 DEF MeasureInv
  <2>3. CASE Average
    BY <1>3, <2>3 DEF Average, MeasureInv
  <2>4. CASE WaitedAll
    BY <1>3, <2>1, <2>4 DEF WaitedAll
  <2>5. CASE Fork \/ ForkedAll \/ Wait \/ MissingTime
    BY <1>3, <2>5 DEF Fork, ForkedAll, Wait, MissingTime
  <2> QED
    BY <2>2, <2>3, <2>4, <2>5 DEF Driver
<1> QED
  BY <1>1, <1>2, <1>3 DEF MeasureInv

\* The commands of a client succeed in the order of the phases, so the second
\* one finds the binary and the third one the time of this run.
LEMMA ChildMeasure ==
  ASSUME BarrierInv, MeasureInv, NEW m \in Clients, Child(m)
  PROVE  MeasureInv'
<1> USE ChildrenOfPhases
<1>1. PICK p \in 1 .. 3 : /\ Exits(<<p, m>>)
                          /\ \/ p = 1 /\ (Dispatch(m) \/ DispatchFails(m))
                             \/ p = 2 /\ (Test(m) \/ TestFails(m))
                             \/ p = 3 /\ (Fetch(m) \/ FetchFails(m))
  BY DEF Child, Dispatch, Test, Fetch, DispatchFails, TestFails, FetchFails,
     Succeeds, DispatchPhase, TestPhase, FetchPhase
<1>2. <<p, m>> \in Children /\ proc[<<p, m>>] = "running"
  BY <1>1 DEF Exits
<1>3. p = phase /\ pc \in {"fork", "wait"} /\ pc' = pc /\ effective \subseteq Children
  BY <1>1, <1>2, RunningInPhase DEF Exits, driver, BarrierInv, TypeOK
<1>4. \A q \in 1 .. 3 : q >= p => <<q, m>> \notin effective
  <2> SUFFICES ASSUME NEW q \in 1 .. 3, q >= p, <<q, m>> \in effective PROVE FALSE
    OBVIOUS
  <2>1. proc[<<q, m>>] \in {"running", "none"}
    BY <1>2, <1>3 DEF BarrierInv, OtherPhasesInv
  <2> QED
    BY <2>1 DEF MeasureInv
<1>5. effective' \subseteq effective \cup {<<p, m>>}
  BY <1>1 DEF Dispatch, Test, Fetch, DispatchFails, TestFails, FetchFails,
     Succeeds, DispatchPhase, TestPhase, FetchPhase
<1>6. \A c \in effective' : proc'[c] \in {"zombie", "reaped"}
  BY <1>1, <1>2, <1>3, <1>5 DEF MeasureInv, Exits, BarrierInv, TypeOK
<1>7. ASSUME NEW n \in Clients
      PROVE  /\ <<1, n>> \in effective' => binary'[n] = "new"
             /\ {<<1, n>>, <<2, n>>} \subseteq effective' => measured'[n] = "by_new"
             /\ {<<1, n>>, <<2, n>>, <<3, n>>} \subseteq effective' => times'[n] = "by_new"
             /\ <<3, n>> \in effective' => times'[n] # "missing"
  <2>1. /\ <<1, n>> \in effective => binary[n] = "new"
        /\ {<<1, n>>, <<2, n>>} \subseteq effective => measured[n] = "by_new"
        /\ {<<1, n>>, <<2, n>>, <<3, n>>} \subseteq effective => times[n] = "by_new"
        /\ <<3, n>> \in effective => times[n] # "missing"
    <3>1. (1 .. 3) \X {n} = {<<1, n>>, <<2, n>>, <<3, n>>}
      OBVIOUS
    <3> QED
      BY <3>1 DEF MeasureInv
  <2>2. CASE n # m
    <3>1. /\ binary'[n] = binary[n] /\ measured'[n] = measured[n] /\ times'[n] = times[n]
      BY <1>1, <2>2 DEF Dispatch, Test, Fetch, DispatchFails, TestFails, FetchFails,
         servers, BarrierInv, TypeOK
    <3>2. \A q \in 1 .. 3 : <<q, n>> \in effective' => <<q, n>> \in effective
      BY <1>5, <2>2
    <3> QED
      BY <2>1, <3>1, <3>2
  <2>3. CASE n = m /\ p = 1 /\ Dispatch(m)
    BY <1>4, <1>5, <2>1, <2>3 DEF Dispatch, BarrierInv, TypeOK
  <2>4. CASE n = m /\ p = 2 /\ Test(m)
    BY <1>4, <1>5, <2>1, <2>4 DEF Test, TimeBy, BarrierInv, TypeOK
  <2>5. CASE n = m /\ p = 3 /\ Fetch(m)
    BY <1>4, <1>5, <2>1, <2>5 DEF Fetch, BarrierInv, TypeOK
  <2>6. CASE n = m /\ p = 1 /\ DispatchFails(m)
    BY <2>1, <2>6 DEF DispatchFails, servers
  <2>7. CASE n = m /\ p = 2 /\ TestFails(m)
    BY <1>4, <2>1, <2>7 DEF TestFails
  <2>8. CASE n = m /\ p = 3 /\ FetchFails(m)
    BY <1>4, <2>1, <2>8 DEF FetchFails
  <2> QED
    BY <1>1, <2>2, <2>3, <2>4, <2>5, <2>6, <2>7, <2>8
<1>8. ASSUME NEW n \in Clients PROVE (1 .. 3) \X {n} = {<<1, n>>, <<2, n>>, <<3, n>>}
  OBVIOUS
<1> QED
  BY <1>3, <1>6, <1>7, <1>8 DEF MeasureInv

\* The successful commands of a client leave this run's binary, its time and a
\* copy of that time, and the driver reads the copies (aggregate.c:20-84).
THEOREM MeasureInvariance == Spec => []MeasureInv
<1>1. Init => MeasureInv
  BY InitMeasure
<1>2. BarrierInv /\ MeasureInv /\ [Next]_vars => MeasureInv'
  <2> SUFFICES ASSUME BarrierInv, MeasureInv, [Next]_vars PROVE MeasureInv'
    OBVIOUS
  <2>1. CASE UNCHANGED vars
    BY <2>1 DEF vars, driver, servers, MeasureInv
  <2> QED
    BY <2>1, DriverMeasure, ChildMeasure DEF Next
<1> QED
  BY <1>1, <1>2, BarrierInvariance, PTL DEF Spec

\* A client whose three commands succeeded enters the average with the time
\* that this run's binary measured in this run, for any number of clients and
\* whatever fails for the others (aggregate.c:20-30, 40-51, 62-84).
THEOREM Measured == Spec => []ClientMeasured
<1>1. BarrierInv /\ MeasureInv => ClientMeasured
  <2> SUFFICES ASSUME BarrierInv, MeasureInv, pc = "done",
                      NEW n \in 0 .. client_cnt - 1,
                      (1 .. 3) \X {n} \subseteq effective
               PROVE  usecs[n] = "by_new"
    BY DEF ClientMeasured
  <2>1. n \in Clients /\ n < i
    BY ChildrenOfPhases DEF BarrierInv, TypeOK, PhaseInv, Clients
  <2> QED
    BY <2>1 DEF MeasureInv
<1> QED
  BY <1>1, MeasureInvariance, BarrierInvariance, PTL

\* A driver that gives up has no clients, or the fetch for one of them failed
\* and left no file, for any number of clients (aggregate.c:76-81, 90,
\* glapi-perf-test/aggregate-read.c:76-77).
THEOREM GivesUp == Spec => []GivesUpForCause
<1>1. BarrierInv /\ MeasureInv => GivesUpForCause
  <2> SUFFICES ASSUME BarrierInv, MeasureInv, i < client_cnt, times[i] = "missing"
               PROVE  \E n \in 0 .. client_cnt - 1 :
                        <<3, n>> \notin effective /\ times[n] = "missing"
    BY DEF GivesUpForCause, BarrierInv, PhaseInv, FetchPhase
  <2>1. i \in Clients /\ i \in 0 .. client_cnt - 1
    BY ChildrenOfPhases DEF BarrierInv, TypeOK, Clients
  <2> QED
    BY <2>1 DEF MeasureInv
<1> QED
  BY <1>1, MeasureInvariance, BarrierInvariance, PTL
=============================================================================
