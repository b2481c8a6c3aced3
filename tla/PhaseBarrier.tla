---------------------------- MODULE PhaseBarrier ----------------------------
(***************************************************************************)
(* Work in phases: jobs are started in the current phase, and the next     *)
(* phase begins only when every job that was started has stopped.          *)
(***************************************************************************)
EXTENDS Naturals

CONSTANT Jobs   \* Jobs[p]: the jobs that may run in phase p

VARIABLES phase, running

Init ==
  /\ phase = 1
  /\ running = {}

Start(job) ==
  /\ phase \in DOMAIN Jobs
  /\ job \in Jobs[phase]
  /\ running' = running \cup {job}
  /\ UNCHANGED phase

Stop(job) ==
  /\ running' = running \ {job}
  /\ UNCHANGED phase

Advance ==
  /\ phase \in DOMAIN Jobs
  /\ running = {}
  /\ phase' = phase + 1
  /\ UNCHANGED running

Next ==
  \/ Advance
  \/ \E p \in DOMAIN Jobs : \E job \in Jobs[p] : Start(job) \/ Stop(job)

Spec == Init /\ [][Next]_<<phase, running>>
=============================================================================
