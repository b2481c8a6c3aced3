---------------------------- MODULE MCClientRun ----------------------------
(* Two runs on one server, for TLC.  The volume is empty, or holds the files *)
(* of the two writers, or one that was cut short.                            *)
EXTENDS ClientRun

MCVolumes ==
  {[f \in Files |-> "absent"],
   [f \in Files |-> IF f = 0 THEN "letters" ELSE "bytes"],
   [f \in Files |-> IF f = 0 THEN "absent" ELSE "letters"],
   [f \in Files |-> IF f = 0 THEN "part" ELSE "bytes"]}
=============================================================================
