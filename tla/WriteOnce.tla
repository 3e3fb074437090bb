----------------------------- MODULE WriteOnce -----------------------------
(***************************************************************************)
(* What a migration promises about the target: the approved rows are       *)
(* written once at most, success is reported only after they were written, *)
(* and the staged copy they were written from is discarded only after      *)
(* success was reported.  TargetExecution implements it.                   *)
(***************************************************************************)
EXTENDS Naturals

VARIABLES
  written,    \* how often the rows were inserted
  reported,   \* a success is on record
  source      \* the staged copy

onceVars == <<written, reported, source>>

Init == written = 0 /\ reported = FALSE /\ source = "present"

Write ==
  /\ written = 0
  /\ source = "present"
  /\ written' = 1
  /\ UNCHANGED <<reported, source>>

Report ==
  /\ written = 1
  /\ ~reported
  /\ reported' = TRUE
  /\ UNCHANGED <<written, source>>

Discard ==
  /\ reported
  /\ source' = "dropped"
  /\ UNCHANGED <<written, reported>>

Next == Write \/ Report \/ Discard

Spec == Init /\ [][Next]_onceVars
=============================================================================
