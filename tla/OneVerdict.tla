----------------------------- MODULE OneVerdict -----------------------------
(***************************************************************************)
(* What validation promises about an executed migration: it is judged at   *)
(* most once, by one run, and the verdict stands.  A run whose outcome is  *)
(* not known is a verdict too: it leaves no report, and it is not retried. *)
(* ValidationRun implements it.                                            *)
(***************************************************************************)
VARIABLES
  judgement,  \* "none", "pending", or the verdict
  report      \* the verdict in the latest report on record, or "none"

verdictVars == <<judgement, report>>

Init == judgement = "none" /\ report = "none"

Begin ==
  /\ judgement = "none"
  /\ judgement' = "pending"
  /\ UNCHANGED report

\* The report and the verdict are recorded together.
Judge(v) ==
  /\ judgement = "pending"
  /\ judgement' = v
  /\ report' = v

GiveUp ==
  /\ judgement = "pending"
  /\ judgement' = "unknown"
  /\ UNCHANGED report

Next == Begin \/ (\E v \in {"passed", "review"} : Judge(v)) \/ GiveUp

Spec == Init /\ [][Next]_verdictVars
=============================================================================
