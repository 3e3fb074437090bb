----------------------------- MODULE JobLedger -----------------------------
(***************************************************************************)
(* What the jobs of a workflow promise to the person who submits them: a   *)
(* job is opened only when every earlier one is known to have failed, a    *)
(* job that is reported as failed has written nothing and never will, and  *)
(* a job that is reported as done has written.  So the rows of a workflow  *)
(* are written by one job at most.  MigrationJobs implements it.           *)
(***************************************************************************)

CONSTANT Jobs

VARIABLES
  record,    \* what is known of each job
  written    \* the jobs whose rows are in the target

ledgerVars == <<record, written>>

Init == record = [j \in Jobs |-> "absent"] /\ written = {}

Open(j) ==
  /\ record[j] = "absent"
  /\ \A i \in Jobs : record[i] \in {"absent", "failed"}
  /\ record' = [record EXCEPT ![j] = "open"]
  /\ UNCHANGED written

\* An uncertain job is held, and may still turn out to have written.
Write(j) ==
  /\ record[j] \in {"open", "held"}
  /\ j \notin written
  /\ written' = written \cup {j}
  /\ UNCHANGED record

Close(j, outcome) ==
  /\ record[j] = "open"
  /\ outcome = "failed" => j \notin written
  /\ outcome = "done" => j \in written
  /\ record' = [record EXCEPT ![j] = outcome]
  /\ UNCHANGED written

Next ==
  \E j \in Jobs :
    Open(j) \/ Write(j) \/ \E outcome \in {"failed", "held", "done"} : Close(j, outcome)

Spec == Init /\ [][Next]_ledgerVars
=============================================================================
