------------------------ MODULE MCMigrationJobsLive ------------------------
(***************************************************************************)
(* Progress of MigrationJobs: every submitted job reaches an ending.       *)
(*                                                                         *)
(* Fairness.  The queue goes on delivering a notification until it is      *)
(* deleted, the API sends it and a running worker goes on (every remote    *)
(* call has a timeout).  A worker may die again and again before it begins *)
(* to claim, so that its claim is strongly fair: the notification comes    *)
(* back, and not every attempt is cut short.  Left out, because the code   *)
(* promises nothing then: a notification that was never sent, a worker     *)
(* that dies after its claim began, a change of the row by others.         *)
(***************************************************************************)
EXTENDS MigrationJobs

CrashBeforeClaim(w) == At(w, "received") /\ Crash(w)

LiveNext ==
  \/ \E j \in Jobs : Create(j) \/ Publish(j) \/ Decide(j)
  \/ \E w \in Workers : Receive(w) \/ Take(w) \/ Process(w) \/ CrashBeforeClaim(w)

LiveSpec ==
  /\ Init
  /\ [][LiveNext]_vars
  /\ \A j \in Jobs : WF_vars(Publish(j)) /\ WF_vars(Decide(j))
  /\ \A w \in Workers :
       /\ WF_vars(Receive(w))
       /\ SF_vars(Take(w))
       /\ WF_vars(Process(w))

\* Every job is brought to an ending, although its notification may be delivered
\* twice and a worker may die with it.
EveryJobConcludes ==
  \A j \in Jobs : jobs[j].status = "QUEUED" ~> jobs[j].status \in TerminalStatuses
=============================================================================
