---------------------------- MODULE ValidationRun ----------------------------
(***************************************************************************)
(* The validation of an executed migration: WorkflowValidationOrchestrator *)
(* over the workflow row, the validation runs and the idempotency records. *)
(* The two remote queries only read, so that all there is to lose is the   *)
(* verdict.                                                                *)
(*                                                                         *)
(* One workflow is followed from EXECUTED; versions are counted from there.*)
(* A caller is one activation of validate() in a process of its own.       *)
(*                                                                         *)
(* Operators introduced as a variant are not part of the model.            *)
(***************************************************************************)
EXTENDS Naturals, WorkflowStates

CONSTANTS
  Callers,    \* concurrent activations of validate()
  Keys,       \* Idempotency-Key values
  Runs,       \* run identifiers, drawn by uuid_factory
  None,       \* no run, no key
  MaxVersion, \* bound on what clients other than validate() may bump
  Pipelined,  \* TRUE: a client may name the version its previous command,
              \* still unanswered, is about to produce
  Cleaners    \* executions whose staging cleanup is still to be recorded

ASSUME ValidationConstants ==
  /\ None \notin Runs
  /\ None \notin Keys
  /\ MaxVersion \in Nat
  /\ Pipelined \in BOOLEAN
  /\ Cleaners \in Nat

VARIABLES
  status,    \* migration_workflows.status
  version,   \* migration_workflows.version
  appended,  \* the last change of the row moved latest_artifact_version
  approval,  \* number of the latest APPROVED_MAPPING_PLAN artifact
  runs,      \* migration_validation_runs
  idem,      \* migration_idempotency, scope <workflow>:VALIDATION
  evidence,  \* the latest VALIDATION_EXECUTION_REPORT: its run and its verdict
  cleanups,  \* how many staging cleanups execute() may still record
  call       \* the local state of each caller

rowVars     == <<status, version, appended>>
durableVars == <<status, version, appended, approval, runs, idem, evidence, cleanups>>
vars == <<status, version, appended, approval, runs, idem, evidence, cleanups, call>>

----------------------------------------------------------------------------
(* Types *)

RunStatuses ==
  {"CLAIMED", "RUNNING", "SUCCEEDED", "REVIEW_REQUIRED", "OUTCOME_UNCERTAIN"}
TerminalStatuses == {"SUCCEEDED", "REVIEW_REQUIRED", "OUTCOME_UNCERTAIN"}

\* The runs that forbid another claim, in claim_validation_run's query.
BlockingStatuses == RunStatuses

RunRow == [status: RunStatuses \cup {"ABSENT"}, approval: Nat, expired: BOOLEAN]
NoRow == [status |-> "ABSENT", approval |-> 0, expired |-> FALSE]

IdemRecord == [expected: Nat, approval: Nat, run: Runs \cup {None}]
NoRecord == [expected |-> 0, approval |-> 0, run |-> None]

Report == [run: Runs, verdict: {"SUCCEEDED", "REVIEW_REQUIRED"}]
NoReport == [run |-> None, verdict |-> "none"]

Steps == {"idle", "lookup", "read", "claim", "mark", "query", "complete"}

\* The steps at which a caller has been given a run.
HoldsRun == {"mark", "query", "complete"}

\* The command a caller works on, the step its handler is at, and the run, the
\* workflow version and the classified result it holds.
Call ==
  [step: Steps, key: Keys \cup {None}, expected: Nat, approval: Nat,
   run: Runs \cup {None}, seen: Nat, result: TerminalStatuses]

IdleCall == [step |-> "idle", key |-> None, expected |-> 0, approval |-> 0,
             run |-> None, seen |-> 0, result |-> "OUTCOME_UNCERTAIN"]

TypeOK ==
  /\ status \in Statuses
  /\ version \in Nat
  /\ appended \in BOOLEAN
  /\ approval \in Nat
  /\ runs \in [Runs -> RunRow]
  /\ idem \in [Keys -> IdemRecord]
  /\ evidence \in Report \cup {NoReport}
  /\ cleanups \in Nat
  /\ call \in [Callers -> Call]
  /\ \A p \in Callers :
       /\ call[p].step # "idle" => call[p].key \in Keys
       /\ call[p].step \in HoldsRun => call[p].run \in Runs

Init ==
  /\ status = "EXECUTED"
  /\ version = 1
  /\ appended = TRUE
  /\ approval = 1
  /\ runs = [r \in Runs |-> NoRow]
  /\ idem = [k \in Keys |-> NoRecord]
  /\ evidence = NoReport
  /\ cleanups = Cleaners
  /\ call = [p \in Callers |-> IdleCall]

----------------------------------------------------------------------------
(* Control flow of a caller *)

At(p, step) == call[p].step = step
Goto(p, step) == call' = [call EXCEPT ![p].step = step]

\* The handler answers its client, with a result or with an error.
Respond(p) == call' = [call EXCEPT ![p] = IdleCall]

Recorded(k) == idem[k].run # None

Bump(artifact) == version' = version + 1 /\ appended' = artifact

\* The idempotency record of the key was written by this very command.
SameCommand(c) ==
  /\ idem[c.key].expected = c.expected
  /\ idem[c.key].approval = c.approval

----------------------------------------------------------------------------
(* validate() *)

\* A client posts /validate, or repeats it.
Submit(p) ==
  /\ At(p, "idle")
  /\ \E k \in Keys, b \in 1..approval,
        e \in 1..(IF Pipelined THEN version + 1 ELSE version) :
       call' = [call EXCEPT ![p] =
                  [IdleCall EXCEPT !.step = "lookup", !.key = k,
                                   !.expected = e, !.approval = b]]
  /\ UNCHANGED durableVars

\* get_validation_run_by_command: a terminal run is answered at once, an open
\* one is taken up.
Lookup(p) ==
  /\ At(p, "lookup")
  /\ LET c == call[p]
         r == idem[c.key].run IN
       \/ ~Recorded(c.key) /\ Goto(p, "read")
       \/ Recorded(c.key) /\ ~SameCommand(c) /\ Respond(p)
       \/ /\ Recorded(c.key) /\ SameCommand(c)
          /\ runs[r].status \in TerminalStatuses
          /\ Respond(p)
       \/ /\ Recorded(c.key) /\ SameCommand(c)
          /\ runs[r].status \notin TerminalStatuses
          /\ call' = [call EXCEPT ![p].step = "read", ![p].run = r]
  /\ UNCHANGED durableVars

\* Variant: the status is checked, the lineage is not.
ReadStatusOnly(p) ==
  /\ At(p, "read")
  /\ LET c == call[p] IN
       IF c.run # None \/ (c.expected = version => status = "EXECUTED")
         THEN call' = [call EXCEPT ![p].step = IF c.run = None THEN "claim" ELSE "mark",
                                   ![p].seen = version]
         ELSE Respond(p)
  /\ UNCHANGED durableVars

\* The row is read; for a new command, state and lineage are compared with the
\* latest only when the client named the version just read.
Read(p) ==
  /\ At(p, "read")
  /\ LET c == call[p] IN
       IF \/ c.run # None
          \/ c.expected = version => status = "EXECUTED" /\ c.approval = approval
         THEN call' = [call EXCEPT ![p].step = IF c.run = None THEN "claim" ELSE "mark",
                                   ![p].seen = version]
         ELSE Respond(p)
  /\ UNCHANGED durableVars

NoBlockingRun == \A r \in Runs : runs[r].status \notin BlockingStatuses

\* The number the plan artifact was given when the row was read is still free:
\* the row has not changed since, or its last change appended nothing.
ArtifactNumberFree(c) == c.seen = version \/ ~appended

ClaimAllowed(c) ==
  /\ c.expected = version
  /\ status = "EXECUTED"
  /\ ArtifactNumberFree(c)
  /\ NoBlockingRun

\* claim_validation_run, a new command: plan artifact, run, status, version and
\* record in one transaction under the row lock.
ClaimNew(p) ==
  /\ At(p, "claim")
  /\ ~Recorded(call[p].key)
  /\ ClaimAllowed(call[p])
  /\ \E r \in Runs :
       /\ runs[r].status = "ABSENT"
       /\ runs' = [runs EXCEPT ![r] =
                     [status |-> "CLAIMED", approval |-> call[p].approval,
                      expired |-> FALSE]]
       /\ idem' = [idem EXCEPT ![call[p].key] =
                     [expected |-> call[p].expected, approval |-> call[p].approval,
                      run |-> r]]
       /\ call' = [call EXCEPT ![p].step = "mark", ![p].run = r,
                               ![p].seen = version + 1]
  /\ status' = "VALIDATING"
  /\ Bump(TRUE)
  /\ UNCHANGED <<approval, evidence, cleanups>>

\* claim_validation_run, an exact replay: the recorded run comes back with the
\* workflow as it is now.
ClaimReplay(p) ==
  /\ At(p, "claim")
  /\ Recorded(call[p].key)
  /\ SameCommand(call[p])
  /\ call' = [call EXCEPT ![p].step = "mark", ![p].run = idem[call[p].key].run,
                          ![p].seen = version]
  /\ UNCHANGED durableVars

\* claim_validation_run, refused: the key belongs to another command, or it is
\* new and the claim is not allowed.
ClaimRefused(p) ==
  /\ At(p, "claim")
  /\ IF Recorded(call[p].key) THEN ~SameCommand(call[p]) ELSE ~ClaimAllowed(call[p])
  /\ Respond(p)
  /\ UNCHANGED durableVars

\* Variant: a caller that finds its run RUNNING queries as well.
MarkRunningAgain(p) ==
  /\ At(p, "mark")
  /\ runs[call[p].run].status \in {"CLAIMED", "RUNNING"}
  /\ runs' = [runs EXCEPT ![call[p].run].status = "RUNNING"]
  /\ Goto(p, "query")
  /\ UNCHANGED <<rowVars, approval, idem, evidence, cleanups>>

\* mark_validation_running: exactly one caller of the key runs the queries.
MarkRunning(p) ==
  /\ At(p, "mark")
  /\ runs[call[p].run].status = "CLAIMED"
  /\ runs' = [runs EXCEPT ![call[p].run].status = "RUNNING"]
  /\ Goto(p, "query")
  /\ UNCHANGED <<rowVars, approval, idem, evidence, cleanups>>

\* Variant: a run never expires.
MarkLostForever(p) ==
  /\ At(p, "mark")
  /\ runs[call[p].run].status # "CLAIMED"
  /\ Respond(p)
  /\ UNCHANGED durableVars

\* The right is taken: an expired run is closed as uncertain, any other is
\* reported as in progress.
MarkLost(p) ==
  /\ At(p, "mark")
  /\ runs[call[p].run].status # "CLAIMED"
  /\ IF runs[call[p].run].status = "RUNNING" /\ runs[call[p].run].expired
       THEN call' = [call EXCEPT ![p].step = "complete",
                                 ![p].result = "OUTCOME_UNCERTAIN"]
       ELSE Respond(p)
  /\ UNCHANGED durableVars

\* timeout_seconds pass since running_at.
Expire(r) ==
  /\ runs[r].status = "RUNNING"
  /\ ~runs[r].expired
  /\ runs' = [runs EXCEPT ![r].expired = TRUE]
  /\ UNCHANGED <<rowVars, approval, idem, evidence, cleanups, call>>

\* The queries and the reconciliation: passed, to be reviewed, or an exception
\* or a report that does not echo the claimed plan.
Query(p) ==
  /\ At(p, "query")
  /\ \E v \in TerminalStatuses :
       call' = [call EXCEPT ![p].step = "complete", ![p].result = v]
  /\ UNCHANGED durableVars

\* Variant: a run that must be reviewed is shown as validated.
StatusAfterOptimistic(result) ==
  IF result = "OUTCOME_UNCERTAIN" THEN "VALIDATION_RECOVERY_REQUIRED" ELSE "VALIDATED"

\* Variant: the run's status is written into the workflow row.
StatusAfterUnmapped(result) == result

\* The status a classified result moves the workflow to.
StatusAfter(result) ==
  CASE result = "SUCCEEDED" -> "VALIDATED"
    [] result = "REVIEW_REQUIRED" -> "VALIDATION_REVIEW_REQUIRED"
    [] OTHER -> "VALIDATION_RECOVERY_REQUIRED"

MayComplete(c) ==
  /\ c.seen = version
  /\ status = "VALIDATING"
  /\ runs[c.run].status = "RUNNING"

\* Variant: a report that is not trusted is put on record all the same.
CompleteKeepsUntrusted(p) ==
  /\ At(p, "complete")
  /\ MayComplete(call[p])
  /\ runs' = [runs EXCEPT ![call[p].run].status = call[p].result]
  /\ evidence' = [run |-> call[p].run,
                  verdict |-> IF call[p].result = "SUCCEEDED"
                                THEN "SUCCEEDED" ELSE "REVIEW_REQUIRED"]
  /\ status' = StatusAfter(call[p].result)
  /\ Bump(TRUE)
  /\ Respond(p)
  /\ UNCHANGED <<approval, idem, cleanups>>

\* complete_validation_run: report artifact, run, status and version together.
Complete(p) ==
  /\ At(p, "complete")
  /\ MayComplete(call[p])
  /\ runs' = [runs EXCEPT ![call[p].run].status = call[p].result]
  /\ evidence' = IF call[p].result = "OUTCOME_UNCERTAIN"
                   THEN evidence
                   ELSE [run |-> call[p].run, verdict |-> call[p].result]
  /\ status' = StatusAfter(call[p].result)
  /\ Bump(call[p].result # "OUTCOME_UNCERTAIN")
  /\ Respond(p)
  /\ UNCHANGED <<approval, idem, cleanups>>

CompleteConflict(p) ==
  /\ At(p, "complete")
  /\ ~MayComplete(call[p])
  /\ Respond(p)
  /\ UNCHANGED durableVars

\* The process of the caller dies.
Crash(p) ==
  /\ ~At(p, "idle")
  /\ Respond(p)
  /\ UNCHANGED durableVars

----------------------------------------------------------------------------
(* The other clients of the workflow row: see TargetExecution for what a   *)
(* pipelined command is checked against.                                   *)

OtherClient == version < MaxVersion

\* transition_status.
Transition(t) ==
  /\ OtherClient
  /\ t # status
  /\ Pipelined \/ MayRequest(status, t)
  /\ status' = t
  /\ Bump(FALSE)
  /\ UNCHANGED <<approval, runs, idem, evidence, cleanups, call>>

CanAppend ==
  /\ OtherClient
  /\ MayAppend(status) \/ (Pipelined /\ ~appended)

\* append_approved_mapping_plan.
AppendApproval ==
  /\ CanAppend
  /\ approval' = approval + 1
  /\ Bump(TRUE)
  /\ UNCHANGED <<status, runs, idem, evidence, cleanups, call>>

\* Any other artifact.
AppendOther ==
  /\ CanAppend
  /\ Bump(TRUE)
  /\ UNCHANGED <<status, approval, runs, idem, evidence, cleanups, call>>

\* A replay of execute() records the cleanup of its staging table, in whatever
\* status the workflow is by now.
RecordCleanup ==
  /\ cleanups > 0
  /\ cleanups' = cleanups - 1
  /\ Bump(TRUE)
  /\ UNCHANGED <<status, approval, runs, idem, evidence, call>>

----------------------------------------------------------------------------
Validate(p) ==
  \/ Lookup(p) \/ Read(p)
  \/ ClaimNew(p) \/ ClaimReplay(p) \/ ClaimRefused(p)
  \/ MarkRunning(p) \/ MarkLost(p)
  \/ Query(p)
  \/ Complete(p) \/ CompleteConflict(p)

Others ==
  \/ \E t \in Statuses : Transition(t)
  \/ AppendApproval \/ AppendOther \/ RecordCleanup

Faults == \E p \in Callers : Crash(p)

Faultless ==
  \/ \E p \in Callers : Submit(p) \/ Validate(p)
  \/ \E r \in Runs : Expire(r)
  \/ Others

Next == Faultless \/ Faults

Spec == Init /\ [][Next]_vars

----------------------------------------------------------------------------
(* Properties *)

Open == {"CLAIMED", "RUNNING"}

\* The workflow shows what its run found: VALIDATING exactly while the run is
\* open, VALIDATED only for a run that passed, a review only for one that did not.
RowShowsVerdict ==
  /\ status = "VALIDATING" <=> \E r \in Runs : runs[r].status \in Open
  /\ status = "VALIDATED" <=> \E r \in Runs : runs[r].status = "SUCCEEDED"
  /\ status = "VALIDATION_REVIEW_REQUIRED"
       <=> \E r \in Runs : runs[r].status = "REVIEW_REQUIRED"

\* While a run is open the plan it judges by is the latest approved.
OpenRunIsLatest ==
  \A r \in Runs : runs[r].status \in Open => runs[r].approval = approval

\* The workflow row and the runs, which are written in one transaction each but
\* read in several, are never seen out of step.
RowMatchesRuns == RowShowsVerdict /\ OpenRunIsLatest

----------------------------------------------------------------------------
(* Why there is one verdict: the facts the properties rest on.             *)

\* A workflow is judged by one run, whatever became of it.
OneRun ==
  \A a, b \in Runs :
    runs[a].status # "ABSENT" /\ runs[b].status # "ABSENT" => a = b

\* The report on record is the verdict of a run that ended with it, and a run
\* that ended with a verdict has its report on record.
ReportIsVerdict ==
  \A r \in Runs :
    /\ evidence.run = r => runs[r].status = evidence.verdict
    /\ runs[r].status \in {"SUCCEEDED", "REVIEW_REQUIRED"} => evidence.run = r

\* What a caller holds at its step is backed by the durable state.
Backed(c) ==
  /\ c.step \in HoldsRun => runs[c.run].status # "ABSENT"
  /\ c.step \in {"query", "complete"} => runs[c.run].status # "CLAIMED"
  /\ c.step = "read" /\ c.run # None => runs[c.run].status # "ABSENT"
  /\ c.step \in {"lookup", "claim"} => c.run = None

\* Two callers never run the queries of one run.
OneQuerier ==
  \A p, q \in Callers :
    At(p, "query") /\ At(q, "query") /\ call[p].run = call[q].run => p = q

\* The discipline of the run as a whole: inductive.
VerdictDiscipline ==
  /\ OneRun
  /\ ReportIsVerdict
  /\ \A k \in Keys : Recorded(k) => runs[idem[k].run].status # "ABSENT"
  /\ \A p \in Callers : Backed(call[p])
  /\ OneQuerier

----------------------------------------------------------------------------
(* Refinement *)

Reached(s) == \E r \in Runs : runs[r].status = s

\* What the runs have come to.
Judgement ==
  IF \E r \in Runs : runs[r].status \in Open THEN "pending"
  ELSE IF Reached("SUCCEEDED") THEN "passed"
  ELSE IF Reached("REVIEW_REQUIRED") THEN "review"
  ELSE IF Reached("OUTCOME_UNCERTAIN") THEN "unknown"
  ELSE "none"

\* The latest report, as its reader sees it.
ReportOnRecord ==
  CASE evidence.verdict = "SUCCEEDED" -> "passed"
    [] evidence.verdict = "REVIEW_REQUIRED" -> "review"
    [] OTHER -> "none"

Verdict == INSTANCE OneVerdict
  WITH judgement <- Judgement, report <- ReportOnRecord

\* Racing, expiring, replayed and dying callers together judge a migration once,
\* and no late answer overturns the verdict.
ImplementsOneVerdict == Verdict!Spec
=============================================================================
