--------------------------- MODULE MigrationJobs ---------------------------
(***************************************************************************)
(* The background jobs of one workflow: submission, notification, claim,   *)
(* the pipeline of MigrationJobPipelineProcessor and its classification of *)
(* every ending, over the migration_jobs table, the workflow row and a     *)
(* standard SQS queue.                                                     *)
(*                                                                         *)
(* A worker is a process that receives a notification (or polls the table),*)
(* claims the job and drives it through staging, preview, execution,       *)
(* cleanup and validation.  Each of these operations is modelled in full   *)
(* by a module of its own; here it is its claim and its completion on the  *)
(* workflow row.  Other clients of the API may change the row in between.  *)
(* A worker dies of a crash, of a lost database connection, or of an error *)
(* that no step of the pipeline catches, WorkflowConflictError above all:  *)
(* nothing is undone, and its process starts again with the next message.  *)
(*                                                                         *)
(* Operators introduced as a variant are not part of the model: each is a  *)
(* slip in the definition that follows it, and a property must notice it.  *)
(***************************************************************************)
EXTENDS Naturals, WorkflowStates

CONSTANTS
  Workers,      \* worker processes
  Jobs,         \* job identifiers, drawn by uuid_factory
  None,         \* no job
  MaxBatches,   \* bound on the batches of a load
  MaxForeign,   \* bound on the changes other clients make to the row
  Polling       \* TRUE: the workers of run_migration_worker.py run as well

ASSUME ConstantsAssumption ==
  /\ None \notin Jobs
  /\ MaxBatches \in Nat
  /\ MaxForeign \in Nat
  /\ Polling \in BOOLEAN

VARIABLES
  status,       \* migration_workflows.status
  version,      \* migration_workflows.version
  latest,       \* the version at which the latest artifact of a kind was appended
  operation,    \* the job whose claimed operation holds the row, or None
  jobs,         \* migration_jobs
  unpublished,  \* jobs whose notification is still to be sent by the API
  queue,        \* jobs whose notification is in the queue and not deleted
  statement,    \* target database: the fate of the job's INSERT ... SELECT
  foreign,      \* how many changes other clients have made
  work          \* the local state of each worker

rowVars == <<status, version, latest, operation, foreign>>
sqsVars == <<unpublished, queue>>
jobVars == <<jobs, unpublished, queue>>
vars == <<status, version, latest, operation, jobs, unpublished, queue,
          statement, foreign, work>>

----------------------------------------------------------------------------
(* Types *)

JobStatuses ==
  {"QUEUED", "RUNNING", "SUCCEEDED", "FAILED", "REVIEW_REQUIRED", "RECOVERY_REQUIRED"}
TerminalStatuses == {"SUCCEEDED", "FAILED", "REVIEW_REQUIRED", "RECOVERY_REQUIRED"}

\* The jobs that forbid another one: all but the failed.
ActiveStatuses == JobStatuses \ {"FAILED"}

JobStages == {"QUEUED", "PREPARING", "STAGING", "TRANSFORMING", "EXECUTING",
              "CLEANING_UP", "VALIDATING", "COMPLETED"}

\* ALLOWED_JOB_STAGE_TRANSITIONS: every stage has one successor.
NextStage ==
  [s \in JobStages \ {"COMPLETED"} |->
     CASE s = "QUEUED"       -> "PREPARING"
       [] s = "PREPARING"    -> "STAGING"
       [] s = "STAGING"      -> "TRANSFORMING"
       [] s = "TRANSFORMING" -> "EXECUTING"
       [] s = "EXECUTING"    -> "CLEANING_UP"
       [] s = "CLEANING_UP"  -> "VALIDATING"
       [] s = "VALIDATING"   -> "COMPLETED"]

JobRow == [status: JobStatuses \cup {"ABSENT"}, stage: JobStages,
           expected: Nat, batches: Nat]
NoRow == [status |-> "ABSENT", stage |-> "QUEUED", expected |-> 0, batches |-> 0]

Kinds == {"SOURCE_DISCOVERY", "APPROVED_MAPPING_PLAN"}

\* Before the claim a worker holds at most a message, after it the job.
FreeSteps == {"idle", "received", "claiming", "ack"}
PipelineSteps ==
  {"prepare", "advance", "stage", "claimstage", "load", "staged",
   "transform", "record", "execute", "claimexecute", "send", "await", "executed",
   "cleanup", "recordcleanup", "validate", "claimvalidate", "query", "validated",
   "finish"}

\* The job at hand and whether a message announced it, the stage and the
\* version of the workflow row the worker goes by, and the ending it is to record.
Work == [step: FreeSteps \cup PipelineSteps, job: Jobs \cup {None}, message: BOOLEAN,
         stage: JobStages, seen: Nat, outcome: TerminalStatuses]
IdleWork == [step |-> "idle", job |-> None, message |-> FALSE,
             stage |-> "QUEUED", seen |-> 0, outcome |-> "SUCCEEDED"]

\* The stages at which the pipeline takes a step.
StagesAt(step) ==
  CASE step = "prepare" -> {"PREPARING"}
    [] step = "advance" -> JobStages \ {"QUEUED", "VALIDATING", "COMPLETED"}
    [] step = "finish"  -> JobStages \ {"QUEUED", "COMPLETED"}
    [] step \in {"stage", "claimstage", "load", "staged"} -> {"STAGING"}
    [] step \in {"transform", "record"} -> {"TRANSFORMING"}
    [] step \in {"validate", "claimvalidate", "query", "validated"} -> {"VALIDATING"}
    [] OTHER -> {"EXECUTING"}

\* A worker that is not idle has a job, and in the pipeline a stage that fits.
Placed(c) ==
  /\ c.step # "idle" => c.job \in Jobs
  /\ c.step \in PipelineSteps => c.stage \in StagesAt(c.step)

Fates == {"unsent", "inflight", "committed", "rolledback"}

TypeOK ==
  /\ status \in Statuses
  /\ version \in Nat
  /\ latest \in [Kinds -> Nat]
  /\ operation \in Jobs \cup {None}
  /\ jobs \in [Jobs -> JobRow]
  /\ unpublished \subseteq Jobs
  /\ queue \subseteq Jobs
  /\ statement \in [Jobs -> Fates]
  /\ foreign \in Nat
  /\ work \in [Workers -> Work]
  /\ \A w \in Workers : Placed(work[w])

\* A workflow whose mapping has just been approved.
Init ==
  /\ status = "MAPPING_APPROVED"
  /\ version = 1
  /\ latest = [kind \in Kinds |-> 1]
  /\ operation = None
  /\ jobs = [j \in Jobs |-> NoRow]
  /\ unpublished = {}
  /\ queue = {}
  /\ statement = [j \in Jobs |-> "unsent"]
  /\ foreign = 0
  /\ work = [w \in Workers |-> IdleWork]

----------------------------------------------------------------------------
(* Submission and notification *)

\* create_migration_job for the current version and the latest artifacts, under
\* a key of its own.  A repetition under a recorded key returns the recorded job
\* and neither changes nor publishes anything.
Create(j) ==
  /\ jobs[j].status = "ABSENT"
  /\ status = "MAPPING_APPROVED"
  /\ \A i \in Jobs : jobs[i].status \notin ActiveStatuses
  /\ jobs' = [jobs EXCEPT ![j] = [NoRow EXCEPT !.status = "QUEUED", !.expected = version]]
  /\ unpublished' = unpublished \cup {j}
  /\ UNCHANGED <<rowVars, queue, statement, work>>

\* The job is in the table; its notification is sent afterwards.
Publish(j) ==
  /\ j \in unpublished
  /\ unpublished' = unpublished \ {j}
  /\ queue' = queue \cup {j}
  /\ UNCHANGED <<rowVars, jobs, statement, work>>

\* The send fails, or the API dies before it: nobody sends it again.
PublishLost(j) ==
  /\ j \in unpublished
  /\ unpublished' = unpublished \ {j}
  /\ UNCHANGED <<rowVars, jobs, queue, statement, work>>

----------------------------------------------------------------------------
(* A worker takes a job *)

At(w, step) == work[w].step = step
Goto(w, step) == work' = [work EXCEPT ![w].step = step]

\* The process dies, or an uncaught error ends it with exit code 1.
Die(w) == work' = [work EXCEPT ![w] = IdleWork]

\* Variant: the notification is deleted as soon as it is received.
ReceiveDeletes(w) ==
  /\ At(w, "idle")
  /\ \E j \in queue :
       /\ work' = [work EXCEPT ![w] =
                     [IdleWork EXCEPT !.step = "received", !.job = j, !.message = TRUE]]
       /\ queue' = queue \ {j}
  /\ UNCHANGED <<rowVars, jobs, unpublished, statement>>

\* receive_one: the queue delivers a notification that has not been deleted, as
\* often as it likes and to several workers at once.
Receive(w) ==
  /\ At(w, "idle")
  /\ \E j \in queue :
       work' = [work EXCEPT ![w] =
                  [IdleWork EXCEPT !.step = "received", !.job = j, !.message = TRUE]]
  /\ UNCHANGED <<rowVars, jobs, sqsVars, statement>>

\* A job row locked by a claim that has not committed is skipped.
Locked(j) == \E v \in Workers : At(v, "claiming") /\ work[v].job = j

\* Variant: the named job is claimed whatever its status.
LockAny(w) ==
  /\ At(w, "received")
  /\ ~Locked(work[w].job)
  /\ Goto(w, "claiming")
  /\ UNCHANGED <<rowVars, jobs, sqsVars, statement>>

\* claim_migration_job locks the row: FOR UPDATE SKIP LOCKED.
Lock(w) ==
  /\ At(w, "received")
  /\ jobs[work[w].job].status = "QUEUED"
  /\ ~Locked(work[w].job)
  /\ Goto(w, "claiming")
  /\ UNCHANGED <<rowVars, jobs, sqsVars, statement>>

\* Nothing to claim: the job has been claimed, is being claimed or has ended.
ClaimNothing(w) ==
  /\ At(w, "received")
  /\ jobs[work[w].job].status # "QUEUED" \/ Locked(work[w].job)
  /\ Goto(w, "ack")
  /\ UNCHANGED <<rowVars, jobs, sqsVars, statement>>

\* claim_next_migration_job locks the oldest queued job; a workflow has one.
Poll(w) ==
  /\ Polling
  /\ At(w, "idle")
  /\ \E j \in Jobs :
       /\ jobs[j].status = "QUEUED"
       /\ ~Locked(j)
       /\ work' = [work EXCEPT ![w] = [IdleWork EXCEPT !.step = "claiming", !.job = j]]
  /\ UNCHANGED <<rowVars, jobs, sqsVars, statement>>

\* The claim commits: RUNNING, PREPARING.
Claim(w) ==
  /\ At(w, "claiming")
  /\ jobs' = [jobs EXCEPT ![work[w].job].status = "RUNNING",
                          ![work[w].job].stage = "PREPARING"]
  /\ work' = [work EXCEPT ![w].step = "prepare", ![w].stage = "PREPARING"]
  /\ UNCHANGED <<rowVars, sqsVars, statement>>

\* The delivery is deleted once run() has returned, with a job or with None.
Acknowledge(w) ==
  /\ At(w, "ack")
  /\ queue' = queue \ {work[w].job}
  /\ Die(w)
  /\ UNCHANGED <<rowVars, jobs, unpublished, statement>>

----------------------------------------------------------------------------
(* The job row *)

\* The worker has learnt how the job ends and is about to record it.
Conclude(w, outcome) ==
  work' = [work EXCEPT ![w].step = "finish", ![w].outcome = outcome]

\* The step that follows an advance to a stage.  A job whose cleanup is not
\* confirmed is advanced to CLEANING_UP to be stopped there.
StepAt(stage, outcome) ==
  CASE stage = "STAGING"      -> "stage"
    [] stage = "TRANSFORMING" -> "transform"
    [] stage = "EXECUTING"    -> "execute"
    [] stage = "CLEANING_UP"  -> IF outcome = "RECOVERY_REQUIRED" THEN "finish" ELSE "advance"
    [] stage = "VALIDATING"   -> "validate"

\* update_migration_job_stage: only from the stage the worker goes by.
Advance(w) ==
  /\ At(w, "advance")
  /\ LET j == work[w].job
         next == NextStage[work[w].stage] IN
       IF jobs[j].status = "RUNNING" /\ jobs[j].stage = work[w].stage
         THEN /\ jobs' = [jobs EXCEPT ![j].stage = next]
              /\ work' = [work EXCEPT ![w].stage = next,
                                      ![w].step = StepAt(next, work[w].outcome)]
         ELSE Die(w) /\ UNCHANGED jobs
  /\ UNCHANGED <<rowVars, sqsVars, statement>>

\* finish_migration_job: once, and from the stage the worker goes by.  A success
\* completes the stages, any other ending keeps the stage it was met at.
Finish(w) ==
  /\ At(w, "finish")
  /\ LET j == work[w].job
         o == work[w].outcome IN
       IF jobs[j].status = "RUNNING" /\ jobs[j].stage = work[w].stage
         THEN /\ jobs' = [jobs EXCEPT ![j].status = o,
                             ![j].stage = IF o = "SUCCEEDED" THEN "COMPLETED" ELSE @]
              /\ IF work[w].message THEN Goto(w, "ack") ELSE Die(w)
         ELSE Die(w) /\ UNCHANGED jobs
  /\ UNCHANGED <<rowVars, sqsVars, statement>>

----------------------------------------------------------------------------
(* Staging *)

\* No artifact the job names has been replaced since it was submitted.
Fresh(j, kinds) == \A kind \in kinds : latest[kind] <= jobs[j].expected

\* The row moves on with a new version; the operation that holds it is now op.
Move(newStatus, op) ==
  /\ status' = newStatus
  /\ version' = version + 1
  /\ operation' = op
  /\ UNCHANGED <<latest, foreign>>

\* Variant: the stage is advanced after the load, not before.
PrepareSkipsAdvance(w) ==
  /\ At(w, "prepare")
  /\ LET j == work[w].job IN
       IF version = jobs[j].expected /\ status = "MAPPING_APPROVED"
         THEN Goto(w, "stage")
         ELSE Conclude(w, "FAILED")
  /\ UNCHANGED <<rowVars, jobVars, statement>>

\* _prepare: the row is still as it was when the job was submitted.
Prepare(w) ==
  /\ At(w, "prepare")
  /\ LET j == work[w].job IN
       IF /\ version = jobs[j].expected
          /\ status = "MAPPING_APPROVED"
          /\ Fresh(j, Kinds)
         THEN Goto(w, "advance")
         ELSE Conclude(w, "FAILED")
  /\ UNCHANGED <<rowVars, jobVars, statement>>

\* WorkflowTransportOrchestrator.run up to its claim.  A profile or a connector
\* that cannot be used fails the job as well.
CheckStaging(w) ==
  /\ At(w, "stage")
  /\ \/ /\ status = "MAPPING_APPROVED"
        /\ Fresh(work[w].job, Kinds)
        /\ Goto(w, "claimstage")
     \/ Conclude(w, "FAILED")
  /\ UNCHANGED <<rowVars, jobVars, statement>>

\* claim_transport_attempt; a conflict is caught by nobody.
ClaimStaging(w) ==
  /\ At(w, "claimstage")
  /\ IF version = jobs[work[w].job].expected /\ status = "MAPPING_APPROVED"
       THEN /\ Move("STAGING", work[w].job)
            /\ work' = [work EXCEPT ![w].step = "load", ![w].seen = version + 1]
       ELSE Die(w) /\ UNCHANGED rowVars
  /\ UNCHANGED <<jobVars, statement>>

\* update_migration_job_progress, after every confirmed batch.
ReportBatch(w) ==
  /\ At(w, "load")
  /\ LET j == work[w].job IN
       /\ jobs[j].status = "RUNNING" /\ jobs[j].stage = "STAGING"
       /\ jobs[j].batches < MaxBatches
       /\ jobs' = [jobs EXCEPT ![j].batches = @ + 1]
  /\ UNCHANGED <<rowVars, sqsVars, statement, work>>

\* The load ends: complete, dropped again, or unknown.  It is dropped also when
\* a report is refused, which takes no more than two batches on one clock tick.
LoadEnds(w) ==
  /\ At(w, "load")
  /\ \E o \in {"SUCCEEDED", "FAILED", "RECOVERY_REQUIRED"} :
       work' = [work EXCEPT ![w].step = "staged", ![w].outcome = o]
  /\ UNCHANGED <<rowVars, jobVars, statement>>

\* Variant: an ending of the job is taken for a status of the workflow.
AfterStagingUnmapped(o) == IF o = "SUCCEEDED" THEN "STAGED" ELSE o

\* The status of the workflow after a load that ended so.
AfterStaging(o) ==
  CASE o = "SUCCEEDED" -> "STAGED"
    [] o = "FAILED"    -> "MAPPING_APPROVED"
    [] OTHER           -> "STAGING_RECOVERY_REQUIRED"

\* complete_transport_attempt, and what the pipeline makes of it.
CompleteStaging(w) ==
  /\ At(w, "staged")
  /\ LET o == work[w].outcome IN
       IF version # work[w].seen
         THEN Die(w) /\ UNCHANGED rowVars
         ELSE /\ Move(AfterStaging(o), None)
              /\ IF o = "SUCCEEDED"
                   THEN work' = [work EXCEPT ![w].step = "advance", ![w].seen = version + 1]
                   ELSE Conclude(w, o)
  /\ UNCHANGED <<jobVars, statement>>

----------------------------------------------------------------------------
(* Preview and execution *)

\* preview_transformation up to its record.  A mapping that does not compile
\* fails the job as well; lineage is compared for the current version only.
CheckPreview(w) ==
  /\ At(w, "transform")
  /\ \/ /\ status = "STAGED"
        /\ version = work[w].seen => Fresh(work[w].job, {"APPROVED_MAPPING_PLAN"})
        /\ Goto(w, "record")
     \/ Conclude(w, "FAILED")
  /\ UNCHANGED <<rowVars, jobVars, statement>>

\* record_transformation_preview; a conflict is caught by nobody.
RecordPreview(w) ==
  /\ At(w, "record")
  /\ IF version = work[w].seen
       THEN /\ Move("EXECUTION_READY", None)
            /\ work' = [work EXCEPT ![w].step = "advance", ![w].seen = version + 1]
       ELSE Die(w) /\ UNCHANGED rowVars
  /\ UNCHANGED <<jobVars, statement>>

\* WorkflowExecutionOrchestrator.execute up to its claim: state and lineage of a
\* superseded version are left for the claim to refuse.
CheckExecution(w) ==
  /\ At(w, "execute")
  /\ \/ /\ \/ version # work[w].seen
           \/ /\ status = "EXECUTION_READY"
              /\ Fresh(work[w].job, {"APPROVED_MAPPING_PLAN"})
        /\ Goto(w, "claimexecute")
     \/ Conclude(w, "FAILED")
  /\ UNCHANGED <<rowVars, jobVars, statement>>

\* claim_execution_attempt.
ClaimExecution(w) ==
  /\ At(w, "claimexecute")
  /\ IF version = work[w].seen /\ status = "EXECUTION_READY"
       THEN /\ Move("EXECUTING", work[w].job)
            /\ work' = [work EXCEPT ![w].step = "send", ![w].seen = version + 1]
       ELSE Die(w) /\ UNCHANGED rowVars
  /\ UNCHANGED <<jobVars, statement>>

\* adapter.execute.
Send(w) ==
  /\ At(w, "send")
  /\ statement' = [statement EXCEPT ![work[w].job] = "inflight"]
  /\ Goto(w, "await")
  /\ UNCHANGED <<rowVars, jobVars>>

\* The target decides, whether or not the worker is still there.
Decide(j) ==
  /\ statement[j] = "inflight"
  /\ \E fate \in {"committed", "rolledback"} :
       statement' = [statement EXCEPT ![j] = fate]
  /\ UNCHANGED <<rowVars, jobVars, work>>

\* Variant: an exception of the adapter is a failure.
DispositionsOfErrors(j) ==
  {"FAILED"} \cup (IF statement[j] = "committed" THEN {"SUCCEEDED"} ELSE {})

\* What the adapter can know: a commit or a rollback that it has proof of, and
\* nothing after any other error.
Dispositions(j) ==
  {"RECOVERY_REQUIRED"}
    \cup (IF statement[j] = "committed" THEN {"SUCCEEDED"} ELSE {})
    \cup (IF statement[j] = "rolledback" THEN {"FAILED"} ELSE {})

Answer(w) ==
  /\ At(w, "await")
  /\ \E o \in Dispositions(work[w].job) :
       work' = [work EXCEPT ![w].step = "executed", ![w].outcome = o]
  /\ UNCHANGED <<rowVars, jobVars, statement>>

\* complete_execution_attempt, and what the pipeline makes of it.
CompleteExecution(w) ==
  /\ At(w, "executed")
  /\ LET o == work[w].outcome IN
       IF version # work[w].seen
         THEN Die(w) /\ UNCHANGED rowVars
         ELSE /\ Move(CASE o = "SUCCEEDED" -> "EXECUTED"
                        [] o = "FAILED"    -> "EXECUTION_READY"
                        [] OTHER           -> "EXECUTION_RECOVERY_REQUIRED", None)
              /\ IF o = "SUCCEEDED" THEN Goto(w, "cleanup") ELSE Conclude(w, o)
  /\ UNCHANGED <<jobVars, statement>>

----------------------------------------------------------------------------
(* Cleanup and validation *)

\* The staging table is dropped and the row is read again; an error, and a
\* missing cleanup service, leave the cleanup unconfirmed.
Cleanup(w) ==
  /\ At(w, "cleanup")
  /\ \/ work' = [work EXCEPT ![w].step = "recordcleanup", ![w].seen = version]
     \/ work' = [work EXCEPT ![w].step = "advance", ![w].outcome = "RECOVERY_REQUIRED"]
  /\ UNCHANGED <<rowVars, jobVars, statement>>

\* record_staging_cleanup, in whatever status the row is by now.
RecordCleanup(w) ==
  /\ At(w, "recordcleanup")
  /\ IF version = work[w].seen
       THEN /\ Move(status, operation)
            /\ work' = [work EXCEPT ![w].step = "advance", ![w].seen = version + 1]
       ELSE Die(w) /\ UNCHANGED rowVars
  /\ UNCHANGED <<jobVars, statement>>

\* WorkflowValidationOrchestrator.validate up to its claim.
CheckValidation(w) ==
  /\ At(w, "validate")
  /\ LET current == version = work[w].seen
         pending == status \in {"VALIDATING", "EXECUTION_RECOVERY_REQUIRED"} IN
       \/ /\ current => /\ status = "EXECUTED"
                        /\ Fresh(work[w].job, {"APPROVED_MAPPING_PLAN"})
          /\ Goto(w, "claimvalidate")
       \/ current /\ pending /\ Conclude(w, "RECOVERY_REQUIRED")
       \/ ~(current /\ pending) /\ Conclude(w, "REVIEW_REQUIRED")
  /\ UNCHANGED <<rowVars, jobVars, statement>>

\* claim_validation_run.
ClaimValidation(w) ==
  /\ At(w, "claimvalidate")
  /\ IF version = work[w].seen /\ status = "EXECUTED"
       THEN /\ Move("VALIDATING", work[w].job)
            /\ work' = [work EXCEPT ![w].step = "query", ![w].seen = version + 1]
       ELSE Die(w) /\ UNCHANGED rowVars
  /\ UNCHANGED <<jobVars, statement>>

\* The paired queries: the aggregates agree, differ, or could not be compared.
Query(w) ==
  /\ At(w, "query")
  /\ \E o \in {"SUCCEEDED", "REVIEW_REQUIRED", "RECOVERY_REQUIRED"} :
       work' = [work EXCEPT ![w].step = "validated", ![w].outcome = o]
  /\ UNCHANGED <<rowVars, jobVars, statement>>

\* Variant: a report is a success, whatever it says.
CompleteValidationTrusting(w) ==
  /\ At(w, "validated")
  /\ LET o == work[w].outcome IN
       IF version # work[w].seen
         THEN Die(w) /\ UNCHANGED rowVars
         ELSE /\ Move(IF o = "SUCCEEDED" THEN "VALIDATED" ELSE "VALIDATION_REVIEW_REQUIRED", None)
              /\ Conclude(w, IF o = "RECOVERY_REQUIRED" THEN o ELSE "SUCCEEDED")
  /\ UNCHANGED <<jobVars, statement>>

\* complete_validation_run, and what the pipeline makes of it.
CompleteValidation(w) ==
  /\ At(w, "validated")
  /\ LET o == work[w].outcome IN
       IF version # work[w].seen
         THEN Die(w) /\ UNCHANGED rowVars
         ELSE /\ Move(CASE o = "SUCCEEDED"       -> "VALIDATED"
                        [] o = "REVIEW_REQUIRED" -> "VALIDATION_REVIEW_REQUIRED"
                        [] OTHER                 -> "VALIDATION_RECOVERY_REQUIRED", None)
              /\ Goto(w, "finish")
  /\ UNCHANGED <<jobVars, statement>>

----------------------------------------------------------------------------
(* Other clients, and the system *)

\* Other clients withdraw the workflow or run its operations themselves, while no
\* operation of a job holds the row.
ForeignMove ==
  /\ foreign < MaxForeign
  /\ operation = None
  /\ status' \in AllowedTransitions[status]
  /\ version' = version + 1
  /\ foreign' = foreign + 1
  /\ UNCHANGED <<latest, operation, jobVars, statement, work>>

\* Other clients append an artifact: a discovery, an approval, or one of a kind
\* the jobs do not name.
ForeignAppend ==
  /\ foreign < MaxForeign
  /\ MayAppend(status)
  /\ \E replaced \in {{}} \cup {{kind} : kind \in Kinds} :
       latest' = [kind \in Kinds |-> IF kind \in replaced THEN version + 1 ELSE latest[kind]]
  /\ version' = version + 1
  /\ foreign' = foreign + 1
  /\ UNCHANGED <<status, operation, jobVars, statement, work>>

Crash(w) ==
  /\ ~At(w, "idle")
  /\ Die(w)
  /\ UNCHANGED <<rowVars, jobVars, statement>>

Take(w) == Lock(w) \/ ClaimNothing(w) \/ Claim(w)

Process(w) ==
  \/ Prepare(w) \/ Advance(w)
  \/ CheckStaging(w) \/ ClaimStaging(w) \/ ReportBatch(w) \/ LoadEnds(w)
  \/ CompleteStaging(w)
  \/ CheckPreview(w) \/ RecordPreview(w)
  \/ CheckExecution(w) \/ ClaimExecution(w) \/ Send(w) \/ Answer(w)
  \/ CompleteExecution(w)
  \/ Cleanup(w) \/ RecordCleanup(w)
  \/ CheckValidation(w) \/ ClaimValidation(w) \/ Query(w) \/ CompleteValidation(w)
  \/ Finish(w) \/ Acknowledge(w)

Next ==
  \/ \E j \in Jobs : Create(j) \/ Publish(j) \/ PublishLost(j) \/ Decide(j)
  \/ \E w \in Workers : Receive(w) \/ Poll(w) \/ Take(w) \/ Process(w) \/ Crash(w)
  \/ ForeignMove \/ ForeignAppend

Spec == Init /\ [][Next]_vars

----------------------------------------------------------------------------
(* Properties *)

Holds(w, j) == work[w].job = j /\ work[w].step \in PipelineSteps

\* A job is driven by one worker at most, which goes by the stage in the table,
\* however often its notification is delivered and whoever dies; only a running
\* job is driven; and a claim under way is of a queued job and the only one.
OneDriver ==
  \A j \in Jobs :
    /\ \A w \in Workers : Holds(w, j) => jobs[j].status = "RUNNING"
                                       /\ jobs[j].stage = work[w].stage
    /\ \A v, w \in Workers : Holds(v, j) /\ Holds(w, j) => v = w
    /\ \A v, w \in Workers :
         /\ At(v, "claiming") /\ work[v].job = j => jobs[j].status = "QUEUED"
         /\ At(v, "claiming") /\ At(w, "claiming") /\ work[v].job = work[w].job => v = w

\* What may have become of the statement of a job that ends or ended so.
FatesOf(outcome) ==
  CASE outcome = "SUCCEEDED" -> {"committed"}
    [] outcome = "FAILED"    -> {"unsent", "rolledback"}
    [] OTHER                 -> Fates

\* What may have become of it when a worker is at a step.
FatesAt(c) ==
  CASE c.step \in {"executed", "finish"} -> FatesOf(c.outcome)
    [] c.step = "await" -> Fates \ {"unsent"}
    [] c.step = "validated" -> {"committed"} \cap FatesOf(c.outcome)
    [] \/ c.step \in {"cleanup", "recordcleanup", "validate", "claimvalidate", "query"}
       \/ c.step = "advance" /\ c.stage \in {"EXECUTING", "CLEANING_UP"} -> {"committed"}
    [] OTHER -> {"unsent"}

\* The statement of a job is sent once, by its driver, and what the job shows of
\* it is true: a failed job has none that was or will be committed.
StatementMatches ==
  /\ \A w \in Workers :
       work[w].step \in PipelineSteps => statement[work[w].job] \in FatesAt(work[w])
  /\ \A j \in Jobs :
       statement[j] \in IF jobs[j].status \in {"ABSENT", "QUEUED"}
                          THEN {"unsent"} ELSE FatesOf(jobs[j].status)

\* Both together are inductive: whoever receives, polls, repeats or dies, a job has
\* one driver, its statement is sent once, and its ending is true of the statement.
JobDiscipline == OneDriver /\ StatementMatches

\* While an operation of a job holds the workflow row, also after its worker died,
\* the job is shown as running and at the stage of that operation: whoever finds
\* the row stuck finds the job that holds it, and what it was doing.
StageShowsOperation ==
  \A j \in Jobs :
    operation = j =>
      /\ jobs[j].status = "RUNNING"
      /\ status = jobs[j].stage

\* A job that succeeded left a validated workflow, and its own rows in the target.
SuccessIsOnTheRow ==
  \A j \in Jobs :
    jobs[j].status = "SUCCEEDED" => status = "VALIDATED" /\ statement[j] = "committed"

\* The jobs and the workflow row, which a worker changes in transactions of their
\* own, tell the same story whoever dies in between.
RowMatchesJobs == StageShowsOperation /\ SuccessIsOnTheRow

\* What the table shows of a job, as the ledger has it.
RecordOf(j) ==
  CASE jobs[j].status = "ABSENT"                 -> "absent"
    [] jobs[j].status \in {"QUEUED", "RUNNING"}  -> "open"
    [] jobs[j].status = "FAILED"                 -> "failed"
    [] jobs[j].status = "SUCCEEDED"              -> "done"
    [] OTHER                                     -> "held"

Ledger == INSTANCE JobLedger
  WITH record  <- [j \in Jobs |-> RecordOf(j)],
       written <- {j \in Jobs : statement[j] = "committed"}

\* The jobs of a workflow keep the promises of a job ledger: a failed job never
\* writes, not even late, so that the next job cannot write the rows again.
ImplementsLedger == Ledger!Spec

\* A notification is deleted only when its job has ended or a worker is on it, so
\* that a job whose worker failed is delivered again.
AckedMeansHandled ==
  [][\A j \in Jobs :
       j \in queue /\ j \notin queue' =>
         \/ jobs[j].status \in TerminalStatuses
         \/ \E w \in Workers : work[w].job = j /\ work[w].step \in {"claiming"} \cup PipelineSteps
    ]_vars
=============================================================================
