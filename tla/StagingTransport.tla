-------------------------- MODULE StagingTransport --------------------------
(***************************************************************************)
(* The staging load: WorkflowTransportOrchestrator and the profile-bound   *)
(* batch transport, over the workflow row, the transport attempts and the  *)
(* idempotency records, and over the managed staging tables at the target, *)
(* one per attempt.                                                        *)
(*                                                                         *)
(* One workflow is followed from MAPPING_APPROVED until its transformation *)
(* is previewed; versions are counted from there.  A caller is one         *)
(* activation of run() in a process of its own.                            *)
(*                                                                         *)
(* Operators introduced as a variant are not part of the model.            *)
(***************************************************************************)
EXTENDS Naturals, WorkflowStates

CONSTANTS
  Callers,        \* concurrent activations of run()
  Keys,           \* Idempotency-Key values
  Attempts,       \* attempt identifiers, which name the staging tables
  None,           \* no attempt, no key
  Batches,        \* how many batches the source table is read in
  MaxVersion,     \* bound on what clients other than run() may bump
  Pipelined,      \* TRUE: a client may name the version its previous command,
                  \* still unanswered, is about to produce
  LateStatements, \* TRUE: the target may still apply a statement the connector
                  \* has given up on
  MayCrash        \* TRUE: callers may die

ASSUME TransportConstants ==
  /\ None \notin Attempts
  /\ None \notin Keys
  /\ Batches \in Nat
  /\ MaxVersion \in Nat
  /\ Pipelined \in BOOLEAN
  /\ LateStatements \in BOOLEAN
  /\ MayCrash \in BOOLEAN

VARIABLES
  status,    \* migration_workflows.status
  version,   \* migration_workflows.version
  appended,  \* the last change of the row moved latest_artifact_version
  approval,  \* number of the latest APPROVED_MAPPING_PLAN artifact
  attempts,  \* migration_transport_attempts
  idem,      \* migration_idempotency, scope <workflow>:TRANSPORT
  evidence,  \* the attempt of the latest STAGING_LOAD_EVIDENCE artifact
  tables,    \* target database: the managed staging tables
  late,      \* target database: an abandoned statement it may still apply
  call       \* the local state of each caller

rowVars     == <<status, version, appended>>
controlVars == <<status, version, appended, approval, attempts, idem, evidence>>
targetVars  == <<tables, late>>
vars == <<status, version, appended, approval, attempts, idem, evidence,
          tables, late, call>>

----------------------------------------------------------------------------
(* Types *)

AttemptStatuses ==
  {"CLAIMED", "RUNNING", "SUCCEEDED", "FAILED_CLEANED_UP", "OUTCOME_UNCERTAIN"}
TerminalStatuses == {"SUCCEEDED", "FAILED_CLEANED_UP", "OUTCOME_UNCERTAIN"}

\* The attempts that forbid another claim, in claim_transport_attempt's query.
BlockingStatuses == {"CLAIMED", "RUNNING", "SUCCEEDED", "OUTCOME_UNCERTAIN"}

Attempt == [status: AttemptStatuses \cup {"ABSENT"}, approval: Nat]
NoRow == [status |-> "ABSENT", approval |-> 0]

IdemRecord == [expected: Nat, approval: Nat, attempt: Attempts \cup {None}]
NoRecord == [expected |-> 0, approval |-> 0, attempt |-> None]

\* A staging table: whether it exists and how many batches it holds.
Table == [exists: BOOLEAN, batches: Nat]
NoTable == [exists |-> FALSE, batches |-> 0]
WholeTable == [exists |-> TRUE, batches |-> Batches]

Steps == {"idle", "lookup", "check", "claim", "mark",
          "create", "load", "drop", "complete"}

\* The command a caller works on, the step its handler is at, and the attempt,
\* the workflow version, the batch count and the classified result it holds.
Call ==
  [step: Steps, key: Keys \cup {None}, expected: Nat, approval: Nat,
   attempt: Attempts \cup {None}, seen: Nat, batch: Nat, result: TerminalStatuses]

IdleCall == [step |-> "idle", key |-> None, expected |-> 0, approval |-> 0,
             attempt |-> None, seen |-> 0, batch |-> 0,
             result |-> "OUTCOME_UNCERTAIN"]

TypeOK ==
  /\ status \in Statuses
  /\ version \in Nat
  /\ appended \in BOOLEAN
  /\ approval \in Nat
  /\ attempts \in [Attempts -> Attempt]
  /\ idem \in [Keys -> IdemRecord]
  /\ evidence \in Attempts \cup {None}
  /\ tables \in [Attempts -> Table]
  /\ late \in [Attempts -> {"none", "create", "insert"}]
  /\ call \in [Callers -> Call]
  /\ \A p \in Callers : call[p].step # "idle" => call[p].key \in Keys

Init ==
  /\ status = "MAPPING_APPROVED"
  /\ version = 1
  /\ appended = TRUE
  /\ approval = 1
  /\ attempts = [a \in Attempts |-> NoRow]
  /\ idem = [k \in Keys |-> NoRecord]
  /\ evidence = None
  /\ tables = [a \in Attempts |-> NoTable]
  /\ late = [a \in Attempts |-> "none"]
  /\ call = [p \in Callers |-> IdleCall]

----------------------------------------------------------------------------
(* Control flow of a caller *)

At(p, step) == call[p].step = step
Goto(p, step) == call' = [call EXCEPT ![p].step = step]
Finish(p, result) ==
  call' = [call EXCEPT ![p].step = "complete", ![p].result = result]

\* The handler answers its client, with a result or with an error.
Respond(p) == call' = [call EXCEPT ![p] = IdleCall]

Recorded(k) == idem[k].attempt # None

Bump(artifact) == version' = version + 1 /\ appended' = artifact

----------------------------------------------------------------------------
(* run(): claim *)

\* A client posts /load-staging, or repeats it.
Submit(p) ==
  /\ At(p, "idle")
  /\ \E k \in Keys, b \in 1..approval,
        e \in 1..(IF Pipelined THEN version + 1 ELSE version) :
       call' = [call EXCEPT ![p] =
                  [IdleCall EXCEPT !.step = "lookup", !.key = k,
                                   !.expected = e, !.approval = b]]
  /\ UNCHANGED <<controlVars, targetVars>>

\* get_transport_attempt_by_command: a recorded key is answered at once, with
\* the outcome, as in progress, or as a conflict.
Lookup(p) ==
  /\ At(p, "lookup")
  /\ IF Recorded(call[p].key) THEN Respond(p) ELSE Goto(p, "check")
  /\ UNCHANGED <<controlVars, targetVars>>

\* Variant: the lineage is not checked.
CheckStatusOnly(p) ==
  /\ At(p, "check")
  /\ IF status = "MAPPING_APPROVED" THEN Goto(p, "claim") ELSE Respond(p)
  /\ UNCHANGED <<controlVars, targetVars>>

\* The checks of run() before the claim, whatever version the client named.
Check(p) ==
  /\ At(p, "check")
  /\ IF status = "MAPPING_APPROVED" /\ call[p].approval = approval
       THEN Goto(p, "claim")
       ELSE Respond(p)
  /\ UNCHANGED <<controlVars, targetVars>>

NoBlockingAttempt == \A a \in Attempts : attempts[a].status \notin BlockingStatuses

\* claim_transport_attempt, a new command: one transaction under the row lock.
ClaimNew(p) ==
  /\ At(p, "claim")
  /\ ~Recorded(call[p].key)
  /\ call[p].expected = version
  /\ status = "MAPPING_APPROVED"
  /\ NoBlockingAttempt
  /\ \E a \in Attempts :
       /\ attempts[a].status = "ABSENT"
       /\ attempts' = [attempts EXCEPT ![a] =
                         [status |-> "CLAIMED", approval |-> call[p].approval]]
       /\ idem' = [idem EXCEPT ![call[p].key] =
                     [expected |-> call[p].expected, approval |-> call[p].approval,
                      attempt |-> a]]
       /\ call' = [call EXCEPT ![p].step = "mark", ![p].attempt = a,
                               ![p].seen = version + 1]
  /\ status' = "STAGING"
  /\ Bump(FALSE)
  /\ UNCHANGED <<approval, evidence, targetVars>>

\* Variant: a caller that finds the attempt of its key goes on with it.
ClaimReplayGoesOn(p) ==
  /\ At(p, "claim")
  /\ IF Recorded(call[p].key)
       THEN call' = [call EXCEPT ![p].step = "mark", ![p].seen = version,
                                 ![p].attempt = idem[call[p].key].attempt]
       ELSE /\ \/ call[p].expected # version
               \/ status # "MAPPING_APPROVED"
               \/ ~NoBlockingAttempt
            /\ Respond(p)
  /\ UNCHANGED <<controlVars, targetVars>>

\* The claim is refused, or replays the attempt of another caller: only the
\* caller that created the attempt goes on with it.
ClaimNotAcquired(p) ==
  /\ At(p, "claim")
  /\ \/ Recorded(call[p].key)
     \/ call[p].expected # version
     \/ status # "MAPPING_APPROVED"
     \/ ~NoBlockingAttempt
  /\ Respond(p)
  /\ UNCHANGED <<controlVars, targetVars>>

\* mark_transport_running.
MarkRunning(p) ==
  /\ At(p, "mark")
  /\ IF attempts[call[p].attempt].status = "CLAIMED"
       THEN /\ attempts' = [attempts EXCEPT ![call[p].attempt].status = "RUNNING"]
            /\ Goto(p, "create")
       ELSE UNCHANGED attempts /\ Respond(p)
  /\ UNCHANGED <<rowVars, approval, idem, evidence, targetVars>>

----------------------------------------------------------------------------
(* run(): the load.  Every remote statement is a transaction of its own.   *)

\* Variant: one staging table for all loads of the workflow.
TableOfWorkflow(a) == CHOOSE b \in Attempts : TRUE

\* staging_relation: the table is named after the transport attempt.
TableOf(a) == a

Created(t) == [tables EXCEPT ![t] = [exists |-> TRUE, batches |-> @.batches]]
Inserted(t) == [tables EXCEPT ![t] = [exists |-> @.exists, batches |-> @.batches + 1]]
Dropped(t) == [tables EXCEPT ![t] = NoTable]

\* prepare_staging_table: CREATE TABLE, which never overwrites.
CreateTable(p) ==
  /\ At(p, "create")
  /\ ~tables[TableOf(call[p].attempt)].exists
  /\ tables' = Created(TableOf(call[p].attempt))
  /\ Goto(p, "load")
  /\ UNCHANGED <<controlVars, late>>

\* write_batch: the whole batch is confirmed, then counted.
WriteBatch(p) ==
  /\ At(p, "load")
  /\ call[p].batch < Batches
  /\ tables[TableOf(call[p].attempt)].exists
  /\ tables' = Inserted(TableOf(call[p].attempt))
  /\ call' = [call EXCEPT ![p].batch = @ + 1]
  /\ UNCHANGED <<controlVars, late>>

\* The source is exhausted.
LoadDone(p) ==
  /\ At(p, "load")
  /\ call[p].batch = Batches
  /\ Finish(p, "SUCCEEDED")
  /\ UNCHANGED <<controlVars, targetVars>>

\* The effect of the statement a caller is at, if the target applies it.
Applied(p) ==
  CASE At(p, "create") -> Created(TableOf(call[p].attempt))
    [] At(p, "load") /\ call[p].batch < Batches -> Inserted(TableOf(call[p].attempt))
    [] OTHER -> tables

\* Reading, writing or reporting a batch raises.  The statement under way was
\* applied, was not applied, or is still going to be.
LoadFails(p) ==
  /\ At(p, "create") \/ At(p, "load")
  /\ \/ tables' \in {tables, Applied(p)} /\ UNCHANGED late
     \/ /\ LateStatements
        /\ Applied(p) # tables
        /\ late' = [late EXCEPT ![TableOf(call[p].attempt)] =
                      IF At(p, "create") THEN "create" ELSE "insert"]
        /\ UNCHANGED tables
  /\ Goto(p, "drop")
  /\ UNCHANGED controlVars

\* An abandoned statement takes effect after all.
Lands(t) ==
  /\ late[t] # "none"
  /\ late' = [late EXCEPT ![t] = "none"]
  /\ tables' = CASE late[t] = "create" -> Created(t)
                 [] late[t] = "insert" /\ tables[t].exists -> Inserted(t)
                 [] OTHER -> tables
  /\ UNCHANGED <<controlVars, call>>

\* DROP TABLE IF EXISTS proves the cleanup.
DropTable(p) ==
  /\ At(p, "drop")
  /\ tables' = Dropped(TableOf(call[p].attempt))
  /\ Finish(p, "FAILED_CLEANED_UP")
  /\ UNCHANGED <<controlVars, late>>

\* Variant: the outcome of the drop is not looked at.
DropFailsUnnoticed(p) ==
  /\ At(p, "drop")
  /\ tables' \in {tables, Dropped(TableOf(call[p].attempt))}
  /\ Finish(p, "FAILED_CLEANED_UP")
  /\ UNCHANGED <<controlVars, late>>

\* The drop raises: nothing is proved.
DropFails(p) ==
  /\ At(p, "drop")
  /\ tables' \in {tables, Dropped(TableOf(call[p].attempt))}
  /\ Finish(p, "OUTCOME_UNCERTAIN")
  /\ UNCHANGED <<controlVars, late>>

\* The transport service raises outside the load it guards.
RunRaises(p) ==
  /\ At(p, "create")
  /\ Finish(p, "OUTCOME_UNCERTAIN")
  /\ UNCHANGED <<controlVars, targetVars>>

----------------------------------------------------------------------------
(* run(): completion *)

\* Variant: the attempt's status is written into the workflow row.
StatusAfterUnmapped(result) == result

\* _complete: the status a classified result moves the workflow to.
StatusAfter(result) ==
  CASE result = "SUCCEEDED" -> "STAGED"
    [] result = "FAILED_CLEANED_UP" -> "MAPPING_APPROVED"
    [] OTHER -> "STAGING_RECOVERY_REQUIRED"

\* complete_transport_attempt: attempt, status, version and, for a success, the
\* evidence artifact together.
Complete(p) ==
  /\ At(p, "complete")
  /\ call[p].seen = version
  /\ status = "STAGING"
  /\ attempts[call[p].attempt].status = "RUNNING"
  /\ attempts' = [attempts EXCEPT ![call[p].attempt].status = call[p].result]
  /\ evidence' = IF call[p].result = "SUCCEEDED" THEN call[p].attempt ELSE evidence
  /\ status' = StatusAfter(call[p].result)
  /\ Bump(call[p].result = "SUCCEEDED")
  /\ Respond(p)
  /\ UNCHANGED <<approval, idem, targetVars>>

CompleteConflict(p) ==
  /\ At(p, "complete")
  /\ \/ call[p].seen # version
     \/ status # "STAGING"
     \/ attempts[call[p].attempt].status # "RUNNING"
  /\ Respond(p)
  /\ UNCHANGED <<controlVars, targetVars>>

\* The process of the caller dies.
Crash(p) ==
  /\ MayCrash
  /\ ~At(p, "idle")
  /\ Respond(p)
  /\ UNCHANGED <<controlVars, targetVars>>

----------------------------------------------------------------------------
(* The other clients of the workflow row: see TargetExecution for what a   *)
(* pipelined command is checked against.                                   *)

OtherClient == version < MaxVersion

\* transition_status.
Transition(t) ==
  /\ OtherClient
  /\ t # status
  /\ Pipelined \/ MayRequest(status, t)
  /\ status' = t
  /\ Bump(FALSE)
  /\ UNCHANGED <<approval, attempts, idem, evidence, targetVars, call>>

CanAppend ==
  /\ OtherClient
  /\ MayAppend(status) \/ (Pipelined /\ ~appended)

\* append_approved_mapping_plan.
AppendApproval ==
  /\ CanAppend
  /\ approval' = approval + 1
  /\ Bump(TRUE)
  /\ UNCHANGED <<status, attempts, idem, evidence, targetVars, call>>

\* Any other artifact.
AppendOther ==
  /\ CanAppend
  /\ Bump(TRUE)
  /\ UNCHANGED <<status, approval, attempts, idem, evidence, targetVars, call>>

\* The plan a staged workflow may be previewed for: the latest approval, and
\* the one the staging evidence names.
StagedPlanIsLatest == evidence # None /\ attempts[evidence].approval = approval

\* preview_transformation, naming the latest approval.
Preview ==
  /\ OtherClient
  /\ \/ status = "MAPPING_APPROVED"
     \/ status = "STAGED" /\ StagedPlanIsLatest
  /\ status' = "EXECUTION_READY"
  /\ Bump(TRUE)
  /\ UNCHANGED <<approval, attempts, idem, evidence, targetVars, call>>

----------------------------------------------------------------------------
Remote(p) ==
  \/ CreateTable(p) \/ WriteBatch(p) \/ LoadDone(p)
  \/ LoadFails(p) \/ DropTable(p) \/ DropFails(p) \/ RunRaises(p)

Run(p) ==
  \/ Lookup(p) \/ Check(p)
  \/ ClaimNew(p) \/ ClaimNotAcquired(p) \/ MarkRunning(p)
  \/ Remote(p)
  \/ Complete(p) \/ CompleteConflict(p)

Others ==
  \/ \E t \in Statuses : Transition(t)
  \/ AppendApproval \/ AppendOther \/ Preview

Next ==
  \/ \E p \in Callers : Submit(p) \/ Run(p) \/ Crash(p)
  \/ \E t \in Attempts : Lands(t)
  \/ Others

Spec == Init /\ [][Next]_vars

\* A handler that is alive runs to its answer: synchronous code, with timeouts
\* on every remote call.  Nobody is obliged to issue a command.
LiveSpec == Spec /\ \A p \in Callers : WF_vars(Run(p))

----------------------------------------------------------------------------
(* Properties *)

\* A load that is reported as cleaned up left nothing behind; at the worst the
\* empty table of a CREATE that the target carried out after the DROP.
CleanedUpMeansGone ==
  \A a \in Attempts :
    attempts[a].status = "FAILED_CLEANED_UP" =>
      \/ ~tables[TableOf(a)].exists
      \/ LateStatements /\ tables[TableOf(a)].batches = 0

\* No load works beside the remains of another: whatever callers race, fail and
\* die, and whatever the target carries out late, one table at most holds rows.
OneTableWithRows ==
  \A a, b \in Attempts : tables[a].batches > 0 /\ tables[b].batches > 0 => a = b

\* STAGING is shown exactly while one attempt is open.
OpenLoadMatchesStatus ==
  status = "STAGING" <=>
    \E a \in Attempts : attempts[a].status \in {"CLAIMED", "RUNNING"}

\* The workflow row and the attempts agree, and the attempts and the target.
RowMatchesLoads == CleanedUpMeansGone /\ OneTableWithRows /\ OpenLoadMatchesStatus

\* No load is claimed for an approval that has been superseded.
ClaimsLatestApproval ==
  [][\A a \in Attempts :
       attempts[a].status = "ABSENT" /\ attempts'[a].status = "CLAIMED"
         => attempts'[a].approval = approval]_vars

\* A proved cleanup returns the workflow to MAPPING_APPROVED: the attempt does
\* not stay open.
ProvedCleanupReturns ==
  \A p \in Callers :
    At(p, "complete") /\ call[p].result = "FAILED_CLEANED_UP"
      ~> status # "STAGING"

----------------------------------------------------------------------------
(* Why a certified copy is whole: the facts the safety properties rest on. *)

OneBlockingAttempt ==
  \A a, b \in Attempts :
    /\ attempts[a].status \in BlockingStatuses
    /\ attempts[b].status \in BlockingStatuses
    => a = b

\* Evidence is on record for the attempt that succeeded, and for no other.
EvidenceNamesSuccess ==
  \A a \in Attempts : attempts[a].status = "SUCCEEDED" <=> evidence = a

Untouched(t) == tables[t] = NoTable /\ late[t] = "none"
HoldsAll(t) == tables[t] = WholeTable /\ late[t] = "none"

\* Nothing is created before the attempt runs, and a success is whole.
TablesMatchAttempts ==
  \A a \in Attempts :
    /\ attempts[a].status \in {"ABSENT", "CLAIMED"} => Untouched(a)
    /\ attempts[a].status = "SUCCEEDED" => HoldsAll(a)

Working == {"mark", "create", "load", "drop", "complete"}

\* What a caller holds at its step is backed by the durable state.
Backed(c) ==
  /\ c.step \in Working => c.attempt \in Attempts
  /\ c.step = "mark" => attempts[c.attempt].status = "CLAIMED"
  /\ c.step \in Working \ {"mark"} => attempts[c.attempt].status = "RUNNING"
  /\ c.step = "create" => Untouched(c.attempt) /\ c.batch = 0
  /\ c.step = "load" =>
       /\ tables[c.attempt] = [exists |-> TRUE, batches |-> c.batch]
       /\ late[c.attempt] = "none"
  /\ c.step = "complete" /\ c.result = "SUCCEEDED" => HoldsAll(c.attempt)
  /\ c.step \in {"lookup", "check", "claim", "mark"} => c.batch = 0

\* Two callers never work on the same attempt.
OneWorker ==
  \A p, q \in Callers :
    /\ call[p].step \in Working /\ call[q].step \in Working
    /\ call[p].attempt = call[q].attempt
    => p = q

\* The load discipline as a whole: inductive.
LoadDiscipline ==
  /\ OneBlockingAttempt
  /\ EvidenceNamesSuccess
  /\ TablesMatchAttempts
  /\ \A p \in Callers : Backed(call[p])
  /\ OneWorker

----------------------------------------------------------------------------
(* Refinement *)

Copy == INSTANCE CertifiedCopy
          WITH Copies <- Attempts, Whole <- WholeTable,
               content <- [a \in Attempts |-> tables[TableOf(a)]],
               certified <- evidence

\* Racing, failing and dying loads together certify one whole copy, once, and
\* never touch it again.
ImplementsCertifiedCopy == Copy!Spec
=============================================================================
