-------------------------- MODULE TargetExecution --------------------------
(***************************************************************************)
(* The durable claim around a target write: WorkflowExecutionOrchestrator  *)
(* over the workflow row, the execution attempts and the idempotency       *)
(* records of the control plane, and over the target database, with which  *)
(* the control plane shares no transaction.                                *)
(*                                                                         *)
(* One workflow is followed from the moment it is EXECUTION_READY.  A      *)
(* caller is one activation of execute(): an API request or the job worker,*)
(* each in a process of its own, so callers interleave between any two     *)
(* transactions and each may die between any two of them.  Versions are    *)
(* counted from the version at which the workflow became ready.            *)
(*                                                                         *)
(* Operators introduced as a variant are not part of the model: each is a  *)
(* slip in the definition that follows it, and a property must notice it.  *)
(***************************************************************************)
EXTENDS Naturals, Sequences, WorkflowStates

CONSTANTS
  Callers,        \* concurrent activations of execute()
  Keys,           \* Idempotency-Key values
  Attempts,       \* attempt identifiers, drawn by uuid_factory
  None,           \* no attempt, no key
  MaxVersion,     \* bound on what clients other than execute() may bump
  Pipelined,      \* TRUE: a client may name the version its previous command,
                  \* still unanswered, is about to produce
  RollbackProven  \* TRUE: the registered adapter can prove a rollback

ASSUME ConstantsAssumption ==
  /\ None \notin Attempts
  /\ None \notin Keys
  /\ MaxVersion \in Nat
  /\ Pipelined \in BOOLEAN
  /\ RollbackProven \in BOOLEAN

VARIABLES
  status,     \* migration_workflows.status
  version,    \* migration_workflows.version
  appended,   \* the last change of the row moved latest_artifact_version
  approval,   \* number of the latest APPROVED_MAPPING_PLAN artifact
  previews,   \* the i-th TRANSFORMATION_PREVIEW artifact: the approval it compiles
  attempts,   \* migration_execution_attempts
  idem,       \* migration_idempotency, scope <workflow>:EXECUTION
  cleanup,    \* version hashed into the STAGING_CLEANUP record of an attempt, or 0
  statement,  \* target database: the fate of the attempt's INSERT ... SELECT
  commits,    \* target database: how often the rows were inserted
  staging,    \* target database: the managed staging table
  call        \* the local state of each caller

rowVars    == <<status, version, appended>>
artifacts  == <<approval, previews>>
controlVars == <<status, version, appended, approval, previews, attempts, idem, cleanup>>
targetVars == <<statement, commits, staging>>
vars == <<status, version, appended, approval, previews, attempts, idem, cleanup,
          statement, commits, staging, call>>

----------------------------------------------------------------------------
(* Types *)

AttemptStatuses ==
  {"CLAIMED", "RUNNING", "SUCCEEDED", "FAILED_ROLLED_BACK", "OUTCOME_UNCERTAIN"}
TerminalStatuses == {"SUCCEEDED", "FAILED_ROLLED_BACK", "OUTCOME_UNCERTAIN"}

\* The attempts that forbid another claim, in claim_execution_attempt's query.
BlockingStatuses == {"CLAIMED", "RUNNING", "SUCCEEDED", "OUTCOME_UNCERTAIN"}

Attempt == [status: AttemptStatuses \cup {"ABSENT"}, preview: Nat, expired: BOOLEAN]
NoRow == [status |-> "ABSENT", preview |-> 0, expired |-> FALSE]

\* An idempotency record: the hashed inputs of the command and its result.
IdemRecord == [expected: Nat, preview: Nat, attempt: Attempts \cup {None}]
NoRecord == [expected |-> 0, preview |-> 0, attempt |-> None]

Steps == {"idle", "lookup", "check", "claim", "mark", "send", "await",
          "complete", "cleanup", "drop", "reread", "record"}

\* The command a caller works on, the step its handler is at, and the attempt,
\* the workflow version and the classified result it holds.
CallShape ==
  [step: Steps, key: Keys \cup {None}, expected: Nat, preview: Nat,
   attempt: Attempts \cup {None}, seen: Nat, result: TerminalStatuses]
Call == {c \in CallShape : c.step = "idle" \/ c.key \in Keys}

IdleCall == [step |-> "idle", key |-> None, expected |-> 0, preview |-> 0,
             attempt |-> None, seen |-> 0, result |-> "OUTCOME_UNCERTAIN"]

TypeOK ==
  /\ status \in Statuses
  /\ version \in Nat
  /\ appended \in BOOLEAN
  /\ approval \in Nat
  /\ previews \in Seq(Nat)
  /\ attempts \in [Attempts -> Attempt]
  /\ idem \in [Keys -> IdemRecord]
  /\ cleanup \in [Attempts -> Nat]
  /\ statement \in [Attempts -> {"unsent", "inflight", "committed", "rolledback"}]
  /\ commits \in Nat
  /\ staging \in {"present", "dropped"}
  /\ call \in [Callers -> Call]

Init ==
  /\ status = "EXECUTION_READY"
  /\ version = 1
  /\ appended = TRUE
  /\ approval = 1
  /\ previews = <<1>>
  /\ attempts = [a \in Attempts |-> NoRow]
  /\ idem = [k \in Keys |-> NoRecord]
  /\ cleanup = [a \in Attempts |-> 0]
  /\ statement = [a \in Attempts |-> "unsent"]
  /\ commits = 0
  /\ staging = "present"
  /\ call = [p \in Callers |-> IdleCall]

----------------------------------------------------------------------------
(* Control flow of a caller *)

At(p, step) == call[p].step = step
Goto(p, step) == call' = [call EXCEPT ![p].step = step]

\* The handler answers its client, with a result or with an error.
Respond(p) == call' = [call EXCEPT ![p] = IdleCall]

Recorded(k) == idem[k].attempt # None

\* Every change of the workflow row counts its version up; some append an
\* artifact on the way.
Bump(artifact) == version' = version + 1 /\ appended' = artifact

\* The idempotency record of the key was written by this very command.
SameCommand(c) ==
  /\ idem[c.key].expected = c.expected
  /\ idem[c.key].preview = c.preview

\* Variant: a replayed success is answered without finishing its cleanup.
ReplayWithoutCleanup(p, a, next) ==
  \/ /\ attempts[a].status \in TerminalStatuses
     /\ Respond(p)
  \/ /\ attempts[a].status \in {"CLAIMED", "RUNNING"}
     /\ call' = [call EXCEPT ![p].step = next, ![p].attempt = a, ![p].seen = version]

\* What execute() does with the attempt a replayed command finds: report a
\* failure, finish the cleanup of a success, or go on with an open attempt.
Replay(p, a, next) ==
  \/ /\ attempts[a].status \in {"FAILED_ROLLED_BACK", "OUTCOME_UNCERTAIN"}
     /\ Respond(p)
  \/ /\ attempts[a].status = "SUCCEEDED"
     /\ call' = [call EXCEPT ![p].step = "cleanup", ![p].attempt = a]
  \/ /\ attempts[a].status \in {"CLAIMED", "RUNNING"}
     /\ call' = [call EXCEPT ![p].step = next, ![p].attempt = a, ![p].seen = version]

----------------------------------------------------------------------------
(* execute() *)

\* A client posts /execute, or repeats it.  It names versions it was told of;
\* a pipelining client also the one its command in flight will produce.
Submit(p) ==
  /\ At(p, "idle")
  /\ \E k \in Keys, i \in 1..Len(previews),
        e \in 1..(IF Pipelined THEN version + 1 ELSE version) :
       call' = [call EXCEPT ![p] =
                  [IdleCall EXCEPT !.step = "lookup", !.key = k,
                                   !.expected = e, !.preview = i]]
  /\ UNCHANGED <<controlVars, targetVars>>

\* get_execution_attempt_by_command: the replay lookup, outside any lock.
Lookup(p) ==
  /\ At(p, "lookup")
  /\ LET c == call[p] IN
       \/ ~Recorded(c.key) /\ Goto(p, "check")
       \/ Recorded(c.key) /\ ~SameCommand(c) /\ Respond(p)
       \/ /\ Recorded(c.key)
          /\ SameCommand(c)
          /\ Replay(p, idem[c.key].attempt, "check")
  /\ UNCHANGED <<controlVars, targetVars>>

\* The preview is the latest, and compiles the latest approval.
IsLatest(i) == i = Len(previews) /\ previews[i] = approval

\* Variant: the status is checked, the lineage is not.
CheckStatusOnly(p) ==
  /\ At(p, "check")
  /\ IF call[p].expected = version => status = "EXECUTION_READY"
       THEN Goto(p, "claim")
       ELSE Respond(p)
  /\ UNCHANGED <<controlVars, targetVars>>

\* The checks of execute() before the claim.  State and lineage are compared
\* with the latest only when the client named the version just read.
Check(p) ==
  /\ At(p, "check")
  /\ LET c == call[p] IN
       IF c.expected = version => (status = "EXECUTION_READY" /\ IsLatest(c.preview))
         THEN Goto(p, "claim")
         ELSE Respond(p)
  /\ UNCHANGED <<controlVars, targetVars>>

NoBlockingAttempt == \A a \in Attempts : attempts[a].status \notin BlockingStatuses

\* claim_execution_attempt, a new command: one transaction under the row lock.
ClaimNew(p) ==
  /\ At(p, "claim")
  /\ ~Recorded(call[p].key)
  /\ call[p].expected = version
  /\ status = "EXECUTION_READY"
  /\ NoBlockingAttempt
  /\ \E a \in Attempts :
       /\ attempts[a].status = "ABSENT"
       /\ attempts' = [attempts EXCEPT ![a] =
                         [status |-> "CLAIMED", preview |-> call[p].preview,
                          expired |-> FALSE]]
       /\ idem' = [idem EXCEPT ![call[p].key] =
                     [expected |-> call[p].expected, preview |-> call[p].preview,
                      attempt |-> a]]
       /\ call' = [call EXCEPT ![p].step = "mark", ![p].attempt = a,
                               ![p].seen = version + 1]
  /\ status' = "EXECUTING"
  /\ Bump(FALSE)
  /\ UNCHANGED <<artifacts, cleanup, targetVars>>

\* claim_execution_attempt, an exact replay: the recorded attempt comes back
\* with the workflow as it is now.
ClaimReplay(p) ==
  /\ At(p, "claim")
  /\ Recorded(call[p].key)
  /\ SameCommand(call[p])
  /\ Replay(p, idem[call[p].key].attempt, "mark")
  /\ UNCHANGED <<controlVars, targetVars>>

\* claim_execution_attempt, refused: the key belongs to another command, or it is
\* new and the version or the status is wrong or an attempt stands in the way.
\* Calls with one key are serialized by an advisory lock, so that the loser of
\* a race finds the winner's record and replays it.
ClaimRefused(p) ==
  /\ At(p, "claim")
  /\ IF Recorded(call[p].key)
       THEN ~SameCommand(call[p])
       ELSE \/ call[p].expected # version
            \/ status # "EXECUTION_READY"
            \/ ~NoBlockingAttempt
  /\ Respond(p)
  /\ UNCHANGED <<controlVars, targetVars>>

\* Variant: a caller that finds its attempt RUNNING goes on and sends as well.
MarkRunningAgain(p) ==
  /\ At(p, "mark")
  /\ attempts[call[p].attempt].status \in {"CLAIMED", "RUNNING"}
  /\ attempts' = [attempts EXCEPT ![call[p].attempt].status = "RUNNING"]
  /\ Goto(p, "send")
  /\ UNCHANGED <<rowVars, artifacts, idem, cleanup, targetVars>>

\* mark_execution_running: exactly one claimant wins the right to write.
MarkRunning(p) ==
  /\ At(p, "mark")
  /\ attempts[call[p].attempt].status = "CLAIMED"
  /\ attempts' = [attempts EXCEPT ![call[p].attempt].status = "RUNNING"]
  /\ Goto(p, "send")
  /\ UNCHANGED <<rowVars, artifacts, idem, cleanup, targetVars>>

\* Variant: an expired claim is taken for a failed one.
MarkLostMeansFailed(p) ==
  /\ At(p, "mark")
  /\ attempts[call[p].attempt].status # "CLAIMED"
  /\ IF /\ attempts[call[p].attempt].status = "RUNNING"
        /\ attempts[call[p].attempt].expired
       THEN call' = [call EXCEPT ![p].step = "complete",
                                 ![p].result = "FAILED_ROLLED_BACK"]
       ELSE Respond(p)
  /\ UNCHANGED <<controlVars, targetVars>>

\* Variant: a claim never expires.
MarkLostForever(p) ==
  /\ At(p, "mark")
  /\ attempts[call[p].attempt].status # "CLAIMED"
  /\ Respond(p)
  /\ UNCHANGED <<controlVars, targetVars>>

\* The right is taken: an expired claim is closed as uncertain, any other is
\* reported as in progress.
MarkLost(p) ==
  /\ At(p, "mark")
  /\ attempts[call[p].attempt].status # "CLAIMED"
  /\ IF /\ attempts[call[p].attempt].status = "RUNNING"
        /\ attempts[call[p].attempt].expired
       THEN call' = [call EXCEPT ![p].step = "complete",
                                 ![p].result = "OUTCOME_UNCERTAIN"]
       ELSE Respond(p)
  /\ UNCHANGED <<controlVars, targetVars>>

\* timeout_seconds pass since running_at.
Expire(a) ==
  /\ attempts[a].status = "RUNNING"
  /\ ~attempts[a].expired
  /\ attempts' = [attempts EXCEPT ![a].expired = TRUE]
  /\ UNCHANGED <<rowVars, artifacts, idem, cleanup, targetVars, call>>

----------------------------------------------------------------------------
(* The remote boundary *)

\* adapter.execute hands the statement to the target.
Send(p) ==
  /\ At(p, "send")
  /\ statement' = [statement EXCEPT ![call[p].attempt] = "inflight"]
  /\ Goto(p, "await")
  /\ UNCHANGED <<controlVars, commits, staging>>

\* The target decides a statement on its own, whether or not the caller that
\* sent it is still there.  A statement over a dropped table cannot commit.
TargetCommit(a) ==
  /\ statement[a] = "inflight"
  /\ staging = "present"
  /\ statement' = [statement EXCEPT ![a] = "committed"]
  /\ commits' = commits + 1
  /\ UNCHANGED <<controlVars, staging, call>>

TargetRollback(a) ==
  /\ statement[a] = "inflight"
  /\ statement' = [statement EXCEPT ![a] = "rolledback"]
  /\ UNCHANGED <<controlVars, commits, staging, call>>

\* Variant: an exception is a proof that nothing was committed.
DispositionsOfErrors(a) ==
  (IF statement[a] = "committed" THEN {"SUCCEEDED"} ELSE {}) \cup {"FAILED_ROLLED_BACK"}

\* Variant: a statement that was accepted is a success.
DispositionsOfAcceptance(a) == {"SUCCEEDED", "OUTCOME_UNCERTAIN"}

\* What the adapter makes of it: an answer proves the commit; an exception
\* (an error, a timeout, a lost connection) proves nothing, unless the adapter
\* has its own evidence of the rollback.
Dispositions(a) ==
  {"OUTCOME_UNCERTAIN"}
    \cup (IF statement[a] = "committed" THEN {"SUCCEEDED"} ELSE {})
    \cup (IF RollbackProven /\ statement[a] = "rolledback"
            THEN {"FAILED_ROLLED_BACK"} ELSE {})

Answer(p) ==
  /\ At(p, "await")
  /\ \E r \in Dispositions(call[p].attempt) :
       call' = [call EXCEPT ![p].step = "complete", ![p].result = r]
  /\ UNCHANGED <<controlVars, targetVars>>

\* Variant: the attempt's status is written into the workflow row.
StatusAfterUnmapped(result) == result

\* Variant: an uncertain outcome is shown as executed.
StatusAfterOptimistic(result) ==
  IF result = "FAILED_ROLLED_BACK" THEN "EXECUTION_READY" ELSE "EXECUTED"

\* _complete: the status a classified result moves the workflow to.
StatusAfter(result) ==
  CASE result = "SUCCEEDED" -> "EXECUTED"
    [] result = "FAILED_ROLLED_BACK" -> "EXECUTION_READY"
    [] OTHER -> "EXECUTION_RECOVERY_REQUIRED"

\* Variant: every outcome is followed by the cleanup.
CompleteThenCleanup(p) ==
  /\ At(p, "complete")
  /\ call[p].seen = version
  /\ status = "EXECUTING"
  /\ attempts[call[p].attempt].status = "RUNNING"
  /\ attempts' = [attempts EXCEPT ![call[p].attempt].status = call[p].result]
  /\ status' = StatusAfter(call[p].result)
  /\ Bump(TRUE)
  /\ Goto(p, "cleanup")
  /\ UNCHANGED <<artifacts, idem, cleanup, targetVars>>

\* complete_execution_attempt: attempt, evidence, status and version together.
Complete(p) ==
  /\ At(p, "complete")
  /\ call[p].seen = version
  /\ status = "EXECUTING"
  /\ attempts[call[p].attempt].status = "RUNNING"
  /\ attempts' = [attempts EXCEPT ![call[p].attempt].status = call[p].result]
  /\ status' = StatusAfter(call[p].result)
  /\ Bump(TRUE)
  /\ IF call[p].result = "SUCCEEDED" THEN Goto(p, "cleanup") ELSE Respond(p)
  /\ UNCHANGED <<artifacts, idem, cleanup, targetVars>>

CompleteConflict(p) ==
  /\ At(p, "complete")
  /\ \/ call[p].seen # version
     \/ status # "EXECUTING"
     \/ attempts[call[p].attempt].status # "RUNNING"
  /\ Respond(p)
  /\ UNCHANGED <<controlVars, targetVars>>

----------------------------------------------------------------------------
(* _cleanup_after_commit *)

\* The evidence of the managed load names approval 1, the plan it was staged
\* for; another plan's execution does not clean up after it.
StagedApproval == 1
StagedPlan(a) == previews[attempts[a].preview] = StagedApproval

\* The staging evidence and an existing cleanup artifact are read.
CheckCleanup(p) ==
  /\ At(p, "cleanup")
  /\ LET a == call[p].attempt IN
       IF /\ StagedPlan(a)
          /\ \A b \in Attempts : cleanup[b] = 0
         THEN Goto(p, "drop")
         ELSE Respond(p)
  /\ UNCHANGED <<controlVars, targetVars>>

\* DROP TABLE IF EXISTS on the exact relation.
Drop(p) ==
  /\ At(p, "drop")
  /\ staging' = "dropped"
  /\ Goto(p, "reread")
  /\ UNCHANGED <<controlVars, statement, commits>>

\* The drop raises, before or after it took effect: StagingCleanupError.
DropFails(p) ==
  /\ At(p, "drop")
  /\ staging' \in {staging, "dropped"}
  /\ Respond(p)
  /\ UNCHANGED <<controlVars, statement, commits>>

\* The version the cleanup is to be recorded at is read after the drop.
Reread(p) ==
  /\ At(p, "reread")
  /\ call' = [call EXCEPT ![p].step = "record", ![p].seen = version]
  /\ UNCHANGED <<controlVars, targetVars>>

\* record_staging_cleanup under the key cleanup-<attempt>, in whatever status
\* the workflow is by now.
RecordCleanup(p) ==
  /\ At(p, "record")
  /\ cleanup[call[p].attempt] = 0
  /\ call[p].seen = version
  /\ cleanup' = [cleanup EXCEPT ![call[p].attempt] = version]
  /\ Bump(TRUE)
  /\ Respond(p)
  /\ UNCHANGED <<status, artifacts, attempts, idem, targetVars>>

\* Replayed, or refused: the key or the version has been used by another.
RecordCleanupSkipped(p) ==
  /\ At(p, "record")
  /\ cleanup[call[p].attempt] # 0 \/ call[p].seen # version
  /\ Respond(p)
  /\ UNCHANGED <<controlVars, targetVars>>

\* The process of the caller dies, or an uncaught error ends the call.
Crash(p) ==
  /\ ~At(p, "idle")
  /\ Respond(p)
  /\ UNCHANGED <<controlVars, targetVars>>

----------------------------------------------------------------------------
(* The other clients of the workflow row.  Each reads the row, applies the *)
(* service's check if the version it names is the one it read, and commits *)
(* under the row lock if that version is still the current one.  With a    *)
(* version observed beforehand the check and the commit see the same row.  *)
(* A pipelined command was read before the last change of the row and is   *)
(* committed after it: nothing is checked, except that an append fails     *)
(* when that change took the artifact number the append had read.          *)

OtherClient == version < MaxVersion

\* transition_status.
Transition(t) ==
  /\ OtherClient
  /\ t # status
  /\ Pipelined \/ MayRequest(status, t)
  /\ status' = t
  /\ Bump(FALSE)
  /\ UNCHANGED <<artifacts, attempts, idem, cleanup, targetVars, call>>

CanAppend ==
  /\ OtherClient
  /\ MayAppend(status) \/ (Pipelined /\ ~appended)

\* append_approved_mapping_plan.
AppendApproval ==
  /\ CanAppend
  /\ approval' = approval + 1
  /\ Bump(TRUE)
  /\ UNCHANGED <<status, previews, attempts, idem, cleanup, targetVars, call>>

\* append_transformation_preview, of any approval.
AppendPreview(b) ==
  /\ CanAppend
  /\ previews' = Append(previews, b)
  /\ Bump(TRUE)
  /\ UNCHANGED <<status, approval, attempts, idem, cleanup, targetVars, call>>

\* claim_validation_run.
ClaimValidation ==
  /\ status = "EXECUTED"
  /\ status' = "VALIDATING"
  /\ Bump(TRUE)
  /\ UNCHANGED <<artifacts, attempts, idem, cleanup, targetVars, call>>

----------------------------------------------------------------------------
Execute(p) ==
  \/ Lookup(p) \/ Check(p)
  \/ ClaimNew(p) \/ ClaimReplay(p) \/ ClaimRefused(p)
  \/ MarkRunning(p) \/ MarkLost(p)
  \/ Send(p) \/ Answer(p)
  \/ Complete(p) \/ CompleteConflict(p)
  \/ CheckCleanup(p) \/ Drop(p) \/ Reread(p)
  \/ RecordCleanup(p) \/ RecordCleanupSkipped(p)

Target(a) == TargetCommit(a) \/ TargetRollback(a)

Others ==
  \/ \E t \in Statuses : Transition(t)
  \/ AppendApproval
  \/ \E b \in 1..approval : AppendPreview(b)
  \/ ClaimValidation

Faults == \E p \in Callers : DropFails(p) \/ Crash(p)

Faultless ==
  \/ \E p \in Callers : Submit(p) \/ Execute(p)
  \/ \E a \in Attempts : Expire(a) \/ Target(a)
  \/ Others

Next == Faultless \/ Faults

Spec == Init /\ [][Next]_vars

----------------------------------------------------------------------------
(* Properties *)

\* The rows of the approved plan reach the target at most once, whatever
\* callers race, retry or die, and whatever the other clients do to the row.
AtMostOneCommit == commits <= 1

\* A statement is never sent while another attempt's may still commit: a new
\* attempt is claimed only after the one before it is proved rolled back.
RetryOnlyAfterRollback ==
  \A a, b \in Attempts :
    a # b /\ statement[a] \in {"inflight", "committed"}
      => statement[b] \in {"unsent", "rolledback"}

\* Terminal evidence states what happened at the target.
EvidenceIsTrue ==
  \A a \in Attempts :
    /\ attempts[a].status = "SUCCEEDED" => statement[a] = "committed"
    /\ attempts[a].status = "FAILED_ROLLED_BACK" => statement[a] = "rolledback"

\* Staging is dropped only once the rows it fed are committed, and never while
\* an outcome is uncertain.
StagingOutlivesDoubt ==
  staging = "dropped" => \E a \in Attempts : attempts[a].status = "SUCCEEDED"

\* A workflow shown as executed has a committed, successful attempt.
ExecutedMeansCommitted ==
  status \in {"EXECUTED", "VALIDATING"} =>
    \E a \in Attempts : attempts[a].status = "SUCCEEDED" /\ statement[a] = "committed"

\* While a statement may be running the plan it runs is the latest approved.
RunningPlanIsLatest ==
  \A a \in Attempts :
    status = "EXECUTING" /\ attempts[a].status \in {"CLAIMED", "RUNNING"}
      => IsLatest(attempts[a].preview)

\* execute() refuses a plan that is no longer the latest: no attempt is claimed
\* for a preview, or under an approval, that has been superseded.
ClaimUsesLatestPlan ==
  [][\A a \in Attempts :
       attempts[a].status = "ABSENT" /\ attempts'[a].status = "CLAIMED"
         => IsLatest(attempts'[a].preview)]_vars

\* EXECUTING is shown exactly while one attempt is open.
OpenAttemptMatchesStatus ==
  status = "EXECUTING" <=>
    \E a \in Attempts : attempts[a].status \in {"CLAIMED", "RUNNING"}

\* The workflow row and the attempts, which are written in one transaction each
\* but read in several, are never seen out of step.
RowMatchesAttempts ==
  ExecutedMeansCommitted /\ RunningPlanIsLatest /\ OpenAttemptMatchesStatus

----------------------------------------------------------------------------
(* Why the claim works: the facts the safety properties rest on.           *)

\* At most one attempt stands in the way of another claim.
OneBlockingAttempt ==
  \A a, b \in Attempts :
    /\ attempts[a].status \in BlockingStatuses
    /\ attempts[b].status \in BlockingStatuses
    => a = b

\* The right to send is won by the transition CLAIMED -> RUNNING.
SentOnlyByClaim ==
  \A a \in Attempts :
    statement[a] # "unsent" => attempts[a].status \notin {"ABSENT", "CLAIMED"}

\* What a caller holds at its step is backed by the durable state: the attempt
\* exists, a sender's statement is still unsent, a classified result is true, and
\* a cleaner works for a success.
Backed(c) ==
  /\ c.step \in {"mark", "send", "await", "complete",
                 "cleanup", "drop", "reread", "record"}
       => c.attempt \in Attempts /\ attempts[c.attempt].status # "ABSENT"
  /\ c.step = "send" =>
       /\ statement[c.attempt] = "unsent"
       /\ attempts[c.attempt].status \in {"RUNNING", "OUTCOME_UNCERTAIN"}
  /\ c.step = "complete" =>
       /\ c.result = "SUCCEEDED" => statement[c.attempt] = "committed"
       /\ c.result = "FAILED_ROLLED_BACK" => statement[c.attempt] = "rolledback"
  /\ c.step \in {"cleanup", "drop", "reread", "record"} =>
       attempts[c.attempt].status = "SUCCEEDED"

\* Two callers never hold the right to send the same attempt's statement.
OneSender ==
  \A p, q \in Callers :
    At(p, "send") /\ At(q, "send") /\ call[p].attempt = call[q].attempt => p = q

CommitsCounted ==
  commits = IF \E a \in Attempts : statement[a] = "committed" THEN 1 ELSE 0

\* The claim discipline as a whole: inductive, and stronger than the safety
\* properties of the target.
ClaimDiscipline ==
  /\ OneBlockingAttempt
  /\ SentOnlyByClaim
  /\ EvidenceIsTrue
  /\ CommitsCounted
  /\ StagingOutlivesDoubt
  /\ \A k \in Keys : Recorded(k) => attempts[idem[k].attempt].status # "ABSENT"
  /\ \A p \in Callers : Backed(call[p])
  /\ OneSender

----------------------------------------------------------------------------
(* Refinement *)

Once == INSTANCE WriteOnce
          WITH written  <- commits,
               reported <- \E a \in Attempts : attempts[a].status = "SUCCEEDED",
               source   <- staging

\* Callers, crashes, replays and the other clients together behave, towards the
\* target, like one write that happens once, is then reported and then cleaned.
ImplementsWriteOnce == Once!Spec
=============================================================================
