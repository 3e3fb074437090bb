--------------------------- MODULE WorkflowStates ---------------------------
(***************************************************************************)
(* The status graph of a migration workflow, and the two rules by which    *)
(* WorkflowPersistenceService keeps its clients inside it.  Constant level *)
(* only: every state machine of the project extends this module.           *)
(***************************************************************************)
EXTENDS Naturals

\* MigrationWorkflowStatus.
Statuses ==
  { "DRAFT", "DISCOVERED", "MAPPING_PROPOSED", "MAPPING_APPROVED",
    "STAGING", "STAGED", "STAGING_RECOVERY_REQUIRED",
    "EXECUTION_READY", "EXECUTING", "EXECUTED", "EXECUTION_RECOVERY_REQUIRED",
    "VALIDATION_READY", "VALIDATING", "VALIDATED",
    "VALIDATION_REVIEW_REQUIRED", "VALIDATION_RECOVERY_REQUIRED",
    "FAILED", "CANCELLED" }

Withdrawn == {"FAILED", "CANCELLED"}

\* ALLOWED_TRANSITIONS.
AllowedTransitions ==
  [ s \in Statuses |->
      CASE s = "DRAFT"            -> {"DISCOVERED"} \cup Withdrawn
        [] s = "DISCOVERED"       -> {"MAPPING_PROPOSED"} \cup Withdrawn
        [] s = "MAPPING_PROPOSED" -> {"MAPPING_APPROVED"} \cup Withdrawn
        [] s = "MAPPING_APPROVED" -> {"STAGING", "EXECUTION_READY"} \cup Withdrawn
        [] s = "STAGING"          -> {"STAGED", "MAPPING_APPROVED",
                                      "STAGING_RECOVERY_REQUIRED"}
        [] s = "STAGED"           -> {"EXECUTION_READY"} \cup Withdrawn
        [] s = "EXECUTION_READY"  -> {"EXECUTING"} \cup Withdrawn
        [] s = "EXECUTING"        -> {"EXECUTED", "EXECUTION_READY",
                                      "EXECUTION_RECOVERY_REQUIRED"}
        [] s = "EXECUTED"         -> {"VALIDATION_READY", "VALIDATING"} \cup Withdrawn
        [] s = "VALIDATION_READY" -> {"VALIDATING"} \cup Withdrawn
        [] s = "VALIDATING"       -> {"VALIDATED", "VALIDATION_REVIEW_REQUIRED",
                                      "VALIDATION_RECOVERY_REQUIRED"} \cup Withdrawn
        [] s \in {"STAGING_RECOVERY_REQUIRED", "EXECUTION_RECOVERY_REQUIRED",
                  "VALIDATION_RECOVERY_REQUIRED"} -> Withdrawn
        [] OTHER                  -> {} ]

\* The statuses only an orchestrator may write: `managed` in transition_status.
ManagedStatuses ==
  { "STAGING", "STAGED", "STAGING_RECOVERY_REQUIRED",
    "EXECUTION_READY", "EXECUTING", "EXECUTED", "EXECUTION_RECOVERY_REQUIRED",
    "VALIDATION_READY", "VALIDATING", "VALIDATED",
    "VALIDATION_REVIEW_REQUIRED", "VALIDATION_RECOVERY_REQUIRED" }

\* Variant used to test the properties: the managed statuses are forgotten.
MayRequestManaged(s, t) ==
  /\ s \notin {"STAGING", "EXECUTING", "VALIDATING"}
  /\ t = s \/ t \in AllowedTransitions[s]

\* Variant: the managed statuses are kept from clients, the graph is not.
MayRequestOffGraph(s, t) ==
  /\ t \notin ManagedStatuses
  /\ s \notin {"STAGING", "EXECUTING", "VALIDATING"}

\* transition_status, the service's check: may a client that observed status s
\* at the version it names ask for status t?
MayRequest(s, t) ==
  /\ t \notin ManagedStatuses
  /\ s \notin {"STAGING", "EXECUTING", "VALIDATING"}
  /\ t = s \/ t \in AllowedTransitions[s]

\* Variant: an artifact is refused during a validation only.
MayAppendWhileExecuting(s) == s # "VALIDATING"

\* Variant: an artifact is refused during an execution only.
MayAppendWhileValidating(s) == s # "EXECUTING"

\* _append, the service's check: an artifact is refused while a statement or a
\* validation is running.  STAGING is not in the set.
MayAppend(s) == s \notin {"EXECUTING", "VALIDATING"}
=============================================================================
