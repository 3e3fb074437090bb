----------------------------- MODULE CommandLog -----------------------------
(***************************************************************************)
(* What the durable workflow promises its clients: a command takes effect  *)
(* at most once under its idempotency key, its effect is one version of    *)
(* the workflow and one new artifact at most, the result of a command is   *)
(* recorded with its effect, and nothing that was recorded ever changes.   *)
(* WorkflowCommands implements it.                                         *)
(***************************************************************************)
EXTENDS Naturals, Sequences

CONSTANTS
  Commands,   \* a command scope and an idempotency key
  Evidence    \* what an artifact may hold

VARIABLES
  version,    \* of the workflow
  evidence,   \* the artifacts, in the order they were appended
  result      \* of a command: 0, or one more than the artifacts there were

logVars == <<version, evidence, result>>

Init ==
  /\ version \in Nat \ {0}
  /\ evidence \in Seq(Evidence)
  /\ result = [c \in Commands |-> 0]

\* What is on record stays as it is, with one artifact more behind it.
Appended ==
  /\ DOMAIN evidence' = 1..(Len(evidence) + 1)
  /\ \A n \in DOMAIN evidence : evidence'[n] = evidence[n]
  /\ evidence'[Len(evidence) + 1] \in Evidence

\* One version, with or without evidence.
Advance ==
  /\ version' = version + 1
  /\ evidence' = evidence \/ Appended

\* A command of a client takes effect.
TakeEffect(c) ==
  /\ result[c] = 0
  /\ Advance
  /\ result' = [result EXCEPT ![c] = Len(evidence') + 1]

\* The workflow is moved by one of the orchestrators' claims or completions.
Orchestrate == Advance /\ UNCHANGED result

Next == (\E c \in Commands : TakeEffect(c)) \/ Orchestrate

Spec == Init /\ [][Next]_logVars
=============================================================================
