----------------------- MODULE TargetExecutionProofs -----------------------
(***************************************************************************)
(* The safety of TargetExecution for every set of callers, keys and        *)
(* attempts, with and without pipelining clients and provable rollbacks:   *)
(* first the types and what follows from them, then ClaimDiscipline, which *)
(* is inductive relative to the types and implies that the approved rows   *)
(* are committed at most once, that a retry waits for a proved rollback,   *)
(* that evidence is true and that staging outlives doubt.                  *)
(***************************************************************************)
EXTENDS TargetExecution, TLAPS

\* A caller that is at work stays well formed whatever step it moves to and
\* whatever attempt, version or result it picks up on the way.
LEMMA CallUpdates ==
  ASSUME NEW c \in Call, c.step # "idle", NEW s \in Steps
  PROVE  /\ [c EXCEPT !.step = s] \in Call
         /\ \A a \in Attempts :
              /\ [c EXCEPT !.step = s, !.attempt = a] \in Call
              /\ \A v \in Nat : [c EXCEPT !.step = s, !.attempt = a, !.seen = v] \in Call
         /\ \A v \in Nat : [c EXCEPT !.step = s, !.seen = v] \in Call
         /\ \A r \in TerminalStatuses : [c EXCEPT !.step = s, !.result = r] \in Call
  BY DEF Call, CallShape

LEMMA IdleCallType == IdleCall \in Call
  BY DEF IdleCall, Call, CallShape, Steps, TerminalStatuses

\* A new command makes a well-formed caller.
LEMMA SubmitType ==
  ASSUME NEW k \in Keys, NEW e \in Nat, NEW i \in Nat
  PROVE  [IdleCall EXCEPT !.step = "lookup", !.key = k,
                          !.expected = e, !.preview = i] \in Call
  BY DEF IdleCall, Call, CallShape, Steps, TerminalStatuses

\* The type of a caller's local state after a move, a replay and an answer.
LEMMA GotoType ==
  ASSUME TypeOK, NEW p \in Callers, NEW s \in Steps, ~At(p, "idle"), Goto(p, s)
  PROVE  call' \in [Callers -> Call]
  <1>1. [call[p] EXCEPT !.step = s] \in Call
    BY CallUpdates DEF TypeOK, At
  <1> QED
    BY <1>1 DEF Goto, TypeOK

LEMMA RespondType ==
  ASSUME TypeOK, NEW p \in Callers, Respond(p)
  PROVE  call' \in [Callers -> Call]
  BY IdleCallType DEF Respond, TypeOK

LEMMA ReplayType ==
  ASSUME TypeOK, NEW p \in Callers, NEW a \in Attempts, NEW s \in Steps,
         ~At(p, "idle"), Replay(p, a, s)
  PROVE  call' \in [Callers -> Call]
  <1>1. [call[p] EXCEPT !.step = "cleanup", !.attempt = a] \in Call
    BY CallUpdates DEF TypeOK, At, Steps
  <1>2. [call[p] EXCEPT !.step = s, !.attempt = a, !.seen = version] \in Call
    BY CallUpdates DEF TypeOK, At
  <1> QED
    BY <1>1, <1>2, RespondType DEF Replay, TypeOK

\* A change of the workflow row keeps its counters well formed.
LEMMA BumpType ==
  ASSUME TypeOK, NEW b \in BOOLEAN, Bump(b)
  PROVE  version' \in Nat /\ appended' \in BOOLEAN
  BY DEF TypeOK, Bump

\* TargetExecution keeps every variable within its type: each column of the
\* control plane, the state of the target and the local state of a caller.
THEOREM TypeCorrect == Spec => []TypeOK
<1>1. Init => TypeOK
  BY ConstantsAssumption, IdleCallType
     DEF Init, TypeOK, Statuses, Withdrawn, Attempt, NoRow, IdemRecord, NoRecord,
         AttemptStatuses
<1>2. TypeOK /\ [Next]_vars => TypeOK'
  <2> SUFFICES ASSUME TypeOK, [Next]_vars PROVE TypeOK'
    OBVIOUS
  <2> USE ConstantsAssumption
  <2>2. ASSUME NEW p \in Callers, Submit(p) PROVE TypeOK'
    <3>1. PICK k \in Keys, i \in 1..Len(previews),
               e \in 1..(IF Pipelined THEN version + 1 ELSE version) :
            call' = [call EXCEPT ![p] =
                       [IdleCall EXCEPT !.step = "lookup", !.key = k,
                                        !.expected = e, !.preview = i]]
      BY <2>2 DEF Submit
    <3>2. i \in Nat /\ e \in Nat
      OBVIOUS
    <3>3. call' \in [Callers -> Call]
      BY <3>1, <3>2, SubmitType DEF TypeOK
    <3> QED
      BY <2>2, <3>3 DEF Submit, controlVars, targetVars, TypeOK
  <2>3. ASSUME NEW p \in Callers, Execute(p) PROVE TypeOK'
    <3>0. /\ {"check", "claim", "mark", "send", "await", "complete", "cleanup",
              "drop", "reread", "record"} \subseteq Steps
          /\ "OUTCOME_UNCERTAIN" \in TerminalStatuses
      BY DEF Steps, TerminalStatuses
    <3>1. CASE Lookup(p)
      <4>1. Recorded(call[p].key) => idem[call[p].key].attempt \in Attempts
        BY <3>1 DEF Lookup, Recorded, At, TypeOK, Call, CallShape, IdemRecord
      <4>2. call' \in [Callers -> Call]
        BY <3>0, <3>1, <4>1, GotoType, RespondType, ReplayType DEF Lookup, At
      <4> QED
        BY <3>1, <4>2 DEF Lookup, controlVars, targetVars, TypeOK
    <3>2. CASE Check(p)
      <4>1. call' \in [Callers -> Call]
        BY <3>0, <3>2, GotoType, RespondType DEF Check, At
      <4> QED
        BY <3>2, <4>1 DEF Check, controlVars, targetVars, TypeOK
    <3>3. CASE ClaimNew(p)
      <4>1. PICK a \in Attempts :
              /\ attempts' = [attempts EXCEPT ![a] =
                                [status |-> "CLAIMED", preview |-> call[p].preview,
                                 expired |-> FALSE]]
              /\ idem' = [idem EXCEPT ![call[p].key] =
                            [expected |-> call[p].expected,
                             preview |-> call[p].preview, attempt |-> a]]
              /\ call' = [call EXCEPT ![p].step = "mark", ![p].attempt = a,
                                      ![p].seen = version + 1]
        BY <3>3 DEF ClaimNew
      <4>2. [call[p] EXCEPT !.step = "mark", !.attempt = a, !.seen = version + 1] \in Call
        <5>1. version + 1 \in Nat /\ call[p] \in Call /\ call[p].step # "idle"
          BY <3>3 DEF ClaimNew, At, TypeOK
        <5> QED
          BY <3>0, <5>1, CallUpdates
      <4>3. call' \in [Callers -> Call]
        BY <4>1, <4>2 DEF TypeOK
      <4>4. call[p].preview \in Nat /\ call[p].expected \in Nat
        BY DEF TypeOK, Call, CallShape
      <4>5. attempts' \in [Attempts -> Attempt] /\ idem' \in [Keys -> IdemRecord]
        BY <4>1, <4>4 DEF TypeOK, Attempt, AttemptStatuses, IdemRecord
      <4>6. status' \in Statuses
        BY <3>3 DEF ClaimNew, Statuses
      <4>7. version' \in Nat /\ appended' \in BOOLEAN
        BY <3>3, BumpType DEF ClaimNew
      <4> QED
        BY <3>3, <4>3, <4>5, <4>6, <4>7 DEF ClaimNew, artifacts, targetVars, TypeOK
    <3>4. CASE ClaimReplay(p)
      <4>1. idem[call[p].key].attempt \in Attempts
        BY <3>4 DEF ClaimReplay, Recorded, At, TypeOK, Call, CallShape, IdemRecord
      <4>2. call' \in [Callers -> Call]
        BY <3>0, <3>4, <4>1, ReplayType DEF ClaimReplay, At
      <4> QED
        BY <3>4, <4>2 DEF ClaimReplay, controlVars, targetVars, TypeOK
    <3>5. CASE ClaimRefused(p)
      BY <3>5, RespondType DEF ClaimRefused, controlVars, targetVars, TypeOK
    <3>6. CASE MarkRunning(p)
      <4>1. call' \in [Callers -> Call]
        BY <3>0, <3>6, GotoType DEF MarkRunning, At
      <4>2. attempts' \in [Attempts -> Attempt]
        <5> DEFINE a == call[p].attempt
        <5>1. a \in Attempts => [attempts[a] EXCEPT !.status = "RUNNING"] \in Attempt
          BY DEF TypeOK, Attempt, AttemptStatuses
        <5> QED
          BY <3>6, <5>1 DEF MarkRunning, TypeOK
      <4> QED
        BY <3>6, <4>1, <4>2 DEF MarkRunning, rowVars, artifacts, targetVars, TypeOK
    <3>7. CASE MarkLost(p)
      <4>1. [call[p] EXCEPT !.step = "complete", !.result = "OUTCOME_UNCERTAIN"] \in Call
        BY <3>0, <3>7, CallUpdates DEF MarkLost, At, TypeOK
      <4>2. call' \in [Callers -> Call]
        BY <3>7, <4>1, RespondType DEF MarkLost, TypeOK
      <4> QED
        BY <3>7, <4>2 DEF MarkLost, controlVars, targetVars, TypeOK
    <3>8. CASE Send(p)
      <4>1. call' \in [Callers -> Call]
        BY <3>0, <3>8, GotoType DEF Send, At
      <4> QED
        BY <3>8, <4>1 DEF Send, controlVars, TypeOK
    <3>9. CASE Answer(p)
      <4>1. PICK r \in Dispositions(call[p].attempt) :
              call' = [call EXCEPT ![p].step = "complete", ![p].result = r]
        BY <3>9 DEF Answer
      <4>2. r \in TerminalStatuses
        BY DEF Dispositions, TerminalStatuses
      <4>3. [call[p] EXCEPT !.step = "complete", !.result = r] \in Call
        BY <3>0, <3>9, <4>2, CallUpdates DEF Answer, At, TypeOK
      <4>4. call' \in [Callers -> Call]
        BY <4>1, <4>3 DEF TypeOK
      <4> QED
        BY <3>9, <4>4 DEF Answer, controlVars, targetVars, TypeOK
    <3>10. CASE Complete(p)
      <4>1. call' \in [Callers -> Call]
        BY <3>0, <3>10, GotoType, RespondType DEF Complete, At
      <4>2. call[p].result \in TerminalStatuses
        BY DEF TypeOK, Call, CallShape
      <4>3. attempts' \in [Attempts -> Attempt]
        <5> DEFINE a == call[p].attempt
                   r == call[p].result
        <5>1. a \in Attempts => [attempts[a] EXCEPT !.status = r] \in Attempt
          BY <4>2 DEF TypeOK, Attempt, AttemptStatuses, TerminalStatuses
        <5> QED
          BY <3>10, <5>1 DEF Complete, TypeOK
      <4>4. status' \in Statuses
        BY <3>10 DEF Complete, StatusAfter, Statuses
      <4>5. version' \in Nat /\ appended' \in BOOLEAN
        BY <3>10, BumpType DEF Complete
      <4> QED
        BY <3>10, <4>1, <4>3, <4>4, <4>5 DEF Complete, artifacts, targetVars, TypeOK
    <3>11. CASE CompleteConflict(p)
      BY <3>11, RespondType DEF CompleteConflict, controlVars, targetVars, TypeOK
    <3>12. CASE CheckCleanup(p)
      <4>1. call' \in [Callers -> Call]
        BY <3>0, <3>12, GotoType, RespondType DEF CheckCleanup, At
      <4> QED
        BY <3>12, <4>1 DEF CheckCleanup, controlVars, targetVars, TypeOK
    <3>13. CASE Drop(p)
      <4>1. call' \in [Callers -> Call]
        BY <3>0, <3>13, GotoType DEF Drop, At
      <4> QED
        BY <3>13, <4>1 DEF Drop, controlVars, TypeOK
    <3>14. CASE Reread(p)
      <4>1. [call[p] EXCEPT !.step = "record", !.seen = version] \in Call
        BY <3>0, <3>14, CallUpdates DEF Reread, At, TypeOK
      <4> QED
        BY <3>14, <4>1 DEF Reread, controlVars, targetVars, TypeOK
    <3>15. CASE RecordCleanup(p)
      <4>1. call' \in [Callers -> Call]
        BY <3>15, RespondType DEF RecordCleanup
      <4>2. version \in Nat /\ cleanup \in [Attempts -> Nat]
        BY DEF TypeOK
      <4>3. cleanup' = [cleanup EXCEPT ![call[p].attempt] = version]
        BY <3>15 DEF RecordCleanup
      <4>4. cleanup' \in [Attempts -> Nat]
        BY <4>2, <4>3
      <4>5. version' \in Nat /\ appended' \in BOOLEAN
        BY <3>15, BumpType DEF RecordCleanup
      <4> QED
        BY <3>15, <4>1, <4>4, <4>5 DEF RecordCleanup, artifacts, targetVars, TypeOK
    <3>16. CASE RecordCleanupSkipped(p)
      BY <3>16, RespondType DEF RecordCleanupSkipped, controlVars, targetVars, TypeOK
    <3> QED
      BY <2>3, <3>1, <3>2, <3>3, <3>4, <3>5, <3>6, <3>7, <3>8, <3>9, <3>10,
         <3>11, <3>12, <3>13, <3>14, <3>15, <3>16 DEF Execute
  <2>4. ASSUME NEW p \in Callers, DropFails(p) \/ Crash(p) PROVE TypeOK'
    <3>1. call' \in [Callers -> Call]
      BY <2>4, RespondType DEF DropFails, Crash
    <3>2. staging' \in {"present", "dropped"}
      BY <2>4 DEF DropFails, Crash, targetVars, TypeOK
    <3>3. UNCHANGED <<controlVars, statement, commits>>
      BY <2>4 DEF DropFails, Crash, targetVars
    <3> QED
      BY <3>1, <3>2, <3>3 DEF controlVars, TypeOK
  <2>5. ASSUME NEW a \in Attempts, Expire(a) \/ Target(a) PROVE TypeOK'
    <3>1. CASE Expire(a)
      <4>1. [attempts[a] EXCEPT !.expired = TRUE] \in Attempt
        BY DEF TypeOK, Attempt
      <4>2. attempts' \in [Attempts -> Attempt]
        BY <3>1, <4>1 DEF Expire, TypeOK
      <4> QED
        BY <3>1, <4>2 DEF Expire, rowVars, artifacts, targetVars, TypeOK
    <3>2. CASE TargetCommit(a)
      BY <3>2 DEF TargetCommit, controlVars, TypeOK
    <3>3. CASE TargetRollback(a)
      BY <3>3 DEF TargetRollback, controlVars, TypeOK
    <3> QED
      BY <2>5, <3>1, <3>2, <3>3 DEF Target
  <2>6. ASSUME NEW t \in Statuses, Transition(t) PROVE TypeOK'
    <3>1. version' \in Nat /\ appended' \in BOOLEAN
      BY <2>6, BumpType DEF Transition
    <3> QED
      BY <2>6, <3>1 DEF Transition, artifacts, targetVars, TypeOK
  <2>7. CASE AppendApproval
    <3>1. version' \in Nat /\ appended' \in BOOLEAN
      BY <2>7, BumpType DEF AppendApproval
    <3> QED
      BY <2>7, <3>1 DEF AppendApproval, targetVars, TypeOK
  <2>8. ASSUME NEW b \in 1..approval, AppendPreview(b) PROVE TypeOK'
    <3>1. version' \in Nat /\ appended' \in BOOLEAN
      BY <2>8, BumpType DEF AppendPreview
    <3>2. previews' \in Seq(Nat)
      BY <2>8 DEF AppendPreview, TypeOK
    <3> QED
      BY <2>8, <3>1, <3>2 DEF AppendPreview, targetVars, TypeOK
  <2>9. CASE ClaimValidation
    <3>1. status' \in Statuses
      BY <2>9 DEF ClaimValidation, Statuses
    <3>2. version' \in Nat /\ appended' \in BOOLEAN
      BY <2>9, BumpType DEF ClaimValidation
    <3> QED
      BY <2>9, <3>1, <3>2 DEF ClaimValidation, artifacts, targetVars, TypeOK
  <2>10. CASE UNCHANGED vars
    BY <2>10 DEF vars, TypeOK
  <2> QED
    BY <2>2, <2>3, <2>4, <2>5, <2>6, <2>7, <2>8, <2>9, <2>10
       DEF Next, Faultless, Faults, Others
<1> QED
  BY <1>1, <1>2, PTL DEF Spec

----------------------------------------------------------------------------
(* ClaimDiscipline *)

\* The durable part of ClaimDiscipline reads these variables only; so does
\* Backed, applied to a caller.
durable == <<attempts, idem, statement, commits, staging>>

\* A step that leaves the durable variables alone and moves one caller to a
\* place that they back, other than the place of a sender, keeps the discipline.
LEMMA MoveKeepsDiscipline ==
  ASSUME TypeOK, ClaimDiscipline, NEW p \in Callers, NEW c,
         call' = [call EXCEPT ![p] = c], Backed(c), c.step # "send",
         UNCHANGED durable
  PROVE  ClaimDiscipline'
  <1>1. /\ OneBlockingAttempt' /\ SentOnlyByClaim' /\ EvidenceIsTrue'
        /\ CommitsCounted' /\ StagingOutlivesDoubt'
    BY DEF ClaimDiscipline, OneBlockingAttempt, SentOnlyByClaim, EvidenceIsTrue,
           CommitsCounted, StagingOutlivesDoubt, durable
  <1>2. (\A k \in Keys : Recorded(k) => attempts[idem[k].attempt].status # "ABSENT")'
    BY DEF ClaimDiscipline, Recorded, durable
  <1>3. (\A q \in Callers : Backed(call[q]))'
    <2> SUFFICES ASSUME NEW q \in Callers PROVE Backed(call[q])'
      OBVIOUS
    <2>1. call'[q] = IF q = p THEN c ELSE call[q]
      BY DEF TypeOK
    <2>2. Backed(call'[q])
      BY <2>1 DEF ClaimDiscipline
    <2> QED
      BY <2>2 DEF Backed, durable
  <1>4. OneSender'
    BY DEF ClaimDiscipline, OneSender, At, TypeOK
  <1> QED
    BY <1>1, <1>2, <1>3, <1>4 DEF ClaimDiscipline

\* An answered caller holds nothing.
LEMMA RespondKeepsDiscipline ==
  ASSUME TypeOK, ClaimDiscipline, NEW p \in Callers, Respond(p), UNCHANGED durable
  PROVE  ClaimDiscipline'
  <1>1. IdleCall.step = "idle"
    BY DEF IdleCall
  <1>2. Backed(IdleCall)
    BY <1>1 DEF Backed
  <1> QED
    BY <1>1, <1>2, MoveKeepsDiscipline DEF Respond

\* A step after which no caller holds anything it did not hold, no attempt and
\* no statement changes, and staging stays, keeps the discipline.
LEMMA FrameKeepsDiscipline ==
  ASSUME ClaimDiscipline, UNCHANGED <<durable, call>>
  PROVE  ClaimDiscipline'
  BY DEF ClaimDiscipline, OneBlockingAttempt, SentOnlyByClaim, EvidenceIsTrue,
         CommitsCounted, StagingOutlivesDoubt, Recorded, Backed, OneSender, At, durable

\* A replayed command continues with an attempt that exists.
LEMMA ReplayKeepsDiscipline ==
  ASSUME TypeOK, ClaimDiscipline, NEW p \in Callers, NEW a \in Attempts,
         NEW s \in {"check", "mark"}, Replay(p, a, s), attempts[a].status # "ABSENT",
         UNCHANGED durable
  PROVE  ClaimDiscipline'
  <1>1. CASE Respond(p)
    BY <1>1, RespondKeepsDiscipline
  <1>2. CASE /\ attempts[a].status = "SUCCEEDED"
             /\ call' = [call EXCEPT ![p].step = "cleanup", ![p].attempt = a]
    <2> DEFINE c == [call[p] EXCEPT !.step = "cleanup", !.attempt = a]
    <2>1. c.step = "cleanup" /\ c.attempt = a
      BY DEF TypeOK, Call, CallShape
    <2>2. Backed(c)
      BY <1>2, <2>1 DEF Backed
    <2>3. call' = [call EXCEPT ![p] = c]
      BY <1>2
    <2> QED
      BY <2>1, <2>2, <2>3, MoveKeepsDiscipline
  <1>3. CASE call' = [call EXCEPT ![p].step = s, ![p].attempt = a, ![p].seen = version]
    <2> DEFINE c == [call[p] EXCEPT !.step = s, !.attempt = a, !.seen = version]
    <2>1. c.step = s /\ c.attempt = a
      BY DEF TypeOK, Call, CallShape
    <2>2. Backed(c)
      BY <2>1 DEF Backed
    <2>3. call' = [call EXCEPT ![p] = c]
      BY <1>3
    <2> QED
      BY <2>1, <2>2, <2>3, MoveKeepsDiscipline
  <1> QED
    BY <1>1, <1>2, <1>3 DEF Replay
\* A caller moves on to a step at which it holds nothing new.
LEMMA GotoKeepsDiscipline ==
  ASSUME TypeOK, ClaimDiscipline, NEW p \in Callers,
         NEW s \in {"check", "claim", "drop", "reread"}, Goto(p, s),
         s \in {"drop", "reread"} => call[p].step \in {"cleanup", "drop"},
         UNCHANGED durable
  PROVE  ClaimDiscipline'
  <1> DEFINE c == [call[p] EXCEPT !.step = s]
  <1>1. c.step = s /\ c.attempt = call[p].attempt
    BY DEF TypeOK, Call, CallShape
  <1>2. Backed(call[p])
    BY DEF ClaimDiscipline
  <1>3. Backed(c)
    BY <1>1, <1>2 DEF Backed
  <1>4. call' = [call EXCEPT ![p] = c]
    BY DEF Goto
  <1> QED
    BY <1>1, <1>3, <1>4, MoveKeepsDiscipline

\* Every step of every action keeps the discipline: it is inductive, given the
\* types.
LEMMA ClaimStep ==
  ASSUME TypeOK, ClaimDiscipline, [Next]_vars
  PROVE  ClaimDiscipline'
<1>1. ASSUME NEW p \in Callers, Submit(p) PROVE ClaimDiscipline'
  <2>1. PICK k \in Keys, i \in 1..Len(previews),
             e \in 1..(IF Pipelined THEN version + 1 ELSE version) :
          call' = [call EXCEPT ![p] =
                     [IdleCall EXCEPT !.step = "lookup", !.key = k,
                                      !.expected = e, !.preview = i]]
    BY <1>1 DEF Submit
  <2> DEFINE c == [IdleCall EXCEPT !.step = "lookup", !.key = k,
                                   !.expected = e, !.preview = i]
  <2>2. c.step = "lookup"
    BY DEF IdleCall
  <2>3. Backed(c)
    BY <2>2 DEF Backed
  <2>4. call' = [call EXCEPT ![p] = c] /\ UNCHANGED durable
    BY <1>1, <2>1 DEF Submit, controlVars, targetVars, durable
  <2> QED
    BY <2>2, <2>3, <2>4, MoveKeepsDiscipline
<1>2. ASSUME NEW p \in Callers, Lookup(p) PROVE ClaimDiscipline'
  <2>1. UNCHANGED durable
    BY <1>2 DEF Lookup, controlVars, targetVars, durable
  <2>2. CASE Goto(p, "check")
    BY <2>1, <2>2, GotoKeepsDiscipline
  <2>3. CASE Respond(p)
    BY <2>1, <2>3, RespondKeepsDiscipline
  <2>4. CASE Recorded(call[p].key) /\ Replay(p, idem[call[p].key].attempt, "check")
    <3>1. call[p].key \in Keys
      BY <1>2 DEF Lookup, At, TypeOK, Call, CallShape
    <3>2. idem[call[p].key].attempt \in Attempts
      BY <2>4, <3>1 DEF Recorded, TypeOK, IdemRecord
    <3>3. attempts[idem[call[p].key].attempt].status # "ABSENT"
      BY <2>4, <3>1 DEF ClaimDiscipline
    <3> QED
      BY <2>1, <2>4, <3>2, <3>3, ReplayKeepsDiscipline
  <2> QED
    BY <1>2, <2>2, <2>3, <2>4 DEF Lookup
<1>3. ASSUME NEW p \in Callers, Check(p) PROVE ClaimDiscipline'
  <2>1. UNCHANGED durable
    BY <1>3 DEF Check, controlVars, targetVars, durable
  <2> QED
    BY <1>3, <2>1, GotoKeepsDiscipline, RespondKeepsDiscipline DEF Check
<1>4. ASSUME NEW p \in Callers, ClaimNew(p) PROVE ClaimDiscipline'
  <2>1. PICK a \in Attempts :
          /\ attempts[a].status = "ABSENT"
          /\ attempts' = [attempts EXCEPT ![a] =
                            [status |-> "CLAIMED", preview |-> call[p].preview,
                             expired |-> FALSE]]
          /\ idem' = [idem EXCEPT ![call[p].key] =
                        [expected |-> call[p].expected,
                         preview |-> call[p].preview, attempt |-> a]]
          /\ call' = [call EXCEPT ![p].step = "mark", ![p].attempt = a,
                                  ![p].seen = version + 1]
    BY <1>4 DEF ClaimNew
  <2>2. \A b \in Attempts :
          attempts'[b].status = IF b = a THEN "CLAIMED" ELSE attempts[b].status
    BY <2>1 DEF TypeOK
  <2>3. UNCHANGED <<statement, commits, staging>>
    BY <1>4 DEF ClaimNew, targetVars
  <2>4. call'[p].step = "mark" /\ call'[p].attempt = a
    BY <2>1 DEF TypeOK, Call, CallShape
  <2>5. \A q \in Callers : q # p => call'[q] = call[q]
    BY <2>1 DEF TypeOK
  <2>6. OneBlockingAttempt'
    BY <1>4, <2>2 DEF ClaimNew, NoBlockingAttempt, OneBlockingAttempt
  <2>7. SentOnlyByClaim' /\ EvidenceIsTrue'
    BY <2>1, <2>2, <2>3 DEF ClaimDiscipline, SentOnlyByClaim, EvidenceIsTrue
  <2>8. CommitsCounted'
    BY <2>3 DEF ClaimDiscipline, CommitsCounted
  <2>9. StagingOutlivesDoubt'
    BY <2>1, <2>2, <2>3 DEF ClaimDiscipline, StagingOutlivesDoubt
  <2>10. (\A k \in Keys : Recorded(k) => attempts[idem[k].attempt].status # "ABSENT")'
    <3> SUFFICES ASSUME NEW k \in Keys, Recorded(k)'
                 PROVE  attempts'[idem'[k].attempt].status # "ABSENT"
      OBVIOUS
    <3>1. CASE k = call[p].key
      BY <2>1, <2>2, <3>1 DEF TypeOK
    <3>2. CASE k # call[p].key
      <4>1. idem'[k] = idem[k]
        BY <2>1, <3>2 DEF TypeOK
      <4>2. idem[k].attempt \in Attempts /\ attempts[idem[k].attempt].status # "ABSENT"
        BY <4>1 DEF Recorded, TypeOK, IdemRecord, ClaimDiscipline
      <4> QED
        BY <2>2, <4>1, <4>2
    <3> QED
      BY <3>1, <3>2
  <2>11. (\A q \in Callers : Backed(call[q]))'
    <3> SUFFICES ASSUME NEW q \in Callers PROVE Backed(call[q])'
      OBVIOUS
    <3>1. CASE q = p
      BY <2>2, <2>4, <3>1 DEF Backed
    <3>2. CASE q # p
      <4>1. Backed(call[q]) /\ call'[q] = call[q]
        BY <2>5, <3>2 DEF ClaimDiscipline
      <4> QED
        BY <2>1, <2>2, <2>3, <4>1 DEF Backed
    <3> QED
      BY <3>1, <3>2
  <2>12. OneSender'
    BY <2>4, <2>5 DEF ClaimDiscipline, OneSender, At
  <2> QED
    BY <2>6, <2>7, <2>8, <2>9, <2>10, <2>11, <2>12 DEF ClaimDiscipline
<1>5. ASSUME NEW p \in Callers, ClaimReplay(p) PROVE ClaimDiscipline'
  <2>1. UNCHANGED durable
    BY <1>5 DEF ClaimReplay, controlVars, targetVars, durable
  <2>2. call[p].key \in Keys
    BY <1>5 DEF ClaimReplay, At, TypeOK, Call, CallShape
  <2>3. idem[call[p].key].attempt \in Attempts
    BY <1>5, <2>2 DEF ClaimReplay, Recorded, TypeOK, IdemRecord
  <2>4. attempts[idem[call[p].key].attempt].status # "ABSENT"
    BY <1>5, <2>2 DEF ClaimReplay, ClaimDiscipline
  <2> QED
    BY <1>5, <2>1, <2>3, <2>4, ReplayKeepsDiscipline DEF ClaimReplay
<1>6. ASSUME NEW p \in Callers,
             ClaimRefused(p) \/ CompleteConflict(p) \/ RecordCleanupSkipped(p)
               \/ Crash(p)
      PROVE  ClaimDiscipline'
  <2>1. Respond(p) /\ UNCHANGED durable
    BY <1>6 DEF ClaimRefused, CompleteConflict, RecordCleanupSkipped, Crash,
                controlVars, targetVars, durable
  <2> QED
    BY <2>1, RespondKeepsDiscipline
<1>7. ASSUME NEW p \in Callers, MarkRunning(p) PROVE ClaimDiscipline'
  <2> DEFINE a == call[p].attempt
  <2>1. a \in Attempts /\ attempts[a].status = "CLAIMED"
    BY <1>7 DEF MarkRunning, At, ClaimDiscipline, Backed
  <2>2. \A b \in Attempts :
          attempts'[b].status = IF b = a THEN "RUNNING" ELSE attempts[b].status
    BY <1>7, <2>1 DEF MarkRunning, TypeOK, Attempt
  <2>3. UNCHANGED <<idem, statement, commits, staging>>
    BY <1>7 DEF MarkRunning, targetVars
  <2>4. /\ call'[p].step = "send" /\ call'[p].attempt = a
        /\ \A q \in Callers : q # p => call'[q] = call[q]
    BY <1>7 DEF MarkRunning, Goto, TypeOK, Call, CallShape
  <2>5. statement[a] = "unsent"
    BY <2>1 DEF ClaimDiscipline, SentOnlyByClaim
  <2>6. OneBlockingAttempt'
    BY <2>1, <2>2 DEF ClaimDiscipline, OneBlockingAttempt, BlockingStatuses
  <2>7. SentOnlyByClaim' /\ EvidenceIsTrue'
    BY <2>1, <2>2, <2>3 DEF ClaimDiscipline, SentOnlyByClaim, EvidenceIsTrue
  <2>8. CommitsCounted' /\ StagingOutlivesDoubt'
    BY <2>1, <2>2, <2>3 DEF ClaimDiscipline, CommitsCounted, StagingOutlivesDoubt
  <2>9. (\A k \in Keys : Recorded(k) => attempts[idem[k].attempt].status # "ABSENT")'
    BY <2>2, <2>3 DEF ClaimDiscipline, Recorded, TypeOK, IdemRecord
  <2>10. (\A q \in Callers : Backed(call[q]))'
    <3> SUFFICES ASSUME NEW q \in Callers PROVE Backed(call[q])'
      OBVIOUS
    <3>1. CASE q = p
      BY <2>1, <2>2, <2>3, <2>4, <2>5, <3>1 DEF Backed
    <3>2. CASE q # p
      <4>1. Backed(call[q]) /\ call'[q] = call[q]
        BY <2>4, <3>2 DEF ClaimDiscipline
      <4> QED
        BY <2>1, <2>2, <2>3, <4>1 DEF Backed
    <3> QED
      BY <3>1, <3>2
  <2>11. \A q \in Callers : At(q, "send") => call[q].attempt # a
    BY <2>1 DEF ClaimDiscipline, Backed, At
  <2>12. OneSender'
    BY <2>4, <2>11 DEF ClaimDiscipline, OneSender, At
  <2> QED
    BY <2>6, <2>7, <2>8, <2>9, <2>10, <2>12 DEF ClaimDiscipline
<1>8. ASSUME NEW p \in Callers, MarkLost(p) PROVE ClaimDiscipline'
  <2>1. UNCHANGED durable
    BY <1>8 DEF MarkLost, controlVars, targetVars, durable
  <2>2. CASE Respond(p)
    BY <2>1, <2>2, RespondKeepsDiscipline
  <2>3. CASE call' = [call EXCEPT ![p].step = "complete",
                                  ![p].result = "OUTCOME_UNCERTAIN"]
    <3> DEFINE c == [call[p] EXCEPT !.step = "complete",
                                    !.result = "OUTCOME_UNCERTAIN"]
    <3>1. /\ c.step = "complete" /\ c.attempt = call[p].attempt
          /\ c.result = "OUTCOME_UNCERTAIN"
      BY DEF TypeOK, Call, CallShape
    <3>2. Backed(call[p]) /\ call[p].step = "mark"
      BY <1>8 DEF MarkLost, At, ClaimDiscipline
    <3>3. Backed(c)
      BY <3>1, <3>2 DEF Backed
    <3>4. call' = [call EXCEPT ![p] = c]
      BY <2>3
    <3> QED
      BY <2>1, <3>1, <3>3, <3>4, MoveKeepsDiscipline
  <2> QED
    BY <1>8, <2>2, <2>3 DEF MarkLost
<1>9. ASSUME NEW a \in Attempts, Expire(a) PROVE ClaimDiscipline'
  <2>1. \A b \in Attempts : attempts'[b].status = attempts[b].status
    BY <1>9 DEF Expire, TypeOK, Attempt
  <2>2. UNCHANGED <<idem, statement, commits, staging, call>>
    BY <1>9 DEF Expire, targetVars
  <2>3. /\ OneBlockingAttempt' /\ SentOnlyByClaim' /\ EvidenceIsTrue'
        /\ CommitsCounted' /\ StagingOutlivesDoubt' /\ OneSender'
    BY <2>1, <2>2 DEF ClaimDiscipline, OneBlockingAttempt, SentOnlyByClaim,
       EvidenceIsTrue, CommitsCounted, StagingOutlivesDoubt, OneSender, At
  <2>4. (\A k \in Keys : Recorded(k) => attempts[idem[k].attempt].status # "ABSENT")'
    BY <2>1, <2>2 DEF ClaimDiscipline, Recorded, TypeOK, IdemRecord
  <2>5. (\A q \in Callers : Backed(call[q]))'
    BY <2>1, <2>2 DEF ClaimDiscipline, Backed
  <2> QED
    BY <2>3, <2>4, <2>5 DEF ClaimDiscipline
<1>10. ASSUME NEW p \in Callers, Send(p) PROVE ClaimDiscipline'
  <2> DEFINE a == call[p].attempt
  <2>1. /\ a \in Attempts /\ statement[a] = "unsent"
        /\ attempts[a].status \in {"RUNNING", "OUTCOME_UNCERTAIN"}
    BY <1>10 DEF Send, At, ClaimDiscipline, Backed
  <2>2. \A b \in Attempts :
          statement'[b] = IF b = a THEN "inflight" ELSE statement[b]
    BY <1>10 DEF Send, TypeOK
  <2>3. UNCHANGED <<attempts, idem, commits, staging>>
    BY <1>10 DEF Send, controlVars
  <2>4. /\ call'[p].step = "await" /\ call'[p].attempt = a
        /\ \A q \in Callers : q # p => call'[q] = call[q]
    BY <1>10 DEF Send, Goto, TypeOK, Call, CallShape
  <2>5. OneBlockingAttempt' /\ StagingOutlivesDoubt'
    BY <2>3 DEF ClaimDiscipline, OneBlockingAttempt, StagingOutlivesDoubt
  <2>6. SentOnlyByClaim' /\ EvidenceIsTrue'
    BY <2>1, <2>2, <2>3 DEF ClaimDiscipline, SentOnlyByClaim, EvidenceIsTrue
  <2>7. CommitsCounted'
    BY <2>1, <2>2, <2>3 DEF ClaimDiscipline, CommitsCounted
  <2>8. (\A k \in Keys : Recorded(k) => attempts[idem[k].attempt].status # "ABSENT")'
    BY <2>3 DEF ClaimDiscipline, Recorded
  <2>9. (\A q \in Callers : Backed(call[q]))'
    <3> SUFFICES ASSUME NEW q \in Callers PROVE Backed(call[q])'
      OBVIOUS
    <3>1. CASE q = p
      BY <2>1, <2>3, <2>4, <3>1 DEF Backed
    <3>2. CASE q # p
      <4>1. Backed(call[q]) /\ call'[q] = call[q]
        BY <2>4, <3>2 DEF ClaimDiscipline
      <4>2. call[q].step = "send" => call[q].attempt # a
        BY <1>10, <3>2 DEF Send, ClaimDiscipline, OneSender, At
      <4> QED
        BY <2>1, <2>2, <2>3, <4>1, <4>2 DEF Backed
    <3> QED
      BY <3>1, <3>2
  <2>10. OneSender'
    BY <2>4 DEF ClaimDiscipline, OneSender, At
  <2> QED
    BY <2>5, <2>6, <2>7, <2>8, <2>9, <2>10 DEF ClaimDiscipline
<1>11. ASSUME NEW a \in Attempts, Target(a) PROVE ClaimDiscipline'
  <2>1. /\ UNCHANGED <<attempts, idem, staging, call>>
        /\ statement[a] = "inflight"
    BY <1>11 DEF Target, TargetCommit, TargetRollback, controlVars
  <2>2. PICK f \in {"committed", "rolledback"} :
          statement' = [statement EXCEPT ![a] = f]
    BY <1>11 DEF Target, TargetCommit, TargetRollback
  <2>3. \A b \in Attempts : statement'[b] = IF b = a THEN f ELSE statement[b]
    BY <2>2 DEF TypeOK
  <2>4. attempts[a].status \in {"RUNNING", "OUTCOME_UNCERTAIN"}
    BY <2>1 DEF ClaimDiscipline, SentOnlyByClaim, EvidenceIsTrue, TypeOK, Attempt,
                AttemptStatuses
  <2>5. OneBlockingAttempt' /\ StagingOutlivesDoubt' /\ OneSender'
    BY <2>1 DEF ClaimDiscipline, OneBlockingAttempt, StagingOutlivesDoubt, OneSender, At
  <2>6. SentOnlyByClaim' /\ EvidenceIsTrue'
    BY <2>1, <2>3, <2>4 DEF ClaimDiscipline, SentOnlyByClaim, EvidenceIsTrue
  <2>7. CommitsCounted'
    <3>1. CASE TargetCommit(a)
      <4>1. \A b \in Attempts : statement[b] # "committed"
        <5> SUFFICES ASSUME NEW b \in Attempts, statement[b] = "committed"
                     PROVE  FALSE
          OBVIOUS
        <5>1. attempts[b].status \in BlockingStatuses
          BY DEF ClaimDiscipline, SentOnlyByClaim, EvidenceIsTrue, TypeOK, Attempt,
                 AttemptStatuses, BlockingStatuses
        <5>2. a = b
          BY <2>4, <5>1 DEF ClaimDiscipline, OneBlockingAttempt, BlockingStatuses
        <5> QED
          BY <2>1, <5>2
      <4>2. commits = 0
        BY <4>1 DEF ClaimDiscipline, CommitsCounted
      <4>3. commits' = 1 /\ statement'[a] = "committed"
        BY <3>1, <4>2 DEF TargetCommit, TypeOK
      <4> QED
        BY <4>3 DEF CommitsCounted
    <3>2. CASE TargetRollback(a)
      BY <2>1, <2>3, <3>2 DEF TargetRollback, ClaimDiscipline, CommitsCounted
    <3> QED
      BY <1>11, <3>1, <3>2 DEF Target
  <2>8. (\A k \in Keys : Recorded(k) => attempts[idem[k].attempt].status # "ABSENT")'
    BY <2>1 DEF ClaimDiscipline, Recorded
  <2>9. (\A q \in Callers : Backed(call[q]))'
    BY <2>1, <2>3 DEF ClaimDiscipline, Backed
  <2> QED
    BY <2>5, <2>6, <2>7, <2>8, <2>9 DEF ClaimDiscipline
<1>12. ASSUME NEW p \in Callers, Answer(p) PROVE ClaimDiscipline'
  <2>1. PICK r \in Dispositions(call[p].attempt) :
          call' = [call EXCEPT ![p].step = "complete", ![p].result = r]
    BY <1>12 DEF Answer
  <2> DEFINE c == [call[p] EXCEPT !.step = "complete", !.result = r]
  <2>2. c.step = "complete" /\ c.attempt = call[p].attempt /\ c.result = r
    BY DEF TypeOK, Call, CallShape
  <2>3. Backed(call[p]) /\ call[p].step = "await"
    BY <1>12 DEF Answer, At, ClaimDiscipline
  <2>4. Backed(c)
    BY <2>2, <2>3 DEF Backed, Dispositions
  <2>5. call' = [call EXCEPT ![p] = c] /\ UNCHANGED durable
    BY <1>12, <2>1 DEF Answer, controlVars, targetVars, durable
  <2> QED
    BY <2>2, <2>4, <2>5, MoveKeepsDiscipline
<1>13. ASSUME NEW p \in Callers, Complete(p) PROVE ClaimDiscipline'
  <2> DEFINE a == call[p].attempt
             r == call[p].result
  <2>1. /\ a \in Attempts /\ attempts[a].status = "RUNNING"
        /\ r = "SUCCEEDED" => statement[a] = "committed"
        /\ r = "FAILED_ROLLED_BACK" => statement[a] = "rolledback"
    BY <1>13 DEF Complete, At, ClaimDiscipline, Backed
  <2>2. r \in TerminalStatuses
    BY DEF TypeOK, Call, CallShape
  <2>3. \A b \in Attempts :
          attempts'[b].status = IF b = a THEN r ELSE attempts[b].status
    BY <1>13, <2>1 DEF Complete, TypeOK, Attempt
  <2>4. UNCHANGED <<idem, statement, commits, staging>>
    BY <1>13 DEF Complete, targetVars
  <2>5. \A q \in Callers : q # p => call'[q] = call[q]
    BY <1>13 DEF Complete, Goto, Respond, TypeOK
  <2>6. OneBlockingAttempt'
    BY <2>1, <2>2, <2>3 DEF ClaimDiscipline, OneBlockingAttempt, BlockingStatuses
  <2>7. SentOnlyByClaim' /\ EvidenceIsTrue'
    BY <2>1, <2>2, <2>3, <2>4
       DEF ClaimDiscipline, SentOnlyByClaim, EvidenceIsTrue, TerminalStatuses
  <2>8. CommitsCounted' /\ StagingOutlivesDoubt'
    BY <2>1, <2>3, <2>4 DEF ClaimDiscipline, CommitsCounted, StagingOutlivesDoubt
  <2>9. (\A k \in Keys : Recorded(k) => attempts[idem[k].attempt].status # "ABSENT")'
    BY <2>1, <2>2, <2>3, <2>4
       DEF ClaimDiscipline, Recorded, TypeOK, IdemRecord, TerminalStatuses
  <2>10. (\A q \in Callers : Backed(call[q]))'
    <3> SUFFICES ASSUME NEW q \in Callers PROVE Backed(call[q])'
      OBVIOUS
    <3>1. CASE q = p
      <4>1. CASE r = "SUCCEEDED"
        <5>1. call'[p].step = "cleanup" /\ call'[p].attempt = a
          BY <1>13, <4>1 DEF Complete, Goto, TypeOK, Call, CallShape
        <5> QED
          BY <2>1, <2>3, <3>1, <4>1, <5>1 DEF Backed
      <4>2. CASE r # "SUCCEEDED"
        <5>1. call'[p].step = "idle"
          BY <1>13, <4>2 DEF Complete, Respond, IdleCall, TypeOK
        <5> QED
          BY <3>1, <5>1 DEF Backed
      <4> QED
        BY <4>1, <4>2
    <3>2. CASE q # p
      <4>1. Backed(call[q]) /\ call'[q] = call[q]
        BY <2>5, <3>2 DEF ClaimDiscipline
      <4>2. call[q].step = "send" /\ call[q].attempt = a => r = "OUTCOME_UNCERTAIN"
        BY <2>1, <2>2, <4>1 DEF Backed, TerminalStatuses
      <4>3. call[q].step \in {"cleanup", "drop", "reread", "record"}
              => call[q].attempt # a
        BY <2>1, <4>1 DEF Backed
      <4> QED
        BY <2>1, <2>2, <2>3, <2>4, <4>1, <4>2, <4>3 DEF Backed, TerminalStatuses
    <3> QED
      BY <3>1, <3>2
  <2>11. ~At(p, "send")'
    BY <1>13 DEF Complete, Goto, Respond, IdleCall, At, TypeOK, Call, CallShape
  <2>12. OneSender'
    BY <2>5, <2>11 DEF ClaimDiscipline, OneSender, At
  <2> QED
    BY <2>6, <2>7, <2>8, <2>9, <2>10, <2>12 DEF ClaimDiscipline
<1>14. ASSUME NEW p \in Callers, CheckCleanup(p) PROVE ClaimDiscipline'
  <2>1. UNCHANGED durable
    BY <1>14 DEF CheckCleanup, controlVars, targetVars, durable
  <2> QED
    BY <1>14, <2>1, GotoKeepsDiscipline, RespondKeepsDiscipline DEF CheckCleanup, At
<1>15. ASSUME NEW p \in Callers, Drop(p) \/ DropFails(p) PROVE ClaimDiscipline'
  <2>1. /\ UNCHANGED <<attempts, idem, statement, commits>>
        /\ call[p].step = "drop"
    BY <1>15 DEF Drop, DropFails, At, controlVars
  <2>2. StagingOutlivesDoubt'
    <3>1. call[p].attempt \in Attempts /\ attempts[call[p].attempt].status = "SUCCEEDED"
      BY <2>1 DEF ClaimDiscipline, Backed
    <3> QED
      BY <2>1, <3>1 DEF StagingOutlivesDoubt
  <2>3. /\ OneBlockingAttempt' /\ SentOnlyByClaim' /\ EvidenceIsTrue' /\ CommitsCounted'
        /\ (\A k \in Keys : Recorded(k) => attempts[idem[k].attempt].status # "ABSENT")'
    BY <2>1 DEF ClaimDiscipline, OneBlockingAttempt, SentOnlyByClaim, EvidenceIsTrue,
                CommitsCounted, Recorded
  <2>4. /\ call'[p].step \in {"reread", "idle"}
        /\ call'[p].step = "reread" => call'[p].attempt = call[p].attempt
        /\ \A q \in Callers : q # p => call'[q] = call[q]
    BY <1>15 DEF Drop, DropFails, Goto, Respond, IdleCall, TypeOK, Call, CallShape
  <2>5. (\A q \in Callers : Backed(call[q]))'
    BY <2>1, <2>4 DEF ClaimDiscipline, Backed
  <2>6. OneSender'
    BY <2>4 DEF ClaimDiscipline, OneSender, At
  <2> QED
    BY <2>2, <2>3, <2>5, <2>6 DEF ClaimDiscipline
<1>16. ASSUME NEW p \in Callers, Reread(p) PROVE ClaimDiscipline'
  <2> DEFINE c == [call[p] EXCEPT !.step = "record", !.seen = version]
  <2>1. c.step = "record" /\ c.attempt = call[p].attempt
    BY DEF TypeOK, Call, CallShape
  <2>2. Backed(call[p]) /\ call[p].step = "reread"
    BY <1>16 DEF Reread, At, ClaimDiscipline
  <2>3. Backed(c)
    BY <2>1, <2>2 DEF Backed
  <2>4. call' = [call EXCEPT ![p] = c] /\ UNCHANGED durable
    BY <1>16 DEF Reread, controlVars, targetVars, durable
  <2> QED
    BY <2>1, <2>3, <2>4, MoveKeepsDiscipline
<1>17. ASSUME NEW p \in Callers, RecordCleanup(p) PROVE ClaimDiscipline'
  <2>1. Respond(p) /\ UNCHANGED durable
    BY <1>17 DEF RecordCleanup, targetVars, durable
  <2> QED
    BY <2>1, RespondKeepsDiscipline
<1>18. CASE Others \/ UNCHANGED vars
  <2>1. UNCHANGED <<durable, call>>
    BY <1>18 DEF Others, Transition, AppendApproval, AppendPreview, ClaimValidation,
                 vars, targetVars, durable
  <2> QED
    BY <2>1, FrameKeepsDiscipline
<1> QED
  BY <1>1, <1>2, <1>3, <1>4, <1>5, <1>6, <1>7, <1>8, <1>9, <1>10, <1>11, <1>12,
     <1>13, <1>14, <1>15, <1>16, <1>17, <1>18
     DEF Next, Faultless, Faults, Execute

\* The discipline of the claim holds in every behaviour of every instance.
THEOREM ClaimIsDisciplined == Spec => []ClaimDiscipline
<1>1. Init => ClaimDiscipline
  BY DEF Init, ClaimDiscipline, OneBlockingAttempt, SentOnlyByClaim, EvidenceIsTrue,
         CommitsCounted, StagingOutlivesDoubt, Recorded, Backed, OneSender, At,
         NoRow, NoRecord, IdleCall, BlockingStatuses
<1>2. TypeOK /\ ClaimDiscipline /\ [Next]_vars => ClaimDiscipline'
  BY ClaimStep
<1> QED
  BY <1>1, <1>2, TypeCorrect, PTL DEF Spec

\* The approved rows are committed at most once, whoever calls, repeats or dies,
\* and whatever the other clients do to the workflow row.
THEOREM CommitsAtMostOnce == Spec => []AtMostOneCommit
<1>1. ClaimDiscipline => AtMostOneCommit
  BY DEF ClaimDiscipline, CommitsCounted, AtMostOneCommit
<1> QED
  BY <1>1, ClaimIsDisciplined, PTL

\* While the statement of one attempt may commit or has committed, any other
\* attempt is unsent or proved rolled back.
THEOREM RetriesWaitForRollback == Spec => []RetryOnlyAfterRollback
<1>1. TypeOK /\ ClaimDiscipline => RetryOnlyAfterRollback
  <2> SUFFICES ASSUME TypeOK, ClaimDiscipline, NEW a \in Attempts, NEW b \in Attempts,
                      a # b, statement[a] \in {"inflight", "committed"}
               PROVE  statement[b] \in {"unsent", "rolledback"}
    BY DEF RetryOnlyAfterRollback
  <2>1. \A x \in Attempts : statement[x] \in {"inflight", "committed"}
          => attempts[x].status \in BlockingStatuses
    BY DEF TypeOK, Attempt, AttemptStatuses, BlockingStatuses, ClaimDiscipline,
           SentOnlyByClaim, EvidenceIsTrue
  <2>2. statement[b] \notin {"inflight", "committed"}
    BY <2>1 DEF ClaimDiscipline, OneBlockingAttempt
  <2> QED
    BY <2>2 DEF TypeOK
<1> QED
  BY <1>1, TypeCorrect, ClaimIsDisciplined, PTL

\* What the control plane records as an attempt's outcome is its outcome.
THEOREM EvidenceNeverLies == Spec => []EvidenceIsTrue
<1>1. ClaimDiscipline => EvidenceIsTrue
  BY DEF ClaimDiscipline
<1> QED
  BY <1>1, ClaimIsDisciplined, PTL

\* The staging table is dropped after a recorded success, never before.
THEOREM StagingDroppedAfterSuccess == Spec => []StagingOutlivesDoubt
<1>1. ClaimDiscipline => StagingOutlivesDoubt
  BY DEF ClaimDiscipline
<1> QED
  BY <1>1, ClaimIsDisciplined, PTL

\* TargetExecution implements WriteOnce: every step is one of its steps, or
\* changes nothing it speaks of.
THEOREM WritesOnce == Spec => ImplementsWriteOnce
<1> DEFINE succeeded == \E a \in Attempts : attempts[a].status = "SUCCEEDED"
<1>1. Init => Once!Init
  BY DEF Init, Once!Init, NoRow
<1>2. TypeOK /\ ClaimDiscipline /\ [Next]_vars => [Once!Next]_(Once!onceVars)
  <2> SUFFICES ASSUME TypeOK, ClaimDiscipline, [Next]_vars
               PROVE  [Once!Next]_(Once!onceVars)
    OBVIOUS
  <2>1. ASSUME UNCHANGED <<commits, staging, attempts>>
        PROVE  [Once!Next]_(Once!onceVars)
    BY <2>1 DEF Once!onceVars
  <2>2. ASSUME NEW p \in Callers, ClaimNew(p) PROVE [Once!Next]_(Once!onceVars)
    <3>1. PICK a \in Attempts :
            /\ attempts[a].status = "ABSENT"
            /\ attempts' = [attempts EXCEPT ![a] =
                              [status |-> "CLAIMED", preview |-> call[p].preview,
                               expired |-> FALSE]]
      BY <2>2 DEF ClaimNew
    <3>2. \A b \in Attempts :
            attempts'[b].status = "SUCCEEDED" <=> attempts[b].status = "SUCCEEDED"
      BY <3>1 DEF TypeOK
    <3> QED
      BY <2>2, <3>2 DEF ClaimNew, targetVars, Once!onceVars
  <2>3. ASSUME NEW p \in Callers, MarkRunning(p) PROVE [Once!Next]_(Once!onceVars)
    <3>1. \A b \in Attempts :
            attempts'[b].status = "SUCCEEDED" <=> attempts[b].status = "SUCCEEDED"
      BY <2>3 DEF MarkRunning, TypeOK, Attempt
    <3> QED
      BY <2>3, <3>1 DEF MarkRunning, targetVars, Once!onceVars
  <2>4. ASSUME NEW a \in Attempts, Expire(a) PROVE [Once!Next]_(Once!onceVars)
    <3>1. \A b \in Attempts :
            attempts'[b].status = "SUCCEEDED" <=> attempts[b].status = "SUCCEEDED"
      BY <2>4 DEF Expire, TypeOK, Attempt
    <3> QED
      BY <2>4, <3>1 DEF Expire, targetVars, Once!onceVars
  <2>5. ASSUME NEW a \in Attempts, Target(a) PROVE [Once!Next]_(Once!onceVars)
    <3>1. CASE TargetCommit(a)
      <4>1. CommitsCounted'
        BY <2>5, ClaimStep DEF Next, Faultless, ClaimDiscipline
      <4>2. statement'[a] = "committed"
        BY <3>1 DEF TargetCommit, TypeOK
      <4>3. commits = 0 /\ commits' = 1
        BY <3>1, <4>1, <4>2 DEF CommitsCounted, TargetCommit, TypeOK
      <4> QED
        BY <3>1, <4>3 DEF TargetCommit, controlVars, Once!Next, Once!Write
    <3>2. CASE TargetRollback(a)
      BY <2>1, <3>2 DEF TargetRollback, controlVars
    <3> QED
      BY <2>5, <3>1, <3>2 DEF Target
  <2>6. ASSUME NEW p \in Callers, Complete(p) PROVE [Once!Next]_(Once!onceVars)
    <3> DEFINE a == call[p].attempt
               r == call[p].result
    <3>1. /\ a \in Attempts /\ attempts[a].status = "RUNNING"
          /\ r = "SUCCEEDED" => statement[a] = "committed"
      BY <2>6 DEF Complete, At, ClaimDiscipline, Backed
    <3>2. \A b \in Attempts :
            attempts'[b].status = IF b = a THEN r ELSE attempts[b].status
      BY <2>6, <3>1 DEF Complete, TypeOK, Attempt
    <3>3. UNCHANGED <<commits, staging>>
      BY <2>6 DEF Complete, targetVars
    <3>4. CASE r # "SUCCEEDED"
      BY <3>1, <3>2, <3>3, <3>4 DEF Once!onceVars
    <3>5. CASE r = "SUCCEEDED" /\ succeeded
      BY <3>1, <3>2, <3>3, <3>5 DEF Once!onceVars
    <3>6. CASE r = "SUCCEEDED" /\ ~succeeded
      <4>1. commits = 1
        BY <3>1, <3>6 DEF ClaimDiscipline, CommitsCounted
      <4>2. succeeded'
        BY <3>1, <3>2, <3>6
      <4> QED
        BY <3>3, <3>6, <4>1, <4>2 DEF Once!Next, Once!Report
    <3> QED
      BY <3>4, <3>5, <3>6
  <2>7. ASSUME NEW p \in Callers, Drop(p) \/ DropFails(p)
        PROVE  [Once!Next]_(Once!onceVars)
    <3>1. /\ UNCHANGED <<commits, attempts>> /\ staging' \in {staging, "dropped"}
          /\ call[p].step = "drop"
      BY <2>7 DEF Drop, DropFails, At, controlVars
    <3>2. succeeded
      BY <3>1 DEF ClaimDiscipline, Backed
    <3> QED
      BY <3>1, <3>2 DEF Once!Next, Once!Discard, Once!onceVars
  <2>8. ASSUME NEW p \in Callers,
               \/ Submit(p) \/ Lookup(p) \/ Check(p) \/ ClaimReplay(p) \/ ClaimRefused(p)
               \/ MarkLost(p) \/ Send(p) \/ Answer(p) \/ CompleteConflict(p)
               \/ CheckCleanup(p) \/ Reread(p) \/ RecordCleanup(p)
               \/ RecordCleanupSkipped(p) \/ Crash(p)
        PROVE  [Once!Next]_(Once!onceVars)
    <3>1. UNCHANGED <<commits, staging, attempts>>
      BY <2>8 DEF Submit, Lookup, Check, ClaimReplay, ClaimRefused, MarkLost, Send,
         Answer, CompleteConflict, CheckCleanup, Reread, RecordCleanup,
         RecordCleanupSkipped, Crash, controlVars, targetVars
    <3> QED
      BY <2>1, <3>1
  <2>9. CASE Others \/ UNCHANGED vars
    <3>1. UNCHANGED <<commits, staging, attempts>>
      BY <2>9 DEF Others, Transition, AppendApproval, AppendPreview, ClaimValidation,
                  vars, targetVars
    <3> QED
      BY <2>1, <3>1
  <2> QED
    BY <2>2, <2>3, <2>4, <2>5, <2>6, <2>7, <2>8, <2>9
       DEF Next, Faultless, Faults, Execute
<1> QED
  BY <1>1, <1>2, TypeCorrect, ClaimIsDisciplined, PTL DEF Spec, ImplementsWriteOnce, Once!Spec

----------------------------------------------------------------------------
(* The row and the attempts *)

\* A caller names no version that is still to come, and one about to claim has seen
\* the preview it names as the latest, if the row has not moved since.
Informed(c) ==
  c.step # "idle" =>
    /\ c.expected <= version
    /\ c.step = "claim" /\ c.expected = version => IsLatest(c.preview)

AllInformed == \A p \in Callers : Informed(call[p])

\* Whatever bumps the version leaves the commands behind.
LEMMA BumpInforms ==
  ASSUME TypeOK, AllInformed, version' = version + 1,
         \A q \in Callers : \/ call'[q].step = "idle"
                            \/ call'[q] = call[q]
                            \/ call'[q].step # "claim" /\ call[q].step # "idle"
                                 /\ call'[q].expected = call[q].expected
  PROVE  AllInformed'
<1> SUFFICES ASSUME NEW q \in Callers, call'[q].step # "idle"
             PROVE  /\ call'[q].expected <= version'
                    /\ ~(call'[q].step = "claim" /\ call'[q].expected = version')
  BY DEF AllInformed, Informed
<1>1. call'[q].expected = call[q].expected /\ call[q].step # "idle"
  OBVIOUS
<1>2. call[q].expected <= version /\ call[q].expected \in Nat /\ version \in Nat
  BY <1>1 DEF AllInformed, Informed, TypeOK, Call, CallShape
<1> QED
  BY <1>1, <1>2

\* A caller moves on with its command, the row does not move.
LEMMA MoveInforms ==
  ASSUME AllInformed, NEW p \in Callers, UNCHANGED <<version, approval, previews>>,
         \A q \in Callers : q # p => call'[q] = call[q],
         \/ call'[p].step = "idle"
         \/ /\ call[p].step # "idle"
            /\ call'[p].expected = call[p].expected
            /\ call'[p].step = "claim" /\ call[p].expected = version
                 => IsLatest(call'[p].preview)
  PROVE  AllInformed'
<1> SUFFICES ASSUME NEW q \in Callers PROVE Informed(call[q])'
  BY DEF AllInformed
<1>1. CASE q = p
  BY <1>1 DEF AllInformed, Informed, IsLatest
<1>2. CASE q # p
  BY <1>2 DEF AllInformed, Informed, IsLatest
<1> QED
  BY <1>1, <1>2

\* The steps of a caller that leave the workflow row alone.
Still(p) ==
  \/ Submit(p) \/ Lookup(p) \/ Check(p) \/ ClaimReplay(p) \/ ClaimRefused(p)
  \/ MarkRunning(p) \/ MarkLost(p) \/ Send(p) \/ Answer(p) \/ CompleteConflict(p)
  \/ CheckCleanup(p) \/ Drop(p) \/ DropFails(p) \/ Reread(p)
  \/ RecordCleanupSkipped(p) \/ Crash(p)

LEMMA StillInforms ==
  ASSUME TypeOK, ~Pipelined, AllInformed, NEW p \in Callers, Still(p)
  PROVE  AllInformed'
<1>1. UNCHANGED <<version, approval, previews>>
  BY DEF Still, Submit, Lookup, Check, ClaimReplay, ClaimRefused, MarkRunning, MarkLost,
     Send, Answer, CompleteConflict, CheckCleanup, Drop, DropFails, Reread,
     RecordCleanupSkipped, Crash, controlVars, rowVars, artifacts
<1>2. CASE Submit(p)
  <2>1. PICK k \in Keys, i \in 1..Len(previews), e \in 1..version :
          call' = [call EXCEPT ![p] =
                     [IdleCall EXCEPT !.step = "lookup", !.key = k,
                                      !.expected = e, !.preview = i]]
    BY <1>2 DEF Submit
  <2>2. /\ call'[p].step = "lookup" /\ call'[p].expected = e
        /\ \A q \in Callers : q # p => call'[q] = call[q]
    BY <2>1 DEF IdleCall, TypeOK
  <2>3. e <= version
    BY DEF TypeOK
  <2> QED
    BY <1>1, <2>2, <2>3 DEF AllInformed, Informed, IsLatest
<1>3. CASE Respond(p)
  <2>1. call'[p].step = "idle" /\ \A q \in Callers : q # p => call'[q] = call[q]
    BY <1>3 DEF Respond, IdleCall, TypeOK
  <2> QED
    BY <1>1, <2>1, MoveInforms
<1>4. CASE Check(p) /\ ~Respond(p)
  <2>1. /\ call'[p].expected = call[p].expected /\ call'[p].preview = call[p].preview
        /\ \A q \in Callers : q # p => call'[q] = call[q]
    BY <1>4 DEF Check, Goto, TypeOK, Call, CallShape
  <2>2. call[p].step # "idle" /\ (call[p].expected = version => IsLatest(call[p].preview))
    BY <1>4 DEF Check, At
  <2> QED
    BY <1>1, <2>1, <2>2, MoveInforms
<1>5. CASE ~Submit(p) /\ ~Check(p) /\ ~Respond(p)
  <2>1. /\ call'[p].expected = call[p].expected /\ call'[p].step # "claim"
        /\ \A q \in Callers : q # p => call'[q] = call[q]
    <3>1. CASE Lookup(p) \/ ClaimReplay(p)
      BY <1>5, <3>1 DEF Lookup, ClaimReplay, Replay, Goto, At, TypeOK, Call, CallShape
    <3>2. CASE MarkRunning(p) \/ MarkLost(p) \/ Send(p) \/ Answer(p)
      BY <1>5, <3>2 DEF MarkRunning, MarkLost, Send, Answer, Goto, At, TypeOK, Call, CallShape
    <3>3. CASE CheckCleanup(p) \/ Drop(p) \/ Reread(p)
      BY <1>5, <3>3 DEF CheckCleanup, Drop, Reread, Goto, At, TypeOK, Call, CallShape
    <3> QED
      BY <1>5, <3>1, <3>2, <3>3 DEF Still, ClaimRefused, CompleteConflict, DropFails,
         RecordCleanupSkipped, Crash
  <2>2. call[p].step # "idle"
    BY <1>5 DEF Still, Lookup, ClaimReplay, ClaimRefused, MarkRunning, MarkLost, Send, Answer,
       CompleteConflict, CheckCleanup, Drop, DropFails, Reread, RecordCleanupSkipped, Crash, At
  <2> QED
    BY <1>1, <2>1, <2>2, MoveInforms
<1> QED
  BY <1>2, <1>3, <1>4, <1>5

Open == {"CLAIMED", "RUNNING"}

\* The row and the attempts as each other's shadows; that a success was committed is
\* the discipline's.
RowShadows ==
  /\ status \in {"EXECUTED", "VALIDATING"} =>
       \E a \in Attempts : attempts[a].status = "SUCCEEDED"
  /\ RunningPlanIsLatest
  /\ OpenAttemptMatchesStatus

LEMMA SameAttempts ==
  ASSUME RowShadows, UNCHANGED <<status, approval, previews>>,
         \A a \in Attempts : /\ attempts'[a].preview = attempts[a].preview
                             /\ attempts[a].status \in Open <=> attempts'[a].status \in Open
                             /\ attempts[a].status = "SUCCEEDED"
                                  => attempts'[a].status = "SUCCEEDED"
  PROVE  RowShadows'
<1>1. RunningPlanIsLatest'
  BY DEF RowShadows, RunningPlanIsLatest, IsLatest, Open
<1>2. OpenAttemptMatchesStatus'
  BY DEF RowShadows, OpenAttemptMatchesStatus, Open
<1> QED
  BY <1>1, <1>2 DEF RowShadows

LEMMA StillShadows ==
  ASSUME TypeOK, RowShadows, NEW p \in Callers, Still(p)
  PROVE  RowShadows'
<1>1. CASE MarkRunning(p)
  <2>1. UNCHANGED <<status, approval, previews>>
    BY <1>1 DEF MarkRunning, rowVars, artifacts
  <2>2. \A a \in Attempts :
          /\ attempts'[a].preview = attempts[a].preview
          /\ attempts[a].status \in Open <=> attempts'[a].status \in Open
          /\ attempts[a].status = "SUCCEEDED" => attempts'[a].status = "SUCCEEDED"
    BY <1>1 DEF MarkRunning, TypeOK, Attempt, Open
  <2> QED
    BY <2>1, <2>2, SameAttempts
<1>2. CASE UNCHANGED controlVars
  BY <1>2, SameAttempts DEF controlVars
<1> QED
  BY <1>1, <1>2 DEF Still, Submit, Lookup, Check, ClaimReplay, ClaimRefused, MarkLost,
     Send, Answer, CompleteConflict, CheckCleanup, Drop, DropFails, Reread,
     RecordCleanupSkipped, Crash

\* A claim is made for the preview that is the latest.
LEMMA ClaimIsInformed ==
  ASSUME AllInformed, NEW p \in Callers, ClaimNew(p)
  PROVE  IsLatest(call[p].preview)
  BY DEF ClaimNew, At, AllInformed, Informed

LEMMA RowStep ==
  ASSUME TypeOK, ClaimDiscipline, ~Pipelined, AllInformed, RowShadows, [Next]_vars
  PROVE  AllInformed' /\ RowShadows'
<1>1. ASSUME NEW p \in Callers, Still(p) PROVE AllInformed' /\ RowShadows'
  BY <1>1, StillInforms, StillShadows
<1>2. ASSUME NEW p \in Callers, ClaimNew(p) PROVE AllInformed' /\ RowShadows'
  <2>1. PICK a \in Attempts :
          /\ attempts' = [attempts EXCEPT ![a] =
                            [status |-> "CLAIMED", preview |-> call[p].preview,
                             expired |-> FALSE]]
          /\ call' = [call EXCEPT ![p].step = "mark", ![p].attempt = a,
                                  ![p].seen = version + 1]
    BY <1>2 DEF ClaimNew
  <2>2. /\ attempts'[a].status = "CLAIMED" /\ attempts'[a].preview = call[p].preview
        /\ \A b \in Attempts : b # a => attempts'[b] = attempts[b]
        /\ status' = "EXECUTING" /\ approval' = approval /\ previews' = previews
    BY <1>2, <2>1 DEF ClaimNew, TypeOK, artifacts
  <2>3. \A b \in Attempts : b # a => attempts'[b].status \notin Open
    BY <1>2, <2>2 DEF ClaimNew, NoBlockingAttempt, BlockingStatuses, Open
  <2>4. RowShadows'
    BY <1>2, <2>2, <2>3, ClaimIsInformed
       DEF RowShadows, RunningPlanIsLatest, OpenAttemptMatchesStatus, IsLatest, Open
  <2>5. /\ call'[p].step # "claim" /\ call'[p].expected = call[p].expected
        /\ \A q \in Callers : q # p => call'[q] = call[q]
    BY <2>1 DEF TypeOK, Call, CallShape
  <2>6. call[p].step # "idle" /\ version' = version + 1
    BY <1>2 DEF ClaimNew, At, Bump
  <2> QED
    BY <2>4, <2>5, <2>6, BumpInforms
<1>3. ASSUME NEW p \in Callers, Complete(p) PROVE AllInformed' /\ RowShadows'
  <2> DEFINE a == call[p].attempt
             r == call[p].result
  <2>1. a \in Attempts /\ attempts[a].status = "RUNNING" /\ r \in TerminalStatuses
    BY <1>3 DEF Complete, At, ClaimDiscipline, Backed, TypeOK, Call, CallShape
  <2>2. \A b \in Attempts : b # a => attempts[b].status \notin Open
    BY <2>1 DEF ClaimDiscipline, OneBlockingAttempt, BlockingStatuses, Open
  <2>3. /\ \A b \in Attempts :
             attempts'[b].status = IF b = a THEN r ELSE attempts[b].status
        /\ status' = StatusAfter(r)
    BY <1>3, <2>1 DEF Complete, TypeOK, Attempt
  <2> HIDE DEF a, r
  <2>4. status' # "EXECUTING" /\ (status' \in {"EXECUTED", "VALIDATING"} => r = "SUCCEEDED")
    BY <2>1, <2>3 DEF StatusAfter, TerminalStatuses
  <2>5. \A b \in Attempts : attempts'[b].status \notin Open
    BY <2>1, <2>2, <2>3 DEF Open, TerminalStatuses
  <2>6. RowShadows'
    BY <2>1, <2>3, <2>4, <2>5 DEF RowShadows, RunningPlanIsLatest, OpenAttemptMatchesStatus,
       Open
  <2>7. \A q \in Callers : q # p => call'[q] = call[q]
    BY <1>3 DEF Complete, Respond, Goto, TypeOK
  <2>8. \/ call'[p].step = "idle"
        \/ call'[p].step # "claim" /\ call'[p].expected = call[p].expected
    BY <1>3 DEF Complete, Respond, IdleCall, Goto, TypeOK, Call, CallShape
  <2>9. call[p].step # "idle" /\ version' = version + 1
    BY <1>3 DEF Complete, At, Bump
  <2> QED
    BY <2>6, <2>7, <2>8, <2>9, BumpInforms
<1>4. ASSUME NEW p \in Callers, RecordCleanup(p) PROVE AllInformed' /\ RowShadows'
  <2>1. UNCHANGED <<status, approval, previews, attempts>> /\ version' = version + 1
    BY <1>4 DEF RecordCleanup, artifacts, Bump
  <2>2. call'[p].step = "idle" /\ \A q \in Callers : q # p => call'[q] = call[q]
    BY <1>4 DEF RecordCleanup, Respond, IdleCall, TypeOK
  <2> QED
    BY <2>1, <2>2, BumpInforms, SameAttempts
<1>5. ASSUME NEW a \in Attempts, Expire(a) \/ Target(a) PROVE AllInformed' /\ RowShadows'
  <2>1. UNCHANGED <<status, version, approval, previews, call>>
    BY <1>5 DEF Expire, Target, TargetCommit, TargetRollback, controlVars, rowVars, artifacts
  <2>2. \A b \in Attempts : /\ attempts'[b].status = attempts[b].status
                            /\ attempts'[b].preview = attempts[b].preview
    <3>1. CASE Expire(a)
      BY <3>1 DEF Expire, TypeOK, Attempt
    <3>2. CASE Target(a)
      BY <3>2 DEF Target, TargetCommit, TargetRollback, controlVars
    <3> QED
      BY <1>5, <3>1, <3>2
  <2>3. RowShadows'
    BY <2>1, <2>2, SameAttempts
  <2> QED
    BY <2>1, <2>3 DEF AllInformed, Informed, IsLatest
<1>6. CASE Others
  <2>1. version' = version + 1 /\ call' = call /\ attempts' = attempts
    BY <1>6 DEF Others, Transition, AppendApproval, AppendPreview, ClaimValidation, Bump
  <2>2. AllInformed'
    BY <2>1, BumpInforms
  <2>3. CASE \E t \in Statuses : Transition(t)
    <3>1. /\ UNCHANGED <<approval, previews>> /\ status # "EXECUTING"
          /\ status' \notin ManagedStatuses
      BY <2>3 DEF Transition, MayRequest, artifacts
    <3>2. status' \notin {"EXECUTING", "EXECUTED", "VALIDATING"}
      BY <3>1 DEF ManagedStatuses
    <3> QED
      BY <2>1, <2>2, <3>1, <3>2 DEF RowShadows, RunningPlanIsLatest, OpenAttemptMatchesStatus
  <2>4. CASE AppendApproval \/ \E b \in 1..approval : AppendPreview(b)
    <3>1. status' = status /\ status # "EXECUTING"
      BY <2>4 DEF AppendApproval, AppendPreview, CanAppend, MayAppend
    <3> QED
      BY <2>1, <2>2, <3>1 DEF RowShadows, RunningPlanIsLatest, OpenAttemptMatchesStatus
  <2>5. CASE ClaimValidation
    <3>1. status = "EXECUTED" /\ status' = "VALIDATING"
      BY <2>5 DEF ClaimValidation
    <3> QED
      BY <2>1, <2>2, <3>1 DEF RowShadows, RunningPlanIsLatest, OpenAttemptMatchesStatus
  <2> QED
    BY <1>6, <2>3, <2>4, <2>5 DEF Others
<1>7. CASE UNCHANGED vars
  BY <1>7, SameAttempts DEF vars, AllInformed, Informed, IsLatest
<1> QED
  BY <1>1, <1>2, <1>3, <1>4, <1>5, <1>6, <1>7 DEF Next, Faultless, Faults, Execute, Still

LEMMA RowFactsHold == ~Pipelined => (Spec => [](AllInformed /\ RowShadows))
<1> SUFFICES ASSUME ~Pipelined PROVE Spec => [](AllInformed /\ RowShadows)
  OBVIOUS
<1>1. Init => AllInformed /\ RowShadows
  BY DEF Init, AllInformed, Informed, IdleCall, RowShadows, RunningPlanIsLatest,
     OpenAttemptMatchesStatus, NoRow
<1>2. TypeOK /\ ClaimDiscipline /\ AllInformed /\ RowShadows /\ [Next]_vars
        => AllInformed' /\ RowShadows'
  BY RowStep
<1> QED
  BY <1>1, <1>2, TypeCorrect, ClaimIsDisciplined, PTL DEF Spec

\* EXECUTING is shown exactly while an attempt is open, the open attempt runs the
\* latest plan, and a workflow is shown as executed only over committed rows.
THEOREM RowShowsAttempts == ~Pipelined => (Spec => []RowMatchesAttempts)
<1> SUFFICES ASSUME ~Pipelined PROVE Spec => []RowMatchesAttempts
  OBVIOUS
<1>1. ClaimDiscipline /\ RowShadows => RowMatchesAttempts
  BY DEF RowShadows, RowMatchesAttempts, ExecutedMeansCommitted, ClaimDiscipline, EvidenceIsTrue
<1> QED
  BY <1>1, ClaimIsDisciplined, RowFactsHold, PTL

\* The preview an attempt is claimed for is the latest, of the latest approval, at that
\* moment, although it was compared before the claim takes the row lock.
THEOREM AttemptsAreOfTheLatest == ~Pipelined => (Spec => ClaimUsesLatestPlan)
<1> SUFFICES ASSUME ~Pipelined PROVE Spec => ClaimUsesLatestPlan
  OBVIOUS
<1>1. ASSUME TypeOK, ClaimDiscipline, AllInformed, [Next]_vars, NEW a \in Attempts,
             attempts[a].status = "ABSENT", attempts'[a].status = "CLAIMED"
      PROVE  IsLatest(attempts'[a].preview)
  <2>1. ASSUME NEW p \in Callers, ClaimNew(p) PROVE IsLatest(attempts'[a].preview)
    <3>1. PICK b \in Attempts :
            attempts' = [attempts EXCEPT ![b] =
                           [status |-> "CLAIMED", preview |-> call[p].preview,
                            expired |-> FALSE]]
      BY <2>1 DEF ClaimNew
    <3>2. a = b
      BY <1>1, <3>1 DEF TypeOK
    <3> QED
      BY <1>1, <2>1, <3>1, <3>2, ClaimIsInformed DEF TypeOK
  <2>2. ~\E p \in Callers : MarkRunning(p) \/ Complete(p)
    BY <1>1 DEF MarkRunning, Complete, TypeOK, Attempt, Call, CallShape, TerminalStatuses
  <2>3. ~\E b \in Attempts : Expire(b)
    BY <1>1 DEF Expire, TypeOK, Attempt
  <2>4. ~UNCHANGED attempts
    BY <1>1
  <2> QED
    BY <1>1, <2>1, <2>2, <2>3, <2>4 DEF Next, Faultless, Faults, Execute, Submit, Lookup,
       Check, ClaimReplay, ClaimRefused, MarkLost, Send, Answer, CompleteConflict,
       CheckCleanup, Drop, DropFails, Reread, RecordCleanup, RecordCleanupSkipped, Crash,
       Target, TargetCommit, TargetRollback, Others, Transition, AppendApproval,
       AppendPreview, ClaimValidation, controlVars, vars
<1>2. TypeOK /\ ClaimDiscipline /\ AllInformed /\ [Next]_vars
        => [\A a \in Attempts :
              attempts[a].status = "ABSENT" /\ attempts'[a].status = "CLAIMED"
                => IsLatest(attempts'[a].preview)]_vars
  BY <1>1
<1> QED
  BY <1>2, TypeCorrect, ClaimIsDisciplined, RowFactsHold, PTL DEF Spec, ClaimUsesLatestPlan
=============================================================================
