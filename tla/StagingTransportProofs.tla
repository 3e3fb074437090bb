----------------------- MODULE StagingTransportProofs -----------------------
(***************************************************************************)
(* The safety of StagingTransport for every set of callers, keys and       *)
(* attempts, every number of batches, with and without pipelining clients, *)
(* late statements and crashes: first the types and what follows from      *)
(* them, then LoadDiscipline, which is inductive relative to the types and *)
(* implies that StagingTransport implements CertifiedCopy.                 *)
(***************************************************************************)
EXTENDS StagingTransport, TLAPS

\* The part of TypeOK that speaks of the callers.
CallsTyped ==
  /\ call \in [Callers -> Call]
  /\ \A p \in Callers : call[p].step # "idle" => call[p].key \in Keys

LEMMA IdleCallType == IdleCall \in Call /\ IdleCall.step = "idle"
  BY DEF IdleCall, Call, Steps, TerminalStatuses

\* A new command makes a well-formed caller.
LEMMA SubmitType ==
  ASSUME NEW k \in Keys, NEW e \in Nat, NEW b \in Nat
  PROVE  LET c == [IdleCall EXCEPT !.step = "lookup", !.key = k,
                                   !.expected = e, !.approval = b]
         IN  c \in Call /\ c.key \in Keys
  BY DEF IdleCall, Call, Steps, TerminalStatuses

\* A caller stays well formed, and keeps its key, whatever step, attempt, version,
\* batch count or result it picks up.
LEMMA StepUpdate ==
  ASSUME NEW c \in Call, NEW s \in Steps
  PROVE  [c EXCEPT !.step = s] \in Call /\ [c EXCEPT !.step = s].key = c.key
  BY DEF Call

LEMMA ResultUpdate ==
  ASSUME NEW c \in Call, NEW s \in Steps, NEW r \in TerminalStatuses
  PROVE  /\ [c EXCEPT !.step = s, !.result = r] \in Call
         /\ [c EXCEPT !.step = s, !.result = r].key = c.key
  BY DEF Call

LEMMA BatchUpdate ==
  ASSUME NEW c \in Call
  PROVE  /\ [c EXCEPT !.batch = c.batch + 1] \in Call
         /\ [c EXCEPT !.batch = c.batch + 1].key = c.key
  BY DEF Call

\* The callers stay well formed when one of them does.
LEMMA CallsUpdate ==
  ASSUME TypeOK, NEW p \in Callers, NEW c \in Call,
         c.step # "idle" => c.key \in Keys,
         call' = [call EXCEPT ![p] = c]
  PROVE  CallsTyped'
  BY DEF TypeOK, CallsTyped

LEMMA GotoType ==
  ASSUME TypeOK, NEW p \in Callers, NEW s \in Steps, ~At(p, "idle"), Goto(p, s)
  PROVE  CallsTyped'
  <1> DEFINE c == [call[p] EXCEPT !.step = s]
  <1>1. c \in Call /\ c.key \in Keys
    BY StepUpdate DEF TypeOK, At
  <1>2. call' = [call EXCEPT ![p] = c]
    BY DEF Goto
  <1> QED
    BY <1>1, <1>2, CallsUpdate

LEMMA FinishType ==
  ASSUME TypeOK, NEW p \in Callers, NEW r \in TerminalStatuses, ~At(p, "idle"),
         Finish(p, r)
  PROVE  CallsTyped'
  <1> DEFINE c == [call[p] EXCEPT !.step = "complete", !.result = r]
  <1>1. "complete" \in Steps
    BY DEF Steps
  <1>2. call[p] \in Call /\ call[p].key \in Keys
    BY DEF TypeOK, At
  <1>4. c \in Call /\ c.key \in Keys
    BY <1>1, <1>2, ResultUpdate
  <1>3. call' = [call EXCEPT ![p] = c]
    BY DEF Finish
  <1> QED
    BY <1>3, <1>4, CallsUpdate

LEMMA RespondType ==
  ASSUME TypeOK, NEW p \in Callers, Respond(p)
  PROVE  CallsTyped'
  BY IdleCallType, CallsUpdate DEF Respond

LEMMA BumpType ==
  ASSUME TypeOK, NEW b \in BOOLEAN, Bump(b)
  PROVE  version' \in Nat /\ appended' \in BOOLEAN
  BY DEF TypeOK, Bump

\* What a statement does to a table leaves the tables well formed.
LEMMA TablesType ==
  ASSUME TypeOK, NEW t \in Attempts
  PROVE  /\ Created(t) \in [Attempts -> Table]
         /\ Inserted(t) \in [Attempts -> Table]
         /\ Dropped(t) \in [Attempts -> Table]
  <1>1. tables[t].exists \in BOOLEAN /\ tables[t].batches \in Nat
    BY DEF TypeOK, Table
  <1>2. /\ [exists |-> TRUE, batches |-> tables[t].batches] \in Table
        /\ [exists |-> tables[t].exists, batches |-> tables[t].batches + 1] \in Table
        /\ NoTable \in Table
    BY <1>1 DEF Table, NoTable
  <1> QED
    BY <1>2 DEF TypeOK, Created, Inserted, Dropped

\* A step keeps the types of what it does not name.
LEMMA ControlUnchangedType ==
  ASSUME TypeOK, UNCHANGED controlVars, CallsTyped',
         tables' \in [Attempts -> Table],
         late' \in [Attempts -> {"none", "create", "insert"}]
  PROVE  TypeOK'
  BY DEF TypeOK, CallsTyped, controlVars

\* A table is named by the attempt the caller holds; where it holds none, the
\* update changes nothing.
LEMMA TargetUpdateType ==
  ASSUME TypeOK, NEW t
  PROVE  /\ Created(t) \in [Attempts -> Table]
         /\ Inserted(t) \in [Attempts -> Table]
         /\ Dropped(t) \in [Attempts -> Table]
         /\ \A k \in {"none", "create", "insert"} :
              [late EXCEPT ![t] = k] \in [Attempts -> {"none", "create", "insert"}]
  <1>1. CASE t \in Attempts
    BY <1>1, TablesType DEF TypeOK
  <1>2. CASE t \notin Attempts
    BY <1>2 DEF TypeOK, Created, Inserted, Dropped
  <1> QED
    BY <1>1, <1>2

\* StagingTransport keeps every variable within its type: the rows of the
\* control plane, the staging tables and the local state of a caller.
THEOREM TypeCorrect == Spec => []TypeOK
<1> USE TransportConstants
<1>1. Init => TypeOK
  BY IdleCallType DEF Init, TypeOK, Statuses, Withdrawn, Attempt, NoRow, IdemRecord,
     NoRecord, AttemptStatuses, Table, NoTable
<1>2. TypeOK /\ [Next]_vars => TypeOK'
  <2> SUFFICES ASSUME TypeOK, [Next]_vars PROVE TypeOK'
    OBVIOUS
  <2>0. /\ {"check", "claim", "mark", "create", "load", "drop", "complete"} \subseteq Steps
        /\ TerminalStatuses = {"SUCCEEDED", "FAILED_CLEANED_UP", "OUTCOME_UNCERTAIN"}
        /\ UNCHANGED targetVars =>
             /\ tables' \in [Attempts -> Table]
             /\ late' \in [Attempts -> {"none", "create", "insert"}]
    BY DEF Steps, TerminalStatuses, targetVars, TypeOK
  <2>1. ASSUME NEW p \in Callers, Submit(p) PROVE TypeOK'
    <3>1. PICK k \in Keys, b \in 1..approval,
               e \in 1..(IF Pipelined THEN version + 1 ELSE version) :
            call' = [call EXCEPT ![p] =
                       [IdleCall EXCEPT !.step = "lookup", !.key = k,
                                        !.expected = e, !.approval = b]]
      BY <2>1 DEF Submit
    <3>2. b \in Nat /\ e \in Nat
      OBVIOUS
    <3>3. CallsTyped'
      BY <3>1, <3>2, SubmitType, CallsUpdate
    <3> QED
      BY <2>0, <2>1, <3>3, ControlUnchangedType DEF Submit
  <2>2. ASSUME NEW p \in Callers,
               \/ Lookup(p) \/ Check(p) \/ ClaimNotAcquired(p)
               \/ CompleteConflict(p) \/ Crash(p)
        PROVE  TypeOK'
    <3>1. CallsTyped'
      BY <2>0, <2>2, GotoType, RespondType
         DEF Lookup, Check, ClaimNotAcquired, CompleteConflict, Crash, At
    <3>2. UNCHANGED <<controlVars, targetVars>>
      BY <2>2 DEF Lookup, Check, ClaimNotAcquired, CompleteConflict, Crash
    <3> QED
      BY <2>0, <3>1, <3>2, ControlUnchangedType
  <2>3. ASSUME NEW p \in Callers, ClaimNew(p) PROVE TypeOK'
    <3>1. PICK a \in Attempts :
            /\ attempts' = [attempts EXCEPT ![a] =
                              [status |-> "CLAIMED", approval |-> call[p].approval]]
            /\ idem' = [idem EXCEPT ![call[p].key] =
                          [expected |-> call[p].expected,
                           approval |-> call[p].approval, attempt |-> a]]
            /\ call' = [call EXCEPT ![p].step = "mark", ![p].attempt = a,
                                    ![p].seen = version + 1]
      BY <2>3 DEF ClaimNew
    <3> DEFINE c == [call[p] EXCEPT !.step = "mark", !.attempt = a, !.seen = version + 1]
    <3>2. c \in Call /\ c.key \in Keys
      <4>1. version + 1 \in Nat /\ call[p] \in Call /\ call[p].key \in Keys
        BY <2>3 DEF ClaimNew, At, TypeOK
      <4>2. "mark" \in Steps
        BY DEF Steps
      <4> QED
        BY <4>1, <4>2 DEF Call
    <3>3. CallsTyped'
      <4>1. call' = [call EXCEPT ![p] = c]
        BY <3>1
      <4> QED
        BY <3>2, <4>1, CallsUpdate
    <3>4. call[p].approval \in Nat /\ call[p].expected \in Nat
      BY DEF TypeOK, Call
    <3>5. attempts' \in [Attempts -> Attempt] /\ idem' \in [Keys -> IdemRecord]
      BY <3>1, <3>4 DEF TypeOK, Attempt, AttemptStatuses, IdemRecord
    <3>6. status' \in Statuses
      BY <2>3 DEF ClaimNew, Statuses
    <3>7. version' \in Nat /\ appended' \in BOOLEAN
      BY <2>3, BumpType DEF ClaimNew
    <3> QED
      BY <2>3, <3>3, <3>5, <3>6, <3>7 DEF ClaimNew, targetVars, TypeOK, CallsTyped
  <2>4. ASSUME NEW p \in Callers, MarkRunning(p) PROVE TypeOK'
    <3>1. CallsTyped'
      BY <2>0, <2>4, GotoType, RespondType DEF MarkRunning, At
    <3>2. attempts' \in [Attempts -> Attempt]
      <4> DEFINE a == call[p].attempt
      <4>1. a \in Attempts => [attempts[a] EXCEPT !.status = "RUNNING"] \in Attempt
        BY DEF TypeOK, Attempt, AttemptStatuses
      <4> QED
        BY <2>4, <4>1 DEF MarkRunning, TypeOK
    <3> QED
      BY <2>4, <3>1, <3>2 DEF MarkRunning, rowVars, targetVars, TypeOK, CallsTyped
  <2>5. ASSUME NEW p \in Callers, Remote(p) PROVE TypeOK'
    <3> DEFINE t == TableOf(call[p].attempt)
    <3>1. UNCHANGED controlVars
      BY <2>5 DEF Remote, CreateTable, WriteBatch, LoadDone, LoadFails, DropTable,
                  DropFails, RunRaises
    <3>2. CallsTyped'
      <4>1. CASE WriteBatch(p)
        <5> DEFINE c == [call[p] EXCEPT !.batch = call[p].batch + 1]
        <5>1. call[p] \in Call /\ call[p].step = "load" /\ call[p].key \in Keys
          BY <4>1 DEF WriteBatch, At, TypeOK
        <5>2. c \in Call /\ c.key \in Keys
          BY <5>1, BatchUpdate
        <5>3. call' = [call EXCEPT ![p] = c]
          BY <4>1 DEF WriteBatch
        <5> QED
          BY <5>2, <5>3, CallsUpdate
      <4>2. CASE ~WriteBatch(p)
        BY <2>0, <2>5, <4>2, GotoType, FinishType
           DEF Remote, CreateTable, LoadDone, LoadFails, DropTable, DropFails,
               RunRaises, At
      <4> QED
        BY <4>1, <4>2
    <3>3. Applied(p) \in [Attempts -> Table]
      BY TargetUpdateType DEF Applied, TypeOK
    <3>4. tables' \in {tables, Applied(p), Created(t), Inserted(t), Dropped(t)}
      BY <2>5 DEF Remote, CreateTable, WriteBatch, LoadDone, LoadFails, DropTable,
                  DropFails, RunRaises, targetVars
    <3>5. late' \in {late, [late EXCEPT ![t] = "create"], [late EXCEPT ![t] = "insert"]}
      BY <2>5 DEF Remote, CreateTable, WriteBatch, LoadDone, LoadFails, DropTable,
                  DropFails, RunRaises, targetVars
    <3>6. /\ tables' \in [Attempts -> Table]
          /\ late' \in [Attempts -> {"none", "create", "insert"}]
      BY <3>3, <3>4, <3>5, TargetUpdateType DEF TypeOK
    <3> QED
      BY <3>1, <3>2, <3>6, ControlUnchangedType
  <2>6. ASSUME NEW p \in Callers, Complete(p) PROVE TypeOK'
    <3> DEFINE a == call[p].attempt
               r == call[p].result
    <3>1. CallsTyped'
      BY <2>6, RespondType DEF Complete
    <3>2. r \in TerminalStatuses /\ a \in Attempts \cup {None}
      BY DEF TypeOK, Call
    <3>3. attempts' \in [Attempts -> Attempt]
      <4>1. a \in Attempts => [attempts[a] EXCEPT !.status = r] \in Attempt
        BY <3>2 DEF TypeOK, Attempt, AttemptStatuses, TerminalStatuses
      <4> QED
        BY <2>6, <4>1 DEF Complete, TypeOK
    <3>4. evidence' \in Attempts \cup {None}
      BY <2>6, <3>2 DEF Complete, TypeOK
    <3>5. status' \in Statuses
      BY <2>6 DEF Complete, StatusAfter, Statuses
    <3>6. version' \in Nat /\ appended' \in BOOLEAN
      BY <2>6, BumpType DEF Complete
    <3> QED
      BY <2>6, <3>1, <3>3, <3>4, <3>5, <3>6 DEF Complete, targetVars, TypeOK, CallsTyped
  <2>7. ASSUME NEW t \in Attempts, Lands(t) PROVE TypeOK'
    <3>1. CallsTyped' /\ UNCHANGED controlVars
      BY <2>7 DEF Lands, TypeOK, CallsTyped
    <3>2. /\ tables' \in [Attempts -> Table]
          /\ late' \in [Attempts -> {"none", "create", "insert"}]
      BY <2>7, TargetUpdateType DEF Lands, TypeOK
    <3> QED
      BY <3>1, <3>2, ControlUnchangedType
  <2>8. CASE Others
    <3>1. version' \in Nat /\ appended' \in BOOLEAN
      BY <2>8, BumpType DEF Others, Transition, AppendApproval, AppendOther, Preview
    <3>2. status' \in Statuses
      BY <2>8 DEF Others, Transition, AppendApproval, AppendOther, Preview, TypeOK, Statuses
    <3>4. approval' \in Nat
      <4>1. approval' \in {approval, approval + 1}
        BY <2>8 DEF Others, Transition, AppendApproval, AppendOther, Preview
      <4> QED
        BY <4>1 DEF TypeOK
    <3>3. UNCHANGED <<attempts, idem, evidence, targetVars, call>>
      BY <2>8 DEF Others, Transition, AppendApproval, AppendOther, Preview
    <3> QED
      BY <3>1, <3>2, <3>3, <3>4 DEF targetVars, TypeOK
  <2>9. CASE UNCHANGED vars
    BY <2>9 DEF vars, TypeOK
  <2> QED
    BY <2>1, <2>2, <2>3, <2>4, <2>5, <2>6, <2>7, <2>8, <2>9 DEF Next, Run
<1> QED
  BY <1>1, <1>2, PTL DEF Spec

----------------------------------------------------------------------------
(* LoadDiscipline *)

\* LoadDiscipline reads these variables and the callers, nothing else.
durable == <<attempts, evidence, tables, late>>

\* A step that leaves the durable variables and the callers alone.
LEMMA FrameKeepsDiscipline ==
  ASSUME LoadDiscipline, UNCHANGED <<durable, call>>
  PROVE  LoadDiscipline'
  BY DEF LoadDiscipline, OneBlockingAttempt, EvidenceNamesSuccess, TablesMatchAttempts,
         Untouched, HoldsAll, Backed, OneWorker, durable

\* A caller that holds no attempt may move as it likes.
LEMMA RestKeepsDiscipline ==
  ASSUME TypeOK, LoadDiscipline, NEW p \in Callers, UNCHANGED durable,
         \A q \in Callers : q # p => call'[q] = call[q],
         call'[p].step \in {"idle", "lookup", "check", "claim"},
         call'[p].step # "idle" => call'[p].batch = 0
  PROVE  LoadDiscipline'
  <1>1. OneBlockingAttempt' /\ EvidenceNamesSuccess' /\ TablesMatchAttempts'
    BY DEF LoadDiscipline, OneBlockingAttempt, EvidenceNamesSuccess,
           TablesMatchAttempts, Untouched, HoldsAll, durable
  <1>2. (\A q \in Callers : Backed(call[q]))'
    <2> SUFFICES ASSUME NEW q \in Callers PROVE Backed(call[q])'
      OBVIOUS
    <2>1. CASE q = p
      BY <2>1 DEF Backed, Working
    <2>2. CASE q # p
      <3>1. Backed(call[q]) /\ call'[q] = call[q]
        BY <2>2 DEF LoadDiscipline
      <3> QED
        BY <3>1 DEF Backed, Untouched, HoldsAll, durable
    <2> QED
      BY <2>1, <2>2
  <1>3. OneWorker'
    BY DEF LoadDiscipline, OneWorker, Working
  <1> QED
    BY <1>1, <1>2, <1>3 DEF LoadDiscipline

LEMMA RespondKeepsDiscipline ==
  ASSUME TypeOK, LoadDiscipline, NEW p \in Callers, Respond(p), UNCHANGED durable
  PROVE  LoadDiscipline'
  <1>1. call'[p].step = "idle" /\ \A q \in Callers : q # p => call'[q] = call[q]
    BY DEF Respond, IdleCall, TypeOK
  <1> QED
    BY <1>1, RestKeepsDiscipline

\* A caller at work on its running attempt may do to that attempt's table what
\* its next step allows: nobody else works on it, and it is not certified.
LEMMA WorkKeepsDiscipline ==
  ASSUME TypeOK, LoadDiscipline, NEW p \in Callers,
         call[p].step \in Working \ {"mark"},
         \A q \in Callers : q # p => call'[q] = call[q],
         call'[p].attempt = call[p].attempt,
         \A b \in Attempts : b # call[p].attempt =>
           tables'[b] = tables[b] /\ late'[b] = late[b],
         UNCHANGED <<attempts, evidence>>,
         Backed(call[p])'
  PROVE  LoadDiscipline'
  <1> DEFINE a == call[p].attempt
  <1>1. a \in Attempts /\ attempts[a].status = "RUNNING"
    BY DEF LoadDiscipline, Backed
  <1>2. OneBlockingAttempt' /\ EvidenceNamesSuccess'
    BY DEF LoadDiscipline, OneBlockingAttempt, EvidenceNamesSuccess
  <1>3. TablesMatchAttempts'
    BY <1>1 DEF LoadDiscipline, TablesMatchAttempts, Untouched, HoldsAll
  <1>4. (\A q \in Callers : Backed(call[q]))'
    <2> SUFFICES ASSUME NEW q \in Callers, q # p PROVE Backed(call[q])'
      OBVIOUS
    <2>1. Backed(call[q]) /\ call'[q] = call[q]
      BY DEF LoadDiscipline
    <2>2. call[q].step \in Working => call[q].attempt \in Attempts /\ call[q].attempt # a
      BY <2>1 DEF LoadDiscipline, OneWorker, Backed
    <2> QED
      BY <2>1, <2>2 DEF Backed, Untouched, HoldsAll, Working
  <1>5. OneWorker'
    <2> SUFFICES ASSUME NEW x \in Callers, NEW y \in Callers,
                        (call[x].step \in Working)', (call[y].step \in Working)',
                        (call[x].attempt = call[y].attempt)'
                 PROVE  x = y
      BY DEF OneWorker
    <2>1. \A q \in Callers : (call[q].step \in Working)' =>
            call[q].step \in Working /\ call'[q].attempt = call[q].attempt
      OBVIOUS
    <2> QED
      BY <2>1 DEF LoadDiscipline, OneWorker
  <1> QED
    BY <1>2, <1>3, <1>4, <1>5 DEF LoadDiscipline

\* Every step keeps the discipline.
LEMMA LoadStep ==
  ASSUME TypeOK, LoadDiscipline, [Next]_vars
  PROVE  LoadDiscipline'
<1> USE DEF TableOf
<1>1. ASSUME NEW p \in Callers, Submit(p) PROVE LoadDiscipline'
  <2>1. /\ call'[p].step = "lookup" /\ call'[p].batch = 0
        /\ \A q \in Callers : q # p => call'[q] = call[q]
    BY <1>1 DEF Submit, IdleCall, TypeOK
  <2>2. UNCHANGED durable
    BY <1>1 DEF Submit, controlVars, targetVars, durable
  <2> QED
    BY <2>1, <2>2, RestKeepsDiscipline
<1>2. ASSUME NEW p \in Callers, Lookup(p) \/ Check(p) PROVE LoadDiscipline'
  <2>1. UNCHANGED durable
    BY <1>2 DEF Lookup, Check, controlVars, targetVars, durable
  <2>2. call[p].batch = 0
    BY <1>2 DEF Lookup, Check, At, LoadDiscipline, Backed
  <2>3. ASSUME NEW s \in {"check", "claim"}, Goto(p, s) PROVE LoadDiscipline'
    <3>1. /\ call'[p].step = s /\ call'[p].batch = 0
          /\ \A q \in Callers : q # p => call'[q] = call[q]
      BY <2>2, <2>3 DEF Goto, TypeOK, Call
    <3> QED
      BY <2>1, <3>1, RestKeepsDiscipline
  <2>4. Respond(p) \/ Goto(p, "check") \/ Goto(p, "claim")
    BY <1>2 DEF Lookup, Check
  <2> QED
    BY <2>1, <2>3, <2>4, RespondKeepsDiscipline
<1>3. ASSUME NEW p \in Callers, ClaimNew(p) PROVE LoadDiscipline'
  <2>1. PICK a \in Attempts :
          /\ attempts[a].status = "ABSENT"
          /\ attempts' = [attempts EXCEPT ![a] =
                            [status |-> "CLAIMED", approval |-> call[p].approval]]
          /\ call' = [call EXCEPT ![p].step = "mark", ![p].attempt = a,
                                  ![p].seen = version + 1]
    BY <1>3 DEF ClaimNew
  <2>2. \A b \in Attempts :
          attempts'[b].status = IF b = a THEN "CLAIMED" ELSE attempts[b].status
    BY <2>1 DEF TypeOK
  <2>3. UNCHANGED <<evidence, tables, late>>
    BY <1>3 DEF ClaimNew, targetVars
  <2>4. NoBlockingAttempt
    BY <1>3 DEF ClaimNew
  <2>5. /\ call'[p].step = "mark" /\ call'[p].attempt = a
        /\ call'[p].batch = call[p].batch
        /\ \A q \in Callers : q # p => call'[q] = call[q]
    BY <2>1 DEF TypeOK, Call
  <2>6. call[p].batch = 0
    BY <1>3 DEF ClaimNew, At, LoadDiscipline, Backed
  <2>7. \A q \in Callers : call[q].step \notin Working
    <3> SUFFICES ASSUME NEW q \in Callers, call[q].step \in Working PROVE FALSE
      OBVIOUS
    <3>1. /\ call[q].attempt \in Attempts
          /\ attempts[call[q].attempt].status \in {"CLAIMED", "RUNNING"}
      BY DEF LoadDiscipline, Backed
    <3> QED
      BY <2>4, <3>1 DEF NoBlockingAttempt, BlockingStatuses
  <2>8. OneBlockingAttempt'
    BY <2>2, <2>4 DEF OneBlockingAttempt, NoBlockingAttempt
  <2>9. EvidenceNamesSuccess'
    BY <2>1, <2>2, <2>3 DEF LoadDiscipline, EvidenceNamesSuccess
  <2>10. TablesMatchAttempts'
    BY <2>1, <2>2, <2>3 DEF LoadDiscipline, TablesMatchAttempts, Untouched, HoldsAll
  <2>11. (\A q \in Callers : Backed(call[q]))'
    <3> SUFFICES ASSUME NEW q \in Callers PROVE Backed(call[q])'
      OBVIOUS
    <3>1. CASE q = p
      BY <2>2, <2>5, <2>6, <3>1 DEF Backed
    <3>2. CASE q # p
      BY <2>5, <2>7, <3>2 DEF LoadDiscipline, Backed, Working
    <3> QED
      BY <3>1, <3>2
  <2>12. OneWorker'
    BY <2>5, <2>7 DEF OneWorker
  <2> QED
    BY <2>8, <2>9, <2>10, <2>11, <2>12 DEF LoadDiscipline
<1>4. ASSUME NEW p \in Callers,
             ClaimNotAcquired(p) \/ CompleteConflict(p) \/ Crash(p)
      PROVE  LoadDiscipline'
  <2>1. Respond(p) /\ UNCHANGED durable
    BY <1>4 DEF ClaimNotAcquired, CompleteConflict, Crash, controlVars, targetVars, durable
  <2> QED
    BY <2>1, RespondKeepsDiscipline
<1>5. ASSUME NEW p \in Callers, MarkRunning(p) PROVE LoadDiscipline'
  <2> DEFINE a == call[p].attempt
  <2>1. a \in Attempts /\ attempts[a].status = "CLAIMED" /\ call[p].batch = 0
    BY <1>5 DEF MarkRunning, At, LoadDiscipline, Backed, Working
  <2>2. /\ attempts' = [attempts EXCEPT ![a].status = "RUNNING"]
        /\ Goto(p, "create")
    BY <1>5, <2>1 DEF MarkRunning
  <2>3. \A b \in Attempts :
          attempts'[b].status = IF b = a THEN "RUNNING" ELSE attempts[b].status
    BY <2>1, <2>2 DEF TypeOK, Attempt
  <2>4. UNCHANGED <<evidence, tables, late>>
    BY <1>5 DEF MarkRunning, targetVars
  <2>5. /\ call'[p].step = "create" /\ call'[p].attempt = a /\ call'[p].batch = 0
        /\ \A q \in Callers : q # p => call'[q] = call[q]
    BY <2>1, <2>2 DEF Goto, TypeOK, Call
  <2>6. OneBlockingAttempt'
    BY <2>1, <2>3 DEF LoadDiscipline, OneBlockingAttempt, BlockingStatuses
  <2>7. EvidenceNamesSuccess'
    BY <2>1, <2>3, <2>4 DEF LoadDiscipline, EvidenceNamesSuccess
  <2>8. TablesMatchAttempts'
    BY <2>1, <2>3, <2>4 DEF LoadDiscipline, TablesMatchAttempts, Untouched, HoldsAll
  <2>9. \A q \in Callers : q # p /\ call[q].step \in Working =>
          call[q].attempt \in Attempts /\ call[q].attempt # a
    BY <1>5 DEF MarkRunning, At, LoadDiscipline, OneWorker, Backed, Working
  <2>10. (\A q \in Callers : Backed(call[q]))'
    <3> SUFFICES ASSUME NEW q \in Callers PROVE Backed(call[q])'
      OBVIOUS
    <3>1. CASE q = p
      <4>1. Untouched(a)
        BY <2>1 DEF LoadDiscipline, TablesMatchAttempts
      <4> QED
        BY <2>1, <2>3, <2>4, <2>5, <3>1, <4>1 DEF Backed, Untouched
    <3>2. CASE q # p
      <4>1. Backed(call[q]) /\ call'[q] = call[q]
        BY <2>5, <3>2 DEF LoadDiscipline
      <4> QED
        BY <2>3, <2>4, <2>9, <3>2, <4>1 DEF Backed, Untouched, HoldsAll, Working
    <3> QED
      BY <3>1, <3>2
  <2>11. OneWorker'
    BY <2>5, <2>9 DEF LoadDiscipline, OneWorker
  <2> QED
    BY <2>6, <2>7, <2>8, <2>10, <2>11 DEF LoadDiscipline
<1>6. ASSUME NEW p \in Callers, Remote(p) PROVE LoadDiscipline'
  <2> DEFINE a == call[p].attempt
  <2>1. /\ call[p].step \in {"create", "load", "drop"}
        /\ a \in Attempts /\ attempts[a].status = "RUNNING"
        /\ call[p].batch \in Nat
    BY <1>6 DEF Remote, CreateTable, WriteBatch, LoadDone, LoadFails, DropTable,
       DropFails, RunRaises, At, LoadDiscipline, Backed, Working, TypeOK, Call
  <2>2. UNCHANGED <<attempts, evidence>>
    BY <1>6 DEF Remote, CreateTable, WriteBatch, LoadDone, LoadFails, DropTable,
       DropFails, RunRaises, controlVars
  <2>3. \A b \in Attempts : b # a => tables'[b] = tables[b] /\ late'[b] = late[b]
    BY <1>6, <2>1 DEF Remote, CreateTable, WriteBatch, LoadDone, LoadFails, DropTable,
       DropFails, RunRaises, Applied, Created, Inserted, Dropped, targetVars, TypeOK
  <2>4. /\ call'[p].attempt = a
        /\ \A q \in Callers : q # p => call'[q] = call[q]
    BY <1>6 DEF Remote, CreateTable, WriteBatch, LoadDone, LoadFails, DropTable,
       DropFails, RunRaises, Goto, Finish, TypeOK, Call
  <2>5. Backed(call[p])'
    <3>1. CASE CreateTable(p)
      <4>1. Untouched(a) /\ call[p].batch = 0
        BY <3>1 DEF CreateTable, At, LoadDiscipline, Backed
      <4>2. call'[p].step = "load" /\ call'[p].batch = 0
        BY <3>1, <4>1 DEF CreateTable, Goto, TypeOK, Call
      <4>3. tables'[a] = [exists |-> TRUE, batches |-> 0] /\ late'[a] = "none"
        <5>1. tables[a] = [exists |-> FALSE, batches |-> 0] /\ late[a] = "none"
          BY <4>1 DEF Untouched, NoTable
        <5>2. tables'[a] = [exists |-> TRUE, batches |-> tables[a].batches] /\ late' = late
          BY <2>1, <3>1 DEF CreateTable, Created, TypeOK
        <5> QED
          BY <5>1, <5>2
      <4> QED
        BY <2>1, <2>2, <2>4, <4>2, <4>3 DEF Backed
    <3>2. CASE WriteBatch(p)
      <4>1. /\ tables[a] = [exists |-> TRUE, batches |-> call[p].batch]
            /\ late[a] = "none" /\ call[p].step = "load"
        BY <3>2 DEF WriteBatch, At, LoadDiscipline, Backed
      <4>2. call'[p].step = "load" /\ call'[p].batch = call[p].batch + 1
        BY <3>2, <4>1 DEF WriteBatch, TypeOK, Call
      <4>3. /\ tables'[a] = [exists |-> TRUE, batches |-> call[p].batch + 1]
            /\ late'[a] = "none"
        <5>1. /\ tables'[a] = [exists |-> tables[a].exists, batches |-> tables[a].batches + 1]
              /\ late' = late
          BY <2>1, <3>2 DEF WriteBatch, Inserted, TypeOK
        <5> QED
          BY <4>1, <5>1
      <4> QED
        BY <2>1, <2>2, <2>4, <4>2, <4>3 DEF Backed
    <3>3. CASE LoadDone(p)
      <4>1. HoldsAll(a)
        BY <3>3 DEF LoadDone, At, LoadDiscipline, Backed, HoldsAll, WholeTable
      <4>2. call'[p].step = "complete" /\ UNCHANGED <<tables, late>>
        BY <3>3 DEF LoadDone, Finish, targetVars, TypeOK, Call
      <4> QED
        BY <2>1, <2>2, <2>4, <4>1, <4>2 DEF Backed, HoldsAll
    <3>4. CASE LoadFails(p)
      <4>1. call'[p].step = "drop"
        BY <3>4 DEF LoadFails, Goto, TypeOK, Call
      <4> QED
        BY <2>1, <2>2, <2>4, <4>1 DEF Backed
    <3>5. CASE DropTable(p) \/ DropFails(p) \/ RunRaises(p)
      <4>1. call'[p].step = "complete" /\ call'[p].result # "SUCCEEDED"
        BY <3>5 DEF DropTable, DropFails, RunRaises, Finish, TypeOK, Call
      <4> QED
        BY <2>1, <2>2, <2>4, <4>1 DEF Backed
    <3> QED
      BY <1>6, <3>1, <3>2, <3>3, <3>4, <3>5 DEF Remote
  <2> QED
    BY <2>1, <2>2, <2>3, <2>4, <2>5, WorkKeepsDiscipline DEF Working
<1>7. ASSUME NEW t \in Attempts, Lands(t) PROVE LoadDiscipline'
  <2>1. UNCHANGED <<attempts, evidence, call>>
    BY <1>7 DEF Lands, controlVars
  <2>2. /\ late[t] # "none"
        /\ \A b \in Attempts : b # t => tables'[b] = tables[b] /\ late'[b] = late[b]
    BY <1>7 DEF Lands, Created, Inserted, TypeOK
  <2>3. attempts[t].status \notin {"ABSENT", "CLAIMED", "SUCCEEDED"}
    BY <2>2 DEF LoadDiscipline, TablesMatchAttempts, Untouched, HoldsAll
  <2>4. OneBlockingAttempt' /\ EvidenceNamesSuccess' /\ OneWorker'
    BY <2>1 DEF LoadDiscipline, OneBlockingAttempt, EvidenceNamesSuccess, OneWorker
  <2>5. TablesMatchAttempts'
    BY <2>1, <2>2, <2>3 DEF LoadDiscipline, TablesMatchAttempts, Untouched, HoldsAll
  <2>6. (\A q \in Callers : Backed(call[q]))'
    <3> SUFFICES ASSUME NEW q \in Callers PROVE Backed(call[q])'
      OBVIOUS
    <3>1. Backed(call[q])
      BY DEF LoadDiscipline
    <3>2. /\ call[q].step \in {"create", "load"} => call[q].attempt # t
          /\ call[q].step = "complete" /\ call[q].result = "SUCCEEDED"
               => call[q].attempt # t
      BY <2>2, <3>1 DEF Backed, Untouched, HoldsAll
    <3> QED
      BY <2>1, <2>2, <3>1, <3>2 DEF Backed, Untouched, HoldsAll, Working
  <2> QED
    BY <2>4, <2>5, <2>6 DEF LoadDiscipline
<1>8. ASSUME NEW p \in Callers, Complete(p) PROVE LoadDiscipline'
  <2> DEFINE a == call[p].attempt
             r == call[p].result
  <2>1. /\ a \in Attempts /\ attempts[a].status = "RUNNING" /\ call[p].step = "complete"
        /\ r = "SUCCEEDED" => HoldsAll(a)
    BY <1>8 DEF Complete, At, LoadDiscipline, Backed, Working
  <2>2. r \in TerminalStatuses
    BY DEF TypeOK, Call
  <2>3. \A b \in Attempts :
          attempts'[b].status = IF b = a THEN r ELSE attempts[b].status
    BY <1>8, <2>1 DEF Complete, TypeOK, Attempt
  <2>4. /\ UNCHANGED <<tables, late>>
        /\ evidence' = IF r = "SUCCEEDED" THEN a ELSE evidence
    BY <1>8 DEF Complete, targetVars
  <2>5. /\ call'[p].step = "idle"
        /\ \A q \in Callers : q # p => call'[q] = call[q]
    BY <1>8 DEF Complete, Respond, IdleCall, TypeOK
  <2>6. OneBlockingAttempt'
    BY <2>1, <2>3 DEF LoadDiscipline, OneBlockingAttempt, BlockingStatuses
  <2>7. EvidenceNamesSuccess'
    <3>1. \A b \in Attempts : b # a => attempts[b].status # "SUCCEEDED"
      BY <2>1 DEF LoadDiscipline, OneBlockingAttempt, BlockingStatuses
    <3> QED
      BY <2>1, <2>3, <2>4, <3>1 DEF LoadDiscipline, EvidenceNamesSuccess
  <2>8. TablesMatchAttempts'
    BY <2>1, <2>2, <2>3, <2>4
       DEF LoadDiscipline, TablesMatchAttempts, Untouched, HoldsAll, TerminalStatuses
  <2>9. \A q \in Callers : q # p /\ call[q].step \in Working =>
          call[q].attempt \in Attempts /\ call[q].attempt # a
    BY <2>1 DEF LoadDiscipline, OneWorker, Backed, Working
  <2>10. (\A q \in Callers : Backed(call[q]))'
    <3> SUFFICES ASSUME NEW q \in Callers PROVE Backed(call[q])'
      OBVIOUS
    <3>1. CASE q = p
      BY <2>5, <3>1 DEF Backed, Working
    <3>2. CASE q # p
      <4>1. Backed(call[q]) /\ call'[q] = call[q]
        BY <2>5, <3>2 DEF LoadDiscipline
      <4> QED
        BY <2>3, <2>4, <2>9, <3>2, <4>1 DEF Backed, Untouched, HoldsAll, Working
    <3> QED
      BY <3>1, <3>2
  <2>11. OneWorker'
    BY <2>5 DEF LoadDiscipline, OneWorker, Working
  <2> QED
    BY <2>6, <2>7, <2>8, <2>10, <2>11 DEF LoadDiscipline
<1>9. CASE Others \/ UNCHANGED vars
  <2>1. UNCHANGED <<durable, call>>
    BY <1>9 DEF Others, Transition, AppendApproval, AppendOther, Preview, vars,
                targetVars, durable
  <2> QED
    BY <2>1, FrameKeepsDiscipline
<1> QED
  BY <1>1, <1>2, <1>3, <1>4, <1>5, <1>6, <1>7, <1>8, <1>9 DEF Next, Run

\* One blocking attempt, one worker, evidence for the success alone, and a whole
\* table behind it: in every behaviour of every instance.
THEOREM LoadIsDisciplined == Spec => []LoadDiscipline
<1>1. Init => LoadDiscipline
  BY TransportConstants
     DEF Init, LoadDiscipline, OneBlockingAttempt, EvidenceNamesSuccess,
         TablesMatchAttempts, Untouched, HoldsAll, Backed, OneWorker, Working,
         NoRow, IdleCall, BlockingStatuses
<1>2. TypeOK /\ LoadDiscipline /\ [Next]_vars => LoadDiscipline'
  BY LoadStep
<1> QED
  BY <1>1, <1>2, TypeCorrect, PTL DEF Spec

\* StagingTransport implements CertifiedCopy: a table is certified once, when it
\* is whole, and no caller, failure or late statement touches it afterwards.
THEOREM CertifiesOnce == Spec => ImplementsCertifiedCopy
<1>1. Init => Copy!Init
  BY DEF Init, Copy!Init
<1>2. TypeOK /\ LoadDiscipline /\ LoadDiscipline' /\ [Next]_vars
        => [Copy!Next]_(Copy!copyVars)
  <2> SUFFICES ASSUME TypeOK, LoadDiscipline, LoadDiscipline', [Next]_vars
               PROVE  [Copy!Next]_(Copy!copyVars)
    OBVIOUS
  <2> USE DEF TableOf
  <2>1. ASSUME evidence' = evidence PROVE Copy!Work
    <3>1. \A c \in Attempts : c = evidence => tables[c] = WholeTable
      BY DEF LoadDiscipline, EvidenceNamesSuccess, TablesMatchAttempts, HoldsAll
    <3>2. \A c \in Attempts : c = evidence' => tables'[c] = WholeTable
      BY DEF LoadDiscipline, EvidenceNamesSuccess, TablesMatchAttempts, HoldsAll,
             WholeTable
    <3> QED
      BY <2>1, <3>1, <3>2 DEF Copy!Work
  <2>2. ASSUME NEW p \in Callers, Complete(p), evidence' # evidence
        PROVE  Copy!Next
    <3> DEFINE a == call[p].attempt
    <3>1. /\ a \in Attempts /\ attempts[a].status = "RUNNING"
          /\ call[p].result = "SUCCEEDED" /\ evidence' = a
      BY <2>2 DEF Complete, At, LoadDiscipline, Backed, Working
    <3>2. HoldsAll(a)
      BY <2>2, <3>1 DEF Complete, At, LoadDiscipline, Backed
    <3>3. evidence = None
      <4>1. \A b \in Attempts : attempts[b].status = "SUCCEEDED" => a = b
        BY <3>1 DEF LoadDiscipline, OneBlockingAttempt, BlockingStatuses
      <4> QED
        BY <3>1, <4>1 DEF LoadDiscipline, EvidenceNamesSuccess, TypeOK
    <3>4. UNCHANGED tables
      BY <2>2 DEF Complete, targetVars
    <3> QED
      BY <3>1, <3>2, <3>3, <3>4 DEF Copy!Next, Copy!Certify, HoldsAll
  <2>3. (\E p \in Callers : Complete(p)) \/ evidence' = evidence
    BY DEF Next, Run, Submit, Lookup, Check, ClaimNew, ClaimNotAcquired, MarkRunning,
       Remote, CreateTable, WriteBatch, LoadDone, LoadFails, DropTable, DropFails,
       RunRaises, CompleteConflict, Crash, Lands, Others, Transition, AppendApproval,
       AppendOther, Preview, controlVars, vars
  <2> QED
    BY <2>1, <2>2, <2>3 DEF Copy!Next
<1> QED
  BY <1>1, <1>2, TypeCorrect, LoadIsDisciplined, PTL
     DEF Spec, ImplementsCertifiedCopy, Copy!Spec

----------------------------------------------------------------------------
(* What a cleaned up load leaves behind *)

\* No row, and at most the empty table of a CREATE carried out after the DROP.
Clean(a) ==
  /\ tables[a].batches = 0
  /\ tables[a].exists => LateStatements /\ late[a] = "none"

Cleaning(c) == c.step = "complete" /\ c.result = "FAILED_CLEANED_UP"

Remains ==
  /\ \A a \in Attempts : attempts[a].status = "FAILED_CLEANED_UP" => Clean(a)
  /\ \A p \in Callers : Cleaning(call[p]) => Clean(call[p].attempt)
  /\ \A a \in Attempts : late[a] # "none" => LateStatements

\* Nothing is said to the target, and no load is declared cleaned up.
LEMMA QuietRemains ==
  ASSUME Remains, UNCHANGED <<tables, late>>,
         \A a \in Attempts :
           attempts'[a].status = "FAILED_CLEANED_UP" => attempts[a].status = "FAILED_CLEANED_UP",
         \A q \in Callers : call'[q] = call[q] \/ ~Cleaning(call'[q])
  PROVE  Remains'
<1> SUFFICES ASSUME NEW q \in Callers, Cleaning(call[q])' PROVE Clean(call[q].attempt)'
  BY DEF Remains, Clean
<1> QED
  BY DEF Remains, Clean, Cleaning

\* A statement of a caller at work touches the table of its own attempt.
LEMMA StatementRemains ==
  ASSUME TypeOK, LoadDiscipline, Remains, NEW p \in Callers,
         call[p].step \in Working \ {"mark"}, UNCHANGED attempts,
         \A q \in Callers : q # p => call'[q] = call[q],
         call'[p].attempt = call[p].attempt,
         \A b \in Attempts : b # call[p].attempt =>
           tables'[b] = tables[b] /\ late'[b] = late[b],
         Cleaning(call'[p]) => Clean(call[p].attempt)',
         late'[call[p].attempt] # "none" => LateStatements
  PROVE  Remains'
<1> DEFINE a == call[p].attempt
<1>1. a \in Attempts /\ attempts[a].status = "RUNNING"
  BY DEF LoadDiscipline, Backed
<1>2. (\A b \in Attempts : attempts[b].status = "FAILED_CLEANED_UP" => Clean(b))'
  BY <1>1 DEF Remains, Clean
<1>3. ASSUME NEW q \in Callers, Cleaning(call[q])' PROVE Clean(call[q].attempt)'
  <2>1. CASE q = p
    BY <1>3, <2>1 DEF Clean, Cleaning
  <2>2. CASE q # p
    <3>1. call'[q] = call[q] /\ Cleaning(call[q])
      BY <1>3, <2>2 DEF Cleaning
    <3>2. call[q].attempt \in Attempts /\ call[q].attempt # a
      BY <2>2, <3>1 DEF Cleaning, LoadDiscipline, OneWorker, Backed, Working
    <3> QED
      BY <3>1, <3>2 DEF Remains, Clean
  <2> QED
    BY <2>1, <2>2
<1>4. (\A b \in Attempts : late[b] # "none" => LateStatements)'
  BY <1>1 DEF Remains
<1> QED
  BY <1>2, <1>3, <1>4 DEF Remains

LEMMA RemainsStep ==
  ASSUME TypeOK, LoadDiscipline, Remains, [Next]_vars
  PROVE  Remains'
<1> USE DEF TableOf
<1>1. ASSUME NEW p \in Callers,
             Submit(p) \/ Lookup(p) \/ Check(p) \/ ClaimNew(p) \/ ClaimNotAcquired(p)
               \/ MarkRunning(p) \/ LoadDone(p) \/ RunRaises(p) \/ CompleteConflict(p)
               \/ Crash(p)
      PROVE  Remains'
  <2>1. UNCHANGED <<tables, late>>
    BY <1>1 DEF Submit, Lookup, Check, ClaimNew, ClaimNotAcquired, MarkRunning, LoadDone,
       RunRaises, CompleteConflict, Crash, targetVars
  <2>2. \A a \in Attempts :
          attempts'[a].status = "FAILED_CLEANED_UP" => attempts[a].status = "FAILED_CLEANED_UP"
    <3>1. CASE ClaimNew(p)
      BY <3>1 DEF ClaimNew, TypeOK
    <3>2. CASE MarkRunning(p)
      BY <3>2 DEF MarkRunning, TypeOK, Attempt
    <3>3. CASE UNCHANGED attempts
      BY <3>3
    <3> QED
      BY <1>1, <3>1, <3>2, <3>3 DEF Submit, Lookup, Check, ClaimNotAcquired, LoadDone, RunRaises,
         CompleteConflict, Crash, controlVars
  <2>3. \A q \in Callers : q # p => call'[q] = call[q]
    <3>1. CASE Submit(p)
      BY <3>1 DEF Submit, TypeOK
    <3>2. CASE ClaimNew(p)
      BY <3>2 DEF ClaimNew, TypeOK
    <3> QED
      BY <1>1, <3>1, <3>2 DEF Lookup, Check, ClaimNotAcquired, MarkRunning, LoadDone,
         RunRaises, CompleteConflict, Crash, Goto, Finish, Respond, TypeOK
  <2>4. ~Cleaning(call'[p])
    <3>1. CASE Submit(p)
      BY <3>1 DEF Submit, IdleCall, TypeOK, Cleaning
    <3>2. CASE ClaimNew(p)
      BY <3>2 DEF ClaimNew, TypeOK, Call, Cleaning
    <3> QED
      BY <1>1, <3>1, <3>2 DEF Lookup, Check, ClaimNotAcquired, MarkRunning, LoadDone,
         RunRaises, CompleteConflict, Crash, Goto, Finish, Respond, IdleCall, TypeOK, Call,
         Cleaning
  <2> QED
    BY <2>1, <2>2, <2>3, <2>4, QuietRemains
<1>2. ASSUME NEW p \in Callers,
             CreateTable(p) \/ WriteBatch(p) \/ LoadFails(p) \/ DropTable(p) \/ DropFails(p)
      PROVE  Remains'
  <2> DEFINE a == call[p].attempt
  <2>1. call[p].step \in {"create", "load", "drop"} /\ UNCHANGED attempts /\ a \in Attempts
    BY <1>2 DEF CreateTable, WriteBatch, LoadFails, DropTable, DropFails, At, controlVars,
       LoadDiscipline, Backed, Working
  <2>2. \A b \in Attempts : b # a => tables'[b] = tables[b] /\ late'[b] = late[b]
    BY <1>2, <2>1 DEF CreateTable, WriteBatch, LoadFails, DropTable, DropFails, Applied,
       Created, Inserted, Dropped, TypeOK
  <2>3. /\ call'[p].attempt = a
        /\ \A q \in Callers : q # p => call'[q] = call[q]
    BY <1>2 DEF CreateTable, WriteBatch, LoadFails, DropTable, DropFails, Goto, Finish,
       TypeOK, Call
  <2>4. late'[a] # "none" => LateStatements
    BY <1>2, <2>1 DEF CreateTable, WriteBatch, LoadFails, DropTable, DropFails, Remains, TypeOK
  <2>5. Cleaning(call'[p]) => Clean(a)'
    <3>1. CASE DropTable(p)
      <4>1. tables'[a] = NoTable
        BY <2>1, <3>1 DEF DropTable, Dropped, TypeOK
      <4> QED
        BY <2>3, <4>1 DEF Clean, NoTable
    <3>2. CASE CreateTable(p) \/ WriteBatch(p) \/ LoadFails(p) \/ DropFails(p)
      BY <3>2 DEF CreateTable, WriteBatch, LoadFails, DropFails, Goto, Finish, At, TypeOK,
         Call, Cleaning
    <3> QED
      BY <1>2, <3>1, <3>2
  <2> QED
    BY <2>1, <2>2, <2>3, <2>4, <2>5, StatementRemains DEF Working
<1>3. ASSUME NEW t \in Attempts, Lands(t) PROVE Remains'
  <2>1. UNCHANGED <<attempts, call>> /\ LateStatements
    BY <1>3 DEF Lands, controlVars, Remains
  <2>2. \A b \in Attempts :
          /\ late'[b] = IF b = t THEN "none" ELSE late[b]
          /\ b # t => tables'[b] = tables[b]
    BY <1>3 DEF Lands, Created, Inserted, TypeOK
  <2>3. Clean(t) => Clean(t)'
    <3> SUFFICES ASSUME Clean(t) PROVE tables'[t].batches = 0
      BY <2>1, <2>2 DEF Clean
    <3>1. tables[t].batches = 0 /\ ~tables[t].exists
      BY <1>3 DEF Lands, Clean
    <3> QED
      BY <1>3, <3>1 DEF Lands, Created, TypeOK
  <2>4. \A b \in Attempts : Clean(b) => Clean(b)'
    BY <2>2, <2>3 DEF Clean
  <2>5. \A q \in Callers : Cleaning(call[q]) => call[q].attempt \in Attempts
    BY DEF Cleaning, LoadDiscipline, Backed, Working
  <2> QED
    BY <2>1, <2>2, <2>4, <2>5 DEF Remains, Cleaning
<1>4. ASSUME NEW p \in Callers, Complete(p) PROVE Remains'
  <2> DEFINE a == call[p].attempt
  <2>1. a \in Attempts /\ call[p].step = "complete"
    BY <1>4 DEF Complete, At, LoadDiscipline, Backed, Working
  <2>2. /\ UNCHANGED <<tables, late>> /\ ~Cleaning(call'[p])
        /\ \A q \in Callers : q # p => call'[q] = call[q]
        /\ \A b \in Attempts :
             attempts'[b].status = IF b = a THEN call[p].result ELSE attempts[b].status
    BY <1>4, <2>1 DEF Complete, targetVars, Respond, IdleCall, TypeOK, Attempt, Cleaning
  <2>3. call[p].result = "FAILED_CLEANED_UP" => Clean(a)
    BY <2>1 DEF Remains, Cleaning
  <2>4. (\A b \in Attempts : attempts[b].status = "FAILED_CLEANED_UP" => Clean(b))'
    BY <2>2, <2>3 DEF Remains, Clean
  <2>5. (\A q \in Callers : Cleaning(call[q]) => Clean(call[q].attempt))'
    BY <2>2 DEF Remains, Clean
  <2> QED
    BY <2>2, <2>4, <2>5 DEF Remains
<1>5. CASE Others \/ UNCHANGED vars
  <2>1. UNCHANGED <<tables, late, attempts, call>>
    BY <1>5 DEF Others, Transition, AppendApproval, AppendOther, Preview, vars, targetVars
  <2> QED
    BY <2>1, QuietRemains
<1> QED
  BY <1>1, <1>2, <1>3, <1>4, <1>5 DEF Next, Run, Remote

----------------------------------------------------------------------------
(* The row and the loads *)

\* A caller names no version that is still to come, and one about to claim has seen
\* the approval it names as the latest, if the row has not moved since.
Informed(c) ==
  c.step # "idle" =>
    /\ c.expected <= version
    /\ c.step = "claim" /\ c.expected = version => c.approval = approval

AllInformed == \A p \in Callers : Informed(call[p])

\* Whatever bumps the version leaves the commands behind.
LEMMA BumpInforms ==
  ASSUME TypeOK, AllInformed, version' = version + 1,
         \A q \in Callers : \/ call'[q].step = "idle"
                            \/ call'[q] = call[q]
                            \/ call'[q].step # "claim" /\ call[q].step # "idle"
                                 /\ call'[q].expected = call[q].expected
  PROVE  AllInformed'
<1> SUFFICES ASSUME NEW q \in Callers, call'[q].step # "idle"
             PROVE  /\ call'[q].expected <= version'
                    /\ ~(call'[q].step = "claim" /\ call'[q].expected = version')
  BY DEF AllInformed, Informed
<1>1. call'[q].expected = call[q].expected /\ call[q].step # "idle"
  OBVIOUS
<1>2. call[q].expected <= version /\ call[q].expected \in Nat /\ version \in Nat
  BY <1>1 DEF AllInformed, Informed, TypeOK, Call
<1> QED
  BY <1>1, <1>2

\* A caller moves on with its command, the row does not move.
LEMMA MoveInforms ==
  ASSUME AllInformed, NEW p \in Callers, UNCHANGED <<version, approval>>,
         \A q \in Callers : q # p => call'[q] = call[q],
         \/ call'[p].step = "idle"
         \/ /\ call[p].step # "idle"
            /\ call'[p].expected = call[p].expected
            /\ call'[p].step = "claim" => call'[p].approval = approval
  PROVE  AllInformed'
<1> SUFFICES ASSUME NEW q \in Callers PROVE Informed(call[q])'
  BY DEF AllInformed
<1>1. CASE q = p
  BY <1>1 DEF AllInformed, Informed
<1>2. CASE q # p
  BY <1>2 DEF AllInformed, Informed
<1> QED
  BY <1>1, <1>2

\* The steps of a caller that leave the workflow row alone.
Still(p) ==
  \/ Submit(p) \/ Lookup(p) \/ Check(p) \/ ClaimNotAcquired(p) \/ MarkRunning(p)
  \/ Remote(p) \/ CompleteConflict(p) \/ Crash(p)

LEMMA StillInforms ==
  ASSUME TypeOK, ~Pipelined, AllInformed, NEW p \in Callers, Still(p)
  PROVE  AllInformed'
<1>1. UNCHANGED <<version, approval>>
  BY DEF Still, Submit, Lookup, Check, ClaimNotAcquired, MarkRunning, Remote, CreateTable,
     WriteBatch, LoadDone, LoadFails, DropTable, DropFails, RunRaises, CompleteConflict,
     Crash, controlVars, rowVars
<1>2. CASE Submit(p)
  <2>1. PICK k \in Keys, b \in 1..approval, e \in 1..version :
          call' = [call EXCEPT ![p] =
                     [IdleCall EXCEPT !.step = "lookup", !.key = k,
                                      !.expected = e, !.approval = b]]
    BY <1>2 DEF Submit
  <2>2. /\ call'[p].step = "lookup" /\ call'[p].expected = e
        /\ \A q \in Callers : q # p => call'[q] = call[q]
    BY <2>1 DEF IdleCall, TypeOK
  <2>3. e <= version
    BY DEF TypeOK
  <2> QED
    BY <1>1, <2>2, <2>3 DEF AllInformed, Informed
<1>3. CASE Respond(p)
  <2>1. call'[p].step = "idle" /\ \A q \in Callers : q # p => call'[q] = call[q]
    BY <1>3 DEF Respond, IdleCall, TypeOK
  <2> QED
    BY <1>1, <2>1, MoveInforms
<1>4. CASE Check(p) /\ ~Respond(p)
  <2>1. /\ call'[p].expected = call[p].expected /\ call'[p].approval = approval
        /\ \A q \in Callers : q # p => call'[q] = call[q]
    BY <1>4 DEF Check, Goto, TypeOK, Call
  <2>2. call[p].step # "idle"
    BY <1>4 DEF Check, At
  <2> QED
    BY <1>1, <2>1, <2>2, MoveInforms
<1>5. CASE (Lookup(p) \/ MarkRunning(p) \/ Remote(p)) /\ ~Respond(p)
  <2>1. /\ call'[p].expected = call[p].expected /\ call'[p].step # "claim"
        /\ \A q \in Callers : q # p => call'[q] = call[q]
    BY <1>5 DEF Lookup, MarkRunning, Remote, CreateTable, WriteBatch, LoadDone, LoadFails,
       DropTable, DropFails, RunRaises, Goto, Finish, At, TypeOK, Call
  <2>2. call[p].step # "idle"
    BY <1>5 DEF Lookup, MarkRunning, Remote, CreateTable, WriteBatch, LoadDone, LoadFails,
       DropTable, DropFails, RunRaises, At
  <2> QED
    BY <1>1, <2>1, <2>2, MoveInforms
<1> QED
  BY <1>2, <1>3, <1>4, <1>5 DEF Still, ClaimNotAcquired, CompleteConflict, Crash

Open == {"CLAIMED", "RUNNING"}

LEMMA SameLoads ==
  ASSUME OpenLoadMatchesStatus, UNCHANGED status,
         \A a \in Attempts : attempts[a].status \in Open <=> attempts'[a].status \in Open
  PROVE  OpenLoadMatchesStatus'
  BY DEF OpenLoadMatchesStatus, Open

LEMMA StillMatches ==
  ASSUME TypeOK, LoadDiscipline, OpenLoadMatchesStatus, NEW p \in Callers, Still(p)
  PROVE  OpenLoadMatchesStatus'
<1>1. CASE MarkRunning(p)
  <2>1. UNCHANGED status
    BY <1>1 DEF MarkRunning, rowVars
  <2>2. \A a \in Attempts : attempts[a].status \in Open <=> attempts'[a].status \in Open
    BY <1>1 DEF MarkRunning, TypeOK, Attempt, Open
  <2> QED
    BY <2>1, <2>2, SameLoads
<1>2. CASE UNCHANGED controlVars
  BY <1>2, SameLoads DEF controlVars
<1> QED
  BY <1>1, <1>2 DEF Still, Submit, Lookup, Check, ClaimNotAcquired, Remote, CreateTable,
     WriteBatch, LoadDone, LoadFails, DropTable, DropFails, RunRaises, CompleteConflict, Crash

\* A claim is made for the approval that is the latest.
LEMMA ClaimIsInformed ==
  ASSUME AllInformed, NEW p \in Callers, ClaimNew(p)
  PROVE  call[p].approval = approval
  BY DEF ClaimNew, At, AllInformed, Informed

LEMMA RowStep ==
  ASSUME TypeOK, LoadDiscipline, ~Pipelined, AllInformed, OpenLoadMatchesStatus, [Next]_vars
  PROVE  AllInformed' /\ OpenLoadMatchesStatus'
<1>1. ASSUME NEW p \in Callers, Still(p) PROVE AllInformed' /\ OpenLoadMatchesStatus'
  BY <1>1, StillInforms, StillMatches
<1>2. ASSUME NEW p \in Callers, ClaimNew(p) PROVE AllInformed' /\ OpenLoadMatchesStatus'
  <2>1. PICK a \in Attempts :
          /\ attempts' = [attempts EXCEPT ![a] =
                            [status |-> "CLAIMED", approval |-> call[p].approval]]
          /\ call' = [call EXCEPT ![p].step = "mark", ![p].attempt = a,
                                  ![p].seen = version + 1]
    BY <1>2 DEF ClaimNew
  <2>2. attempts'[a].status = "CLAIMED" /\ status' = "STAGING"
    BY <1>2, <2>1 DEF ClaimNew, TypeOK
  <2>3. OpenLoadMatchesStatus'
    BY <2>2 DEF OpenLoadMatchesStatus
  <2>4. /\ call'[p].step # "claim" /\ call'[p].expected = call[p].expected
        /\ \A q \in Callers : q # p => call'[q] = call[q]
    BY <2>1 DEF TypeOK, Call
  <2>5. call[p].step # "idle" /\ version' = version + 1
    BY <1>2 DEF ClaimNew, At, Bump
  <2> QED
    BY <2>3, <2>4, <2>5, BumpInforms
<1>3. ASSUME NEW p \in Callers, Complete(p) PROVE AllInformed' /\ OpenLoadMatchesStatus'
  <2> DEFINE a == call[p].attempt
             r == call[p].result
  <2>1. a \in Attempts /\ attempts[a].status = "RUNNING" /\ r \in TerminalStatuses
    BY <1>3 DEF Complete, At, LoadDiscipline, Backed, Working, TypeOK, Call
  <2>2. \A b \in Attempts : b # a => attempts[b].status \notin Open
    BY <2>1 DEF LoadDiscipline, OneBlockingAttempt, BlockingStatuses, Open
  <2>3. /\ \A b \in Attempts :
             attempts'[b].status = IF b = a THEN r ELSE attempts[b].status
        /\ status' = StatusAfter(r)
    BY <1>3, <2>1 DEF Complete, TypeOK, Attempt
  <2> HIDE DEF a, r
  <2>4. OpenLoadMatchesStatus'
    BY <2>1, <2>2, <2>3 DEF OpenLoadMatchesStatus, Open, TerminalStatuses, StatusAfter
  <2>5. /\ call'[p].step = "idle" /\ \A q \in Callers : q # p => call'[q] = call[q]
        /\ version' = version + 1
    BY <1>3 DEF Complete, Respond, IdleCall, TypeOK, Bump
  <2> QED
    BY <2>4, <2>5, BumpInforms
<1>4. ASSUME NEW t \in Attempts, Lands(t) PROVE AllInformed' /\ OpenLoadMatchesStatus'
  <2>1. UNCHANGED <<status, version, approval, attempts, call>>
    BY <1>4 DEF Lands, controlVars
  <2> QED
    BY <2>1, SameLoads DEF AllInformed, Informed
<1>5. CASE Others
  <2>1. version' = version + 1 /\ call' = call /\ attempts' = attempts
    BY <1>5 DEF Others, Transition, AppendApproval, AppendOther, Preview, Bump
  <2>2. AllInformed'
    BY <2>1, BumpInforms
  <2>3. status' = status \/ (status # "STAGING" /\ status' # "STAGING")
    BY <1>5 DEF Others, Transition, MayRequest, ManagedStatuses, AppendApproval, AppendOther,
       Preview
  <2> QED
    BY <2>1, <2>2, <2>3, SameLoads DEF OpenLoadMatchesStatus
<1>6. CASE UNCHANGED vars
  BY <1>6, SameLoads DEF vars, AllInformed, Informed
<1> QED
  BY <1>1, <1>2, <1>3, <1>4, <1>5, <1>6 DEF Next, Run, Still

RowFacts == AllInformed /\ OpenLoadMatchesStatus /\ Remains

LEMMA RowFactsHold == ~Pipelined => (Spec => []RowFacts)
<1> SUFFICES ASSUME ~Pipelined PROVE Spec => []RowFacts
  OBVIOUS
<1>1. Init => RowFacts
  BY DEF Init, RowFacts, AllInformed, Informed, IdleCall, OpenLoadMatchesStatus, NoRow,
     Remains, Cleaning
<1>2. TypeOK /\ LoadDiscipline /\ RowFacts /\ [Next]_vars => RowFacts'
  BY RowStep, RemainsStep DEF RowFacts
<1> QED
  BY <1>1, <1>2, TypeCorrect, LoadIsDisciplined, PTL DEF Spec

\* STAGING is shown exactly while a load is open, a load that is reported as cleaned
\* up left no row behind, and one table at most holds rows, whatever the target
\* carries out late.
THEOREM RowShowsLoads == ~Pipelined => (Spec => []RowMatchesLoads)
<1> SUFFICES ASSUME ~Pipelined PROVE Spec => []RowMatchesLoads
  OBVIOUS
<1>1. TypeOK /\ LoadDiscipline /\ RowFacts => RowMatchesLoads
  <2> SUFFICES ASSUME TypeOK, LoadDiscipline, RowFacts PROVE RowMatchesLoads
    OBVIOUS
  <2>1. CleanedUpMeansGone
    BY DEF RowFacts, Remains, Clean, CleanedUpMeansGone, TableOf
  <2>2. \A a \in Attempts : tables[a].batches > 0 => attempts[a].status \in BlockingStatuses
    <3> SUFFICES ASSUME NEW a \in Attempts, attempts[a].status \notin BlockingStatuses
                 PROVE  tables[a].batches = 0
      OBVIOUS
    <3>1. attempts[a].status \in {"ABSENT", "FAILED_CLEANED_UP"}
      BY DEF TypeOK, Attempt, AttemptStatuses, BlockingStatuses
    <3> QED
      BY <3>1 DEF LoadDiscipline, TablesMatchAttempts, Untouched, NoTable, RowFacts, Remains,
         Clean
  <2>3. OneTableWithRows
    BY <2>2 DEF OneTableWithRows, LoadDiscipline, OneBlockingAttempt
  <2> QED
    BY <2>1, <2>3 DEF RowMatchesLoads, RowFacts
<1> QED
  BY <1>1, TypeCorrect, LoadIsDisciplined, RowFactsHold, PTL

\* The approval a load is claimed for is the latest at that moment, although it was
\* compared before the claim takes the row lock.
THEOREM LoadsAreOfTheLatest == ~Pipelined => (Spec => ClaimsLatestApproval)
<1> SUFFICES ASSUME ~Pipelined PROVE Spec => ClaimsLatestApproval
  OBVIOUS
<1>1. ASSUME TypeOK, LoadDiscipline, RowFacts, [Next]_vars, NEW a \in Attempts,
             attempts[a].status = "ABSENT", attempts'[a].status = "CLAIMED"
      PROVE  attempts'[a].approval = approval
  <2>1. ASSUME NEW p \in Callers, ClaimNew(p) PROVE attempts'[a].approval = approval
    <3>1. PICK b \in Attempts :
            attempts' = [attempts EXCEPT ![b] =
                           [status |-> "CLAIMED", approval |-> call[p].approval]]
      BY <2>1 DEF ClaimNew
    <3>2. a = b
      BY <1>1, <3>1 DEF TypeOK
    <3> QED
      BY <1>1, <2>1, <3>1, <3>2, ClaimIsInformed DEF RowFacts, TypeOK
  <2>2. ~\E p \in Callers : MarkRunning(p) /\ ~UNCHANGED attempts
    BY <1>1 DEF MarkRunning, TypeOK, Attempt
  <2>3. ~\E p \in Callers : Complete(p)
    BY <1>1 DEF Complete, TypeOK, Attempt, Call, TerminalStatuses
  <2>4. ~UNCHANGED attempts
    BY <1>1
  <2> QED
    BY <1>1, <2>1, <2>2, <2>3, <2>4 DEF Next, Run, Submit, Lookup, Check, ClaimNotAcquired,
       Remote, CreateTable, WriteBatch, LoadDone, LoadFails, DropTable, DropFails, RunRaises,
       CompleteConflict, Crash, Lands, Others, Transition, AppendApproval, AppendOther,
       Preview, controlVars, vars
<1>2. TypeOK /\ LoadDiscipline /\ RowFacts /\ [Next]_vars
        => [\A a \in Attempts :
              attempts[a].status = "ABSENT" /\ attempts'[a].status = "CLAIMED"
                => attempts'[a].approval = approval]_vars
  BY <1>1
<1> QED
  BY <1>2, TypeCorrect, LoadIsDisciplined, RowFactsHold, PTL DEF Spec, ClaimsLatestApproval
=============================================================================
