------------------------ MODULE MigrationJobsProofs ------------------------
(***************************************************************************)
(* The safety of MigrationJobs for every set of workers and jobs: the      *)
(* types, JobDiscipline, and with them that the jobs of a workflow         *)
(* implement JobLedger.                                                    *)
(***************************************************************************)
EXTENDS MigrationJobs, TLAPS

Steps == FreeSteps \cup PipelineSteps

----------------------------------------------------------------------------
(* How a worker moves *)

\* Worker w goes to step s with its job and its stage, and with outcome o.
StepsTo(w, s, o) ==
  /\ work' \in [Workers -> Work]
  /\ work'[w].step = s /\ work'[w].outcome = o
  /\ work'[w].job = work[w].job /\ work'[w].stage = work[w].stage
  /\ \A v \in Workers : v # w => work'[v] = work[v]

LEMMA IdleWorkType ==
  /\ IdleWork \in Work /\ Placed(IdleWork)
  /\ IdleWork.step = "idle"
  BY DEF IdleWork, Work, Placed, FreeSteps, PipelineSteps, JobStages, TerminalStatuses

LEMMA DieType ==
  ASSUME TypeOK, NEW w \in Workers, Die(w)
  PROVE  /\ work' \in [Workers -> Work]
         /\ \A v \in Workers : Placed(work'[v])
         /\ work'[w].step = "idle" /\ \A v \in Workers : v # w => work'[v] = work[v]
  BY IdleWorkType DEF Die, TypeOK

LEMMA GotoSteps ==
  ASSUME TypeOK, NEW w \in Workers, NEW s \in Steps, Goto(w, s)
  PROVE  StepsTo(w, s, work[w].outcome)
  BY DEF TypeOK, Goto, StepsTo, Work, Steps

LEMMA OutcomeSteps ==
  ASSUME TypeOK, NEW w \in Workers, NEW s \in Steps, NEW o \in TerminalStatuses,
         work' = [work EXCEPT ![w].step = s, ![w].outcome = o]
  PROVE  StepsTo(w, s, o)
  BY DEF TypeOK, StepsTo, Work, Steps

LEMMA SeenSteps ==
  ASSUME TypeOK, NEW w \in Workers, NEW s \in Steps, NEW n \in Nat,
         work' = [work EXCEPT ![w].step = s, ![w].seen = n]
  PROVE  StepsTo(w, s, work[w].outcome)
  BY DEF TypeOK, StepsTo, Work, Steps

LEMMA StepsPlaced ==
  ASSUME TypeOK, NEW w \in Workers, NEW s, NEW o, StepsTo(w, s, o), ~At(w, "idle"),
         s \in PipelineSteps => work[w].stage \in StagesAt(s)
  PROVE  \A v \in Workers : Placed(work'[v])
  BY DEF TypeOK, StepsTo, Placed, At

\* The steps of the pipeline that leave the job row and the statement alone, and
\* where each goes: to its end, to the next step or to its conclusion.
Local(w) ==
  \/ Prepare(w) \/ CheckStaging(w) \/ ClaimStaging(w) \/ LoadEnds(w)
  \/ CompleteStaging(w) \/ CheckPreview(w) \/ RecordPreview(w)
  \/ CheckExecution(w) \/ ClaimExecution(w) \/ Answer(w) \/ CompleteExecution(w)
  \/ Cleanup(w) \/ RecordCleanup(w)
  \/ CheckValidation(w) \/ ClaimValidation(w) \/ Query(w) \/ CompleteValidation(w)

\* Step s follows step c.step, with outcome o.
Follows(c, s, o) ==
  \/ c.step = "prepare" /\ s = "advance"
  \/ c.step \in {"prepare", "stage", "transform", "execute"} /\ s = "finish" /\ o = "FAILED"
  \/ c.step = "stage" /\ s = "claimstage"
  \/ c.step = "claimstage" /\ s = "load"
  \/ c.step = "load" /\ s = "staged"
  \/ c.step = "staged" /\ s = "advance"
  \/ c.step = "staged" /\ s = "finish" /\ o # "SUCCEEDED"
  \/ c.step = "transform" /\ s = "record"
  \/ c.step = "record" /\ s = "advance"
  \/ c.step = "execute" /\ s = "claimexecute"
  \/ c.step = "claimexecute" /\ s = "send"
  \/ c.step = "await" /\ s = "executed" /\ o \in Dispositions(c.job)
  \/ c.step = "executed" /\ s = "cleanup" /\ c.outcome = "SUCCEEDED"
  \/ c.step = "executed" /\ s = "finish" /\ o = c.outcome
  \/ c.step = "cleanup" /\ s \in {"recordcleanup", "advance"}
  \/ c.step = "recordcleanup" /\ s = "advance"
  \/ c.step = "validate" /\ s = "claimvalidate"
  \/ c.step = "validate" /\ s = "finish" /\ o # "FAILED"
  \/ c.step = "claimvalidate" /\ s = "query"
  \/ c.step = "query" /\ s = "validated" /\ o # "FAILED"
  \/ c.step = "validated" /\ s = "finish" /\ o = c.outcome

LEMMA LocalMoves ==
  ASSUME TypeOK, NEW w \in Workers, Local(w)
  PROVE  \/ Die(w)
         \/ \E s \in PipelineSteps, o \in TerminalStatuses :
              StepsTo(w, s, o) /\ Follows(work[w], s, o)
  <1> DEFINE c == work[w]
             Reaches(s, o) == StepsTo(w, s, o) /\ Follows(c, s, o)
             Goal == \/ Die(w)
                     \/ \E s \in PipelineSteps, o \in TerminalStatuses : Reaches(s, o)
  <1> SUFFICES Goal
    OBVIOUS
  <1>0. /\ PipelineSteps \subseteq Steps /\ "finish" \in PipelineSteps
        /\ c.outcome \in TerminalStatuses /\ version \in Nat /\ version + 1 \in Nat
    BY DEF Steps, PipelineSteps, TypeOK, Work
  <1>1. ASSUME NEW s \in PipelineSteps, Goto(w, s), Follows(c, s, c.outcome) PROVE Goal
    BY <1>0, <1>1, GotoSteps
  <1>2. ASSUME NEW o \in TerminalStatuses, Conclude(w, o), Follows(c, "finish", o)
        PROVE  Goal
    <2>1. StepsTo(w, "finish", o)
      BY <1>0, <1>2, OutcomeSteps DEF Conclude
    <2> QED
      BY <1>0, <1>2, <2>1
  <1>3. ASSUME NEW s \in PipelineSteps, NEW o \in TerminalStatuses,
               work' = [work EXCEPT ![w].step = s, ![w].outcome = o], Follows(c, s, o)
        PROVE  Goal
    BY <1>0, <1>3, OutcomeSteps
  <1>4. ASSUME NEW s \in PipelineSteps, NEW n \in {version, version + 1},
               work' = [work EXCEPT ![w].step = s, ![w].seen = n], Follows(c, s, c.outcome)
        PROVE  Goal
    <2>1. StepsTo(w, s, c.outcome)
      BY <1>0, <1>4, SeenSteps
    <2> QED
      BY <1>0, <1>4, <2>1
  <1>5. /\ {"advance", "claimstage", "load", "staged", "record", "claimexecute", "send",
            "executed", "cleanup", "recordcleanup", "claimvalidate", "query",
            "validated", "finish"} \subseteq PipelineSteps
        /\ TerminalStatuses = {"SUCCEEDED", "FAILED", "REVIEW_REQUIRED", "RECOVERY_REQUIRED"}
    BY DEF PipelineSteps, TerminalStatuses
  <1> HIDE DEF Goal
  <1>6. CASE Prepare(w) \/ CheckStaging(w) \/ CheckPreview(w) \/ CheckExecution(w)
    BY <1>1, <1>2, <1>5, <1>6
       DEF Prepare, CheckStaging, CheckPreview, CheckExecution, At, Follows
  <1>7. CASE ClaimStaging(w) \/ RecordPreview(w) \/ ClaimExecution(w) \/ RecordCleanup(w)
             \/ ClaimValidation(w)
    BY <1>4, <1>5, <1>7
       DEF ClaimStaging, RecordPreview, ClaimExecution, RecordCleanup, ClaimValidation,
           At, Follows, Goal
  <1>8. CASE LoadEnds(w) \/ Query(w)
    BY <1>3, <1>5, <1>8 DEF LoadEnds, Query, At, Follows
  <1>9. CASE Answer(w)
    <2>1. PICK o \in Dispositions(c.job) :
            work' = [work EXCEPT ![w].step = "executed", ![w].outcome = o]
      BY <1>9 DEF Answer
    <2>2. o \in TerminalStatuses
      BY DEF Dispositions, TerminalStatuses
    <2>3. Follows(c, "executed", o)
      BY <1>9 DEF Answer, At, Follows
    <2> QED
      BY <1>3, <1>5, <2>1, <2>2, <2>3
  <1>10. CASE CompleteStaging(w)
    <2>1. CASE Die(w)
      BY <2>1 DEF Goal
    <2>2. CASE c.outcome # "SUCCEEDED" /\ Conclude(w, c.outcome)
      BY <1>0, <1>2, <1>10, <2>2 DEF CompleteStaging, At, Follows
    <2>3. CASE work' = [work EXCEPT ![w].step = "advance", ![w].seen = version + 1]
      BY <1>4, <1>5, <1>10, <2>3 DEF CompleteStaging, At, Follows
    <2> QED
      BY <1>10, <2>1, <2>2, <2>3 DEF CompleteStaging
  <1>11. CASE CompleteExecution(w)
    <2>1. CASE Die(w)
      BY <2>1 DEF Goal
    <2>2. CASE Conclude(w, c.outcome)
      BY <1>0, <1>2, <1>11, <2>2 DEF CompleteExecution, At, Follows
    <2>3. CASE c.outcome = "SUCCEEDED" /\ Goto(w, "cleanup")
      BY <1>1, <1>5, <1>11, <2>3 DEF CompleteExecution, At, Follows
    <2> QED
      BY <1>11, <2>1, <2>2, <2>3 DEF CompleteExecution
  <1>12. CASE Cleanup(w)
    <2>1. CASE work' = [work EXCEPT ![w].step = "recordcleanup", ![w].seen = version]
      BY <1>4, <1>5, <1>12, <2>1 DEF Cleanup, At, Follows
    <2>2. CASE work' = [work EXCEPT ![w].step = "advance", ![w].outcome = "RECOVERY_REQUIRED"]
      BY <1>3, <1>5, <1>12, <2>2 DEF Cleanup, At, Follows
    <2> QED
      BY <1>12, <2>1, <2>2 DEF Cleanup
  <1>13. CASE CheckValidation(w)
    BY <1>1, <1>2, <1>5, <1>13 DEF CheckValidation, At, Follows
  <1>14. CASE CompleteValidation(w)
    <2>1. CASE Die(w)
      BY <2>1 DEF Goal
    <2>2. CASE Goto(w, "finish")
      BY <1>1, <1>5, <1>14, <2>2 DEF CompleteValidation, At, Follows
    <2> QED
      BY <1>14, <2>1, <2>2 DEF CompleteValidation
  <1> QED
    BY <1>6, <1>7, <1>8, <1>9, <1>10, <1>11, <1>12, <1>13, <1>14 DEF Local, Goal

\* A step that follows another is taken at the stage of the other.
LEMMA FollowsFits ==
  ASSUME NEW c \in Work, NEW s \in PipelineSteps, NEW o, Follows(c, s, o), Placed(c)
  PROVE  c.step \in PipelineSteps /\ c.stage \in StagesAt(s)
  <1>1. c.step \in PipelineSteps
    BY DEF Follows, PipelineSteps
  <1>2. c.stage \in StagesAt(c.step)
    BY <1>1 DEF Placed
  <1> QED
    BY <1>1, <1>2 DEF Follows, StagesAt, JobStages

\* What a local step leaves alone.
LEMMA LocalFrame ==
  ASSUME NEW w \in Workers, Local(w)
  PROVE  UNCHANGED <<jobVars, statement>>
  BY DEF Local, Prepare, CheckStaging, ClaimStaging, LoadEnds, CompleteStaging,
     CheckPreview, RecordPreview, CheckExecution, ClaimExecution, Answer,
     CompleteExecution, Cleanup, RecordCleanup, CheckValidation, ClaimValidation,
     Query, CompleteValidation

----------------------------------------------------------------------------
(* Types *)

\* The part of TypeOK that speaks of the workers, and the part on the row.
WorkTyped ==
  /\ work \in [Workers -> Work]
  /\ \A w \in Workers : Placed(work[w])

RowTyped ==
  /\ status \in Statuses
  /\ version \in Nat
  /\ latest \in [Kinds -> Nat]
  /\ operation \in Jobs \cup {None}
  /\ foreign \in Nat

JobsTyped ==
  /\ jobs \in [Jobs -> JobRow]
  /\ unpublished \subseteq Jobs
  /\ queue \subseteq Jobs
  /\ statement \in [Jobs -> Fates]

LEMMA TypeParts ==
  ASSUME RowTyped', JobsTyped', WorkTyped'
  PROVE  TypeOK'
  BY DEF TypeOK, RowTyped, JobsTyped, WorkTyped

LEMMA StepsType ==
  ASSUME TypeOK, NEW w \in Workers, NEW s, NEW o, StepsTo(w, s, o), ~At(w, "idle"),
         s \in PipelineSteps => work[w].stage \in StagesAt(s)
  PROVE  WorkTyped'
  BY StepsPlaced DEF StepsTo, WorkTyped

LEMMA LocalType ==
  ASSUME TypeOK, NEW w \in Workers, Local(w)
  PROVE  WorkTyped'
  <1>1. CASE Die(w)
    BY <1>1, DieType DEF WorkTyped
  <1>2. ASSUME NEW s \in PipelineSteps, NEW o \in TerminalStatuses,
               StepsTo(w, s, o), Follows(work[w], s, o)
        PROVE  WorkTyped'
    <2>1. work[w] \in Work /\ Placed(work[w])
      BY DEF TypeOK
    <2>2. work[w].step \in PipelineSteps /\ work[w].stage \in StagesAt(s)
      BY <1>2, <2>1, FollowsFits
    <2>3. ~At(w, "idle")
      BY <2>2 DEF At, PipelineSteps
    <2> QED
      BY <1>2, <2>2, <2>3, StepsType
  <1> QED
    BY <1>1, <1>2, LocalMoves

\* The row moves to a status of the graph and, at most, into the hands of a job.
LEMMA MoveType ==
  ASSUME TypeOK, NEW st \in Statuses, NEW op \in Jobs \cup {None}, Move(st, op)
  PROVE  RowTyped'
  BY DEF TypeOK, Move, RowTyped

LEMMA LocalRowType ==
  ASSUME TypeOK, NEW w \in Workers, Local(w)
  PROVE  RowTyped'
  <1> DEFINE o == work[w].outcome
  <1>1. /\ {"STAGING", "STAGED", "MAPPING_APPROVED", "STAGING_RECOVERY_REQUIRED",
            "EXECUTION_READY", "EXECUTING", "EXECUTED", "EXECUTION_RECOVERY_REQUIRED",
            "VALIDATING", "VALIDATED", "VALIDATION_REVIEW_REQUIRED",
            "VALIDATION_RECOVERY_REQUIRED", status} \subseteq Statuses
        /\ {None, operation} \subseteq Jobs \cup {None}
    BY DEF Statuses, TypeOK
  <1>2. AfterStaging(o) \in Statuses
    BY <1>1 DEF AfterStaging
  <1>3. UNCHANGED rowVars => RowTyped'
    BY DEF TypeOK, RowTyped, rowVars
  <1>4. CASE Prepare(w) \/ CheckStaging(w) \/ LoadEnds(w) \/ CheckPreview(w)
             \/ CheckExecution(w) \/ Answer(w) \/ Cleanup(w) \/ CheckValidation(w)
             \/ Query(w)
    BY <1>3, <1>4 DEF Prepare, CheckStaging, LoadEnds, CheckPreview, CheckExecution,
       Answer, Cleanup, CheckValidation, Query
  <1>5. CASE ClaimStaging(w) \/ ClaimExecution(w) \/ ClaimValidation(w)
    <2>1. work[w].job \in Jobs
      BY <1>5 DEF ClaimStaging, ClaimExecution, ClaimValidation, At, TypeOK, Placed
    <2> QED
      BY <1>1, <1>3, <1>5, <2>1, MoveType
         DEF ClaimStaging, ClaimExecution, ClaimValidation
  <1>6. CASE CompleteStaging(w)
    BY <1>1, <1>2, <1>3, <1>6, MoveType DEF CompleteStaging
  <1>7. CASE RecordPreview(w) \/ RecordCleanup(w)
    BY <1>1, <1>3, <1>7, MoveType DEF RecordPreview, RecordCleanup
  <1>8. CASE CompleteExecution(w)
    <2> DEFINE st == CASE o = "SUCCEEDED" -> "EXECUTED"
                       [] o = "FAILED"    -> "EXECUTION_READY"
                       [] OTHER           -> "EXECUTION_RECOVERY_REQUIRED"
    <2>1. st \in Statuses
      BY <1>1
    <2>2. UNCHANGED rowVars \/ Move(st, None)
      BY <1>8 DEF CompleteExecution
    <2> QED
      BY <1>1, <1>3, <2>1, <2>2, MoveType
  <1>9. CASE CompleteValidation(w)
    <2> DEFINE st == CASE o = "SUCCEEDED"       -> "VALIDATED"
                       [] o = "REVIEW_REQUIRED" -> "VALIDATION_REVIEW_REQUIRED"
                       [] OTHER                 -> "VALIDATION_RECOVERY_REQUIRED"
    <2>1. st \in Statuses
      BY <1>1
    <2>2. UNCHANGED rowVars \/ Move(st, None)
      BY <1>9 DEF CompleteValidation
    <2> QED
      BY <1>1, <1>3, <2>1, <2>2, MoveType
  <1> QED
    BY <1>4, <1>5, <1>6, <1>7, <1>8, <1>9 DEF Local

\* A claim, an advance and an ending write a well-formed job row.
LEMMA JobRowUpdates ==
  ASSUME TypeOK, NEW j \in Jobs
  PROVE  /\ \A st \in JobStatuses, sg \in JobStages :
              [jobs EXCEPT ![j].status = st, ![j].stage = sg] \in [Jobs -> JobRow]
         /\ \A sg \in JobStages : [jobs EXCEPT ![j].stage = sg] \in [Jobs -> JobRow]
         /\ [jobs EXCEPT ![j].batches = @ + 1] \in [Jobs -> JobRow]
         /\ [jobs EXCEPT ![j] = [NoRow EXCEPT !.status = "QUEUED", !.expected = version]]
              \in [Jobs -> JobRow]
  <1>1. jobs \in [Jobs -> JobRow] /\ jobs[j] \in JobRow /\ version \in Nat
    BY DEF TypeOK
  <1>2. ASSUME NEW st \in JobStatuses, NEW sg \in JobStages
        PROVE  [jobs EXCEPT ![j].status = st, ![j].stage = sg] \in [Jobs -> JobRow]
    BY <1>1 DEF JobRow
  <1>3. ASSUME NEW sg \in JobStages
        PROVE  [jobs EXCEPT ![j].stage = sg] \in [Jobs -> JobRow]
    BY <1>1 DEF JobRow
  <1>4. [jobs EXCEPT ![j].batches = @ + 1] \in [Jobs -> JobRow]
    BY <1>1 DEF JobRow
  <1>5. [NoRow EXCEPT !.status = "QUEUED", !.expected = version] \in JobRow
    BY <1>1 DEF JobRow, NoRow, JobStatuses, JobStages
  <1> QED
    BY <1>1, <1>2, <1>3, <1>4, <1>5

LEMMA ConcludedRow ==
  ASSUME TypeOK, NEW j \in Jobs, NEW o \in TerminalStatuses,
         jobs' = [jobs EXCEPT ![j].status = o,
                              ![j].stage = IF o = "SUCCEEDED" THEN "COMPLETED" ELSE @]
  PROVE  jobs' \in [Jobs -> JobRow]
  BY DEF TypeOK, JobRow, JobStatuses, JobStages, TerminalStatuses

\* A fresh delivery or poll gives a worker a job and nothing else.
LEMMA TakeType ==
  ASSUME TypeOK, NEW w \in Workers, NEW j \in Jobs, NEW s \in FreeSteps, NEW m \in BOOLEAN,
         work' = [work EXCEPT ![w] =
                    [IdleWork EXCEPT !.step = s, !.job = j, !.message = m]]
  PROVE  WorkTyped'
  <1> DEFINE c == [IdleWork EXCEPT !.step = s, !.job = j, !.message = m]
  <1>1. c \in Work /\ c.step = s /\ c.job = j
    BY DEF IdleWork, Work, JobStages, TerminalStatuses
  <1>2. s \notin PipelineSteps
    BY DEF FreeSteps, PipelineSteps
  <1>3. Placed(c)
    BY <1>1, <1>2 DEF Placed
  <1> QED
    BY <1>1, <1>3 DEF WorkTyped, TypeOK

LEMMA PollType ==
  ASSUME TypeOK, NEW w \in Workers, NEW j \in Jobs,
         work' = [work EXCEPT ![w] = [IdleWork EXCEPT !.step = "claiming", !.job = j]]
  PROVE  WorkTyped'
  <1> DEFINE c == [IdleWork EXCEPT !.step = "claiming", !.job = j]
  <1>1. c \in Work /\ c.step = "claiming" /\ c.job = j
    BY DEF IdleWork, Work, FreeSteps, JobStages, TerminalStatuses
  <1>2. Placed(c)
    BY <1>1 DEF Placed, PipelineSteps
  <1> QED
    BY <1>1, <1>2 DEF WorkTyped, TypeOK

\* The successor of the stage of a worker that advances, and the step taken there.
LEMMA AdvanceFits ==
  ASSUME NEW stage \in StagesAt("advance"), NEW o \in TerminalStatuses
  PROVE  LET next == NextStage[stage]
         IN  /\ next \in JobStages
             /\ StepAt(next, o) \in PipelineSteps
             /\ next \in StagesAt(StepAt(next, o))
  BY DEF StagesAt, NextStage, StepAt, JobStages, PipelineSteps, TerminalStatuses

LEMMA AdvanceWork ==
  ASSUME TypeOK, NEW w \in Workers, At(w, "advance"),
         work' = [work EXCEPT ![w].stage = NextStage[work[w].stage],
                              ![w].step = StepAt(NextStage[work[w].stage], work[w].outcome)]
  PROVE  /\ WorkTyped'
         /\ work'[w].stage = NextStage[work[w].stage]
         /\ work'[w].step = StepAt(NextStage[work[w].stage], work[w].outcome)
         /\ work'[w].outcome = work[w].outcome /\ work'[w].job = work[w].job
         /\ \A v \in Workers : v # w => work'[v] = work[v]
         /\ NextStage[work[w].stage] \in JobStages
  <1> DEFINE next == NextStage[work[w].stage]
             s == StepAt(next, work[w].outcome)
             c == [work[w] EXCEPT !.stage = next, !.step = s]
  <1>1. /\ work[w] \in Work /\ work[w].job \in Jobs
        /\ work[w].stage \in StagesAt("advance")
        /\ work[w].outcome \in TerminalStatuses
    BY DEF At, TypeOK, Placed, PipelineSteps, Work
  <1>2. next \in JobStages /\ s \in PipelineSteps /\ next \in StagesAt(s)
    BY <1>1, AdvanceFits
  <1> HIDE DEF next, s
  <1>3. /\ c \in Work /\ c.step = s /\ c.stage = next /\ c.job = work[w].job
        /\ c.outcome = work[w].outcome
    BY <1>1, <1>2 DEF Work
  <1>4. Placed(c)
    BY <1>1, <1>2, <1>3 DEF Placed
  <1>5. work' = [work EXCEPT ![w] = c]
    BY DEF next, s
  <1>6. work'[w] = c /\ \A v \in Workers : v # w => work'[v] = work[v]
    BY <1>5 DEF TypeOK
  <1>7. WorkTyped'
    BY <1>3, <1>4, <1>5 DEF WorkTyped, TypeOK
  <1> QED
    BY <1>2, <1>3, <1>6, <1>7 DEF next, s

\* MigrationJobs keeps every variable within its type, and every worker at a stage
\* that fits its step.
LEMMA TypeStep ==
  ASSUME TypeOK, [Next]_vars
  PROVE  TypeOK'
<1> USE ConstantsAssumption
<1>1. UNCHANGED work => WorkTyped'
  BY DEF TypeOK, WorkTyped
<1>2. UNCHANGED rowVars => RowTyped'
  BY DEF TypeOK, RowTyped, rowVars
<1>3. UNCHANGED <<jobVars, statement>> => JobsTyped'
  BY DEF TypeOK, JobsTyped, jobVars
<1>4. ASSUME NEW j \in Jobs, Create(j) \/ Publish(j) \/ PublishLost(j) \/ Decide(j)
      PROVE  TypeOK'
  <2>1. JobsTyped'
    <3>1. CASE Create(j)
      BY <3>1, JobRowUpdates DEF Create, JobsTyped, TypeOK
    <3>2. CASE Publish(j) \/ PublishLost(j)
      BY <3>2 DEF Publish, PublishLost, JobsTyped, TypeOK
    <3>3. CASE Decide(j)
      BY <3>3 DEF Decide, JobsTyped, TypeOK, jobVars, Fates
    <3> QED
      BY <1>4, <3>1, <3>2, <3>3
  <2> QED
    BY <1>1, <1>2, <1>4, <2>1, TypeParts DEF Create, Publish, PublishLost, Decide
<1>5. ASSUME NEW w \in Workers, Receive(w) \/ Poll(w) PROVE TypeOK'
  <2>1. WorkTyped'
    <3>1. CASE Receive(w)
      <4>1. PICK j \in Jobs :
              work' = [work EXCEPT ![w] =
                         [IdleWork EXCEPT !.step = "received", !.job = j, !.message = TRUE]]
        BY <3>1 DEF Receive, TypeOK
      <4>2. "received" \in FreeSteps
        BY DEF FreeSteps
      <4> QED
        BY <4>1, <4>2, TakeType
    <3>2. CASE Poll(w)
      BY <3>2, PollType DEF Poll
    <3> QED
      BY <1>5, <3>1, <3>2
  <2>2. UNCHANGED <<rowVars, jobVars, statement>>
    BY <1>5 DEF Receive, Poll, jobVars, sqsVars
  <2> QED
    BY <1>2, <1>3, <2>1, <2>2, TypeParts
<1>6. ASSUME NEW w \in Workers, Lock(w) \/ ClaimNothing(w) PROVE TypeOK'
  <2>1. PICK s \in {"claiming", "ack"} : Goto(w, s) /\ ~At(w, "idle")
    BY <1>6 DEF Lock, ClaimNothing, At
  <2>2. s \in Steps /\ s \notin PipelineSteps
    BY <2>1 DEF Steps, FreeSteps, PipelineSteps
  <2>3. WorkTyped'
    BY <2>1, <2>2, GotoSteps, StepsType
  <2>4. UNCHANGED <<rowVars, jobVars, statement>>
    BY <1>6 DEF Lock, ClaimNothing, jobVars, sqsVars
  <2> QED
    BY <1>2, <1>3, <2>3, <2>4, TypeParts
<1>7. ASSUME NEW w \in Workers, Claim(w) PROVE TypeOK'
  <2>1. /\ work[w] \in Work /\ work[w].job \in Jobs
    BY <1>7 DEF Claim, At, TypeOK, Placed
  <2> DEFINE c == [work[w] EXCEPT !.step = "prepare", !.stage = "PREPARING"]
  <2>2. c \in Work /\ c.step = "prepare" /\ c.stage = "PREPARING" /\ c.job = work[w].job
    BY <2>1 DEF Work, PipelineSteps, JobStages
  <2>3. Placed(c)
    BY <2>1, <2>2 DEF Placed, StagesAt
  <2>4. work' = [work EXCEPT ![w] = c]
    BY <1>7 DEF Claim
  <2>5. WorkTyped'
    BY <2>2, <2>3, <2>4 DEF WorkTyped, TypeOK
  <2>6. "RUNNING" \in JobStatuses /\ "PREPARING" \in JobStages
    BY DEF JobStatuses, JobStages
  <2>7. JobsTyped'
    BY <1>7, <2>1, <2>6, JobRowUpdates DEF Claim, JobsTyped, TypeOK, sqsVars
  <2> QED
    BY <1>2, <1>7, <2>5, <2>7, TypeParts DEF Claim
<1>8. ASSUME NEW w \in Workers, Local(w) PROVE TypeOK'
  BY <1>3, <1>8, LocalFrame, LocalType, LocalRowType, TypeParts
<1>9. ASSUME NEW w \in Workers, Advance(w) PROVE TypeOK'
  <2> DEFINE next == NextStage[work[w].stage]
  <2>1. work[w].job \in Jobs
    BY <1>9 DEF Advance, At, TypeOK, Placed
  <2>2. CASE Die(w) /\ UNCHANGED jobs
    BY <1>2, <1>3, <1>9, <2>2, DieType, TypeParts DEF Advance, WorkTyped, jobVars, sqsVars
  <2>3. CASE /\ jobs' = [jobs EXCEPT ![work[w].job].stage = next]
             /\ work' = [work EXCEPT ![w].stage = next,
                                     ![w].step = StepAt(next, work[w].outcome)]
    <3>1. WorkTyped' /\ next \in JobStages
      BY <1>9, <2>3, AdvanceWork DEF Advance
    <3>2. JobsTyped'
      BY <1>9, <2>1, <2>3, <3>1, JobRowUpdates DEF Advance, JobsTyped, TypeOK, sqsVars
    <3> QED
      BY <1>2, <1>9, <3>1, <3>2, TypeParts DEF Advance
  <2> QED
    BY <1>9, <2>2, <2>3 DEF Advance
<1>10. ASSUME NEW w \in Workers, ReportBatch(w) PROVE TypeOK'
  <2>1. work[w].job \in Jobs
    BY <1>10 DEF ReportBatch, At, TypeOK, Placed
  <2>2. JobsTyped'
    BY <1>10, <2>1, JobRowUpdates DEF ReportBatch, JobsTyped, TypeOK, sqsVars
  <2> QED
    BY <1>1, <1>2, <1>10, <2>2, TypeParts DEF ReportBatch
<1>11. ASSUME NEW w \in Workers, Send(w) PROVE TypeOK'
  <2>1. "await" \in Steps /\ ~At(w, "idle") /\ work[w].stage \in StagesAt("await")
    BY <1>11 DEF Send, At, Steps, PipelineSteps, TypeOK, Placed, StagesAt
  <2>2. WorkTyped'
    BY <1>11, <2>1, GotoSteps, StepsType DEF Send
  <2>3. JobsTyped'
    BY <1>11 DEF Send, JobsTyped, TypeOK, jobVars, Fates
  <2> QED
    BY <1>2, <1>11, <2>2, <2>3, TypeParts DEF Send
<1>12. ASSUME NEW w \in Workers, Finish(w) PROVE TypeOK'
  <2>1. /\ work[w].job \in Jobs /\ work[w].outcome \in TerminalStatuses /\ ~At(w, "idle")
    BY <1>12 DEF Finish, At, TypeOK, Placed, Work
  <2>2. WorkTyped'
    <3>1. CASE Die(w)
      BY <3>1, DieType DEF WorkTyped
    <3>2. CASE Goto(w, "ack")
      <4>1. "ack" \in Steps /\ "ack" \notin PipelineSteps
        BY DEF Steps, FreeSteps, PipelineSteps
      <4> QED
        BY <2>1, <3>2, <4>1, GotoSteps, StepsType
    <3> QED
      BY <1>12, <3>1, <3>2 DEF Finish
  <2>3. jobs' \in [Jobs -> JobRow]
    BY <1>12, <2>1, ConcludedRow DEF Finish, TypeOK
  <2>4. JobsTyped'
    BY <1>12, <2>3 DEF Finish, JobsTyped, TypeOK, sqsVars
  <2> QED
    BY <1>2, <1>12, <2>2, <2>4, TypeParts DEF Finish
<1>13. ASSUME NEW w \in Workers, Acknowledge(w) \/ Crash(w) PROVE TypeOK'
  <2>1. WorkTyped'
    BY <1>13, DieType DEF Acknowledge, Crash, WorkTyped
  <2>2. JobsTyped'
    BY <1>13 DEF Acknowledge, Crash, JobsTyped, TypeOK, jobVars
  <2> QED
    BY <1>2, <1>13, <2>1, <2>2, TypeParts DEF Acknowledge, Crash
<1>14. CASE ForeignMove \/ ForeignAppend
  <2>1. UNCHANGED <<jobVars, statement, work>>
    BY <1>14 DEF ForeignMove, ForeignAppend
  <2>2. version' \in Nat /\ foreign' \in Nat /\ operation' \in Jobs \cup {None}
    BY <1>14 DEF ForeignMove, ForeignAppend, TypeOK
  <2>3. latest' \in [Kinds -> Nat]
    <3>1. CASE ForeignMove
      BY <3>1 DEF ForeignMove, TypeOK
    <3>2. CASE ForeignAppend
      <4>1. PICK replaced \in {{}} \cup {{kind} : kind \in Kinds} :
              latest' = [kind \in Kinds |->
                           IF kind \in replaced THEN version + 1 ELSE latest[kind]]
        BY <3>2 DEF ForeignAppend
      <4> QED
        BY <4>1 DEF TypeOK
    <3> QED
      BY <1>14, <3>1, <3>2
  <2>4. status' \in Statuses
    <3>1. CASE ForeignMove
      <4>1. status \in Statuses /\ status' \in AllowedTransitions[status]
        BY <3>1 DEF ForeignMove, TypeOK
      <4>2. \A s \in Statuses : AllowedTransitions[s] \subseteq Statuses
        BY DEF AllowedTransitions, Statuses, Withdrawn
      <4> QED
        BY <4>1, <4>2
    <3>2. CASE ForeignAppend
      BY <3>2 DEF ForeignAppend, TypeOK
    <3> QED
      BY <1>14, <3>1, <3>2
  <2> QED
    BY <1>1, <1>3, <2>1, <2>2, <2>3, <2>4, TypeParts DEF RowTyped
<1>15. CASE UNCHANGED vars
  BY <1>15 DEF vars, TypeOK
<1> QED
  BY <1>4, <1>5, <1>6, <1>7, <1>8, <1>9, <1>10, <1>11, <1>12, <1>13, <1>14, <1>15
     DEF Next, Take, Process, Local

\* MigrationJobs keeps every variable within its type: the rows of the control
\* plane, the queue, the target and the local state of a worker, whose step and
\* stage fit each other.
THEOREM TypeCorrect == Spec => []TypeOK
<1>1. Init => TypeOK
  <2> SUFFICES ASSUME Init PROVE TypeOK
    OBVIOUS
  <2>1. RowTyped
    BY DEF Init, RowTyped, Statuses
  <2>2. JobsTyped
    BY DEF Init, JobsTyped, JobRow, NoRow, JobStatuses, JobStages, Fates
  <2>3. WorkTyped
    BY IdleWorkType DEF Init, WorkTyped
  <2> QED
    BY <2>1, <2>2, <2>3 DEF TypeOK, RowTyped, JobsTyped, WorkTyped
<1>2. TypeOK /\ [Next]_vars => TypeOK'
  BY TypeStep
<1> QED
  BY <1>1, <1>2, PTL DEF Spec

----------------------------------------------------------------------------
(* The discipline of the jobs *)

Drives(c) == c.step \in PipelineSteps

\* What the discipline asks of one worker, and of two.
Sound(w) ==
  /\ Drives(work[w]) =>
       /\ jobs[work[w].job].status = "RUNNING"
       /\ jobs[work[w].job].stage = work[w].stage
       /\ statement[work[w].job] \in FatesAt(work[w])
  /\ At(w, "claiming") => jobs[work[w].job].status = "QUEUED"

Engaged(c) == c.step \in {"claiming"} \cup PipelineSteps

Exclusive == \A v, w \in Workers :
  Engaged(work[v]) /\ Engaged(work[w]) /\ work[v].job = work[w].job => v = w

EndingsTrue == \A j \in Jobs :
  statement[j] \in IF jobs[j].status \in {"ABSENT", "QUEUED"}
                     THEN {"unsent"} ELSE FatesOf(jobs[j].status)

Disciplined == (\A w \in Workers : Sound(w)) /\ Exclusive /\ EndingsTrue

\* JobDiscipline, worker by worker: no worker claims what another drives, since a
\* job cannot be queued and running.
LEMMA DisciplineParts ==
  ASSUME TypeOK
  PROVE  JobDiscipline => Disciplined
  <1>1. \A w \in Workers : work[w].step # "idle" => work[w].job \in Jobs
    BY DEF TypeOK, Placed
  <1>2. "claiming" \notin PipelineSteps /\ "idle" \notin PipelineSteps
    BY DEF PipelineSteps
  <1>3. ASSUME JobDiscipline PROVE Disciplined
    <2>1. ASSUME NEW w \in Workers PROVE Sound(w)
      BY <1>1, <1>2, <1>3 DEF JobDiscipline, OneDriver, StatementMatches, Holds, Sound, Drives, At
    <2>2. Exclusive
      <3> SUFFICES ASSUME NEW v \in Workers, NEW w \in Workers,
                          Engaged(work[v]), Engaged(work[w]), work[v].job = work[w].job
                   PROVE  v = w
        BY DEF Exclusive
      <3>1. work[v].job \in Jobs
        BY <1>1, <1>2 DEF Engaged
      <3> QED
        BY <1>3, <3>1 DEF Engaged, JobDiscipline, OneDriver, Holds, At
    <2> QED
      BY <1>3, <2>1, <2>2 DEF Disciplined, EndingsTrue, JobDiscipline, StatementMatches
  <1> QED
    BY <1>3

LEMMA DisciplineHolds ==
  ASSUME Disciplined'
  PROVE  JobDiscipline'
  <1>1. OneDriver'
    BY DEF Disciplined, Sound, Exclusive, Engaged, Drives, OneDriver, Holds, At
  <1>2. StatementMatches'
    BY DEF Disciplined, Sound, EndingsTrue, Drives, StatementMatches
  <1> QED
    BY <1>1, <1>2 DEF JobDiscipline

\* One worker moves; the rows and the statements of the jobs of the others stay.
LEMMA WorkerKeepsDiscipline ==
  ASSUME TypeOK, Disciplined, NEW w \in Workers,
         \A v \in Workers : v # w => work'[v] = work[v],
         Sound(w)',
         Engaged(work'[w]) =>
           \A v \in Workers : v # w /\ Engaged(work[v]) => work[v].job # work'[w].job,
         \A v \in Workers : v # w /\ Engaged(work[v]) =>
           /\ jobs'[work[v].job] = jobs[work[v].job]
           /\ statement'[work[v].job] = statement[work[v].job],
         EndingsTrue'
  PROVE  Disciplined'
  <1>1. (\A v \in Workers : Sound(v))'
    <2> SUFFICES ASSUME NEW v \in Workers PROVE Sound(v)'
      OBVIOUS
    <2>1. CASE v = w
      BY <2>1
    <2>2. CASE v # w
      BY <2>2 DEF Disciplined, Sound, Drives, Engaged, At, FatesAt, FatesOf
    <2> QED
      BY <2>1, <2>2
  <1>2. Exclusive'
    BY DEF Disciplined, Exclusive
  <1> QED
    BY <1>1, <1>2 DEF Disciplined

\* A worker that was not engaged, or that stays with its job, excludes nobody anew.
LEMMA StaysExclusive ==
  ASSUME TypeOK, Disciplined, NEW w \in Workers, Engaged(work[w]),
         work'[w].job = work[w].job
  PROVE  /\ work[w].job \in Jobs
         /\ \A v \in Workers : v # w /\ Engaged(work[v]) => work[v].job # work'[w].job
  <1>1. work[w].job \in Jobs
    BY DEF Engaged, PipelineSteps, TypeOK, Placed
  <1> QED
    BY <1>1 DEF Disciplined, Exclusive

\* The fate allowed at a step is allowed at the step that follows.
LEMMA FatesFollow ==
  ASSUME NEW c \in Work, NEW d \in Work, NEW s \in PipelineSteps, NEW o \in TerminalStatuses,
         Placed(c), c.job \in Jobs, statement \in [Jobs -> Fates],
         d.step = s, d.outcome = o, d.stage = c.stage, Follows(c, s, o),
         statement[c.job] \in FatesAt(c)
  PROVE  statement[c.job] \in FatesAt(d)
  <1>1. c.step \in PipelineSteps /\ c.stage \in StagesAt(c.step)
    BY FollowsFits DEF Placed
  <1>2. c.stage \in JobStages /\ statement[c.job] \in Fates
    BY DEF Work
  <1> DEFINE f == statement[c.job]
  <1> HIDE DEF f
  <1>3. f \in Fates /\ f \in FatesAt(c)
    BY <1>2 DEF f
  <1>4. CASE c.step = "await"
    <2>1. s = "executed" /\ o \in Dispositions(c.job)
      BY <1>4 DEF Follows
    <2> QED
      BY <1>2, <2>1 DEF FatesAt, FatesOf, Dispositions
  <1>5. CASE c.step \in {"executed", "validated"}
    <2>1. f \in FatesOf(c.outcome)
      BY <1>3, <1>5 DEF FatesAt
    <2>2. CASE s = "finish"
      <3>1. d.outcome = c.outcome
        BY <1>5, <2>2 DEF Follows
      <3>2. f \in FatesAt(d)
        BY <2>1, <2>2, <3>1 DEF FatesAt
      <3> QED
        BY <3>2 DEF f
    <2>3. CASE s = "cleanup"
      <3>1. f = "committed"
        BY <1>5, <2>1, <2>3 DEF Follows, FatesOf
      <3>2. f \in FatesAt(d)
        BY <2>3, <3>1 DEF FatesAt
      <3> QED
        BY <3>2 DEF f
    <2> QED
      BY <1>5, <2>2, <2>3 DEF Follows
  <1>6. CASE c.step = "query"
    <2>1. f = "committed"
      BY <1>3, <1>6 DEF FatesAt
    <2>2. f \in FatesAt(d)
      BY <1>6, <2>1 DEF Follows, FatesAt, FatesOf, Fates
    <2> QED
      BY <2>2 DEF f
  <1>7. CASE c.step = "validate" /\ s = "finish"
    <2>1. f = "committed"
      BY <1>3, <1>7 DEF FatesAt
    <2>2. f \in FatesAt(d)
      BY <1>7, <2>1 DEF Follows, FatesAt, FatesOf, Fates
    <2> QED
      BY <2>2 DEF f
  <1>8. CASE c.step \notin {"await", "executed", "validated", "query"}
             /\ ~(c.step = "validate" /\ s = "finish")
    <2>1. CASE c.step \in {"cleanup", "recordcleanup", "validate", "claimvalidate"}
      <3>1. f = "committed"
        BY <1>3, <2>1 DEF FatesAt
      <3>2. f \in FatesAt(d)
        BY <1>1, <1>8, <2>1, <3>1 DEF Follows, FatesAt, StagesAt
      <3> QED
        BY <3>2 DEF f
    <2>2. CASE c.step \notin {"cleanup", "recordcleanup", "validate", "claimvalidate"}
      <3>1. c.step # "advance" /\ f = "unsent"
        BY <1>3, <1>8, <2>2 DEF Follows, FatesAt
      <3>2. f \in FatesAt(d)
        BY <1>1, <1>8, <2>2, <3>1 DEF Follows, FatesAt, FatesOf, StagesAt, TerminalStatuses, Fates
      <3> QED
        BY <3>2 DEF f
    <2> QED
      BY <2>1, <2>2
  <1> QED
    BY <1>4, <1>5, <1>6, <1>7, <1>8

\* A worker that lets go of its job, by its death or otherwise.
LEMMA LetGo ==
  ASSUME TypeOK, Disciplined, NEW w \in Workers,
         \A v \in Workers : v # w => work'[v] = work[v],
         ~Engaged(work'[w]), UNCHANGED <<jobs, statement>>
  PROVE  Disciplined'
  <1>1. Sound(w)'
    BY DEF Sound, Drives, Engaged, At
  <1>2. EndingsTrue'
    BY DEF Disciplined, EndingsTrue, FatesOf
  <1> QED
    BY <1>1, <1>2, WorkerKeepsDiscipline

LEMMA DisciplineStep ==
  ASSUME TypeOK, TypeOK', Disciplined, [Next]_vars
  PROVE  Disciplined'
<1> USE ConstantsAssumption
<1>0. /\ "claiming" \notin PipelineSteps /\ "idle" \notin PipelineSteps
      /\ "received" \notin PipelineSteps /\ "ack" \notin PipelineSteps
  BY DEF PipelineSteps
<1>1. ASSUME UNCHANGED <<jobs, statement, work>> PROVE Disciplined'
  BY <1>1 DEF Disciplined, Sound, Exclusive, EndingsTrue, Drives, Engaged, At, FatesAt, FatesOf
<1>2. ASSUME NEW w \in Workers, Die(w), UNCHANGED <<jobs, statement>> PROVE Disciplined'
  BY <1>0, <1>2, DieType, LetGo DEF Engaged
<1>3. ASSUME NEW j \in Jobs, Create(j) PROVE Disciplined'
  <2>1. \A i \in Jobs :
          jobs'[i].status = IF i = j THEN "QUEUED" ELSE jobs[i].status
    BY <1>3 DEF Create, TypeOK, NoRow
  <2>2. /\ jobs[j].status = "ABSENT" /\ UNCHANGED <<statement, work>>
        /\ \A i \in Jobs : i # j => jobs'[i] = jobs[i]
    BY <1>3 DEF Create, TypeOK
  <2>3. \A w \in Workers : Engaged(work[w]) => work[w].job \in Jobs /\ work[w].job # j
    BY <1>0, <2>2 DEF Disciplined, Sound, Drives, Engaged, At, TypeOK, Placed
  <2>4. (\A w \in Workers : Sound(w))'
    <3> SUFFICES ASSUME NEW w \in Workers PROVE Sound(w)'
      OBVIOUS
    <3>1. Sound(w)
      BY DEF Disciplined
    <3> QED
      BY <2>2, <2>3, <3>1 DEF Sound, Drives, Engaged, At, FatesAt, FatesOf
  <2>5. Exclusive'
    BY <2>2 DEF Disciplined, Exclusive, Engaged
  <2>6. EndingsTrue'
    BY <2>1, <2>2 DEF Disciplined, EndingsTrue, FatesOf
  <2> QED
    BY <2>4, <2>5, <2>6 DEF Disciplined
<1>4. ASSUME NEW j \in Jobs, Publish(j) \/ PublishLost(j) PROVE Disciplined'
  BY <1>1, <1>4 DEF Publish, PublishLost
<1>5. ASSUME NEW j \in Jobs, Decide(j) PROVE Disciplined'
  <2>1. /\ statement[j] = "inflight" /\ statement'[j] \in {"committed", "rolledback"}
        /\ \A i \in Jobs : i # j => statement'[i] = statement[i]
        /\ UNCHANGED <<jobs, work>>
    BY <1>5 DEF Decide, jobVars, TypeOK
  <2>2. (\A w \in Workers : Sound(w))'
    <3> SUFFICES ASSUME NEW w \in Workers PROVE Sound(w)'
      OBVIOUS
    <3>1. Sound(w) /\ (Drives(work[w]) => work[w].job \in Jobs)
      BY <1>0 DEF Disciplined, Drives, TypeOK, Placed
    <3>2. Drives(work[w]) /\ statement[work[w].job] \in FatesAt(work[w])
            => statement'[work[w].job] \in FatesAt(work[w])
      BY <2>1, <3>1 DEF FatesAt, FatesOf, Fates
    <3> QED
      BY <2>1, <3>1, <3>2 DEF Sound, Drives, At, FatesAt, FatesOf
  <2>3. Exclusive'
    BY <2>1 DEF Disciplined, Exclusive, Engaged
  <2>4. EndingsTrue'
    BY <2>1 DEF Disciplined, EndingsTrue, FatesOf, Fates
  <2> QED
    BY <2>2, <2>3, <2>4 DEF Disciplined
<1>6. ASSUME NEW w \in Workers, Receive(w) PROVE Disciplined'
  <2>1. /\ UNCHANGED <<jobs, statement>> /\ work'[w].step = "received"
        /\ \A v \in Workers : v # w => work'[v] = work[v]
    BY <1>6 DEF Receive, IdleWork, TypeOK
  <2> QED
    BY <1>0, <2>1, LetGo DEF Engaged
<1>7. ASSUME NEW w \in Workers, Poll(w) \/ Lock(w) PROVE Disciplined'
  <2>1. PICK j \in Jobs :
          /\ jobs[j].status = "QUEUED" /\ ~Locked(j)
          /\ work'[w].step = "claiming" /\ work'[w].job = j
          /\ \A v \in Workers : v # w => work'[v] = work[v]
    <3>1. CASE Poll(w)
      BY <3>1 DEF Poll, IdleWork, TypeOK
    <3>2. CASE Lock(w)
      <4>1. work[w].job \in Jobs
        BY <3>2 DEF Lock, At, TypeOK, Placed
      <4> QED
        BY <3>2, <4>1 DEF Lock, Goto, TypeOK, Work
    <3> QED
      BY <1>7, <3>1, <3>2
  <2>2. UNCHANGED <<jobs, statement>>
    BY <1>7 DEF Poll, Lock
  <2>3. Sound(w)'
    BY <1>0, <2>1, <2>2 DEF Sound, Drives, At
  <2>4. \A v \in Workers : v # w /\ Engaged(work[v]) => work[v].job # work'[w].job
    BY <2>1 DEF Locked, Engaged, Disciplined, Sound, Drives, At
  <2>5. EndingsTrue'
    BY <2>2 DEF Disciplined, EndingsTrue, FatesOf
  <2> QED
    BY <2>1, <2>2, <2>3, <2>4, <2>5, WorkerKeepsDiscipline
<1>8. ASSUME NEW w \in Workers, ClaimNothing(w) PROVE Disciplined'
  <2>1. "ack" \in Steps
    BY DEF Steps, FreeSteps
  <2>2. StepsTo(w, "ack", work[w].outcome) /\ UNCHANGED <<jobs, statement>>
    BY <1>8, <2>1, GotoSteps DEF ClaimNothing
  <2> QED
    BY <1>0, <2>2, LetGo DEF StepsTo, Engaged
<1>9. ASSUME NEW w \in Workers, Claim(w) PROVE Disciplined'
  <2> DEFINE j == work[w].job
  <2>1. /\ work[w].step = "claiming" /\ j \in Jobs /\ Engaged(work[w])
        /\ jobs[j].status = "QUEUED"
    BY <1>9 DEF Claim, At, TypeOK, Placed, Disciplined, Sound, Engaged
  <2>2. /\ jobs'[j].status = "RUNNING" /\ jobs'[j].stage = "PREPARING"
        /\ \A i \in Jobs : i # j => jobs'[i] = jobs[i]
    BY <1>9, <2>1 DEF Claim, TypeOK, JobRow
  <2>3. /\ work'[w].step = "prepare" /\ work'[w].stage = "PREPARING" /\ work'[w].job = j
        /\ \A v \in Workers : v # w => work'[v] = work[v]
    BY <1>9 DEF Claim, TypeOK, Work
  <2>4. statement' = statement /\ statement[j] = "unsent"
    BY <1>9, <2>1 DEF Claim, Disciplined, EndingsTrue
  <2>5. Sound(w)'
    BY <2>2, <2>3, <2>4 DEF Sound, Drives, At, FatesAt
  <2>6. EndingsTrue'
    BY <2>1, <2>2, <2>4 DEF Disciplined, EndingsTrue, FatesOf, Fates
  <2>7. \A v \in Workers : v # w /\ Engaged(work[v]) =>
          work[v].job # j /\ work[v].job \in Jobs
    BY <1>0, <2>1 DEF Disciplined, Exclusive, Engaged, TypeOK, Placed
  <2> QED
    BY <2>2, <2>3, <2>4, <2>5, <2>6, <2>7, WorkerKeepsDiscipline
<1>10. ASSUME NEW w \in Workers, Local(w) PROVE Disciplined'
  <2>1. UNCHANGED <<jobs, statement>>
    BY <1>10, LocalFrame DEF jobVars
  <2>2. CASE Die(w)
    BY <1>2, <2>1, <2>2
  <2>3. ASSUME NEW s \in PipelineSteps, NEW o \in TerminalStatuses,
               StepsTo(w, s, o), Follows(work[w], s, o)
        PROVE  Disciplined'
    <3>1. work[w] \in Work /\ Placed(work[w]) /\ work'[w] \in Work
      BY DEF TypeOK
    <3>2. Drives(work[w]) /\ Engaged(work[w])
      BY <2>3, <3>1, FollowsFits DEF Drives, Engaged
    <3>3. /\ work[w].job \in Jobs
          /\ \A v \in Workers : v # w /\ Engaged(work[v]) => work[v].job # work'[w].job
      BY <2>3, <3>2, StaysExclusive DEF StepsTo
    <3>4. statement[work[w].job] \in FatesAt(work'[w])
      <4>1. statement[work[w].job] \in FatesAt(work[w]) /\ statement \in [Jobs -> Fates]
        BY <3>2 DEF Disciplined, Sound, TypeOK
      <4> QED
        BY <2>3, <3>1, <3>3, <4>1, FatesFollow DEF StepsTo
    <3>5. Sound(w)'
      <4>1. FatesAt(work[w])' = FatesAt(work'[w])
        BY DEF FatesAt, FatesOf
      <4>2. /\ jobs[work[w].job].status = "RUNNING"
            /\ jobs[work[w].job].stage = work[w].stage
        BY <3>2 DEF Disciplined, Sound
      <4> QED
        BY <1>0, <2>1, <2>3, <3>4, <4>1, <4>2 DEF Sound, StepsTo, At
    <3>6. EndingsTrue'
      BY <2>1 DEF Disciplined, EndingsTrue, FatesOf
    <3> QED
      BY <2>1, <2>3, <3>3, <3>5, <3>6, WorkerKeepsDiscipline DEF StepsTo
  <2> QED
    BY <1>10, <2>2, <2>3, LocalMoves
<1>11. ASSUME NEW w \in Workers, Advance(w) PROVE Disciplined'
  <2> DEFINE j == work[w].job
             next == NextStage[work[w].stage]
  <2>1. /\ work[w].step = "advance" /\ Drives(work[w]) /\ Engaged(work[w])
        /\ work[w].outcome \in TerminalStatuses /\ work[w].stage \in StagesAt("advance")
        /\ UNCHANGED statement
    BY <1>11 DEF Advance, At, Drives, Engaged, PipelineSteps, TypeOK, Work, Placed
  <2>2. CASE Die(w) /\ UNCHANGED jobs
    BY <1>2, <2>1, <2>2
  <2>3. CASE /\ jobs' = [jobs EXCEPT ![j].stage = next]
             /\ work' = [work EXCEPT ![w].stage = next,
                                     ![w].step = StepAt(next, work[w].outcome)]
    <3>1. /\ work'[w].stage = next /\ work'[w].step = StepAt(next, work[w].outcome)
          /\ work'[w].outcome = work[w].outcome /\ work'[w].job = j
          /\ \A v \in Workers : v # w => work'[v] = work[v]
          /\ next \in JobStages
      BY <1>11, <2>3, AdvanceWork DEF Advance
    <3>2. /\ j \in Jobs
          /\ \A v \in Workers : v # w /\ Engaged(work[v]) => work[v].job # work'[w].job
      BY <2>1, <3>1, StaysExclusive
    <3>3. /\ jobs'[j].status = jobs[j].status /\ jobs'[j].stage = next
          /\ \A i \in Jobs : i # j => jobs'[i] = jobs[i]
      BY <2>3, <3>2 DEF TypeOK, JobRow
    <3>4. /\ jobs[j].status = "RUNNING" /\ statement[j] \in FatesAt(work[w])
          /\ statement[j] \in Fates
      BY <2>1, <3>2 DEF Disciplined, Sound, TypeOK
    <3>5. statement[j] \in FatesAt(work'[w])
      <4>1. CASE work[w].stage \in {"PREPARING", "STAGING", "TRANSFORMING"}
        <5>1. statement[j] = "unsent"
          BY <2>1, <3>4, <4>1 DEF FatesAt
        <5>2. /\ work'[w].step \in {"stage", "transform", "execute"}
              /\ work'[w].stage \in {"STAGING", "TRANSFORMING", "EXECUTING"}
          BY <3>1, <4>1 DEF NextStage, StepAt, JobStages
        <5> QED
          BY <5>1, <5>2 DEF FatesAt
      <4>2. CASE work[w].stage \in {"EXECUTING", "CLEANING_UP"}
        <5>1. statement[j] = "committed"
          BY <2>1, <3>4, <4>2 DEF FatesAt
        <5>2. \/ work'[w].step = "finish" /\ work'[w].outcome = "RECOVERY_REQUIRED"
              \/ work'[w].step = "advance" /\ work'[w].stage = "CLEANING_UP"
              \/ work'[w].step = "validate" /\ work'[w].stage = "VALIDATING"
          BY <3>1, <4>2 DEF NextStage, StepAt, JobStages
        <5> QED
          BY <5>1, <5>2 DEF FatesAt, FatesOf, Fates
      <4> QED
        BY <2>1, <4>1, <4>2 DEF StagesAt, JobStages
    <3>6. Sound(w)'
      <4>1. FatesAt(work[w])' = FatesAt(work'[w])
        BY DEF FatesAt, FatesOf
      <4>2. work'[w].step \in PipelineSteps
        BY <2>1, <3>1, AdvanceFits
      <4> QED
        BY <1>0, <2>1, <3>1, <3>3, <3>4, <3>5, <4>1, <4>2 DEF Sound, At
    <3>7. EndingsTrue'
      <4>1. \A i \in Jobs : jobs'[i].status = jobs[i].status
        BY <3>3
      <4> QED
        BY <2>1, <4>1 DEF Disciplined, EndingsTrue, FatesOf
    <3>8. \A v \in Workers : v # w /\ Engaged(work[v]) =>
            work[v].job # j /\ work[v].job \in Jobs
      BY <1>0, <3>1, <3>2 DEF Engaged, TypeOK, Placed
    <3> QED
      BY <2>1, <3>1, <3>2, <3>3, <3>6, <3>7, <3>8, WorkerKeepsDiscipline
  <2> QED
    BY <1>11, <2>2, <2>3 DEF Advance
<1>12. ASSUME NEW w \in Workers, ReportBatch(w) PROVE Disciplined'
  <2>1. /\ \A i \in Jobs : jobs'[i].status = jobs[i].status /\ jobs'[i].stage = jobs[i].stage
        /\ UNCHANGED <<statement, work>>
    BY <1>12 DEF ReportBatch, TypeOK, JobRow
  <2>2. \A v \in Workers : Engaged(work[v]) => work[v].job \in Jobs
    BY <1>0 DEF Engaged, TypeOK, Placed
  <2> QED
    BY <2>1, <2>2 DEF Disciplined, Sound, Exclusive, EndingsTrue, Drives, Engaged, At,
       FatesAt, FatesOf
<1>13. ASSUME NEW w \in Workers, Send(w) PROVE Disciplined'
  <2> DEFINE j == work[w].job
  <2>1. "await" \in Steps /\ "await" \in PipelineSteps
    BY DEF Steps, PipelineSteps
  <2>2. /\ work[w].step = "send" /\ Drives(work[w]) /\ Engaged(work[w])
        /\ StepsTo(w, "await", work[w].outcome) /\ UNCHANGED jobs
    BY <1>13, <2>1, GotoSteps DEF Send, At, Drives, Engaged, PipelineSteps, jobVars
  <2>3. /\ j \in Jobs
        /\ \A v \in Workers : v # w /\ Engaged(work[v]) => work[v].job # work'[w].job
    BY <2>2, StaysExclusive DEF StepsTo
  <2>4. statement'[j] = "inflight" /\ \A i \in Jobs : i # j => statement'[i] = statement[i]
    BY <1>13, <2>3 DEF Send, TypeOK
  <2>5. jobs[j].status = "RUNNING" /\ jobs[j].stage = work[w].stage
    BY <2>2 DEF Disciplined, Sound
  <2>6. Sound(w)'
    <3>1. work'[w].step = "await" /\ work'[w].job = j /\ work'[w].stage = work[w].stage
      BY <2>2 DEF StepsTo
    <3>2. "inflight" \in FatesAt(work[w])'
      BY <3>1 DEF FatesAt, Fates
    <3> QED
      BY <2>2, <2>4, <2>5, <3>1, <3>2 DEF Sound, At
  <2>7. EndingsTrue'
    BY <2>2, <2>4, <2>5 DEF Disciplined, EndingsTrue, FatesOf, Fates
  <2>8. \A v \in Workers : v # w /\ Engaged(work[v]) =>
          work[v].job # j /\ work[v].job \in Jobs
    BY <1>0, <2>2, <2>3 DEF StepsTo, Engaged, TypeOK, Placed
  <2> QED
    BY <2>2, <2>3, <2>4, <2>6, <2>7, <2>8, WorkerKeepsDiscipline DEF StepsTo
<1>14. ASSUME NEW w \in Workers, Finish(w) PROVE Disciplined'
  <2> DEFINE j == work[w].job
             o == work[w].outcome
  <2>1. /\ work[w].step = "finish" /\ Drives(work[w]) /\ Engaged(work[w])
        /\ j \in Jobs /\ o \in TerminalStatuses /\ UNCHANGED statement
    BY <1>14 DEF Finish, At, Drives, Engaged, PipelineSteps, TypeOK, Work, Placed
  <2>2. CASE Die(w) /\ UNCHANGED jobs
    BY <1>2, <2>1, <2>2
  <2>3. CASE /\ jobs' = [jobs EXCEPT ![j].status = o,
                             ![j].stage = IF o = "SUCCEEDED" THEN "COMPLETED" ELSE @]
             /\ Goto(w, "ack") \/ Die(w)
    <3>1. work'[w].step \in {"idle", "ack"} /\ \A v \in Workers : v # w => work'[v] = work[v]
      <4>1. "ack" \in Steps
        BY DEF Steps, FreeSteps
      <4> QED
        BY <2>3, <4>1, DieType, GotoSteps DEF StepsTo
    <3>2. jobs'[j].status = o /\ \A i \in Jobs : i # j => jobs'[i] = jobs[i]
      BY <2>1, <2>3 DEF TypeOK, JobRow
    <3>3. statement[j] \in FatesOf(o)
      <4>1. FatesAt(work[w]) = FatesOf(o)
        BY <2>1 DEF FatesAt, FatesOf
      <4>2. statement[j] \in FatesAt(work[w])
        BY <2>1 DEF Disciplined, Sound
      <4> QED
        BY <4>1, <4>2
    <3>4. Sound(w)' /\ ~Engaged(work'[w])
      BY <1>0, <3>1 DEF Sound, Drives, Engaged, At
    <3>5. EndingsTrue'
      BY <2>1, <3>2, <3>3 DEF Disciplined, EndingsTrue, FatesOf, TerminalStatuses
    <3>6. \A v \in Workers : v # w /\ Engaged(work[v]) =>
            work[v].job # j /\ work[v].job \in Jobs
      BY <1>0, <2>1 DEF Disciplined, Exclusive, Engaged, TypeOK, Placed
    <3> QED
      BY <2>1, <3>1, <3>2, <3>4, <3>5, <3>6, WorkerKeepsDiscipline
  <2> QED
    BY <1>14, <2>2, <2>3 DEF Finish
<1>15. ASSUME NEW w \in Workers, Acknowledge(w) \/ Crash(w) PROVE Disciplined'
  BY <1>2, <1>15 DEF Acknowledge, Crash, jobVars
<1>16. CASE ForeignMove \/ ForeignAppend \/ UNCHANGED vars
  BY <1>1, <1>16 DEF ForeignMove, ForeignAppend, vars, jobVars
<1> QED
  BY <1>3, <1>4, <1>5, <1>6, <1>7, <1>8, <1>9, <1>10, <1>11, <1>12, <1>13, <1>14, <1>15,
     <1>16 DEF Next, Take, Process, Local

\* JobDiscipline holds in every behaviour of every instance: a job has one driver,
\* its statement is sent once, and its ending is true of the statement.
THEOREM JobsAreDisciplined == Spec => []JobDiscipline
<1>1. Init => JobDiscipline
  <2> SUFFICES ASSUME Init PROVE JobDiscipline
    OBVIOUS
  <2>1. \A w \in Workers : work[w].step = "idle"
    BY DEF Init, IdleWork
  <2>2. OneDriver
    BY <2>1 DEF OneDriver, Holds, At, PipelineSteps
  <2>3. StatementMatches
    BY <2>1 DEF Init, NoRow, StatementMatches, PipelineSteps
  <2> QED
    BY <2>2, <2>3 DEF JobDiscipline
<1>2. TypeOK /\ TypeOK' /\ JobDiscipline /\ [Next]_vars => JobDiscipline'
  <2> SUFFICES ASSUME TypeOK, TypeOK', JobDiscipline, [Next]_vars PROVE JobDiscipline'
    OBVIOUS
  <2>1. Disciplined'
    BY DisciplineParts, DisciplineStep
  <2> QED
    BY <2>1, DisciplineHolds
<1> QED
  BY <1>1, <1>2, TypeCorrect, PTL DEF Spec

----------------------------------------------------------------------------
(* Refinement *)

\* MigrationJobs implements JobLedger: a job is opened only when every earlier one
\* is known to have failed, and a failed job has written nothing and never will.
THEOREM JobsKeepTheLedger == Spec => ImplementsLedger
<1> DEFINE records == [j \in Jobs |-> RecordOf(j)]
           writers == {j \in Jobs : statement[j] = "committed"}
<1>1. Init => Ledger!Init
  BY DEF Init, NoRow, RecordOf, Ledger!Init
<1>2. TypeOK /\ JobDiscipline /\ [Next]_vars => [Ledger!Next]_(Ledger!ledgerVars)
  <2> SUFFICES ASSUME TypeOK, JobDiscipline, [Next]_vars
               PROVE  [Ledger!Next]_(Ledger!ledgerVars)
    OBVIOUS
  <2>0. Disciplined
    BY DisciplineParts
  <2>1. ASSUME \A j \in Jobs : RecordOf(j)' = RecordOf(j), UNCHANGED statement
        PROVE  UNCHANGED Ledger!ledgerVars
    <3>1. records' = records /\ writers' = writers
      BY <2>1
    <3> QED
      BY <3>1 DEF Ledger!ledgerVars
  <2>2. ASSUME NEW j \in Jobs, Create(j) PROVE Ledger!Next
    <3>1. \A i \in Jobs : RecordOf(i) \in {"absent", "failed"}
      BY <2>2 DEF Create, ActiveStatuses, JobStatuses, RecordOf, TypeOK, JobRow
    <3>2. RecordOf(j) = "absent"
      BY <2>2 DEF Create, RecordOf
    <3>3. /\ RecordOf(j)' = "open"
          /\ \A i \in Jobs : i # j => RecordOf(i)' = RecordOf(i)
      BY <2>2 DEF Create, RecordOf, NoRow, TypeOK
    <3>4. records' = [records EXCEPT ![j] = "open"] /\ writers' = writers
      BY <2>2, <3>3 DEF Create
    <3>5. Ledger!Open(j)
      BY <3>1, <3>2, <3>4 DEF Ledger!Open
    <3> QED
      BY <3>5 DEF Ledger!Next
  <2>3. ASSUME NEW j \in Jobs, Decide(j) PROVE [Ledger!Next]_(Ledger!ledgerVars)
    <3>1. \A i \in Jobs : RecordOf(i)' = RecordOf(i)
      BY <2>3 DEF Decide, jobVars, RecordOf
    <3>2. records' = records
      BY <3>1
    <3>3. /\ statement[j] = "inflight"
          /\ \A i \in Jobs : i # j => statement'[i] = statement[i]
          /\ statement'[j] \in {"committed", "rolledback"}
      BY <2>3 DEF Decide, TypeOK
    <3>4. CASE statement'[j] = "rolledback"
      <4>1. writers' = writers
        BY <3>3, <3>4
      <4> QED
        BY <3>2, <4>1 DEF Ledger!ledgerVars
    <3>5. CASE statement'[j] = "committed"
      <4>1. writers' = writers \cup {j} /\ j \notin writers
        BY <3>3, <3>5
      <4>2. records[j] \in {"open", "held"}
        <5>1. jobs[j].status \notin {"ABSENT", "QUEUED", "FAILED", "SUCCEEDED"}
          BY <2>0, <3>3 DEF Disciplined, EndingsTrue, FatesOf
        <5> QED
          BY <5>1 DEF RecordOf
      <4>3. Ledger!Write(j)
        BY <3>2, <4>1, <4>2 DEF Ledger!Write
      <4> QED
        BY <4>3 DEF Ledger!Next
    <3> QED
      BY <3>3, <3>4, <3>5
  <2>4. ASSUME NEW w \in Workers, Finish(w) PROVE [Ledger!Next]_(Ledger!ledgerVars)
    <3>1. PICK j \in Jobs, o \in TerminalStatuses :
            /\ j = work[w].job /\ o = work[w].outcome
            /\ Drives(work[w]) /\ work[w].step = "finish" /\ UNCHANGED statement
      BY <2>4 DEF Finish, At, Drives, PipelineSteps, TypeOK, Work, Placed
    <3> DEFINE e == CASE o = "FAILED" -> "failed" [] o = "SUCCEEDED" -> "done" [] OTHER -> "held"
    <3>2. CASE UNCHANGED jobs
      <4>1. \A i \in Jobs : RecordOf(i)' = RecordOf(i)
        BY <3>2 DEF RecordOf
      <4> QED
        BY <2>1, <3>1, <4>1
    <3>3. CASE jobs' = [jobs EXCEPT ![j].status = o,
                                    ![j].stage = IF o = "SUCCEEDED" THEN "COMPLETED" ELSE @]
      <4>1. /\ jobs[j].status = "RUNNING" /\ statement[j] \in FatesAt(work[w])
        BY <2>0, <3>1 DEF Disciplined, Sound
      <4>2. jobs'[j].status = o /\ \A i \in Jobs : i # j => jobs'[i] = jobs[i]
        BY <3>1, <3>3 DEF TypeOK, JobRow
      <4>3. RecordOf(j) = "open"
        BY <4>1 DEF RecordOf
      <4>4. RecordOf(j)' = e
        BY <4>2 DEF RecordOf, TerminalStatuses
      <4>5. \A i \in Jobs : i # j => RecordOf(i)' = RecordOf(i)
        BY <4>2 DEF RecordOf
      <4> HIDE DEF e
      <4>6. records' = [records EXCEPT ![j] = e] /\ writers' = writers
        BY <3>1, <4>4, <4>5
      <4>7. FatesAt(work[w]) = FatesOf(o)
        BY <3>1 DEF FatesAt
      <4>8. /\ e = "failed" => j \notin writers
            /\ e = "done" => j \in writers
            /\ e \in {"failed", "held", "done"}
        BY <4>1, <4>7 DEF e, FatesOf, TerminalStatuses
      <4>9. Ledger!Close(j, e)
        BY <4>3, <4>6, <4>8 DEF Ledger!Close
      <4> QED
        BY <4>8, <4>9 DEF Ledger!Next
    <3> QED
      BY <2>4, <3>1, <3>2, <3>3 DEF Finish
  <2>5. ASSUME NEW w \in Workers, Claim(w) PROVE UNCHANGED Ledger!ledgerVars
    <3>1. work[w].job \in Jobs /\ jobs[work[w].job].status = "QUEUED"
      BY <2>0, <2>5 DEF Claim, At, TypeOK, Placed, Disciplined, Sound
    <3>2. \A i \in Jobs : RecordOf(i)' = RecordOf(i)
      BY <2>5, <3>1 DEF Claim, RecordOf, TypeOK, JobRow
    <3> QED
      BY <2>1, <2>5, <3>2 DEF Claim
  <2>6. ASSUME NEW w \in Workers, Advance(w) \/ ReportBatch(w)
        PROVE  UNCHANGED Ledger!ledgerVars
    <3>1. \A i \in Jobs : jobs'[i].status = jobs[i].status
      BY <2>6 DEF Advance, ReportBatch, TypeOK, JobRow
    <3>2. \A i \in Jobs : RecordOf(i)' = RecordOf(i)
      BY <3>1 DEF RecordOf
    <3> QED
      BY <2>1, <2>6, <3>2 DEF Advance, ReportBatch
  <2>7. ASSUME NEW w \in Workers, Send(w) PROVE UNCHANGED Ledger!ledgerVars
    <3>1. work[w].job \in Jobs /\ UNCHANGED jobs /\ Drives(work[w])
      BY <2>7 DEF Send, At, TypeOK, Placed, jobVars, Drives, PipelineSteps
    <3>2. statement[work[w].job] = "unsent"
      <4>1. work[w].stage = "EXECUTING" /\ work[w].step = "send"
        BY <2>7 DEF Send, At, TypeOK, Placed, StagesAt, PipelineSteps
      <4>2. statement[work[w].job] \in FatesAt(work[w])
        BY <2>0, <3>1 DEF Disciplined, Sound
      <4> QED
        BY <4>1, <4>2 DEF FatesAt
    <3>3. writers' = writers
      BY <2>7, <3>1, <3>2 DEF Send, TypeOK
    <3>4. records' = records
      BY <3>1 DEF RecordOf
    <3> QED
      BY <3>3, <3>4 DEF Ledger!ledgerVars
  <2>8. CASE UNCHANGED <<jobs, statement>>
    <3>1. \A i \in Jobs : RecordOf(i)' = RecordOf(i)
      BY <2>8 DEF RecordOf
    <3> QED
      BY <2>1, <2>8, <3>1
  <2>9. \/ UNCHANGED <<jobs, statement>>
        \/ \E j \in Jobs : Create(j) \/ Decide(j)
        \/ \E w \in Workers : Finish(w) \/ Claim(w) \/ Advance(w) \/ ReportBatch(w) \/ Send(w)
    <3>1. CASE UNCHANGED vars \/ ForeignMove \/ ForeignAppend
      BY <3>1 DEF vars, ForeignMove, ForeignAppend, jobVars
    <3>2. CASE \E j \in Jobs : Publish(j) \/ PublishLost(j)
      BY <3>2 DEF Publish, PublishLost
    <3>3. ASSUME NEW w \in Workers,
                 \/ Receive(w) \/ Poll(w) \/ Lock(w) \/ ClaimNothing(w)
                 \/ Acknowledge(w) \/ Crash(w)
          PROVE  UNCHANGED <<jobs, statement>>
      BY <3>3 DEF Receive, Poll, Lock, ClaimNothing, Acknowledge, Crash, jobVars
    <3>4. ASSUME NEW w \in Workers, Local(w) PROVE UNCHANGED <<jobs, statement>>
      BY <3>4, LocalFrame DEF jobVars
    <3> QED
      BY <3>1, <3>2, <3>3, <3>4 DEF Next, Take, Process, Local
  <2> QED
    BY <2>2, <2>3, <2>4, <2>5, <2>6, <2>7, <2>8, <2>9
<1> QED
  BY <1>1, <1>2, TypeCorrect, JobsAreDisciplined, PTL
     DEF Spec, ImplementsLedger, Ledger!Spec

----------------------------------------------------------------------------
(* The jobs and the workflow row *)

\* The steps between the claim of an operation and its completion.
Holding == {"load", "staged", "send", "await", "executed", "query", "validated"}

\* At most one job of the workflow is not known to have failed.
Alone == \A i, j \in Jobs :
  jobs[i].status \in ActiveStatuses /\ jobs[j].status \in ActiveStatuses => i = j

\* What the row says of the job a worker drives: the job holds it exactly while one
\* of its operations runs, and a success about to be recorded is on it already.
Told(w) ==
  Drives(work[w]) =>
    /\ operation = IF work[w].step \in Holding THEN work[w].job ELSE None
    /\ work[w].step = "finish" /\ work[w].outcome = "SUCCEEDED" => status = "VALIDATED"

Story == Alone /\ (\A w \in Workers : Told(w)) /\ RowMatchesJobs

LEMMA ActiveKinds ==
  /\ ActiveStatuses = {"QUEUED", "RUNNING", "SUCCEEDED", "REVIEW_REQUIRED", "RECOVERY_REQUIRED"}
  /\ "finish" \notin Holding /\ Holding \subseteq PipelineSteps
  BY DEF ActiveStatuses, JobStatuses, Holding, PipelineSteps

\* Nothing is told of a worker that drives no job.
LEMMA LetGoTells ==
  ASSUME Story, NEW w \in Workers, ~Drives(work'[w]),
         \A v \in Workers : v # w => work'[v] = work[v],
         UNCHANGED <<jobs, statement, status, operation>>
  PROVE  Story'
  <1>1. (\A v \in Workers : Told(v))'
    BY DEF Story, Told, Drives
  <1>2. Alone' /\ RowMatchesJobs'
    BY DEF Story, Alone, RowMatchesJobs, StageShowsOperation, SuccessIsOnTheRow
  <1> QED
    BY <1>1, <1>2 DEF Story

\* The driver of a job is the only driver there is, and no job has succeeded.
LEMMA OnlyDriver ==
  ASSUME TypeOK, Disciplined, Story, NEW w \in Workers, Drives(work[w])
  PROVE  /\ work[w].job \in Jobs
         /\ jobs[work[w].job].status = "RUNNING"
         /\ jobs[work[w].job].stage = work[w].stage
         /\ \A i \in Jobs : i # work[w].job => jobs[i].status \notin ActiveStatuses
         /\ \A v \in Workers : Drives(work[v]) => v = w
  <1>1. \A v \in Workers : Drives(work[v]) =>
          work[v].job \in Jobs /\ jobs[work[v].job].status = "RUNNING"
    BY DEF Disciplined, Sound, Drives, PipelineSteps, TypeOK, Placed
  <1>2. \A i \in Jobs : i # work[w].job => jobs[i].status \notin ActiveStatuses
    BY <1>1, ActiveKinds DEF Story, Alone
  <1>3. \A v \in Workers : Drives(work[v]) => v = w
    BY <1>1, <1>2, ActiveKinds DEF Disciplined, Exclusive, Engaged, Drives
  <1> QED
    BY <1>1, <1>2, <1>3 DEF Disciplined, Sound

\* The driver of a job takes a step that leaves the status of every job alone.
LEMMA DriverTells ==
  ASSUME TypeOK, Disciplined, Story, NEW w \in Workers, Drives(work[w]),
         \A v \in Workers : v # w => work'[v] = work[v],
         \A i \in Jobs : jobs'[i].status = jobs[i].status,
         Told(w)',
         \/ operation' = None
         \/ operation' = work[w].job /\ status' = jobs'[work[w].job].stage
  PROVE  Story'
  <1> USE ConstantsAssumption
  <1>1. /\ work[w].job \in Jobs
        /\ jobs[work[w].job].status = "RUNNING"
        /\ \A i \in Jobs : i # work[w].job => jobs[i].status \notin ActiveStatuses
        /\ \A v \in Workers : v # w => ~Drives(work[v])
    BY OnlyDriver
  <1>2. Alone'
    BY DEF Story, Alone
  <1>3. (\A v \in Workers : Told(v))'
    <2> SUFFICES ASSUME NEW v \in Workers PROVE Told(v)'
      OBVIOUS
    <2>1. CASE v = w
      BY <2>1
    <2>2. CASE v # w
      BY <1>1, <2>2 DEF Told, Drives
    <2> QED
      BY <2>1, <2>2
  <1>4. StageShowsOperation'
    BY <1>1 DEF StageShowsOperation
  <1>5. \A i \in Jobs : jobs'[i].status # "SUCCEEDED"
    BY <1>1, ActiveKinds
  <1>6. SuccessIsOnTheRow'
    BY <1>5 DEF SuccessIsOnTheRow
  <1> QED
    BY <1>2, <1>3, <1>4, <1>6 DEF Story, RowMatchesJobs

\* A claim, a completion and a record move the row with a new version.
LEMMA MoveRow ==
  ASSUME NEW st, NEW op, Move(st, op)
  PROVE  status' = st /\ operation' = op
  BY DEF Move

LEMMA LocalTells ==
  ASSUME TypeOK, Disciplined, Story, NEW w \in Workers, Local(w)
  PROVE  Story'
  <1> USE ConstantsAssumption
  <1> DEFINE c == work[w]
             j == c.job
  <1>0. /\ c \in Work /\ c.outcome \in TerminalStatuses /\ Drives(c)
        /\ "finish" \in Steps /\ PipelineSteps \subseteq Steps
    BY DEF Local, Prepare, CheckStaging, ClaimStaging, LoadEnds, CompleteStaging,
       CheckPreview, RecordPreview, CheckExecution, ClaimExecution, Answer,
       CompleteExecution, Cleanup, RecordCleanup, CheckValidation, ClaimValidation,
       Query, CompleteValidation, At, Drives, PipelineSteps, TypeOK, Work, Steps
  <1>1. /\ j \in Jobs /\ j # None /\ jobs[j].status = "RUNNING" /\ jobs[j].stage = c.stage
        /\ c.stage \in StagesAt(c.step)
        /\ UNCHANGED <<jobs, statement>>
    BY <1>0, OnlyDriver, LocalFrame DEF jobVars, TypeOK, Placed, Drives
  <1>2. /\ operation = IF c.step \in Holding THEN j ELSE None
        /\ operation = j => status = jobs[j].stage
    BY <1>0, <1>1 DEF Story, Told, RowMatchesJobs, StageShowsOperation
  <1>3. ASSUME Die(w), UNCHANGED rowVars PROVE Story'
    <2>1. ~Drives(work'[w]) /\ \A v \in Workers : v # w => work'[v] = work[v]
      BY <1>3, DieType DEF Drives, PipelineSteps
    <2> QED
      BY <1>1, <1>3, <2>1, LetGoTells DEF rowVars
  \* The row stays, and the step stays on its side of a claim.
  <1>4. ASSUME NEW s \in PipelineSteps, NEW o, StepsTo(w, s, o), UNCHANGED rowVars,
               c.step \in Holding <=> s \in Holding,
               s = "finish" => o # "SUCCEEDED"
        PROVE  Story'
    <2>1. Told(w)'
      BY <1>2, <1>4 DEF Told, StepsTo, rowVars
    <2> QED
      BY <1>0, <1>1, <1>2, <1>4, <2>1, DriverTells DEF StepsTo, rowVars
  \* The row moves.
  <1>5. ASSUME NEW s \in PipelineSteps, NEW o, StepsTo(w, s, o), NEW st, NEW op, Move(st, op),
               op = IF s \in Holding THEN j ELSE None,
               op = j => st = c.stage,
               s = "finish" /\ o = "SUCCEEDED" => st = "VALIDATED"
        PROVE  Story'
    <2>1. status' = st /\ operation' = op
      BY <1>5, MoveRow
    <2>2. Told(w)'
      BY <1>5, <2>1 DEF Told, StepsTo
    <2> QED
      BY <1>0, <1>1, <1>5, <2>1, <2>2, DriverTells DEF StepsTo
  <1>6. ASSUME NEW s \in PipelineSteps, Goto(w, s) PROVE StepsTo(w, s, c.outcome)
    BY <1>0, <1>6, GotoSteps
  <1>7. ASSUME NEW o \in TerminalStatuses, Conclude(w, o) PROVE StepsTo(w, "finish", o)
    BY <1>0, <1>7, OutcomeSteps DEF Conclude
  <1>8. ASSUME NEW s \in PipelineSteps, NEW o \in TerminalStatuses,
               work' = [work EXCEPT ![w].step = s, ![w].outcome = o]
        PROVE  StepsTo(w, s, o)
    BY <1>0, <1>8, OutcomeSteps
  <1>9. ASSUME NEW s \in PipelineSteps, NEW n \in {version, version + 1},
               work' = [work EXCEPT ![w].step = s, ![w].seen = n]
        PROVE  StepsTo(w, s, c.outcome)
    <2>1. n \in Nat
      BY DEF TypeOK
    <2> QED
      BY <1>0, <1>9, <2>1, SeenSteps
  <1>10. /\ {"advance", "claimstage", "record", "claimexecute", "cleanup", "recordcleanup",
             "claimvalidate", "finish"} \subseteq PipelineSteps \ Holding
         /\ {"load", "staged", "send", "await", "executed", "query", "validated"} \subseteq
              PipelineSteps \cap Holding
         /\ {"prepare", "stage", "claimstage", "transform", "record", "execute",
             "claimexecute", "cleanup", "recordcleanup", "validate", "claimvalidate"}
              \cap Holding = {}
         /\ TerminalStatuses = {"SUCCEEDED", "FAILED", "REVIEW_REQUIRED", "RECOVERY_REQUIRED"}
    BY DEF PipelineSteps, Holding, TerminalStatuses
  <1>11. CASE Prepare(w) \/ CheckStaging(w) \/ CheckPreview(w) \/ CheckExecution(w)
    <2>1. /\ UNCHANGED rowVars /\ c.step \in {"prepare", "stage", "transform", "execute"}
          /\ \/ \E s \in {"advance", "claimstage", "record", "claimexecute"} : Goto(w, s)
             \/ Conclude(w, "FAILED")
      BY <1>11 DEF Prepare, CheckStaging, CheckPreview, CheckExecution, At
    <2>2. CASE Conclude(w, "FAILED")
      BY <1>4, <1>7, <1>10, <2>1, <2>2
    <2>3. ASSUME NEW s \in {"advance", "claimstage", "record", "claimexecute"}, Goto(w, s)
          PROVE  Story'
      <3>1. StepsTo(w, s, c.outcome)
        BY <1>6, <1>10, <2>3
      <3> QED
        BY <1>4, <1>10, <2>1, <3>1
    <2> QED
      BY <2>1, <2>2, <2>3
  <1>12. CASE ClaimStaging(w) \/ ClaimExecution(w) \/ ClaimValidation(w)
    <2>1. CASE Die(w) /\ UNCHANGED rowVars
      BY <1>3, <2>1
    <2>2. ASSUME NEW st, NEW s \in {"load", "send", "query"}, Move(st, j), st = c.stage,
                 work' = [work EXCEPT ![w].step = s, ![w].seen = version + 1]
          PROVE  Story'
      <3>1. StepsTo(w, s, c.outcome)
        BY <1>9, <1>10, <2>2
      <3> QED
        BY <1>5, <1>10, <2>2, <3>1
    <2>3. CASE ClaimStaging(w)
      <3>1. c.stage = "STAGING"
        BY <1>1, <2>3 DEF ClaimStaging, At, StagesAt
      <3> QED
        BY <2>1, <2>2, <2>3, <3>1 DEF ClaimStaging
    <2>4. CASE ClaimExecution(w)
      <3>1. c.stage = "EXECUTING"
        BY <1>1, <2>4 DEF ClaimExecution, At, StagesAt
      <3> QED
        BY <2>1, <2>2, <2>4, <3>1 DEF ClaimExecution
    <2>5. CASE ClaimValidation(w)
      <3>1. c.stage = "VALIDATING"
        BY <1>1, <2>5 DEF ClaimValidation, At, StagesAt
      <3> QED
        BY <2>1, <2>2, <2>5, <3>1 DEF ClaimValidation
    <2> QED
      BY <1>12, <2>3, <2>4, <2>5
  <1>13. CASE LoadEnds(w) \/ Query(w) \/ Answer(w)
    <2>1. PICK s \in {"staged", "executed", "validated"}, o \in TerminalStatuses :
            work' = [work EXCEPT ![w].step = s, ![w].outcome = o]
      BY <1>10, <1>13 DEF LoadEnds, Query, Answer, Dispositions
    <2>2. UNCHANGED rowVars /\ c.step \in {"load", "query", "await"}
      BY <1>13 DEF LoadEnds, Query, Answer, At
    <2>3. StepsTo(w, s, o)
      BY <1>8, <1>10, <2>1
    <2> QED
      BY <1>4, <1>10, <2>2, <2>3
  <1>14. CASE CompleteStaging(w)
    <2>1. CASE Die(w) /\ UNCHANGED rowVars
      BY <1>3, <2>1
    <2>2. CASE Move(AfterStaging(c.outcome), None) /\ c.outcome # "SUCCEEDED"
               /\ Conclude(w, c.outcome)
      <3>1. StepsTo(w, "finish", c.outcome)
        BY <1>0, <1>7, <2>2
      <3> QED
        BY <1>1, <1>5, <1>10, <2>2, <3>1
    <2>3. CASE Move(AfterStaging(c.outcome), None)
               /\ work' = [work EXCEPT ![w].step = "advance", ![w].seen = version + 1]
      <3>1. StepsTo(w, "advance", c.outcome)
        BY <1>9, <1>10, <2>3
      <3> QED
        BY <1>1, <1>5, <1>10, <2>3, <3>1
    <2> QED
      BY <1>14, <2>1, <2>2, <2>3 DEF CompleteStaging
  <1>15. CASE RecordPreview(w)
    <2>1. CASE Die(w) /\ UNCHANGED rowVars
      BY <1>3, <2>1
    <2>2. CASE Move("EXECUTION_READY", None)
               /\ work' = [work EXCEPT ![w].step = "advance", ![w].seen = version + 1]
      <3>1. StepsTo(w, "advance", c.outcome)
        BY <1>9, <1>10, <2>2
      <3> QED
        BY <1>1, <1>5, <1>10, <2>2, <3>1
    <2> QED
      BY <1>15, <2>1, <2>2 DEF RecordPreview
  <1>16. CASE CompleteExecution(w)
    <2> DEFINE st == CASE c.outcome = "SUCCEEDED" -> "EXECUTED"
                       [] c.outcome = "FAILED"    -> "EXECUTION_READY"
                       [] OTHER                   -> "EXECUTION_RECOVERY_REQUIRED"
    <2>0. \/ Die(w) /\ UNCHANGED rowVars
          \/ Move(st, None) /\ c.outcome # "SUCCEEDED" /\ Conclude(w, c.outcome)
          \/ Move(st, None) /\ Goto(w, "cleanup")
      BY <1>16 DEF CompleteExecution
    <2> HIDE DEF st
    <2>1. CASE Die(w) /\ UNCHANGED rowVars
      BY <1>3, <2>1
    <2>2. CASE Move(st, None) /\ c.outcome # "SUCCEEDED" /\ Conclude(w, c.outcome)
      <3>1. StepsTo(w, "finish", c.outcome)
        BY <1>0, <1>7, <2>2
      <3> QED
        BY <1>1, <1>5, <1>10, <2>2, <3>1
    <2>3. CASE Move(st, None) /\ Goto(w, "cleanup")
      <3>1. StepsTo(w, "cleanup", c.outcome)
        BY <1>6, <1>10, <2>3
      <3> QED
        BY <1>1, <1>5, <1>10, <2>3, <3>1
    <2> QED
      BY <2>0, <2>1, <2>2, <2>3
  <1>17. CASE Cleanup(w)
    <2>1. UNCHANGED rowVars /\ c.step = "cleanup"
      BY <1>17 DEF Cleanup, At
    <2>2. CASE work' = [work EXCEPT ![w].step = "recordcleanup", ![w].seen = version]
      <3>1. StepsTo(w, "recordcleanup", c.outcome)
        BY <1>9, <1>10, <2>2
      <3> QED
        BY <1>4, <1>10, <2>1, <3>1
    <2>3. CASE work' = [work EXCEPT ![w].step = "advance", ![w].outcome = "RECOVERY_REQUIRED"]
      <3>1. StepsTo(w, "advance", "RECOVERY_REQUIRED")
        BY <1>8, <1>10, <2>3
      <3> QED
        BY <1>4, <1>10, <2>1, <3>1
    <2> QED
      BY <1>17, <2>2, <2>3 DEF Cleanup
  <1>18. CASE RecordCleanup(w)
    <2>1. CASE Die(w) /\ UNCHANGED rowVars
      BY <1>3, <2>1
    <2>2. CASE Move(status, operation)
               /\ work' = [work EXCEPT ![w].step = "advance", ![w].seen = version + 1]
      <3>1. StepsTo(w, "advance", c.outcome)
        BY <1>9, <1>10, <2>2
      <3>2. operation = None
        BY <1>2, <1>10, <1>18 DEF RecordCleanup, At
      <3> QED
        BY <1>1, <1>5, <1>10, <2>2, <3>1, <3>2
    <2> QED
      BY <1>18, <2>1, <2>2 DEF RecordCleanup
  <1>19. CASE CheckValidation(w)
    <2>1. /\ UNCHANGED rowVars /\ c.step = "validate"
          /\ \/ Goto(w, "claimvalidate")
             \/ \E o \in {"RECOVERY_REQUIRED", "REVIEW_REQUIRED"} : Conclude(w, o)
      BY <1>19 DEF CheckValidation, At
    <2>2. CASE Goto(w, "claimvalidate")
      BY <1>4, <1>6, <1>10, <2>1, <2>2
    <2>3. ASSUME NEW o \in {"RECOVERY_REQUIRED", "REVIEW_REQUIRED"}, Conclude(w, o)
          PROVE  Story'
      <3>1. StepsTo(w, "finish", o)
        BY <1>7, <1>10, <2>3
      <3> QED
        BY <1>4, <1>10, <2>1, <3>1
    <2> QED
      BY <2>1, <2>2, <2>3
  <1>20. CASE CompleteValidation(w)
    <2> DEFINE st == CASE c.outcome = "SUCCEEDED"       -> "VALIDATED"
                       [] c.outcome = "REVIEW_REQUIRED" -> "VALIDATION_REVIEW_REQUIRED"
                       [] OTHER                         -> "VALIDATION_RECOVERY_REQUIRED"
    <2>1. CASE Die(w) /\ UNCHANGED rowVars
      BY <1>3, <2>1
    <2>2. CASE Move(st, None) /\ Goto(w, "finish")
      <3>1. StepsTo(w, "finish", c.outcome)
        BY <1>6, <1>10, <2>2
      <3>2. c.outcome = "SUCCEEDED" => st = "VALIDATED"
        OBVIOUS
      <3> HIDE DEF st
      <3> QED
        BY <1>1, <1>5, <1>10, <2>2, <3>1, <3>2
    <2> QED
      BY <1>20, <2>1, <2>2 DEF CompleteValidation
  <1> QED
    BY <1>11, <1>12, <1>13, <1>14, <1>15, <1>16, <1>17, <1>18, <1>19, <1>20 DEF Local

LEMMA StoryStep ==
  ASSUME TypeOK, TypeOK', Disciplined, Story, [Next]_vars
  PROVE  Story'
<1> USE ConstantsAssumption
<1>0. "idle" \notin PipelineSteps /\ "received" \notin PipelineSteps
      /\ "ack" \notin PipelineSteps /\ "claiming" \notin PipelineSteps
  BY DEF PipelineSteps
<1>1. ASSUME UNCHANGED <<jobs, work, status, operation, statement>> PROVE Story'
  BY <1>1 DEF Story, Alone, Told, Drives, RowMatchesJobs, StageShowsOperation,
     SuccessIsOnTheRow
<1>2. ASSUME NEW w \in Workers, Die(w), UNCHANGED <<rowVars, jobs, statement>> PROVE Story'
  <2>1. ~Drives(work'[w]) /\ \A v \in Workers : v # w => work'[v] = work[v]
    BY <1>0, <1>2, DieType DEF Drives
  <2> QED
    BY <1>2, <2>1, LetGoTells DEF rowVars
<1>3. ASSUME NEW j \in Jobs, Create(j) PROVE Story'
  <2>1. /\ \A i \in Jobs : i # j => jobs'[i] = jobs[i]
        /\ jobs'[j].status = "QUEUED" /\ jobs[j].status = "ABSENT"
        /\ \A i \in Jobs : jobs[i].status \notin ActiveStatuses
        /\ UNCHANGED <<status, operation, statement, work>>
    BY <1>3 DEF Create, TypeOK, NoRow, rowVars
  <2>2. operation \notin Jobs
    BY <2>1, ActiveKinds DEF Story, RowMatchesJobs, StageShowsOperation
  <2>3. Alone'
    BY <2>1 DEF Alone
  <2>4. (\A w \in Workers : Told(w))'
    BY <2>1 DEF Story, Told, Drives
  <2>5. RowMatchesJobs'
    BY <2>1, <2>2 DEF Story, RowMatchesJobs, StageShowsOperation, SuccessIsOnTheRow
  <2> QED
    BY <2>3, <2>4, <2>5 DEF Story
<1>4. ASSUME NEW j \in Jobs, Publish(j) \/ PublishLost(j) PROVE Story'
  BY <1>1, <1>4 DEF Publish, PublishLost, rowVars
<1>5. ASSUME NEW j \in Jobs, Decide(j) PROVE Story'
  <2>1. /\ statement[j] = "inflight" /\ UNCHANGED <<jobs, work, status, operation>>
        /\ \A i \in Jobs : i # j => statement'[i] = statement[i]
    BY <1>5 DEF Decide, rowVars, jobVars, TypeOK
  <2>2. jobs[j].status # "SUCCEEDED"
    BY <2>1 DEF Disciplined, EndingsTrue, FatesOf
  <2>3. SuccessIsOnTheRow'
    BY <2>1, <2>2 DEF Story, RowMatchesJobs, SuccessIsOnTheRow
  <2> QED
    BY <2>1, <2>3 DEF Story, Alone, Told, Drives, RowMatchesJobs, StageShowsOperation
<1>6. ASSUME NEW w \in Workers, Receive(w) \/ Poll(w) \/ Lock(w) \/ ClaimNothing(w)
      PROVE  Story'
  <2>1. /\ UNCHANGED <<jobs, statement, status, operation>>
        /\ work'[w].step \in {"received", "claiming", "ack"}
        /\ \A v \in Workers : v # w => work'[v] = work[v]
    <3>1. UNCHANGED <<jobs, statement, status, operation>>
      BY <1>6 DEF Receive, Poll, Lock, ClaimNothing, rowVars
    <3>2. CASE Receive(w)
      BY <3>1, <3>2 DEF Receive, IdleWork, TypeOK
    <3>3. CASE Poll(w)
      BY <3>1, <3>3 DEF Poll, IdleWork, TypeOK
    <3>4. CASE Lock(w) \/ ClaimNothing(w)
      BY <3>1, <3>4 DEF Lock, ClaimNothing, Goto, TypeOK, Work
    <3> QED
      BY <1>6, <3>2, <3>3, <3>4
  <2> QED
    BY <1>0, <2>1, LetGoTells DEF Drives
<1>7. ASSUME NEW w \in Workers, Claim(w) PROVE Story'
  <2> DEFINE j == work[w].job
  <2>1. /\ j \in Jobs /\ jobs[j].status = "QUEUED"
        /\ UNCHANGED <<status, operation, statement>>
    BY <1>7 DEF Claim, At, TypeOK, Placed, Disciplined, Sound, rowVars
  <2>2. /\ jobs'[j].status = "RUNNING"
        /\ \A i \in Jobs : i # j => jobs'[i] = jobs[i]
    BY <1>7, <2>1 DEF Claim, TypeOK, JobRow
  <2>3. /\ work'[w].step = "prepare" /\ work'[w].job = j
        /\ \A v \in Workers : v # w => work'[v] = work[v]
    BY <1>7 DEF Claim, TypeOK, Work
  <2>4. \A i \in Jobs : jobs[i].status \notin {"RUNNING", "SUCCEEDED"}
    BY <2>1, ActiveKinds DEF Story, Alone
  <2>5. operation = None
    BY <2>4 DEF Story, RowMatchesJobs, StageShowsOperation, TypeOK
  <2>6. Alone'
    BY <2>1, <2>2, ActiveKinds DEF Story, Alone
  <2>7. \A v \in Workers : v # w => ~Drives(work[v])
    <3>1. \A v \in Workers : Drives(work[v]) =>
            work[v].job \in Jobs /\ jobs[work[v].job].status = "RUNNING"
      BY DEF Disciplined, Sound, Drives, PipelineSteps, TypeOK, Placed
    <3> QED
      BY <2>4, <3>1
  <2>8. (\A v \in Workers : Told(v))'
    <3> SUFFICES ASSUME NEW v \in Workers PROVE Told(v)'
      OBVIOUS
    <3>1. CASE v = w
      BY <2>1, <2>3, <2>5, <3>1 DEF Told, Holding
    <3>2. CASE v # w
      BY <2>3, <2>7, <3>2 DEF Told, Drives
    <3> QED
      BY <3>1, <3>2
  <2>9. RowMatchesJobs'
    BY <2>1, <2>2, <2>4, <2>5 DEF RowMatchesJobs, StageShowsOperation, SuccessIsOnTheRow
  <2> QED
    BY <2>6, <2>8, <2>9 DEF Story
<1>8. ASSUME NEW w \in Workers, Advance(w) PROVE Story'
  <2> DEFINE j == work[w].job
             next == NextStage[work[w].stage]
  <2>1. /\ work[w].step = "advance" /\ Drives(work[w])
        /\ work[w].outcome \in TerminalStatuses /\ work[w].stage \in StagesAt("advance")
        /\ UNCHANGED <<rowVars, statement>>
    BY <1>8 DEF Advance, At, Drives, PipelineSteps, TypeOK, Work, Placed
  <2>2. CASE Die(w) /\ UNCHANGED jobs
    BY <1>2, <2>1, <2>2
  <2>3. CASE /\ jobs' = [jobs EXCEPT ![j].stage = next]
             /\ work' = [work EXCEPT ![w].stage = next,
                                     ![w].step = StepAt(next, work[w].outcome)]
    <3>1. /\ work'[w].stage = next /\ work'[w].step = StepAt(next, work[w].outcome)
          /\ work'[w].outcome = work[w].outcome /\ work'[w].job = j
          /\ \A v \in Workers : v # w => work'[v] = work[v]
      BY <1>8, <2>3, AdvanceWork DEF Advance
    <3>2. \A i \in Jobs : jobs'[i].status = jobs[i].status
      BY <2>3 DEF TypeOK, JobRow
    <3>3. operation = None
      BY <2>1 DEF Story, Told, Holding
    <3>4. /\ work'[w].step \notin Holding
          /\ work'[w].step = "finish" => work'[w].outcome = "RECOVERY_REQUIRED"
      BY <2>1, <3>1 DEF StagesAt, NextStage, StepAt, JobStages, Holding
    <3>5. Told(w)'
      BY <2>1, <3>3, <3>4 DEF Told, rowVars
    <3> QED
      BY <2>1, <3>1, <3>2, <3>3, <3>5, DriverTells DEF rowVars
  <2> QED
    BY <1>8, <2>2, <2>3 DEF Advance
<1>9. ASSUME NEW w \in Workers, ReportBatch(w) PROVE Story'
  <2>1. /\ \A i \in Jobs : jobs'[i].status = jobs[i].status /\ jobs'[i].stage = jobs[i].stage
        /\ UNCHANGED <<status, operation, statement, work>>
    BY <1>9 DEF ReportBatch, TypeOK, JobRow, rowVars
  <2> QED
    BY <2>1 DEF Story, Alone, Told, Drives, RowMatchesJobs, StageShowsOperation,
       SuccessIsOnTheRow
<1>10. ASSUME NEW w \in Workers, Send(w) PROVE Story'
  <2>1. /\ work[w].step = "send" /\ Drives(work[w])
        /\ StepsTo(w, "await", work[w].outcome) /\ UNCHANGED <<rowVars, jobs>>
    <3>1. "await" \in Steps
      BY DEF Steps, PipelineSteps
    <3> QED
      BY <1>10, <3>1, GotoSteps DEF Send, At, Drives, PipelineSteps, jobVars
  <2>2. operation = work[w].job /\ work[w].job \in Jobs
    BY <2>1, OnlyDriver DEF Story, Told, Holding
  <2>3. status = jobs[work[w].job].stage
    BY <2>2 DEF Story, RowMatchesJobs, StageShowsOperation
  <2>4. Told(w)'
    BY <2>1, <2>2 DEF Told, StepsTo, Holding, rowVars
  <2> QED
    BY <2>1, <2>2, <2>3, <2>4, DriverTells DEF StepsTo, rowVars
<1>11. ASSUME NEW w \in Workers, Finish(w) PROVE Story'
  <2> DEFINE j == work[w].job
             o == work[w].outcome
  <2>1. /\ work[w].step = "finish" /\ Drives(work[w])
        /\ j \in Jobs /\ o \in TerminalStatuses /\ UNCHANGED <<rowVars, statement>>
    BY <1>11 DEF Finish, At, Drives, PipelineSteps, TypeOK, Work, Placed
  <2>2. CASE Die(w) /\ UNCHANGED jobs
    BY <1>2, <2>1, <2>2
  <2>3. CASE /\ jobs' = [jobs EXCEPT ![j].status = o,
                             ![j].stage = IF o = "SUCCEEDED" THEN "COMPLETED" ELSE @]
             /\ Goto(w, "ack") \/ Die(w)
    <3>1. work'[w].step \in {"idle", "ack"} /\ \A v \in Workers : v # w => work'[v] = work[v]
      <4>1. "ack" \in Steps
        BY DEF Steps, FreeSteps
      <4> QED
        BY <2>3, <4>1, DieType, GotoSteps DEF StepsTo
    <3>2. jobs'[j].status = o /\ \A i \in Jobs : i # j => jobs'[i] = jobs[i]
      BY <2>1, <2>3 DEF TypeOK, JobRow
    <3>3. /\ \A i \in Jobs : i # j => jobs[i].status \notin ActiveStatuses
          /\ \A v \in Workers : Drives(work[v]) => v = w
      BY <2>1, OnlyDriver
    <3>4. operation = None /\ (o = "SUCCEEDED" => status = "VALIDATED")
      BY <2>1 DEF Story, Told, Holding
    <3>5. o = "SUCCEEDED" => statement[j] = "committed"
      <4>1. statement[j] \in FatesAt(work[w])
        BY <2>1 DEF Disciplined, Sound
      <4> QED
        BY <2>1, <4>1 DEF FatesAt, FatesOf
    <3>6. Alone'
      BY <3>2, <3>3 DEF Alone
    <3>7. (\A v \in Workers : Told(v))'
      BY <1>0, <3>1, <3>3 DEF Told, Drives
    <3>8. StageShowsOperation'
      BY <2>1, <3>4 DEF StageShowsOperation, rowVars
    <3>9. SuccessIsOnTheRow'
      BY <2>1, <3>2, <3>3, <3>4, <3>5, ActiveKinds DEF SuccessIsOnTheRow, rowVars
    <3> QED
      BY <3>6, <3>7, <3>8, <3>9 DEF Story, RowMatchesJobs
  <2> QED
    BY <1>11, <2>2, <2>3 DEF Finish
<1>12. ASSUME NEW w \in Workers, Acknowledge(w) \/ Crash(w) PROVE Story'
  BY <1>2, <1>12 DEF Acknowledge, Crash, jobVars
\* No other client moves the row of a validated workflow.
<1>13. CASE ForeignMove
  <2>1. /\ operation = None /\ operation' = None /\ UNCHANGED <<jobs, statement, work>>
        /\ status \in Statuses /\ status # "VALIDATED"
    BY <1>13 DEF ForeignMove, AllowedTransitions, TypeOK, jobVars
  <2>2. \A i \in Jobs : jobs[i].status # "SUCCEEDED"
    BY <2>1 DEF Story, RowMatchesJobs, SuccessIsOnTheRow
  <2>3. RowMatchesJobs'
    BY <2>1, <2>2 DEF RowMatchesJobs, StageShowsOperation, SuccessIsOnTheRow
  <2>4. (\A v \in Workers : Told(v))'
    BY <2>1 DEF Story, Told, Drives
  <2>5. Alone'
    BY <2>1 DEF Story, Alone
  <2> QED
    BY <2>3, <2>4, <2>5 DEF Story
<1>14. CASE ForeignAppend \/ UNCHANGED vars
  BY <1>1, <1>14 DEF ForeignAppend, vars, jobVars
<1>15. ASSUME NEW w \in Workers, Local(w) PROVE Story'
  BY <1>15, LocalTells
<1> QED
  BY <1>3, <1>4, <1>5, <1>6, <1>7, <1>8, <1>9, <1>10, <1>11, <1>12, <1>13, <1>14, <1>15
     DEF Next, Take, Process, Local

\* RowMatchesJobs holds in every behaviour of every instance: whoever dies between
\* the transactions on the job and those on the workflow row, a row that is held
\* names a running job at the stage it stopped at, and a success is on the row.
THEOREM RowShowsJobs == Spec => []RowMatchesJobs
<1> USE ConstantsAssumption
<1>1. Init => Story
  <2> SUFFICES ASSUME Init PROVE Story
    OBVIOUS
  <2>1. Alone
    BY ActiveKinds DEF Init, NoRow, Alone
  <2>2. \A w \in Workers : Told(w)
    BY DEF Init, IdleWork, Told, Drives, PipelineSteps
  <2>3. RowMatchesJobs
    BY DEF Init, NoRow, RowMatchesJobs, StageShowsOperation, SuccessIsOnTheRow
  <2> QED
    BY <2>1, <2>2, <2>3 DEF Story
<1>2. TypeOK /\ TypeOK' /\ JobDiscipline /\ Story /\ [Next]_vars => Story'
  BY DisciplineParts, StoryStep
<1>3. Story => RowMatchesJobs
  BY DEF Story
<1> QED
  BY <1>1, <1>2, <1>3, TypeCorrect, JobsAreDisciplined, PTL DEF Spec
=============================================================================
