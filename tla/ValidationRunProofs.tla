------------------------ MODULE ValidationRunProofs ------------------------
(***************************************************************************)
(* The safety of ValidationRun for every set of callers, keys and runs,    *)
(* with and without pipelining clients: the types, VerdictDiscipline, and  *)
(* with them that ValidationRun implements OneVerdict.                     *)
(***************************************************************************)
EXTENDS ValidationRun, TLAPS

----------------------------------------------------------------------------
(* Types *)

\* The part of TypeOK that speaks of the callers.
CallsTyped ==
  /\ call \in [Callers -> Call]
  /\ \A p \in Callers :
       /\ call[p].step # "idle" => call[p].key \in Keys
       /\ call[p].step \in HoldsRun => call[p].run \in Runs

LEMMA IdleCallType == IdleCall \in Call /\ IdleCall.step = "idle"
  BY DEF IdleCall, Call, Steps, TerminalStatuses

\* A new command makes a well-formed caller.
LEMMA SubmitType ==
  ASSUME NEW k \in Keys, NEW e \in Nat, NEW b \in Nat
  PROVE  LET c == [IdleCall EXCEPT !.step = "lookup", !.key = k,
                                   !.expected = e, !.approval = b]
         IN  c \in Call /\ c.key \in Keys /\ c.step = "lookup"
  BY DEF IdleCall, Call, Steps, TerminalStatuses

\* A caller stays well formed, and keeps key and run, whatever step it goes to.
LEMMA StepUpdate ==
  ASSUME NEW c \in Call, NEW s \in Steps
  PROVE  LET d == [c EXCEPT !.step = s]
         IN  d \in Call /\ d.step = s /\ d.key = c.key /\ d.run = c.run
  BY DEF Call

\* The callers stay well formed when one of them does.
LEMMA CallsUpdate ==
  ASSUME TypeOK, NEW p \in Callers, NEW c \in Call,
         c.step # "idle" => c.key \in Keys,
         c.step \in HoldsRun => c.run \in Runs,
         call' = [call EXCEPT ![p] = c]
  PROVE  CallsTyped'
  BY DEF TypeOK, CallsTyped

LEMMA GotoType ==
  ASSUME TypeOK, NEW p \in Callers, NEW s \in Steps, ~At(p, "idle"), Goto(p, s),
         s \in HoldsRun => call[p].run \in Runs
  PROVE  CallsTyped'
  <1> DEFINE c == [call[p] EXCEPT !.step = s]
  <1>1. c \in Call /\ c.key \in Keys /\ c.step = s /\ c.run = call[p].run
    BY StepUpdate DEF TypeOK, At
  <1>2. call' = [call EXCEPT ![p] = c]
    BY DEF Goto
  <1> QED
    BY <1>1, <1>2, CallsUpdate

LEMMA RespondType ==
  ASSUME TypeOK, NEW p \in Callers, Respond(p)
  PROVE  CallsTyped'
  BY IdleCallType, CallsUpdate DEF Respond, HoldsRun

LEMMA BumpType ==
  ASSUME TypeOK, NEW b \in BOOLEAN, Bump(b)
  PROVE  version' \in Nat /\ appended' \in BOOLEAN
  BY DEF TypeOK, Bump

\* A step of a caller that leaves the durable state alone.
LEMMA DurableUnchangedType ==
  ASSUME TypeOK, UNCHANGED durableVars, CallsTyped'
  PROVE  TypeOK'
  BY DEF TypeOK, CallsTyped, durableVars

\* Lookup and Read: the caller answers, or goes on with a run or a version.
LEMMA LookupType ==
  ASSUME TypeOK, NEW p \in Callers, Lookup(p)
  PROVE  CallsTyped'
  <1> DEFINE r == idem[call[p].key].run
             c == [call[p] EXCEPT !.step = "read", !.run = r]
  <1>1. call[p] \in Call /\ call[p].key \in Keys /\ ~At(p, "idle")
    BY DEF Lookup, At, TypeOK
  <1>2. "read" \in Steps /\ "read" \notin HoldsRun
    BY DEF Steps, HoldsRun
  <1>3. CASE Goto(p, "read") \/ Respond(p)
    BY <1>1, <1>2, <1>3, GotoType, RespondType
  <1>4. CASE call' = [call EXCEPT ![p].step = "read", ![p].run = r]
    <2>1. r \in Runs \cup {None}
      BY <1>1 DEF TypeOK, IdemRecord
    <2>2. c \in Call /\ c.key \in Keys /\ c.step = "read"
      BY <1>1, <1>2, <2>1 DEF Call
    <2>3. call' = [call EXCEPT ![p] = c]
      BY <1>4
    <2> QED
      BY <1>2, <2>2, <2>3, CallsUpdate
  <1> QED
    BY <1>3, <1>4 DEF Lookup

LEMMA ReadType ==
  ASSUME TypeOK, NEW p \in Callers, Read(p)
  PROVE  CallsTyped'
  <1> DEFINE s == IF call[p].run = None THEN "claim" ELSE "mark"
             c == [call[p] EXCEPT !.step = s, !.seen = version]
  <1>1. call[p] \in Call /\ call[p].key \in Keys /\ version \in Nat
    BY DEF Read, At, TypeOK
  <1>2. s \in Steps /\ (s \in HoldsRun => call[p].run \in Runs)
    BY <1>1 DEF Steps, HoldsRun, Call
  <1>3. CASE Respond(p)
    BY <1>3, RespondType
  <1>4. CASE call' = [call EXCEPT ![p].step = s, ![p].seen = version]
    <2>1. c \in Call /\ c.key \in Keys /\ c.step = s /\ c.run = call[p].run
      BY <1>1, <1>2 DEF Call
    <2>2. call' = [call EXCEPT ![p] = c]
      BY <1>4
    <2> QED
      BY <1>2, <2>1, <2>2, CallsUpdate
  <1> QED
    BY <1>3, <1>4 DEF Read

LEMMA ClaimReplayType ==
  ASSUME TypeOK, NEW p \in Callers, ClaimReplay(p)
  PROVE  CallsTyped'
  <1> DEFINE r == idem[call[p].key].run
             c == [call[p] EXCEPT !.step = "mark", !.run = r, !.seen = version]
  <1>1. call[p] \in Call /\ call[p].key \in Keys /\ version \in Nat
    BY DEF ClaimReplay, At, TypeOK
  <1>2. r \in Runs
    BY <1>1 DEF ClaimReplay, Recorded, TypeOK, IdemRecord
  <1>3. "mark" \in Steps
    BY DEF Steps
  <1>4. c \in Call /\ c.key \in Keys /\ c.run = r
    BY <1>1, <1>2, <1>3 DEF Call
  <1>5. call' = [call EXCEPT ![p] = c]
    BY DEF ClaimReplay
  <1> QED
    BY <1>2, <1>4, <1>5, CallsUpdate

\* A caller comes by its result.
LEMMA ResultType ==
  ASSUME TypeOK, NEW p \in Callers, call[p].step \in HoldsRun, NEW v \in TerminalStatuses,
         call' = [call EXCEPT ![p].step = "complete", ![p].result = v]
  PROVE  CallsTyped'
  <1> DEFINE c == [call[p] EXCEPT !.step = "complete", !.result = v]
  <1>1. call[p] \in Call /\ call[p].key \in Keys /\ call[p].run \in Runs
    BY DEF HoldsRun, TypeOK
  <1>2. "complete" \in Steps
    BY DEF Steps
  <1>3. c \in Call /\ c.key \in Keys /\ c.run = call[p].run
    BY <1>1, <1>2 DEF Call
  <1>4. call' = [call EXCEPT ![p] = c]
    OBVIOUS
  <1> QED
    BY <1>1, <1>3, <1>4, CallsUpdate

\* ValidationRun keeps every variable within its type: the rows of the control
\* plane, the report on record and the local state of a caller.
THEOREM TypeCorrect == Spec => []TypeOK
<1> USE ValidationConstants
<1>1. Init => TypeOK
  BY IdleCallType DEF Init, TypeOK, HoldsRun, Statuses, Withdrawn, RunRow, NoRow, IdemRecord,
     NoRecord, RunStatuses, NoReport
<1>2. TypeOK /\ [Next]_vars => TypeOK'
  <2> SUFFICES ASSUME TypeOK, [Next]_vars PROVE TypeOK'
    OBVIOUS
  <2>1. ASSUME NEW p \in Callers, Submit(p) PROVE TypeOK'
    <3>1. PICK k \in Keys, b \in 1..approval,
               e \in 1..(IF Pipelined THEN version + 1 ELSE version) :
            call' = [call EXCEPT ![p] =
                       [IdleCall EXCEPT !.step = "lookup", !.key = k,
                                        !.expected = e, !.approval = b]]
      BY <2>1 DEF Submit
    <3>2. b \in Nat /\ e \in Nat
      OBVIOUS
    <3>3. CallsTyped'
      BY <3>1, <3>2, SubmitType, CallsUpdate DEF HoldsRun
    <3> QED
      BY <2>1, <3>3, DurableUnchangedType DEF Submit
  <2>2. ASSUME NEW p \in Callers,
               \/ Lookup(p) \/ Read(p) \/ ClaimReplay(p) \/ ClaimRefused(p)
               \/ MarkLost(p) \/ Query(p) \/ CompleteConflict(p) \/ Crash(p)
        PROVE  TypeOK'
    <3>1. "OUTCOME_UNCERTAIN" \in TerminalStatuses
      BY DEF TerminalStatuses
    <3>2. CASE Lookup(p) \/ Read(p) \/ ClaimReplay(p)
      BY <3>2, LookupType, ReadType, ClaimReplayType, DurableUnchangedType
         DEF Lookup, Read, ClaimReplay
    <3>3. CASE ClaimRefused(p) \/ CompleteConflict(p) \/ Crash(p)
      BY <3>3, RespondType, DurableUnchangedType DEF ClaimRefused, CompleteConflict, Crash
    <3>4. CASE MarkLost(p)
      <4>1. call[p].step \in HoldsRun /\ UNCHANGED durableVars
        BY <3>4 DEF MarkLost, At, HoldsRun
      <4>2. \/ Respond(p)
            \/ call' = [call EXCEPT ![p].step = "complete",
                                    ![p].result = "OUTCOME_UNCERTAIN"]
        BY <3>4 DEF MarkLost
      <4> QED
        BY <3>1, <4>1, <4>2, RespondType, ResultType, DurableUnchangedType
    <3>5. CASE Query(p)
      <4>1. call[p].step \in HoldsRun /\ UNCHANGED durableVars
        BY <3>5 DEF Query, At, HoldsRun
      <4>2. PICK v \in TerminalStatuses :
              call' = [call EXCEPT ![p].step = "complete", ![p].result = v]
        BY <3>5 DEF Query
      <4> QED
        BY <4>1, <4>2, ResultType, DurableUnchangedType
    <3> QED
      BY <2>2, <3>2, <3>3, <3>4, <3>5
  <2>3. ASSUME NEW p \in Callers, ClaimNew(p) PROVE TypeOK'
    <3>1. PICK r \in Runs :
            /\ runs' = [runs EXCEPT ![r] =
                          [status |-> "CLAIMED", approval |-> call[p].approval,
                           expired |-> FALSE]]
            /\ idem' = [idem EXCEPT ![call[p].key] =
                          [expected |-> call[p].expected,
                           approval |-> call[p].approval, run |-> r]]
            /\ call' = [call EXCEPT ![p].step = "mark", ![p].run = r,
                                    ![p].seen = version + 1]
      BY <2>3 DEF ClaimNew
    <3> DEFINE c == [call[p] EXCEPT !.step = "mark", !.run = r, !.seen = version + 1]
    <3>2. c \in Call /\ c.key \in Keys /\ c.run = r
      <4>1. version + 1 \in Nat /\ call[p] \in Call /\ call[p].key \in Keys
        BY <2>3 DEF ClaimNew, At, TypeOK
      <4>2. "mark" \in Steps
        BY DEF Steps
      <4> QED
        BY <4>1, <4>2 DEF Call
    <3>3. CallsTyped'
      <4>1. call' = [call EXCEPT ![p] = c]
        BY <3>1
      <4> QED
        BY <3>2, <4>1, CallsUpdate
    <3>4. call[p].approval \in Nat /\ call[p].expected \in Nat
      BY DEF TypeOK, Call
    <3>5. runs' \in [Runs -> RunRow] /\ idem' \in [Keys -> IdemRecord]
      BY <3>1, <3>4 DEF TypeOK, RunRow, RunStatuses, IdemRecord
    <3>6. status' \in Statuses
      BY <2>3 DEF ClaimNew, Statuses
    <3>7. version' \in Nat /\ appended' \in BOOLEAN
      BY <2>3, BumpType DEF ClaimNew
    <3> QED
      BY <2>3, <3>3, <3>5, <3>6, <3>7 DEF ClaimNew, TypeOK, CallsTyped
  <2>4. ASSUME NEW p \in Callers, MarkRunning(p) PROVE TypeOK'
    <3>1. "query" \in Steps /\ ~At(p, "idle") /\ call[p].run \in Runs
      BY <2>4 DEF Steps, MarkRunning, At, HoldsRun, TypeOK
    <3>2. CallsTyped'
      BY <2>4, <3>1, GotoType DEF MarkRunning
    <3>3. runs' \in [Runs -> RunRow]
      <4> DEFINE r == call[p].run
      <4>1. r \in Runs => [runs[r] EXCEPT !.status = "RUNNING"] \in RunRow
        BY DEF TypeOK, RunRow, RunStatuses
      <4> QED
        BY <2>4, <4>1 DEF MarkRunning, TypeOK
    <3> QED
      BY <2>4, <3>2, <3>3 DEF MarkRunning, rowVars, TypeOK, CallsTyped
  <2>5. ASSUME NEW r \in Runs, Expire(r) PROVE TypeOK'
    <3>1. runs' \in [Runs -> RunRow]
      <4>1. [runs[r] EXCEPT !.expired = TRUE] \in RunRow
        BY DEF TypeOK, RunRow
      <4> QED
        BY <2>5, <4>1 DEF Expire, TypeOK
    <3> QED
      BY <2>5, <3>1 DEF Expire, rowVars, TypeOK
  <2>6. ASSUME NEW p \in Callers, Complete(p) PROVE TypeOK'
    <3> DEFINE r == call[p].run
               v == call[p].result
    <3>1. CallsTyped'
      BY <2>6, RespondType DEF Complete
    <3>2. v \in TerminalStatuses /\ r \in Runs \cup {None}
      BY DEF TypeOK, Call
    <3>3. runs' \in [Runs -> RunRow]
      <4>1. r \in Runs => [runs[r] EXCEPT !.status = v] \in RunRow
        BY <3>2 DEF TypeOK, RunRow, RunStatuses, TerminalStatuses
      <4> QED
        BY <2>6, <4>1 DEF Complete, TypeOK
    <3>4. evidence' \in Report \cup {NoReport}
      <4>1. r \in Runs
        BY <2>6 DEF Complete, At, HoldsRun, TypeOK
      <4> QED
        BY <2>6, <3>2, <4>1 DEF Complete, TypeOK, Report, TerminalStatuses
    <3>5. status' \in Statuses
      BY <2>6 DEF Complete, StatusAfter, Statuses
    <3>6. version' \in Nat /\ appended' \in BOOLEAN
      BY <2>6, BumpType DEF Complete
    <3> QED
      BY <2>6, <3>1, <3>3, <3>4, <3>5, <3>6 DEF Complete, TypeOK, CallsTyped
  <2>7. CASE Others
    <3>1. version' \in Nat /\ appended' \in BOOLEAN
      BY <2>7, BumpType DEF Others, Transition, AppendApproval, AppendOther, RecordCleanup
    <3>2. status' \in Statuses
      BY <2>7 DEF Others, Transition, AppendApproval, AppendOther, RecordCleanup, TypeOK
    <3>3. approval' \in Nat
      <4>1. approval' \in {approval, approval + 1}
        BY <2>7 DEF Others, Transition, AppendApproval, AppendOther, RecordCleanup
      <4> QED
        BY <4>1 DEF TypeOK
    <3>4. cleanups' \in Nat
      <4>1. cleanups' = cleanups \/ (cleanups > 0 /\ cleanups' = cleanups - 1)
        BY <2>7 DEF Others, Transition, AppendApproval, AppendOther, RecordCleanup
      <4> QED
        BY <4>1 DEF TypeOK
    <3>5. UNCHANGED <<runs, idem, evidence, call>>
      BY <2>7 DEF Others, Transition, AppendApproval, AppendOther, RecordCleanup
    <3> QED
      BY <3>1, <3>2, <3>3, <3>4, <3>5 DEF TypeOK
  <2>8. CASE UNCHANGED vars
    BY <2>8 DEF vars, TypeOK
  <2> QED
    BY <2>1, <2>2, <2>3, <2>4, <2>5, <2>6, <2>7, <2>8
       DEF Next, Faultless, Faults, Validate
<1> QED
  BY <1>1, <1>2, PTL DEF Spec

----------------------------------------------------------------------------
(* The discipline of a run *)

\* The durable variables VerdictDiscipline reads.
judged == <<runs, idem, evidence>>

LEMMA FrameKeepsDiscipline ==
  ASSUME VerdictDiscipline, UNCHANGED <<judged, call>>
  PROVE  VerdictDiscipline'
  BY DEF VerdictDiscipline, OneRun, ReportIsVerdict, Recorded, Backed, OneQuerier, At,
         judged

\* A caller that moves within what backs it, and not to the queries.
LEMMA MoveKeepsDiscipline ==
  ASSUME VerdictDiscipline, NEW p \in Callers, UNCHANGED judged,
         \A q \in Callers : q # p => call'[q] = call[q],
         Backed(call[p])', call'[p].step # "query"
  PROVE  VerdictDiscipline'
  <1>1. /\ OneRun' /\ ReportIsVerdict'
        /\ \A k \in Keys : Recorded(k)' => runs'[idem'[k].run].status # "ABSENT"
    BY DEF VerdictDiscipline, OneRun, ReportIsVerdict, Recorded, judged
  <1>2. (\A q \in Callers : Backed(call[q]))'
    <2> SUFFICES ASSUME NEW q \in Callers PROVE Backed(call[q])'
      OBVIOUS
    <2>1. CASE q = p
      BY <2>1
    <2>2. CASE q # p
      BY <2>2 DEF VerdictDiscipline, Backed, judged
    <2> QED
      BY <2>1, <2>2
  <1>3. OneQuerier'
    BY DEF VerdictDiscipline, OneQuerier, At
  <1> QED
    BY <1>1, <1>2, <1>3 DEF VerdictDiscipline

LEMMA RespondKeepsDiscipline ==
  ASSUME TypeOK, VerdictDiscipline, NEW p \in Callers, Respond(p), UNCHANGED judged
  PROVE  VerdictDiscipline'
  <1>1. call'[p].step = "idle" /\ \A q \in Callers : q # p => call'[q] = call[q]
    BY DEF Respond, IdleCall, TypeOK
  <1>2. Backed(call[p])'
    BY <1>1 DEF Backed, HoldsRun
  <1> QED
    BY <1>1, <1>2, MoveKeepsDiscipline

\* The status of runs moves on: a run that was open or absent is changed, the
\* others and the callers' claims on them stay.
LEMMA OthersStayBacked ==
  ASSUME VerdictDiscipline, NEW p \in Callers,
         \A q \in Callers : q # p => call'[q] = call[q],
         \A r \in Runs : /\ runs[r].status # "ABSENT" => runs'[r].status # "ABSENT"
                         /\ runs[r].status # "CLAIMED" /\ runs[r].status # "ABSENT"
                              => runs'[r].status # "CLAIMED",
         TypeOK
  PROVE  \A q \in Callers : q # p => Backed(call[q])'
  <1> SUFFICES ASSUME NEW q \in Callers, q # p PROVE Backed(call[q])'
    OBVIOUS
  <1>1. Backed(call[q]) /\ call'[q] = call[q]
    BY DEF VerdictDiscipline
  <1>2. /\ call[q].step \in HoldsRun => call[q].run \in Runs
        /\ call[q].run \in Runs \cup {None}
    BY DEF TypeOK, Call
  <1> QED
    BY <1>1, <1>2 DEF Backed, HoldsRun

LEMMA VerdictStep ==
  ASSUME TypeOK, VerdictDiscipline, [Next]_vars
  PROVE  VerdictDiscipline'
<1> USE ValidationConstants
<1>1. ASSUME NEW p \in Callers, Submit(p) PROVE VerdictDiscipline'
  <2>1. PICK k \in Keys, b \in 1..approval,
             e \in 1..(IF Pipelined THEN version + 1 ELSE version) :
          call' = [call EXCEPT ![p] =
                     [IdleCall EXCEPT !.step = "lookup", !.key = k,
                                      !.expected = e, !.approval = b]]
    BY <1>1 DEF Submit
  <2>2. /\ call'[p].step = "lookup" /\ call'[p].run = None
        /\ \A q \in Callers : q # p => call'[q] = call[q]
    BY <2>1 DEF TypeOK, IdleCall
  <2>3. UNCHANGED judged
    BY <1>1 DEF Submit, durableVars, judged
  <2>4. Backed(call[p])'
    BY <2>2 DEF Backed, HoldsRun
  <2> QED
    BY <2>2, <2>3, <2>4, MoveKeepsDiscipline
<1>2. ASSUME NEW p \in Callers, Lookup(p) PROVE VerdictDiscipline'
  <2> DEFINE r == idem[call[p].key].run
  <2>1. UNCHANGED judged /\ call[p].run = None
    BY <1>2 DEF Lookup, At, durableVars, judged, VerdictDiscipline, Backed
  <2>2. CASE Respond(p)
    BY <2>1, <2>2, RespondKeepsDiscipline
  <2>3. CASE Goto(p, "read")
    <3>1. /\ call'[p].step = "read" /\ call'[p].run = None
          /\ \A q \in Callers : q # p => call'[q] = call[q]
      BY <2>1, <2>3 DEF Goto, TypeOK, Call
    <3>2. Backed(call[p])'
      BY <3>1 DEF Backed, HoldsRun
    <3> QED
      BY <2>1, <3>1, <3>2, MoveKeepsDiscipline
  <2>4. CASE Recorded(call[p].key) /\ call' = [call EXCEPT ![p].step = "read", ![p].run = r]
    <3>1. /\ call'[p].step = "read" /\ call'[p].run = r
          /\ \A q \in Callers : q # p => call'[q] = call[q]
      BY <2>4 DEF TypeOK, Call
    <3>2. runs[r].status # "ABSENT"
      BY <1>2, <2>4 DEF Lookup, At, TypeOK, VerdictDiscipline
    <3>3. Backed(call[p])'
      BY <2>1, <3>1, <3>2 DEF Backed, HoldsRun, judged
    <3> QED
      BY <2>1, <3>1, <3>3, MoveKeepsDiscipline
  <2> QED
    BY <1>2, <2>2, <2>3, <2>4 DEF Lookup
<1>3. ASSUME NEW p \in Callers, Read(p) PROVE VerdictDiscipline'
  <2> DEFINE s == IF call[p].run = None THEN "claim" ELSE "mark"
  <2>1. UNCHANGED judged
    BY <1>3 DEF Read, durableVars, judged
  <2>2. CASE Respond(p)
    BY <2>1, <2>2, RespondKeepsDiscipline
  <2>3. CASE call' = [call EXCEPT ![p].step = s, ![p].seen = version]
    <3>1. /\ call'[p].step = s /\ call'[p].run = call[p].run
          /\ \A q \in Callers : q # p => call'[q] = call[q]
      BY <2>3 DEF TypeOK, Call
    <3>2. call[p].run # None => runs[call[p].run].status # "ABSENT"
      BY <1>3 DEF Read, At, VerdictDiscipline, Backed
    <3>3. Backed(call[p])'
      BY <2>1, <3>1, <3>2 DEF Backed, HoldsRun, judged
    <3> QED
      BY <2>1, <3>1, <3>3, MoveKeepsDiscipline
  <2> QED
    BY <1>3, <2>2, <2>3 DEF Read
<1>4. ASSUME NEW p \in Callers, ClaimReplay(p) PROVE VerdictDiscipline'
  <2> DEFINE r == idem[call[p].key].run
  <2>1. UNCHANGED judged
    BY <1>4 DEF ClaimReplay, durableVars, judged
  <2>2. /\ call'[p].step = "mark" /\ call'[p].run = r
        /\ \A q \in Callers : q # p => call'[q] = call[q]
    BY <1>4 DEF ClaimReplay, TypeOK, Call
  <2>3. runs[r].status # "ABSENT"
    BY <1>4 DEF ClaimReplay, At, TypeOK, VerdictDiscipline
  <2>4. Backed(call[p])'
    BY <2>1, <2>2, <2>3 DEF Backed, HoldsRun, judged
  <2> QED
    BY <2>1, <2>2, <2>4, MoveKeepsDiscipline
<1>5. ASSUME NEW p \in Callers, ClaimRefused(p) \/ CompleteConflict(p) \/ Crash(p)
      PROVE  VerdictDiscipline'
  <2>1. Respond(p) /\ UNCHANGED judged
    BY <1>5 DEF ClaimRefused, CompleteConflict, Crash, durableVars, judged
  <2> QED
    BY <2>1, RespondKeepsDiscipline
<1>6. ASSUME NEW p \in Callers, MarkLost(p) \/ Query(p) PROVE VerdictDiscipline'
  <2>1. UNCHANGED judged
    BY <1>6 DEF MarkLost, Query, durableVars, judged
  <2>2. CASE Respond(p)
    BY <2>1, <2>2, RespondKeepsDiscipline
  <2>3. ASSUME NEW v \in TerminalStatuses,
               call' = [call EXCEPT ![p].step = "complete", ![p].result = v],
               runs[call[p].run].status \notin {"ABSENT", "CLAIMED"}
        PROVE  VerdictDiscipline'
    <3>1. /\ call'[p].step = "complete" /\ call'[p].run = call[p].run
          /\ \A q \in Callers : q # p => call'[q] = call[q]
      BY <2>3 DEF TypeOK, Call
    <3>2. Backed(call[p])'
      BY <2>1, <2>3, <3>1 DEF Backed, HoldsRun, judged
    <3> QED
      BY <2>1, <3>1, <3>2, MoveKeepsDiscipline
  <2>4. CASE MarkLost(p)
    BY <2>2, <2>3, <2>4 DEF MarkLost, TerminalStatuses
  <2>5. CASE Query(p)
    <3>1. runs[call[p].run].status \notin {"ABSENT", "CLAIMED"}
      BY <2>5 DEF Query, At, VerdictDiscipline, Backed, HoldsRun
    <3> QED
      BY <2>3, <2>5, <3>1 DEF Query
  <2> QED
    BY <1>6, <2>4, <2>5
<1>7. ASSUME NEW p \in Callers, ClaimNew(p) PROVE VerdictDiscipline'
  <2>1. PICK r \in Runs :
          /\ runs' = [runs EXCEPT ![r] =
                        [status |-> "CLAIMED", approval |-> call[p].approval,
                         expired |-> FALSE]]
          /\ idem' = [idem EXCEPT ![call[p].key] =
                        [expected |-> call[p].expected,
                         approval |-> call[p].approval, run |-> r]]
          /\ call' = [call EXCEPT ![p].step = "mark", ![p].run = r,
                                  ![p].seen = version + 1]
    BY <1>7 DEF ClaimNew
  <2>2. \A s \in Runs : runs[s].status = "ABSENT"
    BY <1>7 DEF ClaimNew, ClaimAllowed, NoBlockingRun, BlockingStatuses, TypeOK, RunRow
  <2>3. \A s \in Runs : runs'[s].status = IF s = r THEN "CLAIMED" ELSE "ABSENT"
    BY <2>1, <2>2 DEF TypeOK
  <2>4. /\ call'[p].step = "mark" /\ call'[p].run = r
        /\ \A q \in Callers : q # p => call'[q] = call[q]
    BY <2>1 DEF TypeOK, Call
  <2>5. OneRun'
    BY <2>3 DEF OneRun
  <2>6. ReportIsVerdict'
    <3>1. \A s \in Runs : evidence.run # s
      BY <2>2 DEF VerdictDiscipline, ReportIsVerdict, TypeOK, Report, NoReport
    <3> QED
      BY <1>7, <2>3, <3>1 DEF ClaimNew, ReportIsVerdict
  <2>7. \A k \in Keys : Recorded(k)' => runs'[idem'[k].run].status # "ABSENT"
    <3> SUFFICES ASSUME NEW k \in Keys, Recorded(k)'
                 PROVE  runs'[idem'[k].run].status # "ABSENT"
      OBVIOUS
    <3>1. CASE k = call[p].key
      BY <2>1, <2>3, <3>1 DEF TypeOK
    <3>2. CASE k # call[p].key
      <4>1. idem'[k] = idem[k] /\ idem[k].run \in Runs
        BY <2>1, <3>2 DEF Recorded, TypeOK, IdemRecord
      <4> QED
        BY <2>2, <4>1 DEF Recorded, VerdictDiscipline, TypeOK, IdemRecord
    <3> QED
      BY <3>1, <3>2
  <2>8. (\A q \in Callers : Backed(call[q]))'
    <3>1. \A q \in Callers : q # p => Backed(call[q])'
      BY <2>2, <2>4, OthersStayBacked
    <3>2. Backed(call[p])'
      BY <2>3, <2>4 DEF Backed, HoldsRun
    <3> QED
      BY <3>1, <3>2
  <2>9. OneQuerier'
    BY <2>4 DEF VerdictDiscipline, OneQuerier, At
  <2> QED
    BY <2>5, <2>6, <2>7, <2>8, <2>9 DEF VerdictDiscipline
<1>8. ASSUME NEW p \in Callers, MarkRunning(p) PROVE VerdictDiscipline'
  <2> DEFINE r == call[p].run
  <2>1. r \in Runs /\ runs[r].status = "CLAIMED" /\ call[p].step = "mark"
    BY <1>8 DEF MarkRunning, At, HoldsRun, TypeOK
  <2>2. \A s \in Runs :
          runs'[s].status = IF s = r THEN "RUNNING" ELSE runs[s].status
    BY <1>8, <2>1 DEF MarkRunning, TypeOK, RunRow
  <2>3. UNCHANGED <<idem, evidence>>
    BY <1>8 DEF MarkRunning
  <2>4. /\ call'[p].step = "query" /\ call'[p].run = r
        /\ \A q \in Callers : q # p => call'[q] = call[q]
    BY <1>8 DEF MarkRunning, Goto, TypeOK, Call
  <2>5. OneRun'
    BY <2>1, <2>2 DEF VerdictDiscipline, OneRun
  <2>6. ReportIsVerdict'
    <3>1. evidence.run # r
      BY <2>1 DEF VerdictDiscipline, ReportIsVerdict, TypeOK, Report, NoReport
    <3> QED
      BY <2>1, <2>2, <2>3, <3>1 DEF VerdictDiscipline, ReportIsVerdict
  <2>7. \A k \in Keys : Recorded(k)' => runs'[idem'[k].run].status # "ABSENT"
    BY <2>2, <2>3 DEF VerdictDiscipline, Recorded, TypeOK, IdemRecord
  <2>8. (\A q \in Callers : Backed(call[q]))'
    <3>1. \A q \in Callers : q # p => Backed(call[q])'
      BY <2>1, <2>2, <2>4, OthersStayBacked
    <3>2. Backed(call[p])'
      BY <2>1, <2>2, <2>4 DEF Backed, HoldsRun
    <3> QED
      BY <3>1, <3>2
  <2>9. OneQuerier'
    <3>1. \A q \in Callers : call[q].step = "query" => call[q].run # r
      BY <2>1 DEF VerdictDiscipline, Backed
    <3> QED
      BY <2>4, <3>1 DEF VerdictDiscipline, OneQuerier, At
  <2> QED
    BY <2>5, <2>6, <2>7, <2>8, <2>9 DEF VerdictDiscipline
<1>9. ASSUME NEW r \in Runs, Expire(r) PROVE VerdictDiscipline'
  <2>1. /\ \A s : s \in Runs => runs'[s].status = runs[s].status
        /\ UNCHANGED <<idem, evidence, call>>
    BY <1>9 DEF Expire, TypeOK, RunRow
  <2>2. OneRun' /\ ReportIsVerdict' /\ OneQuerier'
    BY <2>1 DEF VerdictDiscipline, OneRun, ReportIsVerdict, OneQuerier, At
  <2>3. \A k \in Keys : Recorded(k)' => runs'[idem'[k].run].status # "ABSENT"
    BY <2>1 DEF VerdictDiscipline, Recorded, TypeOK, IdemRecord
  <2>4. (\A q \in Callers : Backed(call[q]))'
    <3> SUFFICES ASSUME NEW q \in Callers PROVE Backed(call[q])'
      OBVIOUS
    <3>1. Backed(call[q]) /\ call'[q] = call[q]
      BY <2>1 DEF VerdictDiscipline
    <3>2. /\ call[q].step \in HoldsRun => call[q].run \in Runs
          /\ call[q].run \in Runs \cup {None}
      BY DEF TypeOK, Call
    <3> QED
      BY <2>1, <3>1, <3>2 DEF Backed, HoldsRun
  <2> QED
    BY <2>2, <2>3, <2>4 DEF VerdictDiscipline
<1>10. ASSUME NEW p \in Callers, Complete(p) PROVE VerdictDiscipline'
  <2> DEFINE r == call[p].run
             v == call[p].result
  <2>1. r \in Runs /\ runs[r].status = "RUNNING" /\ v \in TerminalStatuses
    BY <1>10 DEF Complete, MayComplete, At, HoldsRun, TypeOK, Call
  <2>2. \A s \in Runs : runs'[s].status = IF s = r THEN v ELSE runs[s].status
    BY <1>10, <2>1 DEF Complete, TypeOK, RunRow
  <2>3. \A s \in Runs : s # r => runs[s].status = "ABSENT"
    BY <2>1 DEF VerdictDiscipline, OneRun
  <2>4. /\ call'[p].step = "idle"
        /\ \A q \in Callers : q # p => call'[q] = call[q]
    BY <1>10 DEF Complete, Respond, IdleCall, TypeOK
  <2>5. OneRun'
    BY <2>2, <2>3 DEF OneRun
  <2>6. ReportIsVerdict'
    <3>1. \A s \in Runs : evidence.run # s
      BY <2>1, <2>3 DEF VerdictDiscipline, ReportIsVerdict, TypeOK, Report, NoReport
    <3>2. evidence' = IF v = "OUTCOME_UNCERTAIN" THEN evidence
                                                 ELSE [run |-> r, verdict |-> v]
      BY <1>10 DEF Complete
    <3> QED
      BY <2>1, <2>2, <2>3, <3>1, <3>2 DEF ReportIsVerdict, TerminalStatuses
  <2>7. \A k \in Keys : Recorded(k)' => runs'[idem'[k].run].status # "ABSENT"
    <3>1. idem' = idem
      BY <1>10 DEF Complete
    <3> QED
      BY <2>1, <2>2, <3>1
         DEF VerdictDiscipline, Recorded, TypeOK, IdemRecord, TerminalStatuses
  <2>8. (\A q \in Callers : Backed(call[q]))'
    <3>1. \A q \in Callers : q # p => Backed(call[q])'
      BY <2>1, <2>2, <2>4, OthersStayBacked DEF TerminalStatuses
    <3>2. Backed(call[p])'
      BY <2>4 DEF Backed, HoldsRun
    <3> QED
      BY <3>1, <3>2
  <2>9. OneQuerier'
    BY <2>4 DEF VerdictDiscipline, OneQuerier, At
  <2> QED
    BY <2>5, <2>6, <2>7, <2>8, <2>9 DEF VerdictDiscipline
<1>11. CASE Others \/ UNCHANGED vars
  <2>1. UNCHANGED <<judged, call>>
    BY <1>11 DEF Others, Transition, AppendApproval, AppendOther, RecordCleanup, vars,
                 judged
  <2> QED
    BY <2>1, FrameKeepsDiscipline
<1> QED
  BY <1>1, <1>2, <1>3, <1>4, <1>5, <1>6, <1>7, <1>8, <1>9, <1>10, <1>11
     DEF Next, Faultless, Faults, Validate

\* VerdictDiscipline holds in every behaviour of every instance: a workflow is
\* judged by one run, one caller queries for it, and the report on record is the
\* verdict of the run that ended with it.
THEOREM VerdictIsDisciplined == Spec => []VerdictDiscipline
<1>1. Init => VerdictDiscipline
  BY ValidationConstants
     DEF Init, VerdictDiscipline, OneRun, ReportIsVerdict, Recorded, Backed, HoldsRun,
         OneQuerier, At, NoRow, NoRecord, NoReport, IdleCall
<1>2. TypeOK /\ VerdictDiscipline /\ [Next]_vars => VerdictDiscipline'
  BY VerdictStep
<1> QED
  BY <1>1, <1>2, TypeCorrect, PTL DEF Spec

----------------------------------------------------------------------------
(* Refinement *)

\* Nothing has been judged where no run was claimed.
LEMMA JudgementNone ==
  ASSUME \A s \in Runs : runs[s].status = "ABSENT"
  PROVE  Judgement = "none"
  BY DEF Judgement, Reached, Open

\* ValidationRun implements OneVerdict: a migration is judged once, by one run, and
\* no late, replayed or dying caller overturns the verdict or its report.
THEOREM JudgesOnce == Spec => ImplementsOneVerdict
<1> USE ValidationConstants
<1>1. Init => Verdict!Init
  <2> SUFFICES ASSUME Init PROVE Judgement = "none" /\ ReportOnRecord = "none"
    BY DEF Verdict!Init
  <2> QED
    BY JudgementNone DEF Init, NoRow, NoReport, ReportOnRecord
<1>2. TypeOK /\ VerdictDiscipline /\ [Next]_vars => [Verdict!Next]_(Verdict!verdictVars)
  <2> SUFFICES ASSUME TypeOK, VerdictDiscipline, [Next]_vars
               PROVE  [Verdict!Next]_(Verdict!verdictVars)
    OBVIOUS
  <2>1. ASSUME \A s \in Runs : runs'[s].status = runs[s].status, UNCHANGED evidence
        PROVE  UNCHANGED Verdict!verdictVars
    <3>1. Judgement' = Judgement
      BY <2>1 DEF Judgement, Reached
    <3>2. ReportOnRecord' = ReportOnRecord
      BY <2>1 DEF ReportOnRecord
    <3> QED
      BY <3>1, <3>2 DEF Verdict!verdictVars
  <2>2. ASSUME NEW p \in Callers, ClaimNew(p) PROVE Verdict!Next
    <3>1. PICK r \in Runs :
            runs' = [runs EXCEPT ![r] =
                       [status |-> "CLAIMED", approval |-> call[p].approval,
                        expired |-> FALSE]]
      BY <2>2 DEF ClaimNew
    <3>2. \A s \in Runs : runs[s].status = "ABSENT"
      BY <2>2 DEF ClaimNew, ClaimAllowed, NoBlockingRun, BlockingStatuses, TypeOK, RunRow
    <3>3. Judgement = "none"
      BY <3>2, JudgementNone
    <3>4. runs'[r].status = "CLAIMED"
      BY <3>1 DEF TypeOK
    <3>5. Judgement' = "pending"
      BY <3>4 DEF Judgement, Open
    <3>6. ReportOnRecord' = ReportOnRecord
      BY <2>2 DEF ClaimNew, ReportOnRecord
    <3> QED
      BY <3>3, <3>5, <3>6 DEF Verdict!Next, Verdict!Begin
  <2>3. ASSUME NEW p \in Callers, MarkRunning(p) PROVE UNCHANGED Verdict!verdictVars
    <3> DEFINE r == call[p].run
    <3>1. r \in Runs /\ runs[r].status = "CLAIMED"
      BY <2>3 DEF MarkRunning, At, HoldsRun, TypeOK
    <3>2. runs'[r].status = "RUNNING"
      BY <2>3, <3>1 DEF MarkRunning, TypeOK, RunRow
    <3>3. Judgement = "pending" /\ Judgement' = "pending"
      BY <3>1, <3>2 DEF Judgement, Open
    <3>4. ReportOnRecord' = ReportOnRecord
      BY <2>3 DEF MarkRunning, ReportOnRecord
    <3> QED
      BY <3>3, <3>4 DEF Verdict!verdictVars
  <2>4. ASSUME NEW r \in Runs, Expire(r) PROVE UNCHANGED Verdict!verdictVars
    <3>1. \A s \in Runs : runs'[s].status = runs[s].status
      BY <2>4 DEF Expire, TypeOK, RunRow
    <3> QED
      BY <2>1, <2>4, <3>1 DEF Expire
  <2>5. ASSUME NEW p \in Callers, Complete(p) PROVE Verdict!Next
    <3> DEFINE r == call[p].run
               v == call[p].result
    <3>1. r \in Runs /\ runs[r].status = "RUNNING" /\ v \in TerminalStatuses
      BY <2>5 DEF Complete, MayComplete, At, HoldsRun, TypeOK, Call
    <3>2. \A s \in Runs : s # r => runs[s].status = "ABSENT" /\ runs'[s] = runs[s]
      BY <2>5, <3>1 DEF Complete, VerdictDiscipline, OneRun, TypeOK
    <3>3. runs'[r].status = v
      BY <2>5, <3>1 DEF Complete, TypeOK, RunRow
    <3>4. Judgement = "pending"
      BY <3>1 DEF Judgement, Open
    <3>5. Judgement' = CASE v = "SUCCEEDED" -> "passed"
                         [] v = "REVIEW_REQUIRED" -> "review"
                         [] v = "OUTCOME_UNCERTAIN" -> "unknown"
      BY <3>1, <3>2, <3>3 DEF Judgement, Reached, Open, TerminalStatuses
    <3>6. CASE v = "OUTCOME_UNCERTAIN"
      <4>1. ReportOnRecord' = ReportOnRecord
        BY <2>5, <3>6 DEF Complete, ReportOnRecord
      <4> QED
        BY <3>4, <3>5, <3>6, <4>1 DEF Verdict!Next, Verdict!GiveUp
    <3>7. CASE v # "OUTCOME_UNCERTAIN"
      <4>1. evidence' = [run |-> r, verdict |-> v]
        BY <2>5, <3>7 DEF Complete
      <4>2. ReportOnRecord' = Judgement' /\ Judgement' \in {"passed", "review"}
        BY <3>1, <3>5, <3>7, <4>1 DEF ReportOnRecord, TerminalStatuses
      <4> QED
        BY <3>4, <4>2 DEF Verdict!Next, Verdict!Judge
    <3> QED
      BY <3>6, <3>7
  <2>6. CASE \/ UNCHANGED vars \/ Others
             \/ \E p \in Callers :
                  \/ Submit(p) \/ Lookup(p) \/ Read(p) \/ ClaimReplay(p)
                  \/ ClaimRefused(p) \/ MarkLost(p) \/ Query(p)
                  \/ CompleteConflict(p) \/ Crash(p)
    <3>1. runs' = runs /\ evidence' = evidence
      BY <2>6 DEF vars, Others, Transition, AppendApproval, AppendOther, RecordCleanup,
         Submit, Lookup, Read, ClaimReplay, ClaimRefused, MarkLost, Query,
         CompleteConflict, Crash, durableVars
    <3> QED
      BY <2>1, <3>1
  <2> QED
    BY <2>2, <2>3, <2>4, <2>5, <2>6 DEF Next, Faultless, Faults, Validate
<1> QED
  BY <1>1, <1>2, TypeCorrect, VerdictIsDisciplined, PTL
     DEF Spec, ImplementsOneVerdict, Verdict!Spec

----------------------------------------------------------------------------
(* The row and the runs *)

\* A caller names no version that is still to come, and one about to claim has seen
\* the approval it names as the latest, if the row has not moved since.
Informed(c) ==
  c.step # "idle" =>
    /\ c.expected <= version
    /\ c.step = "claim" /\ c.expected = version => c.approval = approval

AllInformed == \A p \in Callers : Informed(call[p])

\* Whatever bumps the version leaves the commands behind.
LEMMA BumpInforms ==
  ASSUME TypeOK, AllInformed, version' = version + 1,
         \A q \in Callers : \/ call'[q].step = "idle"
                            \/ call'[q] = call[q]
                            \/ call'[q].step # "claim" /\ call[q].step # "idle"
                                 /\ call'[q].expected = call[q].expected
  PROVE  AllInformed'
<1> SUFFICES ASSUME NEW q \in Callers, call'[q].step # "idle"
             PROVE  /\ call'[q].expected <= version'
                    /\ ~(call'[q].step = "claim" /\ call'[q].expected = version')
  BY DEF AllInformed, Informed
<1>1. call'[q].expected = call[q].expected /\ call[q].step # "idle"
  OBVIOUS
<1>2. call[q].expected <= version /\ call[q].expected \in Nat /\ version \in Nat
  BY <1>1 DEF AllInformed, Informed, TypeOK, Call
<1> QED
  BY <1>1, <1>2

\* A caller moves, the row does not.
LEMMA MoveInforms ==
  ASSUME AllInformed, NEW p \in Callers, UNCHANGED <<version, approval>>,
         \A q \in Callers : q # p => call'[q] = call[q], Informed(call[p])'
  PROVE  AllInformed'
<1> SUFFICES ASSUME NEW q \in Callers PROVE Informed(call[q])'
  BY DEF AllInformed
<1>1. CASE q = p
  BY <1>1
<1>2. CASE q # p
  BY <1>2 DEF AllInformed, Informed
<1> QED
  BY <1>1, <1>2

\* The steps of a caller that leave the workflow row alone.
Still(p) ==
  \/ Submit(p) \/ Lookup(p) \/ Read(p) \/ ClaimReplay(p) \/ ClaimRefused(p)
  \/ MarkRunning(p) \/ MarkLost(p) \/ Query(p) \/ CompleteConflict(p) \/ Crash(p)

LEMMA StillInforms ==
  ASSUME TypeOK, ~Pipelined, AllInformed, NEW p \in Callers, Still(p)
  PROVE  AllInformed'
<1>1. call \in [Callers -> Call] /\ version \in Nat /\ UNCHANGED <<version, approval>>
  BY DEF Still, Submit, Lookup, Read, ClaimReplay, ClaimRefused, MarkRunning, MarkLost, Query,
         CompleteConflict, Crash, durableVars, rowVars, TypeOK
<1>2. CASE Respond(p)
  <2>1. call'[p].step = "idle" /\ \A q \in Callers : q # p => call'[q] = call[q]
    BY <1>1, <1>2 DEF Respond, IdleCall
  <2> QED
    BY <1>1, <2>1, MoveInforms DEF Informed
<1>3. CASE Submit(p)
  <2>1. PICK k \in Keys, b \in 1..approval, e \in 1..version :
          call' = [call EXCEPT ![p] =
                     [IdleCall EXCEPT !.step = "lookup", !.key = k,
                                      !.expected = e, !.approval = b]]
    BY <1>3 DEF Submit
  <2>2. /\ call'[p].step = "lookup" /\ call'[p].expected = e
        /\ \A q \in Callers : q # p => call'[q] = call[q]
    BY <1>1, <2>1 DEF IdleCall
  <2>3. Informed(call[p])'
    BY <1>1, <2>1, <2>2 DEF Informed
  <2> QED
    BY <1>1, <2>2, <2>3, MoveInforms
<1>4. CASE ~At(p, "idle") /\ \E c \in Call :
             /\ call' = [call EXCEPT ![p] = c]
             /\ c.expected = call[p].expected
             /\ c.step = "claim" => (c.expected = version => c.approval = approval)
  <2>1. PICK c \in Call :
          /\ call' = [call EXCEPT ![p] = c]
          /\ c.expected = call[p].expected
          /\ c.step = "claim" => (c.expected = version => c.approval = approval)
    BY <1>4
  <2>2. call'[p] = c /\ \A q \in Callers : q # p => call'[q] = call[q]
    BY <1>1, <2>1
  <2>3. call[p].expected <= version
    BY <1>4 DEF AllInformed, Informed, At
  <2>4. Informed(call[p])'
    BY <1>1, <2>1, <2>2, <2>3 DEF Informed
  <2> QED
    BY <1>1, <2>2, <2>4, MoveInforms
<1>5. CASE Lookup(p) /\ ~Respond(p)
  <2> DEFINE r == idem[call[p].key].run
             c1 == [call[p] EXCEPT !.step = "read"]
             c2 == [call[p] EXCEPT !.step = "read", !.run = r]
  <2>1. ~At(p, "idle") /\ call[p].key \in Keys /\ call[p] \in Call
    BY <1>1, <1>5 DEF Lookup, At, TypeOK
  <2>2. c1 \in Call /\ c2 \in Call
    BY <2>1 DEF Call, Steps, TypeOK, IdemRecord
  <2>3. /\ c1.expected = call[p].expected /\ c1.step # "claim"
        /\ c2.expected = call[p].expected /\ c2.step # "claim"
    BY <2>1 DEF Call
  <2>4. call' = [call EXCEPT ![p] = c1] \/ call' = [call EXCEPT ![p] = c2]
    BY <1>5 DEF Lookup, Goto
  <2> HIDE DEF c1, c2
  <2> QED
    BY <1>4, <2>1, <2>2, <2>3, <2>4
<1>6. CASE Read(p) /\ ~Respond(p)
  <2> DEFINE s == IF call[p].run = None THEN "claim" ELSE "mark"
             c == [call[p] EXCEPT !.step = s, !.seen = version]
  <2>1. ~At(p, "idle") /\ call[p] \in Call
    BY <1>1, <1>6 DEF Read, At
  <2>2. c \in Call /\ c.expected = call[p].expected /\ c.approval = call[p].approval
        /\ c.step = s
    BY <1>1, <2>1 DEF Call, Steps
  <2>3. call' = [call EXCEPT ![p] = c]
    BY <1>6 DEF Read
  <2>4. s = "claim" => (c.expected = version => c.approval = approval)
    BY <1>6, <2>2 DEF Read
  <2> HIDE DEF c
  <2> QED
    BY <1>4, <2>1, <2>2, <2>3, <2>4
<1>7. CASE ClaimReplay(p)
  <2> DEFINE c == [call[p] EXCEPT !.step = "mark", !.run = idem[call[p].key].run,
                                  !.seen = version]
  <2>1. ~At(p, "idle") /\ call[p].key \in Keys /\ call[p] \in Call
    BY <1>1, <1>7 DEF ClaimReplay, At, TypeOK
  <2>2. c \in Call /\ c.expected = call[p].expected /\ c.step # "claim"
    BY <1>1, <2>1 DEF Call, Steps, TypeOK, IdemRecord
  <2>3. call' = [call EXCEPT ![p] = c]
    BY <1>7 DEF ClaimReplay
  <2> HIDE DEF c
  <2> QED
    BY <1>4, <2>1, <2>2, <2>3
<1>8. CASE (MarkLost(p) \/ Query(p)) /\ ~Respond(p)
  <2>1. PICK v \in TerminalStatuses :
          call' = [call EXCEPT ![p].step = "complete", ![p].result = v]
    BY <1>8 DEF MarkLost, Query, TerminalStatuses
  <2> DEFINE c == [call[p] EXCEPT !.step = "complete", !.result = v]
  <2>2. ~At(p, "idle") /\ call[p] \in Call
    BY <1>1, <1>8 DEF MarkLost, Query, At
  <2>3. c \in Call /\ c.expected = call[p].expected /\ c.step # "claim"
    BY <2>2 DEF Call, Steps
  <2>4. call' = [call EXCEPT ![p] = c]
    BY <2>1
  <2> HIDE DEF c
  <2> QED
    BY <1>4, <2>2, <2>3, <2>4
<1>9. CASE MarkRunning(p)
  <2> DEFINE c == [call[p] EXCEPT !.step = "query"]
  <2>1. ~At(p, "idle") /\ call[p] \in Call
    BY <1>1, <1>9 DEF MarkRunning, At
  <2>2. c \in Call /\ c.expected = call[p].expected /\ c.step # "claim"
    BY <2>1 DEF Call, Steps
  <2>3. call' = [call EXCEPT ![p] = c]
    BY <1>9 DEF MarkRunning, Goto
  <2> HIDE DEF c
  <2> QED
    BY <1>4, <2>1, <2>2, <2>3
<1> QED
  BY <1>2, <1>3, <1>5, <1>6, <1>7, <1>8, <1>9
     DEF Still, ClaimRefused, CompleteConflict, Crash

\* The runs are where they were, and so is the row.
LEMMA SameRuns ==
  ASSUME RowMatchesRuns, UNCHANGED <<status, approval>>,
         \A r \in Runs : /\ runs'[r].approval = runs[r].approval
                         /\ runs[r].status \in Open <=> runs'[r].status \in Open
                         /\ \A s \in TerminalStatuses :
                              runs[r].status = s <=> runs'[r].status = s
  PROVE  RowMatchesRuns'
<1>1. RowShowsVerdict'
  BY DEF RowMatchesRuns, RowShowsVerdict, TerminalStatuses
<1>2. OpenRunIsLatest'
  BY DEF RowMatchesRuns, OpenRunIsLatest
<1> QED
  BY <1>1, <1>2 DEF RowMatchesRuns

LEMMA StillMatches ==
  ASSUME TypeOK, RowMatchesRuns, NEW p \in Callers, Still(p)
  PROVE  RowMatchesRuns'
<1>1. CASE MarkRunning(p)
  <2> DEFINE r == call[p].run
  <2>1. r \in Runs /\ runs[r].status = "CLAIMED"
    BY <1>1 DEF MarkRunning, At, HoldsRun, TypeOK
  <2>2. runs'[r].status = "RUNNING" /\ runs'[r].approval = runs[r].approval
    BY <1>1, <2>1 DEF MarkRunning, TypeOK, RunRow
  <2>3. \A s \in Runs : s # r => runs'[s] = runs[s]
    BY <1>1 DEF MarkRunning, TypeOK
  <2>4. UNCHANGED <<status, approval>>
    BY <1>1 DEF MarkRunning, rowVars
  <2> QED
    BY <2>1, <2>2, <2>3, <2>4, SameRuns DEF Open, TerminalStatuses
<1>2. CASE UNCHANGED durableVars
  BY <1>2, SameRuns DEF durableVars
<1> QED
  BY <1>1, <1>2 DEF Still, Submit, Lookup, Read, ClaimReplay, ClaimRefused, MarkLost, Query,
     CompleteConflict, Crash

LEMMA RowStep ==
  ASSUME TypeOK, VerdictDiscipline, ~Pipelined, AllInformed, RowMatchesRuns, [Next]_vars
  PROVE  AllInformed' /\ RowMatchesRuns'
<1>1. ASSUME NEW p \in Callers, Still(p) PROVE AllInformed' /\ RowMatchesRuns'
  BY <1>1, StillInforms, StillMatches
<1>2. ASSUME NEW p \in Callers, ClaimNew(p) PROVE AllInformed' /\ RowMatchesRuns'
  <2>1. PICK r \in Runs :
          /\ runs[r].status = "ABSENT"
          /\ runs' = [runs EXCEPT ![r] =
                        [status |-> "CLAIMED", approval |-> call[p].approval,
                         expired |-> FALSE]]
          /\ call' = [call EXCEPT ![p].step = "mark", ![p].run = r,
                                  ![p].seen = version + 1]
    BY <1>2 DEF ClaimNew
  <2>2. \A s \in Runs : runs[s].status = "ABSENT"
    BY <1>2 DEF ClaimNew, ClaimAllowed, NoBlockingRun, BlockingStatuses, TypeOK, RunRow
  <2>3. call[p].approval = approval /\ status' = "VALIDATING" /\ approval' = approval
    BY <1>2 DEF ClaimNew, ClaimAllowed, AllInformed, Informed, At
  <2>4. /\ runs'[r].status = "CLAIMED" /\ runs'[r].approval = approval
        /\ \A s \in Runs : s # r => runs'[s].status = "ABSENT"
    BY <2>1, <2>2, <2>3 DEF TypeOK
  <2>5. RowMatchesRuns'
    BY <2>3, <2>4 DEF RowMatchesRuns, RowShowsVerdict, OpenRunIsLatest, Open
  <2>6. \A q \in Callers : q # p => call'[q] = call[q]
    BY <2>1 DEF TypeOK
  <2>7. /\ call'[p].step # "claim" /\ call[p].step # "idle"
        /\ call'[p].expected = call[p].expected
    BY <1>2, <2>1 DEF ClaimNew, At, TypeOK, Call
  <2>8. version' = version + 1
    BY <1>2 DEF ClaimNew, Bump
  <2> QED
    BY <2>5, <2>6, <2>7, <2>8, BumpInforms
<1>3. ASSUME NEW p \in Callers, Complete(p) PROVE AllInformed' /\ RowMatchesRuns'
  <2> DEFINE r == call[p].run
             v == call[p].result
  <2>1. r \in Runs /\ runs[r].status = "RUNNING" /\ v \in TerminalStatuses
    BY <1>3 DEF Complete, MayComplete, At, HoldsRun, TypeOK, Call
  <2>2. \A s \in Runs : s # r => runs[s].status = "ABSENT" /\ runs'[s] = runs[s]
    BY <1>3, <2>1 DEF Complete, VerdictDiscipline, OneRun, TypeOK
  <2>3. runs'[r].status = v /\ status' = StatusAfter(v) /\ approval' = approval
    BY <1>3, <2>1 DEF Complete, TypeOK, RunRow
  <2> HIDE DEF r, v
  <2>4. RowMatchesRuns'
    BY <2>1, <2>2, <2>3 DEF RowMatchesRuns, RowShowsVerdict, OpenRunIsLatest, Open,
       StatusAfter, TerminalStatuses
  <2>5. /\ call'[p].step = "idle" /\ \A q \in Callers : q # p => call'[q] = call[q]
        /\ version' = version + 1
    BY <1>3 DEF Complete, Respond, IdleCall, TypeOK, Bump
  <2> QED
    BY <2>4, <2>5, BumpInforms
<1>4. ASSUME NEW r \in Runs, Expire(r) PROVE AllInformed' /\ RowMatchesRuns'
  <2>1. \A s \in Runs : runs'[s].status = runs[s].status /\ runs'[s].approval = runs[s].approval
    BY <1>4 DEF Expire, TypeOK, RunRow
  <2>2. UNCHANGED <<status, version, approval, call>>
    BY <1>4 DEF Expire, rowVars
  <2>3. RowMatchesRuns'
    BY <2>1, <2>2, SameRuns
  <2> QED
    BY <2>2, <2>3 DEF AllInformed, Informed
<1>5. CASE Others
  <2>1. version' = version + 1 /\ call' = call /\ runs' = runs
    BY <1>5 DEF Others, Transition, AppendApproval, AppendOther, RecordCleanup, Bump
  <2>2. AllInformed'
    BY <2>1, BumpInforms
  <2>3. CASE \E t \in Statuses : Transition(t)
    <3>1. PICK t \in Statuses : Transition(t)
      BY <2>3
    <3>2. /\ status' = t /\ approval' = approval /\ t \notin ManagedStatuses
          /\ status \notin {"STAGING", "EXECUTING", "VALIDATING"}
          /\ t = status \/ t \in AllowedTransitions[status]
      BY <3>1 DEF Transition, MayRequest
    <3>3. t # status
      BY <3>1 DEF Transition
    <3>4. status \notin {"VALIDATED", "VALIDATION_REVIEW_REQUIRED"}
      BY <3>2, <3>3 DEF AllowedTransitions, Statuses
    <3>5. t \notin {"VALIDATING", "VALIDATED", "VALIDATION_REVIEW_REQUIRED"}
      BY <3>2 DEF ManagedStatuses
    <3> QED
      BY <2>1, <2>2, <3>2, <3>4, <3>5 DEF RowMatchesRuns, RowShowsVerdict, OpenRunIsLatest
  <2>4. CASE AppendApproval
    <3>1. status' = status /\ status # "VALIDATING"
      BY <2>4 DEF AppendApproval, CanAppend, MayAppend
    <3> QED
      BY <2>1, <2>2, <3>1 DEF RowMatchesRuns, RowShowsVerdict, OpenRunIsLatest
  <2>5. CASE AppendOther \/ RecordCleanup
    <3>1. UNCHANGED <<status, approval>>
      BY <2>5 DEF AppendOther, RecordCleanup
    <3> QED
      BY <2>1, <2>2, <3>1, SameRuns
  <2> QED
    BY <1>5, <2>3, <2>4, <2>5 DEF Others
<1>6. CASE UNCHANGED vars
  BY <1>6, SameRuns DEF vars, AllInformed, Informed
<1> QED
  BY <1>1, <1>2, <1>3, <1>4, <1>5, <1>6 DEF Next, Faultless, Faults, Validate, Still

\* The row and the runs are never out of step: VALIDATING is shown exactly while the
\* run is open, VALIDATED only for a run that passed, and an open run judges by the
\* latest approval, for every set of callers, keys and runs.
THEOREM RowShowsRuns == ~Pipelined => (Spec => []RowMatchesRuns)
<1> SUFFICES ASSUME ~Pipelined PROVE Spec => []RowMatchesRuns
  OBVIOUS
<1>1. Init => AllInformed /\ RowMatchesRuns
  BY DEF Init, AllInformed, Informed, IdleCall, RowMatchesRuns, RowShowsVerdict,
     OpenRunIsLatest, NoRow, Open
<1>2. TypeOK /\ VerdictDiscipline /\ AllInformed /\ RowMatchesRuns /\ [Next]_vars
        => AllInformed' /\ RowMatchesRuns'
  BY RowStep
<1> QED
  BY <1>1, <1>2, TypeCorrect, VerdictIsDisciplined, PTL DEF Spec
=============================================================================
