----------------------- MODULE WorkflowCommandsProofs -----------------------
(***************************************************************************)
(* The safety of WorkflowCommands for every set of callers and keys: the   *)
(* types, with and without pipelining clients; with them that commands     *)
(* implement CommandLog; and, for clients that name only versions they     *)
(* were told of, CommandDiscipline and what follows from it.               *)
(***************************************************************************)
EXTENDS WorkflowCommands, TLAPS

----------------------------------------------------------------------------
(* Types *)

\* A request names a status where it asks for one, a kind where it records one.
WellFormed(r) ==
  /\ r.op = "transition" => r.what \in Statuses
  /\ r.op = "append" => r.what \in AppendKinds
  /\ r.op = "discover" => r.what \in {"SOURCE_DISCOVERY", "TARGET_DISCOVERY"}

\* What a call must be, its types apart.
Proper(c) == WellFormed(c.req) /\ (c.step # "idle" => c.key \in Keys)

CallsTyped ==
  /\ call \in [Callers -> Call]
  /\ \A p \in Callers : Proper(call[p])

RecordsTyped ==
  /\ idem \in [Scopes -> [Keys -> IdemRecord]]
  /\ \A s \in Scopes, k \in Keys : WellFormed(idem[s][k].asked)

RowTyped ==
  /\ start \in Nat
  /\ row \in [status : Statuses, version : Nat \ {0}]
  /\ artifacts \in Seq(Artifact)
  /\ events \in Seq(Event)

\* The inductive strengthening of TypeOK.
TypeInv == RowTyped /\ CallsTyped /\ RecordsTyped

LEMMA NoRequestType == NoRequest \in Request /\ WellFormed(NoRequest)
  BY DEF NoRequest, Request, WellFormed, Ops, Statuses, Names

LEMMA IdleCallType == IdleCall \in Call /\ Proper(IdleCall) /\ IdleCall.step = "idle"
  BY NoRequestType DEF IdleCall, Call, Proper, Steps, Statuses, Names

LEMMA NoRecordType ==
  NoRecord \in IdemRecord /\ WellFormed(NoRecord.asked) /\ NoRecord.result = 0
  BY NoRequestType DEF NoRecord, IdemRecord, Digest, Names

\* The workflows the calls may find are well typed.
LEMMA FoundTyped ==
  /\ Created \in Seq(Event) /\ Discovered \in Seq(Event)
  /\ Approved \in Seq(Event) /\ Staged \in Seq(Event)
  /\ Discoveries \in Seq(Artifact) /\ Reviews \in Seq(Artifact)
  <1>1. Created \in Seq(Event)
    BY DEF Created, Event, Statuses
  <1>2. Discovered \in Seq(Event)
    BY <1>1 DEF Discovered, Event, Statuses
  <1>3. Approved \in Seq(Event)
    BY <1>2 DEF Approved, Event, Statuses
  <1>4. Staged \in Seq(Event)
    BY <1>3 DEF Staged, Event, Statuses
  <1>5. Discoveries \in Seq(Artifact)
    BY DEF Discoveries, Artifact, Kinds
  <1>6. Reviews \in Seq(Artifact)
    BY <1>5 DEF Reviews, Artifact, Kinds
  <1> QED
    BY <1>1, <1>2, <1>3, <1>4, <1>5, <1>6

LEMMA InitAtTyped ==
  ASSUME NEW s \in Statuses, NEW v \in Nat \ {0}, NEW added \in Seq(Artifact),
         NEW es \in Seq(Event), InitAt(s, v, added, es)
  PROVE  RowTyped
  BY DEF InitAt, RowTyped

LEMMA InitTyped == Init => TypeInv
  <1> SUFFICES ASSUME Init PROVE TypeInv
    OBVIOUS
  <1>1. RowTyped
    <2> DEFINE stagedAs ==
          Append(Reviews, [kind |-> "STAGING_LOAD_EVIDENCE", of |-> {4}])
    <2>a. /\ "DRAFT" \in Statuses /\ "DISCOVERED" \in Statuses
          /\ "MAPPING_APPROVED" \in Statuses /\ "STAGED" \in Statuses
      BY DEF Statuses
    <2>b. 1 \in Nat \ {0} /\ 3 \in Nat \ {0} /\ 5 \in Nat \ {0} /\ 7 \in Nat \ {0}
      OBVIOUS
    <2>c. <<>> \in Seq(Artifact) /\ stagedAs \in Seq(Artifact)
      <3>1. [kind |-> "STAGING_LOAD_EVIDENCE", of |-> {4}] \in Artifact
        BY DEF Artifact, Kinds
      <3> QED
        BY <3>1, FoundTyped
    <2> HIDE DEF stagedAs
    <2>1. CASE InitAt("DRAFT", 1, <<>>, Created)
      BY <2>1, <2>a, <2>b, <2>c, FoundTyped, InitAtTyped
    <2>2. CASE InitAt("DISCOVERED", 3, Discoveries, Discovered)
      BY <2>2, <2>a, <2>b, <2>c, FoundTyped, InitAtTyped
    <2>3. CASE InitAt("MAPPING_APPROVED", 5, Reviews, Approved)
      BY <2>3, <2>a, <2>b, <2>c, FoundTyped, InitAtTyped
    <2>4. CASE InitAt("STAGED", 7, stagedAs, Staged)
      BY <2>4, <2>a, <2>b, <2>c, FoundTyped, InitAtTyped
    <2> QED
      BY <2>1, <2>2, <2>3, <2>4 DEF Init, stagedAs
  <1>2. CallsTyped
    BY IdleCallType DEF Init, CallsTyped
  <1>3. RecordsTyped
    BY NoRecordType DEF Init, RecordsTyped
  <1> QED
    BY <1>1, <1>2, <1>3 DEF TypeInv

----------------------------------------------------------------------------
(* A call that moves and leaves the durable state alone *)

\* Call p becomes c.
Becomes(p, c) == call' = [call EXCEPT ![p] = c]

LEMMA BecomesType ==
  ASSUME CallsTyped, NEW p \in Callers, NEW c \in Call, Proper(c), Becomes(p, c)
  PROVE  CallsTyped'
  BY DEF CallsTyped, Becomes, Proper, WellFormed

LEMMA RespondType ==
  ASSUME CallsTyped, NEW p \in Callers, Respond(p)
  PROVE  CallsTyped'
  BY IdleCallType, BecomesType DEF Respond, Becomes

\* The call as it is at Start.
Started(req, k) ==
  [IdleCall EXCEPT !.step = IF Planning(req) THEN "inputs" ELSE "commit",
                   !.req = req,
                   !.key = k,
                   !.seen = row.status,
                   !.current = (req.expected = row.version),
                   !.number = IF req.op = "append" THEN Len(artifacts) + 1 ELSE 0]

LEMMA StartedType ==
  ASSUME RowTyped, NEW req \in Request, WellFormed(req), NEW k \in Keys
  PROVE  /\ Started(req, k) \in Call /\ Proper(Started(req, k))
         /\ Started(req, k).req = req
  <1>1. /\ row.status \in Statuses /\ (req.expected = row.version) \in BOOLEAN
        /\ (IF req.op = "append" THEN Len(artifacts) + 1 ELSE 0) \in Nat
        /\ (IF Planning(req) THEN "inputs" ELSE "commit") \in Steps
    BY DEF RowTyped, Steps
  <1> QED
    BY <1>1, IdleCallType DEF Started, Call, Proper

\* Whatever a client asks for is well formed.
LEMMA AsksType ==
  ASSUME RowTyped, NEW a \in Asks, NEW e \in Nat
  PROVE  LET r == [a EXCEPT !.expected = e]
         IN  r \in Request /\ WellFormed(r) /\ r.expected = e
  <1>1. a \in Request /\ WellFormed(a)
    <2>1. Numbered(artifacts, "MAPPING_PLAN") \subseteq Nat
      BY DEF Numbered, RowTyped
    <2>2. Numbered(artifacts, "APPROVED_MAPPING_PLAN") \subseteq Nat
      BY DEF Numbered, RowTyped
    <2>3. {"SOURCE_DISCOVERY", "TARGET_DISCOVERY"} \subseteq Kinds /\ "DRAFT" \in Statuses
      BY DEF Kinds, Statuses
    <2>4. CASE a \in [op : {"transition"}, what : Asked, no : {0}, names : {"omitted"},
                     expected : {0}]
      BY <2>4, ConstantsAssumption DEF Request, WellFormed, Ops, Names
    <2>5. CASE a \in [op : {"append"}, what : AppendKinds, no : {0}, names : {"omitted"},
                     expected : {0}]
      BY <2>5, KindsAssumption DEF Request, WellFormed, Ops, Names
    <2>6. CASE a \in [op : {"discover"}, what : {"SOURCE_DISCOVERY", "TARGET_DISCOVERY"},
                     no : {0}, names : {"omitted"}, expected : {0}]
      BY <2>6, <2>3 DEF Request, WellFormed, Ops, Names
    <2>7. CASE a \in [op : {"generate"}, what : {"DRAFT"}, no : {0}, names : {"omitted"},
                     expected : {0}]
      BY <2>7, <2>3 DEF Request, WellFormed, Ops, Names
    <2>8. CASE \/ a \in [op : {"approve"}, what : {"DRAFT"}, no : Reviewed,
                        names : {"omitted"}, expected : {0}]
               \/ a \in [op : {"preview"}, what : {"DRAFT"}, no : Reviewed,
                        names : Names, expected : {0}]
      BY <2>8, <2>1, <2>2, <2>3 DEF Request, WellFormed, Ops, Names, Reviewed
    <2> QED
      BY <2>4, <2>5, <2>6, <2>7, <2>8 DEF Asks
  <1> QED
    BY <1>1 DEF Request, WellFormed

\* The call moves on: what it was asked, its key and its row stay, and the rest
\* is well typed.
LEMMA OnwardType ==
  ASSUME CallsTyped, NEW p \in Callers, ~At(p, "idle"), NEW s \in Steps,
         NEW seen \in Statuses, NEW inputs \in SUBSET Nat, NEW names \in Names,
         NEW to \in Statuses \cup {"NONE"}, NEW number \in Nat
  PROVE  LET c == [call[p] EXCEPT !.step = s, !.seen = seen, !.inputs = inputs,
                                  !.names = names, !.to = to, !.number = number]
         IN  c \in Call /\ Proper(c)
  BY DEF CallsTyped, Proper, Call, At

\* Why a call may go on: nothing it has read has changed, if the row has not.
Holds(c) ==
  c.step # "idle" =>
    c.req.expected <= row.version /\ (c.req.expected = row.version => UpToDate(c))

\* Records speak of versions that are gone.
RecordsOld ==
  \A s \in Scopes, k \in Keys : Recorded(s, k) => idem[s][k].asked.expected < row.version

\* The call of p moves, well typed; and to where CommandDiscipline wants it, if
\* it was there before and clients do not pipeline.
Quiet(p) ==
  \E c \in Call :
    /\ Proper(c) /\ Becomes(p, c)
    /\ ~Pipelined /\ CommandDiscipline => Holds(c)

LEMMA DisciplineParts ==
  CommandDiscipline <=> (\A p \in Callers : Holds(call[p])) /\ RecordsOld
  BY DEF CommandDiscipline, Holds, RecordsOld, At

LEMMA RespondQuiet ==
  ASSUME NEW p \in Callers, Respond(p)
  PROVE  Quiet(p)
  BY IdleCallType DEF Respond, Quiet, Becomes, Holds

LEMMA StartQuiet ==
  ASSUME TypeInv, NEW p \in Callers, NEW req \in Request, WellFormed(req), NEW k \in Keys,
         Start(p, req, k),
         ~Pipelined /\ CommandDiscipline => req.expected <= row.version
  PROVE  Quiet(p)
  <1> DEFINE c == Started(req, k)
  <1>1. c \in Call /\ Proper(c) /\ c.req = req
    BY StartedType DEF TypeInv
  <1>2. Becomes(p, c)
    BY DEF Start, Becomes, Started
  <1>3. ASSUME req.expected = row.version
        PROVE  UpToDate(c)
    <2>1. /\ c.step = IF Planning(req) THEN "inputs" ELSE "commit"
          /\ c.seen = row.status /\ c.current = TRUE /\ c.to = "NONE"
      BY <1>3 DEF Started, IdleCall
    <2>2. /\ req.op = "transition" => MayRequest(row.status, req.what)
          /\ Planning(req) => row.status \in NeededBy(req)
      BY <1>3 DEF Start, Admits, Planning
    <2> HIDE DEF c
    <2> QED
      BY <1>1, <2>1, <2>2 DEF UpToDate, Planning
  <1> QED
    BY <1>1, <1>2, <1>3 DEF Quiet, Holds

LEMMA SubmitQuiet ==
  ASSUME TypeInv, NEW p \in Callers, Submit(p)
  PROVE  Quiet(p)
  <1>1. PICK k \in Keys :
          \/ \E a \in Asks, e \in {row.version} \cup (IF Pipelined THEN {row.version + 1} ELSE {}) :
               Start(p, [a EXCEPT !.expected = e], k)
          \/ \E s \in Scopes : Recorded(s, k) /\ Start(p, idem[s][k].asked, k)
    BY DEF Submit
  <1>2. CASE \E s \in Scopes : Recorded(s, k) /\ Start(p, idem[s][k].asked, k)
    <2>1. PICK s \in Scopes : Recorded(s, k) /\ Start(p, idem[s][k].asked, k)
      BY <1>2
    <2>2. idem[s][k].asked \in Request /\ WellFormed(idem[s][k].asked)
      BY DEF TypeInv, RecordsTyped, IdemRecord
    <2>3. CommandDiscipline => idem[s][k].asked.expected <= row.version
      BY <2>1, <2>2, DisciplineParts DEF RecordsOld, Request, TypeInv, RowTyped
    <2> QED
      BY <2>1, <2>2, <2>3, StartQuiet
  <1>3. CASE \E a \in Asks, e \in {row.version} \cup (IF Pipelined THEN {row.version + 1} ELSE {}) :
               Start(p, [a EXCEPT !.expected = e], k)
    <2>1. PICK a \in Asks, e \in {row.version} \cup (IF Pipelined THEN {row.version + 1} ELSE {}) :
               Start(p, [a EXCEPT !.expected = e], k)
      BY <1>3
    <2> DEFINE r == [a EXCEPT !.expected = e]
    <2>2. e \in Nat /\ (~Pipelined => e <= row.version)
      BY DEF TypeInv, RowTyped
    <2>3. r \in Request /\ WellFormed(r) /\ r.expected = e
      BY <2>2, AsksType DEF TypeInv
    <2>4. Start(p, r, k)
      BY <2>1
    <2> HIDE DEF r
    <2> QED
      BY <2>2, <2>3, <2>4, StartQuiet
  <1> QED
    BY <1>1, <1>2, <1>3

----------------------------------------------------------------------------
(* The reads of a planning command *)

\* One step of an input: the call goes on with what it read.
Onward(p, s, inputs, names, to) ==
  [call[p] EXCEPT !.step = s, !.seen = call[p].seen, !.inputs = inputs,
                  !.names = names, !.to = to, !.number = call[p].number]

\* What the call holds after an input, and that it may hold it.
LEMMA OnwardQuiet ==
  ASSUME TypeInv, NEW p \in Callers, ~At(p, "idle"), NEW s \in Steps,
         NEW inputs \in SUBSET Nat, NEW names \in Names,
         NEW to \in Statuses \cup {"NONE"},
         Becomes(p, Onward(p, s, inputs, names, to)),
         UpToDate(call[p]) => UpToDate(Onward(p, s, inputs, names, to))
  PROVE  Quiet(p)
  <1> DEFINE c == Onward(p, s, inputs, names, to)
  <1>1. call[p] \in Call
    BY DEF TypeInv, CallsTyped
  <1>2. c \in Call /\ Proper(c)
    <2>1. CallsTyped /\ call[p].seen \in Statuses /\ call[p].number \in Nat
      BY <1>1 DEF TypeInv, Call
    <2> QED
      BY <2>1, OnwardType DEF Onward
  <1>3. c.req = call[p].req
    BY <1>1 DEF Onward, Call
  <1>4. CommandDiscipline => Holds(call[p])
    BY DisciplineParts
  <1>5. Holds(call[p]) => Holds(c)
    BY <1>3 DEF Holds, At
  <1> QED
    BY <1>2, <1>4, <1>5 DEF Quiet

LEMMA DiscoverQuiet ==
  ASSUME TypeInv, NEW p \in Callers, Discover(p)
  PROVE  Quiet(p)
  <1> DEFINE to == IF Present(Counterpart(call[p].req.what)) THEN "DISCOVERED" ELSE "NONE"
             c == Onward(p, "reread", call[p].inputs, call[p].names, to)
  <1>1. call[p] \in Call /\ ~At(p, "idle") /\ call[p].req.op = "discover"
    BY DEF TypeInv, CallsTyped, Discover, At, Op
  <1>2. to \in Statuses \cup {"NONE"} /\ "reread" \in Steps
    BY DEF Statuses, Steps
  <1>3. Becomes(p, c)
    BY <1>1 DEF Discover, Becomes, Onward, Call
  <1>4. UpToDate(call[p]) => UpToDate(c)
    <2>1. /\ c.step = "reread" /\ c.to = to /\ c.req = call[p].req
          /\ c.seen = call[p].seen /\ c.current = call[p].current
      BY <1>1 DEF Onward, Call
    <2> HIDE DEF c
    <2> QED
      BY <1>1, <2>1 DEF UpToDate, Planning
  <1> QED
    BY <1>1, <1>2, <1>3, <1>4, OnwardQuiet DEF Call

LEMMA ReadSourceQuiet ==
  ASSUME TypeInv, NEW p \in Callers, ReadSource(p)
  PROVE  Quiet(p)
  <1>1. PICK n \in DOMAIN artifacts :
          /\ Latest(n, "SOURCE_DISCOVERY")
          /\ call' = [call EXCEPT ![p].step = "inputs2", ![p].inputs = {n}]
    BY DEF ReadSource
  <1> DEFINE c == Onward(p, "inputs2", {n}, call[p].names, call[p].to)
  <1>2. call[p] \in Call /\ ~At(p, "idle") /\ call[p].req.op = "generate"
    BY DEF TypeInv, CallsTyped, ReadSource, At, Op
  <1>3. "inputs2" \in Steps /\ n \in Nat
    BY DEF Steps, TypeInv, RowTyped
  <1>4. Becomes(p, c)
    BY <1>1, <1>2 DEF Becomes, Onward, Call
  <1>5. UpToDate(call[p]) => UpToDate(c)
    <2>1. /\ c.step = "inputs2" /\ c.inputs = {n} /\ c.req = call[p].req
          /\ c.seen = call[p].seen /\ c.current = call[p].current
      BY <1>2 DEF Onward, Call
    <2> HIDE DEF c
    <2> QED
      BY <1>1, <1>2, <2>1 DEF UpToDate, Planning
  <1> QED
    BY <1>2, <1>3, <1>4, <1>5, OnwardQuiet DEF Call

LEMMA ReadTargetQuiet ==
  ASSUME TypeInv, NEW p \in Callers, ReadTarget(p)
  PROVE  Quiet(p)
  <1>1. PICK n \in DOMAIN artifacts :
          /\ Latest(n, "TARGET_DISCOVERY")
          /\ call' = [call EXCEPT ![p].step = "reread", ![p].inputs = @ \cup {n},
                                  ![p].to = "MAPPING_PROPOSED"]
    BY DEF ReadTarget
  <1> DEFINE inputs == call[p].inputs \cup {n}
             c == Onward(p, "reread", inputs, call[p].names, "MAPPING_PROPOSED")
  <1>2. /\ call[p] \in Call /\ ~At(p, "idle") /\ call[p].req.op = "generate"
        /\ call[p].step = "inputs2"
    BY DEF TypeInv, CallsTyped, ReadTarget, At, Op
  <1>3. "reread" \in Steps /\ inputs \in SUBSET Nat /\ "MAPPING_PROPOSED" \in Statuses
    BY <1>2 DEF Steps, TypeInv, RowTyped, Call, Statuses
  <1>4. Becomes(p, c)
    BY <1>1, <1>2 DEF Becomes, Onward, Call
  <1>5. UpToDate(call[p]) => UpToDate(c)
    <2>1. /\ c.step = "reread" /\ c.inputs = call[p].inputs \cup {n} /\ c.req = call[p].req
          /\ c.seen = call[p].seen /\ c.current = call[p].current
      BY <1>2 DEF Onward, Call
    <2> HIDE DEF c
    <2> SUFFICES ASSUME UpToDate(call[p]) PROVE UpToDate(c)
      OBVIOUS
    <2>2. PICK s \in DOMAIN artifacts : call[p].inputs = {s} /\ Latest(s, "SOURCE_DISCOVERY")
      BY <1>2 DEF UpToDate
    <2>3. c.inputs = {s, n} /\ Latest(s, "SOURCE_DISCOVERY") /\ Latest(n, "TARGET_DISCOVERY")
      BY <1>1, <2>1, <2>2
    <2> QED
      BY <1>2, <2>1, <2>3 DEF UpToDate, Planning
  <1> QED
    BY <1>2, <1>3, <1>4, <1>5, OnwardQuiet DEF Call

LEMMA ReadProposalQuiet ==
  ASSUME TypeInv, NEW p \in Callers, ReadProposal(p)
  PROVE  Quiet(p)
  <1> DEFINE n == call[p].req.no
             c == Onward(p, "inputs2", {n}, call[p].names, call[p].to)
  <1>1. call[p] \in Call /\ ~At(p, "idle") /\ call[p].req.op = "approve"
    BY DEF TypeInv, CallsTyped, ReadProposal, At, Op
  <1>2. "inputs2" \in Steps /\ n \in Nat
    BY <1>1 DEF Steps, Call, Request
  <1>3. Becomes(p, c)
    BY <1>1 DEF ReadProposal, Becomes, Onward, Call
  <1>4. UpToDate(call[p]) => UpToDate(c)
    <2>1. /\ c.step = "inputs2" /\ c.inputs = {n} /\ c.req = call[p].req
          /\ c.seen = call[p].seen /\ c.current = call[p].current
      BY <1>1 DEF Onward, Call
    <2>2. call[p].current => Latest(n, "MAPPING_PLAN") /\ n \in DOMAIN artifacts
      BY DEF ReadProposal, RefersTo, Current, Numbered
    <2> HIDE DEF c, n
    <2> QED
      BY <1>1, <2>1, <2>2 DEF UpToDate, Planning
  <1> QED
    BY <1>1, <1>2, <1>3, <1>4, OnwardQuiet DEF Call

LEMMA DecideQuiet ==
  ASSUME TypeInv, NEW p \in Callers, Decide(p)
  PROVE  Quiet(p)
  <1> DEFINE c == Onward(p, "reread", call[p].inputs, call[p].names, "MAPPING_APPROVED")
  <1>1. /\ call[p] \in Call /\ ~At(p, "idle") /\ call[p].req.op = "approve"
        /\ call[p].step = "inputs2"
    BY DEF TypeInv, CallsTyped, Decide, At, Op
  <1>2. "reread" \in Steps /\ "MAPPING_APPROVED" \in Statuses
    BY DEF Steps, Statuses
  <1>3. Becomes(p, c)
    BY <1>1 DEF Decide, Becomes, Onward, Call
  <1>4. UpToDate(call[p]) => UpToDate(c)
    <2>1. /\ c.step = "reread" /\ c.inputs = call[p].inputs /\ c.req = call[p].req
          /\ c.seen = call[p].seen /\ c.current = call[p].current
      BY <1>1 DEF Onward, Call
    <2> HIDE DEF c
    <2> QED
      BY <1>1, <2>1 DEF UpToDate, Planning
  <1> QED
    BY <1>1, <1>2, <1>3, <1>4, OnwardQuiet DEF Call

LEMMA ReadApprovalQuiet ==
  ASSUME TypeInv, NEW p \in Callers, ReadApproval(p)
  PROVE  Quiet(p)
  <1> DEFINE n == call[p].req.no
             c == Onward(p, "inputs2", {n}, call[p].names, call[p].to)
  <1>1. call[p] \in Call /\ ~At(p, "idle") /\ call[p].req.op = "preview"
    BY DEF TypeInv, CallsTyped, ReadApproval, At, Op
  <1>2. "inputs2" \in Steps /\ n \in Nat
    BY <1>1 DEF Steps, Call, Request
  <1>3. Becomes(p, c)
    BY <1>1 DEF ReadApproval, Becomes, Onward, Call
  <1>4. UpToDate(call[p]) => UpToDate(c)
    <2>1. /\ c.step = "inputs2" /\ c.inputs = {n} /\ c.req = call[p].req
          /\ c.seen = call[p].seen /\ c.current = call[p].current
      BY <1>1 DEF Onward, Call
    <2>2. call[p].current => Latest(call[p].req.no, "APPROVED_MAPPING_PLAN")
      BY DEF ReadApproval, RefersTo, Current
    <2> HIDE DEF c
    <2> QED
      BY <1>1, <2>1, <2>2 DEF UpToDate, Planning
  <1> QED
    BY <1>1, <1>2, <1>3, <1>4, OnwardQuiet DEF Call

LEMMA CompileQuiet ==
  ASSUME TypeInv, NEW p \in Callers, Compile(p)
  PROVE  Quiet(p)
  <1> DEFINE names == IF call[p].seen = "STAGED" THEN "managed" ELSE call[p].req.names
             c == Onward(p, "reread", call[p].inputs, names, "EXECUTION_READY")
  <1>1. /\ call[p] \in Call /\ ~At(p, "idle") /\ call[p].req.op = "preview"
        /\ call[p].step = "inputs2"
    BY DEF TypeInv, CallsTyped, Compile, At, Op
  <1>2. "reread" \in Steps /\ "EXECUTION_READY" \in Statuses /\ names \in Names
    BY <1>1 DEF Steps, Statuses, Names, Call, Request
  <1>3. Becomes(p, c)
    BY <1>1 DEF Compile, Becomes, Onward, Call
  <1>4. UpToDate(call[p]) => UpToDate(c)
    <2>1. /\ c.step = "reread" /\ c.inputs = call[p].inputs /\ c.req = call[p].req
          /\ c.seen = call[p].seen /\ c.current = call[p].current
      BY <1>1 DEF Onward, Call
    <2> HIDE DEF c
    <2> SUFFICES ASSUME UpToDate(call[p]) PROVE UpToDate(c)
      OBVIOUS
    <2>2. call[p].inputs = {call[p].req.no} /\ call[p].seen = row.status
      BY <1>1 DEF UpToDate
    <2>3. row.status = "STAGED" =>
            \E n \in DOMAIN artifacts :
              Latest(n, "STAGING_LOAD_EVIDENCE") /\ artifacts[n].of = c.inputs
      BY <2>1, <2>2 DEF Compile, Compiles, StagedFor
    <2> QED
      BY <1>1, <2>1, <2>3 DEF UpToDate, Planning
  <1> QED
    BY <1>1, <1>2, <1>3, <1>4, OnwardQuiet DEF Call

LEMMA InputsQuiet ==
  ASSUME TypeInv, NEW p \in Callers, Inputs(p)
  PROVE  Quiet(p)
  BY DiscoverQuiet, ReadSourceQuiet, ReadTargetQuiet, ReadProposalQuiet, DecideQuiet,
     ReadApprovalQuiet, CompileQuiet
  DEF Inputs

LEMMA RereadQuiet ==
  ASSUME TypeInv, NEW p \in Callers, Reread(p), MayGoOn(p)
  PROVE  Quiet(p)
  <1> DEFINE c == [call[p] EXCEPT !.step = "commit", !.seen = row.status,
                                  !.number = Len(artifacts) + 1]
  <1>1. call[p] \in Call /\ ~At(p, "idle") /\ call[p].step = "reread" /\ Proper(call[p])
    BY DEF TypeInv, CallsTyped, Reread, At
  <1>2. "commit" \in Steps /\ row.status \in Statuses /\ Len(artifacts) + 1 \in Nat
    BY DEF Steps, TypeInv, RowTyped
  <1>3. /\ c \in Call /\ c.req = call[p].req /\ c.key = call[p].key /\ c.step = "commit"
        /\ c.seen = row.status /\ c.to = call[p].to /\ c.inputs = call[p].inputs
        /\ c.current = call[p].current
    BY <1>1, <1>2 DEF Call
  <1>4. Becomes(p, c)
    BY DEF Reread, Becomes
  <1>5. call[p].req.expected = row.version =>
          call[p].to = "NONE" \/ call[p].to \in AllowedTransitions[row.status]
    BY DEF MayGoOn
  <1> HIDE DEF c
  <1>6. Proper(c)
    BY <1>1, <1>3 DEF Proper, At
  <1>7. CommandDiscipline => Holds(c)
    <2> SUFFICES ASSUME CommandDiscipline PROVE Holds(c)
      OBVIOUS
    <2>1. Holds(call[p])
      BY DisciplineParts
    <2>2. c.req.expected = row.version => UpToDate(c)
      BY <1>1, <1>3, <1>5, <2>1 DEF Holds, UpToDate, Planning
    <2> QED
      BY <1>1, <1>3, <2>1, <2>2 DEF Holds
  <1> QED
    BY <1>3, <1>4, <1>6, <1>7 DEF Quiet

\* A caller moves, nothing durable does: both invariants stay.
LEMMA UpToDateFrame ==
  ASSUME NEW c, UNCHANGED durable, UpToDate(c)
  PROVE  UpToDate(c)'
  BY DEF durable, UpToDate, Latest, IsLatestOf, Numbered, Present

LEMMA HoldsFrame ==
  ASSUME NEW c, UNCHANGED durable, Holds(c)
  PROVE  Holds(c)'
  BY UpToDateFrame DEF Holds, durable

LEMMA RecordsFrame ==
  ASSUME RecordsOld, UNCHANGED durable
  PROVE  RecordsOld'
  BY DEF RecordsOld, Recorded, durable

LEMMA QuietStep ==
  ASSUME TypeInv, NEW p \in Callers, Quiet(p), UNCHANGED durable
  PROVE  TypeInv' /\ (~Pipelined /\ CommandDiscipline => CommandDiscipline')
  <1>1. PICK c \in Call :
          /\ Proper(c) /\ Becomes(p, c)
          /\ ~Pipelined /\ CommandDiscipline => Holds(c)
    BY DEF Quiet
  <1>2. TypeInv'
    <2>1. CallsTyped'
      BY <1>1, BecomesType DEF TypeInv
    <2>2. RowTyped'
      BY DEF TypeInv, RowTyped, durable
    <2>3. RecordsTyped'
      BY DEF TypeInv, RecordsTyped, durable, WellFormed
    <2> QED
      BY <2>1, <2>2, <2>3 DEF TypeInv
  <1>3. ASSUME ~Pipelined, CommandDiscipline
        PROVE  CommandDiscipline'
    <2>1. \A q \in Callers : call'[q] = IF q = p THEN c ELSE call[q]
      BY <1>1 DEF Becomes, TypeInv, CallsTyped
    <2>2. ASSUME NEW q \in Callers PROVE Holds(call[q])'
      <3> DEFINE d == IF q = p THEN c ELSE call[q]
      <3>1. Holds(d)
        BY <1>1, <1>3, DisciplineParts
      <3>2. PICK e : e = d
        OBVIOUS
      <3>3. Holds(e)'
        BY <3>1, <3>2, HoldsFrame
      <3>4. call'[q] = e
        BY <2>1, <3>2
      <3> QED
        BY <3>3, <3>4 DEF Holds
    <2>3. RecordsOld'
      BY <1>3, DisciplineParts, RecordsFrame
    <2> QED
      BY <2>2, <2>3 DEF CommandDiscipline, Holds, RecordsOld, At
  <1> QED
    BY <1>2, <1>3

----------------------------------------------------------------------------
(* The steps that change the workflow *)

\* KindOf and ScopeOf name a kind and a scope.
LEMMA KindOfType ==
  ASSUME NEW r \in Request, WellFormed(r)
  PROVE  /\ r.op # "transition" => KindOf(r) \in Kinds
         /\ ScopeOf(r) \in Scopes
  <1>1. r.op \in Ops
    BY DEF Request
  <1>2. {"MAPPING_PLAN", "APPROVED_MAPPING_PLAN", "TRANSFORMATION_PREVIEW"} \subseteq Kinds
    BY DEF Kinds
  <1>3. r.op # "transition" => KindOf(r) \in Kinds
    BY <1>1, <1>2, KindsAssumption DEF KindOf, WellFormed, Ops, Kinds
  <1> QED
    BY <1>1, <1>3 DEF ScopeOf, Scopes

\* The record of a command.
LEMMA RecordType ==
  ASSUME TypeInv, NEW p \in Callers, At(p, "commit"), Record(p), artifacts' \in Seq(Artifact)
  PROVE  /\ RecordsTyped'
         /\ Scope(p) \in Scopes /\ call[p].key \in Keys
         /\ \A s \in Scopes, k \in Keys :
              \/ idem'[s][k] = idem[s][k]
              \/ idem'[s][k].asked = call[p].req
  <1> DEFINE r == [digest |-> DigestOf(call[p]), asked |-> call[p].req,
                   result |-> Len(artifacts') + 1]
  <1>1. call[p] \in Call /\ Proper(call[p]) /\ call[p].step # "idle"
    BY DEF TypeInv, CallsTyped, At
  <1>2. DigestOf(call[p]) \in Digest
    BY <1>1 DEF DigestOf, Digest, Call, Request, Names
  <1>3. r \in IdemRecord /\ WellFormed(r.asked) /\ r.asked = call[p].req
    BY <1>1, <1>2 DEF IdemRecord, Call, Proper
  <1>4. Scope(p) \in Scopes /\ call[p].key \in Keys
    BY <1>1, KindOfType DEF Scope, Proper, Call
  <1>5. idem' = [idem EXCEPT ![Scope(p)][call[p].key] = r]
    BY DEF Record
  <1> HIDE DEF r
  <1>6. /\ idem \in [Scopes -> [Keys -> IdemRecord]]
        /\ \A s \in Scopes, k \in Keys : WellFormed(idem[s][k].asked)
    BY DEF TypeInv, RecordsTyped
  <1>7. /\ idem' \in [Scopes -> [Keys -> IdemRecord]]
        /\ \A s \in Scopes, k \in Keys : idem'[s][k] \in {idem[s][k], r}
    BY <1>3, <1>4, <1>5, <1>6
  <1>8. \A s \in Scopes, k \in Keys : WellFormed(idem'[s][k].asked)
    BY <1>3, <1>6, <1>7
  <1> QED
    BY <1>3, <1>4, <1>7, <1>8 DEF RecordsTyped, WellFormed

LEMMA EvType ==
  ASSUME TypeInv, NEW s \in Statuses, NEW t \in Statuses
  PROVE  Ev(s, t) \in Event
  BY DEF Ev, Event, TypeInv, RowTyped

LEMMA CommitTransitionType ==
  ASSUME TypeInv, NEW p \in Callers, CommitTransition(p)
  PROVE  TypeInv'
  <1>1. call[p] \in Call /\ Proper(call[p]) /\ call[p].req.op = "transition"
    BY DEF TypeInv, CallsTyped, CommitTransition, Op
  <1>2. call[p].req.what \in Statuses /\ call[p].seen \in Statuses
    BY <1>1 DEF Proper, WellFormed, Call
  <1>3. RowTyped'
    <2>1. row' \in [status : Statuses, version : Nat \ {0}]
      BY <1>2 DEF CommitTransition, TypeInv, RowTyped
    <2>2. events' \in Seq(Event)
      BY <1>2, EvType DEF CommitTransition, TypeInv, RowTyped
    <2> QED
      BY <2>1, <2>2 DEF CommitTransition, TypeInv, RowTyped
  <1>4. RecordsTyped'
    BY <1>3, RecordType DEF CommitTransition, RowTyped
  <1>5. CallsTyped'
    BY RespondType DEF CommitTransition, TypeInv
  <1> QED
    BY <1>3, <1>4, <1>5 DEF TypeInv

LEMMA CommitArtifactType ==
  ASSUME TypeInv, NEW p \in Callers, CommitArtifact(p)
  PROVE  TypeInv'
  <1> DEFINE a == [kind |-> KindOf(call[p].req), of |-> call[p].inputs]
             es == <<Ev(call[p].seen, call[p].seen)>>
             fs == IF call[p].to = "NONE" THEN <<>> ELSE <<Ev(call[p].seen, call[p].to)>>
  <1>1. /\ call[p] \in Call /\ WellFormed(call[p].req) /\ call[p].req \in Request
        /\ call[p].req.op # "transition"
    BY DEF TypeInv, CallsTyped, CommitArtifact, Op, Call, Proper
  <1>2. a \in Artifact
    BY <1>1, KindOfType DEF Artifact, Call
  <1>3. artifacts' \in Seq(Artifact)
    <2>1. artifacts \in Seq(Artifact)
      BY DEF TypeInv, RowTyped
    <2>2. artifacts' = Append(artifacts, a)
      BY DEF CommitArtifact
    <2> QED
      BY <1>2, <2>1, <2>2
  <1>4. events' \in Seq(Event)
    <2>1. /\ call[p].seen \in Statuses
          /\ call[p].to # "NONE" => call[p].to \in Statuses
      BY <1>1 DEF Call
    <2>2. es \in Seq(Event)
      BY <2>1, EvType
    <2>3. fs \in Seq(Event)
      BY <2>1, EvType
    <2>4. events \in Seq(Event) /\ events' = events \o es \o fs
      BY DEF TypeInv, RowTyped, CommitArtifact
    <2> HIDE DEF es, fs
    <2> QED
      BY <2>2, <2>3, <2>4
  <1>5. row' \in [status : Statuses, version : Nat \ {0}] /\ start' \in Nat
    BY <1>1 DEF CommitArtifact, TypeInv, RowTyped, Call
  <1>6. RowTyped'
    BY <1>3, <1>4, <1>5 DEF RowTyped
  <1>7. RecordsTyped'
    BY <1>3, RecordType DEF CommitArtifact
  <1>8. CallsTyped'
    BY RespondType DEF CommitArtifact, TypeInv
  <1> QED
    BY <1>6, <1>7, <1>8 DEF TypeInv

LEMMA MoveType ==
  ASSUME TypeInv, NEW new \in Statuses, NEW added, added \in Seq(Artifact),
         Move(new, added)
  PROVE  TypeInv'
  <1>1. row.status \in Statuses /\ row.version \in Nat
    BY DEF TypeInv, RowTyped
  <1>2. events' \in Seq(Event)
    <2> DEFINE es == IF added = <<>> THEN <<>> ELSE <<Ev(row.status, row.status)>>
               fs == <<Ev(row.status, new)>>
    <2>0. Ev(row.status, row.status) \in Event /\ Ev(row.status, new) \in Event
      BY <1>1, EvType
    <2>1. es \in Seq(Event) /\ fs \in Seq(Event)
      <3>1. CASE added = <<>>
        BY <2>0, <3>1
      <3>2. CASE added # <<>>
        BY <2>0, <3>2
      <3> QED
        BY <3>1, <3>2
    <2>2. events \in Seq(Event) /\ events' = events \o es \o fs
      BY DEF TypeInv, RowTyped, Move
    <2> HIDE DEF es, fs
    <2> QED
      BY <2>1, <2>2
  <1>3. RowTyped'
    <2>1. row' \in [status : Statuses, version : Nat \ {0}] /\ start' \in Nat
      BY <1>1 DEF Move, TypeInv, RowTyped
    <2>2. artifacts' \in Seq(Artifact)
      <3>1. artifacts' = artifacts \o added /\ artifacts \in Seq(Artifact)
        BY DEF Move, TypeInv, RowTyped
      <3> QED
        BY <3>1
    <2> QED
      BY <1>2, <2>1, <2>2 DEF RowTyped
  <1>4. CallsTyped' /\ RecordsTyped'
    BY DEF Move, TypeInv, CallsTyped, RecordsTyped, Proper, WellFormed
  <1> QED
    BY <1>3, <1>4 DEF TypeInv

\* What an orchestrator does: one of the moves of the graph.
LEMMA OrchestratorMoves ==
  ASSUME TypeInv, Orchestrators
  PROVE  \E new \in AllowedTransitions[row.status], added \in Seq(Artifact) :
           /\ new \in Statuses
           /\ added = <<>> \/ \E x \in Artifact : added = <<x>>
           /\ Move(new, added)
  <1>0. <<>> \in Seq(Artifact)
    OBVIOUS
  <1>1. CASE ClaimStaging
    <2>1. "STAGING" \in AllowedTransitions[row.status] /\ "STAGING" \in Statuses
      BY <1>1 DEF ClaimStaging, AllowedTransitions, Statuses
    <2> QED
      BY <1>0, <1>1, <2>1 DEF ClaimStaging
  <1>2. CASE StagingLoaded
    <2>1. PICK n \in DOMAIN artifacts :
            Move("STAGED", <<[kind |-> "STAGING_LOAD_EVIDENCE", of |-> {n}]>>)
      BY <1>2 DEF StagingLoaded
    <2>2. [kind |-> "STAGING_LOAD_EVIDENCE", of |-> {n}] \in Artifact
      BY DEF Artifact, Kinds, TypeInv, RowTyped
    <2>3. "STAGED" \in AllowedTransitions[row.status] /\ "STAGED" \in Statuses
      BY <1>2 DEF StagingLoaded, AsClaimed, AllowedTransitions, Statuses
    <2> DEFINE added == <<[kind |-> "STAGING_LOAD_EVIDENCE", of |-> {n}]>>
    <2>4. added \in Seq(Artifact) /\ \E x \in Artifact : added = <<x>>
      BY <2>2
    <2>5. Move("STAGED", added)
      BY <2>1
    <2> HIDE DEF added
    <2> QED
      BY <2>3, <2>4, <2>5
  <1>3. CASE StagingFailed
    <2>1. PICK s \in {"MAPPING_APPROVED", "STAGING_RECOVERY_REQUIRED"} : Move(s, <<>>)
      BY <1>3 DEF StagingFailed
    <2>2. s \in AllowedTransitions[row.status] /\ s \in Statuses
      BY <1>3 DEF StagingFailed, AsClaimed, AllowedTransitions, Statuses
    <2> QED
      BY <1>0, <2>1, <2>2
  <1>4. CASE ClaimExecution
    <2>1. "EXECUTING" \in AllowedTransitions[row.status] /\ "EXECUTING" \in Statuses
      BY <1>4 DEF ClaimExecution, AllowedTransitions, Statuses
    <2> QED
      BY <1>0, <1>4, <2>1 DEF ClaimExecution
  <1> QED
    BY <1>1, <1>2, <1>3, <1>4 DEF Orchestrators

\* The steps of a caller that change nothing durable.
QuietSteps(p) ==
  Submit(p) \/ Inputs(p) \/ Reread(p) \/ CommitReplay(p) \/ Refused(p) \/ Crash(p)

LEMMA QuietSteps_Quiet ==
  ASSUME TypeInv, NEW p \in Callers, QuietSteps(p)
  PROVE  Quiet(p) /\ UNCHANGED durable
  <1>1. CASE Submit(p)
    BY <1>1, SubmitQuiet DEF Submit
  <1>2. CASE Inputs(p)
    BY <1>2, InputsQuiet
    DEF Inputs, Discover, ReadSource, ReadTarget, ReadProposal, Decide, ReadApproval, Compile
  <1>3. CASE Reread(p)
    BY <1>3, RereadQuiet, RespondQuiet DEF Reread
  <1>4. CASE CommitReplay(p) \/ Refused(p) \/ Crash(p)
    BY <1>4, RespondQuiet DEF CommitReplay, Refused, InputsRefused, CommitRefused,
       Crash
  <1> QED
    BY <1>1, <1>2, <1>3, <1>4 DEF QuietSteps

\* A step is quiet, commits a call, moves the workflow, or stutters.
LEMMA StepCases ==
  ASSUME [Next]_vars
  PROVE  \/ \E p \in Callers : QuietSteps(p)
         \/ \E p \in Callers : Commit(p)
         \/ Orchestrators
         \/ UNCHANGED vars
  BY DEF Next, QuietSteps

LEMMA NextTyped == TypeInv /\ [Next]_vars => TypeInv'
  <1> SUFFICES ASSUME TypeInv, [Next]_vars PROVE TypeInv'
    OBVIOUS
  <1>1. ASSUME NEW p \in Callers, QuietSteps(p) PROVE TypeInv'
    BY <1>1, QuietSteps_Quiet, QuietStep
  <1>2. ASSUME NEW p \in Callers, Commit(p) PROVE TypeInv'
    BY <1>2, CommitTransitionType, CommitArtifactType DEF Commit
  <1>3. CASE Orchestrators
    BY <1>3, OrchestratorMoves, MoveType
  <1>4. CASE UNCHANGED vars
    BY <1>4 DEF vars, TypeInv, RowTyped, CallsTyped, RecordsTyped, Proper, WellFormed
  <1> QED
    BY <1>1, <1>2, <1>3, <1>4, StepCases

LEMMA TypeInvAlways == Spec => []TypeInv
  <1> QED
    BY InitTyped, NextTyped, PTL DEF Spec

\* Every reachable state of the commands is well typed, however many callers and
\* keys there are.
THEOREM TypeCorrect == Spec => []TypeOK
  <1>1. TypeInv => TypeOK
    BY DEF TypeInv, RowTyped, CallsTyped, RecordsTyped, TypeOK
  <1> QED
    BY <1>1, TypeInvAlways, PTL

----------------------------------------------------------------------------
(* Commands take effect once *)

LEMMA LogInit == Init => Log!Init
  <1> SUFFICES ASSUME Init PROVE Log!Init
    OBVIOUS
  <1>1. TypeInv
    BY InitTyped
  <1>2. row.version \in Nat \ {0} /\ artifacts \in Seq(Artifact)
    BY <1>1 DEF TypeInv, RowTyped
  <1>3. \A c \in Scopes \X Keys : idem[c[1]][c[2]].result = 0
    BY NoRecordType DEF Init
  <1> QED
    BY <1>2, <1>3 DEF Log!Init

\* Appending is appending in the log.
LEMMA AppendAppends ==
  ASSUME NEW x \in Artifact, artifacts \in Seq(Artifact), artifacts' = Append(artifacts, x)
  PROVE  Log!Appended
  BY DEF Log!Appended

LEMMA RecordTakesEffect ==
  ASSUME TypeInv, NEW p \in Callers, At(p, "commit"), ~Known(p), Record(p),
         artifacts' \in Seq(Artifact), Log!Advance
  PROVE  \E c \in Scopes \X Keys : Log!TakeEffect(c)
  <1> DEFINE s == Scope(p)
             k == call[p].key
             res == [c \in Scopes \X Keys |-> idem[c[1]][c[2]].result]
  <1>1. s \in Scopes /\ k \in Keys
    BY RecordType
  <1>2. idem \in [Scopes -> [Keys -> IdemRecord]]
    BY DEF TypeInv, RecordsTyped
  <1>3. res[<<s, k>>] = 0
    BY <1>1, NoRecordType DEF Known, Recorded
  <1>4. ASSUME NEW c \in Scopes \X Keys
        PROVE  idem'[c[1]][c[2]].result =
                 IF c = <<s, k>> THEN Len(artifacts') + 1 ELSE idem[c[1]][c[2]].result
    BY <1>1, <1>2 DEF Record
  <1>5. res' = [res EXCEPT ![<<s, k>>] = Len(artifacts') + 1]
    BY <1>1, <1>4
  <1> QED
    BY <1>1, <1>3, <1>5 DEF Log!TakeEffect

LEMMA CommitLogged ==
  ASSUME TypeInv, NEW p \in Callers, Commit(p)
  PROVE  Log!Next
  <1>1. TypeInv'
    BY CommitTransitionType, CommitArtifactType DEF Commit
  <1>2. artifacts' \in Seq(Artifact) /\ artifacts \in Seq(Artifact)
    BY <1>1 DEF TypeInv, RowTyped
  <1>3. CASE CommitTransition(p)
    <2>1. Log!Advance
      BY <1>3 DEF CommitTransition, Log!Advance
    <2> QED
      BY <1>2, <1>3, <2>1, RecordTakesEffect DEF CommitTransition, MayTake, Log!Next
  <1>4. CASE CommitArtifact(p)
    <2> DEFINE a == [kind |-> KindOf(call[p].req), of |-> call[p].inputs]
    <2>1. a \in Artifact
      <3>1. /\ call[p] \in Call /\ WellFormed(call[p].req) /\ call[p].req \in Request
            /\ call[p].req.op # "transition"
        BY <1>4 DEF TypeInv, CallsTyped, CommitArtifact, Op, Call, Proper
      <3> QED
        BY <3>1, KindOfType DEF Artifact, Call
    <2>2. artifacts' = Append(artifacts, a)
      BY <1>4 DEF CommitArtifact
    <2>3. Log!Appended
      BY <1>2, <2>1, <2>2, AppendAppends
    <2>4. Log!Advance
      BY <1>4, <2>3 DEF CommitArtifact, Log!Advance
    <2> QED
      BY <1>2, <1>4, <2>4, RecordTakesEffect DEF CommitArtifact, MayTake, Log!Next
  <1> QED
    BY <1>3, <1>4 DEF Commit

LEMMA OrchestratorsLogged ==
  ASSUME TypeInv, Orchestrators
  PROVE  Log!Next
  <1>1. PICK new \in Statuses, added \in Seq(Artifact) :
          /\ added = <<>> \/ \E x \in Artifact : added = <<x>>
          /\ Move(new, added)
    BY OrchestratorMoves
  <1>2. artifacts \in Seq(Artifact) /\ artifacts' = artifacts \o added
    BY <1>1 DEF Move, TypeInv, RowTyped
  <1>3. artifacts' = artifacts \/ Log!Appended
    <2>1. CASE added = <<>>
      BY <1>2, <2>1
    <2>2. ASSUME NEW x \in Artifact, added = <<x>> PROVE Log!Appended
      <3>1. artifacts' = Append(artifacts, x)
        BY <1>2, <2>2
      <3> QED
        BY <1>2, <3>1, AppendAppends
    <2> QED
      BY <1>1, <2>1, <2>2
  <1>4. Log!Advance
    BY <1>1, <1>3 DEF Move, Log!Advance
  <1> QED
    BY <1>1, <1>4 DEF Move, Log!Orchestrate, Log!Next

LEMMA LogStep == TypeInv /\ [Next]_vars => [Log!Next]_(Log!logVars)
  <1> SUFFICES ASSUME TypeInv, [Next]_vars PROVE [Log!Next]_(Log!logVars)
    OBVIOUS
  <1>1. ASSUME NEW p \in Callers, QuietSteps(p) PROVE UNCHANGED Log!logVars
    BY <1>1, QuietSteps_Quiet DEF durable, Log!logVars
  <1>2. ASSUME NEW p \in Callers, Commit(p) PROVE Log!Next
    BY <1>2, CommitLogged
  <1>3. CASE Orchestrators
    BY <1>3, OrchestratorsLogged
  <1>4. CASE UNCHANGED vars
    BY <1>4 DEF vars, Log!logVars
  <1> QED
    BY <1>1, <1>2, <1>3, <1>4, StepCases

\* Calls, replays, crashes, refusals and the orchestrators implement CommandLog: a
\* command takes effect at most once under its key, in one version with its artifact
\* and its record, and what was recorded never changes.
THEOREM CommandsLogged == Spec => ImplementsCommandLog
  <1> QED
    BY TypeInvAlways, LogInit, LogStep, PTL DEF Spec, ImplementsCommandLog, Log!Spec

----------------------------------------------------------------------------
(* Why it works: CommandDiscipline, for clients that do not pipeline *)

LEMMA InitDiscipline == Init => CommandDiscipline
  BY IdleCallType DEF Init, CommandDiscipline, Recorded, At

\* Whatever takes a version leaves every other call behind.
LEMMA VersionTaken ==
  ASSUME TypeInv, TypeInv', CommandDiscipline,
         row'.version = row.version + 1,
         \A q \in Callers : call'[q].step = "idle" \/ call'[q] = call[q],
         \A s \in Scopes, k \in Keys :
           idem'[s][k] = idem[s][k] \/ idem'[s][k].asked.expected <= row.version
  PROVE  CommandDiscipline'
  <1>1. row.version \in Nat
    BY DEF TypeInv, RowTyped
  <1>2. ASSUME NEW q \in Callers, ~At(q, "idle")'
        PROVE  call'[q].req.expected < row'.version
    <2>1. call'[q] = call[q] /\ ~At(q, "idle")
      BY <1>2 DEF At
    <2>2. call[q].req.expected <= row.version /\ call[q].req.expected \in Nat
      BY <2>1 DEF CommandDiscipline, TypeInv, CallsTyped, Call, Request
    <2> QED
      BY <1>1, <2>1, <2>2
  <1>3. ASSUME NEW s \in Scopes, NEW k \in Keys, Recorded(s, k)'
        PROVE  idem'[s][k].asked.expected < row'.version
    <2>1. idem'[s][k].asked.expected \in Nat /\ idem[s][k].asked.expected \in Nat
      BY DEF TypeInv, RecordsTyped, IdemRecord, Request
    <2>2. CASE idem'[s][k] = idem[s][k]
      <3>1. Recorded(s, k)
        BY <1>3, <2>2 DEF Recorded
      <3>2. idem[s][k].asked.expected < row.version
        BY <3>1 DEF CommandDiscipline
      <3> QED
        BY <1>1, <2>1, <2>2, <3>2
    <2>3. CASE idem'[s][k].asked.expected <= row.version
      BY <1>1, <2>1, <2>3
    <2> QED
      BY <2>2, <2>3
  <1>4. \A q \in Callers : ~At(q, "idle")' => call'[q].req.expected \in Nat /\ row'.version \in Nat
    BY DEF TypeInv, RowTyped, CallsTyped, Call, Request
  <1>5. ASSUME NEW q \in Callers, ~At(q, "idle")'
        PROVE  /\ call'[q].req.expected <= row'.version
               /\ call'[q].req.expected # row'.version
    BY <1>2, <1>4, <1>5
  <1> QED
    BY <1>3, <1>5 DEF CommandDiscipline

\* A commit of call p takes a version, and p is the only caller it moves.
LEMMA CommitShape ==
  ASSUME TypeInv, NEW p \in Callers, Commit(p)
  PROVE  /\ At(p, "commit") /\ MayTake(p)
         /\ call[p].req.expected = row.version
         /\ row'.version = row.version + 1
         /\ call'[p] = IdleCall
         /\ \A q \in Callers : q # p => call'[q] = call[q]
         /\ \A s \in Scopes, k \in Keys :
              idem'[s][k] = idem[s][k] \/ idem'[s][k].asked = call[p].req
  <1>1. /\ At(p, "commit") /\ MayTake(p) /\ row'.version = row.version + 1
        /\ Record(p) /\ Respond(p)
    BY DEF Commit, CommitTransition, CommitArtifact
  <1>2. artifacts' \in Seq(Artifact)
    BY CommitTransitionType, CommitArtifactType DEF Commit, TypeInv, RowTyped
  <1>3. call[p].req.expected = row.version
    BY <1>1 DEF MayTake
  <1>4. call'[p] = IdleCall /\ \A q \in Callers : q # p => call'[q] = call[q]
    BY <1>1 DEF Respond, TypeInv, CallsTyped
  <1> QED
    BY <1>1, <1>2, <1>3, <1>4, RecordType

LEMMA NextDiscipline ==
  TypeInv /\ ~Pipelined /\ CommandDiscipline /\ [Next]_vars => CommandDiscipline'
  <1> SUFFICES ASSUME TypeInv, ~Pipelined, CommandDiscipline, [Next]_vars
               PROVE  CommandDiscipline'
    OBVIOUS
  <1>0. TypeInv'
    BY NextTyped
  <1>1. ASSUME NEW p \in Callers, QuietSteps(p) PROVE CommandDiscipline'
    BY <1>1, QuietSteps_Quiet, QuietStep
  <1>2. ASSUME NEW p \in Callers, Commit(p) PROVE CommandDiscipline'
    <2>1. /\ call[p].req.expected = row.version /\ row'.version = row.version + 1
          /\ call'[p] = IdleCall /\ \A q \in Callers : q # p => call'[q] = call[q]
          /\ \A s \in Scopes, k \in Keys :
               idem'[s][k] = idem[s][k] \/ idem'[s][k].asked = call[p].req
      BY <1>2, CommitShape
    <2>2. row.version <= row.version
      BY DEF TypeInv, RowTyped
    <2>3. \A q \in Callers : call'[q].step = "idle" \/ call'[q] = call[q]
      BY <2>1, IdleCallType
    <2>4. \A s \in Scopes, k \in Keys :
            idem'[s][k] = idem[s][k] \/ idem'[s][k].asked.expected <= row.version
      BY <2>1, <2>2
    <2> QED
      BY <1>0, <2>1, <2>3, <2>4, VersionTaken
  <1>3. CASE Orchestrators
    <2>1. PICK new, added : Move(new, added)
      BY <1>3, OrchestratorMoves
    <2>2. row'.version = row.version + 1 /\ call' = call /\ idem' = idem
      BY <2>1 DEF Move
    <2>3. \A q \in Callers : call'[q].step = "idle" \/ call'[q] = call[q]
      BY <2>2
    <2>4. \A s \in Scopes, k \in Keys :
            idem'[s][k] = idem[s][k] \/ idem'[s][k].asked.expected <= row.version
      BY <2>2
    <2> QED
      BY <1>0, <2>2, <2>3, <2>4, VersionTaken
  <1>4. CASE UNCHANGED vars
    <2>1. UNCHANGED durable /\ call' = call
      BY <1>4 DEF vars, durable
    <2>2. ASSUME NEW q \in Callers PROVE Holds(call[q])'
      <3>1. PICK e : e = call[q]
        OBVIOUS
      <3>2. Holds(e)'
        BY <2>1, <3>1, DisciplineParts, HoldsFrame
      <3> QED
        BY <2>1, <3>1, <3>2 DEF Holds
    <2>3. RecordsOld'
      BY <2>1, DisciplineParts, RecordsFrame
    <2> QED
      BY <2>2, <2>3 DEF CommandDiscipline, Holds, RecordsOld, At
  <1> QED
    BY <1>1, <1>2, <1>3, <1>4, StepCases

\* Clients that name only versions they were told of: a command that still names
\* the current version has read nothing that changed since.
THEOREM DisciplineKept == ~Pipelined => (Spec => []CommandDiscipline)
  <1> SUFFICES ASSUME ~Pipelined PROVE Spec => []CommandDiscipline
    OBVIOUS
  <1>1. Init => CommandDiscipline
    BY InitDiscipline
  <1>2. TypeInv /\ CommandDiscipline /\ [Next]_vars => CommandDiscipline'
    BY NextDiscipline
  <1> QED
    BY <1>1, <1>2, TypeInvAlways, PTL DEF Spec

----------------------------------------------------------------------------
(* What follows for the workflow *)

\* A commit under the discipline knows what it changes.
LEMMA CommitUpToDate ==
  ASSUME TypeInv, CommandDiscipline, NEW p \in Callers, Commit(p)
  PROVE  UpToDate(call[p]) /\ call[p].step = "commit"
  BY CommitShape DEF CommandDiscipline, At

LEMMA CommitLegal ==
  ASSUME TypeInv, CommandDiscipline, NEW p \in Callers, Commit(p)
  PROVE  row'.status = row.status \/ row'.status \in AllowedTransitions[row.status]
  <1>1. UpToDate(call[p]) /\ call[p].step = "commit"
    BY CommitUpToDate
  <1>2. CASE CommitTransition(p)
    BY <1>1, <1>2 DEF CommitTransition, UpToDate, MayRequest, Op
  <1>3. CASE CommitArtifact(p)
    <2>1. row'.status = IF call[p].to = "NONE" THEN row.status ELSE call[p].to
      BY <1>3 DEF CommitArtifact
    <2>2. call[p].to = "NONE" \/ call[p].to \in AllowedTransitions[row.status]
      BY <1>1 DEF UpToDate
    <2> QED
      BY <2>1, <2>2
  <1> QED
    BY <1>2, <1>3 DEF Commit

LEMMA LegalStep ==
  TypeInv /\ CommandDiscipline /\ [Next]_vars =>
    [row'.status = row.status \/ row'.status \in AllowedTransitions[row.status]]_vars
  <1> SUFFICES ASSUME TypeInv, CommandDiscipline, [Next]_vars
               PROVE  row'.status = row.status \/ row'.status \in AllowedTransitions[row.status]
    OBVIOUS
  <1>1. ASSUME NEW p \in Callers, QuietSteps(p) PROVE row' = row
    BY <1>1, QuietSteps_Quiet DEF durable
  <1>2. CASE Orchestrators
    <2>1. PICK new, added : new \in AllowedTransitions[row.status] /\ Move(new, added)
      BY <1>2, OrchestratorMoves
    <2> QED
      BY <2>1 DEF Move
  <1>3. CASE UNCHANGED vars
    BY <1>3 DEF vars
  <1> QED
    BY <1>1, <1>2, <1>3, CommitLegal, StepCases

\* Clients, orchestrators and crashes together move the workflow along the status
\* graph only, although the graph is checked on a row read before the lock.
THEOREM TransitionsLegal == ~Pipelined => (Spec => LegalTransitions)
  <1> SUFFICES ASSUME ~Pipelined PROVE Spec => LegalTransitions
    OBVIOUS
  <1>1. Spec => []CommandDiscipline
    BY DisciplineKept
  <1> QED
    BY <1>1, TypeInvAlways, LegalStep, PTL DEF Spec, LegalTransitions

\* A step that records something for p is the commit of p.
LEMMA RecordsCommit ==
  ASSUME TypeInv, [Next]_vars, NEW p \in Callers, At(p, "commit"),
         row'.version # row.version, call'[p].step = "idle"
  PROVE  Commit(p)
  <1>1. ASSUME NEW q \in Callers, QuietSteps(q) PROVE FALSE
    BY <1>1, QuietSteps_Quiet DEF durable
  <1>2. ASSUME NEW q \in Callers, Commit(q) PROVE q = p
    BY <1>2, CommitShape DEF At
  <1>3. CASE Orchestrators
    <2>1. PICK new, added : Move(new, added)
      BY <1>3, OrchestratorMoves
    <2> QED
      BY <2>1 DEF Move, At
  <1>4. CASE UNCHANGED vars
    BY <1>4 DEF vars
  <1> QED
    BY <1>1, <1>2, <1>3, <1>4, StepCases

LEMMA MadeStep ==
  ASSUME TypeInv, CommandDiscipline, [Next]_vars, NEW p \in Callers
  PROVE  LET of == call[p].inputs IN
         /\ Records(p, "generate") =>
              \E s, t \in of : /\ of = {s, t}
                               /\ Latest(s, "SOURCE_DISCOVERY")
                               /\ Latest(t, "TARGET_DISCOVERY")
         /\ Records(p, "approve") => \E n \in of : of = {n} /\ Latest(n, "MAPPING_PLAN")
         /\ Records(p, "preview") =>
              /\ \E n \in of : of = {n} /\ Latest(n, "APPROVED_MAPPING_PLAN")
              /\ row.status = "STAGED" =>
                   \E n \in DOMAIN artifacts :
                     Latest(n, "STAGING_LOAD_EVIDENCE") /\ artifacts[n].of = of
  <1> DEFINE of == call[p].inputs
  <1>1. ASSUME NEW op, Records(p, op)
        PROVE  UpToDate(call[p]) /\ call[p].step = "commit" /\ call[p].req.op = op
    BY <1>1, RecordsCommit, CommitUpToDate DEF Records, Op, At
  <1>2. ASSUME Records(p, "generate")
        PROVE  \E s, t \in of : of = {s, t} /\ Latest(s, "SOURCE_DISCOVERY")
                                            /\ Latest(t, "TARGET_DISCOVERY")
    <2>1. PICK s, t \in DOMAIN artifacts :
            of = {s, t} /\ Latest(s, "SOURCE_DISCOVERY") /\ Latest(t, "TARGET_DISCOVERY")
      BY <1>1, <1>2 DEF UpToDate
    <2>2. s \in of /\ t \in of
      BY <2>1
    <2> QED
      BY <2>1, <2>2
  <1>3. ASSUME Records(p, "approve")
        PROVE  \E n \in of : of = {n} /\ Latest(n, "MAPPING_PLAN")
    <2>1. PICK n \in DOMAIN artifacts : of = {n} /\ Latest(n, "MAPPING_PLAN")
      BY <1>1, <1>3 DEF UpToDate
    <2> QED
      BY <2>1
  <1>4. ASSUME Records(p, "preview")
        PROVE  /\ \E n \in of : of = {n} /\ Latest(n, "APPROVED_MAPPING_PLAN")
               /\ row.status = "STAGED" =>
                    \E n \in DOMAIN artifacts :
                      Latest(n, "STAGING_LOAD_EVIDENCE") /\ artifacts[n].of = of
    <2>1. /\ of = {call[p].req.no}
          /\ Latest(call[p].req.no, "APPROVED_MAPPING_PLAN")
          /\ row.status = "STAGED" =>
               \E n \in DOMAIN artifacts :
                 Latest(n, "STAGING_LOAD_EVIDENCE") /\ artifacts[n].of = of
      BY <1>1, <1>4 DEF UpToDate
    <2> HIDE DEF of
    <2> QED
      BY <2>1
  <1> QED
    BY <1>2, <1>3, <1>4

\* A planning artifact is made from the latest evidence there is when it is
\* recorded, however many callers race and whenever they crash.
THEOREM ArtifactsMadeFromLatest == ~Pipelined => (Spec => MadeFromLatest)
  <1> SUFFICES ASSUME ~Pipelined PROVE Spec => MadeFromLatest
    OBVIOUS
  <1>1. Spec => []CommandDiscipline
    BY DisciplineKept
  <1>2. TypeInv /\ CommandDiscipline /\ [Next]_vars =>
          [\A p \in Callers :
             LET of == call[p].inputs IN
             /\ Records(p, "generate") =>
                  \E s, t \in of : /\ of = {s, t}
                                   /\ Latest(s, "SOURCE_DISCOVERY")
                                   /\ Latest(t, "TARGET_DISCOVERY")
             /\ Records(p, "approve") => \E n \in of : of = {n} /\ Latest(n, "MAPPING_PLAN")
             /\ Records(p, "preview") =>
                  /\ \E n \in of : of = {n} /\ Latest(n, "APPROVED_MAPPING_PLAN")
                  /\ row.status = "STAGED" =>
                       \E n \in DOMAIN artifacts :
                         Latest(n, "STAGING_LOAD_EVIDENCE") /\ artifacts[n].of = of]_vars
    BY MadeStep
  <1> QED
    BY <1>1, <1>2, TypeInvAlways, PTL DEF Spec, MadeFromLatest

LEMMA DiscoveryStep ==
  TypeInv /\ CommandDiscipline /\ [Next]_vars =>
    [\A p \in Callers :
       Records(p, "discover") =>
         (row'.status = "DISCOVERED" <=> Present(Counterpart(call[p].req.what)))]_vars
  <1> SUFFICES ASSUME TypeInv, CommandDiscipline, [Next]_vars, NEW p \in Callers,
                      Records(p, "discover")
               PROVE  row'.status = "DISCOVERED" <=> Present(Counterpart(call[p].req.what))
    OBVIOUS
  <1>1. Commit(p) /\ call[p].req.op = "discover"
    BY RecordsCommit DEF Records, Op
  <1>2. UpToDate(call[p]) /\ call[p].step = "commit"
    BY <1>1, CommitUpToDate
  <1>3. /\ call[p].to = IF Present(Counterpart(call[p].req.what)) THEN "DISCOVERED" ELSE "NONE"
        /\ row.status = "DRAFT"
    BY <1>1, <1>2 DEF UpToDate, Planning, NeededBy
  <1>4. row'.status = IF call[p].to = "NONE" THEN row.status ELSE call[p].to
    BY <1>1 DEF Commit, CommitTransition, CommitArtifact, Op
  <1> QED
    BY <1>3, <1>4

\* The second of two discoveries moves the workflow on, in whatever order they come
\* and however they race.
THEOREM DiscoveriesAdvance == ~Pipelined => (Spec => DiscoveryAdvances)
  <1> SUFFICES ASSUME ~Pipelined PROVE Spec => DiscoveryAdvances
    OBVIOUS
  <1>1. Spec => []CommandDiscipline
    BY DisciplineKept
  <1> QED
    BY <1>1, TypeInvAlways, DiscoveryStep, PTL DEF Spec, DiscoveryAdvances

----------------------------------------------------------------------------
(* The audit trail *)

\* Events es tell the history of a workflow that now has this status and version.
History(es, status, version) ==
  /\ es \in Seq(Event) /\ Len(es) > 0
  /\ es[1] = [previous |-> "NONE", new |-> "DRAFT", version |-> 1]
  /\ \A i \in 2..Len(es) :
       /\ es[i].previous = es[i - 1].new
       /\ es[i].version \in {es[i - 1].version, es[i - 1].version + 1}
  /\ es[Len(es)].new = status
  /\ es[Len(es)].version = version

\* One more event, which starts where the last one ended.
LEMMA HistoryGrows ==
  ASSUME NEW es, NEW s, NEW v, History(es, s, v),
         NEW e \in Event, e.previous = s, e.version \in {v, v + 1}
  PROVE  History(Append(es, e), e.new, e.version)
  <1> DEFINE fs == Append(es, e)
  <1>1. es \in Seq(Event) /\ Len(es) \in Nat /\ Len(es) > 0
    BY DEF History
  <1>2. fs \in Seq(Event) /\ Len(fs) = Len(es) + 1 /\ fs[Len(fs)] = e
    BY <1>1
  <1>3. \A i \in 1..Len(es) : fs[i] = es[i]
    BY <1>1
  <1> HIDE DEF fs
  <1>4. ASSUME NEW i \in 2..Len(fs)
        PROVE  /\ fs[i].previous = fs[i - 1].new
               /\ fs[i].version \in {fs[i - 1].version, fs[i - 1].version + 1}
    <2>1. CASE i = Len(fs)
      <3>1. fs[i] = e /\ fs[i - 1] = es[Len(es)]
        BY <1>1, <1>2, <1>3, <2>1
      <3> QED
        BY <3>1 DEF History
    <2>2. CASE i # Len(fs)
      <3>1. i \in 2..Len(es) /\ i \in 1..Len(es) /\ i - 1 \in 1..Len(es)
        BY <1>1, <1>2, <2>2
      <3>2. fs[i] = es[i] /\ fs[i - 1] = es[i - 1]
        BY <1>3, <3>1
      <3> QED
        BY <3>1, <3>2 DEF History
    <2> QED
      BY <2>1, <2>2
  <1>5. fs[1] = es[1]
    BY <1>1, <1>3
  <1> QED
    BY <1>1, <1>2, <1>4, <1>5 DEF History, fs

LEMMA HistoryFound ==
  /\ History(Created, "DRAFT", 1)
  /\ History(Discovered, "DISCOVERED", 3)
  /\ History(Approved, "MAPPING_APPROVED", 5)
  /\ History(Staged, "STAGED", 7)
  <1> DEFINE E(s, t, v) == [previous |-> s, new |-> t, version |-> v]
             d1 == Append(Created, E("DRAFT", "DRAFT", 2))
             d2 == Append(d1, E("DRAFT", "DRAFT", 3))
             d3 == Append(d2, E("DRAFT", "DISCOVERED", 3))
             a1 == Append(Discovered, E("DISCOVERED", "DISCOVERED", 4))
             a2 == Append(a1, E("DISCOVERED", "MAPPING_PROPOSED", 4))
             a3 == Append(a2, E("MAPPING_PROPOSED", "MAPPING_PROPOSED", 5))
             a4 == Append(a3, E("MAPPING_PROPOSED", "MAPPING_APPROVED", 5))
             t1 == Append(Approved, E("MAPPING_APPROVED", "STAGING", 6))
             t2 == Append(t1, E("STAGING", "STAGING", 7))
             t3 == Append(t2, E("STAGING", "STAGED", 7))
  <1>1. ASSUME NEW s \in Statuses, NEW t \in Statuses, NEW v \in Nat
        PROVE  E(s, t, v) \in Event
    BY DEF Event
  <1>2. /\ "DRAFT" \in Statuses /\ "DISCOVERED" \in Statuses
        /\ "MAPPING_PROPOSED" \in Statuses /\ "MAPPING_APPROVED" \in Statuses
        /\ "STAGING" \in Statuses /\ "STAGED" \in Statuses
    BY DEF Statuses
  <1>3. ASSUME NEW es, NEW s \in Statuses, NEW t \in Statuses, NEW v \in Nat, NEW w \in Nat,
               History(es, s, v), w \in {v, v + 1}
        PROVE  History(Append(es, E(s, t, w)), t, w)
    BY <1>1, <1>3, HistoryGrows
  <1>4. Discovered = d3
    BY FoundTyped DEF Discovered
  <1>5. Approved = a4
    BY FoundTyped DEF Approved
  <1>6. Staged = t3
    BY FoundTyped DEF Staged
  <1>7. History(Created, "DRAFT", 1)
    BY FoundTyped DEF History, Created
  <1> HIDE DEF E
  <1>8. History(d1, "DRAFT", 2)
    BY <1>2, <1>3, <1>7
  <1> HIDE DEF d1
  <1>9. History(d2, "DRAFT", 3)
    BY <1>2, <1>3, <1>8
  <1> HIDE DEF d2
  <1>10. History(d3, "DISCOVERED", 3)
    BY <1>2, <1>3, <1>9
  <1> HIDE DEF d3
  <1>11. History(a1, "DISCOVERED", 4)
    BY <1>2, <1>3, <1>4, <1>10
  <1> HIDE DEF a1
  <1>12. History(a2, "MAPPING_PROPOSED", 4)
    BY <1>2, <1>3, <1>11
  <1> HIDE DEF a2
  <1>13. History(a3, "MAPPING_PROPOSED", 5)
    BY <1>2, <1>3, <1>12
  <1> HIDE DEF a3
  <1>14. History(a4, "MAPPING_APPROVED", 5)
    BY <1>2, <1>3, <1>13
  <1> HIDE DEF a4
  <1>15. History(t1, "STAGING", 6)
    BY <1>2, <1>3, <1>5, <1>14
  <1> HIDE DEF t1
  <1>16. History(t2, "STAGING", 7)
    BY <1>2, <1>3, <1>15
  <1> HIDE DEF t2
  <1>17. History(t3, "STAGED", 7)
    BY <1>2, <1>3, <1>16
  <1> QED
    BY <1>4, <1>5, <1>6, <1>7, <1>10, <1>14, <1>17

\* The audit trail there is tells the history of the row there is.
HistoryOfRow == History(events, row.status, row.version)

\* The event of a transition, on the row it moves.
LEMMA EventOfMove ==
  ASSUME TypeInv, NEW es, NEW v, v \in {row.version, row.version + 1},
         History(es, row.status, v), NEW t \in Statuses
  PROVE  History(Append(es, Ev(row.status, t)), t, row.version + 1)
  <1>1. row.status \in Statuses /\ row.version \in Nat
    BY DEF TypeInv, RowTyped
  <1>2. Ev(row.status, t) \in Event
    BY <1>1, EvType
  <1>3. /\ Ev(row.status, t).previous = row.status /\ Ev(row.status, t).new = t
        /\ Ev(row.status, t).version = row.version + 1
    BY DEF Ev
  <1>4. row.version + 1 \in {v, v + 1}
    BY <1>1
  <1> QED
    BY <1>2, <1>3, <1>4, HistoryGrows

\* Concatenated events are appended events.
LEMMA OneEvent ==
  ASSUME NEW es \in Seq(Event), NEW e \in Event
  PROVE  es \o <<e>> = Append(es, e)
  OBVIOUS

LEMMA CommitHistory ==
  ASSUME TypeInv, CommandDiscipline, HistoryOfRow, NEW p \in Callers, Commit(p)
  PROVE  HistoryOfRow'
  <1>1. UpToDate(call[p]) /\ call[p].seen = row.status
    BY CommitUpToDate DEF UpToDate
  <1>2. /\ row.status \in Statuses /\ row.version \in Nat /\ events \in Seq(Event)
        /\ call[p] \in Call /\ WellFormed(call[p].req)
    BY DEF TypeInv, RowTyped, CallsTyped, Proper
  <1>3. CASE CommitTransition(p)
    <2>1. call[p].req.what \in Statuses
      BY <1>2, <1>3 DEF WellFormed, CommitTransition, Op
    <2>2. /\ events' = Append(events, Ev(row.status, call[p].req.what))
          /\ row'.status = call[p].req.what /\ row'.version = row.version + 1
      BY <1>1, <1>3 DEF CommitTransition
    <2>3. History(Append(events, Ev(row.status, call[p].req.what)),
                  call[p].req.what, row.version + 1)
      BY <1>2, <2>1, EventOfMove DEF HistoryOfRow
    <2> QED
      BY <2>2, <2>3 DEF HistoryOfRow
  <1>4. CASE CommitArtifact(p)
    <2> DEFINE e == Ev(row.status, row.status)
               es == Append(events, e)
               to == call[p].to
    <2>1. e \in Event /\ (to # "NONE" => to \in Statuses)
      BY <1>2, EvType DEF Call
    <2>2. /\ events' = events \o <<e>> \o (IF to = "NONE" THEN <<>> ELSE <<Ev(row.status, to)>>)
          /\ row'.status = (IF to = "NONE" THEN row.status ELSE to)
          /\ row'.version = row.version + 1
      BY <1>1, <1>4 DEF CommitArtifact
    <2>3. es \in Seq(Event) /\ events \o <<e>> = es
      BY <1>2, <2>1, OneEvent
    <2>4. History(es, row.status, row.version + 1)
      BY <1>2, EventOfMove DEF HistoryOfRow
    <2> HIDE DEF e, es, to
    <2>5. CASE to = "NONE"
      <3>1. events' = es
        BY <2>2, <2>3, <2>5
      <3> QED
        BY <2>2, <2>4, <2>5, <3>1 DEF HistoryOfRow
    <2>6. CASE to # "NONE"
      <3>1. Ev(row.status, to) \in Event
        BY <1>2, <2>1, <2>6, EvType
      <3>2. events' = Append(es, Ev(row.status, to))
        BY <2>2, <2>3, <2>6, <3>1, OneEvent
      <3>3. History(Append(es, Ev(row.status, to)), to, row.version + 1)
        BY <1>2, <2>1, <2>4, <2>6, EventOfMove
      <3> QED
        BY <2>2, <2>6, <3>2, <3>3 DEF HistoryOfRow
    <2> QED
      BY <2>5, <2>6
  <1> QED
    BY <1>3, <1>4 DEF Commit

LEMMA OrchestratorsHistory ==
  ASSUME TypeInv, HistoryOfRow, Orchestrators
  PROVE  HistoryOfRow'
  <1>1. PICK new, added : new \in Statuses /\ Move(new, added)
    BY OrchestratorMoves
  <1> DEFINE e == Ev(row.status, row.status)
             es == Append(events, e)
             f == Ev(row.status, new)
  <1>2. /\ row.status \in Statuses /\ row.version \in Nat /\ events \in Seq(Event)
        /\ e \in Event /\ f \in Event
    BY <1>1, EvType DEF TypeInv, RowTyped
  <1>3. /\ events' = events \o (IF added = <<>> THEN <<>> ELSE <<e>>) \o <<f>>
        /\ row'.status = new /\ row'.version = row.version + 1
    BY <1>1 DEF Move
  <1>4. History(es, row.status, row.version + 1)
    BY <1>2, EventOfMove DEF HistoryOfRow
  <1>5. /\ History(Append(es, f), new, row.version + 1)
        /\ History(Append(events, f), new, row.version + 1)
    BY <1>1, <1>2, <1>4, EventOfMove DEF HistoryOfRow
  <1>6. es \in Seq(Event) /\ events \o <<e>> = es
    BY <1>2, OneEvent
  <1> HIDE DEF e, es, f
  <1>7. CASE added = <<>>
    <2>1. events' = events \o <<f>>
      BY <1>2, <1>3, <1>7
    <2>2. events' = Append(events, f)
      BY <1>2, <2>1, OneEvent
    <2> QED
      BY <1>3, <1>5, <2>2 DEF HistoryOfRow
  <1>8. CASE added # <<>>
    <2>1. events' = es \o <<f>>
      BY <1>3, <1>6, <1>8
    <2>2. events' = Append(es, f)
      BY <1>2, <1>6, <2>1, OneEvent
    <2> QED
      BY <1>3, <1>5, <2>2 DEF HistoryOfRow
  <1> QED
    BY <1>7, <1>8

LEMMA HistoryStep ==
  TypeInv /\ CommandDiscipline /\ HistoryOfRow /\ [Next]_vars => HistoryOfRow'
  <1> SUFFICES ASSUME TypeInv, CommandDiscipline, HistoryOfRow, [Next]_vars
               PROVE  HistoryOfRow'
    OBVIOUS
  <1>1. ASSUME NEW p \in Callers, QuietSteps(p) PROVE HistoryOfRow'
    BY <1>1, QuietSteps_Quiet DEF durable, HistoryOfRow, History
  <1>2. CASE UNCHANGED vars
    BY <1>2 DEF vars, HistoryOfRow, History
  <1> QED
    BY <1>1, <1>2, CommitHistory, OrchestratorsHistory, StepCases

LEMMA HistoryInit == Init => HistoryOfRow
  BY HistoryFound DEF Init, InitAt, HistoryOfRow

\* The audit trail is the history of the row: every event starts where the one
\* before it ended, no version is left out, and the last one shows the row.
THEOREM AuditTrailTrue == ~Pipelined => (Spec => []AuditIsHistory)
  <1> SUFFICES ASSUME ~Pipelined PROVE Spec => []AuditIsHistory
    OBVIOUS
  <1>1. Spec => []CommandDiscipline
    BY DisciplineKept
  <1>2. HistoryOfRow => AuditIsHistory
    BY DEF HistoryOfRow, History, AuditIsHistory
  <1> QED
    BY <1>1, <1>2, TypeInvAlways, HistoryInit, HistoryStep, PTL DEF Spec

----------------------------------------------------------------------------
(* The plan that is executed and the table it was loaded for *)

Evidence == "STAGING_LOAD_EVIDENCE"
Plan == "TRANSFORMATION_PREVIEW"

\* The statuses of a workflow whose staging table was loaded.
Loaded == {"STAGED", "EXECUTION_READY", "EXECUTING"} \cup Withdrawn

\* A table that is there was loaded, and a plan that is ready is the table's.
PlansOfTables ==
  /\ Present(Evidence) => row.status \in Loaded
  /\ row.status = "EXECUTION_READY" => StagedForPlan

\* One more artifact leaves those of the other kinds as they are.
LEMMA OtherKind ==
  ASSUME NEW x \in Artifact, artifacts \in Seq(Artifact), artifacts' = Append(artifacts, x),
         NEW kind, x.kind # kind
  PROVE  /\ Numbered(artifacts', kind) = Numbered(artifacts, kind)
         /\ \A n \in Numbered(artifacts, kind) : artifacts'[n] = artifacts[n]
  BY DEF Numbered

\* One more artifact is the latest of its kind.
LEMMA OwnKind ==
  ASSUME NEW x \in Artifact, artifacts \in Seq(Artifact), artifacts' = Append(artifacts, x),
         NEW n, IsLatestOf(artifacts', n, x.kind)
  PROVE  n = Len(artifacts) + 1 /\ artifacts'[n] = x
  <1>1. /\ Len(artifacts) \in Nat
        /\ DOMAIN artifacts' = 1..(Len(artifacts) + 1)
        /\ artifacts'[Len(artifacts) + 1] = x
    OBVIOUS
  <1>2. Len(artifacts) + 1 \in Numbered(artifacts', x.kind)
    BY <1>1 DEF Numbered
  <1>3. n \in DOMAIN artifacts' /\ Len(artifacts) + 1 <= n
    BY <1>2 DEF IsLatestOf, Numbered
  <1> QED
    BY <1>1, <1>3

\* An artifact that is neither a table nor a plan changes neither.
LEMMA NeitherKind ==
  ASSUME TypeInv, NEW x \in Artifact, artifacts' = Append(artifacts, x),
         x.kind # Evidence, x.kind # Plan
  PROVE  Present(Evidence)' = Present(Evidence) /\ (StagedForPlan => StagedForPlan')
  <1>1. artifacts \in Seq(Artifact)
    BY DEF TypeInv, RowTyped
  <1>2. /\ Numbered(artifacts', Evidence) = Numbered(artifacts, Evidence)
        /\ \A n \in Numbered(artifacts, Evidence) : artifacts'[n] = artifacts[n]
        /\ Numbered(artifacts', Plan) = Numbered(artifacts, Plan)
        /\ \A n \in Numbered(artifacts, Plan) : artifacts'[n] = artifacts[n]
    BY <1>1, OtherKind
  <1>3. Present(Evidence)' = Present(Evidence)
    BY <1>2 DEF Present
  <1>4. ASSUME StagedForPlan, NEW n \in DOMAIN artifacts', NEW m \in DOMAIN artifacts',
               Latest(n, Evidence)', Latest(m, Plan)'
        PROVE  artifacts'[n].of = artifacts'[m].of
    <2>1. Latest(n, Evidence) /\ Latest(m, Plan)
      BY <1>2, <1>4 DEF Latest, IsLatestOf
    <2>2. n \in Numbered(artifacts, Evidence) /\ m \in Numbered(artifacts, Plan)
      BY <2>1 DEF Latest, IsLatestOf
    <2>3. artifacts[n].of = artifacts[m].of
      BY <1>4, <2>1, <2>2 DEF StagedForPlan, Numbered, Evidence, Plan
    <2> QED
      BY <1>2, <2>2, <2>3
  <1> QED
    BY <1>3, <1>4 DEF StagedForPlan, Evidence, Plan

LEMMA CommitPlans ==
  ASSUME TypeInv, CommandDiscipline, PlansOfTables, AppendKinds \cap {Evidence, Plan} = {},
         NEW p \in Callers, Commit(p)
  PROVE  PlansOfTables'
  <1>1. UpToDate(call[p]) /\ call[p].step = "commit"
    BY CommitUpToDate
  <1>2. CASE CommitTransition(p)
    <2>1. /\ artifacts' = artifacts /\ row'.status = call[p].req.what
          /\ MayRequest(row.status, call[p].req.what)
      BY <1>1, <1>2 DEF CommitTransition, UpToDate, Op
    <2>2. row'.status # "EXECUTION_READY"
      BY <2>1 DEF MayRequest, ManagedStatuses
    <2>3. row.status \in Loaded => row'.status \in Loaded
      BY <2>1 DEF MayRequest, ManagedStatuses, Loaded, Withdrawn, AllowedTransitions, Statuses
    <2> QED
      BY <2>1, <2>2, <2>3 DEF PlansOfTables, Present
  <1>3. CASE CommitArtifact(p)
    <2> DEFINE x == [kind |-> KindOf(call[p].req), of |-> call[p].inputs]
               to == call[p].to
    <2>1. /\ call[p] \in Call /\ WellFormed(call[p].req) /\ call[p].req \in Request
          /\ call[p].req.op \in Ops /\ call[p].req.op # "transition"
      BY <1>3 DEF TypeInv, CallsTyped, CommitArtifact, Op, Call, Proper, Request
    <2>2. x \in Artifact /\ artifacts \in Seq(Artifact) /\ artifacts' = Append(artifacts, x)
      BY <1>3, <2>1, KindOfType DEF Artifact, Call, CommitArtifact, TypeInv, RowTyped
    <2>3. /\ row'.status = IF to = "NONE" THEN row.status ELSE to
          /\ to = "NONE" \/ to \in AllowedTransitions[row.status]
      BY <1>1, <1>3 DEF CommitArtifact, UpToDate
    <2>4. x.kind = KindOf(call[p].req) /\ x.of = call[p].inputs
      OBVIOUS
    <2> HIDE DEF x, to
    <2>5. CASE call[p].req.op = "preview"
      <3>1. x.kind = Plan /\ Plan # Evidence /\ row.status \in {"MAPPING_APPROVED", "STAGED"}
        BY <1>1, <2>4, <2>5 DEF KindOf, Plan, Evidence, UpToDate, Planning, NeededBy
      <3>2. /\ Numbered(artifacts', Evidence) = Numbered(artifacts, Evidence)
            /\ \A n \in Numbered(artifacts, Evidence) : artifacts'[n] = artifacts[n]
        BY <2>2, <3>1, OtherKind
      <3>3. Present(Evidence)' = Present(Evidence)
        BY <3>2 DEF Present
      <3>4. ASSUME row.status = "STAGED",
                   NEW n \in DOMAIN artifacts', NEW m \in DOMAIN artifacts',
                   Latest(n, Evidence)', Latest(m, Plan)'
            PROVE  artifacts'[n].of = artifacts'[m].of
        <4>1. PICK e \in DOMAIN artifacts :
                Latest(e, Evidence) /\ artifacts[e].of = call[p].inputs
          BY <1>1, <2>5, <3>4 DEF UpToDate, Evidence
        <4>2. Latest(n, Evidence) /\ n \in Numbered(artifacts, Evidence)
          BY <3>2, <3>4 DEF Latest, IsLatestOf
        <4>3. n = e
          BY <4>1, <4>2, <2>2 DEF Latest, IsLatestOf, Numbered
        <4>4. artifacts'[m] = x
          BY <2>2, <3>1, <3>4, OwnKind DEF Latest
        <4> QED
          BY <2>4, <3>2, <4>1, <4>2, <4>3, <4>4
      <3>5. CASE row.status = "STAGED"
        <4>1. StagedForPlan'
          BY <3>4, <3>5 DEF StagedForPlan, Evidence, Plan
        <4>2. row'.status \in Loaded
          BY <2>3, <3>5 DEF Loaded, Withdrawn, AllowedTransitions, Statuses
        <4> QED
          BY <4>1, <4>2 DEF PlansOfTables
      <3>6. CASE row.status = "MAPPING_APPROVED"
        <4>1. ~Present(Evidence)
          BY <3>6 DEF PlansOfTables, Loaded, Withdrawn
        <4>2. Numbered(artifacts', Evidence) = {}
          BY <3>2, <4>1 DEF Present
        <4>3. StagedForPlan'
          BY <4>2 DEF StagedForPlan, Latest, IsLatestOf, Evidence
        <4> QED
          BY <3>3, <4>1, <4>3 DEF PlansOfTables
      <3> QED
        BY <3>1, <3>5, <3>6
    <2>6. CASE call[p].req.op # "preview"
      <3>1. x.kind # Evidence /\ x.kind # Plan
        BY <2>1, <2>4, <2>6 DEF KindOf, WellFormed, Ops, Evidence, Plan
      <3>2. Present(Evidence)' = Present(Evidence) /\ (StagedForPlan => StagedForPlan')
        BY <2>2, <3>1, NeitherKind
      <3>3. CASE call[p].req.op = "append"
        <4>1. row'.status = row.status
          BY <1>1, <2>3, <3>3 DEF UpToDate, to
        <4> QED
          BY <3>2, <4>1 DEF PlansOfTables
      <3>4. CASE call[p].req.op # "append"
        <4>1. row.status \in {"DRAFT", "DISCOVERED", "MAPPING_PROPOSED"}
          BY <1>1, <2>1, <2>6, <3>4 DEF UpToDate, Planning, NeededBy, Ops
        <4>2. ~Present(Evidence)
          BY <4>1 DEF PlansOfTables, Loaded, Withdrawn
        <4>3. row'.status # "EXECUTION_READY"
          BY <2>3, <4>1 DEF AllowedTransitions, Statuses, Withdrawn
        <4> QED
          BY <3>2, <4>2, <4>3 DEF PlansOfTables
      <3> QED
        BY <3>3, <3>4
    <2> QED
      BY <2>5, <2>6
  <1> QED
    BY <1>2, <1>3 DEF Commit

LEMMA OrchestratorsPlans ==
  ASSUME TypeInv, PlansOfTables, Orchestrators
  PROVE  PlansOfTables'
  <1>1. CASE ClaimStaging \/ StagingLoaded \/ StagingFailed
    <2>1. row'.status # "EXECUTION_READY"
      <3>1. CASE ClaimStaging
        BY <3>1 DEF ClaimStaging, Move
      <3>2. CASE StagingLoaded
        BY <3>2 DEF StagingLoaded, Move
      <3>3. CASE StagingFailed
        BY <3>3 DEF StagingFailed, Move
      <3> QED
        BY <1>1, <3>1, <3>2, <3>3
    <2>2. row.status \in {"MAPPING_APPROVED", "STAGING"}
      BY <1>1 DEF ClaimStaging, StagingLoaded, StagingFailed, AsClaimed
    <2>3. ~Present(Evidence)
      BY <2>2 DEF PlansOfTables, Loaded, Withdrawn
    <2>4. CASE ClaimStaging \/ StagingFailed
      <3>1. artifacts' = artifacts
        BY <2>4 DEF ClaimStaging, StagingFailed, Move, TypeInv, RowTyped
      <3> QED
        BY <2>1, <2>3, <3>1 DEF PlansOfTables, Present
    <2>5. CASE StagingLoaded
      BY <2>1, <2>5 DEF StagingLoaded, Move, PlansOfTables, Loaded
    <2> QED
      BY <1>1, <2>4, <2>5
  <1>2. CASE ClaimExecution
    BY <1>2 DEF ClaimExecution, Move, PlansOfTables, Loaded
  <1> QED
    BY <1>1, <1>2 DEF Orchestrators

LEMMA PlansInit == Init => PlansOfTables
  <1> SUFFICES ASSUME Init PROVE PlansOfTables
    OBVIOUS
  <1>1. CASE row.status = "STAGED"
    BY <1>1 DEF PlansOfTables, Loaded
  <1>2. CASE row.status # "STAGED"
    <2>1. /\ row.status # "EXECUTION_READY"
          /\ artifacts \in {<<>>, Discoveries, Reviews}
      BY <1>2 DEF Init, InitAt
    <2>2. Numbered(<<>>, Evidence) = {}
      BY DEF Numbered
    <2>3. Numbered(Discoveries, Evidence) = {}
      BY DEF Numbered, Discoveries, Evidence
    <2>4. Numbered(Reviews, Evidence) = {}
      BY DEF Numbered, Reviews, Discoveries, Evidence
    <2> QED
      BY <2>1, <2>2, <2>3, <2>4 DEF PlansOfTables, Present
  <1> QED
    BY <1>1, <1>2

LEMMA PlansStep ==
  TypeInv /\ CommandDiscipline /\ PlansOfTables /\ AppendKinds \cap {Evidence, Plan} = {}
    /\ [Next]_vars => PlansOfTables'
  <1> SUFFICES ASSUME TypeInv, CommandDiscipline, PlansOfTables,
                      AppendKinds \cap {Evidence, Plan} = {}, [Next]_vars
               PROVE  PlansOfTables'
    OBVIOUS
  <1>1. ASSUME row' = row, artifacts' = artifacts PROVE PlansOfTables'
    BY <1>1 DEF PlansOfTables, StagedForPlan, Present, Latest
  <1>2. ASSUME NEW p \in Callers, QuietSteps(p) PROVE PlansOfTables'
    BY <1>1, <1>2, QuietSteps_Quiet DEF durable
  <1>3. CASE UNCHANGED vars
    BY <1>1, <1>3 DEF vars
  <1> QED
    BY <1>2, <1>3, CommitPlans, OrchestratorsPlans, StepCases

LEMMA ExecutionStep ==
  TypeInv /\ PlansOfTables /\ [Next]_vars /\ CommandDiscipline =>
    [row.status # "EXECUTING" /\ row'.status = "EXECUTING" => StagedForPlan]_vars
  <1> SUFFICES ASSUME TypeInv, PlansOfTables, CommandDiscipline, [Next]_vars,
                      row.status # "EXECUTING", row'.status = "EXECUTING"
               PROVE  row.status = "EXECUTION_READY"
    BY DEF PlansOfTables
  <1>1. row.status \in Statuses
    BY DEF TypeInv, RowTyped
  <1>2. row'.status \in AllowedTransitions[row.status]
    BY LegalStep DEF vars
  <1> QED
    BY <1>1, <1>2 DEF AllowedTransitions, Statuses, Withdrawn

\* As long as clients leave the recording of plans to the planning route, a plan is
\* executed from the table that was loaded for it: for every interleaving of
\* approvals, loads, previews and claims.
THEOREM ExecutedFromItsTable ==
  ~Pipelined /\ AppendKinds \cap {"STAGING_LOAD_EVIDENCE", "TRANSFORMATION_PREVIEW"} = {} =>
    (Spec => ExecutesStagedPlan)
  <1> SUFFICES ASSUME ~Pipelined,
                      AppendKinds \cap {"STAGING_LOAD_EVIDENCE", "TRANSFORMATION_PREVIEW"} = {}
               PROVE  Spec => ExecutesStagedPlan
    OBVIOUS
  <1>1. Spec => []CommandDiscipline
    BY DisciplineKept
  <1>2. TypeInv /\ CommandDiscipline /\ PlansOfTables /\ [Next]_vars => PlansOfTables'
    BY PlansStep DEF Evidence, Plan
  <1> QED
    BY <1>1, <1>2, TypeInvAlways, PlansInit, ExecutionStep, PTL
    DEF Spec, ExecutesStagedPlan
=============================================================================
