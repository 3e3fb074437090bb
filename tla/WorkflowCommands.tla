-------------------------- MODULE WorkflowCommands --------------------------
(***************************************************************************)
(* The commands of the clients of a workflow: administrative transitions,  *)
(* appended artifacts, and the planning commands of                        *)
(* WorkflowPlanningOrchestrator (discovery of both sides, mapping          *)
(* proposal, approval, preview), over WorkflowPersistenceService and the   *)
(* repository's transactions.                                              *)
(*                                                                         *)
(* A call reads the row, checks it, reads artifacts, may talk to a         *)
(* connector, reads the row again, and commits in a transaction of its     *)
(* own; other calls, the claims of the orchestrators and crashes come in   *)
(* between any two of these.  The service's checks apply only when the     *)
(* version it read is the one the command names: everything else is left   *)
(* to the transaction, which knows the row and the idempotency record.     *)
(*                                                                         *)
(* Operators introduced as a variant are not part of the model: each is a  *)
(* slip in the definition that follows it, and a property must notice it.  *)
(***************************************************************************)
EXTENDS Naturals, Sequences, WorkflowStates

CONSTANTS
  Callers,     \* concurrent activations of the routes
  Keys,        \* Idempotency-Key values
  None,        \* no key
  Asked,       \* the statuses clients ask for with a transition
  AppendKinds, \* the kinds of artifact clients append as they are
  MaxCommits,  \* bound on the versions after the start
  Pipelined    \* TRUE: a client may name the version its previous command,
               \* still unanswered, is about to produce

ASSUME ConstantsAssumption ==
  /\ None \notin Keys
  /\ MaxCommits \in Nat
  /\ Pipelined \in BOOLEAN
  /\ Asked \subseteq Statuses

\* WorkflowArtifactType, as far as planning goes.
Kinds ==
  { "SOURCE_DISCOVERY", "TARGET_DISCOVERY", "MAPPING_PLAN", "APPROVED_MAPPING_PLAN",
    "STAGING_LOAD_EVIDENCE", "TRANSFORMATION_PREVIEW" }

ASSUME KindsAssumption == AppendKinds \subseteq Kinds

VARIABLES
  start,      \* the version at which the calls begin
  row,        \* migration_workflows: status and version
  artifacts,  \* migration_workflow_artifacts; latest_artifact_version is its length
  events,     \* migration_audit_events
  idem,       \* migration_idempotency: scope and key to what was recorded
  call        \* the local state of each caller

durable == <<start, row, artifacts, events, idem>>
vars == <<start, row, artifacts, events, idem, call>>

\* An artifact keeps the numbers of the artifacts it was made from.
Artifact == [kind : Kinds, of : SUBSET Nat]

Event == [previous : Statuses \cup {"NONE"}, new : Statuses, version : Nat]

\* What a client asks for.  `what` is a status or a kind, `no` the artifact it
\* refers to, `names` the staging relation it names for a preview.
Ops == {"transition", "append", "discover", "generate", "approve", "preview"}
Names == {"omitted", "own", "managed"}
Request ==
  [op : Ops, what : Statuses \cup Kinds, no : Nat, names : Names, expected : Nat]

\* request_hash covers the request, and what was read to carry it out.
Digest == [request : Request, inputs : SUBSET Nat, names : Names]

IdemRecord == [digest : Digest, asked : Request, result : Nat]
NoRequest ==
  [op |-> "transition", what |-> "DRAFT", no |-> 0, names |-> "omitted", expected |-> 0]
NoRecord ==
  [ digest |-> [request |-> NoRequest, inputs |-> {}, names |-> "omitted"],
    asked |-> NoRequest, result |-> 0 ]

\* command_scope: one for transitions, one for appended artifacts, one for each
\* kind of artifact the orchestrators record.
Scopes == {"STATUS", "ARTIFACT"} \cup Kinds

Steps == {"idle", "inputs", "inputs2", "reread", "commit"}

Call ==
  [ step   : Steps,
    req    : Request,
    key    : Keys \cup {None},
    seen   : Statuses,          \* the status it read last
    current : BOOLEAN,          \* the version it read first is the one it names
    inputs : SUBSET Nat,        \* the artifacts it read
    names  : Names,             \* the staging relation it resolved
    to     : Statuses \cup {"NONE"},  \* the transition it records with its artifact
    number : Nat ]              \* the artifact number it means to take

IdleCall ==
  [ step |-> "idle", req |-> NoRequest, key |-> None, seen |-> "DRAFT", current |-> FALSE,
    inputs |-> {}, names |-> "omitted", to |-> "NONE", number |-> 0 ]

----------------------------------------------------------------------------
(* The workflow a call may find: just created, discovered, approved or     *)
(* staged.  What came before was done under keys that are not in Keys.     *)

Created == <<[previous |-> "NONE", new |-> "DRAFT", version |-> 1]>>
Discoveries == <<[kind |-> "SOURCE_DISCOVERY", of |-> {}], [kind |-> "TARGET_DISCOVERY", of |-> {}]>>
Reviews == Discoveries \o
  <<[kind |-> "MAPPING_PLAN", of |-> {1, 2}], [kind |-> "APPROVED_MAPPING_PLAN", of |-> {3}]>>
Discovered == Created \o
  <<[previous |-> "DRAFT", new |-> "DRAFT", version |-> 2],
    [previous |-> "DRAFT", new |-> "DRAFT", version |-> 3],
    [previous |-> "DRAFT", new |-> "DISCOVERED", version |-> 3]>>
Approved == Discovered \o
  <<[previous |-> "DISCOVERED", new |-> "DISCOVERED", version |-> 4],
    [previous |-> "DISCOVERED", new |-> "MAPPING_PROPOSED", version |-> 4],
    [previous |-> "MAPPING_PROPOSED", new |-> "MAPPING_PROPOSED", version |-> 5],
    [previous |-> "MAPPING_PROPOSED", new |-> "MAPPING_APPROVED", version |-> 5]>>

Staged == Approved \o
  <<[previous |-> "MAPPING_APPROVED", new |-> "STAGING", version |-> 6],
    [previous |-> "STAGING", new |-> "STAGING", version |-> 7],
    [previous |-> "STAGING", new |-> "STAGED", version |-> 7]>>

InitAt(status, version, as, es) ==
  /\ start = version
  /\ row = [status |-> status, version |-> version]
  /\ artifacts = as
  /\ events = es

\* create_workflow, and a planning that went as it should.
Init ==
  /\ \/ InitAt("DRAFT", 1, <<>>, Created)
     \/ InitAt("DISCOVERED", 3, Discoveries, Discovered)
     \/ InitAt("MAPPING_APPROVED", 5, Reviews, Approved)
     \/ InitAt("STAGED", 7,
               Append(Reviews, [kind |-> "STAGING_LOAD_EVIDENCE", of |-> {4}]), Staged)
  /\ idem = [s \in Scopes |-> [k \in Keys |-> NoRecord]]
  /\ call = [p \in Callers |-> IdleCall]

----------------------------------------------------------------------------
\* Bound: a call that finds no room stays before its commit.
Room == row.version < start + MaxCommits

At(p, step) == call[p].step = step
Op(p) == call[p].req.op
Planning(req) == req.op \notin {"transition", "append"}

\* The command names the version the call read.
Current(p) == call[p].current

Respond(p) == call' = [call EXCEPT ![p] = IdleCall]

Numbered(as, kind) == {n \in DOMAIN as : as[n].kind = kind}
IsLatestOf(as, n, kind) ==
  n \in Numbered(as, kind) /\ \A m \in Numbered(as, kind) : m <= n

\* get_latest_artifact returns artifact n.
Latest(n, kind) == IsLatestOf(artifacts, n, kind)
Present(kind) == Numbered(artifacts, kind) # {}

\* Variant: an artifact is filed under the name of the operation that records it.
KindOfOp(req) == req.op

\* The kind of artifact a call records.
KindOf(req) ==
  CASE req.op = "generate" -> "MAPPING_PLAN"
    [] req.op = "approve" -> "APPROVED_MAPPING_PLAN"
    [] req.op = "preview" -> "TRANSFORMATION_PREVIEW"
    [] OTHER -> req.what

ScopeOf(req) ==
  CASE req.op = "transition" -> "STATUS"
    [] req.op = "append" -> "ARTIFACT"
    [] OTHER -> KindOf(req)

\* request_hash: a proposal is hashed with the discoveries it was made from, a
\* preview with the staging relation resolved for it, not the one it was sent with.
DigestOf(c) ==
  [ request |-> [c.req EXCEPT !.names = "omitted"],
    inputs  |-> IF c.req.op = "generate" THEN c.inputs ELSE {},
    names   |-> c.names ]

Recorded(scope, key) == idem[scope][key] # NoRecord

----------------------------------------------------------------------------
(* The routes *)

\* The artifacts a command may refer to: proposals and approvals, each also where
\* the other is meant.
Reviewed == Numbered(artifacts, "MAPPING_PLAN") \cup Numbered(artifacts, "APPROVED_MAPPING_PLAN")

Asks ==
  [op : {"transition"}, what : Asked, no : {0}, names : {"omitted"}, expected : {0}]
  \cup [op : {"append"}, what : AppendKinds, no : {0}, names : {"omitted"}, expected : {0}]
  \cup [op : {"discover"}, what : {"SOURCE_DISCOVERY", "TARGET_DISCOVERY"}, no : {0},
        names : {"omitted"}, expected : {0}]
  \cup [op : {"generate"}, what : {"DRAFT"}, no : {0}, names : {"omitted"}, expected : {0}]
  \cup [op : {"approve"}, what : {"DRAFT"}, no : Reviewed, names : {"omitted"},
        expected : {0}]
  \cup [op : {"preview"}, what : {"DRAFT"}, no : Reviewed, names : Names,
        expected : {0}]

----------------------------------------------------------------------------
(* The service's checks *)

\* The status a planning command needs: _require_current_state.
NeededBy(req) ==
  CASE req.op = "discover" -> {"DRAFT"}
    [] req.op = "generate" -> {"DISCOVERED"}
    [] req.op = "approve"  -> {"MAPPING_PROPOSED"}
    [] OTHER               -> {"MAPPING_APPROVED", "STAGED"}

\* What the first read of the row lets pass.
Admits(req, current) ==
  req.expected = current.version =>
    CASE req.op = "transition" -> MayRequest(current.status, req.what)
      [] req.op = "append" -> MayAppend(current.status)
      [] OTHER -> current.status \in NeededBy(req)

\* get_workflow, the first thing every call does.  A transition or an appended
\* artifact goes on to its commit with what it read here; a planning command reads
\* artifacts first.
Start(p, req, k) ==
  /\ Admits(req, row)
  /\ call' = [call EXCEPT ![p] =
       [IdleCall EXCEPT !.step = IF Planning(req) THEN "inputs" ELSE "commit",
                        !.req = req,
                        !.key = k,
                        !.seen = row.status,
                        !.current = (req.expected = row.version),
                        !.number = IF req.op = "append" THEN Len(artifacts) + 1 ELSE 0]]

\* The version a client names is the current one, or the one its unanswered
\* command is about to produce, or, in a repetition, the one it named before.  With
\* any other older version a command has no effect; one that is current now may be
\* overtaken before it commits.
Submit(p) ==
  /\ At(p, "idle")
  /\ \E k \in Keys :
       \/ \E a \in Asks, e \in {row.version} \cup (IF Pipelined THEN {row.version + 1} ELSE {}) :
            Start(p, [a EXCEPT !.expected = e], k)
       \/ \E s \in Scopes : Recorded(s, k) /\ Start(p, idem[s][k].asked, k)
  /\ UNCHANGED durable

----------------------------------------------------------------------------
(* What a planning command reads *)

Counterpart(kind) ==
  IF kind = "SOURCE_DISCOVERY" THEN "TARGET_DISCOVERY" ELSE "SOURCE_DISCOVERY"

\* Variant: the workflow advances when this side, not the other, is known.
AdvanceOnOwnSide(p) ==
  /\ At(p, "inputs")
  /\ Op(p) = "discover"
  /\ call' = [call EXCEPT ![p].step = "reread",
                          ![p].to = IF Present(call[p].req.what) THEN "DISCOVERED" ELSE "NONE"]
  /\ UNCHANGED durable

\* _discover: the connector has answered; the workflow is to advance if the other
\* side is already known.
Discover(p) ==
  /\ At(p, "inputs")
  /\ Op(p) = "discover"
  /\ call' = [call EXCEPT ![p].step = "reread",
                          ![p].to = IF Present(Counterpart(call[p].req.what))
                                      THEN "DISCOVERED" ELSE "NONE"]
  /\ UNCHANGED durable

\* generate_mapping: the latest discovery of the source, then of the target.
ReadSource(p) ==
  /\ At(p, "inputs")
  /\ Op(p) = "generate"
  /\ \E n \in DOMAIN artifacts :
       /\ Latest(n, "SOURCE_DISCOVERY")
       /\ call' = [call EXCEPT ![p].step = "inputs2", ![p].inputs = {n}]
  /\ UNCHANGED durable

ReadTarget(p) ==
  /\ At(p, "inputs2")
  /\ Op(p) = "generate"
  /\ \E n \in DOMAIN artifacts :
       /\ Latest(n, "TARGET_DISCOVERY")
       /\ call' = [call EXCEPT ![p].step = "reread", ![p].inputs = @ \cup {n},
                               ![p].to = "MAPPING_PROPOSED"]
  /\ UNCHANGED durable

\* Variant: any artifact of the right kind will do.
RefersToAny(p, kind) == call[p].req.no \in Numbered(artifacts, kind)

\* _referenced_artifact: of the right kind, and the latest if the command is current.
RefersTo(p, kind) ==
  /\ call[p].req.no \in Numbered(artifacts, kind)
  /\ Current(p) => Latest(call[p].req.no, kind)

\* approve_mapping: the referenced proposal, then the discoveries; the decisions
\* must be complete, which depends on the proposal and on what was decided.
ReadProposal(p) ==
  /\ At(p, "inputs")
  /\ Op(p) = "approve"
  /\ RefersTo(p, "MAPPING_PLAN")
  /\ call' = [call EXCEPT ![p].step = "inputs2", ![p].inputs = {call[p].req.no}]
  /\ UNCHANGED durable

Decide(p) ==
  /\ At(p, "inputs2")
  /\ Op(p) = "approve"
  /\ Present("SOURCE_DISCOVERY") /\ Present("TARGET_DISCOVERY")
  /\ call' = [call EXCEPT ![p].step = "reread", ![p].to = "MAPPING_APPROVED"]
  /\ UNCHANGED durable

\* preview_transformation: the referenced approval.
ReadApproval(p) ==
  /\ At(p, "inputs")
  /\ Op(p) = "preview"
  /\ RefersTo(p, "APPROVED_MAPPING_PLAN")
  /\ call' = [call EXCEPT ![p].step = "inputs2", ![p].inputs = {call[p].req.no}]
  /\ UNCHANGED durable

\* Variant: the staging evidence may name another approval.
StagedOfAny(p) ==
  \E n \in DOMAIN artifacts :
    /\ Latest(n, "STAGING_LOAD_EVIDENCE")
    /\ call[p].req.names \in {"omitted", "managed"}

\* The latest staging evidence is of the approval the command names, and the
\* command names the managed relation or none.
StagedFor(p) ==
  \E n \in DOMAIN artifacts :
    /\ Latest(n, "STAGING_LOAD_EVIDENCE")
    /\ artifacts[n].of = {call[p].req.no}
    /\ call[p].req.names \in {"omitted", "managed"}

\* In STAGED the managed relation is taken from the evidence; in any other status,
\* a replay of the same command included, all the names have to be supplied.
Compiles(p) ==
  IF call[p].seen = "STAGED" THEN StagedFor(p) ELSE call[p].req.names # "omitted"

Compile(p) ==
  /\ At(p, "inputs2")
  /\ Op(p) = "preview"
  /\ Compiles(p)
  /\ call' = [call EXCEPT ![p].step = "reread", ![p].to = "EXECUTION_READY",
                          ![p].names = IF call[p].seen = "STAGED" THEN "managed"
                                         ELSE call[p].req.names]
  /\ UNCHANGED durable

Inputs(p) ==
  \/ Discover(p)
  \/ ReadSource(p) \/ ReadTarget(p)
  \/ ReadProposal(p) \/ Decide(p)
  \/ ReadApproval(p) \/ Compile(p)

\* An artifact that is missing, stale or of another kind; names that are missing
\* or not the managed ones.
InputsRefused(p) ==
  /\ \/ /\ At(p, "inputs")
        /\ \/ Op(p) = "generate" /\ ~Present("SOURCE_DISCOVERY")
           \/ Op(p) = "approve" /\ ~RefersTo(p, "MAPPING_PLAN")
           \/ Op(p) = "preview" /\ ~RefersTo(p, "APPROVED_MAPPING_PLAN")
     \/ /\ At(p, "inputs2")
        /\ \/ Op(p) = "generate" /\ ~Present("TARGET_DISCOVERY")
           \/ Op(p) = "approve" /\ ~(Present("SOURCE_DISCOVERY") /\ Present("TARGET_DISCOVERY"))
           \/ Op(p) = "preview" /\ ~Compiles(p)
  /\ Respond(p)
  /\ UNCHANGED durable

----------------------------------------------------------------------------
(* The record: _record_operation, and the repository's transactions        *)

\* The graph, checked against the row as it is now if the call names its version.
MayGoOn(p) ==
  call[p].req.expected = row.version =>
    call[p].to = "NONE" \/ call[p].to \in AllowedTransitions[row.status]

\* _record_operation reads the row again.  It refuses only a command that named its
\* version before there was one: any other has been admitted in the same status.
Reread(p) ==
  /\ At(p, "reread")
  /\ IF MayGoOn(p)
       THEN call' = [call EXCEPT ![p].step = "commit", ![p].seen = row.status,
                                 ![p].number = Len(artifacts) + 1]
       ELSE Respond(p)
  /\ UNCHANGED durable

Scope(p) == ScopeOf(call[p].req)

\* Variant: the key is not looked up before the effect.
NeverKnown(p) == FALSE

\* _idem: the key has been used in the scope of the command.
Known(p) == Recorded(Scope(p), call[p].key)

\* _insert_idem, in the transaction of the effect.
Record(p) ==
  idem' = [idem EXCEPT ![Scope(p)][call[p].key] =
             [digest |-> DigestOf(call[p]), asked |-> call[p].req,
              result |-> Len(artifacts') + 1]]

\* Variant: what was read from the row is not compared with the locked row.
MayTakeUnlocked(p) == ~Known(p)

\* Under the row lock: the version named is the current one, and so is the
\* artifact number; a transition moves to another status.
MayTake(p) ==
  /\ ~Known(p)
  /\ call[p].req.expected = row.version
  /\ IF Op(p) = "transition" THEN call[p].req.what # row.status
                             ELSE call[p].number = Len(artifacts) + 1

Ev(previous, new) == [previous |-> previous, new |-> new, version |-> row.version + 1]

\* transition_status, mark_failed, cancel_workflow.  The event shows the status
\* the service read, before the lock.
CommitTransition(p) ==
  /\ At(p, "commit")
  /\ Op(p) = "transition"
  /\ MayTake(p)
  /\ Room
  /\ row' = [status |-> call[p].req.what, version |-> row.version + 1]
  /\ events' = Append(events, Ev(call[p].seen, call[p].req.what))
  /\ UNCHANGED <<start, artifacts>>
  /\ Record(p)
  /\ Respond(p)

\* append_artifact (no transition), append_artifact_operation: the artifact, the
\* transition it brings, one version, one or two events, and the record.
CommitArtifact(p) ==
  /\ At(p, "commit")
  /\ Op(p) # "transition"
  /\ MayTake(p)
  /\ Room
  /\ LET c == call[p]
         seen == c.seen
     IN /\ artifacts' = Append(artifacts, [kind |-> KindOf(c.req), of |-> c.inputs])
        /\ row' = [status |-> IF c.to = "NONE" THEN row.status ELSE c.to,
                   version |-> row.version + 1]
        /\ events' = events \o <<Ev(seen, seen)>>
                            \o (IF c.to = "NONE" THEN <<>> ELSE <<Ev(seen, c.to)>>)
  /\ start' = start
  /\ Record(p)
  /\ Respond(p)

\* _idem finds the same command: its result is returned, nothing is changed.
CommitReplay(p) ==
  /\ At(p, "commit")
  /\ Known(p)
  /\ idem[Scope(p)][call[p].key].digest = DigestOf(call[p])
  /\ Respond(p)
  /\ UNCHANGED durable

\* The key was used for another command, or the version or the artifact number
\* by another.
CommitRefused(p) ==
  /\ At(p, "commit")
  /\ IF Known(p) THEN idem[Scope(p)][call[p].key].digest # DigestOf(call[p])
                 ELSE ~MayTake(p)
  /\ Respond(p)
  /\ UNCHANGED durable

\* The process dies, or the call ends without a commit: a connector that fails,
\* decisions that are incomplete, a preview the dialect cannot express.
Crash(p) ==
  /\ ~At(p, "idle")
  /\ Respond(p)
  /\ UNCHANGED durable

----------------------------------------------------------------------------
(* The orchestrators' claims and completions move the same row.            *)

Move(new, as) ==
  /\ Room
  /\ row' = [status |-> new, version |-> row.version + 1]
  /\ artifacts' = artifacts \o as
  /\ events' = events \o (IF as = <<>> THEN <<>> ELSE <<Ev(row.status, row.status)>>)
                      \o <<Ev(row.status, new)>>
  /\ UNCHANGED <<start, idem, call>>

\* claim_transport_attempt, for the latest approval.
ClaimStaging ==
  /\ row.status = "MAPPING_APPROVED"
  /\ Present("APPROVED_MAPPING_PLAN")
  /\ Move("STAGING", <<>>)

\* complete_transport_attempt: conflicts unless the row is as the claim left it.
AsClaimed == row.status = "STAGING" /\ events[Len(events)].new = "STAGING"
               /\ events[Len(events)].previous = "MAPPING_APPROVED"

StagingLoaded ==
  /\ AsClaimed
  /\ \E n \in DOMAIN artifacts :
       /\ Latest(n, "APPROVED_MAPPING_PLAN")
       /\ Move("STAGED", <<[kind |-> "STAGING_LOAD_EVIDENCE", of |-> {n}]>>)

StagingFailed ==
  /\ AsClaimed
  /\ \E s \in {"MAPPING_APPROVED", "STAGING_RECOVERY_REQUIRED"} : Move(s, <<>>)

\* claim_execution_attempt, for the latest preview.
ClaimExecution ==
  /\ row.status = "EXECUTION_READY"
  /\ Present("TRANSFORMATION_PREVIEW")
  /\ Move("EXECUTING", <<>>)

Orchestrators == ClaimStaging \/ StagingLoaded \/ StagingFailed \/ ClaimExecution

----------------------------------------------------------------------------
Refused(p) == InputsRefused(p) \/ CommitRefused(p)

Commit(p) == CommitTransition(p) \/ CommitArtifact(p)

Next ==
  \/ \E p \in Callers :
       \/ Submit(p)
       \/ Inputs(p) \/ Reread(p)
       \/ Commit(p) \/ CommitReplay(p) \/ Refused(p)
       \/ Crash(p)
  \/ Orchestrators

Spec == Init /\ [][Next]_vars

----------------------------------------------------------------------------
(* Properties *)

\* Every reachable state is well typed.
TypeOK ==
  /\ start \in Nat
  /\ row \in [status : Statuses, version : Nat \ {0}]
  /\ artifacts \in Seq(Artifact)
  /\ events \in Seq(Event)
  /\ idem \in [Scopes -> [Keys -> IdemRecord]]
  /\ call \in [Callers -> Call]

\* The audit trail tells the history of the row and nothing else: it begins with
\* the creation, every event starts where the one before it ended, no version is
\* left out, and the last event shows the row.  The previous status of an event was
\* read before the row was locked (persistence.py:288, 375).
AuditIsHistory ==
  /\ events[1] = [previous |-> "NONE", new |-> "DRAFT", version |-> 1]
  /\ \A i \in 2..Len(events) :
       /\ events[i].previous = events[i - 1].new
       /\ events[i].version \in {events[i - 1].version, events[i - 1].version + 1}
  /\ events[Len(events)].new = row.status
  /\ events[Len(events)].version = row.version

\* Whoever moves the workflow moves it along the status graph, although the graph
\* is checked on a row read before the lock.
LegalTransitions ==
  [][row'.status = row.status \/ row'.status \in AllowedTransitions[row.status]]_vars

\* The step is the recording of a planning command's artifact.
Records(p, op) ==
  /\ At(p, "commit") /\ Op(p) = op /\ row'.version # row.version
  /\ call'[p].step = "idle"

\* A planning artifact is made from the latest evidence there is when it is
\* recorded, although it was read in other transactions: a proposal from the latest
\* discoveries, an approval from the latest proposal, a preview from the latest
\* approval, and in STAGED from the approval the table was loaded for.
MadeFromLatest ==
  [][\A p \in Callers :
       LET of == call[p].inputs IN
       /\ Records(p, "generate") =>
            \E s, t \in of : /\ of = {s, t}
                             /\ Latest(s, "SOURCE_DISCOVERY")
                             /\ Latest(t, "TARGET_DISCOVERY")
       /\ Records(p, "approve") => \E n \in of : of = {n} /\ Latest(n, "MAPPING_PLAN")
       /\ Records(p, "preview") =>
            /\ \E n \in of : of = {n} /\ Latest(n, "APPROVED_MAPPING_PLAN")
            /\ row.status = "STAGED" =>
                 \E n \in DOMAIN artifacts :
                   Latest(n, "STAGING_LOAD_EVIDENCE") /\ artifacts[n].of = of]_vars

\* The second discovery of two that race, or follow each other in either order,
\* moves the workflow on: it is not left in DRAFT with both sides discovered.
DiscoveryAdvances ==
  [][\A p \in Callers :
       Records(p, "discover") =>
         (row'.status = "DISCOVERED" <=> Present(Counterpart(call[p].req.what)))]_vars

\* The table that was loaded is the one of the plan that is to be executed.
StagedForPlan ==
  \A n, m \in DOMAIN artifacts :
    Latest(n, "STAGING_LOAD_EVIDENCE") /\ Latest(m, "TRANSFORMATION_PREVIEW") =>
      artifacts[n].of = artifacts[m].of

\* A plan that the planning route recorded is executed from the staging table that
\* was loaded for it, although approvals are appended between the load, the preview
\* and the claim, and plan and table are compared only after the commit of the
\* execution (execution.py:192).
ExecutesStagedPlan ==
  [][row.status # "EXECUTING" /\ row'.status = "EXECUTING" => StagedForPlan]_vars

\* Repeating the same preview under the same key returns the recorded result, that
\* is, it is not refused.
DoneBefore(p) ==
  /\ Known(p)
  /\ idem[Scope(p)][call[p].key].asked = call[p].req
PreviewReplayReturns ==
  [][\A p \in Callers : Op(p) = "preview" /\ DoneBefore(p) => ~Refused(p)]_vars

----------------------------------------------------------------------------
(* Why it works: with clients that name only versions they were told of, a *)
(* command that still names the current version has read nothing that has  *)
(* changed since, for every change takes a version.                        *)

\* What a call has read, if the row has not moved on.
UpToDate(c) ==
  LET one(kind) == \E n \in DOMAIN artifacts : c.inputs = {n} /\ Latest(n, kind)
  IN
  /\ c.current
  /\ c.seen = row.status
  /\ Planning(c.req) => row.status \in NeededBy(c.req)
  /\ c.req.op = "transition" => MayRequest(row.status, c.req.what)
  /\ c.req.op = "transition" \/ c.req.op = "append" => c.step = "commit" /\ c.to = "NONE"
  /\ c.step = "commit" => c.to = "NONE" \/ c.to \in AllowedTransitions[row.status]
  /\ c.req.op = "discover" /\ c.step # "inputs" =>
       c.to = IF Present(Counterpart(c.req.what)) THEN "DISCOVERED" ELSE "NONE"
  /\ c.req.op = "generate" /\ c.step = "inputs2" => one("SOURCE_DISCOVERY")
  /\ c.req.op = "generate" /\ c.step \in {"reread", "commit"} =>
       \E s, t \in DOMAIN artifacts :
         c.inputs = {s, t} /\ Latest(s, "SOURCE_DISCOVERY") /\ Latest(t, "TARGET_DISCOVERY")
  /\ c.req.op = "approve" /\ c.step # "inputs" => one("MAPPING_PLAN")
  /\ c.req.op = "preview" /\ c.step # "inputs" =>
       /\ c.inputs = {c.req.no}
       /\ Latest(c.req.no, "APPROVED_MAPPING_PLAN")
  /\ c.req.op = "preview" /\ c.step \in {"reread", "commit"} /\ row.status = "STAGED" =>
       \E n \in DOMAIN artifacts :
         Latest(n, "STAGING_LOAD_EVIDENCE") /\ artifacts[n].of = c.inputs

CommandDiscipline ==
  /\ \A p \in Callers : ~At(p, "idle") =>
       /\ call[p].req.expected <= row.version
       /\ call[p].req.expected = row.version => UpToDate(call[p])
  /\ \A s \in Scopes, k \in Keys :
       Recorded(s, k) => idem[s][k].asked.expected < row.version

----------------------------------------------------------------------------
(* Refinement *)

Log == INSTANCE CommandLog
         WITH Commands <- Scopes \X Keys,
              Evidence <- Artifact,
              version  <- row.version,
              evidence <- artifacts,
              result   <- [c \in Scopes \X Keys |-> idem[c[1]][c[2]].result]

\* Calls, replays, crashes, refusals and the orchestrators behave, towards the
\* durable state, like commands that take effect at most once each.
ImplementsCommandLog == Log!Spec
=============================================================================
