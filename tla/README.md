# schemabridge: a verification development

schemabridge moves a table from one database to another under a *durable
workflow*: a PostgreSQL control plane records what was discovered, approved,
staged, executed and validated, and every remote operation on a source or target
database is claimed there before it starts and completed there after it ended.
The control plane shares no transaction with those databases. This directory
models that workflow, and the data that moves under it, in TLA+, checks it with
TLC on small instances, and proves the facts it rests on with TLAPS for every
instance.

## 1. The system

### Inventory

| Component (source under `src/schemabridge/`) | State it keeps | Operations | Talks to | What makes it correct |
|---|---|---|---|---|
| Status graph (`models/workflow.py`) | none | `ALLOWED_TRANSITIONS`, the managed statuses | used by every writer of the row | no status is reached but along the graph |
| Persistence service, PostgreSQL repository (`services/workflows/persistence.py`, `persistence/postgresql.py`) | workflow row (status, version, latest artifact version), artifacts, audit events, idempotency records, transport / execution attempts, validation runs, job rows | create, transition, append, record; claim, mark, complete of each operation; job rows | called by all orchestrators, one transaction per call under a row lock | a version is consumed once; a claim is made once; artifacts, attempt, status, version, audit and idempotency record move together |
| Planning (`services/workflows/planning.py`) | none of its own | discover, propose, approve, preview | persistence, connectors | a derived artifact is made from the latest of what it is derived from |
| Mapping proposal and approval (`mapping/`, `models/mapping.py`) | proposals, decisions | propose, decide, approve, compile | planning | suggestions are one-to-one and acceptable; an approval covers exactly the reviewed columns |
| Transport (`services/workflows/transport.py`, `services/batch_transport.py`) | a managed staging table per attempt, at the target | load, drop | persistence, source and target connectors | evidence is recorded once, of a whole table; a failed load leaves no table |
| Spark transport and landing types (`transport/`, staging types of `connectors/`) | slices of a load | choose a strategy, slice, count, append | connectors | the staging table is a copy of the source |
| Execution (`services/workflows/execution.py`) | one `INSERT ... SELECT` per attempt, at the target | execute, drop staging after the commit | persistence, target adapter | the rows are written at most once; evidence says what the target did; a retry follows a proved rollback only |
| Validation (`services/workflows/validation.py`) | none at the databases (queries only) | validate | persistence, both connectors | one verdict, and the row shows it |
| Strict validation (`validation/`) | pages of keys, aggregates | aggregate, page, reconcile | connectors | a verdict over tables at rest is right |
| Migration jobs (`services/jobs/`, job part of the repository) | job rows: status, stage, progress | submit, claim, advance, finish | the orchestrators | one worker drives a job; a failed job has written nothing |
| SQS notification and consumer (`services/jobs/sqs*.py`) | the queue | publish, receive, delete | job claim | a delivery is deleted only when its job is handled |
| Database service, profile registry and cache | cached connectors and schemas | connect, read, invalidate | connectors | what is cached belongs to the profile it was read with |
| Control-plane migration runner (`persistence/migrations.py`) | applied migrations | apply, verify | PostgreSQL | each applied once, in order |
| Connectors and dialects, HTTP API, artifact codec | connections; requests; bytes | - | all of the above | see section 7 |

### How the parts interact

An API request or a job worker calls an orchestrator. Planning commands read the
row and artifacts, talk to a connector or compute a proposal, read the row again and
commit in a transaction of their own. The three remote operations call *claim*
(transaction 1: the row is locked, the version the client named is compared, an
attempt is inserted, the status becomes `STAGING`, `EXECUTING` or `VALIDATING`),
*mark running* (transaction 2: the caller that finds the attempt `CLAIMED` alone may
go on), then work on the remote databases, and call *complete* (transaction 3:
attempt, evidence, status, version). Migration jobs put a table, a queue and worker
processes around the sequence of these operations.

### What is hard

* Claim, remote operation and completion are three transactions of a process that
  may die or be repeated by its client between any two of them; two callers may
  share an idempotency key or race with different keys.
* The remote answer may be lost while the statement commits, or the statement may
  be applied after the connector gave up on it.
* Checks (lineage, status, artifact number) are made on rows read *before* the
  lock is taken, and are skipped when the client names a version other than the
  one just read.
* Operations that do not hold the row (artifact appends, cleanup records) move the
  version under an operation that does.
* The source is read several times (counts, slices, pages) while its application
  goes on writing it, and Spark may run a task twice.
* Three SQL dialects store, round and evaluate the same value differently.
* A queue delivers notifications twice, late, or - if the send fails - never.

`PROJECT.json` lists each of these hazards at its line of code, with the
properties that would notice it, or why none does.

## 2. The modules

| Module | Models | Role |
|---|---|---|
| `WorkflowStates` | `models/workflow.py`, the guards of `transition_status` and `_append` | constants of all state machines |
| `WorkflowCommands` | `WorkflowPlanningOrchestrator` and the commands of `WorkflowPersistenceService`: transitions, appended artifacts, planning artifacts, audit events, idempotency records | state machine |
| `CommandLog` | - | what the durable workflow promises: a command takes effect once, in one version, and nothing recorded changes |
| `MappingPlan` | scores, suggestions, approval, automatic transformation, what a dialect can compile | state machine over small tables |
| `StagingTransport` | `WorkflowTransportOrchestrator`, batch transport, transport claim | state machine |
| `CertifiedCopy` | - | what staging promises: one certified, whole table |
| `TableTransfer`, `StagingTypes` | the rows of one load: `prepare`, `select_execution_plan`, sequential and Spark strategy, landing types | state machine |
| `TargetExecution` | `WorkflowExecutionOrchestrator`, execution claim | state machine |
| `WriteOnce` | - | what execution promises: at most one write, and a record that is never wrong |
| `ValidationRun` | `WorkflowValidationOrchestrator`, validation claim | state machine |
| `OneVerdict` | - | what validation promises: one verdict that stands |
| `StrictValidation` | `run()` of the validation service: aggregates, key paging, reconciliation | state machine |
| `MigrationJobs` | `services/jobs/`, job rows, SQS | composes the three operations |
| `JobLedger` | - | what jobs promise: a failed job never writes, the next one may |
| `MC*`, `MC*Live` | - | instances and symmetry; counted faults and fairness |
| `*Proofs` | - | theorems |

State corresponds to code as the comments on the `VARIABLES` say: a table of the
control plane is a function from identifiers to rows, a row is cut down to the
columns a guard reads, and a remote database is reduced to the fate of the
statements sent to it (in `TableTransfer` and `StrictValidation`: to a function from
keys to what the row holds). One action is one transaction or one remote call; a
caller carries the local variables that survive from one to the next (`call[p]`,
`work[w]`). `PROJECT.json`, under `map`, gives the lines of every definition.

Decisions that hold throughout:

* **Versions.** `MaxVersion` bounds what *other* clients may add, never what the
  operation under study does; `MaxCommits` in `WorkflowCommands` leaves a call
  before its commit.
* **Other clients** are not restricted to the happy path: they append approvals and
  other artifacts, request transitions and record cleanups whenever the code lets
  them.
* **`Pipelined`**. A command names the version it expects. With `FALSE` a client
  names only versions it was told of; with `TRUE` it may also name the version its
  own unanswered command is about to produce. The service compares status and
  lineage only when the version just read is the version named, so the two differ:
  see section 6. The runs use `FALSE`, because most of what they check needs it; the
  theorems say which results need it (section 5). The refusal of `Reread` is met by
  pipelining clients only.
* **Row numbers of artifacts** (`number`, `ArtifactNumberFree`, `appended`): the
  services compute the number of the next artifact from a row they read before the
  lock; the unique constraint refuses a stale number, unless the last change of the
  row appended nothing.
* **Several reads of a handler in one step.** In the claims, what another client does
  between the reads of a handler changes the version, and the version is compared
  again under the lock. `WorkflowCommands` keeps each read a step of its own.
* **`RollbackProven`**. The adapter interface allows an answer that proves the
  rollback; the shipped adapters never give it. The model takes `TRUE` (more
  behaviours): with `FALSE` every failed execution ends uncertain.
* **`LateStatements`**. A target may still apply a statement that the connector gave
  up on. The `staging` run takes `TRUE`, so that everything it checks holds with
  late statements; that no *empty* table reappears after its drop is not among it,
  and is promised only by targets that are done with a statement when its connection
  ends.
* **A claim in two steps.** `claim_migration_job` locks with `FOR UPDATE SKIP LOCKED`;
  the lock and the commit are two steps (`Lock`, `Claim`), so that another worker can
  find the row locked. The other claims wait for the lock and are one step.
* **Repeated calls under a recorded key** are serialised by the advisory lock of
  `_idem`: a call with the same key and the same command returns the recorded
  attempt and is never refused.
* **Values.** In `TableTransfer` a value is the number of digits after the point it
  needs, which is what a landing type may cut; in `StrictValidation` a column holds
  one of the `Cells` or NULL. `Cast` says what each system's `CAST` makes of a value,
  `sourceTells` and `targetTells` which values a column's collation tells apart in
  `COUNT(DISTINCT)`, and `keysAlike` whether the two drivers return equal keys as equal
  objects. `TransferConstants` asks of
  `Vals` only that it names what a cut value becomes: where a column keeps fewer digits
  than some value needs, that number of digits is itself a value. In `MappingPlan` an
  expression is the columns it reads, the types it casts to and its depth, a catalog a
  number; a name is its words, their order and its style; scores are integers, in hundredths.
* **Counting.** `COUNT(*)` of a staging table is the cardinality of its rows, each with
  the number of its copy; Python's `Counter` of keys is the set of their numbered
  occurrences, and the difference of two counters the difference of the sets. The keys
  `ORDER BY` returns are those of the rows by place, the place of a row being the number
  of rows that do not come after it.

`MigrationJobs` represents staging, execution and validation by their claims and
completions on the workflow row, and `WorkflowCommands` by theirs too: the modules
above show what happens in between. `MigrationJobs` assumes clients that do not
pipeline. Uncaught errors of a worker, first of all `WorkflowConflictError`, end its
process, as the scripts under `scripts/` do, so that they are modelled as its death.

Definitions introduced as a *variant* are slips a programmer could make. They are
not part of the model; each shows that a property notices the slip.

## 3. The runs

| Run | Shows | Bounds |
|---|---|---|
| `commands` | the audit trail is the history of the row; transitions follow the graph; planning artifacts are made from the latest evidence; the second of two discoveries moves the workflow on; a plan is executed from the table loaded for it; `CommandLog` is implemented | 2 callers, 1 key in 8 scopes, 4 commits from a workflow just created, discovered, approved or staged; clients ask for `DISCOVERED` and `CANCELLED` and append discoveries and approvals |
| `mapping_review` | suggestions are one-to-one and have no rival; a proposal can be accepted as it stands and compiles for every system; an approval without override joins columns of related types that exist in the discoveries it was reviewed with | tables of 1 and 2 columns, 5 names, 3 expressions, 2 catalogs, all decisions, 1 rediscovery |
| `table_transfer` | a successful load is a copy of the source; an accepted load does not fail on row caps or an impossible plan; progress and disposition are true of the table | 3 keys, 3 values, a full, a partial and an empty source; 16 setups, one per ending of `prepare` and `select_execution_plan`; 2 writes by the application, 2 slices, 2 attempts per task |
| `strict_validation` | over tables at rest the verdict is right; tables that only grow are read whole | 4 keys, 4 sources, targets that lost, gained, doubled or nulled a row; 2 values besides NULL; 22 setups; pages below, at and above the row caps; 2 writes |
| `execution` | `ClaimDiscipline`; at most one commit; the row agrees with the attempts; `WriteOnce` is implemented; no attempt is claimed for a superseded plan | 2 callers, 2 keys, 2 attempts, version 3 |
| `execution_progress` | `EXECUTING` is left; the cleanup after a commit is completed | 2 callers, 1 key, 1 attempt, 2 faults |
| `staging` | `LoadDiscipline`; a load reported as cleaned up left no row, one table at most holds rows, row and attempts agree; `CertifiedCopy` is implemented; no load is claimed for a superseded approval | 2 callers, keys, attempts, batches; version 3; late statements and crashes |
| `validation` | `VerdictDiscipline`; the row shows the verdict and an open run judges by the latest plan; `OneVerdict` is implemented | 2 callers, keys, runs; one cleanup still to be recorded; version 3 |
| `validation_progress` | `VALIDATING` is left although a cleanup takes the version away from the answer | 2 callers, 1 key, 2 faults |
| `jobs` | `JobDiscipline`; the jobs and the workflow row tell the same story; `JobLedger` is implemented | 2 workers, 2 jobs, 1 batch, one change by another client, both kinds of worker |
| `jobs_progress` | every submitted job concludes, though notifications repeat and workers die before their claim | 2 workers, 2 jobs, 2 batches |
| `jobs_redelivery` | finding 1 (violation) | 1 worker, 1 job |

Each safety run checks the type invariant of its module too.

**Why these bounds.** Two callers with two keys give all races of the claims: same
key, different keys, and a third party is represented by the other clients. Two
attempts (runs, jobs) are needed to see a retry, and a second retry starts from the
same control state as the first. Two batches distinguish an empty, a partial and a
whole table. One change by another client at any moment of a job is enough to break
each of its version checks; two jobs show a retry of a failed job. In `commands`
one key is a key in each of eight scopes, and four commits are what it takes for an
approval to be superseded, the table to be loaded, a preview to be recorded and the
plan to be claimed. Three keys in two slices give a boundary inside the table, an
empty slice and a key that moves across while it is read; four keys give pages that
are full, partial and empty. What does not depend on the bounds is proved (section 5).

**Deadlock** is checked, except in the runs of `MigrationJobs`, where the system has
stopped when every job has ended and other clients have used up `MaxForeign`, and of
`MappingPlan`, `TableTransfer` and `StrictValidation`, which model one review, one
load and one validation, and end.

## 4. Fairness

The `*Live` modules state it, and it is what the code's scheduling justifies: a
handler that is alive runs on (synchronous code, a timeout on every remote call),
the target decides a statement it was sent, the clock passes the timeout of a running
attempt, a client without an answer repeats its command under the same key (the
documents require idempotency for this), and a queue delivers what is not deleted.
Repetitions and a worker's claim are strongly fair, because another process may
take the opportunity again and again. Nobody has to issue a *new* command or a new
job. Crashes are bounded by `MaxFaults` (execution, validation); in
`MCMigrationJobsLive` a worker may die as often as it likes, but only before its
claim, and no notification is lost: after either the code promises nothing, as the
hazards and finding 1 say.

## 5. The proofs

Proved by TLAPS for every set of callers, keys, attempts, runs, workers, jobs, names,
tables or setups and every bound; the only assumptions are the named `ASSUME`s on the
constants, which TLC evaluates, and those in the column *clients*: *any* holds with
pipelining clients too, *told* assumes `~Pipelined`. Every invariant, action property
and refinement that a passing run checks is stated by a theorem.

| Module | Theorem | States | Clients |
|---|---|---|---|
| `WorkflowCommandsProofs` | `TypeCorrect` | type invariant | any |
| | `CommandsLogged` | `WorkflowCommands` implements `CommandLog` | any |
| | `DisciplineKept` | a command that still names the current version has read nothing that changed | told |
| | `TransitionsLegal` | the row moves along the status graph | told |
| | `ArtifactsMadeFromLatest` | planning artifacts are made from the latest evidence | told |
| | `DiscoveriesAdvance` | the second discovery moves the workflow on | told |
| | `AuditTrailTrue` | the audit trail is the history of the row | told |
| | `ExecutedFromItsTable` | a plan is executed from the table loaded for it | told; plans and load evidence are recorded by their routes only |
| `MappingPlanProofs` | `PlanTypeCorrect` | type invariant | - |
| | `SuggestionsOneToOne` | suggestions form a matching without rivals | - |
| | `SuggestionsApprovable` | a proposal can be accepted as it stands, and compiles with a staging table in the target's catalog | - |
| | `ApprovalsHold` | an approval is of what was reviewed | - |
| `StagingTransportProofs` | `TypeCorrect` | type invariant | any |
| | `LoadIsDisciplined` | `LoadDiscipline` is invariant | any |
| | `CertifiesOnce` | `StagingTransport` implements `CertifiedCopy` | any |
| | `RowShowsLoads` | row, attempts and target agree (`RowMatchesLoads`), late statements included | told |
| | `LoadsAreOfTheLatest` | no load is claimed for a superseded approval | told |
| `TableTransferProofs` | `LoadIsFaithful` | the inductive invariant of a load | - |
| | `TypeCorrect` | type invariant | - |
| | `CopiesTheSource` | a successful load is a copy of the source (`CopyOfTheSource`) | - ; for columns whose landing type keeps their digits |
| | `DocumentedIsCopied` | the same | - ; for columns whose digits the catalog tells, or whose type needs no precision |
| | `DocumentedIsLossless` | every row a successful load leaves is one the source had (`LandingIsLossless`) | - ; for the same columns |
| | `AcceptedLoads` | an accepted load does not fail on row caps or an impossible plan | - |
| | `ReportsNeverLie` | progress and disposition are true of the table | - |
| | `SlicesSplit` | Spark's slices cover every key exactly once | - |
| `TargetExecutionProofs` | `TypeCorrect` | type invariant | any |
| | `ClaimIsDisciplined` | `ClaimDiscipline` is invariant | any |
| | `CommitsAtMostOnce` | the rows are inserted at most once | any |
| | `RetriesWaitForRollback` | an attempt after another implies its rollback | any |
| | `EvidenceNeverLies` | a terminal attempt says what the target did | any |
| | `StagingDroppedAfterSuccess` | staging is dropped only after a recorded commit | any |
| | `WritesOnce` | `TargetExecution` implements `WriteOnce` | any |
| | `RowShowsAttempts` | the row agrees with the attempts (`RowMatchesAttempts`) | told |
| | `AttemptsAreOfTheLatest` | no attempt is claimed for a superseded plan | told |
| `ValidationRunProofs` | `TypeCorrect` | type invariant | any |
| | `VerdictIsDisciplined` | `VerdictDiscipline` is invariant | any |
| | `JudgesOnce` | `ValidationRun` implements `OneVerdict` | any |
| | `RowShowsRuns` | the row shows the verdict, an open run judges by the latest plan | told |
| `StrictValidationProofs` | `ReadingIsSound` | the inductive invariant of a strict validation | - |
| | `TypeCorrect` | type invariant | - |
| | `QuietComparisonIsExact` | over tables at rest missing, extra and duplicate keys are counted exactly, and a comparison that passes is of the same keys | - |
| | `FaithfulCopyStands` | a faithful migration is not found to have failed, between systems that agree on its expressions, on which values are distinct, and on the keys compared | - |
| | `QuietVerdict` | both together (`QuietVerdictIsRight`) | - |
| | `AppendsAreNotMissed` | tables that only grow are read whole (`AppendedTablesAreReadWhole`) | - |
| `MigrationJobsProofs` | `TypeCorrect` | type invariant | told |
| | `JobsAreDisciplined` | `JobDiscipline` is invariant | told |
| | `JobsKeepTheLedger` | `MigrationJobs` implements `JobLedger` | told |
| | `RowShowsJobs` | the jobs and the workflow row tell the same story | told |

**Claims.** "At most one commit" is not inductive: a caller about to send a statement
is not ruled out by it. The strengthening says what each caller *holds* at its step
and what backs it: at most one attempt is not closed as failed
(`OneBlockingAttempt`), at most one caller works on an attempt (the one that found
it `CLAIMED`), and the target's state agrees with attempt and step. Only the claim
creates an attempt, and only when none blocks; only *mark running* admits a worker,
and only once; from there on, a step of a caller touches its own attempt alone.
Status and version of the row do not occur: this is why the result holds for
pipelining clients, whatever they do to the row.

**The row.** What relates the row to the attempts needs an account of what each
caller was told: a caller whose command names the current version has read the
status and the lineage the row still has (`Informed`, `AllInformed`), for whatever
changes either takes a version. With it a claim is made from the right status and
for the latest plan, and the open attempt, if there is one, is exactly what the
status shows.

**Commands.** `CommandDiscipline` is the same idea for the planning commands, read by
read: `UpToDate` says what a call holds at each step if the row has not moved on,
and every commit, claim and completion leaves every other call behind (lemma
`VersionTaken`). Graph, lineage, advance and audit trail follow in one step each from
what a commit knows. `ExecutedFromItsTable` adds one invariant (`PlansOfTables`):
once a table is loaded the row never returns to a status in which a mapping is
proposed or approved, and in `EXECUTION_READY` the latest plan is the table's. That
commands take effect once needs none of this: it is in the transaction.

**Jobs.** The claim is the row lock that a worker takes on a queued job, and what
backs a worker is a running job at the worker's own stage; `FatesAt` lists what may
have become of the job's statement at every step of the pipeline, so that an ending
can be compared with it when it is recorded. `Story` adds the row: one job at most is
active, and its worker holds the row exactly during an operation.

**Mapping.** The selection of suggestions is a pair of row and column maxima with a
margin, so that two suggestions with a common column would each have to score more
than the other; acceptance follows from what a score above the threshold says of
names and types.

**Loads.** A copy is not an invariant until the load is over; before, the invariant
says what is there at each step of the path taken. With a cursor (`CursorAndTable`) the
table holds, once each, the rows the cursor has given, and they are what is counted.
With Spark nothing of the kind holds while the application writes: the slices are read
twice, at different times. It holds while the source has not been written since the
load began (`QuietSpark`), because the slices split the keys (`SlicesSplit`): the
count is that of the slices done, and each of their rows is in the table at least once.
Then the final comparison of counts closes the gap: a table that holds every row of the
source, and as many rows as the source, holds each once, whichever task ran again. So
certification rests on an equality of two numbers, and the proof says when that is
enough. Whether the landed values are those of the source is a property of the landing
types alone, which is why `CopiesTheSource` names it as a hypothesis: it is true of
every column but a time of unknown precision (`DocumentedLandsWhole`), and for that one
TLC refutes it (section 6).

**Strict validation.** The rows of a table have places in the order of their keys, a
place for each row (`PlacesAreTaken`), so that the keys in order are as many as the
rows and a key occurs as often as rows have it. A row added above all of them comes last
and leaves the other places alone (`AppendedComesLast`). Therefore, while the tables only
grow, the pages read are the first keys of the table as it is *now* (`PagesFollow`), and
an empty page means that they are all of it. That needs the offset to be the number of
keys read: it is the reason why a row cap below the page size is harmless. What is left
is counting: `Counter` subtraction is the difference of the numbered occurrences, and
these are the rows (`DifferencesAreCounted`). Where the drivers return keys unlike, no
occurrence of one side is one of the other (`ReturnedUnlike`), so that only two empty
tables pass. The invariant keeps what was read
apart for the two sides, because the source may be written while the target is read:
of the source is known that every key that was there at the beginning was read once, of
the target that it was read as it is.

Model-checked only: liveness (`ExecutionSettles`, `ValidatingResolves`,
`EveryJobConcludes`), which is out of the prover's reach, as is `ENABLED`.

## 6. What the runs found

1. **`jobs_redelivery`.** A worker that fails after its claim leaves the job `RUNNING`;
   the next delivery finds nothing to claim and is deleted. `AWS_SQS_WORKER.md` says that
   the message of a failed worker is kept for a later retry.

The following have a configuration of their own beside the runs, to be started by
hand; TLC finds the named property violated by each.

| Configuration (module) | Property | What the code does |
|---|---|---|
| `TargetExecution_lineage.cfg` (`MCTargetExecution`) | `ClaimUsesLatestPlan` | The claim does not compare lineage under the lock, and the service compares it only if the version it read is the version named. A client that sends *append approval* and, before its answer, *execute* with the version the append will produce gets the superseded plan executed. `ARCHITECTURE.md:194` says the order of the checks keeps a stale preview from bypassing approval. |
| `StagingTransport_stuck.cfg` (`MCStagingTransport`) | `ProvedCleanupReturns` | `_append` refuses artifacts during `EXECUTING` and `VALIDATING` but not during `STAGING`. An append while the load runs moves the version, the completion of the load conflicts, and with no operation that closes the attempt the workflow stays `STAGING` although the table was dropped and the cleanup proved (`ARCHITECTURE.md:170`). |
| `WorkflowCommands_replay.cfg` (`MCWorkflowCommands`) | `PreviewReplayReturns` | A preview without staging names is accepted in `STAGED`; the same command again, under the same key, is refused because the row has left `STAGED` and the names are missing (`planning.py:421`). `docs/PRD.md:176` and `planning.py:107-108` promise that a repetition returns the recorded result. |
| `MappingPlan_override.cfg` (`MCMappingPlan`) | `LowConfidenceIsOverridden` | A mapping the matcher never suggested is approved without an override when its types are compatible (`approval.py:185-190`); `docs/PRD.md:113` asks for an explicit override of low-confidence matches. |
| `TableTransfer_snowflake.cfg` (`MCTableTransfer`) | `MismatchIsReal` | The final count of a Spark load reads the column `row_count`, unquoted (`spark/strategy.py:170`); Snowflake returns `ROW_COUNT`, the count is not found, and every Spark load into Snowflake is taken for a mismatch. `docs/SPARK_TRANSPORT.md:39-40` promises an exact comparison. |
| `TableTransfer_landing.cfg` (`MCTableTransfer`) | `LandingIsLossless` | A timestamp of unknown precision lands in a bare `DATETIME` in MySQL, which keeps no fraction (`mysql/connector.py:235`); its docstring promises a lossless landing type. |
| `StrictValidation_dialects.cfg` (`MCStrictValidation`) | `FaithfulIsNotFailed` | The transformed value is computed at the source in the source's dialect and in the statement in the target's; they disagree on `CONCAT` with NULL, a cast or a collation, and a faithful migration is judged `FAILED`. The docstring of `compile_validation_sql` says both sides measure the same values. |

Met on the way, without a configuration:

* A transition requested with the version of an unanswered command is not compared
  with the status graph (`persistence.py:271`, `postgresql.py:920`), so that with
  pipelining clients a workflow may be withdrawn from a managed status.
* A client may append a `TRANSFORMATION_PREVIEW` itself (`api/routes/workflows.py:638`),
  also one for another approval than the staged one; the execution recompiles and
  compares it with the latest approval, not with the staged one
  (`execution.py:192` comes after the commit). `ExecutedFromItsTable` names this as
  its assumption. An approval appended again with the same content has the smaller
  effect that the cleanup refuses the table for good.
* `docs/STRICT_VALIDATION.md` says that renamed key mappings do not qualify for strict
  validation; the code accepts renamed direct copies.
* Snowflake as the source of a strict validation always raises: its relation has two
  parts and three are required (`key_batches.py:57`).

## 7. Not modelled

* **Profile cache** (`services/database_service.py`): a dictionary under one lock,
  emptied only when the application shuts down. The row caps and the write permission of a
  profile are in `TableTransfer` and `StrictValidation`.
* **Control-plane migration runner** (`persistence/migrations.py`): everything that is
  missing is applied in one transaction under an advisory lock. A second runner waits,
  a crash rolls back, and there is no state in between.
* **Connectors and SQL dialects**, their greater part: connection handling, catalog
  queries, text generation and driver calls. What the orchestrators can observe of them
  (success, error, proved rollback, late statement) is in `TargetExecution` and
  `StagingTransport`; landing types, batch caps, the column names of a count and which
  expressions a dialect can render are in `StagingTypes`, `TableTransfer`,
  `StrictValidation` and `MappingPlan`.
* **HTTP API**: request parsing and rendering, no state; its one rule, the mapping of
  errors to status codes, changes nothing in the workflow.
* **Artifact codec**: serialisation of values without control flow that matters here.
* **`validation/sql_guard.py`**: inspects the text of statements.
* **The hashes that chain the audit events, listing and paging of the workflows**: a
  pure function of what is recorded, and reads.
* **Staging and execution in full detail together.** `WorkflowCommands` composes the
  claims and completions of both with the planning commands; the callers and targets
  of both at once are beyond TLC, and the two meet only in the row, the staging
  evidence and the cleanup, which `CheckCleanup` of `TargetExecution` models.

## 8. Plan

Done: all state machines of section 2, their abstract specifications, and the proofs
of section 5. Left:

1. Progress of `StagingTransport`, as soon as the code has an operation that closes an
   abandoned load.
2. `MigrationJobs` over the detailed operations, by way of their abstract
   specifications instead of their claims and completions.
