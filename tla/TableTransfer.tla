--------------------------- MODULE TableTransfer ---------------------------
(***************************************************************************)
(* The data of one staging load: ProfileBoundBatchTransportService.prepare *)
(* and select_execution_plan, the sequential and the Spark strategy with   *)
(* the connector calls they make, and run()'s cleanup.  StagingTransport   *)
(* models what is recorded of a load; this module models which rows reach  *)
(* the staging table while the application that owns the source goes on    *)
(* writing it.                                                             *)
(***************************************************************************)
EXTENDS Naturals, FiniteSets, FiniteSetsExt, StagingTypes

CONSTANTS
  Keys,                \* the identities of the source's rows, integers
  Vals,                \* what a row can hold, told apart by how many digits
                       \* after the point it needs
  NoRow,               \* the content of a key that has no row
  NoTable,             \* the staging table while it does not exist
  Tables,              \* the source tables a load may start from
  Setups,              \* the profiles, requests, settings and metadata
  MinimumSourceRows,   \* SCHEMABRIDGE_SPARK_MINIMUM_SOURCE_ROWS
  Partitions,          \* SCHEMABRIDGE_SPARK_NUM_PARTITIONS
  TaskAttempts,        \* how often Spark starts one task
  MaxWrites            \* bound on the application's writes during the load

Unset == 0   \* a request without batch_size

Dialects == {"postgresql", "mysql", "snowflake"}

\* sourceFits and targetFits stand for what the Spark plan factories ask of
\* a profile and its relation: same system, same database, a port or a
\* warehouse, a MySQL schema equal to the database.
Setup == [source: Dialects, target: Dialects,
          sourceCap: Nat \ {0}, targetCap: Nat \ {0}, asked: Nat,
          writable: BOOLEAN, sameDatabase: BOOLEAN,
          configured: BOOLEAN, runtime: BOOLEAN, package: BOOLEAN,
          estimate: Nat \cup {Unknown}, column: Column,
          key: {"integer", "text", "composite", "none"},
          sourceFits: BOOLEAN, targetFits: BOOLEAN]

\* Vals has a name for what each value becomes when a column keeps fewer
\* digits than it needs, and none needs more digits than Exact stands for.
ASSUME TransferConstants ==
  /\ Keys \subseteq Nat /\ IsFiniteSet(Keys)
  /\ Vals \subseteq 0 .. Exact /\ NoRow \notin Vals
  /\ \A s \in Setups :
       LET digits == Landing(s.target, s.column)
       IN  digits # Unsupported => digits \in Vals \/ \A v \in Vals : v <= digits
  /\ NoTable \notin [Keys \X Vals -> Nat]
  /\ Tables \subseteq [Keys -> Vals \cup {NoRow}]
  /\ Setups \subseteq Setup
  /\ MinimumSourceRows \in Nat \ {0} /\ Partitions \in Nat \ {0}
  /\ TaskAttempts \in Nat \ {0} /\ MaxWrites \in Nat

VARIABLES
  setup,      \* what the load was asked with; never changes
  source,     \* the source table, by key
  been,       \* every state the source has been in since the load began
  pc,         \* where the loader is
  batchSize,  \* PreparedBatchTransport.batch_size
  spark,      \* spark_selected
  fallback,   \* fallback_reason, "NONE" when Spark was selected
  cursor,     \* the rows the open cursor has not returned yet
  slices,     \* the key ranges Spark reads the source by
  todo,       \* <<slice>>s the running Spark job has still to do
  attempts,   \* tasks Spark has started again
  staging,    \* how often each row is in the staging table
  tally,      \* batch_count, rows_read and rows_written of transfer()
  reported,   \* the last BatchTransportProgress
  why,        \* what made the load fail
  outcome     \* BatchTransportDisposition

load == <<batchSize, spark, fallback, cursor, slices, todo, attempts>>
vars == <<setup, source, been, pc, load, staging, tally, reported, why, outcome>>

Row == Keys \X Vals
EmptyTable == [r \in Row |-> 0]
RowsOf(table) == {r \in Row : table[r[1]] = r[2]}
Holding(rows) == [r \in Row |-> IF r \in rows THEN 1 ELSE 0]

\* A value in the staging table has the digits its landing type keeps.
Kept(v) ==
  LET digits == Landing(setup.target, setup.column)
  IN  IF v <= digits THEN v ELSE digits
Landed(rows) == {<<r[1], Kept(r[2])>> : r \in rows}
With(table, rows) == [r \in Row |-> table[r] + Holding(Landed(rows))[r]]

\* The values the source column can hold.
Contents == {v \in Vals : v <= SourceDigits(setup.column)} \cup {NoRow}

\* The physical rows of a staging table: a row as often as it is in there.
Copies(table) == UNION {{r} \X (1 .. table[r]) : r \in Row}
RowCount(table) == Cardinality(Copies(table))

Steps == {"prepare", "create", "open", "fetch", "report", "session", "bounds",
          "count", "append", "stop", "verify", "drop", "done"}
Reasons == {"NONE", "OVER_LIMIT", "PLAN", "EMPTY", "REMOTE", "PROGRESS",
            "MISMATCH", "RESULT", "UNSUPPORTED"}

TypeOK ==
  /\ setup \in Setups
  /\ source \in [Keys -> Vals \cup {NoRow}]
  /\ source \in been /\ Cardinality(been) <= MaxWrites + 1
  /\ pc \in Steps
  /\ batchSize \in Nat /\ spark \in BOOLEAN
  /\ spark <=> (fallback = "NONE" /\ pc # "prepare" /\ outcome # "REFUSED")
  /\ cursor \subseteq Row
  /\ todo \subseteq slices /\ \A s \in slices : s \subseteq Keys
  /\ attempts \in 0 .. TaskAttempts - 1
  /\ staging \in {NoTable} \/ staging \in [Row -> Nat]
  /\ tally \in [batches: Nat, read: Nat, written: Nat]
  /\ reported \in [batches: Nat, rows: Nat]
  /\ why \in Reasons
  /\ outcome \in {"NONE", "REFUSED", "SUCCEEDED",
                  "CONFIRMED_FAILED_CLEANED_UP", "OUTCOME_UNCERTAIN"}

Init ==
  /\ setup \in Setups
  /\ source \in Tables /\ \A k \in Keys : source[k] \in Contents
  /\ been = {source}
  /\ pc = "prepare"
  /\ batchSize = 0 /\ spark = FALSE /\ fallback = "NONE"
  /\ cursor = {} /\ slices = {} /\ todo = {} /\ attempts = 0
  /\ staging = NoTable
  /\ tally = [batches |-> 0, read |-> 0, written |-> 0]
  /\ reported = [batches |-> 0, rows |-> 0]
  /\ why = "NONE"
  /\ outcome = "NONE"

\* The application that owns the source inserts, updates or deletes a row.
ApplicationWrites ==
  /\ pc \notin {"prepare", "done"}
  /\ Cardinality(been) <= MaxWrites
  /\ \E k \in Keys, v \in Contents :
       /\ v # source[k]
       /\ source' = [source EXCEPT ![k] = v]
       /\ been' = been \cup {source'}
  /\ UNCHANGED <<setup, pc, load, staging, tally, reported, why, outcome>>

----------------------------------------------------------------------------
(* Choosing the limits and the path *)

Least(a, b) == IF a < b THEN a ELSE b
Caps(s) == Least(s.sourceCap, s.targetCap)

\* Variant: only the source profile's cap is applied.
EffectiveBatchOfSource(s) ==
  Least(IF s.asked = Unset THEN s.sourceCap ELSE s.asked, s.sourceCap)

\* prepare(): a caller may ask for less than the profiles allow, not for more.
EffectiveBatch(s) ==
  Least(IF s.asked = Unset THEN Caps(s) ELSE s.asked, Caps(s))

\* select_execution_plan() builds every plan once, and falls back when one
\* cannot be built; a JDBC read is split by one integer primary key.
Partitionable(s) == s.key = "integer"

JdbcReads(s) == s.source # "snowflake" /\ s.sourceFits /\ Partitionable(s)
SnowflakeReads(s) == s.source = "snowflake" /\ s.sourceFits
JdbcWrites(s) == s.target # "snowflake" /\ s.targetFits
SnowflakeWrites(s) == s.target = "snowflake" /\ s.targetFits

SparkPlans(s) ==
  /\ JdbcReads(s) \/ SnowflakeReads(s)
  /\ JdbcWrites(s) \/ SnowflakeWrites(s)

UsesSnowflake(s) == "snowflake" \in {s.source, s.target}

\* select_execution_plan: the reason, in the order of its checks.  A prepared load
\* without profiles has one of its own; prepare() always sets both.
FallbackReason(s) ==
  IF ~s.configured THEN "SPARK_NOT_CONFIGURED"
  ELSE IF ~s.runtime THEN "SPARK_RUNTIME_UNAVAILABLE"
  ELSE IF s.estimate = Unknown THEN "SOURCE_ROW_ESTIMATE_UNAVAILABLE"
  ELSE IF s.estimate < MinimumSourceRows
    THEN "SOURCE_ROW_ESTIMATE_BELOW_THRESHOLD"
  ELSE IF UsesSnowflake(s) /\ ~s.package
    THEN "SNOWFLAKE_SPARK_CONNECTOR_UNAVAILABLE"
  ELSE IF ~SparkPlans(s) THEN "SPARK_JDBC_REQUIREMENTS_NOT_MET"
  ELSE "NONE"

\* A profile pair prepare() refuses never reaches the target.
Refuse ==
  /\ pc = "prepare"
  /\ ~(setup.writable /\ setup.sameDatabase)
  /\ pc' = "done" /\ outcome' = "REFUSED"
  /\ UNCHANGED <<setup, source, been, load, staging, tally, reported, why>>

Prepare ==
  /\ pc = "prepare"
  /\ setup.writable /\ setup.sameDatabase
  /\ batchSize' = EffectiveBatch(setup)
  /\ fallback' = FallbackReason(setup)
  /\ spark' = (fallback' = "NONE")
  /\ pc' = "create"
  /\ UNCHANGED <<setup, source, been, cursor, slices, todo, attempts, staging,
                 tally, reported, why, outcome>>

----------------------------------------------------------------------------
(* What both strategies share *)

Fails(reason) == pc' = "drop" /\ why' = reason

Succeeds == pc' = "done" /\ outcome' = "SUCCEEDED" /\ UNCHANGED why

Stageable == Landing(setup.target, setup.column) # Unsupported

\* prepare_staging_table: the statement is rendered, then executed.
CreateTable ==
  /\ pc = "create" /\ Stageable
  /\ staging' = EmptyTable
  /\ pc' = IF spark THEN "session" ELSE "open"
  /\ UNCHANGED <<setup, source, been, load, tally, reported, why, outcome>>

\* A type without a landing type is refused before anything is sent.
CreateRefused ==
  /\ pc = "create" /\ ~Stageable
  /\ Fails("UNSUPPORTED")
  /\ UNCHANGED <<setup, source, been, load, staging, tally, reported, outcome>>

\* A lost connection, a timeout: the commit may have been accepted although
\* its answer was not.
CreateFails ==
  /\ pc = "create" /\ Stageable
  /\ staging' \in {NoTable, EmptyTable}
  /\ Fails("REMOTE")
  /\ UNCHANGED <<setup, source, been, load, tally, reported, outcome>>

\* run(): every exception is followed by DROP TABLE IF EXISTS.
Drop ==
  /\ pc = "drop"
  /\ staging' = NoTable
  /\ pc' = "done" /\ outcome' = "CONFIRMED_FAILED_CLEANED_UP"
  /\ UNCHANGED <<setup, source, been, load, tally, reported, why>>

DropFails ==
  /\ pc = "drop"
  /\ staging' \in {NoTable, staging}
  /\ pc' = "done" /\ outcome' = "OUTCOME_UNCERTAIN"
  /\ UNCHANGED <<setup, source, been, load, tally, reported, why>>

----------------------------------------------------------------------------
(* SequentialBatchTransportStrategy: one cursor, numbered batches *)

\* read_batches: a batch larger than the source profile's cap is refused,
\* otherwise one statement is executed; what its cursor will return is the
\* table as it is now.
OpenCursor ==
  /\ pc = "open"
  /\ IF batchSize > setup.sourceCap
       THEN Fails("OVER_LIMIT") /\ UNCHANGED cursor
       ELSE pc' = "fetch" /\ cursor' = RowsOf(source) /\ UNCHANGED why
  /\ UNCHANGED <<setup, source, been, batchSize, spark, fallback, slices, todo,
                 attempts, staging, tally, reported, outcome>>

\* fetchmany(batch_size): full batches until the rows run out.
Fetched == kSubset(Least(batchSize, Cardinality(cursor)), cursor)

\* Variant: the rowcount of the INSERT is not compared with the batch.
WriteBatchUnchecked ==
  /\ pc = "fetch" /\ cursor # {}
  /\ \E rows \in Fetched, kept \in SUBSET cursor :
       /\ kept \subseteq rows
       /\ cursor' = cursor \ rows
       /\ staging' = With(staging, kept)
       /\ tally' = [batches |-> tally.batches + 1,
                    read |-> tally.read + Cardinality(rows),
                    written |-> tally.written + Cardinality(rows)]
       /\ pc' = "report" /\ UNCHANGED why
  /\ UNCHANGED <<setup, source, been, batchSize, spark, fallback, slices, todo,
                 attempts, reported, outcome>>

\* write_batch: one INSERT, committed only when it wrote every row.
WriteBatch ==
  /\ pc = "fetch" /\ cursor # {}
  /\ \E rows \in Fetched :
       IF Cardinality(rows) > setup.targetCap
         THEN Fails("OVER_LIMIT") /\ UNCHANGED <<cursor, staging, tally>>
         ELSE /\ cursor' = cursor \ rows
              /\ staging' = With(staging, rows)
              /\ tally' = [batches |-> tally.batches + 1,
                           read |-> tally.read + Cardinality(rows),
                           written |-> tally.written + Cardinality(rows)]
              /\ pc' = "report" /\ UNCHANGED why
  /\ UNCHANGED <<setup, source, been, batchSize, spark, fallback, slices, todo,
                 attempts, reported, outcome>>

\* The progress reporter records the batch in the job's row, or raises.
ReportProgress ==
  /\ pc = "report"
  /\ reported' = [batches |-> tally.batches, rows |-> tally.written]
  /\ pc' = "fetch"
  /\ UNCHANGED <<setup, source, been, load, staging, tally, why, outcome>>

ReportFails ==
  /\ pc = "report"
  /\ Fails("PROGRESS")
  /\ UNCHANGED <<setup, source, been, load, staging, tally, reported, outcome>>

\* The cursor or the INSERT fails; a batch whose commit got no answer may
\* be in the table all the same.
LoadFails ==
  /\ pc \in {"open", "fetch"}
  /\ \/ UNCHANGED staging
     \/ /\ pc = "fetch" /\ cursor # {}
        /\ \E rows \in Fetched : staging' = With(staging, rows)
  /\ Fails("REMOTE")
  /\ UNCHANGED <<setup, source, been, load, tally, reported, outcome>>

CursorDone ==
  /\ pc = "fetch" /\ cursor = {}
  /\ Succeeds
  /\ UNCHANGED <<setup, source, been, load, staging, tally, reported>>

----------------------------------------------------------------------------
(* SparkTransportStrategy: count the source, then read it again and append *)

\* Variant: a boundary key belongs to no slice.
SlicesOpen(lower, upper) ==
  LET n == IF upper - lower < 2 THEN 1 ELSE Least(Partitions, upper - lower)
      stride == (upper \div n) - (lower \div n)
      Cut(i) == lower + i * stride
  IN  {{k \in Keys : (i = 1 \/ k > Cut(i - 1)) /\ (i = n \/ k < Cut(i))} :
         i \in 1 .. n}

\* Spark's own split of a range: the first slice is open below and the last
\* one open above, so the slices cover every key, also one inserted later.
Slices(lower, upper) ==
  LET n == IF upper - lower < 2 THEN 1 ELSE Least(Partitions, upper - lower)
      stride == (upper \div n) - (lower \div n)
      Cut(i) == lower + i * stride
  IN  {{k \in Keys : (i = 1 \/ k >= Cut(i - 1)) /\ (i = n \/ k < Cut(i))} :
         i \in 1 .. n}

InSlice(s) == {r \in RowsOf(source) : r[1] \in s}

StartSession ==
  /\ pc = "session"
  /\ pc' = "bounds"
  /\ UNCHANGED <<setup, source, been, load, staging, tally, reported, why,
                 outcome>>

Split(ranges) ==
  /\ slices' = ranges /\ todo' = ranges
  /\ pc' = "count" /\ UNCHANGED why

\* _load_dataframe: the plans are built again from the profiles; a JDBC
\* source is asked for the smallest and the largest key, a Snowflake source
\* is one query.
LoadDataFrame ==
  /\ pc = "bounds"
  /\ LET keys == {k \in Keys : source[k] # NoRow}
     IN  IF ~SparkPlans(setup)
           THEN Fails("PLAN") /\ UNCHANGED <<slices, todo>>
         ELSE IF setup.source = "snowflake"
           THEN Split({Keys})
         ELSE IF keys = {}
           THEN Fails("EMPTY") /\ UNCHANGED <<slices, todo>>
         ELSE Split(Slices(Min(keys), Max(keys)))
  /\ UNCHANGED <<setup, source, been, batchSize, spark, fallback, cursor,
                 attempts, staging, tally, reported, outcome>>

Finished(s, next) ==
  IF todo = {s} THEN pc' = next /\ todo' = slices
                ELSE pc' = pc /\ todo' = todo \ {s}

\* dataframe.count(): one query for each slice, each with its own snapshot.
CountSlice ==
  /\ pc = "count"
  /\ \E s \in todo :
       /\ tally' = [tally EXCEPT !.read = @ + Cardinality(InSlice(s))]
       /\ Finished(s, "append")
  /\ UNCHANGED <<setup, source, been, batchSize, spark, fallback, cursor, slices,
                 attempts, staging, reported, why, outcome>>

\* write.mode("append").save(): nothing of the count is kept, every slice is
\* read again and inserted in a transaction of its own.
AppendSlice ==
  /\ pc = "append"
  /\ \E s \in todo :
       /\ staging' = With(staging, InSlice(s))
       /\ Finished(s, "stop")
  /\ UNCHANGED <<setup, source, been, batchSize, spark, fallback, cursor, slices,
                 attempts, tally, reported, why, outcome>>

\* Variant: a task is started again without a bound.
AppendAgainUnbounded ==
  /\ pc = "append"
  /\ attempts' = attempts + 1
  /\ \E s \in todo : staging' = With(staging, InSlice(s))
  /\ UNCHANGED <<setup, source, been, pc, batchSize, spark, fallback, cursor,
                 slices, todo, tally, reported, why, outcome>>

\* A task lost after its transaction was committed is started again.
AppendAgain ==
  /\ pc = "append" /\ attempts < TaskAttempts - 1
  /\ attempts' = attempts + 1
  /\ \E s \in todo : staging' = With(staging, InSlice(s))
  /\ UNCHANGED <<setup, source, been, pc, batchSize, spark, fallback, cursor,
                 slices, todo, tally, reported, why, outcome>>

StopSession ==
  /\ pc = "stop"
  /\ pc' = "verify"
  /\ UNCHANGED <<setup, source, been, load, staging, tally, reported, why,
                 outcome>>

SparkFails ==
  /\ pc \in {"session", "bounds", "count", "append", "stop", "verify"}
  /\ \/ UNCHANGED staging
     \/ /\ pc = "append"
        /\ \E s \in todo : staging' = With(staging, InSlice(s))
  /\ Fails("REMOTE")
  /\ UNCHANGED <<setup, source, been, load, tally, reported, outcome>>

\* SELECT COUNT( * ) AS row_count: PostgreSQL and MySQL return the alias as it
\* is written, Snowflake stores an unquoted identifier in upper case.
ReturnedLabel(dialect) ==
  IF dialect = "snowflake" THEN "ROW_COUNT" ELSE "row_count"

\* _integer(): None when the row has no such key.
RowsWritten ==
  IF ReturnedLabel(setup.target) = "row_count" THEN {RowCount(staging)} ELSE {}

\* Variant: the two counts are not compared.
VerifyUnmatched ==
  /\ pc = "verify"
  /\ IF tally.read = 0
       THEN Fails("RESULT") /\ UNCHANGED <<tally, outcome>>
     ELSE /\ tally' = [batches |-> 1, read |-> tally.read, written |-> tally.read]
          /\ Succeeds
  /\ UNCHANGED <<setup, source, been, load, staging, reported>>

\* The counts must agree; BatchTransportResult refuses one batch of no rows.
Verify ==
  /\ pc = "verify"
  /\ IF RowsWritten # {tally.read}
       THEN Fails("MISMATCH") /\ UNCHANGED <<tally, outcome>>
     ELSE IF tally.read = 0
       THEN Fails("RESULT") /\ UNCHANGED <<tally, outcome>>
     ELSE /\ tally' = [batches |-> 1, read |-> tally.read, written |-> tally.read]
          /\ Succeeds
  /\ UNCHANGED <<setup, source, been, load, staging, reported>>

----------------------------------------------------------------------------
\* What the loader does when its calls return, and when one of them raises.
Works ==
  \/ Refuse \/ Prepare \/ CreateTable \/ CreateRefused \/ Drop
  \/ OpenCursor \/ WriteBatch \/ ReportProgress \/ CursorDone
  \/ StartSession \/ LoadDataFrame \/ CountSlice \/ AppendSlice \/ StopSession
  \/ Verify

Breaks ==
  \/ CreateFails \/ DropFails \/ ReportFails \/ LoadFails
  \/ AppendAgain \/ SparkFails

Next == Works \/ Breaks \/ ApplicationWrites

Spec == Init /\ [][Next]_vars

----------------------------------------------------------------------------
(* Properties *)

\* What a successful load leaves in staging is the source: as it was at one
\* moment of the load when one cursor read it, and exactly, row by row, when
\* nobody wrote it during the load, whatever Spark's slices were and
\* whichever of its tasks ran twice.
CopyOfTheSource ==
  outcome = "SUCCEEDED" /\ (~spark \/ Cardinality(been) = 1) =>
    \E table \in been : staging = Holding(RowsOf(table))

\* A batch is reported only after its rows are committed: the progress a
\* reader sees never counts a row that is not in the staging table, and
\* misses at most the batch being written.
ProgressIsCommitted ==
  staging # NoTable /\ ~spark =>
    /\ reported.rows <= RowCount(staging)
    /\ pc = "fetch" => RowCount(staging) = reported.rows
                       /\ reported.batches = tally.batches

\* What prepare() and select_execution_plan() have accepted does not fail
\* later on the profiles' row caps or because Spark cannot read or write it.
AcceptedIsLoadable == why \notin {"OVER_LIMIT", "PLAN"}

\* The disposition says what became of the table: certified only with as many
\* rows as were read and counted, clean only when the table is gone, and in
\* doubt only after a failure.
DispositionIsTrue ==
  /\ outcome = "SUCCEEDED" => /\ why = "NONE" /\ staging # NoTable
                              /\ tally.read = RowCount(staging)
                              /\ tally.written = RowCount(staging)
                              /\ (tally.batches = 0) <=> (tally.read = 0)
  /\ outcome = "CONFIRMED_FAILED_CLEANED_UP" => why # "NONE" /\ staging = NoTable
  /\ outcome = "OUTCOME_UNCERTAIN" => why # "NONE"

\* What a reader is told of a load, while it runs and at its end, is true of the
\* staging table.
ReportsAreTrue == ProgressIsCommitted /\ DispositionIsTrue

\* "Choose a lossless MySQL landing type without guessing" (and the same for
\* the other two dialects): what a successful load leaves in the staging table
\* has every digit the source had.
LandingIsLossless ==
  outcome = "SUCCEEDED" => \A r \in Row : staging[r] > 0 => \E table \in been : table[r[1]] = r[2]

\* docs/SPARK_TRANSPORT.md: "counts the staging table rows, requires an exact
\* match": a load is refused at the final count only when the counts differ.
MismatchIsReal ==
  pc = "drop" /\ why = "MISMATCH" => RowCount(staging) # tally.read
=============================================================================
