-------------------------- MODULE StrictValidation --------------------------
(***************************************************************************)
(* What a validation reads and how it judges: MigrationValidationExecution *)
(* Service.run with the aggregates of compile_validation_sql, their        *)
(* reconciliation, and the strict comparison of all primary keys, page by  *)
(* page.  ValidationRun models what is recorded of a validation; this      *)
(* module models which verdict is reached while the applications that own  *)
(* the two tables may go on writing them.                                  *)
(***************************************************************************)
EXTENDS Integers, Sequences, FiniteSets, FiniteSetsExt, Functions

CONSTANTS
  Keys,        \* the primary keys rows may have, integers
  Cells,       \* what a column holds when it is not NULL
  Cast,        \* Cast[dialect][c]: what c is after a CAST by that system
  Null,        \* the SQL NULL
  Absent,      \* the content of a source key that has no row
  Unavailable, \* a metric _count cannot normalise
  Sources,     \* the source tables a validation may start from
  Setups,      \* the profiles, the request, the plan and the metadata
  MaxWrites    \* bound on the application's writes during the validation

Dialects == {"postgresql", "mysql", "snowflake"}
Expressions == {"copy", "cast", "concat", "concat_ws", "coalesce", "literal", "null"}

\* The discovered primary key of a table: its columns in order, and whether
\* discovery saw all of it.  No columns: no key.
TableKey == [complete: BOOLEAN, columns: Seq(STRING)]

\* An approved mapping of a key column; plain: DIRECT_COPY or SOURCE_COLUMN
\* of the column itself.
KeyMapping == [from: STRING, to: STRING, plain: BOOLEAN, accepted: BOOLEAN]

\* The two columns of a source row.
Content == (Cells \cup {Null}) \X (Cells \cup {Null})

ASSUME ValidationConstants ==
  /\ Keys \subseteq Nat /\ IsFiniteSet(Keys)
  /\ Null \notin Cells /\ Absent \notin Content
  /\ MaxWrites \in Nat
  /\ Cast \in [Dialects -> [Cells -> Cells]]
  /\ Sources \subseteq [Keys -> Content \cup {Absent}]
  /\ \A s \in Setups :
       /\ s.source \in Dialects /\ s.target \in Dialects
       /\ s.expression \in Expressions
       /\ {s.approved, s.sameDatabase, s.strict, s.comparable, s.keysAlike} \subseteq BOOLEAN
       /\ {s.sourceTells, s.targetTells} \subseteq [Cells -> Cells]
       /\ {s.batch, s.sourceCap, s.targetCap} \subseteq Nat \ {0}
       /\ s.sourceKey \in TableKey /\ s.targetKey \in TableKey
       /\ s.mappings \subseteq KeyMapping

VARIABLES
  setup,       \* what the validation was asked with; never changes
  source,      \* the source table: key -> the row's two columns
  target,      \* the target table: a set of rows
  began,       \* both tables as they were when the validation began
  written,     \* the writes since then
  appending,   \* every write so far added a row above all of its table's
  pc,          \* where run() is
  metrics,     \* the aggregates of the two queries
  read,        \* the keys read so far, page after page
  report       \* what run() returns

tables == <<source, target, began, written, appending>>
vars == <<setup, tables, pc, metrics, read, report>>

----------------------------------------------------------------------------
(* The two tables *)

\* How each system evaluates a mapped expression of two columns.  MySQL and
\* Snowflake make a CONCAT with a NULL argument NULL, PostgreSQL skips the
\* argument; a NULL argument of CONCAT_WS is skipped by all but Snowflake.
\* What a CAST makes of a value is each system's own affair.
SkipsNulls(dialect, expression) ==
  \/ expression = "concat" /\ dialect = "postgresql"
  \/ expression = "concat_ws" /\ dialect # "snowflake"

NotNull(cells) ==
  IF cells[1] = Null THEN IF cells[2] = Null THEN <<>> ELSE <<cells[2]>>
  ELSE IF cells[2] = Null THEN <<cells[1]>> ELSE cells

Evaluate(dialect, expression, cells) ==
  CASE expression = "copy" -> IF cells[1] = Null THEN Null ELSE <<cells[1]>>
    [] expression = "cast" -> IF cells[1] = Null THEN Null ELSE <<Cast[dialect][cells[1]]>>
    [] expression = "literal" -> <<>>
    [] expression = "null" -> Null
    [] expression = "coalesce" ->
         IF NotNull(cells) = <<>> THEN Null ELSE <<NotNull(cells)[1]>>
    [] SkipsNulls(dialect, expression) -> NotNull(cells)
    [] OTHER -> IF NotNull(cells) = cells THEN cells ELSE Null

SourceKeys == {k \in Keys : source[k] # Absent}
TargetKeys == {r.key : r \in target}

\* The row the migration statement makes of a source row, in the target's
\* dialect.  A key that is not enforced may be there again, as a copy.
MigratedRow(s, k, cells) ==
  [key |-> k, copy |-> 1, value |-> Evaluate(s.target, s.expression, cells)]
Migrated(s, table) ==
  {MigratedRow(s, k, table[k]) : k \in {k \in Keys : table[k] # Absent}}

\* The targets a validation may find: what the migration writes, or that with
\* a row lost, a row too many, a row twice, or a value lost.
Found(s, table) ==
  LET whole == Migrated(s, table) IN
  {whole} \cup {whole \ {r} : r \in whole}
    \cup {whole \cup {MigratedRow(s, k, <<Null, Null>>)} :
            k \in {k \in Keys : table[k] = Absent}}
    \cup {whole \cup {[r EXCEPT !.copy = 2]} :
            r \in IF s.target = "snowflake" THEN whole ELSE {}}
    \cup {(whole \ {r}) \cup {[r EXCEPT !.value = Null]} : r \in whole}

----------------------------------------------------------------------------
(* Init, and the applications that own the tables *)

Statuses == {"PASSED", "FAILED", "INCOMPLETE"}
NoMetrics == [row_count |-> Unavailable, null_count |-> Unavailable,
              key_null_count |-> Unavailable, distinct_count |-> Unavailable,
              key_distinct_count |-> Unavailable]
NoReport == [status |-> "NONE", mismatched |-> 0, warning |-> "NONE",
             missing |-> 0, extra |-> 0, sourceDuplicates |-> 0,
             targetDuplicates |-> 0, compared |-> FALSE]

Init ==
  /\ setup \in Setups
  /\ source \in Sources
  /\ target \in Found(setup, source)
  /\ began = [source |-> SourceKeys, target |-> target]
  /\ written = 0 /\ appending = TRUE
  /\ pc = "begin"
  /\ metrics = [source |-> NoMetrics, target |-> NoMetrics]
  /\ read = [source |-> <<>>, target |-> <<>>]
  /\ report = NoReport

Running == pc \notin {"begin", "returned", "raised"}

Writes(above) ==
  /\ Running /\ written < MaxWrites
  /\ written' = written + 1
  /\ appending' = (appending /\ above)
  /\ UNCHANGED <<setup, began, pc, metrics, read, report>>

\* A row of the source is deleted, or inserted under any free key.
SourceWritten ==
  \E k \in Keys, cells \in {<<c, c>> : c \in Cells} :
    /\ source' = [source EXCEPT ![k] = IF @ = Absent THEN cells ELSE Absent]
    /\ Writes(\A j \in SourceKeys : j < k)
    /\ UNCHANGED target

\* The same in the target.
TargetWritten ==
  \E k \in Keys, c \in Cells :
    /\ target' = IF k \in TargetKeys THEN {r \in target : r.key # k}
                 ELSE target \cup {[key |-> k, copy |-> 1, value |-> <<c>>]}
    /\ Writes(\A j \in TargetKeys : j < k)
    /\ UNCHANGED source

----------------------------------------------------------------------------
(* run(): the gate, the compilation and the two aggregates *)

At(step) == pc = step
Goto(step) == pc' = step

\* Without approval, without a usable profile, or when the statements do not
\* compile, nothing is read.  A MySQL target has one database name.
Begin ==
  /\ At("begin")
  /\ setup.approved /\ (setup.target = "mysql" => setup.sameDatabase)
  /\ Goto("aggregateSource")
  /\ UNCHANGED <<setup, tables, metrics, read, report>>

Refuse ==
  /\ At("begin")
  /\ Goto("raised")
  /\ UNCHANGED <<setup, tables, metrics, read, report>>

\* A query fails or answers with anything but one row of known columns.
QueryFails ==
  /\ Running
  /\ Goto("raised")
  /\ UNCHANGED <<setup, tables, metrics, read, report>>

\* The aggregates over a table given by its keys, in order and as often as
\* they occur, and a value for every row: COUNT(*), SUM(CASE WHEN .. IS NULL ..),
\* COUNT(DISTINCT ..), the last one unless the mapping's compatibility is
\* UNKNOWN.  SUM over no rows is NULL.  A column's collation tells values apart:
\* tells[c] is the value c is not told from, one for each class of them.
Told(tells, value) == [i \in DOMAIN value |-> tells[value[i]]]

Aggregates(rows, tells) ==
  LET Sum(n) == IF rows = {} THEN Unavailable ELSE n IN
  [row_count |-> Cardinality(rows),
   null_count |-> Sum(Cardinality({r \in rows : r.value = Null})),
   key_null_count |-> Sum(0),
   distinct_count |->
     Cardinality({Told(tells, v) : v \in {r.value : r \in rows} \ {Null}}),
   key_distinct_count |-> Cardinality({r.key : r \in rows})]

Checks == DOMAIN NoMetrics \ (IF setup.comparable THEN {} ELSE {"distinct_count"})

\* The source evaluates the expression of the plan itself, in its own dialect.
SourceRows ==
  {[key |-> k, copy |-> 1,
    value |-> Evaluate(setup.source, setup.expression, source[k])] : k \in SourceKeys}

AggregateSource ==
  /\ At("aggregateSource")
  /\ metrics' = [metrics EXCEPT !.source = Aggregates(SourceRows, setup.sourceTells)]
  /\ Goto("aggregateTarget")
  /\ UNCHANGED <<setup, tables, read, report>>

----------------------------------------------------------------------------
(* reconcile_validation_results and the eligibility *)

\* Variant: evidence that is not there counts against the migration.
VerdictUnavailableFails(check, ours, theirs) ==
  IF ours[check] = theirs[check] /\ ours[check] # Unavailable
  THEN "MATCH" ELSE "MISMATCH"

Verdict(check, ours, theirs) ==
  CASE Unavailable \in {ours[check], theirs[check]} -> "UNAVAILABLE"
    [] ours[check] = theirs[check] -> "MATCH"
    [] OTHER -> "MISMATCH"

Having(verdict, ours, theirs) ==
  {check \in Checks : Verdict(check, ours, theirs) = verdict}

Reconciled(ours, theirs) ==
  LET mismatched == Having("MISMATCH", ours, theirs) IN
  [NoReport EXCEPT
     !.mismatched = Cardinality(mismatched),
     !.status = CASE mismatched # {} -> "FAILED"
                  [] Having("UNAVAILABLE", ours, theirs) # {} -> "INCOMPLETE"
                  [] OTHER -> "PASSED"]

\* The target columns the columns of the source key are plainly copied to.
Copies == {m \in setup.mappings : m.accepted /\ m.plain}
CopiedTo(column) == {m.to : m \in {m \in Copies : m.from = column}}

\* Variant: the order of the key columns does not matter.
IneligibleUnordered ==
  CASE ~setup.sourceKey.complete \/ ~setup.targetKey.complete ->
         "PRIMARY_KEY_METADATA_INCOMPLETE"
    [] <<>> \in {setup.sourceKey.columns, setup.targetKey.columns} ->
         "PRIMARY_KEY_UNAVAILABLE"
    [] \E c \in Range(setup.sourceKey.columns) : CopiedTo(c) = {} ->
         "PRIMARY_KEY_MAPPING_INCOMPLETE"
    [] UNION {CopiedTo(c) : c \in Range(setup.sourceKey.columns)}
         # Range(setup.targetKey.columns) -> "PRIMARY_KEY_MAPPING_MISMATCH"
    [] OTHER -> "NONE"

\* assess_primary_key_reconciliation: the reason, in the order of its checks.
Ineligible ==
  LET ours == setup.sourceKey.columns
      theirs == setup.targetKey.columns
  IN CASE ~setup.sourceKey.complete \/ ~setup.targetKey.complete ->
            "PRIMARY_KEY_METADATA_INCOMPLETE"
       [] <<>> \in {ours, theirs} -> "PRIMARY_KEY_UNAVAILABLE"
       [] \E i \in DOMAIN ours : CopiedTo(ours[i]) = {} ->
            "PRIMARY_KEY_MAPPING_INCOMPLETE"
       [] \/ Len(ours) # Len(theirs)
          \/ \E i \in DOMAIN ours : theirs[i] \notin CopiedTo(ours[i]) ->
            "PRIMARY_KEY_MAPPING_MISMATCH"
       [] OTHER -> "NONE"

Return(result) == report' = result /\ Goto("returned")

\* The target's aggregates, and everything run() decides without reading on.
\* The source relation has two parts, which is one too few for Snowflake.
AggregateTarget ==
  /\ At("aggregateTarget")
  /\ metrics' = [metrics EXCEPT !.target = Aggregates(target, setup.targetTells)]
  /\ LET result == Reconciled(metrics.source, metrics'.target) IN
     \/ ~setup.strict /\ Return(result)
     \/ /\ setup.strict /\ Ineligible # "NONE"
        /\ Return([result EXCEPT !.status = "INCOMPLETE", !.warning = Ineligible])
     \/ /\ setup.strict /\ Ineligible = "NONE"
        /\ Goto(IF setup.source = "snowflake" THEN "raised" ELSE "pageSource")
        /\ report' = result
  /\ UNCHANGED <<setup, tables, read>>

----------------------------------------------------------------------------
(* read_primary_key_batches and reconcile_primary_key_batches *)

ComesBefore(r, s) == r.key < s.key \/ (r.key = s.key /\ r.copy < s.copy)

\* The place of a row: how many of the rows do not come after it.
Place(r, rows) == Cardinality({s \in rows : ~ComesBefore(r, s)})

\* Variant: the newest keys come first.
OrderedKeysDescending(rows) ==
  LET n == Cardinality(rows)
  IN  [i \in 1 .. n |-> (CHOOSE r \in rows : Place(r, rows) = n + 1 - i).key]

\* ORDER BY the key columns.
OrderedKeys(rows) ==
  [i \in 1 .. Cardinality(rows) |-> (CHOOSE r \in rows : Place(r, rows) = i).key]

\* LIMIT .. OFFSET ..: the profile's row cap lowers the limit.
Page(rows, offset, cap) ==
  LET keys == OrderedKeys(rows)
      last == Min({offset + setup.batch, offset + cap, Len(keys)})
  IN SubSeq(keys, offset + 1, last)

\* Variant: the offset moves on by what was asked for, not by what came back.
NextOffsetByLimit(keys, cap) ==
  setup.batch * ((Len(keys) + Min({setup.batch, cap}) - 1) \div Min({setup.batch, cap}))

\* The offset of the next page: the rows returned so far.
NextOffset(keys, cap) == Len(keys)

\* A page is read; an empty one ends the side.
ReadSourcePage ==
  /\ At("pageSource")
  /\ LET page == Page(SourceRows, NextOffset(read.source, setup.sourceCap),
                      setup.sourceCap) IN
     /\ read' = [read EXCEPT !.source = @ \o page]
     /\ Goto(IF page = <<>> THEN "pageTarget" ELSE "pageSource")
  /\ UNCHANGED <<setup, tables, metrics, report>>

\* Counter(keys): each key with the numbers of its occurrences.
Occurrences(keys) ==
  UNION {{k} \X (1 .. Cardinality({i \in DOMAIN keys : keys[i] = k})) : k \in Range(keys)}

\* Variant: keys that occur once count as well, the wrong way round.
DuplicatesSigned(keys) == Cardinality(Range(keys)) - Len(keys)

Duplicates(keys) == Len(keys) - Cardinality(Range(keys))

\* _rows: keys are compared as the objects the drivers return.  The target's are
\* equal to the source's, or none is, like a UUID and its text.
Returned(keys) ==
  IF setup.keysAlike THEN keys ELSE [i \in DOMAIN keys |-> -1 - keys[i]]

Compared(ours, theirs) ==
  LET source_counter == Occurrences(ours)
      target_counter == Occurrences(theirs)
      missing == Cardinality(source_counter \ target_counter)
      extra == Cardinality(target_counter \ source_counter)
      counted == [report EXCEPT
                    !.compared = TRUE, !.missing = missing, !.extra = extra,
                    !.sourceDuplicates = Duplicates(ours),
                    !.targetDuplicates = Duplicates(theirs)]
  IN IF {missing, extra, Duplicates(ours), Duplicates(theirs)} = {0}
     THEN counted
     ELSE [counted EXCEPT !.status = "FAILED", !.mismatched = @ + 1,
                          !.warning = "STRICT_PRIMARY_KEY_MISMATCH"]

ReadTargetPage ==
  /\ At("pageTarget")
  /\ LET page == Page(target, NextOffset(read.target, setup.targetCap),
                      setup.targetCap) IN
     \/ /\ page # <<>>
        /\ read' = [read EXCEPT !.target = @ \o page]
        /\ UNCHANGED <<pc, report>>
     \/ /\ page = <<>>
        /\ Return(Compared(read.source, Returned(read.target)))
        /\ UNCHANGED read
  /\ UNCHANGED <<setup, tables, metrics>>

----------------------------------------------------------------------------
Validation ==
  \/ Begin \/ Refuse \/ QueryFails
  \/ AggregateSource \/ AggregateTarget
  \/ ReadSourcePage \/ ReadTargetPage

Next == Validation \/ SourceWritten \/ TargetWritten

Spec == Init /\ [][Next]_vars

----------------------------------------------------------------------------
(* Properties *)

Count == Nat \cup {Unavailable}
Metrics == [row_count: Count, null_count: Count, key_null_count: Count,
            distinct_count: Count, key_distinct_count: Count]
Warnings == {"NONE", "PRIMARY_KEY_METADATA_INCOMPLETE", "PRIMARY_KEY_UNAVAILABLE",
             "PRIMARY_KEY_MAPPING_INCOMPLETE", "PRIMARY_KEY_MAPPING_MISMATCH",
             "STRICT_PRIMARY_KEY_MISMATCH"}
Report == [status: Statuses \cup {"NONE"}, mismatched: Nat, warning: Warnings,
           missing: Nat, extra: Nat, sourceDuplicates: Nat,
           targetDuplicates: Nat, compared: BOOLEAN]

TypeOK ==
  /\ setup \in Setups
  /\ source \in [Keys -> Content \cup {Absent}]
  /\ \A r \in target : r.key \in Keys /\ r.copy \in 1 .. 2
  /\ began.source \subseteq Keys
  /\ written \in 0 .. MaxWrites /\ appending \in BOOLEAN
  /\ pc \in {"begin", "aggregateSource", "aggregateTarget", "pageSource",
             "pageTarget", "returned", "raised"}
  /\ metrics \in [source: Metrics, target: Metrics]
  /\ read \in [source: Seq(Keys), target: Seq(Keys)]
  /\ report \in Report

Quiet == At("returned") /\ written = 0

\* Every column of the source key arrives, unchanged, in its place of the
\* target key.
SameKey ==
  /\ setup.sourceKey.complete /\ setup.targetKey.complete
  /\ setup.sourceKey.columns # <<>>
  /\ Len(setup.sourceKey.columns) = Len(setup.targetKey.columns)
  /\ \A i \in DOMAIN setup.sourceKey.columns :
       \E m \in setup.mappings :
         /\ m.accepted /\ m.plain
         /\ m.from = setup.sourceKey.columns[i]
         /\ m.to = setup.targetKey.columns[i]

\* The keys of both tables, as far as the comparison can know them for the same.
Matched == IF setup.keysAlike THEN SourceKeys \cap TargetKeys ELSE {}

\* Over tables nobody writes, whatever the page size and the row caps: a strict
\* validation compares the keys exactly, passes only when both sides hold the
\* same keys once each, even if the drivers return them unlike, and is never
\* passed off as one when the keys cannot be compared.
StrictVerdictIsExact ==
  Quiet /\ setup.strict =>
    /\ report.compared <=> SameKey
    /\ ~report.compared => report.status = "INCOMPLETE"
    /\ report.compared =>
         /\ report.missing = Cardinality(SourceKeys \ Matched)
         /\ report.sourceDuplicates = 0
         /\ report.targetDuplicates = Cardinality(target) - Cardinality(TargetKeys)
         /\ report.extra = report.targetDuplicates + Cardinality(TargetKeys \ Matched)
         /\ report.status = "PASSED" =>
              SourceKeys = TargetKeys /\ Cardinality(target) = Cardinality(TargetKeys)

\* Tables that only grow above their highest key may be validated while they
\* grow: every key that was there at the beginning is read, once per row.
AppendedTablesAreReadWhole ==
  At("returned") /\ report.compared /\ appending =>
    /\ \A k \in Keys :
         Cardinality({i \in DOMAIN read.source : read.source[i] = k})
           \in IF k \in began.source THEN {1} ELSE {0, 1}
    /\ \A k \in {r.key : r \in began.target} :
         Cardinality({i \in DOMAIN read.target : read.target[i] = k})
           = Cardinality({r \in began.target : r.key = k})

\* A migration that did what was approved, and nothing since: "source-side checks
\* measure the same transformed values that the migration statement would select"
\* (sql.py).  TLC refutes it where the two systems do not agree on what that is.
Faithful == Quiet /\ target = Migrated(setup, source)
FaithfulIsNotFailed == Faithful => report.status # "FAILED"

EvaluateAlike ==
  /\ SkipsNulls(setup.source, setup.expression) = SkipsNulls(setup.target, setup.expression)
  /\ setup.expression = "cast" => Cast[setup.source] = Cast[setup.target]

\* Both systems evaluate the expression alike; where distinct values are counted
\* they tell the same ones apart, and where keys are compared they return them alike.
SystemsAgree ==
  /\ EvaluateAlike
  /\ setup.comparable => setup.sourceTells = setup.targetTells
  /\ setup.strict => setup.keysAlike

\* Over tables nobody writes the verdict is right: exact, and not a failure of a
\* faithful migration between systems that agree on what it compares.
QuietVerdictIsRight ==
  StrictVerdictIsExact /\ (SystemsAgree => FaithfulIsNotFailed)
=============================================================================
