--------------------------- MODULE StagingTypes ---------------------------
(***************************************************************************)
(* The landing types: what each connector's _..._staging_type makes of a   *)
(* source column, reduced to what decides whether a value survives the     *)
(* staging table: how many digits after the point the column keeps.  A     *)
(* column is what discovery could say of it: its canonical type and, for   *)
(* the types that have one, its precision and scale or its fractional      *)
(* seconds, each of which may be unknown.                                  *)
(***************************************************************************)
EXTENDS Naturals

CONSTANTS
  Unknown,      \* the catalog said nothing
  Unsupported   \* UnsupportedStagingTypeError

CanonicalTypes ==
  {"STRING", "INTEGER", "DECIMAL", "FLOAT", "BOOLEAN", "DATE", "TIME",
   "TIMESTAMP", "TIMESTAMP_TZ", "BINARY", "SEMI_STRUCTURED", "UNKNOWN"}

\* precision and scale are numeric_precision and numeric_scale; for the types
\* of time, scale is datetime_precision.
Column == [type: CanonicalTypes, precision: Nat \cup {Unknown},
           scale: Nat \cup {Unknown}]

\* A landing type that keeps every digit: text, a document, raw bytes.
Exact == 1000

Whole == {"INTEGER", "BOOLEAN", "DATE"}
Opaque == {"STRING", "FLOAT", "BINARY", "SEMI_STRUCTURED"}

\* NUMERIC(p, s) when the dialect has it, else digits kept as text.
Numeric(column, mostPrecision, mostScale) ==
  IF /\ column.precision # Unknown /\ column.scale # Unknown
     /\ column.precision \in 1 .. mostPrecision
     /\ column.scale <= column.precision /\ column.scale <= mostScale
    THEN column.scale
    ELSE Exact

\* TIMESTAMP(p) when the dialect has it, else text; without a discovered
\* precision the bare type, which keeps what the dialect keeps by default.
Timed(column, default, most) ==
  IF column.scale = Unknown THEN default
  ELSE IF column.scale <= most THEN column.scale
  ELSE Exact

\* PostgreSQL's bare TIMESTAMP keeps microseconds.
PostgreSQLLanding(column) ==
  IF column.type \in Whole THEN 0
  ELSE IF column.type \in Opaque THEN Exact
  ELSE IF column.type = "DECIMAL" THEN Numeric(column, 131072, 131072)
  ELSE IF column.type \in {"TIME", "TIMESTAMP", "TIMESTAMP_TZ"}
    THEN Timed(column, 6, 6)
  ELSE Unsupported

\* MySQL's bare DATETIME and TIME keep whole seconds; an instant with a time
\* zone lands as text.
MySQLLanding(column) ==
  IF column.type \in Whole THEN 0
  ELSE IF column.type \in Opaque \cup {"TIMESTAMP_TZ"} THEN Exact
  ELSE IF column.type = "DECIMAL" THEN Numeric(column, 65, 30)
  ELSE IF column.type \in {"TIME", "TIMESTAMP"} THEN Timed(column, 0, 6)
  ELSE Unsupported

\* Snowflake is always told nanoseconds.
SnowflakeLanding(column) ==
  IF column.type \in Whole THEN 0
  ELSE IF column.type \in Opaque THEN Exact
  ELSE IF column.type = "DECIMAL" THEN Numeric(column, 38, 38)
  ELSE IF column.type \in {"TIME", "TIMESTAMP", "TIMESTAMP_TZ"}
    THEN Timed(column, 9, 9)
  ELSE Unsupported

Landing(dialect, column) ==
  CASE dialect = "postgresql" -> PostgreSQLLanding(column)
    [] dialect = "mysql"      -> MySQLLanding(column)
    [] dialect = "snowflake"  -> SnowflakeLanding(column)

\* The digits a value of the source column can have: what the catalog says,
\* or anything a column of that type can hold when it says nothing.
SourceDigits(column) ==
  IF column.type \in Whole THEN 0
  ELSE IF column.scale = Unknown THEN Exact
  ELSE column.scale
=============================================================================
