-------------------------- MODULE MCTableTransfer --------------------------
(***************************************************************************)
(* TLC instances of TableTransfer: three keys, two values, sources that    *)
(* are full, partly filled and empty, and one setup for each way prepare   *)
(* and select_execution_plan can end.                                      *)
(***************************************************************************)
EXTENDS TableTransfer

MCKeys == 1 .. 3
MCVals == {0, 3, 6}
MCTables == {[k \in Keys |-> NoRow], [k \in Keys |-> IF k = 2 THEN 0 ELSE 3],
             [k \in Keys |-> IF k = 2 THEN 6 ELSE NoRow]}

\* Everything asks for Spark; the other setups differ from it in a field.
Usual ==
  [source |-> "postgresql", target |-> "mysql", sourceCap |-> 2,
   targetCap |-> 3, asked |-> Unset, writable |-> TRUE, sameDatabase |-> TRUE,
   configured |-> TRUE, runtime |-> TRUE, package |-> FALSE, estimate |-> 2,
   column |-> [type |-> "TIMESTAMP", precision |-> Unknown, scale |-> 3],
   key |-> "integer", sourceFits |-> TRUE, targetFits |-> TRUE]

Amount == [type |-> "DECIMAL", precision |-> 70, scale |-> 6]

MCSetups ==
  {Usual,
   [Usual EXCEPT !.writable = FALSE],
   [Usual EXCEPT !.sameDatabase = FALSE],
   [Usual EXCEPT !.configured = FALSE],
   [Usual EXCEPT !.column.type = "UNKNOWN"],
   [Usual EXCEPT !.column = Amount, !.estimate = Unknown],
   [Usual EXCEPT !.column.scale = Unknown, !.target = "postgresql",
                 !.configured = FALSE],
   [Usual EXCEPT !.configured = FALSE, !.targetCap = 1],
   [Usual EXCEPT !.runtime = FALSE, !.asked = 1],
   [Usual EXCEPT !.estimate = Unknown, !.asked = 9],
   [Usual EXCEPT !.estimate = 1],
   [Usual EXCEPT !.target = "snowflake"],
   [Usual EXCEPT !.key = "composite"],
   [Usual EXCEPT !.targetFits = FALSE],
   [Usual EXCEPT !.source = "snowflake", !.key = "none", !.package = TRUE],
   [Usual EXCEPT !.target = "snowflake", !.package = TRUE]}

\* PostgreSQL says nothing of the columns of a materialized view.
MCViewSetups == {[Usual EXCEPT !.column.scale = Unknown, !.key = "none"]}

MCSnowflakeSetups == {[Usual EXCEPT !.target = "snowflake", !.package = TRUE]}
=============================================================================
