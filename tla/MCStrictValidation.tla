------------------------- MODULE MCStrictValidation -------------------------
(***************************************************************************)
(* TLC instances of StrictValidation: four keys, sources that are empty,   *)
(* sparse and full, pages below, at and above the row caps, and one setup  *)
(* for each way the validation can be asked for.                           *)
(***************************************************************************)
EXTENDS StrictValidation

CONSTANTS Cell, Other

MCKeys == 1 .. 4
MCCells == {Cell, Other}
Apart == [c \in Cells |-> c]
Folded == [c \in Cells |-> Cell]
MCCast == [d \in Dialects |-> IF d = "mysql" THEN Folded ELSE Apart]
Row(a, b) == <<a, b>>
MCSources ==
  {[k \in Keys |-> Absent],
   [k \in Keys |-> IF k = 2 THEN Row(Cell, Null) ELSE Absent],
   [k \in Keys |-> IF k \in {1, 3} THEN Row(Null, Cell) ELSE Absent],
   [k \in Keys |-> CASE k = 4 -> Absent [] k = 1 -> Row(Other, Cell) [] OTHER -> Row(Cell, Cell)]}

Plain(from, to) == [from |-> from, to |-> to, plain |-> TRUE, accepted |-> TRUE]
Key(columns) == [complete |-> TRUE, columns |-> columns]

Usual ==
  [source |-> "postgresql", target |-> "mysql", approved |-> TRUE,
   sameDatabase |-> TRUE, strict |-> TRUE, comparable |-> TRUE,
   sourceTells |-> Apart, targetTells |-> Apart, keysAlike |-> TRUE,
   expression |-> "copy", batch |-> 2, sourceCap |-> 3, targetCap |-> 1,
   sourceKey |-> Key(<<"id">>), targetKey |-> Key(<<"id">>),
   mappings |-> {Plain("id", "id")}]

Composite ==
  [Usual EXCEPT !.sourceKey = Key(<<"a", "b">>), !.targetKey = Key(<<"x", "y">>),
                !.mappings = {Plain("a", "x"), Plain("b", "y")}]

MCSetups ==
  {Usual, Composite,
   [Usual EXCEPT !.approved = FALSE],
   [Usual EXCEPT !.sameDatabase = FALSE],
   [Usual EXCEPT !.strict = FALSE, !.expression = "coalesce"],
   [Usual EXCEPT !.strict = FALSE, !.source = "snowflake", !.expression = "concat"],
   [Usual EXCEPT !.target = "postgresql", !.expression = "concat", !.comparable = FALSE,
                 !.targetTells = Folded],
   [Usual EXCEPT !.expression = "concat_ws", !.batch = 1],
   [Usual EXCEPT !.target = "snowflake", !.batch = 3, !.targetCap = 2],
   [Usual EXCEPT !.strict = FALSE, !.expression = "cast"],
   [Usual EXCEPT !.strict = FALSE, !.target = "snowflake", !.expression = "cast"],
   [Usual EXCEPT !.strict = FALSE, !.expression = "literal"],
   [Usual EXCEPT !.strict = FALSE, !.expression = "null", !.keysAlike = FALSE],
   [Usual EXCEPT !.strict = FALSE, !.targetTells = Folded],
   [Usual EXCEPT !.target = "snowflake", !.keysAlike = FALSE],
   [Usual EXCEPT !.source = "snowflake"],
   [Usual EXCEPT !.sourceKey.complete = FALSE],
   [Usual EXCEPT !.targetKey.columns = <<>>],
   [Usual EXCEPT !.mappings = {[Plain("id", "id") EXCEPT !.plain = FALSE]}],
   [Usual EXCEPT !.mappings = {[Plain("id", "id") EXCEPT !.accepted = FALSE]}],
   [Usual EXCEPT !.mappings = {Plain("id", "number")}],
   [Composite EXCEPT !.mappings = {Plain("a", "y"), Plain("b", "x")}]}
=============================================================================
