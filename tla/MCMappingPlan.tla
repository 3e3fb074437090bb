--------------------------- MODULE MCMappingPlan ---------------------------
(* An instance of MappingPlan: tables of one and two columns.              *)
EXTENDS MappingPlan

\* id, Id, ID_REF, ref-id, note: the first two differ in case, the next two in the
\* order of their words.
MCNames == 1..5
MCSpelling ==
  << [words |-> {"id"}, order |-> 1, style |-> 1, case |-> 1],
     [words |-> {"id"}, order |-> 1, style |-> 1, case |-> 2],
     [words |-> {"id", "ref"}, order |-> 1, style |-> 1, case |-> 1],
     [words |-> {"id", "ref"}, order |-> 2, style |-> 2, case |-> 1],
     [words |-> {"note"}, order |-> 1, style |-> 1, case |-> 1] >>

C(type, ordinal, nullable, width) ==
  [type |-> type, ordinal |-> ordinal, nullable |-> nullable, width |-> width]

Two(a, c, b, d) == [n \in {a, b} |-> IF n = a THEN c ELSE d]
One(a, c) == [n \in {a} |-> c]

Key == C("INTEGER", 1, "no", 0)
MCSourceTables ==
  { One(1, Key),
    One(5, C("DATE", 1, "unknown", 0)),
    Two(1, Key, 2, C("INTEGER", 2, "no", 0)),
    Two(1, Key, 5, C("STRING", 2, "yes", 20)),
    Two(3, C("DECIMAL", 1, "no", 9), 5, C("STRING", 2, "yes", 10)),
    Two(3, C("INTEGER", 3, "yes", 0), 4, C("INTEGER", 1, "unknown", 0)),
    Two(1, C("UNKNOWN", 0, "no", 0), 4, C("TIMESTAMP_TZ", 2, "no", 0)) }

MCTargetTables ==
  { One(1, C("DECIMAL", 1, "no", 9)),
    One(5, C("TIMESTAMP", 1, "yes", 0)),
    Two(1, Key, 2, C("INTEGER", 2, "yes", 0)),
    Two(2, C("INTEGER", 1, "yes", 0), 5, C("STRING", 2, "yes", 20)),
    Two(1, C("INTEGER", 2, "no", 0), 5, C("STRING", 1, "no", 10)),
    Two(3, C("DECIMAL", 0, "yes", 5), 5, C("STRING", 2, "yes", 10)),
    Two(3, C("INTEGER", 1, "no", 0), 4, C("DECIMAL", 3, "no", 9)),
    Two(1, C("BOOLEAN", 1, "no", 0), 4, C("TIMESTAMP_TZ", 2, "no", 0)) }

MCCatalogs == 1..2

\* A coalesce of the key with a literal, one nested too deep, and a coalesce with a
\* cast inside that MySQL cannot express.
MCExpressions ==
  { [kind |-> "COALESCE", reads |-> {1}, casts |-> {}, depth |-> 1],
    [kind |-> "COALESCE", reads |-> {}, casts |-> {}, depth |-> 16],
    [kind |-> "COALESCE", reads |-> {5}, casts |-> {"TIMESTAMP_TZ"}, depth |-> 1] }
=============================================================================
