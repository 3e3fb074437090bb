------------------------- MODULE TableTransferProofs -------------------------
EXTENDS TableTransfer, FiniteSetTheorems, TLAPS

\* The states the source table can be in.
Table == [Keys -> Vals \cup {NoRow}]

----------------------------------------------------------------------------
(* Finite sets, and the copies of a row *)

\* A finite set of integers that is not empty has a least and a greatest element.
LEMMA Extremes ==
  ASSUME NEW S \in SUBSET Int, IsFiniteSet(S), S # {}
  PROVE  /\ \E low \in S : \A y \in S : low <= y
         /\ \E high \in S : \A y \in S : high >= y
  <1>1. IsWellFoundedOn(StrictSubsetOrdering(S), SUBSET S)
    BY FS_StrictSubsetOrderingWellFounded, FS_FiniteSubsetsOfFinite
  <1>2. ASSUME NEW T \in SUBSET S, T # {}
        PROVE  \E low \in T : \A y \in T : low <= y
    <2> DEFINE Bad == {U \in SUBSET S : U # {} /\ ~ \E low \in U : \A y \in U : low <= y}
    <2>1. SUFFICES ASSUME T \in Bad PROVE FALSE
      BY <1>2
    <2>2. PICK U \in Bad : \A V \in Bad : ~(<<V, U>> \in StrictSubsetOrdering(S))
      <3>1. Bad \subseteq SUBSET S /\ Bad # {}
        BY <2>1
      <3> HIDE DEF Bad
      <3> QED BY <1>1, <3>1, WFMin
    <2>3. PICK x \in U : TRUE
      BY DEF Bad
    <2>4. U \ {x} \notin Bad
      BY <2>2, <2>3 DEF StrictSubsetOrdering
    <2>5. CASE U \ {x} = {}
      <3>1. \A y \in U : x <= y
        BY <2>3, <2>5
      <3> QED BY <2>3, <3>1
    <2>6. CASE U \ {x} # {}
      <3>1. PICK low \in U \ {x} : \A y \in U \ {x} : low <= y
        BY <2>4, <2>6
      <3>2. low \in Int /\ x \in Int
        BY <2>3, <3>1
      <3>3. CASE low <= x
        BY <3>1, <3>3
      <3>4. CASE ~(low <= x)
        <4>1. \A y \in U : x <= y
          BY <3>1, <3>2, <3>4, U \subseteq Int
        <4> QED BY <2>3, <4>1
      <3> QED BY <3>3, <3>4
    <2> QED BY <2>5, <2>6
  <1>3. \E low \in S : \A y \in S : low <= y
    BY <1>2
  <1>4. ASSUME NEW T \in SUBSET S, T # {}
        PROVE  \E high \in T : \A y \in T : high >= y
    <2> DEFINE Bad == {U \in SUBSET S : U # {} /\ ~ \E high \in U : \A y \in U : high >= y}
    <2>1. SUFFICES ASSUME T \in Bad PROVE FALSE
      BY <1>4
    <2>2. PICK U \in Bad : \A V \in Bad : ~(<<V, U>> \in StrictSubsetOrdering(S))
      <3>1. Bad \subseteq SUBSET S /\ Bad # {}
        BY <2>1
      <3> HIDE DEF Bad
      <3> QED BY <1>1, <3>1, WFMin
    <2>3. PICK x \in U : TRUE
      BY DEF Bad
    <2>4. U \ {x} \notin Bad
      BY <2>2, <2>3 DEF StrictSubsetOrdering
    <2>5. CASE U \ {x} = {}
      <3>1. \A y \in U : x >= y
        BY <2>3, <2>5
      <3> QED BY <2>3, <3>1
    <2>6. CASE U \ {x} # {}
      <3>1. PICK high \in U \ {x} : \A y \in U \ {x} : high >= y
        BY <2>4, <2>6
      <3>2. high \in Int /\ x \in Int
        BY <2>3, <3>1
      <3>3. CASE high >= x
        BY <3>1, <3>3
      <3>4. CASE ~(high >= x)
        <4>1. \A y \in U : x >= y
          BY <3>1, <3>2, <3>4, U \subseteq Int
        <4> QED BY <2>3, <4>1
      <3> QED BY <3>3, <3>4
    <2> QED BY <2>5, <2>6
  <1>5. \E high \in S : \A y \in S : high >= y
    BY <1>4
  <1> QED BY <1>3, <1>5

LEMMA RowIsFinite == IsFiniteSet(Row)
  <1>1. Vals \in SUBSET Nat /\ Exact \in Nat /\ \A v \in Vals : v <= Exact
    BY TransferConstants DEF Exact
  <1>2. IsFiniteSet(Vals)
    BY <1>1, FS_BoundedSetOfNaturals
  <1> QED BY <1>2, FS_Product, TransferConstants DEF Row

\* A set of rows is counted by a natural number.
LEMMA RowsAreCounted ==
  ASSUME NEW S \in SUBSET Row
  PROVE  IsFiniteSet(S) /\ Cardinality(S) \in Nat /\ (Cardinality(S) = 0 <=> S = {})
  BY RowIsFinite, FS_Subset, FS_CardinalityType, FS_EmptySet

LEMMA CopiesAreFinite ==
  ASSUME NEW table \in [Row -> Nat]
  PROVE  IsFiniteSet(Copies(table))
  <1> DEFINE f == [r \in Row |-> {r} \X (1 .. table[r])]
             Stacks == {{r} \X (1 .. table[r]) : r \in Row}
  <1>1. f \in Surjection(Row, Stacks)
    BY DEF Surjection
  <1>2. IsFiniteSet(Stacks)
    BY <1>1, RowIsFinite, FS_Surjection
  <1>3. ASSUME NEW s \in Stacks PROVE IsFiniteSet(s)
    <2>1. PICK r \in Row : s = {r} \X (1 .. table[r])
      OBVIOUS
    <2>2. IsFiniteSet({r}) /\ IsFiniteSet(1 .. table[r])
      <3>1. table[r] \in Nat /\ 1 .. table[r] \in SUBSET Nat
        OBVIOUS
      <3>2. \A n \in 1 .. table[r] : n <= table[r]
        BY <3>1
      <3> QED BY <3>1, <3>2, FS_Singleton, FS_BoundedSetOfNaturals
    <2> QED BY <2>1, <2>2, FS_Product
  <1> HIDE DEF Stacks
  <1>4. IsFiniteSet(UNION Stacks)
    BY <1>2, <1>3, FS_UNION
  <1> QED BY <1>4 DEF Copies, Stacks

\* A table without duplicates has as many rows as the set it holds.
LEMMA CountOfHolding ==
  ASSUME NEW S \in SUBSET Row
  PROVE  Holding(S) \in [Row -> Nat] /\ RowCount(Holding(S)) = Cardinality(S)
  <1> DEFINE f == [r \in S |-> <<r, 1>>]
  <1>1. Holding(S) \in [Row -> Nat]
    BY DEF Holding
  <1>2. Copies(Holding(S)) = {<<r, 1>> : r \in S}
    <2>1. ASSUME NEW c, c \in Copies(Holding(S)) PROVE c \in {<<r, 1>> : r \in S}
      <3>1. PICK r \in Row : c \in {r} \X (1 .. Holding(S)[r])
        BY <2>1 DEF Copies
      <3>2. PICK n \in 1 .. Holding(S)[r] : c = <<r, n>>
        BY <3>1
      <3>3. r \in S /\ n = 1
        BY <3>2 DEF Holding
      <3> QED BY <3>2, <3>3
    <2>2. ASSUME NEW r \in S PROVE <<r, 1>> \in Copies(Holding(S))
      <3>1. r \in Row /\ Holding(S)[r] = 1
        BY DEF Holding
      <3>2. <<r, 1>> \in {r} \X (1 .. Holding(S)[r])
        BY <3>1
      <3> QED BY <3>1, <3>2 DEF Copies
    <2> QED BY <2>1, <2>2
  <1>3. f \in Bijection(S, {<<r, 1>> : r \in S})
    BY DEF Bijection, Injection, Surjection, IsInjective
  <1> QED BY <1>1, <1>2, <1>3, RowsAreCounted, FS_Bijection DEF RowCount, ExistsBijection

\* A table that holds every row of a set, and no more rows than the set has,
\* holds each of them once and nothing else.
LEMMA CountDecides ==
  ASSUME NEW table \in [Row -> Nat], NEW S \in SUBSET Row,
         \A r \in S : table[r] > 0, RowCount(table) = Cardinality(S)
  PROVE  table = Holding(S)
  <1>1. Copies(Holding(S)) \subseteq Copies(table)
    <2> SUFFICES ASSUME NEW c, c \in Copies(Holding(S)) PROVE c \in Copies(table)
      OBVIOUS
    <2>1. PICK r \in Row : c \in {r} \X (1 .. Holding(S)[r])
      BY DEF Copies
    <2>2. PICK n \in 1 .. Holding(S)[r] : c = <<r, n>>
      BY <2>1
    <2>3. r \in S /\ n = 1
      BY <2>2 DEF Holding
    <2>4. n \in 1 .. table[r]
      BY <2>3
    <2>5. c \in {r} \X (1 .. table[r])
      BY <2>2, <2>4
    <2> QED BY <2>5 DEF Copies
  <1>2. Copies(Holding(S)) = Copies(table)
    BY <1>1, CopiesAreFinite, CountOfHolding, FS_Subset DEF RowCount
  <1>3. ASSUME NEW r \in Row PROVE table[r] = Holding(S)[r]
    <2>1. \A n : n \in 1 .. table[r] <=> <<r, n>> \in Copies(table)
      BY DEF Copies
    <2>2. \A n : n \in 1 .. Holding(S)[r] <=> <<r, n>> \in Copies(Holding(S))
      BY DEF Copies
    <2>3. 1 .. table[r] = 1 .. Holding(S)[r]
      BY <1>2, <2>1, <2>2
    <2>4. table[r] \in Nat /\ Holding(S)[r] \in Nat
      BY CountOfHolding
    <2>5. table[r] \in 1 .. table[r] \/ table[r] = 0
      BY <2>4
    <2>6. Holding(S)[r] \in 1 .. Holding(S)[r] \/ Holding(S)[r] = 0
      BY <2>4
    <2> QED BY <2>3, <2>4, <2>5, <2>6
  <1> QED BY <1>3, CountOfHolding

----------------------------------------------------------------------------
(* What a value becomes in the staging table *)

\* A landing type is a number of digits or none.
LEMMA LandingType ==
  ASSUME NEW s \in Setups
  PROVE  Landing(s.target, s.column) \in Nat \cup {Unsupported}
  <1>1. s.target \in Dialects /\ s.column \in Column
    BY TransferConstants DEF Setup
  <1>2. ASSUME NEW c \in Column, NEW p \in Nat, NEW q \in Nat
        PROVE  Numeric(c, p, q) \in Nat /\ Timed(c, p, q) \in Nat
    BY DEF Column, Numeric, Timed, Exact
  <1>3. PostgreSQLLanding(s.column) \in Nat \cup {Unsupported}
    BY <1>1, <1>2 DEF PostgreSQLLanding, Exact
  <1>4. MySQLLanding(s.column) \in Nat \cup {Unsupported}
    BY <1>1, <1>2 DEF MySQLLanding, Exact
  <1>5. SnowflakeLanding(s.column) \in Nat \cup {Unsupported}
    BY <1>1, <1>2 DEF SnowflakeLanding, Exact
  <1> QED BY <1>1, <1>3, <1>4, <1>5 DEF Landing, Dialects

\* A value lands as a value.
LEMMA KeptType ==
  ASSUME setup \in Setups, Stageable, NEW v \in Vals
  PROVE  Kept(v) \in Vals
  BY LandingType, TransferConstants DEF Kept, Stageable

\* Rows of one table land as rows with the same keys, so none is lost and no two
\* become one.
LEMMA LandedRows ==
  ASSUME setup \in Setups, Stageable, NEW table \in Table,
         NEW S \in SUBSET RowsOf(table)
  PROVE  /\ S \in SUBSET Row /\ Landed(S) \in SUBSET Row
         /\ Cardinality(Landed(S)) = Cardinality(S)
  <1> DEFINE f == [r \in S |-> <<r[1], Kept(r[2])>>]
  <1>1. S \in SUBSET Row
    BY DEF RowsOf
  <1>2. \A r \in S : r \in Keys \X Vals /\ r = <<r[1], r[2]>> /\ table[r[1]] = r[2]
    BY DEF RowsOf, Row
  <1>3. ASSUME NEW r \in S PROVE <<r[1], Kept(r[2])>> \in Row
    BY <1>2, KeptType DEF Row
  <1>4. Landed(S) \in SUBSET Row
    BY <1>3 DEF Landed
  <1>5. f \in [S -> Landed(S)] /\ \A t \in Landed(S) : \E r \in S : f[r] = t
    BY DEF Landed
  <1>6. ASSUME NEW a \in S, NEW b \in S, f[a] = f[b] PROVE a = b
    <2>1. a[1] = b[1]
      BY <1>6
    <2> QED BY <1>2, <2>1
  <1>7. f \in Bijection(S, Landed(S))
    BY <1>5, <1>6 DEF Bijection, Injection, Surjection, IsInjective
  <1>8. IsFiniteSet(S)
    BY <1>1, RowsAreCounted
  <1>9. Cardinality(Landed(S)) = Cardinality(S)
    BY <1>7, <1>8, FS_Bijection DEF ExistsBijection
  <1> QED BY <1>1, <1>4, <1>9

\* Inserting rows of the same table that are not there yet.
LEMMA InsertNew ==
  ASSUME setup \in Setups, Stageable, NEW table \in Table,
         NEW A \in SUBSET RowsOf(table), NEW B \in SUBSET RowsOf(table), A \cap B = {}
  PROVE  /\ With(Holding(Landed(A)), B) = Holding(Landed(A \cup B))
         /\ Cardinality(A \cup B) = Cardinality(A) + Cardinality(B)
  <1>1. \A r \in A \cup B : r \in Keys \X Vals /\ r = <<r[1], r[2]>> /\ table[r[1]] = r[2]
    BY DEF RowsOf, Row
  <1>2. Landed(A) \cap Landed(B) = {}
    <2> SUFFICES ASSUME NEW a \in A, NEW b \in B,
                        <<a[1], Kept(a[2])>> = <<b[1], Kept(b[2])>>
                 PROVE  FALSE
      BY DEF Landed
    <2>1. a[1] = b[1]
      OBVIOUS
    <2>2. a = b
      BY <1>1, <2>1
    <2> QED BY <2>2
  <1>3. Landed(A \cup B) = Landed(A) \cup Landed(B)
    BY DEF Landed
  <1>4. With(Holding(Landed(A)), B) = Holding(Landed(A \cup B))
    BY <1>2, <1>3 DEF With, Holding
  <1>5. Cardinality(A \cup B) = Cardinality(A) + Cardinality(B)
    <2>1. A \in SUBSET Row /\ B \in SUBSET Row
      BY LandedRows
    <2>2. Cardinality(A \cap B) = 0
      BY FS_EmptySet
    <2>3. /\ IsFiniteSet(A) /\ Cardinality(A) \in Nat
          /\ IsFiniteSet(B) /\ Cardinality(B) \in Nat
      BY <2>1, RowsAreCounted
    <2>4. Cardinality(A \cup B) = Cardinality(A) + Cardinality(B) - Cardinality(A \cap B)
      BY <2>3, FS_Union
    <2> QED BY <2>2, <2>3, <2>4
  <1> QED BY <1>4, <1>5

\* Inserting rows makes a table of a table and takes nothing away.
LEMMA InsertAny ==
  ASSUME NEW table \in [Row -> Nat], NEW rows
  PROVE  /\ With(table, rows) \in [Row -> Nat]
         /\ \A r \in Row : With(table, rows)[r] >= table[r]
         /\ \A r \in Row \cap Landed(rows) : With(table, rows)[r] > 0
  BY DEF With, Holding

----------------------------------------------------------------------------
(* The limits, and the batches of a cursor *)

LEMMA BatchWithinCaps ==
  ASSUME NEW s \in Setups
  PROVE  /\ EffectiveBatch(s) \in Nat \ {0}
         /\ EffectiveBatch(s) <= s.sourceCap /\ EffectiveBatch(s) <= s.targetCap
  <1>1. s.sourceCap \in Nat \ {0} /\ s.targetCap \in Nat \ {0} /\ s.asked \in Nat
    BY TransferConstants DEF Setup
  <1> QED BY <1>1 DEF EffectiveBatch, Caps, Least, Unset

\* A batch is some rows of the cursor, as many as were asked for at most.
LEMMA BatchOfCursor ==
  ASSUME cursor \in SUBSET Row, cursor # {}, batchSize \in Nat \ {0}, NEW rows \in Fetched
  PROVE  /\ rows \in SUBSET cursor /\ rows \in SUBSET Row
         /\ Cardinality(rows) \in Nat \ {0} /\ Cardinality(rows) <= batchSize
  <1>1. Cardinality(cursor) \in Nat \ {0}
    BY RowsAreCounted
  <1>2. rows \in SUBSET cursor /\ Cardinality(rows) = Least(batchSize, Cardinality(cursor))
    BY DEF Fetched, kSubset
  <1> QED BY <1>1, <1>2 DEF Least

----------------------------------------------------------------------------
(* The slices of a Spark read *)

\* A larger number divided has a larger quotient.
LEMMA QuotientGrows ==
  ASSUME NEW a \in Nat, NEW b \in Nat, a <= b, NEW n \in Nat \ {0}
  PROVE  (b \div n) - (a \div n) \in Nat
  <1> DEFINE p == a \div n
             q == b \div n
  <1>1. p \in Int /\ q \in Int /\ a = n * p + (a % n) /\ b = n * q + (b % n)
    OBVIOUS
  <1>2. a % n \in 0 .. n - 1 /\ b % n \in 0 .. n - 1
    OBVIOUS
  <1>3. ASSUME q < p PROVE FALSE
    <2>1. q + 1 <= p
      BY <1>1, <1>3
    <2>2. n * (q + 1) <= n * p
      BY <1>1, <2>1
    <2>3. n * (q + 1) = n * q + n
      BY <1>1
    <2> QED BY <1>1, <1>2, <2>2, <2>3
  <1> QED BY <1>1, <1>3

\* Spark's slices of a range split all keys: each key is in exactly one slice.
THEOREM SlicesSplit ==
  ASSUME NEW lower \in Nat, NEW upper \in Nat
  PROVE  /\ Slices(lower, upper) # {}
         /\ \A s \in Slices(lower, upper) : s \subseteq Keys
         /\ UNION Slices(lower, upper) = Keys
         /\ \A s, t \in Slices(lower, upper) : s # t => s \cap t = {}
  <1> DEFINE n == IF upper - lower < 2 THEN 1 ELSE Least(Partitions, upper - lower)
             stride == (upper \div n) - (lower \div n)
             Cut(i) == lower + i * stride
             S(i) == {k \in Keys : (i = 1 \/ k >= Cut(i - 1)) /\ (i = n \/ k < Cut(i))}
  <1>1. n \in Nat \ {0} /\ (n = 1 \/ lower <= upper)
    BY TransferConstants DEF Least
  <1>2. Slices(lower, upper) = {S(i) : i \in 1 .. n}
    BY DEF Slices
  <1>3. n # 1 => stride \in Nat
    BY <1>1, QuotientGrows
  <1> HIDE DEF n, stride
  <1>4. ASSUME NEW i \in 1 .. n, NEW j \in 1 .. n, i < j, NEW k, k \in S(i), k \in S(j)
        PROVE  FALSE
    <2>1. stride \in Nat /\ i \in Nat /\ j \in Nat /\ i # n /\ j # 1 /\ i <= j - 1
      BY <1>1, <1>3, <1>4
    <2>2. k \in Nat /\ k < lower + i * stride /\ k >= lower + (j - 1) * stride
      BY <1>4, <2>1, TransferConstants
    <2>3. i * stride <= (j - 1) * stride
      BY <2>1
    <2>4. i * stride \in Nat /\ (j - 1) * stride \in Nat
      BY <2>1
    <2> QED BY <2>2, <2>3, <2>4
  <1>5. ASSUME NEW k \in Keys PROVE \E i \in 1 .. n : k \in S(i)
    <2> DEFINE After == {i \in 1 .. n : i = n \/ k < Cut(i)}
    <2>1. After \in SUBSET Int /\ n \in After
      BY <1>1
    <2>2. IsFiniteSet(After)
      <3>1. After \in SUBSET Nat /\ \A i \in After : i <= n
        BY <1>1
      <3> HIDE DEF After
      <3> QED BY <1>1, <3>1, FS_BoundedSetOfNaturals
    <2>3. PICK i \in After : \A j \in After : i <= j
      <3> HIDE DEF After
      <3> QED BY <2>1, <2>2, Extremes
    <2>4. CASE i = 1
      BY <2>3, <2>4
    <2>5. CASE i # 1
      <3>1. i - 1 \in 1 .. n /\ i - 1 # n /\ i - 1 \notin After
        BY <1>1, <2>3, <2>5
      <3>2. n # 1
        BY <1>1, <3>1
      <3>3. stride \in Nat /\ Cut(i - 1) \in Nat /\ k \in Nat
        BY <1>3, <3>1, <3>2, TransferConstants
      <3>4. k >= Cut(i - 1)
        BY <3>1, <3>3
      <3> QED BY <2>3, <3>4
    <2> QED BY <2>4, <2>5
  <1>6. \A i, j \in 1 .. n : S(i) # S(j) => S(i) \cap S(j) = {}
    <2> SUFFICES ASSUME NEW i \in 1 .. n, NEW j \in 1 .. n, i # j,
                        NEW k, k \in S(i), k \in S(j)
                 PROVE  FALSE
      OBVIOUS
    <2>1. i < j \/ j < i
      OBVIOUS
    <2> QED BY <1>4, <2>1
  <1>7. \A i \in 1 .. n : S(i) \subseteq Keys
    OBVIOUS
  <1>8. 1 \in 1 .. n
    BY <1>1
  <1> HIDE DEF S
  <1> QED BY <1>2, <1>5, <1>6, <1>7, <1>8

\* The bounds a JDBC source answers with are keys.
LEMMA BoundsAreKeys ==
  ASSUME NEW keys \in SUBSET Keys, keys # {}
  PROVE  Min(keys) \in Nat /\ Max(keys) \in Nat
  <1>1. keys \in SUBSET Int /\ IsFiniteSet(keys)
    <2>1. Keys \subseteq Nat /\ IsFiniteSet(Keys)
      BY TransferConstants
    <2>2. IsFiniteSet(keys)
      BY <2>1, FS_Subset
    <2> QED BY <2>1, <2>2
  <1>2. /\ \E low \in keys : \A y \in keys : low <= y
        /\ \E high \in keys : \A y \in keys : high >= y
    BY <1>1, Extremes
  <1>3. Min(keys) \in keys /\ Max(keys) \in keys
    BY <1>2 DEF Min, Max
  <1> QED BY <1>3, TransferConstants

----------------------------------------------------------------------------
(* The inductive invariant *)

Writing == {"open", "fetch", "report", "session", "bounds", "count", "append",
            "stop", "verify"}
Sequentially == {"open", "fetch", "report"}
InSpark == {"session", "bounds", "count", "append", "stop", "verify"}

\* The history of the source is a finite set of tables the column can hold.
HistoryIsTyped ==
  /\ IsFiniteSet(been) /\ been \subseteq Table
  /\ \A table \in been, k \in Keys : table[k] \in Contents

\* The loader works on one path at a time, on a table that is there, and has
\* neither failed nor ended while it works.
PathIsTaken ==
  /\ pc # "done" => outcome = "NONE"
  /\ pc \notin {"drop", "done"} => why = "NONE"
  /\ pc = "drop" => why # "NONE"
  /\ pc \in Writing => staging \in [Row -> Nat] /\ Stageable
  /\ pc \in Sequentially => ~spark
  /\ pc \in InSpark => spark
  /\ pc \in {"prepare", "create"} => staging = NoTable

\* What prepare() decided follows from the setup and is not changed.
Decided ==
  pc # "prepare" /\ outcome # "REFUSED" =>
    batchSize = EffectiveBatch(setup) /\ fallback = FallbackReason(setup)

\* Until the first row is read nothing is counted, nothing is reported, and the
\* table, if it is there, is empty.
NothingYet ==
  /\ pc \in {"prepare", "create", "open", "session", "bounds"} =>
       tally = [batches |-> 0, read |-> 0, written |-> 0]
  /\ pc \in {"open", "session", "bounds", "count"} => staging = EmptyTable
  /\ pc \in {"prepare", "create", "open"} => reported = [batches |-> 0, rows |-> 0]

\* The rows of the cursor that are not in it any more are in the table, once
\* each, and they are what is counted.
CursorReads ==
  \E table \in been :
    LET gone == RowsOf(table) \ cursor
    IN  /\ cursor \subseteq RowsOf(table)
        /\ staging = Holding(Landed(gone))
        /\ tally.read = Cardinality(gone) /\ tally.written = Cardinality(gone)
        /\ (tally.batches = 0) <=> (tally.read = 0)
CursorAndTable == pc \in {"fetch", "report"} => CursorReads

\* Without Spark no row is ever in the table twice, and no more rows are
\* reported than are in it.
ReportedIsThere ==
  /\ ~spark /\ staging # NoTable =>
       \E rows \in SUBSET Row : staging = Holding(rows)
                                /\ reported.rows <= Cardinality(rows)
  /\ pc = "fetch" => reported = [batches |-> tally.batches, rows |-> tally.written]

\* The slices split the keys, and there is a slice to do while a job runs.
SlicesSplitKeys ==
  pc \in {"count", "append", "stop", "verify"} =>
    /\ UNION slices = Keys
    /\ \A s, t \in slices : s # t => s \cap t = {}
    /\ pc \in {"count", "append"} => todo # {}

\* The rows of the slices that are done.
Done == {r \in RowsOf(source) : \E s \in slices \ todo : r[1] \in s}

\* While nobody writes the source, what is counted is the rows of the slices
\* that are done, and every row of a slice that is done is in the table.
QuietSpark ==
  been = {source} =>
    /\ pc = "count" => tally.read = Cardinality(Done)
    /\ pc \in {"append", "stop", "verify"} =>
         tally.read = Cardinality(RowsOf(source))
    /\ pc = "append" => \A r \in Landed(Done) : staging[r] > 0
    /\ pc \in {"stop", "verify"} => \A r \in Landed(RowsOf(source)) : staging[r] > 0

\* Whoever writes the source meanwhile, no row is in the table that is not what a
\* row of the source became.
NoRowInvented ==
  staging # NoTable =>
    \A r \in Row : staging[r] > 0 => \E table \in been : r \in Landed(RowsOf(table))

\* What success has left behind.
Concluded ==
  outcome = "SUCCEEDED" =>
    /\ why = "NONE" /\ staging \in [Row -> Nat] /\ Stageable
    /\ tally.read = RowCount(staging) /\ tally.written = RowCount(staging)
    /\ (tally.batches = 0) <=> (tally.read = 0)
    /\ ~spark \/ been = {source} =>
         \E table \in been : staging = Holding(Landed(RowsOf(table)))

Failed ==
  /\ outcome \in {"CONFIRMED_FAILED_CLEANED_UP", "OUTCOME_UNCERTAIN"} => why # "NONE"
  /\ outcome = "CONFIRMED_FAILED_CLEANED_UP" => staging = NoTable

IInv ==
  /\ TypeOK /\ HistoryIsTyped /\ PathIsTaken /\ Decided /\ NothingYet
  /\ CursorAndTable /\ ReportedIsThere /\ SlicesSplitKeys /\ QuietSpark
  /\ NoRowInvented /\ Concluded /\ Failed /\ AcceptedIsLoadable

----------------------------------------------------------------------------
(* The invariant holds at the beginning *)

LEMMA InitIsRight == Init => IInv
  <1> SUFFICES ASSUME Init PROVE IInv
    OBVIOUS
  <1>1. source \in Table /\ \A k \in Keys : source[k] \in Contents
    BY TransferConstants DEF Init, Table
  <1>2. IsFiniteSet(been) /\ Cardinality(been) = 1
    BY FS_Singleton DEF Init
  <1>3. HistoryIsTyped
    BY <1>1, <1>2 DEF HistoryIsTyped, Init
  <1>4. TypeOK
    <2>1. 0 \in 0 .. TaskAttempts - 1 /\ 1 <= MaxWrites + 1
      BY TransferConstants
    <2>2. source \in been /\ Cardinality(been) <= MaxWrites + 1
      BY <1>2, <2>1 DEF Init
    <2> QED BY <1>1, <2>1, <2>2 DEF TypeOK, Init, Table, Steps, Reasons
  <1>5. PathIsTaken /\ NothingYet /\ Decided /\ AcceptedIsLoadable
    BY DEF Init, PathIsTaken, NothingYet, Decided, AcceptedIsLoadable, Writing,
           Sequentially, InSpark
  <1>6. CursorAndTable /\ ReportedIsThere /\ SlicesSplitKeys /\ QuietSpark /\ NoRowInvented
    BY DEF Init, CursorAndTable, ReportedIsThere, SlicesSplitKeys, QuietSpark, NoRowInvented
  <1>7. Concluded /\ Failed
    BY DEF Init, Concluded, Failed
  <1> QED BY <1>3, <1>4, <1>5, <1>6, <1>7 DEF IInv

----------------------------------------------------------------------------
(* The steps *)

\* Only the application writes the source, and only new contents.
LEMMA HistoryGrows ==
  ASSUME TypeOK, HistoryIsTyped, ApplicationWrites
  PROVE  /\ setup' = setup /\ been' = been \cup {source'} /\ source' \in Table
         /\ \A k \in Keys : source'[k] \in Contents
         /\ IsFiniteSet(been') /\ Cardinality(been') <= MaxWrites + 1
         /\ been' # {source'}
  <1>1. PICK k \in Keys, v \in Contents :
          /\ v # source[k] /\ source' = [source EXCEPT ![k] = v]
          /\ been' = been \cup {source'}
    BY DEF ApplicationWrites
  <1>2. setup' = setup /\ source \in been /\ Cardinality(been) <= MaxWrites
    BY DEF ApplicationWrites, TypeOK
  <1>3. source \in Table /\ \A j \in Keys : source[j] \in Contents
    BY <1>2 DEF HistoryIsTyped
  <1>4. v \in Vals \cup {NoRow}
    BY DEF Contents
  <1>5. source' \in Table /\ \A j \in Keys : source'[j] \in Contents
    BY <1>1, <1>3, <1>4 DEF Table
  <1>6. IsFiniteSet(been') /\ Cardinality(been') <= Cardinality(been) + 1
        /\ Cardinality(been) \in Nat /\ Cardinality(been') \in Nat
    <2>1. IsFiniteSet(been)
      BY DEF HistoryIsTyped
    <2>2. IsFiniteSet(been') /\ Cardinality(been') \in {Cardinality(been), Cardinality(been) + 1}
      BY <1>1, <2>1, FS_AddElement
    <2> QED BY <2>1, <2>2, FS_CardinalityType
  <1>7. source' # source
    BY <1>1, <1>3 DEF Table
  <1>8. Cardinality(been') <= MaxWrites + 1
    BY <1>2, <1>6, TransferConstants
  <1> QED BY <1>1, <1>2, <1>5, <1>6, <1>7, <1>8

LEMMA LoaderReads ==
  ASSUME Works \/ Breaks
  PROVE  UNCHANGED <<setup, source, been>>
  BY DEF Works, Breaks, Refuse, Prepare, CreateTable, CreateRefused, Drop, OpenCursor,
         WriteBatch, ReportProgress, CursorDone, StartSession, LoadDataFrame,
         CountSlice, AppendSlice, StopSession, Verify, CreateFails, DropFails,
         ReportFails, LoadFails, AppendAgain, SparkFails

LEMMA HistoryKept == TypeOK /\ HistoryIsTyped /\ [Next]_vars => HistoryIsTyped'
  <1> SUFFICES ASSUME TypeOK, HistoryIsTyped, [Next]_vars PROVE HistoryIsTyped'
    OBVIOUS
  <1>1. CASE ApplicationWrites
    BY <1>1, HistoryGrows DEF HistoryIsTyped, Contents
  <1>2. CASE Works \/ Breaks
    BY <1>2, LoaderReads DEF HistoryIsTyped, Contents
  <1>3. CASE UNCHANGED vars
    BY <1>3 DEF HistoryIsTyped, Contents, vars
  <1> QED BY <1>1, <1>2, <1>3 DEF Next

LEMMA DecidedKept == PathIsTaken /\ Decided /\ [Next]_vars => Decided'
  BY DEF PathIsTaken, Decided, Next, vars, load, Works, Breaks, ApplicationWrites, Refuse,
         Prepare, CreateTable,
         CreateRefused, Drop, OpenCursor, WriteBatch, ReportProgress, CursorDone,
         StartSession, LoadDataFrame, CountSlice, AppendSlice, StopSession, Verify,
         CreateFails, DropFails, ReportFails, LoadFails, AppendAgain, SparkFails,
         Fails, Succeeds, Split, Finished

LEMMA FailedKept ==
  PathIsTaken /\ Failed /\ [Next]_vars => Failed'
  BY DEF PathIsTaken, Failed, Next, vars, load, Works, Breaks, ApplicationWrites,
         Refuse, Prepare, CreateTable,
         CreateRefused, Drop, OpenCursor, WriteBatch, ReportProgress, CursorDone,
         StartSession, LoadDataFrame, CountSlice, AppendSlice, StopSession, Verify,
         CreateFails, DropFails, ReportFails, LoadFails, AppendAgain, SparkFails,
         Fails, Succeeds, Split, Finished

LEMMA NothingYetKept ==
  PathIsTaken /\ NothingYet /\ [Next]_vars => NothingYet'
  BY DEF PathIsTaken, NothingYet, Next, vars, load, Works, Breaks, ApplicationWrites,
         Refuse, Prepare, CreateTable,
         CreateRefused, Drop, OpenCursor, WriteBatch, ReportProgress, CursorDone,
         StartSession, LoadDataFrame, CountSlice, AppendSlice, StopSession, Verify,
         CreateFails, DropFails, ReportFails, LoadFails, AppendAgain, SparkFails,
         Fails, Succeeds, Split, Finished

\* What an insert of the rows of a batch or a slice leaves is a table.
LEMMA PathKept == TypeOK /\ PathIsTaken /\ [Next]_vars => PathIsTaken'
  <1> SUFFICES ASSUME TypeOK, PathIsTaken, [Next]_vars PROVE PathIsTaken'
    OBVIOUS
  <1>1. CASE ApplicationWrites
    BY <1>1 DEF ApplicationWrites, PathIsTaken, load, Stageable
  <1>2. CASE UNCHANGED vars
    BY <1>2 DEF vars, PathIsTaken, load, Stageable
  <1>3. CASE Refuse \/ Prepare \/ CreateTable \/ CreateRefused \/ CreateFails
    BY <1>3 DEF Refuse, Prepare, CreateTable, CreateRefused, CreateFails, Fails,
         PathIsTaken, load, Stageable, Writing, Sequentially, InSpark, EmptyTable
  <1>4. CASE Drop \/ DropFails \/ ReportFails \/ CursorDone
    BY <1>4 DEF Drop, DropFails, ReportFails, CursorDone, Fails, Succeeds,
         PathIsTaken, load, Stageable, Writing, Sequentially, InSpark
  <1>5. CASE LoadFails \/ SparkFails
    BY <1>5 DEF LoadFails, SparkFails, Fails,
         PathIsTaken, load, Stageable, Writing, Sequentially, InSpark
  <1>6. CASE OpenCursor
    BY <1>6 DEF OpenCursor, Fails,
         PathIsTaken, load, Stageable, Writing, Sequentially, InSpark
  <1>7. CASE ReportProgress \/ StartSession \/ StopSession
    BY <1>7 DEF ReportProgress, StartSession, StopSession,
         PathIsTaken, load, Stageable, Writing, Sequentially, InSpark
  <1>8. CASE WriteBatch
    <2>1. staging \in [Row -> Nat] /\ pc = "fetch" /\ setup' = setup /\ spark' = spark
          /\ outcome' = outcome /\ Stageable
      BY <1>8 DEF WriteBatch, PathIsTaken, Writing
    <2>2. PICK rows \in Fetched :
            \/ Fails("OVER_LIMIT")
            \/ staging' = With(staging, rows) /\ pc' = "report" /\ why' = why
      BY <1>8 DEF WriteBatch
    <2>3. With(staging, rows) \in [Row -> Nat]
      BY <2>1, InsertAny
    <2> QED BY <2>1, <2>2, <2>3 DEF Fails,
         PathIsTaken, load, Stageable, Writing, Sequentially, InSpark
  <1>9. CASE LoadDataFrame
    BY <1>9 DEF LoadDataFrame, Fails, Split,
         PathIsTaken, load, Stageable, Writing, Sequentially, InSpark
  <1>10. CASE CountSlice
    BY <1>10 DEF CountSlice, Finished,
         PathIsTaken, load, Stageable, Writing, Sequentially, InSpark
  <1>11. CASE AppendSlice \/ AppendAgain
    <2>1. staging \in [Row -> Nat] /\ pc = "append" /\ setup' = setup /\ spark' = spark
          /\ outcome' = outcome /\ why' = why /\ pc' \in {"append", "stop"}
      BY <1>11 DEF AppendSlice, AppendAgain, PathIsTaken, Writing, Finished
    <2>2. PICK s \in todo : staging' = With(staging, InSlice(s))
      BY <1>11 DEF AppendSlice, AppendAgain
    <2>3. staging' \in [Row -> Nat]
      BY <2>1, <2>2, InsertAny
    <2> QED BY <2>1, <2>3 DEF
         PathIsTaken, load, Stageable, Writing, Sequentially, InSpark
  <1>12. CASE Verify
    BY <1>12 DEF Verify, Fails, Succeeds,
         PathIsTaken, load, Stageable, Writing, Sequentially, InSpark
  <1> QED BY <1>1, <1>2, <1>3, <1>4, <1>5, <1>6, <1>7, <1>8, <1>9, <1>10, <1>11, <1>12
          DEF Next, Works, Breaks

\* The limits hold what prepare() decided, and the plans are built from the same
\* profiles again.
LEMMA AcceptedKept ==
  TypeOK /\ PathIsTaken /\ Decided /\ AcceptedIsLoadable /\ [Next]_vars
    => AcceptedIsLoadable'
  <1> SUFFICES ASSUME TypeOK, PathIsTaken, Decided, AcceptedIsLoadable, [Next]_vars
               PROVE  AcceptedIsLoadable'
    OBVIOUS
  <1>1. setup \in Setups
    BY DEF TypeOK
  <1>2. CASE OpenCursor
    <2>1. batchSize = EffectiveBatch(setup)
      BY <1>2 DEF OpenCursor, Decided, PathIsTaken
    <2>2. setup.sourceCap \in Nat
      BY <1>1, TransferConstants DEF Setup
    <2>3. ~(batchSize > setup.sourceCap)
      BY <1>1, <2>1, <2>2, BatchWithinCaps
    <2> QED BY <1>2, <2>3 DEF OpenCursor, AcceptedIsLoadable
  <1>3. CASE WriteBatch
    <2>1. batchSize = EffectiveBatch(setup)
      BY <1>3 DEF WriteBatch, Decided, PathIsTaken
    <2>2. setup.targetCap \in Nat /\ batchSize \in Nat \ {0} /\ batchSize <= setup.targetCap
      BY <1>1, <2>1, BatchWithinCaps, TransferConstants DEF Setup
    <2>3. cursor \in SUBSET Row /\ cursor # {}
      BY <1>3 DEF WriteBatch, TypeOK
    <2>4. \A rows \in Fetched : ~(Cardinality(rows) > setup.targetCap)
      BY <2>2, <2>3, BatchOfCursor
    <2> QED BY <1>3, <2>4 DEF WriteBatch, AcceptedIsLoadable
  <1>4. CASE LoadDataFrame
    <2>1. fallback = FallbackReason(setup) /\ spark
      BY <1>4 DEF LoadDataFrame, Decided, PathIsTaken, InSpark
    <2>2. fallback = "NONE"
      BY <2>1 DEF TypeOK
    <2>3. SparkPlans(setup)
      BY <2>1, <2>2 DEF FallbackReason
    <2> QED BY <1>4, <2>3 DEF LoadDataFrame, AcceptedIsLoadable, Fails, Split
  <1>5. CASE ~(OpenCursor \/ WriteBatch \/ LoadDataFrame)
    BY <1>5 DEF AcceptedIsLoadable, Next, vars, load, Works, Breaks, ApplicationWrites,
         Refuse, Prepare, CreateTable, CreateRefused, Drop, ReportProgress, CursorDone,
         StartSession, CountSlice, AppendSlice, StopSession, Verify,
         CreateFails, DropFails, ReportFails, LoadFails, AppendAgain, SparkFails,
         Fails, Succeeds
  <1> QED BY <1>2, <1>3, <1>4, <1>5

LEMMA SlicesKept ==
  TypeOK /\ PathIsTaken /\ SlicesSplitKeys /\ [Next]_vars => SlicesSplitKeys'
  <1> SUFFICES ASSUME TypeOK, PathIsTaken, SlicesSplitKeys, [Next]_vars
               PROVE  SlicesSplitKeys'
    OBVIOUS
  <1>1. CASE LoadDataFrame
    <2> DEFINE keys == {k \in Keys : source[k] # NoRow}
    <2>1. ASSUME NEW lower \in Nat, NEW upper \in Nat, Split(Slices(lower, upper))
          PROVE  SlicesSplitKeys'
      BY <2>1, SlicesSplit DEF Split, SlicesSplitKeys
    <2>2. CASE Split({Keys})
      BY <2>2 DEF Split, SlicesSplitKeys
    <2>3. CASE keys # {} /\ Split(Slices(Min(keys), Max(keys)))
      BY <2>1, <2>3, BoundsAreKeys
    <2>4. CASE pc' = "drop"
      BY <2>4 DEF SlicesSplitKeys
    <2> QED BY <1>1, <2>2, <2>3, <2>4 DEF LoadDataFrame, Fails
  <1>2. CASE CountSlice \/ AppendSlice
    BY <1>2 DEF CountSlice, AppendSlice, Finished, SlicesSplitKeys, TypeOK
  <1>3. CASE ~(LoadDataFrame \/ CountSlice \/ AppendSlice)
    BY <1>3 DEF SlicesSplitKeys, Next, vars, load, Works, Breaks, ApplicationWrites,
         Refuse, Prepare, CreateTable, CreateRefused, Drop, ReportProgress, CursorDone,
         StartSession, StopSession, Verify, OpenCursor, WriteBatch,
         CreateFails, DropFails, ReportFails, LoadFails, AppendAgain, SparkFails,
         Fails, Succeeds
  <1> QED BY <1>1, <1>2, <1>3

\* The part of the types that a step of the loader can disturb.
LEMMA TypesKept ==
  TypeOK /\ HistoryIsTyped /\ PathIsTaken /\ Decided /\ [Next]_vars => TypeOK'
  <1> SUFFICES ASSUME TypeOK, HistoryIsTyped, PathIsTaken, Decided, [Next]_vars
               PROVE  TypeOK'
    OBVIOUS
  <1>1. CASE ApplicationWrites
    <2>1. /\ setup' = setup /\ source' \in Table /\ source' \in been'
          /\ Cardinality(been') <= MaxWrites + 1
      BY <1>1, HistoryGrows
    <2> QED BY <1>1, <2>1 DEF ApplicationWrites, TypeOK, load, Table
  <1>2. CASE UNCHANGED vars
    BY <1>2 DEF vars, TypeOK, load
  <1>3. CASE Refuse \/ CreateTable \/ CreateRefused \/ CreateFails \/ Drop \/ DropFails
    BY <1>3 DEF Refuse, CreateTable, CreateRefused, CreateFails, Drop, DropFails, Fails,
         TypeOK, PathIsTaken, load, EmptyTable, Steps, Reasons
  <1>4. CASE Prepare
    <2>1. EffectiveBatch(setup) \in Nat
      BY BatchWithinCaps DEF TypeOK
    <2> QED BY <1>4, <2>1 DEF Prepare, TypeOK, PathIsTaken, Steps
  <1>5. CASE OpenCursor
    BY <1>5 DEF OpenCursor, Fails, TypeOK, PathIsTaken, RowsOf, Steps, Reasons
  <1>6. CASE WriteBatch
    <2>1. /\ staging \in [Row -> Nat] /\ pc = "fetch" /\ cursor \in SUBSET Row
          /\ cursor # {} /\ batchSize \in Nat \ {0}
      BY <1>6, BatchWithinCaps DEF WriteBatch, PathIsTaken, Writing, TypeOK, Decided
    <2>2. PICK rows \in Fetched :
            \/ Fails("OVER_LIMIT") /\ UNCHANGED <<cursor, staging, tally>>
            \/ /\ cursor' = cursor \ rows /\ staging' = With(staging, rows)
               /\ tally' = [batches |-> tally.batches + 1,
                            read |-> tally.read + Cardinality(rows),
                            written |-> tally.written + Cardinality(rows)]
               /\ pc' = "report" /\ UNCHANGED why
      BY <1>6 DEF WriteBatch
    <2>3. Cardinality(rows) \in Nat
      BY <2>1, BatchOfCursor
    <2>4. With(staging, rows) \in [Row -> Nat]
      BY <2>1, InsertAny
    <2>5. UNCHANGED <<setup, source, been, batchSize, spark, fallback, slices, todo,
                      attempts, reported, outcome>>
      BY <1>6 DEF WriteBatch
    <2>6. staging' \in {NoTable} \/ staging' \in [Row -> Nat]
      BY <2>1, <2>2, <2>4
    <2>7. tally' \in [batches: Nat, read: Nat, written: Nat]
      BY <2>2, <2>3 DEF TypeOK
    <2>8. cursor' \subseteq Row /\ pc' \in Steps /\ pc' # "prepare" /\ why' \in Reasons
      BY <2>1, <2>2 DEF TypeOK, Fails, Steps, Reasons
    <2> QED BY <2>1, <2>5, <2>6, <2>7, <2>8 DEF TypeOK
  <1>7. CASE ReportProgress \/ ReportFails \/ CursorDone \/ StartSession \/ StopSession
    BY <1>7 DEF ReportProgress, ReportFails, CursorDone, StartSession, StopSession,
         Fails, Succeeds, TypeOK, PathIsTaken, load, Steps, Reasons
  <1>8. CASE LoadFails \/ SparkFails
    <2>1. pc \in Writing /\ Fails("REMOTE")
          /\ UNCHANGED <<setup, source, been, load, tally, reported, outcome>>
      BY <1>8 DEF LoadFails, SparkFails, Writing
    <2>2. staging' = staging \/ \E rows : staging' = With(staging, rows)
      BY <1>8 DEF LoadFails, SparkFails
    <2>3. staging' \in [Row -> Nat]
      BY <2>1, <2>2, InsertAny DEF PathIsTaken
    <2> QED BY <2>1, <2>3 DEF TypeOK, Fails, Writing, load, Steps, Reasons
  <1>9. CASE LoadDataFrame
    <2> DEFINE keys == {k \in Keys : source[k] # NoRow}
    <2>1. \A s \in Slices(Min(keys), Max(keys)) : keys # {} => s \subseteq Keys
      BY BoundsAreKeys, SlicesSplit
    <2>2. /\ pc = "bounds"
          /\ UNCHANGED <<setup, source, been, batchSize, spark, fallback, cursor,
                         attempts, staging, tally, reported, outcome>>
      BY <1>9 DEF LoadDataFrame
    <2>3. \/ pc' = "drop" /\ why' \in {"PLAN", "EMPTY"} /\ UNCHANGED <<slices, todo>>
          \/ Split({Keys})
          \/ keys # {} /\ Split(Slices(Min(keys), Max(keys)))
      BY <1>9 DEF LoadDataFrame, Fails
    <2>4. /\ todo' \subseteq slices' /\ \A s \in slices' : s \subseteq Keys
          /\ pc' \in {"drop", "count"} /\ why' \in Reasons
      BY <2>1, <2>3 DEF Split, TypeOK, Reasons
    <2> QED BY <2>2, <2>4 DEF TypeOK, Steps
  <1>10. CASE CountSlice
    <2>1. PICK s \in todo :
            /\ tally' = [tally EXCEPT !.read = @ + Cardinality(InSlice(s))]
            /\ Finished(s, "append")
      BY <1>10 DEF CountSlice
    <2>2. Cardinality(InSlice(s)) \in Nat
      <3>1. InSlice(s) \in SUBSET Row
        BY DEF InSlice, RowsOf
      <3> QED BY <3>1, RowsAreCounted
    <2> QED BY <1>10, <2>1, <2>2 DEF CountSlice, Finished, TypeOK, Steps
  <1>11. CASE AppendSlice \/ AppendAgain
    <2>1. staging \in [Row -> Nat] /\ pc = "append"
      BY <1>11 DEF AppendSlice, AppendAgain, PathIsTaken, Writing
    <2>2. PICK s \in todo : staging' = With(staging, InSlice(s))
      BY <1>11 DEF AppendSlice, AppendAgain
    <2>3. staging' \in [Row -> Nat]
      BY <2>1, <2>2, InsertAny
    <2>4. /\ todo' \subseteq slices' /\ slices' = slices /\ pc' \in {"append", "stop"}
      BY <1>11 DEF AppendSlice, AppendAgain, Finished, TypeOK
    <2>5. attempts' \in 0 .. TaskAttempts - 1
      BY <1>11, TransferConstants DEF AppendSlice, AppendAgain, TypeOK
    <2>6. UNCHANGED <<setup, source, been, batchSize, spark, fallback, cursor, tally,
                      reported, why, outcome>>
      BY <1>11 DEF AppendSlice, AppendAgain
    <2> QED BY <2>1, <2>3, <2>4, <2>5, <2>6 DEF TypeOK, Steps
  <1>12. CASE Verify
    <2>1. tally' \in [batches: Nat, read: Nat, written: Nat]
      BY <1>12 DEF Verify, TypeOK
    <2>2. /\ pc' \in {"drop", "done"} /\ why' \in Reasons /\ outcome' \in {outcome, "SUCCEEDED"}
          /\ outcome = "NONE" /\ pc = "verify"
      BY <1>12 DEF Verify, Fails, Succeeds, TypeOK, PathIsTaken, Reasons
    <2>3. UNCHANGED <<setup, source, been, load, staging, reported>>
      BY <1>12 DEF Verify
    <2> QED BY <2>1, <2>2, <2>3 DEF TypeOK, load, Steps
  <1> QED BY <1>1, <1>2, <1>3, <1>4, <1>5, <1>6, <1>7, <1>8, <1>9, <1>10, <1>11, <1>12
          DEF Next, Works, Breaks

\* One cursor: what has left it is what the table holds.
LEMMA CursorKept ==
  TypeOK /\ HistoryIsTyped /\ PathIsTaken /\ Decided /\ NothingYet /\ CursorAndTable
    /\ [Next]_vars => CursorAndTable'
  <1> SUFFICES ASSUME TypeOK, HistoryIsTyped, PathIsTaken, Decided, NothingYet,
                      CursorAndTable, [Next]_vars
               PROVE  CursorAndTable'
    OBVIOUS
  <1> SUFFICES ASSUME pc' \in {"fetch", "report"} PROVE CursorReads'
    BY DEF CursorAndTable
  <1>1. CASE OpenCursor
    <2>1. /\ pc = "open" /\ cursor' = RowsOf(source) /\ UNCHANGED <<setup, been, staging, tally>>
      BY <1>1 DEF OpenCursor, Fails
    <2>2. /\ staging = EmptyTable /\ source \in been
          /\ tally = [batches |-> 0, read |-> 0, written |-> 0]
      BY <2>1 DEF NothingYet, TypeOK
    <2>3. EmptyTable = Holding({}) /\ Cardinality({}) = 0
      BY FS_EmptySet DEF EmptyTable, Holding
    <2> DEFINE gone == RowsOf(source) \ RowsOf(source)
    <2>4. gone = {} /\ Landed(gone)' = {}
      BY DEF Landed
    <2>5. PICK table \in been : table = source
      BY <2>2
    <2>6. table \in been' /\ RowsOf(table) = cursor'
      BY <2>1, <2>5
    <2>7. (RowsOf(table) \ cursor)' = {} /\ Landed(RowsOf(table) \ cursor)' = {}
      BY <2>6 DEF RowsOf, Landed
    <2>8. Holding(Landed(RowsOf(table) \ cursor))' = EmptyTable
      BY <2>3, <2>7 DEF Holding
    <2>9. /\ (cursor \subseteq RowsOf(table))'
          /\ (staging = Holding(Landed(RowsOf(table) \ cursor)))'
          /\ (tally.read = Cardinality(RowsOf(table) \ cursor))'
          /\ (tally.written = Cardinality(RowsOf(table) \ cursor))'
          /\ (tally.batches = 0 <=> tally.read = 0)'
      BY <2>1, <2>2, <2>3, <2>6, <2>7, <2>8 DEF RowsOf
    <2> QED BY <2>6, <2>9 DEF CursorAndTable, CursorReads
  <1>2. CASE WriteBatch
    <2>1. /\ pc = "fetch" /\ setup \in Setups /\ Stageable /\ cursor \in SUBSET Row
          /\ cursor # {} /\ batchSize \in Nat \ {0} /\ UNCHANGED <<setup, been>>
      BY <1>2, BatchWithinCaps DEF WriteBatch, TypeOK, PathIsTaken, Writing, Decided
    <2>2. PICK rows \in Fetched :
            /\ cursor' = cursor \ rows /\ staging' = With(staging, rows)
            /\ tally' = [batches |-> tally.batches + 1,
                         read |-> tally.read + Cardinality(rows),
                         written |-> tally.written + Cardinality(rows)]
      BY <1>2 DEF WriteBatch, Fails
    <2>3. /\ rows \in SUBSET cursor /\ Cardinality(rows) \in Nat \ {0}
      BY <2>1, BatchOfCursor
    <2>4. PICK table \in been :
            /\ cursor \subseteq RowsOf(table)
            /\ staging = Holding(Landed(RowsOf(table) \ cursor))
            /\ tally.read = Cardinality(RowsOf(table) \ cursor)
            /\ tally.written = Cardinality(RowsOf(table) \ cursor)
      BY <2>1 DEF CursorAndTable, CursorReads
    <2> DEFINE gone == RowsOf(table) \ cursor
    <2>5. table \in Table
      BY DEF HistoryIsTyped
    <2>6. /\ gone \in SUBSET RowsOf(table) /\ rows \in SUBSET RowsOf(table)
          /\ gone \cap rows = {}
      BY <2>3, <2>4
    <2>7. /\ With(Holding(Landed(gone)), rows) = Holding(Landed(gone \cup rows))
          /\ Cardinality(gone \cup rows) = Cardinality(gone) + Cardinality(rows)
      BY <2>1, <2>5, <2>6, InsertNew
    <2>8. (RowsOf(table) \ cursor)' = gone \cup rows
      BY <2>2, <2>3, <2>4 DEF RowsOf
    <2>9. Landed(RowsOf(table) \ cursor)' = Landed(gone \cup rows)
      BY <2>1, <2>8 DEF Landed, Kept
    <2>10. (staging = Holding(Landed(RowsOf(table) \ cursor)))'
      BY <2>2, <2>4, <2>7, <2>9 DEF Holding
    <2>11. /\ (tally.read = Cardinality(RowsOf(table) \ cursor))'
           /\ (tally.written = Cardinality(RowsOf(table) \ cursor))'
           /\ (tally.batches = 0 <=> tally.read = 0)'
      <3>1. tally.read \in Nat /\ tally.batches \in Nat
        BY DEF TypeOK
      <3>2. Cardinality((RowsOf(table) \ cursor)') = Cardinality(gone) + Cardinality(rows)
        BY <2>7, <2>8
      <3> QED BY <2>2, <2>3, <2>4, <3>1, <3>2
    <2>12. (cursor \subseteq RowsOf(table))' /\ table \in been'
      BY <2>1, <2>2, <2>4 DEF RowsOf
    <2> QED BY <2>10, <2>11, <2>12 DEF CursorAndTable, CursorReads
  <1>3. CASE ReportProgress \/ ApplicationWrites \/ UNCHANGED vars
    <2>1. pc \in {"fetch", "report"} /\ UNCHANGED <<setup, cursor, staging, tally>>
          /\ been \subseteq been'
      <3>1. CASE ReportProgress
        BY <3>1 DEF ReportProgress, load
      <3>2. CASE ApplicationWrites
        BY <3>2 DEF ApplicationWrites, load
      <3>3. CASE UNCHANGED vars
        BY <3>3 DEF vars, load
      <3> QED BY <1>3, <3>1, <3>2, <3>3
    <2>2. PICK table \in been :
            /\ cursor \subseteq RowsOf(table)
            /\ staging = Holding(Landed(RowsOf(table) \ cursor))
            /\ tally.read = Cardinality(RowsOf(table) \ cursor)
            /\ tally.written = Cardinality(RowsOf(table) \ cursor)
            /\ tally.batches = 0 <=> tally.read = 0
      BY <2>1 DEF CursorAndTable, CursorReads
    <2>3. (RowsOf(table) \ cursor)' = RowsOf(table) \ cursor
      BY <2>1 DEF RowsOf
    <2>4. Landed(RowsOf(table) \ cursor)' = Landed(RowsOf(table) \ cursor)
      BY <2>1, <2>3 DEF Landed, Kept
    <2>5. (staging = Holding(Landed(RowsOf(table) \ cursor)))'
      BY <2>1, <2>2, <2>4 DEF Holding
    <2>6. /\ (cursor \subseteq RowsOf(table))'
          /\ (tally.read = Cardinality(RowsOf(table) \ cursor))'
          /\ (tally.written = Cardinality(RowsOf(table) \ cursor))'
          /\ (tally.batches = 0 <=> tally.read = 0)'
      BY <2>1, <2>2, <2>3 DEF RowsOf
    <2> QED BY <2>1, <2>5, <2>6 DEF CursorAndTable, CursorReads
  <1>4. CASE ~(OpenCursor \/ WriteBatch \/ ReportProgress \/ ApplicationWrites
               \/ UNCHANGED vars)
    <2>1. FALSE
      BY <1>4 DEF Next, Works, Breaks,
           Refuse, Prepare, CreateTable, CreateRefused, Drop, CursorDone,
           StartSession, LoadDataFrame, CountSlice, AppendSlice, StopSession, Verify,
           CreateFails, DropFails, ReportFails, LoadFails, AppendAgain, SparkFails,
           Fails, Succeeds, Split, Finished
    <2> QED BY <2>1
  <1> QED BY <1>1, <1>2, <1>3, <1>4

\* The table of the sequential path, counted.
LEMMA TableIsCounted ==
  ASSUME TypeOK, HistoryIsTyped, PathIsTaken, CursorAndTable, pc \in {"fetch", "report"}
  PROVE  /\ RowCount(staging) = tally.read /\ RowCount(staging) = tally.written
         /\ \E rows \in SUBSET Row : staging = Holding(rows)
                                     /\ Cardinality(rows) = tally.written
  <1>1. PICK table \in been :
          /\ staging = Holding(Landed(RowsOf(table) \ cursor))
          /\ tally.read = Cardinality(RowsOf(table) \ cursor)
          /\ tally.written = Cardinality(RowsOf(table) \ cursor)
    BY DEF CursorAndTable, CursorReads
  <1>2. setup \in Setups /\ Stageable /\ table \in Table
    BY DEF TypeOK, PathIsTaken, Writing, HistoryIsTyped
  <1>3. /\ Landed(RowsOf(table) \ cursor) \in SUBSET Row
        /\ Cardinality(Landed(RowsOf(table) \ cursor)) = Cardinality(RowsOf(table) \ cursor)
    BY <1>2, LandedRows, RowsOf(table) \ cursor \in SUBSET RowsOf(table)
  <1> QED BY <1>1, <1>3, CountOfHolding

\* Reports follow the batches; a batch whose commit got no answer only adds rows.
LEMMA ReportedKept ==
  TypeOK /\ HistoryIsTyped /\ PathIsTaken /\ Decided /\ NothingYet /\ CursorAndTable
    /\ ReportedIsThere /\ [Next]_vars => ReportedIsThere'
  <1> SUFFICES ASSUME TypeOK, HistoryIsTyped, PathIsTaken, Decided, NothingYet,
                      CursorAndTable, ReportedIsThere, [Next]_vars
               PROVE  ReportedIsThere'
    OBVIOUS
  <1> DEFINE Reported(table, n) ==
               \E rows \in SUBSET Row : table = Holding(rows) /\ n <= Cardinality(rows)
  <1>1. ReportedIsThere' <=>
          /\ ~spark' /\ staging' # NoTable => Reported(staging', reported'.rows)
          /\ pc' = "fetch" => reported' = [batches |-> tally'.batches, rows |-> tally'.written]
    BY DEF ReportedIsThere, Holding, Row
  <1>2. ~spark /\ staging # NoTable => Reported(staging, reported.rows)
    BY DEF ReportedIsThere
  <1>3. Reported(EmptyTable, 0)
    <2>1. EmptyTable = Holding({}) /\ Cardinality({}) = 0
      BY FS_EmptySet DEF EmptyTable, Holding
    <2> QED BY <2>1
  <1> HIDE DEF Reported
  <1>4. CASE UNCHANGED <<staging, reported, spark, tally>> /\ (pc' = "fetch" => pc = "fetch")
    BY <1>1, <1>2, <1>4 DEF ReportedIsThere
  <1>5. CASE Prepare
    BY <1>1, <1>2, <1>5 DEF Prepare, PathIsTaken
  <1>6. CASE CreateTable \/ CreateFails
    <2>1. pc = "create" /\ staging' \in {NoTable, EmptyTable} /\ reported' = reported
          /\ pc' # "fetch"
      BY <1>6 DEF CreateTable, CreateFails, Fails
    <2>2. reported.rows = 0
      BY <2>1 DEF NothingYet
    <2> QED BY <1>1, <1>3, <2>1, <2>2
  <1>7. CASE OpenCursor
    <2>1. pc = "open" /\ UNCHANGED <<staging, reported, spark, tally>>
      BY <1>7 DEF OpenCursor
    <2>2. reported = [batches |-> tally.batches, rows |-> tally.written]
      BY <2>1 DEF NothingYet
    <2> QED BY <1>1, <1>2, <2>1, <2>2
  <1>8. CASE Drop \/ DropFails
    <2>1. staging' \in {NoTable, staging} /\ reported' = reported /\ spark' = spark
          /\ pc' = "done"
      BY <1>8 DEF Drop, DropFails, load
    <2> QED BY <1>1, <1>2, <2>1
  <1>9. CASE ReportProgress
    <2>1. /\ pc = "report" /\ UNCHANGED <<staging, spark, tally>>
          /\ reported' = [batches |-> tally.batches, rows |-> tally.written]
      BY <1>9 DEF ReportProgress, load
    <2>2. PICK rows \in SUBSET Row : staging = Holding(rows) /\ Cardinality(rows) = tally.written
      BY <2>1, TableIsCounted
    <2>3. tally.written \in Nat
      BY DEF TypeOK
    <2>4. Reported(staging, tally.written)
      BY <2>2, <2>3 DEF Reported
    <2> QED BY <1>1, <2>1, <2>4
  <1>10. ASSUME WriteBatch \/ LoadFails, NEW rows \in Fetched, cursor # {}, pc = "fetch",
                staging' = With(staging, rows), UNCHANGED <<reported, spark>>, pc' # "fetch"
         PROVE  ReportedIsThere'
    <2>1. /\ setup \in Setups /\ Stageable /\ cursor \in SUBSET Row
          /\ batchSize \in Nat \ {0}
      BY <1>10, BatchWithinCaps DEF TypeOK, PathIsTaken, Writing, Decided
    <2>2. /\ rows \in SUBSET cursor /\ Cardinality(rows) \in Nat \ {0}
      BY <1>10, <2>1, BatchOfCursor
    <2>3. PICK table \in been :
            /\ cursor \subseteq RowsOf(table)
            /\ staging = Holding(Landed(RowsOf(table) \ cursor))
            /\ tally.written = Cardinality(RowsOf(table) \ cursor)
      BY <1>10 DEF CursorAndTable, CursorReads
    <2> DEFINE gone == RowsOf(table) \ cursor
    <2>4. table \in Table
      BY DEF HistoryIsTyped
    <2>5. /\ gone \in SUBSET RowsOf(table) /\ rows \in SUBSET RowsOf(table)
          /\ gone \cap rows = {} /\ gone \cup rows \in SUBSET RowsOf(table)
      BY <2>2, <2>3
    <2>6. /\ With(Holding(Landed(gone)), rows) = Holding(Landed(gone \cup rows))
          /\ Cardinality(gone \cup rows) = Cardinality(gone) + Cardinality(rows)
      BY <2>1, <2>4, <2>5, InsertNew
    <2>7. /\ Landed(gone \cup rows) \in SUBSET Row
          /\ Cardinality(Landed(gone \cup rows)) = Cardinality(gone \cup rows)
      BY <2>1, <2>4, <2>5, LandedRows
    <2>8. reported.rows = tally.written /\ tally.written \in Nat
      BY <1>10 DEF ReportedIsThere, TypeOK
    <2>9. reported'.rows <= Cardinality(Landed(gone \cup rows))
      BY <1>10, <2>2, <2>3, <2>6, <2>7, <2>8
    <2>10. Reported(staging', reported'.rows)
      BY <1>10, <2>3, <2>6, <2>7, <2>9 DEF Reported
    <2> QED BY <1>1, <1>10, <2>10
  <1>11. CASE WriteBatch
    BY <1>4, <1>10, <1>11 DEF WriteBatch, Fails
  <1>12. CASE LoadFails
    <2>1. CASE UNCHANGED staging
      BY <1>4, <1>12, <2>1 DEF LoadFails, Fails, load
    <2>2. CASE staging' # staging
      BY <1>10, <1>12, <2>2 DEF LoadFails, Fails, load
    <2> QED BY <2>1, <2>2
  <1>13. CASE LoadDataFrame \/ CountSlice \/ AppendSlice \/ AppendAgain \/ SparkFails
              \/ StartSession \/ StopSession \/ Verify
    <2>1. spark /\ spark' /\ pc' # "fetch"
      BY <1>13 DEF LoadDataFrame, CountSlice, AppendSlice, AppendAgain, SparkFails,
           StartSession, StopSession, Verify, load, PathIsTaken, InSpark, Fails, Succeeds,
           Split, Finished, TypeOK
    <2> QED BY <1>1, <2>1
  <1>14. CASE Refuse \/ CreateRefused \/ ReportFails \/ CursorDone \/ ApplicationWrites
              \/ UNCHANGED vars
    BY <1>4, <1>14 DEF Refuse, CreateRefused, ReportFails, CursorDone, ApplicationWrites,
         vars, load, Fails, Succeeds
  <1> QED BY <1>5, <1>6, <1>7, <1>8, <1>9, <1>11, <1>12, <1>13, <1>14 DEF Next, Works, Breaks

----------------------------------------------------------------------------
(* A source nobody writes, read by slices *)

\* The rows of one slice more.
LEMMA OneSliceMore ==
  ASSUME TypeOK, HistoryIsTyped, SlicesSplitKeys, pc \in {"count", "append"},
         NEW s \in todo
  PROVE  LET more == {r \in RowsOf(source) : \E t \in slices \ (todo \ {s}) : r[1] \in t}
         IN  /\ Done \in SUBSET RowsOf(source) /\ InSlice(s) \in SUBSET RowsOf(source)
             /\ more = Done \cup InSlice(s) /\ Done \cap InSlice(s) = {}
             /\ Cardinality(more) = Cardinality(Done) + Cardinality(InSlice(s))
             /\ todo = {s} => more = RowsOf(source)
  <1> DEFINE more == {r \in RowsOf(source) : \E t \in slices \ (todo \ {s}) : r[1] \in t}
  <1>1. Done \in SUBSET RowsOf(source) /\ InSlice(s) \in SUBSET RowsOf(source)
    BY DEF Done, InSlice
  <1>2. slices \ (todo \ {s}) = (slices \ todo) \cup {s}
    BY DEF TypeOK
  <1>3. more = Done \cup InSlice(s)
    BY <1>2 DEF Done, InSlice
  <1>4. \A t \in slices \ todo : t \cap s = {}
    BY DEF SlicesSplitKeys, TypeOK
  <1>5. Done \cap InSlice(s) = {}
    BY <1>4 DEF Done, InSlice
  <1>6. RowsOf(source) \in SUBSET Row
    BY DEF RowsOf
  <1>7. /\ IsFiniteSet(Done) /\ Cardinality(Done) \in Nat
        /\ IsFiniteSet(InSlice(s)) /\ Cardinality(InSlice(s)) \in Nat
    BY <1>1, <1>6, RowsAreCounted
  <1>8. Cardinality(more) = Cardinality(Done) + Cardinality(InSlice(s))
    <2>1. Cardinality(Done \cup InSlice(s))
            = Cardinality(Done) + Cardinality(InSlice(s)) - Cardinality(Done \cap InSlice(s))
      BY <1>7, FS_Union
    <2>2. Cardinality(Done \cap InSlice(s)) = 0
      BY <1>5, FS_EmptySet
    <2> HIDE DEF more
    <2> QED BY <1>3, <1>7, <2>1, <2>2
  <1>9. ASSUME todo = {s} PROVE more = RowsOf(source)
    <2>1. \A r \in RowsOf(source) : r[1] \in Keys
      BY DEF RowsOf, Row
    <2>2. \A k \in Keys : \E t \in slices : k \in t
      BY DEF SlicesSplitKeys
    <2>3. slices \ (todo \ {s}) = slices
      BY <1>9
    <2> QED BY <2>1, <2>2, <2>3
  <1> QED BY <1>1, <1>3, <1>5, <1>8, <1>9

\* The count and the appended rows follow the slices that are done.
LEMMA QuietKept ==
  TypeOK /\ HistoryIsTyped /\ PathIsTaken /\ NothingYet /\ SlicesSplitKeys /\ QuietSpark
    /\ [Next]_vars => QuietSpark'
  <1> SUFFICES ASSUME TypeOK, HistoryIsTyped, PathIsTaken, NothingYet, SlicesSplitKeys,
                      QuietSpark, [Next]_vars
               PROVE  QuietSpark'
    OBVIOUS
  <1>1. CASE ApplicationWrites
    BY <1>1, HistoryGrows DEF QuietSpark
  <1>2. SUFFICES ASSUME ~ApplicationWrites, been' = {source'} PROVE QuietSpark'
    BY <1>1 DEF QuietSpark
  <1>3. UNCHANGED <<setup, source, been>> /\ been = {source}
    <2>1. CASE UNCHANGED vars
      BY <1>2, <2>1 DEF vars
    <2>2. CASE Works \/ Breaks
      BY <1>2, <2>2, LoaderReads
    <2> QED BY <1>2, <2>1, <2>2 DEF Next
  <1>4. RowsOf(source)' = RowsOf(source) /\ \A rows : Landed(rows)' = Landed(rows)
    BY <1>3 DEF RowsOf, Landed, Kept
  <1> DEFINE DoneThen == {r \in RowsOf(source) : \E t \in slices' \ todo' : r[1] \in t}
  <1>5. Done' = DoneThen
    BY <1>3 DEF Done, RowsOf
  <1>6. Landed(Done)' = Landed(DoneThen) /\ Landed(RowsOf(source))' = Landed(RowsOf(source))
    BY <1>3, <1>5 DEF Landed, Kept, RowsOf
  <1>7. QuietSpark' <=>
          /\ pc' = "count" => tally'.read = Cardinality(DoneThen)
          /\ pc' \in {"append", "stop", "verify"} => tally'.read = Cardinality(RowsOf(source))
          /\ pc' = "append" => \A r \in Landed(DoneThen) : staging'[r] > 0
          /\ pc' \in {"stop", "verify"} => \A r \in Landed(RowsOf(source)) : staging'[r] > 0
    BY <1>2, <1>4, <1>5, <1>6 DEF QuietSpark
  <1>8. /\ pc = "count" => tally.read = Cardinality(Done)
        /\ pc \in {"append", "stop", "verify"} => tally.read = Cardinality(RowsOf(source))
        /\ pc = "append" => \A r \in Landed(Done) : staging[r] > 0
        /\ pc \in {"stop", "verify"} => \A r \in Landed(RowsOf(source)) : staging[r] > 0
    BY <1>3 DEF QuietSpark
  <1>9. Done = {r \in RowsOf(source) : \E t \in slices \ todo : r[1] \in t}
    BY DEF Done
  <1>10. CASE LoadDataFrame
    <2>1. tally'.read = 0 /\ pc' \in {"count", "drop"}
      BY <1>10 DEF LoadDataFrame, NothingYet, Split, Fails
    <2>2. pc' = "count" => slices' = todo'
      BY <1>10 DEF LoadDataFrame, Split, Fails
    <2>3. pc' = "count" => DoneThen = {}
      BY <2>2
    <2> HIDE DEF DoneThen
    <2> QED BY <1>7, <2>1, <2>3, FS_EmptySet
  <1>11. CASE CountSlice
    <2>1. PICK s \in todo :
            /\ tally' = [tally EXCEPT !.read = @ + Cardinality(InSlice(s))]
            /\ Finished(s, "append")
      BY <1>11 DEF CountSlice
    <2>2. pc = "count" /\ slices' = slices /\ staging' = staging
      BY <1>11 DEF CountSlice
    <2> DEFINE more == {r \in RowsOf(source) : \E t \in slices \ (todo \ {s}) : r[1] \in t}
    <2>3. /\ Cardinality(more) = Cardinality(Done) + Cardinality(InSlice(s))
          /\ todo = {s} => more = RowsOf(source)
      BY <2>2, OneSliceMore
    <2>4. tally'.read = Cardinality(more)
      BY <1>8, <2>1, <2>2, <2>3 DEF TypeOK
    <2>5. CASE todo = {s}
      <3>1. pc' = "append" /\ todo' = slices'
        BY <2>1, <2>2, <2>5 DEF Finished
      <3>2. DoneThen = {} /\ Landed(DoneThen) = {}
        BY <3>1 DEF Landed
      <3> HIDE DEF DoneThen, more
      <3> QED BY <1>7, <2>3, <2>4, <2>5, <3>1, <3>2
    <2>6. CASE todo # {s}
      <3>1. pc' = "count" /\ todo' = todo \ {s}
        BY <2>1, <2>2, <2>6 DEF Finished
      <3>2. DoneThen = more
        BY <2>2, <3>1
      <3> HIDE DEF DoneThen, more
      <3> QED BY <1>7, <2>4, <3>1, <3>2
    <2> QED BY <2>5, <2>6
  <1>12. ASSUME NEW s \in todo, pc = "append", staging' = With(staging, InSlice(s)),
                tally' = tally, slices' = slices,
                \/ pc' = pc /\ todo' = todo
                \/ Finished(s, "stop")
         PROVE  QuietSpark'
    <2> DEFINE more == {r \in RowsOf(source) : \E t \in slices \ (todo \ {s}) : r[1] \in t}
    <2>1. staging \in [Row -> Nat] /\ setup \in Setups /\ Stageable /\ source \in Table
      BY <1>12 DEF PathIsTaken, Writing, TypeOK, Table
    <2>2. /\ Done \in SUBSET RowsOf(source) /\ InSlice(s) \in SUBSET RowsOf(source)
          /\ more = Done \cup InSlice(s)
          /\ todo = {s} => more = RowsOf(source)
      BY <1>12, OneSliceMore
    <2>3. Landed(Done) \in SUBSET Row /\ Landed(InSlice(s)) \in SUBSET Row
      BY <2>1, <2>2, LandedRows
    <2>4. Landed(more) = Landed(Done) \cup Landed(InSlice(s))
      BY <2>2 DEF Landed
    <2> HIDE DEF more
    <2>5. \A r \in Landed(Done) : staging'[r] > 0
      <3> SUFFICES ASSUME NEW r \in Landed(Done) PROVE staging'[r] > 0
        OBVIOUS
      <3>1. staging[r] > 0 /\ r \in Row
        BY <1>8, <1>12, <2>3
      <3>2. staging'[r] >= staging[r] /\ staging' \in [Row -> Nat]
        BY <1>12, <2>1, <3>1, InsertAny
      <3> QED BY <2>1, <3>1, <3>2
    <2>6. \A r \in Landed(more) : staging'[r] > 0
      BY <1>12, <2>1, <2>3, <2>4, <2>5, InsertAny
    <2>7. CASE pc' = pc /\ todo' = todo
      <3>1. DoneThen = Done
        BY <1>9, <1>12, <2>7
      <3> HIDE DEF DoneThen
      <3> QED BY <1>7, <1>8, <1>12, <2>5, <2>7, <3>1
    <2>8. CASE Finished(s, "stop") /\ todo = {s}
      <3>1. pc' = "stop"
        BY <2>8 DEF Finished
      <3> HIDE DEF DoneThen
      <3> QED BY <1>7, <1>8, <1>12, <2>2, <2>6, <2>8, <3>1
    <2>9. CASE Finished(s, "stop") /\ todo # {s}
      <3>1. pc' = "append" /\ todo' = todo \ {s}
        BY <1>12, <2>9 DEF Finished
      <3>2. DoneThen = more
        BY <1>12, <3>1 DEF more
      <3> HIDE DEF DoneThen
      <3> QED BY <1>7, <1>8, <1>12, <2>6, <3>1, <3>2
    <2> QED BY <1>12, <2>7, <2>8, <2>9
  <1>13. CASE AppendSlice \/ AppendAgain
    BY <1>12, <1>13 DEF AppendSlice, AppendAgain
  <1>14. ASSUME UNCHANGED <<slices, todo, tally, staging>>,
                pc' = pc \/ (pc = "stop" /\ pc' = "verify")
         PROVE  QuietSpark'
    <2>1. DoneThen = Done
      BY <1>9, <1>14
    <2> HIDE DEF DoneThen
    <2> QED BY <1>7, <1>8, <1>14, <2>1
  <1>15. CASE pc' \notin {"count", "append", "stop", "verify"}
    <2> HIDE DEF DoneThen
    <2> QED BY <1>7, <1>15
  <1>16. CASE StopSession \/ UNCHANGED vars
    <2>1. CASE StopSession
      <3>1. UNCHANGED <<slices, todo, tally, staging>> /\ pc = "stop" /\ pc' = "verify"
        BY <2>1 DEF StopSession, load
      <3> QED BY <1>14, <3>1
    <2>2. CASE UNCHANGED vars
      <3>1. UNCHANGED <<slices, todo, tally, staging>> /\ pc' = pc
        BY <2>2 DEF vars, load
      <3> QED BY <1>14, <3>1
    <2> QED BY <1>16, <2>1, <2>2
  <1>17. CASE ~(LoadDataFrame \/ CountSlice \/ AppendSlice \/ AppendAgain \/ StopSession
                \/ UNCHANGED vars)
    <2>1. pc' \notin {"count", "append", "stop", "verify"}
      BY <1>2, <1>17 DEF Next, Works, Breaks,
           Refuse, Prepare, CreateTable, CreateRefused, Drop, CursorDone, OpenCursor,
           WriteBatch, ReportProgress, StartSession, Verify,
           CreateFails, DropFails, ReportFails, LoadFails, SparkFails,
           Fails, Succeeds
    <2> QED BY <1>15, <2>1
  <1> QED BY <1>10, <1>11, <1>13, <1>16, <1>17

\* Rows are inserted only from a cursor or a slice of the source.
LEMMA InventedKept ==
  TypeOK /\ HistoryIsTyped /\ PathIsTaken /\ Decided /\ CursorAndTable /\ NoRowInvented
    /\ [Next]_vars => NoRowInvented'
  <1> SUFFICES ASSUME TypeOK, HistoryIsTyped, PathIsTaken, Decided, CursorAndTable,
                      NoRowInvented, [Next]_vars
               PROVE  NoRowInvented'
    OBVIOUS
  <1>1. setup' = setup /\ been \subseteq been'
    <2>1. CASE ApplicationWrites
      BY <2>1, HistoryGrows
    <2>2. CASE Works \/ Breaks
      BY <2>2, LoaderReads
    <2>3. CASE UNCHANGED vars
      BY <2>3 DEF vars
    <2> QED BY <2>1, <2>2, <2>3 DEF Next
  <1>2. \A table \in Table : Landed(RowsOf(table))' = Landed(RowsOf(table))
    BY <1>1 DEF Landed, Kept, RowsOf
  <1>3. ASSUME NEW t, t = staging', t # NoTable,
               \A r \in Row : t[r] > 0 => \E table \in been : r \in Landed(RowsOf(table))
        PROVE  NoRowInvented'
    BY <1>1, <1>2, <1>3 DEF NoRowInvented, Row, HistoryIsTyped
  <1>4. CASE staging' = staging
    <2>1. CASE staging = NoTable
      BY <1>4, <2>1 DEF NoRowInvented
    <2>2. CASE staging # NoTable
      <3>1. \A r \in Row : staging[r] > 0 => \E table \in been : r \in Landed(RowsOf(table))
        BY <2>2 DEF NoRowInvented
      <3> QED BY <1>3, <1>4, <2>2, <3>1
    <2> QED BY <2>1, <2>2
  <1>5. CASE staging' = NoTable
    BY <1>5 DEF NoRowInvented
  <1>6. CASE staging' = EmptyTable
    <2>1. \A r \in Row : ~(EmptyTable[r] > 0)
      BY DEF EmptyTable
    <2>2. EmptyTable # NoTable
      BY TransferConstants DEF EmptyTable, Row
    <2> QED BY <1>3, <1>6, <2>1, <2>2
  <1>7. ASSUME NEW table \in been, NEW rows \in SUBSET RowsOf(table),
               staging' = With(staging, rows), pc \in Writing
        PROVE  NoRowInvented'
    <2> NoTable \notin [Row -> Nat]
      BY TransferConstants DEF Row
    <2>1. staging \in [Row -> Nat] /\ staging # NoTable
      BY <1>7 DEF PathIsTaken
    <2>2. With(staging, rows) \in [Row -> Nat] /\ With(staging, rows) # NoTable
      BY <2>1, InsertAny
    <2>3. ASSUME NEW r \in Row, With(staging, rows)[r] > 0
          PROVE  \E t \in been : r \in Landed(RowsOf(t))
      <3>1. CASE r \in Landed(rows)
        BY <3>1 DEF Landed
      <3>2. CASE r \notin Landed(rows)
        <4>1. With(staging, rows)[r] = staging[r]
          BY <2>1, <3>2 DEF With, Holding
        <4> QED BY <2>1, <2>3, <4>1 DEF NoRowInvented
      <3> QED BY <3>1, <3>2
    <2> QED BY <1>3, <1>7, <2>2, <2>3
  <1>8. ASSUME NEW rows \in Fetched, cursor # {}, pc = "fetch", staging' = With(staging, rows)
        PROVE  NoRowInvented'
    <2>1. setup \in Setups /\ cursor \in SUBSET Row /\ batchSize \in Nat \ {0}
      BY <1>8, BatchWithinCaps DEF TypeOK, PathIsTaken, Writing, Decided
    <2>2. PICK table \in been : cursor \subseteq RowsOf(table)
      BY <1>8 DEF CursorAndTable, CursorReads
    <2>3. rows \in SUBSET RowsOf(table)
      BY <1>8, <2>1, <2>2, BatchOfCursor
    <2> QED BY <1>7, <1>8, <2>3 DEF Writing
  <1>9. ASSUME NEW s \in todo, pc = "append", staging' = With(staging, InSlice(s))
        PROVE  NoRowInvented'
    <2>1. source \in been /\ InSlice(s) \in SUBSET RowsOf(source)
      BY DEF TypeOK, InSlice
    <2> QED BY <1>7, <1>9, <2>1 DEF Writing
  <1>10. CASE WriteBatch \/ LoadFails
    BY <1>4, <1>8, <1>10 DEF WriteBatch, LoadFails
  <1>11. CASE AppendSlice \/ AppendAgain \/ SparkFails
    BY <1>4, <1>9, <1>11 DEF AppendSlice, AppendAgain, SparkFails
  <1>12. CASE ~(WriteBatch \/ LoadFails \/ AppendSlice \/ AppendAgain \/ SparkFails)
    <2>1. staging' \in {staging, NoTable, EmptyTable}
      BY <1>12 DEF Next, vars, load, Works, Breaks, ApplicationWrites,
           Refuse, Prepare, CreateTable, CreateRefused, Drop, CursorDone, OpenCursor,
           ReportProgress, StartSession, LoadDataFrame, CountSlice, StopSession, Verify,
           CreateFails, DropFails, ReportFails
    <2> QED BY <1>4, <1>5, <1>6, <2>1
  <1> QED BY <1>10, <1>11, <1>12

----------------------------------------------------------------------------
(* What success leaves *)

\* The cursor is exhausted: the table holds what it returned.
LEMMA CursorConcludes ==
  ASSUME TypeOK, HistoryIsTyped, PathIsTaken, CursorAndTable, CursorDone
  PROVE  Concluded'
  <1>1. /\ pc = "fetch" /\ cursor = {} /\ why' = why
        /\ UNCHANGED <<setup, been, spark, staging, tally>>
    BY DEF CursorDone, Succeeds, load
  <1>2. PICK table \in been :
          /\ staging = Holding(Landed(RowsOf(table) \ cursor))
          /\ (tally.batches = 0) <=> (tally.read = 0)
    BY <1>1 DEF CursorAndTable, CursorReads
  <1>3. staging = Holding(Landed(RowsOf(table)))
    BY <1>1, <1>2, RowsOf(table) \ {} = RowsOf(table)
  <1>4. /\ RowCount(staging) = tally.read /\ RowCount(staging) = tally.written
        /\ why = "NONE" /\ staging \in [Row -> Nat] /\ Stageable
    BY <1>1, TableIsCounted DEF PathIsTaken, Writing
  <1>5. (staging = Holding(Landed(RowsOf(table))))'
    BY <1>1, <1>3 DEF Holding, Landed, Kept, RowsOf, Row
  <1>6. (\E t \in been : staging = Holding(Landed(RowsOf(t))))'
    BY <1>1, <1>5
  <1>7. RowCount(staging)' = RowCount(staging)
    BY <1>1 DEF RowCount, Copies, Row
  <1> QED BY <1>1, <1>2, <1>4, <1>6, <1>7 DEF Concluded, Stageable

\* The counts agree: while nobody wrote the source, they can only agree on a copy.
LEMMA CountConcludes ==
  ASSUME TypeOK, HistoryIsTyped, PathIsTaken, QuietSpark, Verify, outcome' = "SUCCEEDED"
  PROVE  Concluded'
  <1>1. /\ pc = "verify" /\ UNCHANGED <<setup, source, been, spark, staging, why>>
        /\ RowCount(staging) = tally.read /\ tally.read # 0
        /\ tally' = [batches |-> 1, read |-> tally.read, written |-> tally.read]
    BY DEF Verify, Fails, Succeeds, load, RowsWritten, PathIsTaken
  <1>2. /\ why = "NONE" /\ staging \in [Row -> Nat] /\ setup \in Setups /\ Stageable
        /\ spark /\ source \in Table /\ source \in been
    BY <1>1 DEF PathIsTaken, Writing, InSpark, TypeOK, Table
  <1>3. ASSUME been = {source} PROVE staging = Holding(Landed(RowsOf(source)))
    <2>1. /\ tally.read = Cardinality(RowsOf(source))
          /\ \A r \in Landed(RowsOf(source)) : staging[r] > 0
      BY <1>1, <1>3 DEF QuietSpark
    <2>2. /\ Landed(RowsOf(source)) \in SUBSET Row
          /\ Cardinality(Landed(RowsOf(source))) = Cardinality(RowsOf(source))
      BY <1>2, LandedRows
    <2> QED BY <1>1, <1>2, <2>1, <2>2, CountDecides
  <1>4. RowCount(staging)' = RowCount(staging)
    BY <1>1 DEF RowCount, Copies, Row
  <1>5. (been = {source})' => been = {source}
    BY <1>1
  <1>6. (staging = Holding(Landed(RowsOf(source))))' <=> staging = Holding(Landed(RowsOf(source)))
    BY <1>1 DEF Holding, Landed, Kept, RowsOf, Row
  <1>7. (been = {source})' => (\E t \in been : staging = Holding(Landed(RowsOf(t))))'
    BY <1>1, <1>2, <1>3, <1>5, <1>6
  <1> QED BY <1>1, <1>2, <1>4, <1>7 DEF Concluded, Stageable

LEMMA ConcludedKept ==
  TypeOK /\ HistoryIsTyped /\ PathIsTaken /\ CursorAndTable /\ QuietSpark /\ Concluded
    /\ [Next]_vars => Concluded'
  <1> SUFFICES ASSUME TypeOK, HistoryIsTyped, PathIsTaken, CursorAndTable, QuietSpark,
                      Concluded, [Next]_vars
               PROVE  Concluded'
    OBVIOUS
  <1>1. CASE CursorDone
    BY <1>1, CursorConcludes
  <1>2. CASE Verify
    <2>1. CASE outcome' # "SUCCEEDED"
      BY <2>1 DEF Concluded
    <2> QED BY <1>2, <2>1, CountConcludes
  <1>3. CASE UNCHANGED vars
    BY <1>3 DEF vars, load, Concluded, Stageable, RowCount, Copies, Row, Holding, Landed,
                Kept, RowsOf
  <1>4. CASE ~(CursorDone \/ Verify \/ UNCHANGED vars)
    <2>1. outcome' # "SUCCEEDED"
      BY <1>4 DEF Next, Works, Breaks, PathIsTaken, ApplicationWrites,
           Refuse, Prepare, CreateTable, CreateRefused, Drop, OpenCursor,
           WriteBatch, ReportProgress, StartSession, LoadDataFrame, CountSlice,
           AppendSlice, StopSession, CreateFails, DropFails, ReportFails, LoadFails,
           AppendAgain, SparkFails
    <2> QED BY <2>1 DEF Concluded
  <1> QED BY <1>1, <1>2, <1>3, <1>4

----------------------------------------------------------------------------
(* The theorems *)

\* IInv is inductive.
LEMMA InvariantKept == IInv /\ [Next]_vars => IInv'
  BY TypesKept, HistoryKept, PathKept, DecidedKept, NothingYetKept, CursorKept,
     ReportedKept, SlicesKept, QuietKept, InventedKept, ConcludedKept, FailedKept, AcceptedKept
     DEF IInv

\* The invariant of a load: one path, one table, and what is in it.
THEOREM LoadIsFaithful == Spec => []IInv
  BY InitIsRight, InvariantKept, PTL DEF Spec

\* The types hold in every load, for every set of tables, values and setups.
THEOREM TypeCorrect == Spec => []TypeOK
  <1>1. IInv => TypeOK
    BY DEF IInv
  <1> QED BY <1>1, LoadIsFaithful, PTL

\* A load that prepare() and select_execution_plan() accepted does not fail later
\* on a row cap or because Spark cannot read or write a profile.
THEOREM AcceptedLoads == Spec => []AcceptedIsLoadable
  <1>1. IInv => AcceptedIsLoadable
    BY DEF IInv
  <1> QED BY <1>1, LoadIsFaithful, PTL

\* Progress and disposition are true of the staging table, at every step.
THEOREM ReportsNeverLie == Spec => []ReportsAreTrue
  <1>1. ASSUME IInv PROVE ProgressIsCommitted
    <2> SUFFICES ASSUME staging # NoTable, ~spark PROVE ProgressIsCommitted
      BY DEF ProgressIsCommitted
    <2>1. PICK rows \in SUBSET Row : staging = Holding(rows)
                                     /\ reported.rows <= Cardinality(rows)
      BY <1>1 DEF IInv, ReportedIsThere
    <2>2. reported.rows <= RowCount(staging)
      BY <2>1, CountOfHolding
    <2>3. ASSUME pc = "fetch"
          PROVE  RowCount(staging) = reported.rows /\ reported.batches = tally.batches
      <3>1. reported = [batches |-> tally.batches, rows |-> tally.written]
        BY <1>1, <2>3 DEF IInv, ReportedIsThere
      <3>2. RowCount(staging) = tally.written
        BY <1>1, <2>3, TableIsCounted DEF IInv
      <3> QED BY <3>1, <3>2
    <2> QED BY <2>2, <2>3 DEF ProgressIsCommitted
  <1>2. ASSUME IInv PROVE DispositionIsTrue
    <2>1. NoTable \notin [Row -> Nat]
      BY TransferConstants DEF Row
    <2> QED BY <1>2, <2>1 DEF IInv, Concluded, Failed, DispositionIsTrue
  <1>3. IInv => ReportsAreTrue
    BY <1>1, <1>2 DEF ReportsAreTrue
  <1> QED BY <1>3, LoadIsFaithful, PTL

\* The landing type of the column keeps every digit the column's values can have.
LandsWhole == \A v \in Contents \ {NoRow} : Kept(v) = v

\* A column whose digits the catalog tells, or whose type has a landing type that
\* keeps every digit whatever the catalog tells.
Documented ==
  \/ setup.column.scale # Unknown
  \/ setup.column.type \notin {"TIME", "TIMESTAMP", "TIMESTAMP_TZ"}

\* "Choose a lossless landing type without guessing": every dialect keeps every digit
\* of a documented column it has a landing type for.
THEOREM DocumentedLandsWhole ==
  ASSUME setup \in Setups, Stageable, Documented
  PROVE  LandsWhole
  <1> DEFINE column == setup.column
  <1>1. setup.target \in Dialects /\ column \in Column
    BY TransferConstants DEF Setup
  <1>2. SUFFICES ASSUME NEW v \in Vals, v <= SourceDigits(column)
                 PROVE  Kept(v) = v
    BY DEF LandsWhole, Contents
  <1>3. v \in Nat /\ v <= Exact
    BY TransferConstants DEF Exact
  <1>4. column.scale \in Nat \cup {Unknown} /\ column.type \in CanonicalTypes
    BY <1>1 DEF Column
  <1> HIDE DEF column
  <1>5. column.type \in Whole => v <= 0
    BY <1>2 DEF SourceDigits
  <1>6. column.type \notin Whole /\ column.scale # Unknown =>
          column.scale \in Nat /\ v <= column.scale
    BY <1>2, <1>4 DEF SourceDigits
  <1>7. ASSUME NEW p, NEW s, column.type \notin Whole PROVE v <= Numeric(column, p, s)
    BY <1>3, <1>6, <1>7 DEF Numeric
  <1>8. ASSUME NEW default, NEW most, column.type \notin Whole, column.scale # Unknown
        PROVE  v <= Timed(column, default, most)
    BY <1>3, <1>6, <1>8 DEF Timed
  <1>9. column.scale # Unknown \/ column.type \notin {"TIME", "TIMESTAMP", "TIMESTAMP_TZ"}
    BY DEF Documented, column
  <1>10. PostgreSQLLanding(column) # Unsupported => v <= PostgreSQLLanding(column)
    BY <1>3, <1>5, <1>7, <1>8, <1>9 DEF PostgreSQLLanding, Whole, Opaque
  <1>11. MySQLLanding(column) # Unsupported => v <= MySQLLanding(column)
    BY <1>3, <1>5, <1>7, <1>8, <1>9 DEF MySQLLanding, Whole, Opaque
  <1>12. SnowflakeLanding(column) # Unsupported => v <= SnowflakeLanding(column)
    BY <1>3, <1>5, <1>7, <1>8, <1>9 DEF SnowflakeLanding, Whole, Opaque
  <1>13. v <= Landing(setup.target, column)
    BY <1>1, <1>10, <1>11, <1>12 DEF Stageable, Landing, Dialects, column
  <1> QED BY <1>13 DEF Kept, column

\* What a successful load leaves is the source, for every column whose landing type
\* keeps its digits: as it was at one moment of the load when one cursor read it, and
\* exactly, row by row, when nobody wrote it, however Spark sliced it and whichever of
\* its tasks ran again.
THEOREM CopiesTheSource == Spec => [](LandsWhole => CopyOfTheSource)
  <1>1. ASSUME IInv, LandsWhole, outcome = "SUCCEEDED", ~spark \/ Cardinality(been) = 1
        PROVE  \E table \in been : staging = Holding(RowsOf(table))
    <2>1. ~spark \/ been = {source}
      <3>1. IsFiniteSet(been) /\ source \in been
        BY <1>1 DEF IInv, HistoryIsTyped, TypeOK
      <3> QED BY <1>1, <3>1, FS_Singleton
    <2>2. PICK table \in been : staging = Holding(Landed(RowsOf(table)))
      BY <1>1, <2>1 DEF IInv, Concluded
    <2>3. \A k \in Keys : table[k] \in Contents
      BY <1>1 DEF IInv, HistoryIsTyped
    <2>4. \A r \in RowsOf(table) : r = <<r[1], Kept(r[2])>>
      <3> SUFFICES ASSUME NEW r \in RowsOf(table) PROVE r = <<r[1], Kept(r[2])>>
        OBVIOUS
      <3>1. /\ r = <<r[1], r[2]>> /\ r[1] \in Keys /\ r[2] \in Vals
            /\ r[2] \in Contents
        BY <2>3 DEF RowsOf, Row
      <3>2. Kept(r[2]) = r[2]
        BY <1>1, <3>1, TransferConstants DEF LandsWhole
      <3> QED BY <3>1, <3>2
    <2>5. Landed(RowsOf(table)) = RowsOf(table)
      BY <2>4 DEF Landed
    <2> QED BY <2>2, <2>5
  <1>2. IInv => (LandsWhole => CopyOfTheSource)
    BY <1>1 DEF CopyOfTheSource
  <1> QED BY <1>2, LoadIsFaithful, PTL

\* The same for every documented column, whatever the two systems are.
THEOREM DocumentedIsCopied == Spec => [](Documented => CopyOfTheSource)
  <1>1. IInv /\ Documented /\ outcome = "SUCCEEDED" => LandsWhole
    BY DocumentedLandsWhole DEF IInv, TypeOK, Concluded
  <1>2. ~(outcome = "SUCCEEDED") => CopyOfTheSource
    BY DEF CopyOfTheSource
  <1> QED BY <1>1, <1>2, LoadIsFaithful, CopiesTheSource, PTL

\* A documented column is landed without loss even while the application writes the
\* source: every row a successful load leaves is a row the source had.
THEOREM DocumentedIsLossless == Spec => [](Documented => LandingIsLossless)
  <1>1. ASSUME IInv, Documented PROVE LandingIsLossless
    <2> SUFFICES ASSUME outcome = "SUCCEEDED", NEW r \in Row, staging[r] > 0
                 PROVE  \E table \in been : table[r[1]] = r[2]
      BY DEF LandingIsLossless
    <2>1. LandsWhole
      BY <1>1, DocumentedLandsWhole DEF IInv, TypeOK, Concluded
    <2>2. staging # NoTable
      BY <1>1, TransferConstants DEF IInv, Concluded, Row
    <2>3. PICK table \in been : r \in Landed(RowsOf(table))
      BY <1>1, <2>2 DEF IInv, NoRowInvented
    <2>4. PICK q \in RowsOf(table) : r = <<q[1], Kept(q[2])>>
      BY <2>3 DEF Landed
    <2>5. q[1] \in Keys /\ q[2] \in Vals /\ table[q[1]] = q[2] /\ q[2] \in Contents
      BY <1>1 DEF RowsOf, Row, IInv, HistoryIsTyped
    <2>6. Kept(q[2]) = q[2]
      BY <2>1, <2>5, TransferConstants DEF LandsWhole
    <2> QED BY <2>4, <2>5, <2>6
  <1>2. IInv => (Documented => LandingIsLossless)
    BY <1>1
  <1> QED BY <1>2, LoadIsFaithful, PTL
=============================================================================
