----------------------- MODULE StrictValidationProofs -----------------------
(***************************************************************************)
(* What a strict validation may conclude, for every set of keys and cells, *)
(* every pair of tables and every setup, every page size and row cap, and  *)
(* every number of writes by the applications that own the tables.  First  *)
(* the order of the rows of a table and the occurrences of their keys, the *)
(* pages and the aggregates; then the inductive invariant, part by part.   *)
(***************************************************************************)
EXTENDS StrictValidation, FiniteSetTheorems, SequenceTheorems, TLAPS

\* A table: finitely many rows, no two with the same key and the same copy.
Rows(rows) ==
  /\ IsFiniteSet(rows)
  /\ \A r \in rows : r.key \in Keys /\ r.copy \in 1 .. 2
  /\ \A r, s \in rows : r.key = s.key /\ r.copy = s.copy => r = s

\* The second copy of a row is there beside the first.
Numbered(rows) ==
  \A r \in rows : r.copy = 2 => \E s \in rows : s.key = r.key /\ s.copy = 1

\* A sequence of keys is the beginning of another one.
Starts(keys, all) ==
  /\ Len(keys) <= Len(all)
  /\ \A i \in 1 .. Len(keys) : keys[i] = all[i]

OccursIn(keys, k) == {i \in DOMAIN keys : keys[i] = k}
RowsOf(rows, k) == {r \in rows : r.key = k}

----------------------------------------------------------------------------
(* The rows of a table in the order of their keys *)

\* The facts about the constants the proofs keep needing.
LEMMA ConstantFacts ==
  /\ Keys \subseteq Nat /\ IsFiniteSet(Keys)
  /\ MaxWrites \in Nat
  BY ValidationConstants

\* The rows come one after the other: the order is total and strict.
LEMMA OrderIsTotal ==
  ASSUME NEW rows, Rows(rows)
  PROVE  /\ \A r \in rows : ~ComesBefore(r, r)
         /\ \A r, s \in rows : r = s \/ ComesBefore(r, s) \/ ComesBefore(s, r)
         /\ \A r, s, t \in rows : ComesBefore(r, s) /\ ComesBefore(s, t) => ComesBefore(r, t)
  <1>1. \A r \in rows : r.key \in Int /\ r.copy \in Int
    <2>1. \A r \in rows : r.key \in Keys /\ r.copy \in 1 .. 2
      BY DEF Rows
    <2>2. Keys \subseteq Int
      BY ConstantFacts
    <2> TAKE r \in rows
    <2>3. r.copy \in 1 .. 2
      BY <2>1
    <2>4. r.copy \in Int
      BY <2>3
    <2> QED BY <2>1, <2>2, <2>4
  <1>2. \A r, s \in rows : r.key = s.key /\ r.copy = s.copy => r = s
    BY DEF Rows
  <1> QED BY <1>1, <1>2 DEF ComesBefore

\* A row has a place among the first ones, as many as there are rows, and it
\* comes before another one exactly when its place does.
LEMMA PlacesAreOrdered ==
  ASSUME NEW rows, Rows(rows)
  PROVE  /\ Cardinality(rows) \in Nat
         /\ \A r \in rows : Place(r, rows) \in 1 .. Cardinality(rows)
         /\ \A r, s \in rows : ComesBefore(r, s) => Place(r, rows) < Place(s, rows)
  <1> DEFINE Till(r) == {s \in rows : ~ComesBefore(r, s)}
  <1>1. IsFiniteSet(rows) /\ Cardinality(rows) \in Nat
    BY FS_CardinalityType DEF Rows
  <1>2. ASSUME NEW r \in rows
        PROVE  /\ IsFiniteSet(Till(r)) /\ Cardinality(Till(r)) \in Nat
               /\ Cardinality(Till(r)) <= Cardinality(rows)
    <2>1. Till(r) \in SUBSET rows
      OBVIOUS
    <2> HIDE DEF Till
    <2> QED BY <1>1, <2>1, FS_Subset, FS_CardinalityType
  <1>3. ASSUME NEW r \in rows
        PROVE  Cardinality(Till(r)) # 0
    <2>1. r \in Till(r)
      BY OrderIsTotal
    <2> HIDE DEF Till
    <2> QED BY <1>2, <2>1, FS_EmptySet
  <1>4. ASSUME NEW r \in rows, NEW s \in rows, ComesBefore(r, s)
        PROVE  Cardinality(Till(r)) < Cardinality(Till(s))
    <2>1. Till(r) \in SUBSET Till(s)
      BY <1>4, OrderIsTotal
    <2>2. s \in Till(s) /\ s \notin Till(r)
      BY <1>4, OrderIsTotal
    <2> HIDE DEF Till
    <2>3. /\ Cardinality(Till(r)) <= Cardinality(Till(s))
          /\ Cardinality(Till(s)) = Cardinality(Till(r)) => Till(s) = Till(r)
      BY <1>2, <2>1, FS_Subset
    <2> QED BY <1>2, <2>2, <2>3
  <1>5. \A r : Place(r, rows) = Cardinality(Till(r))
    BY DEF Place
  <1> HIDE DEF Till
  <1> QED BY <1>1, <1>2, <1>3, <1>4, <1>5

\* The row at a place.
RowAt(rows, i) == CHOOSE r \in rows : Place(r, rows) = i

\* Every place is taken, by one row.
LEMMA PlacesAreTaken ==
  ASSUME NEW rows, Rows(rows)
  PROVE  /\ \A r, s \in rows : Place(r, rows) = Place(s, rows) => r = s
         /\ \A i \in 1 .. Cardinality(rows) :
              RowAt(rows, i) \in rows /\ Place(RowAt(rows, i), rows) = i
         /\ \A r \in rows : RowAt(rows, Place(r, rows)) = r
  <1> DEFINE n == Cardinality(rows)
             f == [r \in rows |-> Place(r, rows)]
  <1>1. n \in Nat /\ \A r \in rows : Place(r, rows) \in 1 .. n
    BY PlacesAreOrdered
  <1>2. \A r, s \in rows : Place(r, rows) = Place(s, rows) => r = s
    <2>1. \A r \in rows : Place(r, rows) \in Int
      BY <1>1
    <2> QED BY <2>1, OrderIsTotal, PlacesAreOrdered
  <1>3. f \in Injection(rows, 1 .. n)
    BY <1>1, <1>2 DEF Injection, IsInjective
  <1>4. IsFiniteSet(1 .. n) /\ Cardinality(1 .. n) = n
    BY <1>1, FS_Interval
  <1>5. f \in Surjection(rows, 1 .. n)
    <2> HIDE DEF f
    <2> QED BY <1>3, <1>4, FS_Injection
  <1>6. \A i \in 1 .. n : \E r \in rows : Place(r, rows) = i
    BY <1>5 DEF Surjection
  <1>7. \A i \in 1 .. n : RowAt(rows, i) \in rows /\ Place(RowAt(rows, i), rows) = i
    <2> HIDE DEF n
    <2> QED BY <1>6 DEF RowAt
  <1>8. \A r \in rows : RowAt(rows, Place(r, rows)) = r
    BY <1>1, <1>2, <1>7
  <1> QED BY <1>2, <1>7, <1>8

\* The keys of a table in order: a key for every row, and a key occurs as often
\* as rows have it.
LEMMA OrderedKeysOfRows ==
  ASSUME NEW rows, Rows(rows)
  PROVE  /\ OrderedKeys(rows) \in Seq(Keys)
         /\ Len(OrderedKeys(rows)) = Cardinality(rows)
         /\ \A i \in 1 .. Cardinality(rows) : OrderedKeys(rows)[i] = RowAt(rows, i).key
         /\ DOMAIN OrderedKeys(rows) = 1 .. Cardinality(rows)
  <1> DEFINE n == Cardinality(rows)
  <1>1. n \in Nat
    BY PlacesAreOrdered
  <1>2. OrderedKeys(rows) = [i \in 1 .. n |-> RowAt(rows, i).key]
    BY DEF OrderedKeys, RowAt
  <1>3. \A i \in 1 .. n : RowAt(rows, i).key \in Keys
    BY PlacesAreTaken DEF Rows
  <1>4. OrderedKeys(rows) \in [1 .. n -> Keys]
    BY <1>2, <1>3
  <1>5. OrderedKeys(rows) \in Seq(Keys)
    BY <1>1, <1>4
  <1>6. DOMAIN OrderedKeys(rows) = 1 .. n
    BY <1>4
  <1>7. Len(OrderedKeys(rows)) = n
    BY <1>1, <1>5, <1>6, LenProperties
  <1> QED BY <1>2, <1>5, <1>6, <1>7

\* A key occurs among the keys of a table as often as there are rows that have it.
LEMMA KeysOccurAsRows ==
  ASSUME NEW rows, Rows(rows), NEW k
  PROVE  /\ IsFiniteSet(RowsOf(rows, k))
         /\ Cardinality(OccursIn(OrderedKeys(rows), k)) = Cardinality(RowsOf(rows, k))
  <1> DEFINE P == OccursIn(OrderedKeys(rows), k)
             R == RowsOf(rows, k)
             f == [r \in R |-> Place(r, rows)]
  <1>1. P = {i \in 1 .. Cardinality(rows) : RowAt(rows, i).key = k}
    BY OrderedKeysOfRows DEF OccursIn
  <1>2. IsFiniteSet(R)
    <2>1. IsFiniteSet(rows) /\ R \in SUBSET rows
      BY DEF Rows, RowsOf
    <2> HIDE DEF R
    <2> QED BY <2>1, FS_Subset
  <1>3. \A r \in R : Place(r, rows) \in P
    BY <1>1, PlacesAreOrdered, PlacesAreTaken DEF RowsOf
  <1>4. \A r, s \in R : Place(r, rows) = Place(s, rows) => r = s
    BY PlacesAreTaken DEF RowsOf
  <1>5. \A i \in P : \E r \in R : Place(r, rows) = i
    BY <1>1, PlacesAreTaken DEF RowsOf
  <1>6. f \in Bijection(R, P)
    <2> HIDE DEF R, P
    <2> QED BY <1>3, <1>4, <1>5 DEF Bijection, Injection, Surjection, IsInjective
  <1>7. ExistsBijection(R, P)
    <2> HIDE DEF f, R, P
    <2> QED BY <1>6 DEF ExistsBijection
  <1>8. Cardinality(P) = Cardinality(R)
    <2> HIDE DEF f, R, P
    <2> QED BY <1>2, <1>7, FS_Bijection
  <1> QED BY <1>2, <1>8

\* The keys that occur are those of the rows.
LEMMA RangeOfOrderedKeys ==
  ASSUME NEW rows, Rows(rows)
  PROVE  Range(OrderedKeys(rows)) = {r.key : r \in rows}
  <1>1. Range(OrderedKeys(rows)) = {RowAt(rows, i).key : i \in 1 .. Cardinality(rows)}
    BY OrderedKeysOfRows DEF Range
  <1>2. {RowAt(rows, i).key : i \in 1 .. Cardinality(rows)} \subseteq {r.key : r \in rows}
    BY PlacesAreTaken
  <1>3. \A r \in rows : \E i \in 1 .. Cardinality(rows) : RowAt(rows, i) = r
    BY PlacesAreTaken, PlacesAreOrdered
  <1>4. {r.key : r \in rows} \subseteq {RowAt(rows, i).key : i \in 1 .. Cardinality(rows)}
    BY <1>3
  <1> QED BY <1>1, <1>2, <1>4

\* A row added above all of them comes last.
LEMMA AppendedComesLast ==
  ASSUME NEW rows, Rows(rows), NEW new, Rows(rows \cup {new}),
         \A r \in rows : r.key < new.key
  PROVE  /\ Cardinality(rows \cup {new}) = Cardinality(rows) + 1
         /\ Starts(OrderedKeys(rows), OrderedKeys(rows \cup {new}))
  <1> DEFINE more == rows \cup {new}
             n == Cardinality(rows)
  <1>0. n \in Nat /\ IsFiniteSet(rows)
    BY PlacesAreOrdered DEF Rows
  <1>1. \A r \in more : r.key \in Int /\ r.copy \in Int
    <2>1. \A r \in more : r.key \in Keys /\ r.copy \in 1 .. 2
      BY DEF Rows
    <2>2. Keys \subseteq Int
      BY ConstantFacts
    <2> TAKE r \in more
    <2>3. r.copy \in 1 .. 2
      BY <2>1
    <2>4. r.copy \in Int
      BY <2>3
    <2> QED BY <2>1, <2>2, <2>4
  <1>2. new \notin rows
    BY <1>1
  <1>3. Cardinality(more) = n + 1
    BY <1>0, <1>2, FS_AddElement
  <1>4. \A r \in rows : ComesBefore(r, new)
    BY DEF ComesBefore
  <1>5. ASSUME NEW r \in rows
        PROVE  Place(r, more) = Place(r, rows)
    <2>1. {s \in more : ~ComesBefore(r, s)} = {s \in rows : ~ComesBefore(r, s)}
      BY <1>4
    <2> QED BY <2>1 DEF Place
  <1>6. ASSUME NEW i \in 1 .. n
        PROVE  RowAt(more, i) = RowAt(rows, i)
    <2>1. RowAt(rows, i) \in rows /\ Place(RowAt(rows, i), rows) = i
      BY PlacesAreTaken
    <2>2. Place(RowAt(rows, i), more) = i
      BY <1>5, <2>1
    <2>3. RowAt(more, Place(RowAt(rows, i), more)) = RowAt(rows, i)
      BY <2>1, PlacesAreTaken
    <2> QED BY <2>2, <2>3
  <1>7. /\ Len(OrderedKeys(rows)) = n /\ Len(OrderedKeys(more)) = n + 1
        /\ \A i \in 1 .. n : OrderedKeys(rows)[i] = RowAt(rows, i).key
        /\ \A i \in 1 .. n + 1 : OrderedKeys(more)[i] = RowAt(more, i).key
    BY <1>3, OrderedKeysOfRows
  <1>8. \A i \in 1 .. n : OrderedKeys(rows)[i] = OrderedKeys(more)[i]
    <2> TAKE i \in 1 .. n
    <2>1. i \in 1 .. n + 1
      BY <1>0
    <2>2. RowAt(more, i) = RowAt(rows, i)
      BY <1>6
    <2> QED BY <1>7, <2>1, <2>2
  <1> HIDE DEF n, more
  <1>9. Starts(OrderedKeys(rows), OrderedKeys(more))
    BY <1>0, <1>7, <1>8 DEF Starts
  <1> QED BY <1>3, <1>9 DEF n, more

\* Beginnings of beginnings.
LEMMA StartsTransitive ==
  ASSUME NEW s \in Seq(Keys), NEW t \in Seq(Keys), NEW u \in Seq(Keys),
         Starts(s, t), Starts(t, u)
  PROVE  Starts(s, u)
  <1>1. Len(s) \in Nat /\ Len(t) \in Nat /\ Len(u) \in Nat
    BY LenProperties
  <1>2. \A i \in 1 .. Len(s) : i \in 1 .. Len(t)
    BY <1>1 DEF Starts
  <1> QED BY <1>1, <1>2 DEF Starts

\* The empty sequence is a beginning, and one as long as the whole is the whole.
LEMMA StartsAtBothEnds ==
  ASSUME NEW s \in Seq(Keys), NEW t \in Seq(Keys)
  PROVE  /\ Starts(<<>>, t)
         /\ Starts(s, t) /\ Len(s) = Len(t) => s = t
  <1>1. Len(<<>>) = 0 /\ Len(t) \in Nat
    BY LenProperties
  <1>2. Starts(<<>>, t)
    BY <1>1 DEF Starts
  <1>3. Starts(s, t) /\ Len(s) = Len(t) => s = t
    BY SeqEqual DEF Starts
  <1> QED BY <1>2, <1>3

----------------------------------------------------------------------------
(* The pages *)

\* The least of three numbers.
LEMMA LeastOfThree ==
  ASSUME NEW a \in Int, NEW b \in Int, NEW c \in Int
  PROVE  /\ Min({a, b, c}) \in {a, b, c}
         /\ Min({a, b, c}) <= a /\ Min({a, b, c}) <= b /\ Min({a, b, c}) <= c
  <1>1. \E x \in {a, b, c} : \A y \in {a, b, c} : x =< y
    <2>1. CASE a <= b /\ a <= c
      BY <2>1
    <2>2. CASE b <= a /\ b <= c
      BY <2>2
    <2>3. CASE c <= a /\ c <= b
      BY <2>3
    <2> QED BY <2>1, <2>2, <2>3
  <1>2. Min({a, b, c}) \in {a, b, c} /\ \A y \in {a, b, c} : Min({a, b, c}) =< y
    BY <1>1 DEF Min
  <1> QED BY <1>2

\* A page is a piece of the keys of the table.
LEMMA PagesAreKeys ==
  ASSUME NEW rows, Rows(rows), NEW offset \in Nat, NEW cap \in Nat \ {0},
         setup \in Setups
  PROVE  /\ Page(rows, offset, cap) \in Seq(Keys)
         /\ offset <= Cardinality(rows) =>
              /\ offset + Len(Page(rows, offset, cap)) <= Cardinality(rows)
              /\ \A i \in 1 .. Len(Page(rows, offset, cap)) :
                   Page(rows, offset, cap)[i] = OrderedKeys(rows)[offset + i]
              /\ Page(rows, offset, cap) = <<>> => offset = Cardinality(rows)
  <1> DEFINE keys == OrderedKeys(rows)
             n == Cardinality(rows)
             last == Min({offset + setup.batch, offset + cap, Len(keys)})
  <1>1. setup.batch \in Nat \ {0}
    BY ValidationConstants
  <1>2. n \in Nat /\ Len(keys) = n /\ keys \in Seq(Keys) /\ DOMAIN keys = 1 .. n
    BY PlacesAreOrdered, OrderedKeysOfRows
  <1>3. /\ last \in {offset + setup.batch, offset + cap, n}
        /\ last <= offset + setup.batch /\ last <= offset + cap /\ last <= n
    <2>1. offset + setup.batch \in Int /\ offset + cap \in Int
      BY <1>1
    <2>2. Len(keys) \in Int /\ Len(keys) = n
      BY <1>2
    <2> HIDE DEF keys, n
    <2>3. /\ last \in {offset + setup.batch, offset + cap, Len(keys)}
          /\ last <= offset + setup.batch /\ last <= offset + cap /\ last <= Len(keys)
      BY <2>1, <2>2, LeastOfThree
    <2> QED BY <2>2, <2>3
  <1>4. Page(rows, offset, cap) = SubSeq(keys, offset + 1, last)
    BY DEF Page
  <1> HIDE DEF keys, n, last
  <1>5. last \in Int /\ offset + 1 \in Int
    BY <1>1, <1>2, <1>3
  <1>6. \A i \in offset + 1 .. last : keys[i] \in Keys
    <2> TAKE i \in offset + 1 .. last
    <2>1. i \in 1 .. Len(keys)
      BY <1>2, <1>3, <1>5
    <2> QED BY <1>2, <2>1, ElementOfSeq
  <1>7. /\ SubSeq(keys, offset + 1, last) \in Seq(Keys)
        /\ Len(SubSeq(keys, offset + 1, last))
             = IF offset + 1 <= last THEN last - (offset + 1) + 1 ELSE 0
        /\ \A i \in 1 .. last - (offset + 1) + 1 :
             SubSeq(keys, offset + 1, last)[i] = keys[offset + 1 + i - 1]
    BY <1>5, <1>6, SubSeqProperties
  <1>8. ASSUME offset <= n
        PROVE  /\ offset + Len(Page(rows, offset, cap)) <= n
               /\ \A i \in 1 .. Len(Page(rows, offset, cap)) :
                    Page(rows, offset, cap)[i] = keys[offset + i]
               /\ Page(rows, offset, cap) = <<>> => offset = n
    <2>1. last >= offset
      BY <1>1, <1>2, <1>3, <1>8
    <2>2. Len(Page(rows, offset, cap)) = last - offset
      BY <1>4, <1>5, <1>7, <2>1
    <2>3. \A i \in 1 .. last - offset : Page(rows, offset, cap)[i] = keys[offset + i]
      <3> TAKE i \in 1 .. last - offset
      <3>1. i \in 1 .. last - (offset + 1) + 1 /\ offset + 1 + i - 1 = offset + i
        BY <1>5
      <3> QED BY <1>4, <1>7, <3>1
    <2>4. Page(rows, offset, cap) = <<>> => last = offset
      <3>1. Len(<<>>) = 0
        BY EmptySeq
      <3> QED BY <1>5, <2>2, <3>1
    <2>5. last = offset => offset = n
      BY <1>1, <1>2, <1>3
    <2> QED BY <1>2, <1>3, <1>5, <2>2, <2>3, <2>4, <2>5
  <1> QED BY <1>4, <1>7, <1>8 DEF keys, n

\* The pages read so far and the next one: still the first keys of the table,
\* and all of them when the page is empty.
LEMMA NextPageFollows ==
  ASSUME NEW rows, Rows(rows), NEW keys \in Seq(Keys), NEW cap \in Nat \ {0},
         setup \in Setups, Starts(keys, OrderedKeys(rows))
  PROVE  /\ Starts(keys \o Page(rows, Len(keys), cap), OrderedKeys(rows))
         /\ Page(rows, Len(keys), cap) = <<>> => keys = OrderedKeys(rows)
  <1> DEFINE page == Page(rows, Len(keys), cap)
             n == Cardinality(rows)
  <1>1. Len(keys) \in Nat /\ n \in Nat
    BY LenProperties, PlacesAreOrdered
  <1>2. OrderedKeys(rows) \in Seq(Keys) /\ Len(OrderedKeys(rows)) = n
    BY OrderedKeysOfRows
  <1>3. Len(keys) <= n /\ \A i \in 1 .. Len(keys) : keys[i] = OrderedKeys(rows)[i]
    BY <1>2 DEF Starts
  <1>4. /\ page \in Seq(Keys)
        /\ Len(keys) + Len(page) <= n
        /\ \A i \in 1 .. Len(page) : page[i] = OrderedKeys(rows)[Len(keys) + i]
        /\ page = <<>> => Len(keys) = n
    BY <1>1, <1>3, PagesAreKeys
  <1> HIDE DEF page, n
  <1>5. /\ Len(keys \o page) = Len(keys) + Len(page)
        /\ \A i \in 1 .. Len(keys) + Len(page) :
             (keys \o page)[i] = IF i <= Len(keys) THEN keys[i] ELSE page[i - Len(keys)]
    BY <1>4, ConcatProperties
  <1>6. Len(page) \in Nat
    BY <1>4, LenProperties
  <1>7. ASSUME NEW i \in 1 .. Len(keys) + Len(page)
        PROVE  (keys \o page)[i] = OrderedKeys(rows)[i]
    <2>1. CASE i <= Len(keys)
      <3>1. i \in 1 .. Len(keys)
        BY <1>1, <1>6, <2>1
      <3> QED BY <1>3, <1>5, <2>1, <3>1
    <2>2. CASE ~(i <= Len(keys))
      <3>1. i - Len(keys) \in 1 .. Len(page) /\ Len(keys) + (i - Len(keys)) = i
        BY <1>1, <1>6, <2>2
      <3>2. page[i - Len(keys)] = OrderedKeys(rows)[i]
        BY <1>4, <3>1
      <3> QED BY <1>5, <2>2, <3>2
    <2> QED BY <2>1, <2>2
  <1>8. Starts(keys \o page, OrderedKeys(rows))
    BY <1>2, <1>4, <1>5, <1>7 DEF Starts
  <1>9. page = <<>> => keys = OrderedKeys(rows)
    BY <1>2, <1>4, StartsAtBothEnds
  <1> QED BY <1>8, <1>9 DEF page

----------------------------------------------------------------------------
(* The occurrences of the keys, and the counts made of them *)

\* Rows that are numbered: a key has a first copy, and a second one or not.
LEMMA CopiesOfAKey ==
  ASSUME NEW rows, Rows(rows), Numbered(rows), NEW k, \E r \in rows : r.key = k
  PROVE  \A j : j \in 1 .. Cardinality(RowsOf(rows, k))
                  <=> \E r \in rows : r.key = k /\ r.copy = j
  <1>1. PICK a \in rows : a.key = k /\ a.copy = 1
    <2>1. PICK r \in rows : r.key = k
      OBVIOUS
    <2>2. r.copy \in 1 .. 2
      BY <2>1 DEF Rows
    <2>3. r.copy = 1 \/ r.copy = 2
      BY <2>2
    <2> QED BY <2>1, <2>3 DEF Numbered
  <1>2. \A r \in rows : r.copy = 1 \/ r.copy = 2
    <2>1. \A r \in rows : r.copy \in 1 .. 2
      BY DEF Rows
    <2> TAKE r \in rows
    <2>2. r.copy \in 1 .. 2
      BY <2>1
    <2> QED BY <2>2
  <1>3. \A r \in rows : r.key = k /\ r.copy = 1 => r = a
    BY <1>1 DEF Rows
  <1>4. CASE \E b \in rows : b.key = k /\ b.copy = 2
    <2>1. PICK b \in rows : b.key = k /\ b.copy = 2
      BY <1>4
    <2>2. \A r \in rows : r.key = k /\ r.copy = 2 => r = b
      BY <2>1 DEF Rows
    <2>3. RowsOf(rows, k) = {a} \cup {b} /\ a # b
      BY <1>1, <1>2, <1>3, <2>1, <2>2 DEF RowsOf
    <2>4. IsFiniteSet({a}) /\ Cardinality({a}) = 1 /\ b \notin {a}
      BY <2>3, FS_Singleton
    <2>5. Cardinality({a} \cup {b}) = 2
      BY <2>4, FS_AddElement
    <2>6. \A j : j \in 1 .. 2 <=> j = 1 \/ j = 2
      OBVIOUS
    <2> QED BY <1>1, <1>2, <2>1, <2>3, <2>5, <2>6
  <1>5. CASE ~ \E b \in rows : b.key = k /\ b.copy = 2
    <2>1. RowsOf(rows, k) = {a}
      BY <1>1, <1>2, <1>3, <1>5 DEF RowsOf
    <2>2. Cardinality({a}) = 1
      BY FS_Singleton
    <2>3. \A j : j \in 1 .. 1 <=> j = 1
      OBVIOUS
    <2> QED BY <1>1, <1>2, <1>5, <2>1, <2>2, <2>3
  <1> QED BY <1>4, <1>5

\* The numbered occurrences of the keys of a table are its rows.
LEMMA OccurrencesAreRows ==
  ASSUME NEW rows, Rows(rows), Numbered(rows)
  PROVE  Occurrences(OrderedKeys(rows)) = {<<r.key, r.copy>> : r \in rows}
  <1> DEFINE keys == OrderedKeys(rows)
             Times(k) == Cardinality({i \in DOMAIN keys : keys[i] = k})
  <1>1. \A k : Times(k) = Cardinality(RowsOf(rows, k))
    BY KeysOccurAsRows DEF OccursIn
  <1>2. Occurrences(keys) = UNION {{k} \X (1 .. Times(k)) : k \in {r.key : r \in rows}}
    <2>1. Range(keys) = {r.key : r \in rows}
      BY RangeOfOrderedKeys
    <2> QED BY <2>1 DEF Occurrences
  <1>3. ASSUME NEW r \in rows
        PROVE  \A j : j \in 1 .. Times(r.key) <=> \E s \in rows : s.key = r.key /\ s.copy = j
    <2>1. Times(r.key) = Cardinality(RowsOf(rows, r.key))
      BY <1>1
    <2> HIDE DEF Times
    <2> QED BY <2>1, CopiesOfAKey
  <1> HIDE DEF keys, Times
  <1>4. ASSUME NEW r \in rows
        PROVE  <<r.key, r.copy>> \in Occurrences(keys)
    BY <1>2, <1>3
  <1>5. ASSUME NEW o \in Occurrences(keys)
        PROVE  o \in {<<r.key, r.copy>> : r \in rows}
    <2>1. PICK r \in rows : o \in {r.key} \X (1 .. Times(r.key))
      BY <1>2
    <2>2. PICK j \in 1 .. Times(r.key) : o = <<r.key, j>>
      BY <2>1
    <2>3. PICK s \in rows : s.key = r.key /\ s.copy = j
      BY <1>3
    <2> QED BY <2>2, <2>3
  <1> QED BY <1>4, <1>5 DEF keys

\* As many occurrences as rows.
LEMMA OccurrencesAreCounted ==
  ASSUME NEW rows, Rows(rows)
  PROVE  /\ IsFiniteSet({<<r.key, r.copy>> : r \in rows})
         /\ Cardinality({<<r.key, r.copy>> : r \in rows}) = Cardinality(rows)
  <1> DEFINE T == {<<r.key, r.copy>> : r \in rows}
             f == [r \in rows |-> <<r.key, r.copy>>]
  <1>1. f \in Bijection(rows, T)
    BY DEF Rows, Bijection, Injection, Surjection, IsInjective
  <1>2. ExistsBijection(rows, T) /\ IsFiniteSet(rows)
    <2> HIDE DEF f, T
    <2> QED BY <1>1 DEF ExistsBijection, Rows
  <1> HIDE DEF T
  <1>3. IsFiniteSet(T) /\ Cardinality(T) = Cardinality(rows)
    BY <1>2, FS_Bijection
  <1> QED BY <1>3 DEF T

\* A set of keys counts the same when each of them is an occurrence.
LEMMA OnceEach ==
  ASSUME NEW K, IsFiniteSet(K)
  PROVE  /\ IsFiniteSet({<<k, 1>> : k \in K})
         /\ Cardinality({<<k, 1>> : k \in K}) = Cardinality(K)
         /\ Cardinality(K) \in Nat
  <1> DEFINE T == {<<k, 1>> : k \in K}
             f == [k \in K |-> <<k, 1>>]
  <1>1. f \in Bijection(K, T)
    BY DEF Bijection, Injection, Surjection, IsInjective
  <1>2. ExistsBijection(K, T)
    <2> HIDE DEF f, T
    <2> QED BY <1>1 DEF ExistsBijection
  <1> HIDE DEF T
  <1>3. IsFiniteSet(T) /\ Cardinality(T) = Cardinality(K)
    BY <1>2, FS_Bijection
  <1> QED BY <1>3, FS_CardinalityType DEF T

\* Two tables that were read whole, the first with every key once: what the
\* difference of the occurrences counts.
LEMMA DifferencesAreCounted ==
  ASSUME NEW ours, Rows(ours), NEW theirs, Rows(theirs), Numbered(theirs),
         \A r \in ours : r.copy = 1
  PROVE  LET K == {r.key : r \in ours}
             L == {r.key : r \in theirs}
             O == Occurrences(OrderedKeys(ours))
             T == Occurrences(OrderedKeys(theirs))
         IN  /\ IsFiniteSet(K) /\ IsFiniteSet(L)
             /\ Cardinality(ours) = Cardinality(K)
             /\ Cardinality(O \ T) = Cardinality(K \ L)
             /\ Cardinality(T \ O)
                  = (Cardinality(theirs) - Cardinality(L)) + Cardinality(L \ K)
  <1> DEFINE K == {r.key : r \in ours}
             L == {r.key : r \in theirs}
             O == Occurrences(OrderedKeys(ours))
             T == Occurrences(OrderedKeys(theirs))
             D == {o \in T : o[2] = 2}
  <1>1. K \in SUBSET Keys /\ L \in SUBSET Keys
    BY DEF Rows
  <1>2. IsFiniteSet(K) /\ IsFiniteSet(L)
    <2> HIDE DEF K, L
    <2> QED BY <1>1, ConstantFacts, FS_Subset
  <1>3. O = {<<k, 1>> : k \in K}
    <2>1. Numbered(ours)
      BY DEF Numbered
    <2>2. O = {<<r.key, r.copy>> : r \in ours}
      BY <2>1, OccurrencesAreRows
    <2> HIDE DEF O
    <2> QED BY <2>2
  <1>4. T = {<<r.key, r.copy>> : r \in theirs}
    BY OccurrencesAreRows
  <1>5. \A r \in theirs : r.copy = 1 \/ r.copy = 2
    <2> TAKE r \in theirs
    <2>1. r.copy \in 1 .. 2
      BY DEF Rows
    <2> QED BY <2>1
  <1>6. IsFiniteSet(T) /\ Cardinality(T) = Cardinality(theirs)
    BY <1>4, OccurrencesAreCounted
  <1> HIDE DEF O, T
  <1>7. \A k \in L : <<k, 1>> \in T
    <2> TAKE k \in L
    <2>1. PICK r \in theirs : r.key = k
      OBVIOUS
    <2>2. CASE r.copy = 1
      BY <1>4, <2>1, <2>2
    <2>3. CASE r.copy = 2
      <3>1. PICK s \in theirs : s.key = k /\ s.copy = 1
        BY <2>1, <2>3 DEF Numbered
      <3>2. <<s.key, s.copy>> \in T
        BY <1>4
      <3> QED BY <3>1, <3>2
    <2> QED BY <1>5, <2>2, <2>3
  <1>8. T = {<<k, 1>> : k \in L} \cup D
    <2>1. D \subseteq T
      OBVIOUS
    <2>2. \A r \in theirs : <<r.key, r.copy>> \in {<<k, 1>> : k \in L} \cup D
      <3> TAKE r \in theirs
      <3>1. <<r.key, r.copy>> \in T /\ r.key \in L
        BY <1>4
      <3>2. CASE r.copy = 1
        BY <3>1, <3>2
      <3>3. CASE r.copy = 2
        BY <3>1, <3>3
      <3> QED BY <1>5, <3>2, <3>3
    <2> QED BY <1>4, <1>7, <2>1, <2>2
  <1>9. \A k : <<k, 1>> \notin D
    OBVIOUS
  <1>10. O \ T = {<<k, 1>> : k \in K \ L}
    BY <1>3, <1>8, <1>9
  <1>11. T \ O = D \cup {<<k, 1>> : k \in L \ K}
    BY <1>3, <1>8, <1>9
  <1>12. IsFiniteSet(D) /\ Cardinality(D) \in Nat
    <2>1. D \in SUBSET T
      OBVIOUS
    <2> HIDE DEF D
    <2> QED BY <1>6, <2>1, FS_Subset, FS_CardinalityType
  <1> HIDE DEF K, L, D
  <1>13. ASSUME NEW J \in SUBSET L
         PROVE  /\ IsFiniteSet(J) /\ Cardinality(J) \in Nat
                /\ Cardinality(D \cup {<<k, 1>> : k \in J}) = Cardinality(D) + Cardinality(J)
    <2> DEFINE E == {<<k, 1>> : k \in J}
    <2>1. IsFiniteSet(J) /\ Cardinality(J) \in Nat
      BY <1>2, FS_Subset, FS_CardinalityType
    <2>2. IsFiniteSet(E) /\ Cardinality(E) = Cardinality(J)
      BY <2>1, OnceEach
    <2>3. D \cap E = {}
      BY <1>9
    <2> HIDE DEF E
    <2>4. Cardinality(D \cup E) = Cardinality(D) + Cardinality(E) - Cardinality(D \cap E)
      BY <1>12, <2>2, FS_Union
    <2>5. Cardinality(D \cap E) = 0
      BY <2>3, FS_EmptySet
    <2>6. Cardinality(D \cup E) = Cardinality(D) + Cardinality(J)
      BY <1>12, <2>1, <2>2, <2>4, <2>5
    <2> QED BY <2>1, <2>6 DEF E
  <1>14. Cardinality(theirs) = Cardinality(D) + Cardinality(L)
    <2>1. T = D \cup {<<k, 1>> : k \in L}
      BY <1>8
    <2> QED BY <1>6, <1>13, <2>1
  <1>15. Cardinality(T \ O) = Cardinality(D) + Cardinality(L \ K)
    BY <1>11, <1>13
  <1>16. Cardinality(L) \in Nat /\ Cardinality(L \ K) \in Nat
    <2>1. L \in SUBSET L /\ L \ K \in SUBSET L
      OBVIOUS
    <2> QED BY <1>13, <2>1
  <1>17. Cardinality(T \ O) = (Cardinality(theirs) - Cardinality(L)) + Cardinality(L \ K)
    BY <1>12, <1>14, <1>15, <1>16
  <1>18. Cardinality(O \ T) = Cardinality(K \ L)
    <2>1. IsFiniteSet(K \ L)
      BY <1>2, FS_Difference
    <2> QED BY <1>10, <2>1, OnceEach
  <1>19. Cardinality(ours) = Cardinality(K)
    <2>1. {<<r.key, r.copy>> : r \in ours} = {<<k, 1>> : k \in K}
      BY DEF K
    <2> QED BY <1>2, <2>1, OnceEach, OccurrencesAreCounted
  <1> QED BY <1>2, <1>17, <1>18, <1>19 DEF K, L, O, T

\* The occurrences of a sequence of keys are finitely many, and no fewer keys
\* were read than there are different ones.
LEMMA SequencesAreCounted ==
  ASSUME NEW S, NEW keys \in Seq(S)
  PROVE  IsFiniteSet(Occurrences(keys)) /\ Duplicates(keys) \in Nat
  <1> DEFINE n == Len(keys)
             Times(k) == Cardinality({i \in DOMAIN keys : keys[i] = k})
  <1>1. n \in Nat /\ DOMAIN keys = 1 .. n
    BY LenProperties
  <1>2. IsFiniteSet(1 .. n) /\ Cardinality(1 .. n) = n
    BY <1>1, FS_Interval
  <1>3. Range(keys) = {keys[i] : i \in 1 .. n}
    BY RangeEquality
  <1>4. IsFiniteSet(Range(keys)) /\ Cardinality(Range(keys)) <= n
    <2> DEFINE f == [i \in 1 .. n |-> keys[i]]
    <2>1. f \in Surjection(1 .. n, Range(keys))
      BY <1>3 DEF Surjection
    <2> HIDE DEF f
    <2> QED BY <1>2, <2>1, FS_Surjection
  <1>5. Cardinality(Range(keys)) \in Nat
    BY <1>4, FS_CardinalityType
  <1>6. \A k : Times(k) \in Nat /\ Times(k) <= n
    <2> TAKE k
    <2> DEFINE at == {i \in DOMAIN keys : keys[i] = k}
    <2>1. at \in SUBSET (1 .. n)
      BY <1>1
    <2> HIDE DEF at, n
    <2>2. IsFiniteSet(at) /\ Cardinality(at) <= n /\ Cardinality(at) \in Nat
      BY <1>2, <2>1, FS_Subset, FS_CardinalityType
    <2> QED BY <2>2 DEF at
  <1>7. Occurrences(keys) = UNION {{k} \X (1 .. Times(k)) : k \in Range(keys)}
    BY DEF Occurrences
  <1> HIDE DEF n, Times
  <1>8. ASSUME NEW o \in Occurrences(keys)
        PROVE  o \in Range(keys) \X (1 .. n)
    <2>1. PICK k \in Range(keys) : o \in {k} \X (1 .. Times(k))
      BY <1>7
    <2>2. PICK j \in 1 .. Times(k) : o = <<k, j>>
      BY <2>1
    <2>3. j \in 1 .. n
      BY <1>1, <1>6
    <2> QED BY <2>2, <2>3
  <1>9. IsFiniteSet(Occurrences(keys))
    <2>1. Occurrences(keys) \in SUBSET (Range(keys) \X (1 .. n))
      BY <1>8
    <2>2. IsFiniteSet(Range(keys) \X (1 .. n))
      BY <1>2, <1>4, FS_Product
    <2> QED BY <2>1, <2>2, FS_Subset
  <1>10. Duplicates(keys) \in Nat
    <2>1. Duplicates(keys) = n - Cardinality(Range(keys))
      BY DEF Duplicates, n
    <2> QED BY <1>1, <1>4, <1>5, <2>1
  <1> QED BY <1>9, <1>10

\* The keys of the target as its driver returns them: as many, and the same ones
\* where the drivers return them alike.
LEMMA ReturnedKeys ==
  ASSUME NEW keys \in Seq(Keys)
  PROVE  /\ Returned(keys) \in Seq(Int)
         /\ DOMAIN Returned(keys) = DOMAIN keys /\ Len(Returned(keys)) = Len(keys)
         /\ \A i \in DOMAIN keys : keys[i] \in Nat
         /\ setup.keysAlike => Returned(keys) = keys
         /\ ~setup.keysAlike => \A i \in DOMAIN keys : Returned(keys)[i] = -1 - keys[i]
  <1> DEFINE other == [i \in DOMAIN keys |-> -1 - keys[i]]
  <1>1. /\ Len(keys) \in Nat /\ DOMAIN keys = 1 .. Len(keys)
        /\ \A i \in DOMAIN keys : keys[i] \in Keys
    BY LenProperties, ElementOfSeq
  <1>2. \A i \in DOMAIN keys : keys[i] \in Nat /\ keys[i] \in Int /\ -1 - keys[i] \in Int
    <2> TAKE i \in DOMAIN keys
    <2>1. keys[i] \in Nat
      BY <1>1, ConstantFacts
    <2> QED BY <2>1
  <1>3. keys \in Seq(Int)
    BY <1>1, <1>2, SeqDef
  <1>4. other \in Seq(Int) /\ Len(other) = Len(keys)
    <2>1. other \in [1 .. Len(keys) -> Int]
      BY <1>1, <1>2
    <2> HIDE DEF other
    <2> QED BY <1>1, <2>1, SeqDef, LenProperties
  <1>5. Returned(keys) = IF setup.keysAlike THEN keys ELSE other
    BY DEF Returned
  <1>6. DOMAIN other = DOMAIN keys /\ \A i \in DOMAIN keys : other[i] = -1 - keys[i]
    OBVIOUS
  <1> HIDE DEF other
  <1> QED BY <1>2, <1>3, <1>4, <1>5, <1>6

\* Keys returned unlike: as many occurrences and duplicates, and none is one of a
\* key of the source.
LEMMA ReturnedUnlike ==
  ASSUME NEW keys \in Seq(Keys), ~setup.keysAlike
  PROVE  /\ Cardinality(Occurrences(Returned(keys))) = Cardinality(Occurrences(keys))
         /\ Duplicates(Returned(keys)) = Duplicates(keys)
         /\ \A ours \in Seq(Keys) : Occurrences(ours) \cap Occurrences(Returned(keys)) = {}
  <1> DEFINE them == Returned(keys)
             Times(s, k) == Cardinality({i \in DOMAIN s : s[i] = k})
             T == Occurrences(them)
             O == Occurrences(keys)
             R == Range(them)
             K == Range(keys)
  <1>1. /\ them \in Seq(Int) /\ DOMAIN them = DOMAIN keys /\ Len(them) = Len(keys)
        /\ \A i \in DOMAIN keys : keys[i] \in Nat /\ them[i] = -1 - keys[i]
    BY ReturnedKeys
  <1>2. /\ K = {keys[i] : i \in DOMAIN keys} /\ R = {them[i] : i \in DOMAIN keys}
        /\ K \subseteq Nat
    <2>1. K = {keys[i] : i \in DOMAIN keys} /\ R = {them[i] : i \in DOMAIN them}
      BY DEF Range
    <2> HIDE DEF them, K, R
    <2> QED BY <1>1, <2>1
  <1>3. /\ T = UNION {{k} \X (1 .. Times(them, k)) : k \in R}
        /\ O = UNION {{k} \X (1 .. Times(keys, k)) : k \in K}
    BY DEF Occurrences
  <1>4. \A k \in Nat : Times(them, -1 - k) = Times(keys, k)
    <2> TAKE k \in Nat
    <2> HIDE DEF them
    <2>1. {i \in DOMAIN them : them[i] = -1 - k} = {i \in DOMAIN keys : keys[i] = k}
      BY <1>1
    <2> QED BY <2>1
  <1> HIDE DEF them, T, O, R, K, Times
  <1>5. R = {-1 - k : k \in K} /\ \A k \in R : -1 - k \in K
    BY <1>1, <1>2
  <1>6. /\ \A o \in O : o = <<o[1], o[2]>> /\ o[1] \in K /\ o[2] \in 1 .. Times(keys, o[1])
        /\ \A k \in K : \A j : j \in 1 .. Times(keys, k) => <<k, j>> \in O
    BY <1>3
  <1>7. /\ \A o \in T : o = <<o[1], o[2]>> /\ o[1] \in R /\ o[2] \in 1 .. Times(them, o[1])
        /\ \A k \in R : \A j : j \in 1 .. Times(them, k) => <<k, j>> \in T
    BY <1>3
  <1>8. Cardinality(T) = Cardinality(O)
    <2> DEFINE f == [o \in O |-> <<-1 - o[1], o[2]>>]
    <2>1. \A o \in O : f[o] \in T
      BY <1>2, <1>4, <1>5, <1>6, <1>7
    <2>2. \A o, p \in O : f[o] = f[p] => o = p
      <3> TAKE o, p \in O
      <3>1. o[1] \in Nat /\ p[1] \in Nat
        BY <1>2, <1>6
      <3>2. f[o] = f[p] => -1 - o[1] = -1 - p[1] /\ o[2] = p[2]
        OBVIOUS
      <3> QED BY <1>6, <3>1, <3>2
    <2>3. ASSUME NEW t \in T
          PROVE  \E o \in O : f[o] = t
      <3>1. PICK k \in K : t[1] = -1 - k
        BY <1>5, <1>7
      <3>2. <<k, t[2]>> \in O
        BY <1>2, <1>4, <1>6, <1>7, <3>1
      <3>3. f[<<k, t[2]>>] = t
        BY <1>7, <3>1, <3>2
      <3> QED BY <3>2, <3>3
    <2>4. f \in Bijection(O, T)
      <3>1. f \in [O -> T]
        BY <2>1
      <3> QED BY <2>2, <2>3, <3>1 DEF Bijection, Injection, Surjection, IsInjective
    <2>5. ExistsBijection(O, T) /\ IsFiniteSet(O)
      <3> HIDE DEF f
      <3> QED BY <2>4, SequencesAreCounted DEF ExistsBijection, O
    <2> QED BY <2>5, FS_Bijection
  <1>9. Cardinality(R) = Cardinality(K)
    <2> DEFINE g == [k \in K |-> -1 - k]
    <2>1. g \in Bijection(K, R)
      <3>1. g \in [K -> R] /\ \A k \in R : \E j \in K : g[j] = k
        BY <1>5
      <3>2. \A j, k \in K : g[j] = g[k] => j = k
        BY <1>2
      <3> QED BY <3>1, <3>2 DEF Bijection, Injection, Surjection, IsInjective
    <2>2. IsFiniteSet(K)
      <3>1. K \in SUBSET Keys
        BY RangeOfSeq DEF K
      <3> QED BY <3>1, ConstantFacts, FS_Subset
    <2>3. ExistsBijection(K, R)
      <3> HIDE DEF g
      <3> QED BY <2>1 DEF ExistsBijection
    <2> QED BY <2>2, <2>3, FS_Bijection
  <1>10. Duplicates(them) = Duplicates(keys)
    BY <1>1, <1>9 DEF Duplicates, R, K
  <1>11. ASSUME NEW ours \in Seq(Keys)
         PROVE  Occurrences(ours) \cap T = {}
    <2>1. ASSUME NEW o \in Occurrences(ours)
          PROVE  o[1] \in Range(ours)
      <3>1. PICK k \in Range(ours) :
              o \in {k} \X (1 .. Cardinality({i \in DOMAIN ours : ours[i] = k}))
        BY DEF Occurrences
      <3> QED BY <3>1
    <2>2. Range(ours) \subseteq Nat
      BY RangeOfSeq, ConstantFacts
    <2>3. \A o \in T : o[1] \notin Nat
      <3> TAKE o \in T
      <3>1. PICK k \in K : o[1] = -1 - k
        BY <1>5, <1>7
      <3>2. k \in Nat
        BY <1>2
      <3> QED BY <3>1, <3>2
    <2> QED BY <2>1, <2>2, <2>3
  <1> QED BY <1>8, <1>10, <1>11 DEF T, O, them

----------------------------------------------------------------------------
(* The aggregates, their reconciliation and the report *)

\* The aggregates of a table are counts.
LEMMA AggregatesAreCounts ==
  ASSUME NEW rows, NEW tells, Rows(rows)
  PROVE  Aggregates(rows, tells) \in Metrics
  <1> DEFINE nulls == {r \in rows : r.value = Null}
             values == {Told(tells, v) : v \in {r.value : r \in rows} \ {Null}}
             keys == {r.key : r \in rows}
  <1>1. IsFiniteSet(rows) /\ Cardinality(rows) \in Nat
    BY FS_CardinalityType DEF Rows
  <1>2. Cardinality(nulls) \in Nat
    <2>1. nulls \in SUBSET rows
      OBVIOUS
    <2> HIDE DEF nulls
    <2> QED BY <1>1, <2>1, FS_Subset, FS_CardinalityType
  <1>3. Cardinality(values) \in Nat
    <2> DEFINE all == {r.value : r \in rows}
               f == [r \in rows |-> r.value]
    <2>1. f \in Surjection(rows, all)
      BY DEF Surjection
    <2>2. IsFiniteSet(all)
      <3> HIDE DEF f, all
      <3> QED BY <1>1, <2>1, FS_Surjection
    <2> HIDE DEF all
    <2> DEFINE held == all \ {Null}
               told == {Told(tells, v) : v \in held}
               g == [v \in held |-> Told(tells, v)]
    <2>3. IsFiniteSet(held)
      BY <2>2, FS_Difference
    <2>4. g \in Surjection(held, told)
      BY DEF Surjection
    <2>5. IsFiniteSet(told)
      <3> HIDE DEF g, held, told
      <3> QED BY <2>3, <2>4, FS_Surjection
    <2>6. Cardinality(told) \in Nat
      <3> HIDE DEF held, told
      <3> QED BY <2>5, FS_CardinalityType
    <2> QED BY <2>6 DEF all
  <1>4. Cardinality(keys) \in Nat
    <2>1. keys \in SUBSET Keys
      BY DEF Rows
    <2> HIDE DEF keys
    <2> QED BY <2>1, ConstantFacts, FS_Subset, FS_CardinalityType
  <1>5. Aggregates(rows, tells) =
          [row_count |-> Cardinality(rows),
           null_count |-> IF rows = {} THEN Unavailable ELSE Cardinality(nulls),
           key_null_count |-> IF rows = {} THEN Unavailable ELSE 0,
           distinct_count |-> Cardinality(values),
           key_distinct_count |-> Cardinality(keys)]
    BY DEF Aggregates
  <1> HIDE DEF nulls, values, keys
  <1> QED BY <1>1, <1>2, <1>3, <1>4, <1>5 DEF Metrics, Count

\* At most five checks are made.
LEMMA ChecksAreFinite ==
  ASSUME NEW checks \in SUBSET Checks
  PROVE  Cardinality(checks) \in Nat
  <1> DEFINE one == {"row_count"}
             two == one \cup {"null_count"}
             three == two \cup {"key_null_count"}
             four == three \cup {"distinct_count"}
             five == four \cup {"key_distinct_count"}
  <1>1. IsFiniteSet(one)
    BY FS_Singleton
  <1> HIDE DEF one
  <1>2. IsFiniteSet(two)
    BY <1>1, FS_AddElement
  <1> HIDE DEF two
  <1>3. IsFiniteSet(three)
    BY <1>2, FS_AddElement
  <1> HIDE DEF three
  <1>4. IsFiniteSet(four)
    BY <1>3, FS_AddElement
  <1> HIDE DEF four
  <1>5. IsFiniteSet(five)
    BY <1>4, FS_AddElement
  <1>6. checks \in SUBSET five
    BY DEF five, four, three, two, one, Checks, NoMetrics
  <1> HIDE DEF five
  <1> QED BY <1>5, <1>6, FS_Subset, FS_CardinalityType

\* Two readings of the same rows differ in the distinct values at most.
LEMMA ChecksAgree ==
  ASSUME NEW rows, NEW tells, NEW others, setup.comparable => tells = others,
         NEW check \in Checks
  PROVE  Aggregates(rows, tells)[check] = Aggregates(rows, others)[check]
  <1>1. CASE tells = others
    BY <1>1
  <1>2. CASE ~setup.comparable
    <2>1. check \in {"row_count", "null_count", "key_null_count", "key_distinct_count"}
      BY <1>2 DEF Checks, NoMetrics
    <2> QED BY <2>1 DEF Aggregates
  <1> QED BY <1>1, <1>2

\* The reconciliation of two lists of aggregates: a status, no comparison of
\* keys yet, and no failure when both say the same to every check.
LEMMA ReconciledReports ==
  ASSUME NEW ours, NEW theirs
  PROVE  /\ Reconciled(ours, theirs) \in Report
         /\ ~Reconciled(ours, theirs).compared
         /\ (\A check \in Checks : ours[check] = theirs[check])
              => Reconciled(ours, theirs).status # "FAILED"
  <1> DEFINE mismatched == Having("MISMATCH", ours, theirs)
             status == CASE mismatched # {} -> "FAILED"
                         [] Having("UNAVAILABLE", ours, theirs) # {} -> "INCOMPLETE"
                         [] OTHER -> "PASSED"
  <1>1. Reconciled(ours, theirs) =
          [NoReport EXCEPT !.mismatched = Cardinality(mismatched), !.status = status]
    BY DEF Reconciled
  <1>2. Cardinality(mismatched) \in Nat
    <2>1. mismatched \in SUBSET Checks
      BY DEF Having
    <2> HIDE DEF mismatched
    <2> QED BY <2>1, ChecksAreFinite
  <1>3. status \in Statuses
    <2> HIDE DEF mismatched
    <2> QED BY DEF Statuses
  <1>4. (\A check \in Checks : ours[check] = theirs[check]) => mismatched = {}
    BY DEF Having, Verdict
  <1>5. mismatched = {} => status # "FAILED"
    <2> HIDE DEF mismatched
    <2> QED OBVIOUS
  <1> HIDE DEF mismatched, status
  <1>6. Reconciled(ours, theirs) =
          [status |-> status, mismatched |-> Cardinality(mismatched), warning |-> "NONE",
           missing |-> 0, extra |-> 0, sourceDuplicates |-> 0,
           targetDuplicates |-> 0, compared |-> FALSE]
    BY <1>1 DEF NoReport
  <1>7. Reconciled(ours, theirs) \in Report
    <2>1. "NONE" \in Warnings
      BY DEF Warnings
    <2> QED BY <1>2, <1>3, <1>6, <2>1 DEF Report
  <1> QED BY <1>4, <1>5, <1>6, <1>7

\* The comparison of two sequences of keys: it is counted, a difference fails,
\* and without one the status stands.
LEMMA ComparedReports ==
  ASSUME NEW ours \in Seq(Keys), NEW theirs \in Seq(Int), report \in Report
  PROVE  LET result == Compared(ours, theirs) IN
         /\ result \in Report /\ result.compared
         /\ result.missing = Cardinality(Occurrences(ours) \ Occurrences(theirs))
         /\ result.extra = Cardinality(Occurrences(theirs) \ Occurrences(ours))
         /\ result.sourceDuplicates = Duplicates(ours)
         /\ result.targetDuplicates = Duplicates(theirs)
         /\ \/ /\ {result.missing, result.extra,
                   result.sourceDuplicates, result.targetDuplicates} = {0}
               /\ result.status = report.status
            \/ /\ {result.missing, result.extra,
                   result.sourceDuplicates, result.targetDuplicates} # {0}
               /\ result.status = "FAILED"
  <1> DEFINE missing == Cardinality(Occurrences(ours) \ Occurrences(theirs))
             extra == Cardinality(Occurrences(theirs) \ Occurrences(ours))
             mine == Duplicates(ours)
             other == Duplicates(theirs)
             counted == [report EXCEPT
                           !.compared = TRUE, !.missing = missing, !.extra = extra,
                           !.sourceDuplicates = mine, !.targetDuplicates = other]
  <1>1. missing \in Nat /\ extra \in Nat /\ mine \in Nat /\ other \in Nat
    <2>1. IsFiniteSet(Occurrences(ours)) /\ IsFiniteSet(Occurrences(theirs))
      BY SequencesAreCounted
    <2>2. /\ IsFiniteSet(Occurrences(ours) \ Occurrences(theirs))
          /\ IsFiniteSet(Occurrences(theirs) \ Occurrences(ours))
      BY <2>1, FS_Difference
    <2> QED BY <2>2, SequencesAreCounted, FS_CardinalityType
  <1>2. Compared(ours, theirs) =
          IF {missing, extra, mine, other} = {0} THEN counted
          ELSE [counted EXCEPT !.status = "FAILED", !.mismatched = @ + 1,
                               !.warning = "STRICT_PRIMARY_KEY_MISMATCH"]
    BY DEF Compared
  <1> HIDE DEF missing, extra, mine, other
  <1>3. CASE {missing, extra, mine, other} = {0}
    BY <1>1, <1>2, <1>3 DEF Report, missing, extra, mine, other
  <1>4. CASE {missing, extra, mine, other} # {0}
    <2> DEFINE result == Compared(ours, theirs)
    <2>1. result = [counted EXCEPT !.status = "FAILED", !.mismatched = @ + 1,
                                   !.warning = "STRICT_PRIMARY_KEY_MISMATCH"]
      BY <1>2, <1>4
    <2>2. result \in Report
      <3>1. counted \in Report
        BY <1>1 DEF Report
      <3>2. counted.mismatched + 1 \in Nat
        BY <3>1 DEF Report
      <3>3. "FAILED" \in Statuses
        BY DEF Statuses
      <3>4. "STRICT_PRIMARY_KEY_MISMATCH" \in Warnings
        BY DEF Warnings
      <3> HIDE DEF counted
      <3> QED BY <2>1, <3>1, <3>2, <3>3, <3>4 DEF Report
    <2>3. /\ result.compared /\ result.status = "FAILED"
          /\ result.missing = missing /\ result.extra = extra
          /\ result.sourceDuplicates = mine /\ result.targetDuplicates = other
      BY <1>1, <2>1 DEF Report
    <2> HIDE DEF result
    <2> QED BY <1>4, <2>2, <2>3 DEF result, missing, extra, mine, other
  <1> QED BY <1>3, <1>4

\* The keys can be compared exactly when the whole key arrives in its place.
LEMMA EligibleIsSameKey ==
  ASSUME setup \in Setups
  PROVE  Ineligible = "NONE" <=> SameKey
  <1> DEFINE ours == setup.sourceKey.columns
             theirs == setup.targetKey.columns
  <1>1. ours \in Seq(STRING) /\ theirs \in Seq(STRING)
    BY ValidationConstants DEF TableKey
  <1>2. DOMAIN ours = 1 .. Len(ours) /\ DOMAIN theirs = 1 .. Len(theirs) /\ Len(ours) \in Nat
    BY <1>1, LenProperties
  <1>3. ours # <<>> /\ Len(ours) = Len(theirs) => theirs # <<>>
    BY <1>1, EmptySeq
  <1>4. \A i : theirs[i] \in CopiedTo(ours[i])
                 <=> \E m \in setup.mappings :
                       m.accepted /\ m.plain /\ m.from = ours[i] /\ m.to = theirs[i]
    BY DEF CopiedTo, Copies
  <1>5. Ineligible = "NONE" <=>
          /\ setup.sourceKey.complete /\ setup.targetKey.complete
          /\ <<>> \notin {ours, theirs}
          /\ ~ \E i \in DOMAIN ours : CopiedTo(ours[i]) = {}
          /\ Len(ours) = Len(theirs)
          /\ ~ \E i \in DOMAIN ours : theirs[i] \notin CopiedTo(ours[i])
    BY DEF Ineligible
  <1> QED BY <1>3, <1>4, <1>5 DEF SameKey

----------------------------------------------------------------------------
(* The inductive invariant *)

\* The two tables are tables, and their second copies are numbered so.
TablesAreRows ==
  /\ Rows(SourceRows) /\ Rows(target) /\ Numbered(target)

\* What was there at the beginning is there while the tables only grow.
NothingTaken ==
  /\ written = 0 => appending
  /\ appending =>
       /\ began.source \subseteq SourceKeys
       /\ began.target \subseteq target
       /\ \A r \in target \ began.target, b \in began.target : r.key # b.key

\* While the tables only grow, the pages read are the first keys of the table.
PagesFollow ==
  /\ pc \in {"begin", "aggregateSource", "aggregateTarget"} =>
       read = [source |-> <<>>, target |-> <<>>]
  /\ pc = "pageSource" => read.target = <<>>
  /\ appending =>
       /\ pc = "pageSource" => Starts(read.source, OrderedKeys(SourceRows))
       /\ pc = "pageTarget" => Starts(read.target, OrderedKeys(target))

\* Once the source has been read: every key that was there at the beginning
\* once, any other key at most once.
SourceReadWhole ==
  /\ pc = "pageTarget" \/ (pc = "returned" /\ report.compared)
  /\ appending
  => \A k \in Keys : Cardinality(OccursIn(read.source, k))
                       \in IF k \in began.source THEN {1} ELSE {0, 1}

\* Over tables nobody writes the keys read are the keys of the source.
SourceReadExactly ==
  /\ pc = "pageTarget" \/ (pc = "returned" /\ report.compared)
  /\ written = 0
  => read.source = OrderedKeys(SourceRows)

TargetReadWhole ==
  At("returned") /\ report.compared /\ appending => read.target = OrderedKeys(target)

\* Pages are read of a strict validation whose keys can be compared, and a
\* validation returns compared exactly then.
ComparedAsAsked ==
  /\ pc \in {"pageSource", "pageTarget"} => setup.strict /\ Ineligible = "NONE"
  /\ At("returned") =>
       /\ report.compared <=> (setup.strict /\ Ineligible = "NONE")
       /\ setup.strict /\ ~report.compared => report.status = "INCOMPLETE"

\* What the comparison counted is what the two sequences of keys differ in.
CountedAsRead ==
  At("returned") /\ report.compared =>
    /\ report.missing
         = Cardinality(Occurrences(read.source) \ Occurrences(Returned(read.target)))
    /\ report.extra
         = Cardinality(Occurrences(Returned(read.target)) \ Occurrences(read.source))
    /\ report.sourceDuplicates = Duplicates(read.source)
    /\ report.targetDuplicates = Duplicates(Returned(read.target))
    /\ report.status = "PASSED" =>
         {report.missing, report.extra, report.sourceDuplicates, report.targetDuplicates} = {0}

\* Over tables nobody writes, the aggregates of the source are those of its
\* rows now, and a faithful copy has not been found to differ.
AggregatesAreCurrent ==
  written = 0 =>
    /\ pc = "aggregateTarget" => metrics.source = Aggregates(SourceRows, setup.sourceTells)
    /\ /\ pc \in {"pageSource", "pageTarget", "returned"}
       /\ SystemsAgree /\ target = Migrated(setup, source)
       => report.status # "FAILED"

IInv ==
  /\ TypeOK /\ TablesAreRows /\ NothingTaken /\ PagesFollow
  /\ SourceReadWhole /\ SourceReadExactly /\ TargetReadWhole
  /\ ComparedAsAsked /\ CountedAsRead /\ AggregatesAreCurrent

----------------------------------------------------------------------------
(* The rows of the source, and the rows written *)

\* One row for each key of a set is a table.
LEMMA OneRowEach ==
  ASSUME NEW K \in SUBSET Keys, NEW f
  PROVE  /\ Rows({[key |-> k, copy |-> 1, value |-> f[k]] : k \in K})
         /\ Numbered({[key |-> k, copy |-> 1, value |-> f[k]] : k \in K})
  <1> DEFINE rows == {[key |-> k, copy |-> 1, value |-> f[k]] : k \in K}
             g == [k \in K |-> [key |-> k, copy |-> 1, value |-> f[k]]]
  <1>1. IsFiniteSet(rows)
    <2>1. IsFiniteSet(K)
      BY ConstantFacts, FS_Subset
    <2>2. g \in Surjection(K, rows)
      BY DEF Surjection
    <2> HIDE DEF g, rows
    <2> QED BY <2>1, <2>2, FS_Surjection
  <1>2. \A r \in rows : /\ r.key \in K /\ r.copy = 1
                       /\ r = [key |-> r.key, copy |-> 1, value |-> f[r.key]]
    OBVIOUS
  <1>3. 1 \in 1 .. 2 /\ 1 # 2
    OBVIOUS
  <1> HIDE DEF rows
  <1>4. Rows(rows)
    BY <1>1, <1>2, <1>3 DEF Rows
  <1>5. Numbered(rows)
    BY <1>2, <1>3 DEF Numbered
  <1> QED BY <1>4, <1>5 DEF rows

\* The rows of the source are a table, with each of its keys once.
LEMMA SourceRowsAreRows ==
  /\ Rows(SourceRows) /\ Numbered(SourceRows)
  /\ \A r \in SourceRows : r.copy = 1
  /\ {r.key : r \in SourceRows} = SourceKeys
  /\ \A k : Cardinality(OccursIn(OrderedKeys(SourceRows), k))
              = IF k \in SourceKeys THEN 1 ELSE 0
  <1> DEFINE f == [k \in SourceKeys |-> Evaluate(setup.source, setup.expression, source[k])]
  <1>1. SourceKeys \in SUBSET Keys
    BY DEF SourceKeys
  <1>2. SourceRows = {[key |-> k, copy |-> 1, value |-> f[k]] : k \in SourceKeys}
    BY DEF SourceRows
  <1> HIDE DEF f
  <1>3. Rows(SourceRows) /\ Numbered(SourceRows)
    BY <1>1, <1>2, OneRowEach
  <1>4. /\ \A r \in SourceRows : r.copy = 1
        /\ {r.key : r \in SourceRows} = SourceKeys
    <2>1. \A r \in SourceRows : r.copy = 1 /\ r.key \in SourceKeys
      BY <1>2
    <2>2. \A k \in SourceKeys : [key |-> k, copy |-> 1, value |-> f[k]] \in SourceRows
      BY <1>2
    <2>3. \A k \in SourceKeys : [key |-> k, copy |-> 1, value |-> f[k]].key = k
      OBVIOUS
    <2> QED BY <2>1, <2>2, <2>3
  <1>5. ASSUME NEW k
        PROVE  Cardinality(OccursIn(OrderedKeys(SourceRows), k))
                 = IF k \in SourceKeys THEN 1 ELSE 0
    <2>1. Cardinality(OccursIn(OrderedKeys(SourceRows), k)) = Cardinality(RowsOf(SourceRows, k))
      BY <1>3, KeysOccurAsRows
    <2>2. CASE k \in SourceKeys
      <3>1. RowsOf(SourceRows, k) = {[key |-> k, copy |-> 1, value |-> f[k]]}
        BY <1>2, <2>2 DEF RowsOf
      <3> QED BY <2>1, <2>2, <3>1, FS_Singleton
    <2>3. CASE k \notin SourceKeys
      <3>1. RowsOf(SourceRows, k) = {}
        BY <1>2, <2>3 DEF RowsOf
      <3> QED BY <2>1, <2>3, <3>1, FS_EmptySet
    <2> QED BY <2>2, <2>3
  <1> QED BY <1>3, <1>4, <1>5

\* What a step leaves of what the validation was asked with.
LEMMA AskedOnce ==
  ASSUME [Next]_vars
  PROVE  /\ setup' = setup /\ began' = began
         /\ Ineligible' = Ineligible
  <1>1. setup' = setup /\ began' = began
    BY DEF Next, vars, tables, Validation, Begin, Refuse, QueryFails, AggregateSource,
           AggregateTarget, ReadSourcePage, ReadTargetPage, SourceWritten, TargetWritten, Writes
  <1> QED BY <1>1 DEF Ineligible, CopiedTo, Copies

\* As long as nobody writes the source, its rows are the same.
LEMMA SameSourceSameRows ==
  ASSUME setup' = setup, source' = source
  PROVE  SourceRows' = SourceRows /\ SourceKeys' = SourceKeys
  BY DEF SourceRows, SourceKeys

\* A write of the source above all of its keys adds a row.
LEMMA SourceGrows ==
  ASSUME TypeOK, SourceWritten, appending'
  PROVE  /\ appending
         /\ \E new : /\ SourceRows' = SourceRows \cup {new}
                     /\ \A r \in SourceRows : r.key < new.key
         /\ SourceKeys \subseteq SourceKeys'
  <1>1. PICK k \in Keys, cells \in {<<c, c>> : c \in Cells} :
          /\ source' = [source EXCEPT ![k] = IF @ = Absent THEN cells ELSE Absent]
          /\ Writes(\A j \in SourceKeys : j < k)
          /\ UNCHANGED target
    BY DEF SourceWritten
  <1>2. /\ appending /\ \A j \in SourceKeys : j < k
        /\ setup' = setup
    BY <1>1 DEF Writes, TypeOK
  <1>3. k \notin SourceKeys
    <2>1. k \in Nat
      BY ConstantFacts
    <2>2. ~(k < k)
      BY <2>1
    <2> QED BY <1>2, <2>2
  <1>4. cells # Absent
    BY ValidationConstants DEF Content
  <1>5. /\ source' = [source EXCEPT ![k] = cells]
        /\ source \in [Keys -> Content \cup {Absent}]
    BY <1>1, <1>3 DEF SourceKeys, TypeOK
  <1>6. SourceKeys' = SourceKeys \cup {k}
    BY <1>4, <1>5 DEF SourceKeys
  <1> DEFINE Made(j, content) ==
        [key |-> j, copy |-> 1, value |-> Evaluate(setup.source, setup.expression, content)]
  <1>7. \A j \in SourceKeys : source'[j] = source[j]
    BY <1>3, <1>5 DEF SourceKeys
  <1>8. source'[k] = cells
    BY <1>5
  <1>9. /\ SourceRows = {Made(j, source[j]) : j \in SourceKeys}
        /\ SourceRows' = {Made(j, source'[j]) : j \in SourceKeys'}
    BY <1>2 DEF SourceRows
  <1>10. SourceRows' = SourceRows \cup {Made(k, cells)}
    BY <1>6, <1>7, <1>8, <1>9
  <1>11. \A r \in SourceRows : r.key < Made(k, cells).key
    BY <1>2, <1>9
  <1> QED BY <1>2, <1>6, <1>10, <1>11

\* A write of the target above all of its keys adds a row.
LEMMA TargetGrows ==
  ASSUME TypeOK, TargetWritten, appending'
  PROVE  /\ appending
         /\ \E new : /\ target' = target \cup {new}
                     /\ \A r \in target : r.key < new.key
  <1>1. PICK k \in Keys, c \in Cells :
          /\ target' = IF k \in TargetKeys THEN {r \in target : r.key # k}
                       ELSE target \cup {[key |-> k, copy |-> 1, value |-> <<c>>]}
          /\ Writes(\A j \in TargetKeys : j < k)
          /\ UNCHANGED source
    BY DEF TargetWritten
  <1>2. appending /\ \A j \in TargetKeys : j < k
    BY <1>1 DEF Writes, TypeOK
  <1>3. k \notin TargetKeys
    <2>1. k \in Nat
      BY ConstantFacts
    <2>2. ~(k < k)
      BY <2>1
    <2> QED BY <1>2, <2>2
  <1> DEFINE new == [key |-> k, copy |-> 1, value |-> <<c>>]
  <1>4. target' = target \cup {new}
    BY <1>1, <1>3
  <1>5. \A r \in target : r.key < new.key
    BY <1>2 DEF TargetKeys
  <1> QED BY <1>2, <1>4, <1>5

----------------------------------------------------------------------------
(* Type correctness and the tables *)

\* The tables stay tables.
LEMMA TablesKept ==
  ASSUME IInv, [Next]_vars
  PROVE  TablesAreRows'
  <1>1. Rows(SourceRows)'
    <2> DEFINE f == [k \in SourceKeys' |-> Evaluate(setup'.source, setup'.expression, source'[k])]
    <2>1. SourceKeys' \in SUBSET Keys
      BY DEF SourceKeys
    <2>2. SourceRows' = {[key |-> k, copy |-> 1, value |-> f[k]] : k \in SourceKeys'}
      BY DEF SourceRows
    <2> HIDE DEF f
    <2> QED BY <2>1, <2>2, OneRowEach
  <1>2. (Rows(target) /\ Numbered(target))'
    <2>1. Rows(target) /\ Numbered(target)
      BY DEF IInv, TablesAreRows
    <2>2. CASE TargetWritten
      <3>1. PICK k \in Keys, c \in Cells :
              target' = IF k \in TargetKeys THEN {r \in target : r.key # k}
                        ELSE target \cup {[key |-> k, copy |-> 1, value |-> <<c>>]}
        BY <2>2 DEF TargetWritten
      <3>2. CASE k \in TargetKeys
        <4>1. target' \in SUBSET target
          BY <3>1, <3>2
        <4>2. IsFiniteSet(target')
          BY <2>1, <4>1, FS_Subset DEF Rows
        <4>3. Rows(target')
          BY <2>1, <4>1, <4>2 DEF Rows
        <4>4. Numbered(target')
          BY <2>1, <3>1, <3>2 DEF Numbered
        <4> QED BY <4>3, <4>4
      <3>3. CASE k \notin TargetKeys
        <4> DEFINE new == [key |-> k, copy |-> 1, value |-> <<c>>]
        <4>1. target' = target \cup {new} /\ \A r \in target : r.key # k
          BY <3>1, <3>3 DEF TargetKeys
        <4>2. IsFiniteSet(target')
          BY <2>1, <4>1, FS_AddElement DEF Rows
        <4>3. new.key = k /\ new.copy = 1 /\ 1 \in 1 .. 2 /\ 1 # 2
          OBVIOUS
        <4> HIDE DEF new
        <4>4. Rows(target')
          BY <2>1, <4>1, <4>2, <4>3 DEF Rows
        <4>5. Numbered(target')
          BY <2>1, <4>1, <4>3 DEF Numbered
        <4> QED BY <4>4, <4>5
      <3> QED BY <3>2, <3>3
    <2>3. CASE ~TargetWritten
      <3>1. target' = target
        BY <2>3 DEF Next, vars, tables, Validation, Begin, Refuse, QueryFails, AggregateSource,
             AggregateTarget, ReadSourcePage, ReadTargetPage, SourceWritten
      <3> QED BY <2>1, <3>1
    <2> QED BY <2>2, <2>3
  <1> QED BY <1>1, <1>2 DEF TablesAreRows

\* The reasons not to compare are warnings.
LEMMA ReasonsAreWarnings ==
  Ineligible \in Warnings
  BY DEF Ineligible, Warnings

LEMMA TypeKept ==
  ASSUME IInv, [Next]_vars
  PROVE  TypeOK'
  <1>1. TypeOK /\ Rows(SourceRows) /\ Rows(target)
    BY DEF IInv, TablesAreRows
  <1>2. CASE UNCHANGED vars
    BY <1>1, <1>2 DEF TypeOK, vars, tables
  <1>3. CASE Begin \/ Refuse \/ QueryFails
    BY <1>1, <1>3 DEF TypeOK, Begin, Refuse, QueryFails, Goto, tables
  <1>4. CASE AggregateSource
    <2>1. Aggregates(SourceRows, setup.sourceTells) \in Metrics
      BY <1>1, AggregatesAreCounts
    <2> QED BY <1>1, <1>4, <2>1 DEF TypeOK, AggregateSource, Goto, tables
  <1>5. CASE AggregateTarget
    <2>1. Aggregates(target, setup.targetTells) \in Metrics
      BY <1>1, AggregatesAreCounts
    <2>2. metrics' \in [source: Metrics, target: Metrics]
      BY <1>1, <1>5, <2>1 DEF TypeOK, AggregateTarget
    <2> DEFINE result == Reconciled(metrics.source, metrics'.target)
    <2>3. result \in Report
      BY ReconciledReports
    <2> HIDE DEF result
    <2>4. [result EXCEPT !.status = "INCOMPLETE", !.warning = Ineligible] \in Report
      <3>1. "INCOMPLETE" \in Statuses
        BY DEF Statuses
      <3> QED BY <2>3, <3>1, ReasonsAreWarnings DEF Report
    <2>5. report' \in Report
      BY <1>5, <2>3, <2>4 DEF AggregateTarget, Return, result
    <2>6. pc' \in {"returned", "raised", "pageSource"}
      BY <1>5 DEF AggregateTarget, Return, Goto
    <2>7. UNCHANGED <<setup, tables, read>>
      BY <1>5 DEF AggregateTarget
    <2> QED BY <1>1, <2>2, <2>5, <2>6, <2>7 DEF TypeOK, tables
  <1>6. CASE ReadSourcePage
    <2> DEFINE page == Page(SourceRows, NextOffset(read.source, setup.sourceCap), setup.sourceCap)
    <2>1. Len(read.source) \in Nat /\ setup.sourceCap \in Nat \ {0} /\ setup \in Setups
      BY <1>1, ValidationConstants, LenProperties DEF TypeOK
    <2>2. page \in Seq(Keys)
      BY <1>1, <2>1, PagesAreKeys DEF NextOffset
    <2>3. read.source \o page \in Seq(Keys)
      BY <1>1, <2>2, ConcatProperties DEF TypeOK
    <2>4. /\ read' = [read EXCEPT !.source = @ \o page]
          /\ pc' \in {"pageTarget", "pageSource"}
          /\ UNCHANGED <<setup, tables, metrics, report>>
      BY <1>6 DEF ReadSourcePage, Goto
    <2> HIDE DEF page
    <2>5. read' \in [source: Seq(Keys), target: Seq(Keys)]
      BY <1>1, <2>3, <2>4 DEF TypeOK
    <2> QED BY <1>1, <2>4, <2>5 DEF TypeOK, tables
  <1>7. CASE ReadTargetPage
    <2> DEFINE page == Page(target, NextOffset(read.target, setup.targetCap), setup.targetCap)
    <2>1. Len(read.target) \in Nat /\ setup.targetCap \in Nat \ {0} /\ setup \in Setups
      BY <1>1, ValidationConstants, LenProperties DEF TypeOK
    <2>2. page \in Seq(Keys)
      BY <1>1, <2>1, PagesAreKeys DEF NextOffset
    <2>3. read.target \o page \in Seq(Keys)
      BY <1>1, <2>2, ConcatProperties DEF TypeOK
    <2>4. /\ \/ read' = [read EXCEPT !.target = @ \o page] /\ UNCHANGED <<pc, report>>
             \/ /\ report' = Compared(read.source, Returned(read.target))
                /\ pc' = "returned" /\ read' = read
          /\ UNCHANGED <<setup, tables, metrics>>
      BY <1>7 DEF ReadTargetPage, Return, Goto
    <2>5. Compared(read.source, Returned(read.target)) \in Report
      BY <1>1, ComparedReports, ReturnedKeys DEF TypeOK
    <2> HIDE DEF page
    <2>6. read' \in [source: Seq(Keys), target: Seq(Keys)]
      BY <1>1, <2>3, <2>4 DEF TypeOK
    <2>7. report' \in Report /\ pc' \in {pc, "returned"}
      BY <1>1, <2>4, <2>5 DEF TypeOK
    <2> QED BY <1>1, <2>4, <2>6, <2>7 DEF TypeOK, tables
  <1>8. ASSUME NEW above, Writes(above)
        PROVE  /\ written' \in 0 .. MaxWrites /\ appending' \in BOOLEAN
               /\ UNCHANGED <<setup, began, pc, metrics, read, report>>
    BY <1>1, <1>8, ConstantFacts DEF TypeOK, Writes
  <1>9. CASE SourceWritten
    <2>1. PICK k \in Keys, cells \in {<<c, c>> : c \in Cells} :
            /\ source' = [source EXCEPT ![k] = IF @ = Absent THEN cells ELSE Absent]
            /\ Writes(\A j \in SourceKeys : j < k)
            /\ UNCHANGED target
      BY <1>9 DEF SourceWritten
    <2>2. cells \in Content
      BY DEF Content
    <2>3. source' \in [Keys -> Content \cup {Absent}]
      BY <1>1, <2>1, <2>2 DEF TypeOK
    <2> QED BY <1>1, <1>8, <2>1, <2>3 DEF TypeOK
  <1>10. CASE TargetWritten
    <2>1. PICK k \in Keys : Writes(\A j \in TargetKeys : j < k) /\ source' = source
      BY <1>10 DEF TargetWritten
    <2>2. \A r \in target' : r.key \in Keys /\ r.copy \in 1 .. 2
      BY TablesKept DEF TablesAreRows, Rows
    <2> QED BY <1>1, <1>8, <2>1, <2>2 DEF TypeOK
  <1> QED BY <1>2, <1>3, <1>4, <1>5, <1>6, <1>7, <1>9, <1>10 DEF Next, Validation

----------------------------------------------------------------------------
(* The pages, while the applications write *)

\* A write is counted, and moves nothing of the validation.
LEMMA WritesAreCounted ==
  ASSUME IInv, SourceWritten \/ TargetWritten
  PROVE  /\ written' # 0 /\ (appending' => appending)
         /\ UNCHANGED <<setup, began, pc, metrics, read, report>>
         /\ Running
  <1>1. ASSUME NEW above, Writes(above)
        PROVE  /\ written' # 0 /\ (appending' => appending)
               /\ UNCHANGED <<setup, began, pc, metrics, read, report>>
               /\ Running
    BY <1>1, ConstantFacts DEF Writes, IInv, TypeOK
  <1>2. CASE SourceWritten
    BY <1>1, <1>2 DEF SourceWritten
  <1>3. CASE TargetWritten
    BY <1>1, <1>3 DEF TargetWritten
  <1> QED BY <1>2, <1>3

\* Every other step leaves the tables alone.
LEMMA TablesStand ==
  ASSUME [Next]_vars, ~SourceWritten, ~TargetWritten
  PROVE  /\ UNCHANGED tables
         /\ SourceRows' = SourceRows /\ SourceKeys' = SourceKeys
  <1>1. UNCHANGED tables
    BY DEF Next, vars, Validation, Begin, Refuse, QueryFails, AggregateSource,
           AggregateTarget, ReadSourcePage, ReadTargetPage
  <1>2. setup' = setup /\ source' = source
    BY <1>1, AskedOnce DEF tables
  <1> QED BY <1>1, <1>2, SameSourceSameRows

LEMMA NothingTakenKept ==
  ASSUME IInv, [Next]_vars
  PROVE  NothingTaken'
  <1>1. TypeOK /\ NothingTaken
    BY DEF IInv
  <1>2. CASE SourceWritten
    <2>1. /\ written' # 0 /\ (appending' => appending)
          /\ began' = began /\ target' = target
      BY <1>2, WritesAreCounted DEF SourceWritten
    <2>2. appending' => SourceKeys \subseteq SourceKeys'
      BY <1>1, <1>2, SourceGrows
    <2> QED BY <1>1, <2>1, <2>2 DEF NothingTaken
  <1>3. CASE TargetWritten
    <2>1. /\ written' # 0 /\ (appending' => appending)
          /\ began' = began /\ source' = source /\ setup' = setup
      BY <1>3, WritesAreCounted DEF TargetWritten
    <2>2. SourceKeys' = SourceKeys
      BY <2>1 DEF SourceKeys
    <2>3. ASSUME appending'
          PROVE  /\ began.target \subseteq target'
                 /\ \A r \in target' \ began.target, b \in began.target : r.key # b.key
      <3>1. PICK new : target' = target \cup {new} /\ \A r \in target : r.key < new.key
        BY <1>1, <1>3, <2>3, TargetGrows
      <3>2. /\ began.target \subseteq target
            /\ \A r \in target \ began.target, b \in began.target : r.key # b.key
        BY <1>1, <2>1, <2>3 DEF NothingTaken
      <3>3. \A b \in began.target : b.key \in Nat /\ b.key < new.key
        BY <1>1, <3>1, <3>2, ConstantFacts DEF TypeOK
      <3>4. \A b \in began.target : new.key # b.key
        BY <3>3
      <3> QED BY <3>1, <3>2, <3>4
    <2> QED BY <1>1, <2>1, <2>2, <2>3 DEF NothingTaken
  <1>4. CASE ~SourceWritten /\ ~TargetWritten
    BY <1>1, <1>4, TablesStand DEF NothingTaken, tables
  <1> QED BY <1>2, <1>3, <1>4

\* What a page of the source read while the table only grows leaves.
LEMMA SourcePageFollows ==
  ASSUME IInv, ReadSourcePage
  PROVE  /\ read'.target = <<>>
         /\ pc' \in {"pageSource", "pageTarget"}
         /\ appending => Starts(read'.source, OrderedKeys(SourceRows))
         /\ appending /\ pc' = "pageTarget" => read'.source = OrderedKeys(SourceRows)
  <1> DEFINE page == Page(SourceRows, Len(read.source), setup.sourceCap)
  <1>1. TypeOK /\ Rows(SourceRows)
    BY DEF IInv, TablesAreRows
  <1>2. setup.sourceCap \in Nat \ {0} /\ setup \in Setups /\ read.source \in Seq(Keys)
    BY <1>1, ValidationConstants DEF TypeOK
  <1>3. /\ pc = "pageSource"
        /\ read' = [read EXCEPT !.source = @ \o page]
        /\ pc' = IF page = <<>> THEN "pageTarget" ELSE "pageSource"
    BY DEF ReadSourcePage, NextOffset, At, Goto
  <1>4. read.target = <<>> /\ (appending => Starts(read.source, OrderedKeys(SourceRows)))
    BY <1>3 DEF IInv, PagesFollow
  <1>5. appending =>
          /\ Starts(read.source \o page, OrderedKeys(SourceRows))
          /\ page = <<>> => read.source = OrderedKeys(SourceRows)
    BY <1>1, <1>2, <1>4, NextPageFollows
  <1>6. page = <<>> => read.source \o page = read.source
    BY <1>2, ConcatEmptySeq
  <1> HIDE DEF page
  <1>7. read'.source = read.source \o page /\ read'.target = read.target
    BY <1>1, <1>3 DEF TypeOK
  <1> QED BY <1>3, <1>4, <1>5, <1>6, <1>7

\* The same of the target.
LEMMA TargetPageFollows ==
  ASSUME IInv, ReadTargetPage
  PROVE  /\ read'.source = read.source
         /\ pc' \in {"pageTarget", "returned"}
         /\ appending => Starts(read'.target, OrderedKeys(target))
         /\ appending /\ pc' = "returned" => read'.target = OrderedKeys(target)
         /\ pc' = "returned" =>
              read' = read /\ report' = Compared(read.source, Returned(read.target))
         /\ pc' = "pageTarget" => report' = report
  <1> DEFINE page == Page(target, Len(read.target), setup.targetCap)
  <1>1. TypeOK /\ Rows(target)
    BY DEF IInv, TablesAreRows
  <1>2. setup.targetCap \in Nat \ {0} /\ setup \in Setups /\ read.target \in Seq(Keys)
    BY <1>1, ValidationConstants DEF TypeOK
  <1>3. /\ pc = "pageTarget"
        /\ \/ /\ page # <<>>
              /\ read' = [read EXCEPT !.target = @ \o page]
              /\ pc' = pc /\ report' = report
           \/ /\ page = <<>>
              /\ report' = Compared(read.source, Returned(read.target))
              /\ pc' = "returned" /\ read' = read
    BY DEF ReadTargetPage, NextOffset, At, Goto, Return
  <1>4. appending => Starts(read.target, OrderedKeys(target))
    BY <1>3 DEF IInv, PagesFollow
  <1>5. appending =>
          /\ Starts(read.target \o page, OrderedKeys(target))
          /\ page = <<>> => read.target = OrderedKeys(target)
    BY <1>1, <1>2, <1>4, NextPageFollows
  <1> HIDE DEF page
  <1>6. CASE page # <<>>
    <2>1. read'.target = read.target \o page /\ read'.source = read.source
      BY <1>1, <1>3, <1>6 DEF TypeOK
    <2> QED BY <1>3, <1>5, <1>6, <2>1
  <1>7. CASE page = <<>>
    BY <1>3, <1>4, <1>5, <1>7
  <1> QED BY <1>6, <1>7

LEMMA PagesFollowKept ==
  ASSUME IInv, [Next]_vars
  PROVE  PagesFollow'
  <1>1. TypeOK /\ PagesFollow /\ TablesAreRows /\ TablesAreRows'
    BY TablesKept DEF IInv
  <1>2. CASE SourceWritten
    <2>1. UNCHANGED <<pc, read, target>> /\ (appending' => appending)
      BY <1>2, WritesAreCounted DEF SourceWritten
    <2>2. ASSUME appending', pc = "pageSource"
          PROVE  Starts(read.source, OrderedKeys(SourceRows'))
      <3>1. PICK new : SourceRows' = SourceRows \cup {new} /\ \A r \in SourceRows : r.key < new.key
        BY <1>1, <1>2, <2>2, SourceGrows
      <3>2. Rows(SourceRows) /\ Rows(SourceRows \cup {new})
        BY <1>1, <3>1 DEF TablesAreRows
      <3>3. Starts(OrderedKeys(SourceRows), OrderedKeys(SourceRows'))
        BY <3>1, <3>2, AppendedComesLast
      <3>4. Starts(read.source, OrderedKeys(SourceRows))
        BY <1>1, <2>1, <2>2 DEF PagesFollow
      <3>5. OrderedKeys(SourceRows) \in Seq(Keys) /\ OrderedKeys(SourceRows') \in Seq(Keys)
        BY <3>1, <3>2, OrderedKeysOfRows
      <3> QED BY <1>1, <3>3, <3>4, <3>5, StartsTransitive DEF TypeOK
    <2> QED BY <1>1, <2>1, <2>2 DEF PagesFollow
  <1>3. CASE TargetWritten
    <2>1. UNCHANGED <<pc, read, source, setup>> /\ (appending' => appending)
      BY <1>3, WritesAreCounted DEF TargetWritten
    <2>2. SourceRows' = SourceRows
      BY <2>1, SameSourceSameRows
    <2>3. ASSUME appending', pc = "pageTarget"
          PROVE  Starts(read.target, OrderedKeys(target'))
      <3>1. PICK new : target' = target \cup {new} /\ \A r \in target : r.key < new.key
        BY <1>1, <1>3, <2>3, TargetGrows
      <3>2. Rows(target) /\ Rows(target \cup {new})
        BY <1>1, <3>1 DEF TablesAreRows
      <3>3. Starts(OrderedKeys(target), OrderedKeys(target'))
        BY <3>1, <3>2, AppendedComesLast
      <3>4. Starts(read.target, OrderedKeys(target))
        BY <1>1, <2>1, <2>3 DEF PagesFollow
      <3>5. OrderedKeys(target) \in Seq(Keys) /\ OrderedKeys(target') \in Seq(Keys)
        BY <3>1, <3>2, OrderedKeysOfRows
      <3> QED BY <1>1, <3>3, <3>4, <3>5, StartsTransitive DEF TypeOK
    <2> QED BY <1>1, <2>1, <2>2, <2>3 DEF PagesFollow
  <1>4. CASE ReadSourcePage
    <2>1. UNCHANGED tables /\ SourceRows' = SourceRows
      <3>1. UNCHANGED <<setup, tables>>
        BY <1>4 DEF ReadSourcePage
      <3> QED BY <3>1, SameSourceSameRows DEF tables
    <2>2. OrderedKeys(target) \in Seq(Keys)
      BY <1>1, OrderedKeysOfRows DEF TablesAreRows
    <2>3. Starts(<<>>, OrderedKeys(target))
      BY <2>2, StartsAtBothEnds, EmptySeq
    <2> QED BY <1>4, <2>1, <2>3, SourcePageFollows DEF PagesFollow, tables
  <1>5. CASE ReadTargetPage
    <2>1. UNCHANGED tables
      BY <1>5 DEF ReadTargetPage
    <2> QED BY <1>5, <2>1, TargetPageFollows DEF PagesFollow, tables
  <1>6. CASE ~SourceWritten /\ ~TargetWritten /\ ~ReadSourcePage /\ ~ReadTargetPage
    <2>1. UNCHANGED tables /\ SourceRows' = SourceRows
      BY <1>6, TablesStand
    <2>2. OrderedKeys(SourceRows) \in Seq(Keys)
      BY <1>1, OrderedKeysOfRows DEF TablesAreRows
    <2>3. Starts(<<>>, OrderedKeys(SourceRows))
      BY <2>2, StartsAtBothEnds, EmptySeq
    <2>4. read' = read
      BY <1>6 DEF Next, vars, Validation, Begin, Refuse, QueryFails, AggregateSource,
                  AggregateTarget
    <2>5. \/ pc' = pc
          \/ pc \in {"begin", "aggregateSource", "aggregateTarget"}
          \/ pc' = "raised"
      BY <1>6 DEF Next, vars, Validation, Begin, Refuse, QueryFails, AggregateSource,
                  AggregateTarget, At, Goto
    <2>6. pc' = "pageTarget" => pc = "pageTarget"
      BY <1>6 DEF Next, vars, Validation, Begin, Refuse, QueryFails, AggregateSource,
                  AggregateTarget, At, Goto, Return
    <2> QED BY <1>1, <2>1, <2>3, <2>4, <2>5, <2>6 DEF PagesFollow, tables
  <1> QED BY <1>2, <1>3, <1>4, <1>5, <1>6

----------------------------------------------------------------------------
(* What is returned *)

\* Nothing happens to a validation that has returned.
LEMMA ReturnedStays ==
  ASSUME [Next]_vars, pc = "returned"
  PROVE  UNCHANGED vars
  BY DEF Next, Validation, Begin, Refuse, QueryFails, AggregateSource, AggregateTarget,
         ReadSourcePage, ReadTargetPage, SourceWritten, TargetWritten, Writes, At, Running

\* A validation returns with its aggregates or with its last page.
LEMMA ReturnsOnce ==
  ASSUME [Next]_vars, pc' = "returned", pc # "returned"
  PROVE  AggregateTarget \/ ReadTargetPage
  BY DEF Next, vars, Validation, Begin, Refuse, QueryFails, AggregateSource,
         ReadSourcePage, SourceWritten, TargetWritten, Writes, Goto

\* Pages are read after the aggregates.
LEMMA ComparesAfterAggregates ==
  ASSUME [Next]_vars, pc' \in {"pageSource", "pageTarget"}, pc # pc'
  PROVE  \/ AggregateTarget /\ pc' = "pageSource"
         \/ ReadSourcePage /\ pc' = "pageTarget"
  BY DEF Next, vars, Validation, Begin, Refuse, QueryFails, AggregateSource, AggregateTarget,
         ReadSourcePage, ReadTargetPage, SourceWritten, TargetWritten, Writes, At, Goto, Return

\* Where the systems agree, the rows of the source are what the migration makes
\* of them.
LEMMA AlikeRowsAreMigrated ==
  ASSUME SystemsAgree
  PROVE  SourceRows = Migrated(setup, source)
  <1>1. \A cells : Evaluate(setup.source, setup.expression, cells)
                     = Evaluate(setup.target, setup.expression, cells)
    BY DEF SystemsAgree, EvaluateAlike, Evaluate
  <1>2. SourceRows = {[key |-> k, copy |-> 1,
                       value |-> Evaluate(setup.target, setup.expression, source[k])] :
                        k \in {k \in Keys : source[k] # Absent}}
    BY <1>1 DEF SourceRows, SourceKeys
  <1> QED BY <1>2 DEF Migrated, MigratedRow

\* What the aggregates of the target decide.
LEMMA AggregateTargetDecides ==
  ASSUME IInv, AggregateTarget
  PROVE  /\ pc = "aggregateTarget" /\ pc' \in {"returned", "raised", "pageSource"}
         /\ ~report'.compared
         /\ pc' = "returned" =>
              /\ ~(setup.strict /\ Ineligible = "NONE")
              /\ setup.strict => report'.status = "INCOMPLETE"
         /\ pc' = "pageSource" => setup.strict /\ Ineligible = "NONE"
         /\ written = 0 /\ SystemsAgree /\ target = Migrated(setup, source)
              => report'.status # "FAILED"
  <1> DEFINE result == Reconciled(metrics.source, metrics'.target)
  <1>1. TypeOK /\ AggregatesAreCurrent
    BY DEF IInv
  <1>2. /\ pc = "aggregateTarget"
        /\ metrics' = [metrics EXCEPT !.target = Aggregates(target, setup.targetTells)]
        /\ \/ ~setup.strict /\ report' = result /\ pc' = "returned"
           \/ /\ setup.strict /\ Ineligible # "NONE" /\ pc' = "returned"
              /\ report' = [result EXCEPT !.status = "INCOMPLETE", !.warning = Ineligible]
           \/ /\ setup.strict /\ Ineligible = "NONE"
              /\ pc' \in {"raised", "pageSource"} /\ report' = result
    BY DEF AggregateTarget, At, Return, Goto
  <1>3. /\ result \in Report /\ ~result.compared
        /\ (\A check \in Checks : metrics.source[check] = metrics'.target[check])
             => result.status # "FAILED"
    BY ReconciledReports
  <1>4. written = 0 /\ SystemsAgree /\ target = Migrated(setup, source)
          => \A check \in Checks : metrics.source[check] = metrics'.target[check]
    <2>1. metrics'.target = Aggregates(target, setup.targetTells)
      BY <1>1, <1>2 DEF TypeOK
    <2>2. SUFFICES ASSUME written = 0, SystemsAgree, target = Migrated(setup, source)
                   PROVE  \A check \in Checks : metrics.source[check] = metrics'.target[check]
      OBVIOUS
    <2>3. metrics.source = Aggregates(target, setup.sourceTells)
      BY <1>1, <1>2, <2>2, AlikeRowsAreMigrated DEF AggregatesAreCurrent
    <2> QED BY <2>1, <2>2, <2>3, ChecksAgree DEF SystemsAgree
  <1> HIDE DEF result
  <1>5. CASE ~setup.strict /\ report' = result /\ pc' = "returned"
    BY <1>2, <1>3, <1>4, <1>5
  <1>6. CASE /\ setup.strict /\ Ineligible # "NONE" /\ pc' = "returned"
             /\ report' = [result EXCEPT !.status = "INCOMPLETE", !.warning = Ineligible]
    <2>1. ~report'.compared /\ report'.status = "INCOMPLETE"
      BY <1>3, <1>6 DEF Report
    <2> QED BY <1>2, <1>6, <2>1
  <1>7. CASE /\ setup.strict /\ Ineligible = "NONE"
             /\ pc' \in {"raised", "pageSource"} /\ report' = result
    BY <1>2, <1>3, <1>4, <1>7
  <1> QED BY <1>2, <1>5, <1>6, <1>7

LEMMA SourceReadWholeKept ==
  ASSUME IInv, [Next]_vars
  PROVE  SourceReadWhole'
  <1>1. SourceReadWhole /\ TypeOK /\ NothingTaken
    BY DEF IInv
  <1>2. SUFFICES ASSUME appending', pc' = "pageTarget" \/ (pc' = "returned" /\ report'.compared)
                 PROVE  \A k \in Keys : Cardinality(OccursIn(read'.source, k))
                                          \in IF k \in began'.source THEN {1} ELSE {0, 1}
    BY DEF SourceReadWhole
  <1>3. began' = began
    BY AskedOnce
  <1>4. CASE SourceWritten \/ TargetWritten
    BY <1>1, <1>2, <1>4, WritesAreCounted DEF SourceReadWhole
  <1>5. CASE ~SourceWritten /\ ~TargetWritten
    <2>1. appending
      BY <1>2, <1>5, TablesStand DEF tables
    <2>2. CASE ReadSourcePage
      <3>1. pc' = "pageTarget"
        BY <1>2, <2>2, SourcePageFollows
      <3>2. read'.source = OrderedKeys(SourceRows)
        BY <2>1, <2>2, <3>1, SourcePageFollows
      <3>3. began.source \subseteq SourceKeys
        BY <1>1, <2>1 DEF NothingTaken
      <3> QED BY <1>3, <3>2, <3>3, SourceRowsAreRows
    <2>3. CASE ReadTargetPage
      <3>1. pc = "pageTarget" /\ read'.source = read.source
        BY <2>3, TargetPageFollows DEF ReadTargetPage, At
      <3> QED BY <1>1, <1>3, <2>1, <3>1 DEF SourceReadWhole
    <2>4. CASE AggregateTarget
      BY <1>2, <2>4, AggregateTargetDecides
    <2>5. CASE ~ReadSourcePage /\ ~ReadTargetPage /\ ~AggregateTarget
      <3>1. pc' = pc
        BY <1>2, <2>5, ReturnsOnce, ComparesAfterAggregates
      <3>2. read' = read /\ report' = report
        BY <1>5, <2>5 DEF Next, vars, Validation, Begin, Refuse, QueryFails, AggregateSource
      <3> QED BY <1>1, <1>2, <1>3, <2>1, <3>1, <3>2 DEF SourceReadWhole
    <2> QED BY <2>2, <2>3, <2>4, <2>5
  <1> QED BY <1>4, <1>5

LEMMA SourceReadExactlyKept ==
  ASSUME IInv, [Next]_vars
  PROVE  SourceReadExactly'
  <1>1. SourceReadExactly /\ TypeOK /\ NothingTaken
    BY DEF IInv
  <1>2. SUFFICES ASSUME written' = 0, pc' = "pageTarget" \/ (pc' = "returned" /\ report'.compared)
                 PROVE  read'.source = OrderedKeys(SourceRows')
    BY DEF SourceReadExactly
  <1>3. ~SourceWritten /\ ~TargetWritten
    BY <1>2, WritesAreCounted
  <1>4. SourceRows' = SourceRows /\ written = 0 /\ appending
    BY <1>1, <1>2, <1>3, TablesStand DEF tables, NothingTaken
  <1>5. CASE ReadSourcePage
    <2>1. pc' = "pageTarget"
      BY <1>2, <1>5, SourcePageFollows
    <2> QED BY <1>4, <1>5, <2>1, SourcePageFollows
  <1>6. CASE ReadTargetPage
    <2>1. pc = "pageTarget" /\ read'.source = read.source
      BY <1>6, TargetPageFollows DEF ReadTargetPage, At
    <2> QED BY <1>1, <1>4, <2>1 DEF SourceReadExactly
  <1>7. CASE AggregateTarget
    BY <1>2, <1>7, AggregateTargetDecides
  <1>8. CASE ~ReadSourcePage /\ ~ReadTargetPage /\ ~AggregateTarget
    <2>1. pc' = pc
      BY <1>2, <1>8, ReturnsOnce, ComparesAfterAggregates
    <2>2. read' = read /\ report' = report
      BY <1>3, <1>8 DEF Next, vars, Validation, Begin, Refuse, QueryFails, AggregateSource
    <2> QED BY <1>1, <1>2, <1>4, <2>1, <2>2 DEF SourceReadExactly
  <1> QED BY <1>5, <1>6, <1>7, <1>8

LEMMA TargetReadWholeKept ==
  ASSUME IInv, [Next]_vars
  PROVE  TargetReadWhole'
  <1>1. TargetReadWhole
    BY DEF IInv
  <1>2. SUFFICES ASSUME appending', pc' = "returned", report'.compared
                 PROVE  read'.target = OrderedKeys(target')
    BY DEF TargetReadWhole, At
  <1>3. CASE pc = "returned"
    BY <1>1, <1>2, <1>3, ReturnedStays DEF TargetReadWhole, At, vars, tables
  <1>4. CASE pc # "returned"
    <2>1. ReadTargetPage
      BY <1>2, <1>4, ReturnsOnce, AggregateTargetDecides
    <2>2. UNCHANGED tables
      BY <2>1 DEF ReadTargetPage
    <2> QED BY <1>2, <2>1, <2>2, TargetPageFollows DEF tables
  <1> QED BY <1>3, <1>4

LEMMA ComparedAsAskedKept ==
  ASSUME IInv, [Next]_vars
  PROVE  ComparedAsAsked'
  <1>1. ComparedAsAsked /\ TypeOK
    BY DEF IInv
  <1>2. setup' = setup /\ Ineligible' = Ineligible
    BY AskedOnce
  <1>3. CASE pc' = pc
    <2>1. pc = "returned" => report' = report
      BY ReturnedStays DEF vars
    <2> QED BY <1>1, <1>2, <1>3, <2>1 DEF ComparedAsAsked, At
  <1>4. CASE AggregateTarget
    BY <1>2, <1>4, AggregateTargetDecides DEF ComparedAsAsked, At
  <1>5. CASE ReadSourcePage
    <2>1. pc = "pageSource" /\ pc' \in {"pageSource", "pageTarget"}
      BY <1>5, SourcePageFollows DEF ReadSourcePage, At
    <2> QED BY <1>1, <1>2, <2>1 DEF ComparedAsAsked, At
  <1>6. CASE ReadTargetPage /\ pc' # pc
    <2>1. pc = "pageTarget" /\ pc' = "returned"
      BY <1>6, TargetPageFollows DEF ReadTargetPage, At
    <2>2. report' = Compared(read.source, Returned(read.target))
      BY <1>6, <2>1, TargetPageFollows
    <2>3. report'.compared
      BY <1>1, <2>2, ComparedReports, ReturnedKeys DEF TypeOK
    <2> QED BY <1>1, <1>2, <2>1, <2>3 DEF ComparedAsAsked, At
  <1>7. CASE ~AggregateTarget /\ ~ReadSourcePage /\ ~ReadTargetPage /\ pc' # pc
    <2>1. pc' \notin {"pageSource", "pageTarget", "returned"}
      BY <1>7, ReturnsOnce, ComparesAfterAggregates
    <2> QED BY <2>1 DEF ComparedAsAsked, At
  <1> QED BY <1>3, <1>4, <1>5, <1>6, <1>7

LEMMA CountedAsReadKept ==
  ASSUME IInv, [Next]_vars
  PROVE  CountedAsRead'
  <1>1. CountedAsRead /\ TypeOK
    BY DEF IInv
  <1>2. CASE pc' = "returned" /\ pc # "returned" /\ report'.compared
    <2>1. ReadTargetPage
      BY <1>2, ReturnsOnce, AggregateTargetDecides
    <2>2. report' = Compared(read.source, Returned(read.target)) /\ read' = read
      BY <1>2, <2>1, TargetPageFollows
    <2>3. /\ read.source \in Seq(Keys) /\ Returned(read.target) \in Seq(Int)
          /\ report \in Report
      BY <1>1, ReturnedKeys DEF TypeOK
    <2>4. /\ report'.missing
               = Cardinality(Occurrences(read.source) \ Occurrences(Returned(read.target)))
          /\ report'.extra
               = Cardinality(Occurrences(Returned(read.target)) \ Occurrences(read.source))
          /\ report'.sourceDuplicates = Duplicates(read.source)
          /\ report'.targetDuplicates = Duplicates(Returned(read.target))
          /\ report'.status = "PASSED" =>
               {report'.missing, report'.extra,
                report'.sourceDuplicates, report'.targetDuplicates} = {0}
      BY <2>2, <2>3, ComparedReports
    <2>5. Returned(read.target)' = Returned(read.target)
      BY <2>2, AskedOnce DEF Returned
    <2> QED BY <2>2, <2>4, <2>5 DEF CountedAsRead
  <1>3. CASE pc = "returned"
    <2>1. UNCHANGED <<pc, read, report>>
      BY <1>3, ReturnedStays DEF vars
    <2>2. Returned(read.target)' = Returned(read.target)
      BY <2>1, AskedOnce DEF Returned
    <2> QED BY <1>1, <2>1, <2>2 DEF CountedAsRead, At
  <1>4. CASE pc' # "returned" \/ ~report'.compared
    BY <1>4 DEF CountedAsRead, At
  <1> QED BY <1>2, <1>3, <1>4

\* A copy the migration wrote, read whole: nothing is missing, nothing is extra.
LEMMA FaithfulKeysAgree ==
  ASSUME NEW rows, Rows(rows), Numbered(rows), \A r \in rows : r.copy = 1,
         NEW keys, keys = OrderedKeys(rows), report \in Report
  PROVE  Compared(keys, keys).status = report.status
  <1>1. keys \in Seq(Keys) /\ Len(keys) = Cardinality(rows)
    BY OrderedKeysOfRows
  <1>2. Cardinality(Occurrences(keys) \ Occurrences(keys)) = 0
    <2>1. Occurrences(keys) \ Occurrences(keys) = {}
      OBVIOUS
    <2> QED BY <2>1, FS_EmptySet
  <1>3. Duplicates(keys) = 0
    <2>1. Range(keys) = {r.key : r \in rows}
      BY RangeOfOrderedKeys
    <2>2. Cardinality(rows) = Cardinality({r.key : r \in rows})
      BY DifferencesAreCounted
    <2>3. Cardinality(rows) \in Nat
      BY PlacesAreOrdered
    <2> QED BY <1>1, <2>1, <2>2, <2>3 DEF Duplicates
  <1>4. {0, 0, 0, 0} = {0}
    OBVIOUS
  <1>5. keys \in Seq(Int)
    <2>1. /\ Len(keys) \in Nat /\ DOMAIN keys = 1 .. Len(keys)
          /\ \A i \in DOMAIN keys : keys[i] \in Keys
      BY <1>1, LenProperties, ElementOfSeq
    <2>2. ASSUME NEW i \in 1 .. Len(keys)
          PROVE  keys[i] \in Int
      <3>1. keys[i] \in Nat
        BY <2>1, ConstantFacts
      <3> QED BY <3>1
    <2>3. keys = [i \in 1 .. Len(keys) |-> keys[i]]
      BY <1>1, LenProperties
    <2>4. keys \in [1 .. Len(keys) -> Int]
      BY <2>2, <2>3
    <2> QED BY <2>1, <2>4, SeqDef
  <1> QED BY <1>1, <1>2, <1>3, <1>4, <1>5, ComparedReports

LEMMA AggregatesAreCurrentKept ==
  ASSUME IInv, [Next]_vars
  PROVE  AggregatesAreCurrent'
  <1>1. AggregatesAreCurrent /\ TypeOK /\ TablesAreRows /\ NothingTaken
    BY DEF IInv
  <1>2. SUFFICES ASSUME written' = 0
                 PROVE  /\ pc' = "aggregateTarget" => metrics'.source = Aggregates(SourceRows', setup'.sourceTells)
                        /\ /\ pc' \in {"pageSource", "pageTarget", "returned"}
                           /\ SystemsAgree' /\ target' = Migrated(setup', source')
                           => report'.status # "FAILED"
    BY DEF AggregatesAreCurrent
  <1>3. ~SourceWritten /\ ~TargetWritten
    BY <1>2, WritesAreCounted
  <1>4. SourceRows' = SourceRows /\ UNCHANGED tables /\ setup' = setup
    BY <1>3, TablesStand, AskedOnce
  <1>5. written = 0 /\ appending /\ (SystemsAgree' <=> SystemsAgree)
    BY <1>1, <1>2, <1>4 DEF tables, NothingTaken, SystemsAgree, EvaluateAlike
  <1>6. pc' = "aggregateTarget" => metrics'.source = Aggregates(SourceRows', setup'.sourceTells)
    <2>1. CASE AggregateSource
      BY <1>1, <1>4, <2>1 DEF AggregateSource, TypeOK
    <2>2. CASE ~AggregateSource
      <3>1. pc' = "aggregateTarget" => pc = "aggregateTarget" /\ metrics' = metrics
        BY <1>3, <2>2 DEF Next, vars, Validation, Begin, Refuse, QueryFails, AggregateTarget,
                          ReadSourcePage, ReadTargetPage, At, Goto, Return
      <3> QED BY <1>1, <1>4, <1>5, <3>1 DEF AggregatesAreCurrent
    <2> QED BY <2>1, <2>2
  <1>7. ASSUME pc' \in {"pageSource", "pageTarget", "returned"},
               SystemsAgree, target = Migrated(setup, source)
        PROVE  report'.status # "FAILED"
    <2>1. CASE AggregateTarget
      BY <1>5, <1>7, <2>1, AggregateTargetDecides
    <2>2. CASE ReadTargetPage
      <3>1. pc = "pageTarget"
        BY <2>2 DEF ReadTargetPage, At
      <3>2. report.status # "FAILED"
        BY <1>1, <1>5, <1>7, <3>1 DEF AggregatesAreCurrent
      <3>3. CASE pc' = "returned"
        <4>1. /\ read.target = OrderedKeys(target)
              /\ report' = Compared(read.source, Returned(read.target))
          BY <1>5, <2>2, <3>3, TargetPageFollows
        <4>2. read.source = OrderedKeys(SourceRows)
          BY <1>5, <3>1 DEF IInv, SourceReadExactly
        <4>3. target = SourceRows
          BY <1>7, AlikeRowsAreMigrated
        <4>4. Compared(read.source, read.source).status = report.status
          BY <1>1, <4>2, SourceRowsAreRows, FaithfulKeysAgree DEF TypeOK
        <4>5. Returned(read.target) = read.target
          <5>1. setup.strict
            BY <3>1 DEF IInv, ComparedAsAsked
          <5> QED BY <1>1, <1>7, <5>1, ReturnedKeys DEF SystemsAgree, TypeOK
        <4> QED BY <3>2, <4>1, <4>2, <4>3, <4>4, <4>5
      <3>4. CASE pc' = "pageTarget"
        BY <2>2, <3>2, <3>4, TargetPageFollows
      <3> QED BY <2>2, <3>3, <3>4, TargetPageFollows
    <2>3. CASE ReadSourcePage
      <3>1. pc = "pageSource" /\ report' = report
        BY <2>3 DEF ReadSourcePage, At
      <3> QED BY <1>1, <1>5, <1>7, <3>1 DEF AggregatesAreCurrent
    <2>4. CASE ~AggregateTarget /\ ~ReadTargetPage /\ ~ReadSourcePage
      <3>1. pc' = pc
        BY <1>7, <2>4, ReturnsOnce, ComparesAfterAggregates
      <3>2. report' = report
        BY <1>3, <2>4 DEF Next, vars, Validation, Begin, Refuse, QueryFails, AggregateSource
      <3> QED BY <1>1, <1>5, <1>7, <3>1, <3>2 DEF AggregatesAreCurrent
    <2> QED BY <2>1, <2>2, <2>3, <2>4
  <1>8. UNCHANGED <<source, target>>
    BY <1>4 DEF tables
  <1> QED BY <1>4, <1>5, <1>6, <1>7, <1>8

----------------------------------------------------------------------------
(* The beginning *)

\* The targets a validation may find are tables.
LEMMA FoundTables ==
  ASSUME setup \in Setups, source \in Sources, target \in Found(setup, source)
  PROVE  Rows(target) /\ Numbered(target)
  <1> DEFINE K == {k \in Keys : source[k] # Absent}
             f == [k \in Keys |-> Evaluate(setup.target, setup.expression, source[k])]
             whole == Migrated(setup, source)
  <1>1. whole = {[key |-> k, copy |-> 1, value |-> f[k]] : k \in K}
    BY DEF Migrated, MigratedRow
  <1>2. /\ Rows(whole) /\ Numbered(whole)
        /\ \A r \in whole : r.copy = 1 /\ r.key \in K
        /\ \A r \in whole : r = [key |-> r.key, copy |-> 1, value |-> f[r.key]]
    <2>1. K \in SUBSET Keys
      OBVIOUS
    <2> HIDE DEF K, f, whole
    <2>2. Rows(whole) /\ Numbered(whole)
      BY <1>1, <2>1, OneRowEach
    <2> QED BY <1>1, <2>2
  <1>3. 1 \in 1 .. 2 /\ 2 \in 1 .. 2 /\ 1 # 2
    OBVIOUS
  <1>4. IsFiniteSet(whole) /\ \A x : IsFiniteSet(whole \ {x}) /\ IsFiniteSet(whole \cup {x})
    BY <1>2, FS_AddElement, FS_RemoveElement DEF Rows
  <1>5. CASE target = whole
    BY <1>2, <1>5
  <1>6. CASE target \in {whole \ {r} : r \in whole}
    <2>1. target \in SUBSET whole /\ IsFiniteSet(target)
      BY <1>4, <1>6
    <2> HIDE DEF whole
    <2> QED BY <1>2, <1>3, <2>1 DEF Rows, Numbered
  <1>7. CASE target \in {whole \cup {MigratedRow(setup, k, <<Null, Null>>)} :
                           k \in {k \in Keys : source[k] = Absent}}
    <2>1. PICK k \in Keys : /\ source[k] = Absent
                            /\ target = whole \cup {MigratedRow(setup, k, <<Null, Null>>)}
      BY <1>7
    <2> DEFINE new == MigratedRow(setup, k, <<Null, Null>>)
    <2>2. new.key = k /\ new.copy = 1 /\ k \notin K
      BY <2>1 DEF MigratedRow
    <2>3. target = whole \cup {new} /\ IsFiniteSet(target)
      BY <1>4, <2>1
    <2> HIDE DEF new, whole, K
    <2>4. \A r \in whole : r.key # new.key
      BY <1>2, <2>2
    <2>5. Rows(target)
      BY <1>2, <1>3, <2>2, <2>3, <2>4 DEF Rows
    <2>6. Numbered(target)
      BY <1>2, <1>3, <2>2, <2>3 DEF Numbered
    <2> QED BY <2>5, <2>6
  <1>8. CASE target \in {whole \cup {[r EXCEPT !.copy = 2]} :
                           r \in IF setup.target = "snowflake" THEN whole ELSE {}}
    <2>1. PICK r \in whole : target = whole \cup {[r EXCEPT !.copy = 2]}
      BY <1>8
    <2> DEFINE new == [r EXCEPT !.copy = 2]
    <2>2. r = [key |-> r.key, copy |-> 1, value |-> f[r.key]]
      BY <1>2
    <2>3. new.key = r.key /\ new.copy = 2
      BY <2>2
    <2>4. target = whole \cup {new} /\ IsFiniteSet(target)
      BY <1>4, <2>1
    <2> HIDE DEF new, whole, K
    <2>5. \A x \in whole : x.copy # new.copy
      BY <1>2, <1>3, <2>3
    <2>6. Rows(target)
      BY <1>2, <1>3, <2>1, <2>3, <2>4, <2>5 DEF Rows
    <2>7. Numbered(target)
      BY <1>2, <1>3, <2>1, <2>3, <2>4 DEF Numbered
    <2> QED BY <2>6, <2>7
  <1>9. CASE target \in {(whole \ {r}) \cup {[r EXCEPT !.value = Null]} : r \in whole}
    <2>1. PICK r \in whole : target = (whole \ {r}) \cup {[r EXCEPT !.value = Null]}
      BY <1>9
    <2> DEFINE new == [r EXCEPT !.value = Null]
    <2>2. r = [key |-> r.key, copy |-> 1, value |-> f[r.key]]
      BY <1>2
    <2>3. new.key = r.key /\ new.copy = 1
      BY <2>2
    <2>4. IsFiniteSet(whole \ {r})
      BY <1>4
    <2> HIDE DEF new, whole, K
    <2>5. target = (whole \ {r}) \cup {new}
      BY <2>1 DEF new
    <2>6. IsFiniteSet(target)
      BY <2>4, <2>5, FS_AddElement
    <2>7. \A x \in whole \ {r} : x.key # new.key
      BY <1>2, <2>1, <2>3 DEF Rows
    <2>8. Rows(target)
      BY <1>2, <1>3, <2>1, <2>3, <2>5, <2>6, <2>7 DEF Rows
    <2>9. Numbered(target)
      BY <1>2, <1>3, <2>3, <2>5 DEF Numbered
    <2> QED BY <2>8, <2>9
  <1> QED BY <1>5, <1>6, <1>7, <1>8, <1>9 DEF Found

LEMMA InvInit ==
  ASSUME Init
  PROVE  IInv
  <1>1. Rows(target) /\ Numbered(target) /\ Rows(SourceRows)
    BY FoundTables, SourceRowsAreRows DEF Init
  <1>2. TypeOK
    <2>1. source \in [Keys -> Content \cup {Absent}] /\ 0 \in 0 .. MaxWrites
      BY ValidationConstants DEF Init
    <2>2. \A r \in target : r.key \in Keys /\ r.copy \in 1 .. 2
      BY <1>1 DEF Rows
    <2>3. SourceKeys \subseteq Keys
      BY DEF SourceKeys
    <2>4. <<>> \in Seq(Keys)
      BY EmptySeq
    <2>5. NoMetrics \in Metrics
      BY DEF NoMetrics, Metrics, Count
    <2>6. NoReport \in Report
      <3>1. "NONE" \in Warnings
        BY DEF Warnings
      <3> QED BY <3>1 DEF NoReport, Report
    <2> HIDE DEF NoMetrics, NoReport
    <2> QED BY <2>1, <2>2, <2>3, <2>4, <2>5, <2>6 DEF Init, TypeOK
  <1>3. NothingTaken /\ PagesFollow
    <2>1. Starts(<<>>, OrderedKeys(SourceRows))
      BY <1>1, OrderedKeysOfRows, StartsAtBothEnds, EmptySeq
    <2> QED BY <2>1 DEF Init, NothingTaken, PagesFollow
  <1>4. /\ SourceReadWhole /\ SourceReadExactly /\ TargetReadWhole
        /\ ComparedAsAsked /\ CountedAsRead /\ AggregatesAreCurrent
    BY DEF Init, SourceReadWhole, SourceReadExactly, TargetReadWhole, ComparedAsAsked,
           CountedAsRead, AggregatesAreCurrent, At
  <1> QED BY <1>1, <1>2, <1>3, <1>4 DEF IInv, TablesAreRows

----------------------------------------------------------------------------
(* The properties *)

\* What the invariant says of a returned comparison of tables nobody wrote.
LEMMA ExactWhenQuiet ==
  ASSUME IInv, pc = "returned", written = 0, report.compared
  PROVE  /\ report.missing = Cardinality(SourceKeys \ Matched)
         /\ report.sourceDuplicates = 0
         /\ report.targetDuplicates = Cardinality(target) - Cardinality(TargetKeys)
         /\ report.extra = report.targetDuplicates + Cardinality(TargetKeys \ Matched)
         /\ report.status = "PASSED" =>
              SourceKeys = TargetKeys /\ Cardinality(target) = Cardinality(TargetKeys)
  <1> DEFINE O == Occurrences(read.source)
             T == Occurrences(read.target)
             U == Occurrences(Returned(read.target))
  <1>1. /\ read.source = OrderedKeys(SourceRows)
        /\ read.target = OrderedKeys(target)
        /\ read.source \in Seq(Keys) /\ read.target \in Seq(Keys)
    <2>1. appending
      BY DEF IInv, NothingTaken
    <2> QED BY <2>1 DEF IInv, SourceReadExactly, TargetReadWhole, At, TypeOK
  <1>2. Rows(target) /\ Numbered(target)
    BY DEF IInv, TablesAreRows
  <1>3. /\ report.missing = Cardinality(O \ U)
        /\ report.extra = Cardinality(U \ O)
        /\ report.sourceDuplicates = Duplicates(read.source)
        /\ report.targetDuplicates = Duplicates(Returned(read.target))
        /\ report.status = "PASSED" =>
             {report.missing, report.extra, report.sourceDuplicates, report.targetDuplicates} = {0}
    BY DEF IInv, CountedAsRead, At
  <1>4. /\ {r.key : r \in SourceRows} = SourceKeys
        /\ {r.key : r \in target} = TargetKeys
    BY SourceRowsAreRows DEF TargetKeys
  <1>5. /\ IsFiniteSet(SourceKeys) /\ IsFiniteSet(TargetKeys)
        /\ Cardinality(SourceRows) = Cardinality(SourceKeys)
        /\ Cardinality(O \ T) = Cardinality(SourceKeys \ TargetKeys)
        /\ Cardinality(T \ O) = (Cardinality(target) - Cardinality(TargetKeys))
                                  + Cardinality(TargetKeys \ SourceKeys)
    <2> DEFINE K == {r.key : r \in SourceRows}
               L == {r.key : r \in target}
               A == Occurrences(OrderedKeys(SourceRows))
               B == Occurrences(OrderedKeys(target))
    <2>1. /\ IsFiniteSet(K) /\ IsFiniteSet(L)
          /\ Cardinality(SourceRows) = Cardinality(K)
          /\ Cardinality(A \ B) = Cardinality(K \ L)
          /\ Cardinality(B \ A) = (Cardinality(target) - Cardinality(L)) + Cardinality(L \ K)
      BY <1>2, SourceRowsAreRows, DifferencesAreCounted
    <2>2. K = SourceKeys /\ L = TargetKeys
      BY <1>4
    <2>3. A = O /\ B = T
      BY <1>1
    <2> HIDE DEF K, L, A, B, O, T
    <2> QED BY <2>1, <2>2, <2>3
  <1>6. /\ Cardinality(SourceKeys) \in Nat /\ Cardinality(TargetKeys) \in Nat
        /\ Cardinality(target) \in Nat
    BY <1>2, <1>5, PlacesAreOrdered, FS_CardinalityType
  <1>7. /\ report.sourceDuplicates = 0
        /\ report.targetDuplicates = Cardinality(target) - Cardinality(TargetKeys)
    <2>1. /\ Len(read.source) = Cardinality(SourceRows)
          /\ Len(read.target) = Cardinality(target)
      BY <1>1, <1>2, SourceRowsAreRows, OrderedKeysOfRows
    <2>2. Range(read.source) = SourceKeys /\ Range(read.target) = TargetKeys
      BY <1>1, <1>2, <1>4, SourceRowsAreRows, RangeOfOrderedKeys
    <2>3. Duplicates(Returned(read.target)) = Duplicates(read.target)
      <3>1. CASE setup.keysAlike
        BY <1>1, <3>1, ReturnedKeys
      <3>2. CASE ~setup.keysAlike
        BY <1>1, <3>2, ReturnedUnlike
      <3> QED BY <3>1, <3>2
    <2>4. /\ Duplicates(read.source) = Cardinality(SourceRows) - Cardinality(SourceKeys)
          /\ Duplicates(read.target) = Cardinality(target) - Cardinality(TargetKeys)
      BY <2>1, <2>2 DEF Duplicates
    <2> HIDE DEF O, T, U
    <2> QED BY <1>3, <1>5, <1>6, <2>3, <2>4
  <1>8. /\ Cardinality(O \ U) = Cardinality(SourceKeys \ Matched)
        /\ Cardinality(U \ O) = (Cardinality(target) - Cardinality(TargetKeys))
                                  + Cardinality(TargetKeys \ Matched)
    <2>1. CASE setup.keysAlike
      <3>1. U = T
        BY <1>1, <2>1, ReturnedKeys
      <3>2. /\ SourceKeys \ Matched = SourceKeys \ TargetKeys
            /\ TargetKeys \ Matched = TargetKeys \ SourceKeys
        BY <2>1 DEF Matched
      <3> HIDE DEF O, T, U
      <3> QED BY <1>5, <3>1, <3>2
    <2>2. CASE ~setup.keysAlike
      <3>1. Cardinality(O) = Cardinality(SourceRows)
        BY <1>1, SourceRowsAreRows, OccurrencesAreRows, OccurrencesAreCounted
      <3>2. Cardinality(T) = Cardinality(target)
        BY <1>1, <1>2, OccurrencesAreRows, OccurrencesAreCounted
      <3>3. Cardinality(U) = Cardinality(T) /\ O \cap U = {}
        BY <1>1, <2>2, ReturnedUnlike
      <3>4. SourceKeys \ Matched = SourceKeys /\ TargetKeys \ Matched = TargetKeys
        BY <2>2 DEF Matched
      <3> HIDE DEF O, T, U
      <3>5. O \ U = O /\ U \ O = U
        BY <3>3
      <3>6. Cardinality(O \ U) = Cardinality(SourceKeys \ Matched)
        BY <1>5, <3>1, <3>4, <3>5
      <3>7. Cardinality(U \ O) = Cardinality(target)
        BY <3>2, <3>3, <3>5
      <3>8. (Cardinality(target) - Cardinality(TargetKeys)) + Cardinality(TargetKeys \ Matched)
              = Cardinality(target)
        BY <1>6, <3>4
      <3> QED BY <3>6, <3>7, <3>8
    <2> QED BY <2>1, <2>2
  <1> HIDE DEF O, T, U
  <1>9. IsFiniteSet(SourceKeys \ Matched) /\ IsFiniteSet(TargetKeys \ Matched)
    BY <1>5, FS_Difference
  <1>10. ASSUME report.status = "PASSED"
         PROVE  SourceKeys = TargetKeys /\ Cardinality(target) = Cardinality(TargetKeys)
    <2>1. {report.missing, report.extra, report.sourceDuplicates, report.targetDuplicates} = {0}
      BY <1>3, <1>10
    <2>2. report.missing = 0 /\ report.extra = 0 /\ report.targetDuplicates = 0
      BY <2>1
    <2>3. Cardinality(TargetKeys \ Matched) \in Nat
      BY <1>9, FS_CardinalityType
    <2>4. Cardinality(target) = Cardinality(TargetKeys)
      BY <1>6, <1>7, <2>2
    <2>5. Cardinality(SourceKeys \ Matched) = 0 /\ Cardinality(TargetKeys \ Matched) = 0
      BY <1>3, <1>6, <1>8, <2>2, <2>3, <2>4
    <2>6. SourceKeys \ Matched = {} /\ TargetKeys \ Matched = {}
      BY <1>9, <2>5, FS_EmptySet
    <2>7. SourceKeys = TargetKeys
      BY <2>6 DEF Matched
    <2> QED BY <2>4, <2>7
  <1>11. report.extra = report.targetDuplicates + Cardinality(TargetKeys \ Matched)
    BY <1>3, <1>7, <1>8
  <1> QED BY <1>3, <1>7, <1>8, <1>10, <1>11

LEMMA InvKept ==
  IInv /\ [Next]_vars => IInv'
  <1>1. SUFFICES ASSUME IInv, [Next]_vars PROVE IInv'
    OBVIOUS
  <1>2. TypeOK' /\ TablesAreRows' /\ NothingTaken' /\ PagesFollow'
    BY <1>1, TypeKept, TablesKept, NothingTakenKept, PagesFollowKept
  <1>3. SourceReadWhole' /\ SourceReadExactly' /\ TargetReadWhole'
    BY <1>1, SourceReadWholeKept, SourceReadExactlyKept, TargetReadWholeKept
  <1>4. ComparedAsAsked' /\ CountedAsRead' /\ AggregatesAreCurrent'
    BY <1>1, ComparedAsAskedKept, CountedAsReadKept, AggregatesAreCurrentKept
  <1> QED BY <1>2, <1>3, <1>4 DEF IInv

\* What a strict validation has read and counted: run(), read_primary_key_batches
\* and reconcile_primary_key_batches keep the inductive invariant.
THEOREM ReadingIsSound == Spec => []IInv
  <1>1. Init => IInv
    BY InvInit
  <1>2. IInv /\ [Next]_vars => IInv'
    BY InvKept
  <1> QED BY <1>1, <1>2, PTL DEF Spec

\* The aggregates are counts, the keys read are keys, the report is a report.
THEOREM TypeCorrect == Spec => []TypeOK
  <1>1. IInv => TypeOK
    BY DEF IInv
  <1> QED BY <1>1, ReadingIsSound, PTL

\* Over tables nobody writes a strict validation compares the keys exactly, passes
\* only when they are the same however the drivers return them, and is never passed
\* off as one when the keys cannot be compared.
THEOREM QuietComparisonIsExact == Spec => []StrictVerdictIsExact
  <1>1. IInv => StrictVerdictIsExact
    <2>1. SUFFICES ASSUME IInv, pc = "returned", written = 0, setup.strict
                   PROVE  /\ report.compared <=> SameKey
                          /\ ~report.compared => report.status = "INCOMPLETE"
                          /\ report.compared =>
                               /\ report.missing = Cardinality(SourceKeys \ Matched)
                               /\ report.sourceDuplicates = 0
                               /\ report.targetDuplicates
                                    = Cardinality(target) - Cardinality(TargetKeys)
                               /\ report.extra
                                    = report.targetDuplicates + Cardinality(TargetKeys \ Matched)
                               /\ report.status = "PASSED" =>
                                    /\ SourceKeys = TargetKeys
                                    /\ Cardinality(target) = Cardinality(TargetKeys)
      BY DEF StrictVerdictIsExact, Quiet, At
    <2>2. /\ report.compared <=> Ineligible = "NONE"
          /\ ~report.compared => report.status = "INCOMPLETE"
      BY <2>1 DEF IInv, ComparedAsAsked, At
    <2>3. Ineligible = "NONE" <=> SameKey
      BY <2>1, EligibleIsSameKey DEF IInv, TypeOK
    <2> QED BY <2>1, <2>2, <2>3, ExactWhenQuiet
  <1> QED BY <1>1, ReadingIsSound, PTL

\* A migration that did what was approved, between systems that agree on what is
\* compared, is not found to have failed.
THEOREM FaithfulCopyStands == Spec => [](SystemsAgree => FaithfulIsNotFailed)
  <1>1. IInv => (SystemsAgree => FaithfulIsNotFailed)
    BY DEF IInv, AggregatesAreCurrent, FaithfulIsNotFailed, Faithful, Quiet, At
  <1> QED BY <1>1, ReadingIsSound, PTL

\* Over tables nobody writes the verdict is right, both ways.
THEOREM QuietVerdict == Spec => []QuietVerdictIsRight
  <1>1. StrictVerdictIsExact /\ (SystemsAgree => FaithfulIsNotFailed) => QuietVerdictIsRight
    BY DEF QuietVerdictIsRight
  <1> QED BY <1>1, QuietComparisonIsExact, FaithfulCopyStands, PTL

\* Tables that only grow above their highest key are read whole while they grow:
\* the offset of the next page is the number of keys read.
THEOREM AppendsAreNotMissed == Spec => []AppendedTablesAreReadWhole
  <1>1. IInv => AppendedTablesAreReadWhole
    <2>1. SUFFICES ASSUME IInv, pc = "returned", report.compared, appending
                   PROVE  /\ \A k \in Keys : Cardinality(OccursIn(read.source, k))
                                               \in IF k \in began.source THEN {1} ELSE {0, 1}
                          /\ \A k \in {r.key : r \in began.target} :
                               Cardinality(OccursIn(read.target, k))
                                 = Cardinality({r \in began.target : r.key = k})
      BY DEF AppendedTablesAreReadWhole, At, OccursIn
    <2>2. \A k \in Keys : Cardinality(OccursIn(read.source, k))
                            \in IF k \in began.source THEN {1} ELSE {0, 1}
      BY <2>1 DEF IInv, SourceReadWhole
    <2>3. read.target = OrderedKeys(target) /\ Rows(target)
      BY <2>1 DEF IInv, TargetReadWhole, TablesAreRows, At
    <2>4. /\ began.target \subseteq target
          /\ \A r \in target \ began.target, b \in began.target : r.key # b.key
      BY <2>1 DEF IInv, NothingTaken
    <2>5. ASSUME NEW k \in {r.key : r \in began.target}
          PROVE  Cardinality(OccursIn(read.target, k))
                   = Cardinality({r \in began.target : r.key = k})
      <3>1. RowsOf(target, k) = {r \in began.target : r.key = k}
        BY <2>4 DEF RowsOf
      <3> QED BY <2>3, <3>1, KeysOccurAsRows
    <2> QED BY <2>2, <2>5
  <1> QED BY <1>1, ReadingIsSound, PTL
=============================================================================
