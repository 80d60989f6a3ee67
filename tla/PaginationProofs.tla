-------------------------- MODULE PaginationProofs --------------------------
(***************************************************************************)
(* Proofs about walks through the lists (Pagination), for every table,     *)
(* every page size and any number of rows others add and remove.           *)
(*                                                                         *)
(* The argument is about ranks.  ORDER BY PurchaseDate DESC, Id is a       *)
(* strict total order because ids are primary keys, so the vehicle at      *)
(* position i of every answer is the one with i - 1 predecessors           *)
(* (OrderRank): a page is the rows of ranks offset to offset + size - 1.   *)
(* A row that comes or goes moves every rank by at most one (RankAfter).   *)
(* The two other lists have no second sort key; their answers agree on     *)
(* the date of every position (DatesAgree), and on nothing else.           *)
(***************************************************************************)
EXTENDS Pagination, FiniteSetTheorems, SequenceTheorems, TLAPS

\* q comes before r in ListVehicles: later dates first, then by id.
Below(q, r) == q.date > r.date \/ (q.date = r.date /\ q.id < r.id)

\* The rows of a table R that come before r, and how many there are.
Pred(R, r) == { q \in R : Below(q, r) }
Rank(R, r) == Cardinality(Pred(R, r))

\* A finite table with its primary key.
Keyed(R) ==
    /\ R \subseteq Rows
    /\ IsFiniteSet(R)
    /\ \A q, r \in R : q.id = r.id => q = r

Tokens == [form : {"empty", "garbage", "number"}, value : -IntMax .. 2 * IntMax]

\* Types, the primary key, and which token a walk holds.
WalkTyped ==
    /\ TypeOK
    /\ Keyed(rows)
    /\ token \in Tokens /\ first \in Tokens
    /\ token.form # "number" => token.value = 0
    /\ method = "ListVehicles" => filter = NoFilter
    /\ status = "none" => token = first

\* The walk may go on: the next page starts at this offset.
Live == status \in {"none", "more", "failed"}
Offset == ParsePageToken(token)

\* Nobody writes: a walk through the vehicles has exactly those between its
\* first offset and the one it has reached.
ExactSoFar ==
    Live /\ Quiet /\ method = "ListVehicles" =>
        /\ Skipped <= Offset
        /\ ToSet(seen) =
              { r \in rows : Skipped <= Rank(rows, r) /\ Rank(rows, r) < Offset }
        /\ Repeats = 0

\* Nobody writes: the dates received are those of any order of the rows.
DatesSoFar ==
    Live /\ Quiet /\ Skipped = 0 =>
        /\ Len(seen) = Offset
        /\ \A s \in Orders(method, filter) :
              /\ Len(seen) <= Len(s)
              /\ \A i \in 1 .. Len(seen) : seen[i].date = s[i].date

\* Vehicles that were there all along and that the walk has passed by.
Missed ==
    { r \in rows : /\ r.id \notin touched
                   /\ r \notin ToSet(seen)
                   /\ Rank(rows, r) < Offset }

\* Vehicles received that lie ahead again: the walk will repeat them.
Ahead == { r \in rows : r \in ToSet(seen) /\ Rank(rows, r) >= Offset }

\* Others write: each removal makes the walk pass by at most one vehicle, each
\* addition puts at most one ahead again.
DriftSoFar ==
    Live /\ Skipped = 0 /\ method = "ListVehicles" =>
        /\ Cardinality(Missed) <= removed
        /\ Cardinality(Ahead) + Repeats <= added

WalkInv ==
    /\ WalkTyped
    /\ ExactSoFar
    /\ DatesSoFar
    /\ DriftSoFar
    /\ QuietWalkIsExact
    /\ QuietWalkCounts
    /\ BoundedDrift

-----------------------------------------------------------------------------
(***************************************************************************)
(* Ranks.                                                                  *)
(***************************************************************************)

\* Rows have integer dates and ids.
LEMMA RowFacts ==
    ASSUME NEW r \in Rows
    PROVE  r.date \in Int /\ r.id \in Int /\ r.date \in Dates
<1>1. Ids \subseteq Int /\ Dates \subseteq Int
  BY PaginationAssumption
<1> QED
  BY <1>1 DEF Rows

\* The order of ListVehicles is strict and, within a table, total.
LEMMA BelowIsTotal ==
    ASSUME NEW R, Keyed(R), NEW q \in R, NEW r \in R
    PROVE  /\ ~Below(q, q)
           /\ q # r => Below(q, r) \/ Below(r, q)
           /\ ~(Below(q, r) /\ Below(r, q))
  BY RowFacts DEF Keyed, Below

\* And it is transitive.
LEMMA BelowIsTransitive ==
    ASSUME NEW p \in Rows, NEW q \in Rows, NEW r \in Rows,
           Below(p, q), Below(q, r)
    PROVE  Below(p, r)
  BY RowFacts DEF Below

\* A rank is a number.
LEMMA RankType ==
    ASSUME NEW R, IsFiniteSet(R), NEW r
    PROVE  IsFiniteSet(Pred(R, r)) /\ Rank(R, r) \in Nat
<1>1. Pred(R, r) \in SUBSET R
  BY DEF Pred
<1> QED
  BY <1>1, FS_Subset, FS_CardinalityType DEF Rank

\* A row has fewer predecessors than the rows it comes before.
LEMMA RankGrows ==
    ASSUME NEW R, Keyed(R), NEW q \in R, NEW r \in R, Below(q, r)
    PROVE  Rank(R, q) < Rank(R, r)
<1>1. Pred(R, q) \in SUBSET Pred(R, r)
  BY BelowIsTransitive DEF Keyed, Pred
<1>2. q \in Pred(R, r) /\ q \notin Pred(R, q)
  BY BelowIsTotal DEF Pred
<1>3. /\ IsFiniteSet(Pred(R, r))
      /\ Rank(R, r) \in Nat /\ Rank(R, q) \in Nat
  BY RankType DEF Keyed
<1>4. /\ Cardinality(Pred(R, q)) <= Cardinality(Pred(R, r))
      /\ Cardinality(Pred(R, r)) = Cardinality(Pred(R, q))
            => Pred(R, r) = Pred(R, q)
  BY <1>1, <1>3, FS_Subset
<1> QED
  BY <1>2, <1>3, <1>4 DEF Rank

\* No two rows have the same rank.
LEMMA RankIsInjective ==
    ASSUME NEW R, Keyed(R), NEW q \in R, NEW r \in R, Rank(R, q) = Rank(R, r)
    PROVE  q = r
<1>1. Rank(R, q) \in Nat /\ Rank(R, r) \in Nat
  BY RankType DEF Keyed
<1> QED
  BY <1>1, BelowIsTotal, RankGrows

\* One row more or less moves a rank by at most one: T is R, perhaps without
\* x, perhaps with y.
LEMMA RankAfter ==
    ASSUME NEW R, NEW T, NEW x, NEW y, NEW q,
           IsFiniteSet(R), IsFiniteSet(T),
           R \ {x} \subseteq T, T \subseteq R \cup {y}
    PROVE  /\ Rank(T, q) >= Rank(R, q) - 1
           /\ Rank(T, q) <= Rank(R, q) + 1
           /\ ~Below(y, q) => Rank(T, q) <= Rank(R, q)
           /\ R \subseteq T => Rank(T, q) >= Rank(R, q)
           /\ T \subseteq R => Rank(T, q) <= Rank(R, q)
<1>0. /\ IsFiniteSet(Pred(R, q)) /\ Rank(R, q) \in Nat
      /\ IsFiniteSet(Pred(T, q)) /\ Rank(T, q) \in Nat
  BY RankType
<1>1. Rank(T, q) >= Rank(R, q) - 1
  <2>1. Pred(R, q) \ {x} \in SUBSET Pred(T, q)
    BY DEF Pred
  <2>2. Cardinality(Pred(R, q) \ {x}) <= Cardinality(Pred(T, q))
    BY <1>0, <2>1, FS_Subset
  <2>3. /\ Cardinality(Pred(R, q) \ {x}) \in Nat
        /\ Cardinality(Pred(R, q) \ {x}) >= Cardinality(Pred(R, q)) - 1
    <3>1. Cardinality(Pred(R, q)) \in Nat
      BY <1>0 DEF Rank
    <3>2. /\ IsFiniteSet(Pred(R, q) \ {x})
          /\ Cardinality(Pred(R, q) \ {x}) =
                IF x \in Pred(R, q) THEN Cardinality(Pred(R, q)) - 1
                                    ELSE Cardinality(Pred(R, q))
      BY <1>0, FS_RemoveElement
    <3>3. Cardinality(Pred(R, q) \ {x}) \in Nat
      BY <3>2, FS_CardinalityType
    <3> QED
      BY <3>1, <3>2, <3>3
  <2> QED
    BY <1>0, <2>2, <2>3 DEF Rank
<1>2. Rank(T, q) <= Rank(R, q) + 1
  <2>1. Pred(T, q) \in SUBSET (Pred(R, q) \cup {y})
    BY DEF Pred
  <2>2. /\ IsFiniteSet(Pred(R, q) \cup {y})
        /\ Cardinality(Pred(R, q) \cup {y}) <= Cardinality(Pred(R, q)) + 1
        /\ Cardinality(Pred(R, q) \cup {y}) \in Nat
    <3>1. Cardinality(Pred(R, q)) \in Nat
      BY <1>0 DEF Rank
    <3>2. /\ IsFiniteSet(Pred(R, q) \cup {y})
          /\ Cardinality(Pred(R, q) \cup {y}) =
                IF y \in Pred(R, q) THEN Cardinality(Pred(R, q))
                                    ELSE Cardinality(Pred(R, q)) + 1
      BY <1>0, FS_AddElement
    <3> QED
      BY <3>1, <3>2
  <2>3. Cardinality(Pred(T, q)) <= Cardinality(Pred(R, q) \cup {y})
    BY <2>1, <2>2, FS_Subset
  <2> QED
    BY <1>0, <2>2, <2>3 DEF Rank
<1>3. ASSUME ~Below(y, q) \/ T \subseteq R PROVE Rank(T, q) <= Rank(R, q)
  <2>1. Pred(T, q) \in SUBSET Pred(R, q)
    BY <1>3 DEF Pred
  <2> QED
    BY <1>0, <2>1, FS_Subset DEF Rank
<1>4. ASSUME R \subseteq T PROVE Rank(T, q) >= Rank(R, q)
  <2>1. Pred(R, q) \in SUBSET Pred(T, q)
    BY <1>4 DEF Pred
  <2> QED
    BY <1>0, <2>1, FS_Subset DEF Rank
<1> QED
  BY <1>1, <1>2, <1>3, <1>4

-----------------------------------------------------------------------------
(***************************************************************************)
(* The orders in which a table may be returned.                            *)
(***************************************************************************)

\* An enumeration of a finite set is a one-to-one sequence of all of it.
LEMMA SeqsFacts ==
    ASSUME NEW R, IsFiniteSet(R), NEW s \in SetToSeqs(R)
    PROVE  /\ s \in Seq(R)
           /\ Len(s) = Cardinality(R) /\ Len(s) \in Nat
           /\ DOMAIN s = 1 .. Len(s)
           /\ s \in [1 .. Len(s) -> R]
           /\ \A i, j \in 1 .. Len(s) : s[i] = s[j] => i = j
           /\ \A r \in R : \E i \in 1 .. Len(s) : s[i] = r
<1> DEFINE n == Cardinality(R)
<1>1. n \in Nat
  BY FS_CardinalityType
<1>2. s \in [1 .. n -> R] /\ \A i, j \in 1 .. n : i # j => s[i] # s[j]
  BY DEF SetToSeqs
<1>3. s \in Seq(R) /\ Len(s) = n /\ DOMAIN s = 1 .. n
  BY <1>1, <1>2
<1>4. s \in Injection(1 .. n, R)
  BY <1>2 DEF Injection, IsInjective
<1>5. Cardinality(1 .. n) = n
  BY <1>1, FS_Interval
<1>6. s \in Surjection(1 .. n, R)
  BY <1>4, <1>5, FS_Injection
<1> QED
  BY <1>1, <1>2, <1>3, <1>6 DEF Surjection

\* s takes the indices J, one to one, to the elements of T.
Indexes(s, J, T) ==
    /\ IsFiniteSet(J)
    /\ \A j \in J : s[j] \in T
    /\ \A x \in T : \E j \in J : s[j] = x
    /\ \A i, j \in J : s[i] = s[j] => i = j

\* Then there are as many of these as of those.
LEMMA ImageCount ==
    ASSUME NEW s, NEW J, NEW T, Indexes(s, J, T)
    PROVE  IsFiniteSet(T) /\ Cardinality(T) = Cardinality(J)
<1> DEFINE f == [j \in J |-> s[j]]
<1>1. f \in [J -> T]
  BY DEF Indexes
<1>2. f \in Injection(J, T)
  BY <1>1 DEF Injection, IsInjective, Indexes
<1>3. f \in Surjection(J, T)
  BY <1>1 DEF Surjection, Indexes
<1>4. ExistsBijection(J, T)
  BY <1>2, <1>3 DEF ExistsBijection, Bijection
<1> QED
  BY <1>4, FS_Bijection DEF Indexes

\* The first numbers.
LEMMA FirstNumbers ==
    ASSUME NEW k \in Nat
    PROVE  IsFiniteSet(1 .. k) /\ Cardinality(1 .. k) = k
<1>1. IsFiniteSet(1 .. k) /\ Cardinality(1 .. k) = IF 1 > k THEN 0 ELSE k - 1 + 1
  BY FS_Interval
<1> QED
  BY <1>1

\* The vehicle at position i of an answer is the one of rank i - 1.
LEMMA OrderRank ==
    ASSUME NEW R, Keyed(R), NEW s \in SetToSeqs(R),
           \A i, j \in DOMAIN s : i < j => Before("ListVehicles", s[i], s[j]),
           NEW k \in 1 .. Len(s)
    PROVE  Rank(R, s[k]) = k - 1
<1>0. IsFiniteSet(R) /\ R \subseteq Rows
  BY DEF Keyed
<1>1. /\ Len(s) \in Nat /\ DOMAIN s = 1 .. Len(s)
      /\ s \in [1 .. Len(s) -> R]
      /\ \A i, j \in 1 .. Len(s) : s[i] = s[j] => i = j
      /\ \A r \in R : \E i \in 1 .. Len(s) : s[i] = r
  BY <1>0, SeqsFacts
<1>2. ASSUME NEW i \in 1 .. Len(s), NEW j \in 1 .. Len(s), i < j
      PROVE  Below(s[i], s[j])
  BY <1>1, <1>2 DEF Before, Below
<1>3. /\ \A j \in 1 .. k - 1 : s[j] \in Pred(R, s[k])
      /\ \A r \in Pred(R, s[k]) : \E j \in 1 .. k - 1 : s[j] = r
  <2>1. ASSUME NEW r \in Pred(R, s[k]) PROVE \E j \in 1 .. k - 1 : s[j] = r
    <3>1. PICK i \in 1 .. Len(s) : s[i] = r
      BY <1>1, <2>1 DEF Pred
    <3>2. Below(s[i], s[k])
      BY <2>1, <3>1 DEF Pred
    <3>3. ~(k < i) /\ k # i
      BY <1>1, <1>2, <3>2, BelowIsTotal
    <3> QED
      BY <1>1, <3>1, <3>3
  <2>2. ASSUME NEW j \in 1 .. k - 1 PROVE s[j] \in Pred(R, s[k])
    BY <1>1, <1>2, <2>2 DEF Pred
  <2> QED
    BY <2>1, <2>2
<1>4. IsFiniteSet(1 .. k - 1) /\ Cardinality(1 .. k - 1) = k - 1
  <2>1. k - 1 \in Nat
    BY <1>1
  <2> QED
    BY <2>1, FirstNumbers
<1>5. Indexes(s, 1 .. k - 1, Pred(R, s[k]))
  BY <1>1, <1>3, <1>4 DEF Indexes
<1>6. Cardinality(Pred(R, s[k])) = Cardinality(1 .. k - 1)
  BY <1>5, ImageCount
<1> QED
  BY <1>4, <1>6 DEF Rank

\* Ordered by date, whatever the order among equal dates.
Descending(s) == \A i, j \in DOMAIN s : i < j => s[i].date >= s[j].date

\* The positions of an answer and the rows of a table with a date in D.
Positions(s, D) == { i \in DOMAIN s : s[i].date \in D }
Dated(R, D) == { r \in R : r.date \in D }

\* There are as many of the ones as of the others.
LEMMA DateCount ==
    ASSUME NEW R, IsFiniteSet(R), NEW s \in SetToSeqs(R), NEW D
    PROVE  /\ IsFiniteSet(Positions(s, D))
           /\ Cardinality(Positions(s, D)) = Cardinality(Dated(R, D))
<1>1. /\ Len(s) \in Nat /\ DOMAIN s = 1 .. Len(s)
      /\ s \in [1 .. Len(s) -> R]
      /\ \A i, j \in 1 .. Len(s) : s[i] = s[j] => i = j
      /\ \A r \in R : \E i \in 1 .. Len(s) : s[i] = r
  BY SeqsFacts
<1>2. IsFiniteSet(Positions(s, D))
  <2>1. IsFiniteSet(1 .. Len(s)) /\ Positions(s, D) \in SUBSET (1 .. Len(s))
    BY <1>1, FirstNumbers DEF Positions
  <2> QED
    BY <2>1, FS_Subset
<1>3. Indexes(s, Positions(s, D), Dated(R, D))
  BY <1>1, <1>2 DEF Indexes, Positions, Dated
<1> QED
  BY <1>2, <1>3, ImageCount

\* Two answers to the same question have the same date at every position.
LEMMA NoLaterDate ==
    ASSUME NEW R, IsFiniteSet(R), R \subseteq Rows,
           NEW s \in SetToSeqs(R), Descending(s),
           NEW t \in SetToSeqs(R), Descending(t),
           NEW k \in 1 .. Len(s)
    PROVE  ~(s[k].date > t[k].date)
<1> SUFFICES ASSUME s[k].date > t[k].date PROVE FALSE
  OBVIOUS
<1>1. /\ Len(s) \in Nat /\ DOMAIN s = 1 .. Len(s) /\ DOMAIN t = DOMAIN s
      /\ s \in [1 .. Len(s) -> R] /\ t \in [1 .. Len(s) -> R]
  BY SeqsFacts
<1>2. \A i \in 1 .. Len(s) : s[i].date \in Int /\ t[i].date \in Int
  BY <1>1, RowFacts
<1> DEFINE D == { d \in Int : d >= s[k].date }
<1>3. /\ IsFiniteSet(Positions(s, D)) /\ IsFiniteSet(Positions(t, D))
      /\ Cardinality(Positions(s, D)) = Cardinality(Positions(t, D))
  <2> HIDE DEF D
  <2> QED
    BY DateCount
<1>4. 1 .. k \in SUBSET Positions(s, D)
  BY <1>1, <1>2 DEF Descending, Positions
<1>5. Positions(t, D) \in SUBSET (1 .. k - 1)
  BY <1>1, <1>2 DEF Descending, Positions
<1> HIDE DEF D
<1>6. Cardinality(1 .. k) <= Cardinality(Positions(s, D))
  BY <1>3, <1>4, FS_Subset
<1>7. k \in Nat /\ k - 1 \in Nat
  BY <1>1
<1>8. /\ IsFiniteSet(1 .. k - 1) /\ Cardinality(1 .. k - 1) = k - 1
      /\ Cardinality(1 .. k) = k
  BY <1>7, FirstNumbers
<1>9. Cardinality(Positions(t, D)) <= Cardinality(1 .. k - 1)
  BY <1>5, <1>8, FS_Subset
<1>10. Cardinality(Positions(t, D)) \in Nat
  BY <1>3, FS_CardinalityType
<1> QED
  BY <1>3, <1>6, <1>7, <1>8, <1>9, <1>10

\* The same, both ways.
LEMMA DatesAgree ==
    ASSUME NEW R, IsFiniteSet(R), R \subseteq Rows,
           NEW s \in SetToSeqs(R), Descending(s),
           NEW t \in SetToSeqs(R), Descending(t)
    PROVE  /\ Len(s) = Len(t)
           /\ \A k \in 1 .. Len(s) : s[k].date = t[k].date
<1>1. /\ Len(s) = Len(t)
      /\ s \in [1 .. Len(s) -> R] /\ t \in [1 .. Len(s) -> R]
  BY SeqsFacts
<1>2. ASSUME NEW k \in 1 .. Len(s) PROVE s[k].date = t[k].date
  <2>1. ~(s[k].date > t[k].date) /\ ~(t[k].date > s[k].date)
    BY <1>1, NoLaterDate
  <2>2. s[k].date \in Int /\ t[k].date \in Int
    BY <1>1, RowFacts
  <2> QED
    BY <2>1, <2>2
<1> QED
  BY <1>1, <1>2

-----------------------------------------------------------------------------
(***************************************************************************)
(* Pages.                                                                  *)
(***************************************************************************)

\* What a handler emits of an answer: the LIMIT size + 1 OFFSET offset rows,
\* without the extra one.
Emitted(s, size, offset) ==
    LET result == Slice(s, size + 1, offset)
    IN  IF Len(result) > size THEN Slice(result, size, 0) ELSE result

\* Where the page stops.
Stop(s, size, offset) ==
    IF offset + size < Len(s) THEN offset + size ELSE Len(s)

\* The rows after the offset, at most size of them; there is an extra row when
\* the answer goes beyond them.
LEMMA PageFacts ==
    ASSUME NEW X, NEW s \in Seq(X), NEW size \in Nat \ {0}, NEW offset \in Nat
    PROVE  /\ Emitted(s, size, offset) \in Seq(X)
           /\ Len(Slice(s, size + 1, offset)) > size <=> offset + size < Len(s)
           /\ Len(Emitted(s, size, offset)) =
                 IF offset < Len(s) THEN Stop(s, size, offset) - offset ELSE 0
           /\ \A i \in 1 .. Len(Emitted(s, size, offset)) :
                 /\ Emitted(s, size, offset)[i] = s[offset + i]
                 /\ offset + i \in 1 .. Len(s)
<1> DEFINE result == Slice(s, size + 1, offset)
           last == IF offset + (size + 1) < Len(s) THEN offset + (size + 1)
                                                   ELSE Len(s)
<1>0. Len(s) \in Nat /\ \A i \in 1 .. Len(s) : s[i] \in X
  OBVIOUS
<1>1. last \in Int /\ last <= Len(s) /\ offset + 1 \in Int
  BY <1>0
<1>2. result = SubSeq(s, offset + 1, last)
  BY DEF Slice
<1>3. \A i \in offset + 1 .. last : s[i] \in X
  BY <1>0, <1>1
<1> HIDE DEF result, last
<1>4. /\ result \in Seq(X)
      /\ Len(result) = IF offset + 1 <= last THEN last - (offset + 1) + 1 ELSE 0
      /\ \A i \in 1 .. last - (offset + 1) + 1 : result[i] = s[offset + 1 + i - 1]
  BY <1>1, <1>2, <1>3, SubSeqProperties
<1>5. /\ Len(result) = IF offset < last THEN last - offset ELSE 0
      /\ \A i \in 1 .. Len(result) : result[i] = s[offset + i]
  BY <1>0, <1>1, <1>4
<1>6. Len(result) > size <=> offset + size < Len(s)
  BY <1>0, <1>5 DEF last
<1>7. CASE offset + size < Len(s)
  <2>1. Len(result) = size + 1
    BY <1>0, <1>5, <1>7 DEF last
  <2>2. Emitted(s, size, offset) = Slice(result, size, 0)
    BY <1>6, <1>7 DEF Emitted, result
  <2>3. Slice(result, size, 0) = SubSeq(result, 1, size)
    BY <2>1 DEF Slice
  <2>4. \A i \in 1 .. size : result[i] \in X
    BY <1>4, <2>1
  <2>5. /\ SubSeq(result, 1, size) \in Seq(X)
        /\ Len(SubSeq(result, 1, size)) = IF 1 <= size THEN size - 1 + 1 ELSE 0
        /\ \A i \in 1 .. size - 1 + 1 :
              SubSeq(result, 1, size)[i] = result[1 + i - 1]
    BY <2>4, SubSeqProperties
  <2>6. /\ SubSeq(result, 1, size) \in Seq(X)
        /\ Len(SubSeq(result, 1, size)) = size
        /\ \A i \in 1 .. size : SubSeq(result, 1, size)[i] = result[i]
    BY <2>5
  <2>7. \A i \in 1 .. size : SubSeq(result, 1, size)[i] = s[offset + i]
    BY <1>5, <2>1, <2>6
  <2>8. Stop(s, size, offset) - offset = size /\ offset < Len(s)
    BY <1>0, <1>7 DEF Stop
  <2>9. \A i \in 1 .. size : offset + i \in 1 .. Len(s)
    BY <1>0, <1>7
  <2> QED
    BY <1>6, <1>7, <2>2, <2>3, <2>6, <2>7, <2>8, <2>9 DEF result
<1>8. CASE ~(offset + size < Len(s))
  <2>1. Emitted(s, size, offset) = result
    BY <1>6, <1>8 DEF Emitted, result
  <2>2. last = Len(s) /\ Stop(s, size, offset) = Len(s)
    BY <1>0, <1>8 DEF last, Stop
  <2>3. \A i \in 1 .. Len(result) : offset + i \in 1 .. Len(s)
    BY <1>0, <1>5, <2>2
  <2> QED
    BY <1>4, <1>5, <1>6, <1>8, <2>1, <2>2, <2>3 DEF result
<1> QED
  BY <1>7, <1>8

\* The page size a handler works with is never 0, and never beyond an int.
LEMMA PageSizeRange ==
    ASSUME NEW n \in PageSizes
    PROVE  PageSize(n) \in 1 .. IntMax
<1>1. /\ n \in Int /\ IntMax \in Nat
      /\ DefaultPageSize \in 1 .. IntMax /\ kMaxPageSize \in 2 .. IntMax
  BY PaginationAssumption
<1> QED
  BY <1>1 DEF PageSize

\* The rows a request asks for.
Asked == { r \in rows : Matches(filter, r) }

\* Every answer is an enumeration of them, by date.
LEMMA OrderFacts ==
    ASSUME WalkTyped, NEW s \in Orders(method, filter)
    PROVE  /\ IsFiniteSet(Asked) /\ Asked \subseteq Rows
           /\ s \in SetToSeqs(Asked) /\ Descending(s)
           /\ s \in Seq(Rows) /\ Len(s) \in Nat
<1>1. IsFiniteSet(Asked) /\ Asked \subseteq Rows
  <2>1. Asked \in SUBSET rows /\ IsFiniteSet(rows) /\ rows \subseteq Rows
    BY DEF Asked, WalkTyped, Keyed
  <2> QED
    BY <2>1, FS_Subset
<1>2. /\ s \in SetToSeqs(Asked)
      /\ \A i, j \in DOMAIN s : i < j => Before(method, s[i], s[j])
  BY DEF Orders, Asked
<1>3. /\ s \in Seq(Asked) /\ Len(s) \in Nat /\ DOMAIN s = 1 .. Len(s)
      /\ s \in [1 .. Len(s) -> Asked]
  BY <1>1, <1>2, SeqsFacts
<1>4. \A i \in DOMAIN s : s[i] \in Rows /\ s[i].date \in Int
  BY <1>1, <1>3, RowFacts
<1>5. Descending(s)
  BY <1>2, <1>4 DEF Descending, Before
<1> QED
  BY <1>1, <1>2, <1>3, <1>5

\* ListVehicles has no filter: every answer is an enumeration of the table by
\* rank.
LEMMA VehicleOrder ==
    ASSUME WalkTyped, method = "ListVehicles", NEW s \in Orders(method, filter)
    PROVE  /\ Asked = rows
           /\ s \in SetToSeqs(rows)
           /\ Len(s) \in Nat /\ s \in [1 .. Len(s) -> rows]
           /\ \A k \in 1 .. Len(s) : Rank(rows, s[k]) = k - 1
           /\ \A r \in rows : \E k \in 1 .. Len(s) : s[k] = r
           /\ \A i, j \in 1 .. Len(s) : s[i] = s[j] => i = j
<1>1. filter = NoFilter /\ Keyed(rows) /\ IsFiniteSet(rows) /\ rows \subseteq Rows
  BY DEF WalkTyped, Keyed
<1>2. Asked = rows
  <2>1. Dates \subseteq 0 .. IntMax - 1 /\ IntMax \in Nat
    BY PaginationAssumption
  <2>2. \A r \in rows : r.date > -1 /\ r.date < IntMax
    BY <1>1, <2>1, RowFacts
  <2> QED
    BY <1>1, <2>2 DEF Asked, Matches, NoFilter
<1>3. /\ s \in SetToSeqs(rows)
      /\ \A i, j \in DOMAIN s : i < j => Before("ListVehicles", s[i], s[j])
  BY <1>2 DEF Orders, Asked
<1>4. /\ Len(s) \in Nat /\ s \in [1 .. Len(s) -> rows]
      /\ \A r \in rows : \E k \in 1 .. Len(s) : s[k] = r
      /\ \A i, j \in 1 .. Len(s) : s[i] = s[j] => i = j
  BY <1>1, <1>3, SeqsFacts
<1>5. \A k \in 1 .. Len(s) : Rank(rows, s[k]) = k - 1
  BY <1>1, <1>3, OrderRank
<1> QED
  BY <1>2, <1>3, <1>4, <1>5

\* A page: some answer s, some size, and the rows p it brings.
TakesPage(s, size, p) ==
    /\ Live /\ Offset \in 0 .. IntMax
    /\ p \in Seq(Rows)
    /\ Len(p) = IF Offset < Len(s) THEN Stop(s, size, Offset) - Offset ELSE 0
    /\ \A i \in 1 .. Len(p) : p[i] = s[Offset + i] /\ Offset + i \in 1 .. Len(s)
    /\ seen' = seen \o p
    /\ token' = IF Offset + size < Len(s) THEN Number(Offset + size) ELSE NoToken
    /\ status' = IF Offset + size < Len(s) THEN "more" ELSE "end"
    /\ UNCHANGED <<rows, method, filter, first, touched, added, removed>>

\* Offsets are numbers; the first one is what the first token says, and a token
\* that is not refused fits an int.
LEMMA OffsetRange ==
    ASSUME WalkTyped
    PROVE  /\ Offset \in Nat /\ Skipped \in Nat
           /\ ~Refused(token) => Offset \in 0 .. IntMax
           /\ status = "none" => Offset = Skipped
<1>1. IntMax \in Nat
  BY PaginationAssumption
<1>2. /\ token \in Tokens /\ first \in Tokens
      /\ token.form # "number" => token.value = 0
      /\ status = "none" => token = first
  BY DEF WalkTyped
<1>3. token.value \in Int /\ first.value \in Int
      /\ token.form \in {"empty", "garbage", "number"}
  BY <1>1, <1>2 DEF Tokens
<1> QED
  BY <1>1, <1>2, <1>3 DEF Offset, Skipped, ParsePageToken, Refused

\* What ListPage does, in these terms.
LEMMA PageStep ==
    ASSUME WalkTyped, NEW n \in PageSizes, ListPage(n)
    PROVE  \E s \in Orders(method, filter), size \in 1 .. IntMax, p \in Seq(Rows) :
              TakesPage(s, size, p)
<1>1. Live /\ Offset \in 0 .. IntMax
  BY OffsetRange DEF ListPage, Live
<1>2. PICK s \in Orders(method, filter) :
         LET result == Slice(s, PageSize(n) + 1, Offset)
         IN  /\ seen' = seen \o (IF Len(result) > PageSize(n)
                                   THEN Slice(result, PageSize(n), 0)
                                   ELSE result)
             /\ token' = IF Len(result) > PageSize(n)
                           THEN NextPageToken(Offset, PageSize(n)) ELSE NoToken
             /\ status' = IF Len(result) > PageSize(n) THEN "more" ELSE "end"
  BY DEF ListPage, Offset
<1> DEFINE size == PageSize(n)
           p == Emitted(s, size, Offset)
<1>3. size \in 1 .. IntMax
  BY PageSizeRange
<1>4. size \in Nat \ {0} /\ Offset \in Nat
  BY <1>1, <1>3, PaginationAssumption
<1>5. s \in Seq(Rows)
  BY OrderFacts
<1>6. /\ p \in Seq(Rows)
      /\ Len(Slice(s, size + 1, Offset)) > size <=> Offset + size < Len(s)
      /\ Len(p) = IF Offset < Len(s) THEN Stop(s, size, Offset) - Offset ELSE 0
      /\ \A i \in 1 .. Len(p) : p[i] = s[Offset + i] /\ Offset + i \in 1 .. Len(s)
  <2> HIDE DEF size
  <2> QED
    BY <1>4, <1>5, PageFacts
<1>7. /\ seen' = seen \o p
      /\ token' = IF Offset + size < Len(s) THEN Number(Offset + size) ELSE NoToken
      /\ status' = IF Offset + size < Len(s) THEN "more" ELSE "end"
  BY <1>2, <1>6 DEF Emitted, NextPageToken
<1>8. UNCHANGED <<rows, method, filter, first, touched, added, removed>>
  BY DEF ListPage
<1> HIDE DEF size, p
<1>9. TakesPage(s, size, p)
  BY <1>1, <1>6, <1>7, <1>8 DEF TakesPage
<1> QED
  BY <1>3, <1>6, <1>9

\* The rows of a sequence: finitely many, and as many as its length when none
\* is repeated.
LEMMA ToSetFacts ==
    ASSUME NEW X, NEW s \in Seq(X)
    PROVE  /\ IsFiniteSet(ToSet(s)) /\ Cardinality(ToSet(s)) \in Nat
           /\ Len(s) \in Nat
           /\ (\A i, j \in 1 .. Len(s) : s[i] = s[j] => i = j)
                 => Cardinality(ToSet(s)) = Len(s)
<1>1. Len(s) \in Nat /\ DOMAIN s = 1 .. Len(s) /\ s \in [1 .. Len(s) -> X]
  OBVIOUS
<1>2. IsFiniteSet(1 .. Len(s)) /\ Cardinality(1 .. Len(s)) = Len(s)
  BY <1>1, FirstNumbers
<1>3. s \in Surjection(1 .. Len(s), ToSet(s))
  BY <1>1 DEF Surjection, ToSet
<1>4. IsFiniteSet(ToSet(s))
  BY <1>2, <1>3, FS_Surjection
<1>5. ASSUME \A i, j \in 1 .. Len(s) : s[i] = s[j] => i = j
      PROVE  Cardinality(ToSet(s)) = Len(s)
  <2>1. Indexes(s, 1 .. Len(s), ToSet(s))
    BY <1>1, <1>2, <1>5 DEF Indexes, ToSet
  <2> QED
    BY <1>2, <2>1, ImageCount
<1> QED
  BY <1>1, <1>4, <1>5, FS_CardinalityType

\* The rows of two sequences, one after the other.
LEMMA ToSetConcat ==
    ASSUME NEW X, NEW s \in Seq(X), NEW p \in Seq(X)
    PROVE  /\ ToSet(s \o p) = ToSet(s) \cup ToSet(p)
           /\ Len(s \o p) = Len(s) + Len(p)
           /\ s \o p \in Seq(X)
<1>1. /\ Len(s) \in Nat /\ DOMAIN s = 1 .. Len(s)
      /\ Len(p) \in Nat /\ DOMAIN p = 1 .. Len(p)
  OBVIOUS
<1>2. /\ s \o p \in Seq(X) /\ Len(s \o p) = Len(s) + Len(p)
      /\ \A i \in 1 .. Len(s) + Len(p) : (s \o p)[i] =
                     IF i <= Len(s) THEN s[i] ELSE p[i - Len(s)]
  BY ConcatProperties
<1>3. DOMAIN (s \o p) = 1 .. Len(s) + Len(p)
  BY <1>2
<1> DEFINE c == s \o p
<1>4. /\ c \in Seq(X) /\ Len(c) = Len(s) + Len(p)
      /\ DOMAIN c = 1 .. Len(s) + Len(p)
      /\ \A i \in 1 .. Len(s) + Len(p) : c[i] =
                     IF i <= Len(s) THEN s[i] ELSE p[i - Len(s)]
  BY <1>2, <1>3
<1> HIDE DEF c
<1>5. ASSUME NEW r \in ToSet(c) PROVE r \in ToSet(s) \cup ToSet(p)
  <2>1. PICK i \in 1 .. Len(s) + Len(p) : r = c[i]
    BY <1>4, <1>5 DEF ToSet
  <2>2. CASE i <= Len(s)
    <3>1. i \in DOMAIN s /\ r = s[i]
      BY <1>1, <1>4, <2>1, <2>2
    <3> QED
      BY <3>1 DEF ToSet
  <2>3. CASE ~(i <= Len(s))
    <3>1. i - Len(s) \in DOMAIN p /\ r = p[i - Len(s)]
      BY <1>1, <1>4, <2>1, <2>3
    <3> QED
      BY <3>1 DEF ToSet
  <2> QED
    BY <2>2, <2>3
<1>6. ASSUME NEW r \in ToSet(s) PROVE r \in ToSet(c)
  <2>1. PICK i \in 1 .. Len(s) : r = s[i]
    BY <1>1, <1>6 DEF ToSet
  <2>2. i \in DOMAIN c /\ c[i] = r
    BY <1>1, <1>4, <2>1
  <2> QED
    BY <2>2 DEF ToSet
<1>7. ASSUME NEW r \in ToSet(p) PROVE r \in ToSet(c)
  <2>1. PICK i \in 1 .. Len(p) : r = p[i]
    BY <1>1, <1>7 DEF ToSet
  <2>2. Len(s) + i \in DOMAIN c /\ c[Len(s) + i] = p[i]
    <3>1. /\ Len(s) + i \in 1 .. Len(s) + Len(p)
          /\ ~(Len(s) + i <= Len(s)) /\ (Len(s) + i) - Len(s) = i
      BY <1>1
    <3> QED
      BY <1>4, <3>1
  <2> QED
    BY <2>1, <2>2 DEF ToSet
<1> QED
  BY <1>4, <1>5, <1>6, <1>7 DEF c

\* The vehicles of the page that starts at the walk's offset.
Brought(size) ==
    { r \in rows : Offset <= Rank(rows, r) /\ Rank(rows, r) < Offset + size }

\* A page of ListVehicles brings these vehicles, each once; the last page
\* leaves none behind it.
LEMMA VehiclePage ==
    ASSUME WalkTyped, method = "ListVehicles",
           NEW s \in Orders(method, filter), NEW size \in 1 .. IntMax,
           NEW p, TakesPage(s, size, p)
    PROVE  /\ ToSet(seen') = ToSet(seen) \cup Brought(size)
           /\ IsFiniteSet(ToSet(seen) \cap Brought(size))
           /\ Repeats' = Repeats + Cardinality(ToSet(seen) \cap Brought(size))
           /\ Repeats \in Int
           /\ status' = "end" => \A r \in rows : Rank(rows, r) < Offset + size
           /\ status' = "more" => Offset' = Offset + size
<1>0. IntMax \in Nat /\ size \in Nat /\ Offset \in Nat
  BY PaginationAssumption, OffsetRange
<1>1. /\ Len(s) \in Nat /\ s \in [1 .. Len(s) -> rows]
      /\ \A k \in 1 .. Len(s) : Rank(rows, s[k]) = k - 1
      /\ \A r \in rows : \E k \in 1 .. Len(s) : s[k] = r
      /\ \A i, j \in 1 .. Len(s) : s[i] = s[j] => i = j
  BY VehicleOrder
<1>2. /\ p \in Seq(Rows) /\ Len(p) \in Nat /\ DOMAIN p = 1 .. Len(p)
      /\ Len(p) = IF Offset < Len(s) THEN Stop(s, size, Offset) - Offset ELSE 0
      /\ \A i \in 1 .. Len(p) : p[i] = s[Offset + i] /\ Offset + i \in 1 .. Len(s)
      /\ seen' = seen \o p
  BY DEF TakesPage
<1>3. seen \in Seq(Rows)
  BY DEF WalkTyped, TypeOK
<1>4. ToSet(p) = Brought(size)
  <2>1. ASSUME NEW r \in ToSet(p) PROVE r \in Brought(size)
    <3>1. PICK i \in 1 .. Len(p) : r = p[i]
      BY <1>2, <2>1 DEF ToSet
    <3>2. PICK k \in 1 .. Len(s) : k = Offset + i /\ r = s[k]
      BY <1>2, <3>1
    <3>3. r \in rows /\ Rank(rows, r) = k - 1
      BY <1>1, <3>2
    <3>4. i <= size
      BY <1>0, <1>1, <1>2 DEF Stop
    <3> QED
      BY <1>0, <1>2, <3>2, <3>3, <3>4 DEF Brought
  <2>2. ASSUME NEW r \in Brought(size) PROVE r \in ToSet(p)
    <3>1. PICK k \in 1 .. Len(s) : s[k] = r
      BY <1>1, <2>2 DEF Brought
    <3>2. Offset <= k - 1 /\ k - 1 < Offset + size
      BY <1>1, <2>2, <3>1 DEF Brought
    <3>3. k - Offset \in 1 .. Len(p) /\ Offset + (k - Offset) = k
      BY <1>0, <1>1, <1>2, <3>2 DEF Stop
    <3>4. p[k - Offset] = r
      BY <1>2, <3>1, <3>3
    <3> QED
      BY <1>2, <3>3, <3>4 DEF ToSet
  <2> QED
    BY <2>1, <2>2
<1>5. \A i, j \in 1 .. Len(p) : p[i] = p[j] => i = j
  <2> SUFFICES ASSUME NEW i \in 1 .. Len(p), NEW j \in 1 .. Len(p), p[i] = p[j]
               PROVE  i = j
    OBVIOUS
  <2>1. Offset + i = Offset + j
    BY <1>1, <1>2
  <2> QED
    BY <1>0, <1>2, <2>1
<1>6. /\ ToSet(seen') = ToSet(seen) \cup Brought(size)
      /\ Len(seen') = Len(seen) + Len(p)
  BY <1>2, <1>3, <1>4, ToSetConcat
<1>7. /\ IsFiniteSet(ToSet(seen)) /\ Cardinality(ToSet(seen)) \in Nat
      /\ Len(seen) \in Nat
  BY <1>3, ToSetFacts
<1>8. IsFiniteSet(Brought(size)) /\ Cardinality(Brought(size)) = Len(p)
  BY <1>2, <1>4, <1>5, ToSetFacts
<1>9. /\ IsFiniteSet(ToSet(seen) \cap Brought(size))
      /\ Cardinality(ToSet(seen) \cap Brought(size)) \in Nat
  BY <1>7, FS_Intersection, FS_CardinalityType
<1>10. Cardinality(ToSet(seen')) =
          Cardinality(ToSet(seen)) + Len(p)
             - Cardinality(ToSet(seen) \cap Brought(size))
  BY <1>6, <1>7, <1>8, FS_Union
<1>11. Repeats' = Repeats + Cardinality(ToSet(seen) \cap Brought(size))
  <2>1. Repeats' = Len(seen') - Cardinality(ToSet(seen'))
    BY DEF Repeats
  <2> QED
    BY <1>2, <1>6, <1>7, <1>9, <1>10, <2>1 DEF Repeats
<1>12. Repeats \in Int
  BY <1>7 DEF Repeats
<1>13. status' = "end" => \A r \in rows : Rank(rows, r) < Offset + size
  <2> SUFFICES ASSUME status' = "end", NEW r \in rows
               PROVE  Rank(rows, r) < Offset + size
    OBVIOUS
  <2>1. ~(Offset + size < Len(s))
    BY DEF TakesPage
  <2>2. PICK k \in 1 .. Len(s) : s[k] = r
    BY <1>1
  <2> QED
    BY <1>0, <1>1, <2>1, <2>2
<1>14. status' = "more" => Offset' = Offset + size
  <2> SUFFICES ASSUME status' = "more" PROVE Offset' = Offset + size
    OBVIOUS
  <2>1. token' = Number(Offset + size)
    BY DEF TakesPage
  <2>2. Offset' = ParsePageToken(token')
    BY DEF Offset, ParsePageToken
  <2> QED
    BY <1>0, <2>1, <2>2 DEF ParsePageToken, Number
<1> QED
  BY <1>6, <1>9, <1>11, <1>12, <1>13, <1>14

-----------------------------------------------------------------------------
(***************************************************************************)
(* Types.                                                                  *)
(***************************************************************************)

\* A new walk, over a table with its primary key.
LEMMA InitTyped == Init => WalkTyped
<1> SUFFICES ASSUME Init PROVE WalkTyped
  OBVIOUS
<1>1. /\ IntMax \in Nat /\ MaxWrites \in Nat
      /\ FirstTokens \subseteq
            {NoToken, Garbage} \cup { Number(n) : n \in -IntMax .. 2 * IntMax }
      /\ \A table \in Seeds :
            /\ table \subseteq Rows
            /\ IsFiniteSet(table)
            /\ \A r, s \in table : r.id = s.id => r = s
  BY PaginationAssumption
<1>2. Keyed(rows)
  BY <1>1 DEF Init, Keyed
<1>3. /\ token \in Tokens /\ first \in Tokens /\ token = first
      /\ token.form # "number" => token.value = 0
  <2>1. token \in {NoToken, Garbage} \cup { Number(n) : n \in -IntMax .. 2 * IntMax }
    BY <1>1 DEF Init
  <2>2. 0 \in -IntMax .. 2 * IntMax
    BY <1>1
  <2> QED
    BY <2>1, <2>2 DEF Init, NoToken, Garbage, Number, Tokens
<1>4. TypeOK
  <2>1. token.value \in -IntMax .. 2 * IntMax
    BY <1>3 DEF Tokens
  <2>2. filter \in Filters \cup {NoFilter} /\ method \in Methods
    BY DEF Init
  <2>3. seen \in Seq(Rows)
    BY DEF Init
  <2>4. added \in 0 .. MaxWrites /\ removed \in 0 .. MaxWrites
    BY <1>1 DEF Init
  <2> QED
    BY <1>2, <2>1, <2>2, <2>3, <2>4 DEF Init, TypeOK, Keyed
<1>5. method = "ListVehicles" => filter = NoFilter
  BY DEF Init
<1> QED
  BY <1>2, <1>3, <1>4, <1>5 DEF WalkTyped

\* A page keeps the types: the next token is in range.
LEMMA PageTyped ==
    ASSUME WalkTyped, NEW n \in PageSizes, ListPage(n)
    PROVE  WalkTyped'
<1>0. IntMax \in Nat
  BY PaginationAssumption
<1>1. PICK s \in Orders(method, filter), size \in 1 .. IntMax, p \in Seq(Rows) :
         TakesPage(s, size, p)
  BY PageStep
<1>2. UNCHANGED <<rows, method, filter, first, touched, added, removed>>
  BY <1>1 DEF TakesPage
<1>3. seen' \in Seq(Rows)
  BY <1>1, ToSetConcat DEF TakesPage, WalkTyped, TypeOK
<1>4. status' \in {"more", "end"}
  BY <1>1 DEF TakesPage
<1>5. token' \in Tokens /\ (token'.form # "number" => token'.value = 0)
  <2>1. Offset \in 0 .. IntMax
    BY <1>1 DEF TakesPage
  <2>2. /\ Offset + size \in -IntMax .. 2 * IntMax
        /\ 0 \in -IntMax .. 2 * IntMax
    BY <1>0, <2>1
  <2>3. token' \in {Number(Offset + size), NoToken}
    BY <1>1 DEF TakesPage
  <2> QED
    BY <2>2, <2>3 DEF Number, NoToken, Tokens
<1>6. TypeOK'
  <2>1. token'.value \in -IntMax .. 2 * IntMax
    BY <1>5 DEF Tokens
  <2> QED
    BY <1>2, <1>3, <1>4, <2>1 DEF WalkTyped, TypeOK
<1> QED
  BY <1>2, <1>4, <1>5, <1>6 DEF WalkTyped, Keyed, Tokens

\* What others do to the table: x is gone, or y is new, or both; y's id is
\* then known to be written.
Written(x, y) ==
    /\ rows \ {x} \subseteq rows' /\ rows' \subseteq rows \cup {y}
    /\ y.id \in touched' /\ touched \subseteq touched'
    /\ Walking
    /\ UNCHANGED <<method, filter, first, token, seen, status>>

\* Another client creates a row: ids are new.
LEMMA InsertTyped ==
    ASSUME WalkTyped, NEW r \in Rows, InsertRow(r)
    PROVE  /\ WalkTyped' /\ Written(r, r) /\ rows \subseteq rows'
           /\ added' = added + 1 /\ removed' = removed
<1>0. MaxWrites \in Nat /\ added \in 0 .. MaxWrites /\ removed \in 0 .. MaxWrites
  BY PaginationAssumption DEF WalkTyped, TypeOK
<1>1. Keyed(rows')
  <2>1. /\ rows \subseteq Rows /\ IsFiniteSet(rows)
        /\ \A q, s \in rows : q.id = s.id => q = s
    BY DEF WalkTyped, Keyed
  <2>2. rows' = rows \cup {r} /\ \A s \in rows : s.id # r.id
    BY DEF InsertRow
  <2>3. IsFiniteSet(rows')
    BY <2>1, <2>2, FS_AddElement
  <2> QED
    BY <2>1, <2>2, <2>3 DEF Keyed
<1>2. TypeOK'
  <2>1. added' \in 0 .. MaxWrites
    BY <1>0 DEF InsertRow
  <2>2. touched' \subseteq Ids /\ rows' \subseteq Rows
    BY DEF InsertRow, Rows, WalkTyped, TypeOK
  <2> QED
    BY <2>1, <2>2 DEF InsertRow, WalkTyped, TypeOK
<1>3. Written(r, r) /\ rows \subseteq rows'
  BY DEF InsertRow, Written
<1>4. Keyed(rows)'
  BY <1>1 DEF Keyed
<1> QED
  BY <1>2, <1>3, <1>4 DEF InsertRow, WalkTyped, Tokens

\* Another client deletes a row.
LEMMA DeleteTyped ==
    ASSUME WalkTyped, NEW r \in rows, DeleteRow(r)
    PROVE  /\ WalkTyped' /\ Written(r, r) /\ rows' \subseteq rows
           /\ added' = added /\ removed' = removed + 1
<1>0. MaxWrites \in Nat /\ added \in 0 .. MaxWrites /\ removed \in 0 .. MaxWrites
  BY PaginationAssumption DEF WalkTyped, TypeOK
<1>1. Keyed(rows)'
  <2>1. /\ rows \subseteq Rows /\ IsFiniteSet(rows)
        /\ \A q, s \in rows : q.id = s.id => q = s
    BY DEF WalkTyped, Keyed
  <2>2. rows' = rows \ {r}
    BY DEF DeleteRow
  <2>3. IsFiniteSet(rows')
    BY <2>1, <2>2, FS_RemoveElement
  <2> QED
    BY <2>1, <2>2, <2>3 DEF Keyed
<1>2. TypeOK'
  <2>1. removed' \in 0 .. MaxWrites
    BY <1>0 DEF DeleteRow
  <2>2. touched' \subseteq Ids /\ rows' \subseteq Rows
    BY DEF DeleteRow, Rows, WalkTyped, TypeOK
  <2> QED
    BY <2>1, <2>2 DEF DeleteRow, WalkTyped, TypeOK
<1>3. Written(r, r) /\ rows' \subseteq rows
  BY DEF DeleteRow, Written
<1> QED
  BY <1>1, <1>2, <1>3 DEF DeleteRow, WalkTyped, Tokens

\* Another client changes the date of a row, which keeps its id.
LEMMA MoveTyped ==
    ASSUME WalkTyped, NEW r \in rows, NEW d \in Dates, MoveRow(r, d)
    PROVE  /\ WalkTyped' /\ Written(r, [r EXCEPT !.date = d])
           /\ added' = added + 1 /\ removed' = removed + 1
<1> DEFINE y == [r EXCEPT !.date = d]
<1>0. MaxWrites \in Nat /\ added \in 0 .. MaxWrites /\ removed \in 0 .. MaxWrites
  BY PaginationAssumption DEF WalkTyped, TypeOK
<1>1. y \in Rows /\ y.id = r.id /\ r.id \in Ids
  BY DEF WalkTyped, TypeOK, Rows
<1>2. rows' = (rows \ {r}) \cup {y}
  BY DEF MoveRow
<1> HIDE DEF y
<1>3. Keyed(rows)'
  <2>1. /\ rows \subseteq Rows /\ IsFiniteSet(rows)
        /\ \A q, s \in rows : q.id = s.id => q = s
    BY DEF WalkTyped, Keyed
  <2>2. IsFiniteSet(rows')
    BY <1>2, <2>1, FS_RemoveElement, FS_AddElement
  <2> QED
    BY <1>1, <1>2, <2>1, <2>2 DEF Keyed
<1>4. TypeOK'
  <2>1. removed' \in 0 .. MaxWrites /\ added' \in 0 .. MaxWrites
    BY <1>0 DEF MoveRow
  <2>2. touched' \subseteq Ids /\ rows' \subseteq Rows
    BY <1>1, <1>2 DEF MoveRow, WalkTyped, TypeOK
  <2> QED
    BY <2>1, <2>2 DEF MoveRow, WalkTyped, TypeOK
<1>5. Written(r, y)
  BY <1>1, <1>2 DEF MoveRow, Written
<1> QED
  BY <1>3, <1>4, <1>5 DEF MoveRow, WalkTyped, Tokens, y

\* A step that only answers with an error.
LEMMA ErrorTyped ==
    ASSUME WalkTyped, RefuseToken \/ PageFails
    PROVE  /\ WalkTyped'
           /\ UNCHANGED <<rows, method, filter, first, token, seen, touched,
                          added, removed>>
<1>1. /\ UNCHANGED <<rows, method, filter, first, token, seen, touched,
                     added, removed>>
      /\ status' \in {"INVALID_ARGUMENT", "failed"}
  BY DEF RefuseToken, PageFails
<1> QED
  BY <1>1 DEF WalkTyped, TypeOK, Keyed, Tokens

-----------------------------------------------------------------------------
(***************************************************************************)
(* Nobody writes.                                                          *)
(***************************************************************************)

\* Before the first page nothing has been received.
LEMMA InitSoFar == Init => ExactSoFar /\ DatesSoFar /\ DriftSoFar
<1> SUFFICES ASSUME Init PROVE ExactSoFar /\ DatesSoFar /\ DriftSoFar
  OBVIOUS
<1>0. WalkTyped
  BY InitTyped
<1>1. Offset = Skipped /\ Skipped \in Nat
  BY <1>0, OffsetRange DEF Init
<1>2. seen = <<>> /\ ToSet(seen) = {} /\ Len(seen) = 0
  BY DEF Init, ToSet
<1>3. Cardinality({}) = 0
  BY FS_EmptySet
<1>4. Repeats = 0
  BY <1>2, <1>3 DEF Repeats
<1>5. \A r \in rows : Rank(rows, r) \in Nat
  BY <1>0, RankType DEF WalkTyped, Keyed
<1>6. ExactSoFar
  BY <1>1, <1>2, <1>4, <1>5 DEF ExactSoFar
<1>7. DatesSoFar
  <2>1. \A s \in Orders(method, filter) : Len(s) \in Nat
    BY <1>0, OrderFacts
  <2> QED
    BY <1>1, <1>2, <2>1 DEF DatesSoFar
<1>8. DriftSoFar
  <2> SUFFICES ASSUME Skipped = 0
               PROVE  Cardinality(Missed) <= removed
                      /\ Cardinality(Ahead) + Repeats <= added
    BY DEF DriftSoFar
  <2>1. Missed = {}
    BY <1>1, <1>5 DEF Missed
  <2>2. Ahead = {}
    BY <1>2 DEF Ahead
  <2> QED
    BY <1>3, <1>4, <2>1, <2>2 DEF Init
<1> QED
  BY <1>6, <1>7, <1>8

\* A page extends an exact walk by exactly the vehicles it brings.
LEMMA PageExact ==
    ASSUME WalkTyped, ExactSoFar, NEW n \in PageSizes, ListPage(n)
    PROVE  ExactSoFar' /\ QuietWalkIsExact'
<1>1. PICK s \in Orders(method, filter), size \in 1 .. IntMax, p \in Seq(Rows) :
         TakesPage(s, size, p)
  BY PageStep
<1>2. Live /\ UNCHANGED <<rows, method, first, added, removed>>
  BY <1>1 DEF TakesPage
<1>3. Skipped' = Skipped /\ Quiet' = Quiet /\ Skipped \in Nat /\ Offset \in Nat
  BY <1>2, OffsetRange DEF Skipped, Quiet
<1>4. size \in Nat
  BY PaginationAssumption
<1>5. \A r \in rows : Rank(rows, r) \in Nat /\ Cardinality(Predecessors(r)) = Rank(rows, r)
  BY RankType DEF WalkTyped, Keyed, Predecessors, Rank, Pred, Below
<1> SUFFICES ASSUME Quiet, method = "ListVehicles"
             PROVE  ExactSoFar' /\ QuietWalkIsExact'
  BY <1>2, <1>3 DEF ExactSoFar, QuietWalkIsExact
<1>6. /\ Skipped <= Offset
      /\ ToSet(seen) =
            { r \in rows : Skipped <= Rank(rows, r) /\ Rank(rows, r) < Offset }
      /\ Repeats = 0
  BY <1>2 DEF ExactSoFar
<1>7. /\ ToSet(seen') = ToSet(seen) \cup Brought(size)
      /\ Repeats' = Repeats + Cardinality(ToSet(seen) \cap Brought(size))
      /\ status' = "end" => \A r \in rows : Rank(rows, r) < Offset + size
      /\ status' = "more" => Offset' = Offset + size
  BY <1>1, VehiclePage
<1>8. ToSet(seen) \cap Brought(size) = {}
  BY <1>3, <1>5, <1>6 DEF Brought
<1>9. Repeats' = 0
  <2>1. Cardinality(ToSet(seen) \cap Brought(size)) = 0
    BY <1>8, FS_EmptySet
  <2> QED
    BY <1>6, <1>7, <2>1
<1>10. ToSet(seen') = { r \in rows : /\ Skipped <= Rank(rows, r)
                                     /\ Rank(rows, r) < Offset + size }
  BY <1>3, <1>4, <1>5, <1>6, <1>7 DEF Brought
<1>11. ExactSoFar'
  <2> SUFFICES ASSUME Live'
               PROVE  /\ Skipped' <= Offset'
                      /\ ToSet(seen') = { r \in rows : /\ Skipped <= Rank(rows, r)
                                                       /\ Rank(rows, r) < Offset' }
                      /\ Repeats' = 0
    BY <1>2, <1>3 DEF ExactSoFar
  <2>1. status' = "more"
    BY <1>1 DEF TakesPage, Live
  <2> QED
    BY <1>3, <1>4, <1>6, <1>7, <1>9, <1>10, <2>1
<1>12. QuietWalkIsExact'
  <2> SUFFICES ASSUME status' = "end"
               PROVE  /\ ToSet(seen') = { r \in rows' :
                             Cardinality(Predecessors(r)') >= Skipped' }
                      /\ Repeats' = 0
    BY DEF QuietWalkIsExact
  <2>1. \A r : Predecessors(r)' = Predecessors(r)
    BY <1>2 DEF Predecessors
  <2> QED
    BY <1>2, <1>3, <1>5, <1>7, <1>9, <1>10, <2>1
<1> QED
  BY <1>11, <1>12

\* A page extends a walk by the dates that any answer has there; the last one
\* completes them.
LEMMA PageDates ==
    ASSUME WalkTyped, DatesSoFar, NEW n \in PageSizes, ListPage(n)
    PROVE  DatesSoFar' /\ QuietWalkCounts'
<1>1. PICK s \in Orders(method, filter), size \in 1 .. IntMax, p \in Seq(Rows) :
         TakesPage(s, size, p)
  BY PageStep
<1>2. /\ Live /\ UNCHANGED <<rows, method, filter, first, added, removed>>
      /\ p \in Seq(Rows) /\ Len(p) \in Nat
      /\ Len(p) = IF Offset < Len(s) THEN Stop(s, size, Offset) - Offset ELSE 0
      /\ \A i \in 1 .. Len(p) : p[i] = s[Offset + i] /\ Offset + i \in 1 .. Len(s)
      /\ seen' = seen \o p
  BY <1>1 DEF TakesPage
<1>3. Skipped' = Skipped /\ Quiet' = Quiet /\ Offset \in Nat
  BY <1>2, OffsetRange DEF Skipped, Quiet
<1>4. size \in Nat /\ size > 0
  BY PaginationAssumption
<1> SUFFICES ASSUME Quiet, Skipped = 0
             PROVE  DatesSoFar' /\ QuietWalkCounts'
  BY <1>2, <1>3 DEF DatesSoFar, QuietWalkCounts
<1>5. /\ Len(seen) = Offset
      /\ \A t \in Orders(method, filter) :
            /\ Len(seen) <= Len(t)
            /\ \A i \in 1 .. Len(seen) : seen[i].date = t[i].date
  BY <1>2 DEF DatesSoFar
<1>6. seen \in Seq(Rows) /\ Len(seen) \in Nat /\ Len(s) \in Nat
  BY OrderFacts DEF WalkTyped, TypeOK
<1>7. /\ Len(seen') = Offset + Len(p)
      /\ seen' \in Seq(Rows)
      /\ \A i \in 1 .. Offset + Len(p) :
            seen'[i] = IF i <= Offset THEN seen[i] ELSE p[i - Offset]
  BY <1>2, <1>5, <1>6, ConcatProperties
<1>8. /\ Len(seen') = Stop(s, size, Offset)
      /\ Len(seen') <= Len(s) /\ Len(seen') \in Nat
  BY <1>2, <1>3, <1>4, <1>5, <1>6, <1>7 DEF Stop
<1>9. \A i \in 1 .. Len(seen') : seen'[i].date = s[i].date
  <2> SUFFICES ASSUME NEW i \in 1 .. Len(seen') PROVE seen'[i].date = s[i].date
    OBVIOUS
  <2>1. CASE i <= Offset
    BY <1>3, <1>5, <1>7, <1>8, <2>1
  <2>2. CASE ~(i <= Offset)
    <3>1. i - Offset \in 1 .. Len(p) /\ Offset + (i - Offset) = i
      BY <1>2, <1>3, <1>7, <1>8, <2>2
    <3>2. seen'[i] = p[i - Offset]
      BY <1>7, <1>8, <2>2
    <3> QED
      BY <1>2, <3>1, <3>2
  <2> QED
    BY <2>1, <2>2
<1>10. DatesSoFar'
  <2>1. Orders(method, filter)' = Orders(method, filter)
    BY <1>2 DEF Orders
  <2> SUFFICES ASSUME Live'
               PROVE  /\ Len(seen') = Offset'
                      /\ \A t \in Orders(method, filter) :
                            /\ Len(seen') <= Len(t)
                            /\ \A i \in 1 .. Len(seen') : seen'[i].date = t[i].date
    BY <2>1 DEF DatesSoFar
  <2>2. Offset + size < Len(s) /\ token' = Number(Offset + size)
    BY <1>1 DEF TakesPage, Live
  <2>3. Offset' = Offset + size
    <3>1. Offset' = ParsePageToken(token')
      BY DEF Offset, ParsePageToken
    <3> QED
      BY <1>3, <1>4, <2>2, <3>1 DEF ParsePageToken, Number
  <2>4. Len(seen') = Offset'
    BY <1>8, <2>2, <2>3 DEF Stop
  <2>5. ASSUME NEW t \in Orders(method, filter)
        PROVE  /\ Len(seen') <= Len(t)
               /\ \A i \in 1 .. Len(seen') : seen'[i].date = t[i].date
    <3>1. /\ Len(s) = Len(t)
          /\ \A k \in 1 .. Len(s) : s[k].date = t[k].date
      BY OrderFacts, DatesAgree
    <3>2. \A i \in 1 .. Len(seen') : i \in 1 .. Len(s)
      BY <1>6, <1>8
    <3> QED
      BY <1>8, <1>9, <3>1, <3>2
  <2> QED
    BY <2>4, <2>5
<1>11. QuietWalkCounts'
  <2> SUFFICES ASSUME status' = "end", NEW d \in Dates
               PROVE  Cardinality({ i \in DOMAIN seen' : seen'[i].date = d }) =
                      Cardinality({ r \in rows :
                                      /\ r.date = d
                                      /\ filter.tag \in {AnyTag, r.tag}
                                      /\ filter.after < d /\ d < filter.before })
    BY <1>2 DEF QuietWalkCounts
  <2>1. ~(Offset + size < Len(s))
    BY <1>1 DEF TakesPage
  <2>2. Len(seen') = Len(s)
    BY <1>8, <2>1 DEF Stop
  <2>3. DOMAIN seen' = 1 .. Len(s) /\ DOMAIN s = 1 .. Len(s)
    BY <1>6, <1>7, <2>2, OrderFacts
  <2>4. { i \in DOMAIN seen' : seen'[i].date = d } = Positions(s, {d})
    BY <1>9, <2>2, <2>3 DEF Positions
  <2>5. { r \in rows : /\ r.date = d
                       /\ filter.tag \in {AnyTag, r.tag}
                       /\ filter.after < d /\ d < filter.before }
           = Dated(Asked, {d})
    <3>1. \A r \in rows : r.date \in Int
      BY RowFacts DEF WalkTyped, TypeOK
    <3>2. filter.after \in Int /\ filter.before \in Int
      <4>1. /\ Filters \subseteq [tag : Tags \cup {AnyTag}, after : Int, before : Int]
            /\ IntMax \in Nat
        BY PaginationAssumption
      <4> QED
        BY <4>1 DEF WalkTyped, TypeOK, NoFilter
    <3> QED
      BY <3>1, <3>2 DEF Dated, Asked, Matches
  <2>6. Cardinality(Positions(s, {d})) = Cardinality(Dated(Asked, {d}))
    BY OrderFacts, DateCount
  <2> QED
    BY <2>4, <2>5, <2>6
<1> QED
  BY <1>10, <1>11

-----------------------------------------------------------------------------
(***************************************************************************)
(* Others write.                                                           *)
(***************************************************************************)

\* A set with at most one element outside A has at most one more element.
LEMMA OneMore ==
    ASSUME NEW A, IsFiniteSet(A), NEW S, \A a, b \in S \ A : a = b
    PROVE  IsFiniteSet(S) /\ Cardinality(S) <= Cardinality(A) + 1
<1>0. Cardinality(A) \in Nat
  BY FS_CardinalityType
<1>1. CASE S \ A = {}
  <2>1. S \in SUBSET A
    BY <1>1
  <2>2. IsFiniteSet(S) /\ Cardinality(S) <= Cardinality(A)
    BY <2>1, FS_Subset
  <2>3. Cardinality(S) \in Nat
    BY <2>2, FS_CardinalityType
  <2> QED
    BY <1>0, <2>2, <2>3
<1>2. CASE S \ A # {}
  <2>1. PICK x \in S \ A : TRUE
    BY <1>2
  <2>2. S \in SUBSET (A \cup {x})
    BY <2>1
  <2>3. /\ IsFiniteSet(A \cup {x})
        /\ Cardinality(A \cup {x}) = IF x \in A THEN Cardinality(A)
                                     ELSE Cardinality(A) + 1
    BY FS_AddElement
  <2>4. Cardinality(A \cup {x}) = Cardinality(A) + 1
    BY <2>1, <2>3
  <2>5. IsFiniteSet(S) /\ Cardinality(S) <= Cardinality(A \cup {x})
    BY <2>2, <2>3, FS_Subset
  <2> QED
    BY <2>4, <2>5
<1> QED
  BY <1>1, <1>2

\* The vehicles passed by, and those ahead again, are finitely many.
LEMMA DriftFinite ==
    ASSUME WalkTyped
    PROVE  /\ IsFiniteSet(Missed) /\ Cardinality(Missed) \in Nat
           /\ IsFiniteSet(Ahead) /\ Cardinality(Ahead) \in Nat
           /\ Repeats \in Int
<1>1. IsFiniteSet(rows) /\ seen \in Seq(Rows)
  BY DEF WalkTyped, Keyed, TypeOK
<1>2. Missed \in SUBSET rows /\ Ahead \in SUBSET rows
  BY DEF Missed, Ahead
<1>3. IsFiniteSet(Missed) /\ IsFiniteSet(Ahead)
  BY <1>1, <1>2, FS_Subset
<1>4. Repeats \in Int
  BY <1>1, ToSetFacts DEF Repeats
<1> QED
  BY <1>3, <1>4, FS_CardinalityType

\* A page passes by nothing, and repeats what was ahead again.
LEMMA PageDrift ==
    ASSUME WalkTyped, DriftSoFar, NEW n \in PageSizes, ListPage(n)
    PROVE  DriftSoFar' /\ BoundedDrift'
<1>1. PICK s \in Orders(method, filter), size \in 1 .. IntMax, p \in Seq(Rows) :
         TakesPage(s, size, p)
  BY PageStep
<1>2. Live /\ UNCHANGED <<rows, method, first, touched, added, removed>>
  BY <1>1 DEF TakesPage
<1>3. Skipped' = Skipped /\ Offset \in Nat /\ size \in Nat
  BY <1>2, OffsetRange, PaginationAssumption DEF Skipped
<1>4. \A r \in rows : Rank(rows, r) \in Nat
  BY RankType DEF WalkTyped, Keyed
<1> SUFFICES ASSUME Skipped = 0, method = "ListVehicles"
             PROVE  DriftSoFar' /\ BoundedDrift'
  BY <1>2, <1>3 DEF DriftSoFar, BoundedDrift
<1>5. /\ Cardinality(Missed) <= removed
      /\ Cardinality(Ahead) + Repeats <= added
  BY <1>2 DEF DriftSoFar
<1>6. /\ ToSet(seen') = ToSet(seen) \cup Brought(size)
      /\ IsFiniteSet(ToSet(seen) \cap Brought(size))
      /\ Repeats' = Repeats + Cardinality(ToSet(seen) \cap Brought(size))
      /\ status' = "end" => \A r \in rows : Rank(rows, r) < Offset + size
      /\ status' = "more" => Offset' = Offset + size
  BY <1>1, VehiclePage
<1>7. /\ IsFiniteSet(Missed) /\ Cardinality(Missed) \in Nat
      /\ IsFiniteSet(Ahead) /\ Cardinality(Ahead) \in Nat
      /\ Repeats \in Int
  BY DriftFinite
<1>8. added \in Int /\ removed \in Int
  BY PaginationAssumption DEF WalkTyped, TypeOK
<1> DEFINE again == ToSet(seen) \cap Brought(size)
           rest == { r \in Ahead : Rank(rows, r) >= Offset + size }
<1>9. /\ Ahead = again \cup rest /\ again \cap rest = {}
  BY <1>3, <1>4 DEF Ahead, Brought
<1>10. IsFiniteSet(again) /\ IsFiniteSet(rest)
  <2>1. rest \in SUBSET Ahead
    OBVIOUS
  <2> QED
    BY <1>6, <1>7, <2>1, FS_Subset
<1> HIDE DEF again, rest
<1>11. /\ Cardinality(Ahead) = Cardinality(again) + Cardinality(rest)
       /\ Cardinality(again) \in Nat /\ Cardinality(rest) \in Nat
  <2>1. Cardinality(again) \in Nat /\ Cardinality(rest) \in Nat
    BY <1>10, FS_CardinalityType
  <2>2. Cardinality(again \cap rest) = 0
    BY <1>9, FS_EmptySet
  <2>3. Cardinality(again \cup rest) =
           Cardinality(again) + Cardinality(rest) - Cardinality(again \cap rest)
    BY <1>10, FS_Union
  <2> QED
    BY <1>9, <2>1, <2>2, <2>3
<1>12. Repeats' + Cardinality(rest) <= added
  <2>1. Repeats' = Repeats + Cardinality(again)
    BY <1>6 DEF again
  <2> QED
    BY <1>5, <1>7, <1>8, <1>11, <2>1
<1>13. DriftSoFar'
  <2> SUFFICES ASSUME Live'
               PROVE  /\ Cardinality(Missed') <= removed
                      /\ Cardinality(Ahead') + Repeats' <= added
    BY <1>2 DEF DriftSoFar
  <2>1. Offset' = Offset + size
    BY <1>1, <1>6 DEF TakesPage, Live
  <2>2. Missed' \in SUBSET Missed
    <3>1. Missed' = { r \in rows : /\ r.id \notin touched
                                   /\ r \notin ToSet(seen')
                                   /\ Rank(rows, r) < Offset' }
      BY <1>2 DEF Missed
    <3> QED
      BY <1>3, <1>4, <1>6, <2>1, <3>1 DEF Missed, Brought
  <2>3. Ahead' = rest
    <3>1. Ahead' = { r \in rows : r \in ToSet(seen') /\ Rank(rows, r) >= Offset' }
      BY <1>2 DEF Ahead
    <3> QED
      BY <1>3, <1>4, <1>6, <2>1, <3>1 DEF Ahead, Brought, rest
  <2>4. Cardinality(Missed') <= Cardinality(Missed) /\ IsFiniteSet(Missed')
    BY <1>7, <2>2, FS_Subset
  <2>5. Cardinality(Missed') \in Nat
    BY <2>4, FS_CardinalityType
  <2>6. Repeats' \in Int
    BY <1>6, <1>7, <1>11 DEF again
  <2> QED
    BY <1>5, <1>7, <1>8, <1>11, <1>12, <2>3, <2>4, <2>5, <2>6
<1>14. BoundedDrift'
  <2> SUFFICES ASSUME status' = "end"
               PROVE  /\ Cardinality({ r \in rows : r.id \notin touched }
                                        \ ToSet(seen')) <= removed
                      /\ Repeats' <= added
    BY <1>2 DEF BoundedDrift
  <2> DEFINE lost == { r \in rows : r.id \notin touched } \ ToSet(seen')
  <2>1. lost \in SUBSET Missed
    BY <1>3, <1>4, <1>6 DEF Missed, Brought
  <2> HIDE DEF lost
  <2>2. IsFiniteSet(lost) /\ Cardinality(lost) <= Cardinality(Missed)
    BY <1>7, <2>1, FS_Subset
  <2>3. Cardinality(lost) \in Nat
    BY <2>2, FS_CardinalityType
  <2>4. Repeats' \in Int
    BY <1>6, <1>7, <1>11 DEF again
  <2>5. Cardinality(lost) <= removed /\ Repeats' <= added
    BY <1>5, <1>7, <1>8, <1>11, <1>12, <2>2, <2>3, <2>4
  <2> QED
    BY <2>5 DEF lost
<1> QED
  BY <1>13, <1>14

\* A row that goes lets one vehicle slip behind the offset, a row that comes
\* pushes one ahead of it.
LEMMA WriteDrift ==
    ASSUME WalkTyped, WalkTyped', NEW x, NEW y, Written(x, y)
    PROVE  /\ Cardinality(Missed') <= Cardinality(Missed) + 1
           /\ rows \subseteq rows' => Cardinality(Missed') <= Cardinality(Missed)
           /\ Cardinality(Ahead') <= Cardinality(Ahead) + 1
           /\ rows' \subseteq rows => Cardinality(Ahead') <= Cardinality(Ahead)
<1>0. /\ Keyed(rows) /\ IsFiniteSet(rows)
      /\ Keyed(rows') /\ IsFiniteSet(rows')
  BY DEF WalkTyped, Keyed
<1>1. /\ rows \ {x} \subseteq rows' /\ rows' \subseteq rows \cup {y}
      /\ y.id \in touched' /\ touched \subseteq touched'
      /\ UNCHANGED <<token, seen>>
  BY DEF Written
<1>2. Offset' = Offset /\ Offset \in Nat
  BY <1>1, OffsetRange DEF Offset, ParsePageToken
<1>3. Missed' = { r \in rows' : /\ r.id \notin touched'
                                /\ r \notin ToSet(seen)
                                /\ Rank(rows', r) < Offset }
  BY <1>1, <1>2 DEF Missed
<1>4. Ahead' = { r \in rows' : r \in ToSet(seen) /\ Rank(rows', r) >= Offset }
  BY <1>1, <1>2 DEF Ahead
<1>5. \A q : /\ Rank(rows, q) \in Nat /\ Rank(rows', q) \in Nat
             /\ Rank(rows', q) >= Rank(rows, q) - 1
             /\ Rank(rows', q) <= Rank(rows, q) + 1
             /\ ~Below(y, q) => Rank(rows', q) <= Rank(rows, q)
             /\ rows \subseteq rows' => Rank(rows', q) >= Rank(rows, q)
             /\ rows' \subseteq rows => Rank(rows', q) <= Rank(rows, q)
  BY <1>0, <1>1, RankType, RankAfter
<1>6. IsFiniteSet(Missed) /\ IsFiniteSet(Ahead)
  BY DriftFinite
<1>7. ASSUME NEW r \in Missed' PROVE r \in rows /\ r.id \notin touched
  BY <1>1, <1>3, <1>7
<1>8. Cardinality(Missed') <= Cardinality(Missed) + 1
  <2>1. ASSUME NEW r \in Missed' \ Missed
        PROVE  r \in rows /\ Rank(rows, r) = Offset
    BY <1>2, <1>3, <1>5, <1>7, <2>1 DEF Missed
  <2>2. \A a, b \in Missed' \ Missed : a = b
    BY <1>0, <2>1, RankIsInjective
  <2> QED
    BY <1>6, <2>2, OneMore
<1>9. ASSUME rows \subseteq rows'
      PROVE  Cardinality(Missed') <= Cardinality(Missed)
  <2>1. Missed' \in SUBSET Missed
    BY <1>2, <1>3, <1>5, <1>7, <1>9 DEF Missed
  <2> QED
    BY <1>6, <2>1, FS_Subset
<1>10. Cardinality(Ahead') <= Cardinality(Ahead) + 1
  <2>1. ASSUME NEW r \in Ahead' \ Ahead, r # y
        PROVE  r \in rows' /\ Rank(rows', r) = Offset /\ Below(y, r)
    <3>1. r \in rows /\ r \in rows' /\ Rank(rows', r) >= Offset
          /\ Rank(rows, r) < Offset
      BY <1>1, <1>2, <1>4, <1>5, <2>1 DEF Ahead
    <3> QED
      BY <1>2, <1>5, <3>1
  <2>2. ASSUME NEW a \in Ahead' \ Ahead, NEW b \in Ahead' \ Ahead, a = y, b # y
        PROVE  FALSE
    <3>1. b \in rows' /\ Rank(rows', b) = Offset /\ Below(y, b)
      BY <2>1, <2>2
    <3>2. y \in rows' /\ Rank(rows', y) >= Offset
      BY <1>4, <2>2
    <3>3. Rank(rows', y) < Rank(rows', b)
      BY <1>0, <3>1, <3>2, RankGrows
    <3> QED
      BY <1>2, <1>5, <3>1, <3>2, <3>3
  <2>3. \A a, b \in Ahead' \ Ahead : a = b
    <3> SUFFICES ASSUME NEW a \in Ahead' \ Ahead, NEW b \in Ahead' \ Ahead, a # b
                 PROVE  FALSE
      OBVIOUS
    <3>1. a # y /\ b # y
      BY <2>2
    <3> QED
      BY <1>0, <2>1, <3>1, RankIsInjective
  <2> QED
    BY <1>6, <2>3, OneMore
<1>11. ASSUME rows' \subseteq rows
       PROVE  Cardinality(Ahead') <= Cardinality(Ahead)
  <2>1. Ahead' \in SUBSET Ahead
    BY <1>2, <1>4, <1>5, <1>11 DEF Ahead
  <2> QED
    BY <1>6, <2>1, FS_Subset
<1> QED
  BY <1>8, <1>9, <1>10, <1>11

\* A write of others keeps the account, if it is booked as added or removed.
LEMMA WriteSoFar ==
    ASSUME WalkInv, WalkTyped', NEW x, NEW y, Written(x, y),
           added' \in {added, added + 1}, removed' \in {removed, removed + 1},
           added' = added => rows' \subseteq rows /\ removed' = removed + 1,
           removed' = removed => rows \subseteq rows'
    PROVE  WalkInv'
<1>0. WalkTyped /\ DriftSoFar
  BY DEF WalkInv
<1>1. added \in Nat /\ removed \in Nat
  BY <1>0, PaginationAssumption DEF WalkTyped, TypeOK
<1>2. /\ status \in {"more", "failed"}
      /\ UNCHANGED <<method, first, seen, status>>
  BY DEF Written, Walking
<1>3. ~Quiet'
  BY <1>1 DEF Quiet
<1>4. ExactSoFar' /\ DatesSoFar' /\ QuietWalkIsExact' /\ QuietWalkCounts'
      /\ BoundedDrift'
  BY <1>2, <1>3 DEF ExactSoFar, DatesSoFar, QuietWalkIsExact, QuietWalkCounts,
                    BoundedDrift
<1>5. DriftSoFar'
  <2> SUFFICES ASSUME Skipped' = 0, method' = "ListVehicles"
               PROVE  /\ Cardinality(Missed') <= removed'
                      /\ Cardinality(Ahead') + Repeats' <= added'
    BY DEF DriftSoFar
  <2>1. Skipped = 0 /\ Live /\ Repeats' = Repeats
    BY <1>2 DEF Skipped, Live, Repeats
  <2>2. Cardinality(Missed) <= removed /\ Cardinality(Ahead) + Repeats <= added
    BY <1>0, <1>2, <2>1 DEF DriftSoFar
  <2>3. /\ Cardinality(Missed) \in Nat /\ Cardinality(Ahead) \in Nat
        /\ Repeats \in Int
    BY <1>0, DriftFinite
  <2>4. Cardinality(Missed') \in Nat /\ Cardinality(Ahead') \in Nat
    <3>1. (IsFiniteSet(Missed) /\ IsFiniteSet(Ahead))'
      <4>1. (rows' \subseteq Rows /\ IsFiniteSet(rows'))
        BY DEF WalkTyped, Keyed
      <4>2. Missed' \in SUBSET rows' /\ Ahead' \in SUBSET rows'
        BY DEF Missed, Ahead
      <4> QED
        BY <4>1, <4>2, FS_Subset
    <3> QED
      BY <3>1, FS_CardinalityType
  <2>5. /\ Cardinality(Missed') <= Cardinality(Missed) + 1
        /\ rows \subseteq rows' => Cardinality(Missed') <= Cardinality(Missed)
        /\ Cardinality(Ahead') <= Cardinality(Ahead) + 1
        /\ rows' \subseteq rows => Cardinality(Ahead') <= Cardinality(Ahead)
    BY <1>0, WriteDrift
  <2>6. Cardinality(Missed') <= removed'
    BY <1>1, <2>2, <2>3, <2>4, <2>5
  <2>7. Cardinality(Ahead') + Repeats' <= added'
    BY <1>1, <2>1, <2>2, <2>3, <2>4, <2>5
  <2> QED
    BY <2>6, <2>7
<1> QED
  BY <1>4, <1>5 DEF WalkInv

\* A new walk satisfies the invariant.
LEMMA InitWalkInv == Init => WalkInv
<1> SUFFICES ASSUME Init PROVE WalkInv
  OBVIOUS
<1>1. WalkTyped /\ ExactSoFar /\ DatesSoFar /\ DriftSoFar
  BY InitTyped, InitSoFar
<1>2. QuietWalkIsExact /\ QuietWalkCounts /\ BoundedDrift
  BY DEF Init, QuietWalkIsExact, QuietWalkCounts, BoundedDrift
<1> QED
  BY <1>1, <1>2 DEF WalkInv

\* Every page, every failure and every write of others keeps it.
LEMMA NextWalkInv == WalkInv /\ [Next]_vars => WalkInv'
<1> SUFFICES ASSUME WalkInv, [Next]_vars PROVE WalkInv'
  OBVIOUS
<1>0. WalkTyped /\ ExactSoFar /\ DatesSoFar /\ DriftSoFar
  BY DEF WalkInv
<1>00. added \in Nat /\ removed \in Nat
  BY <1>0, PaginationAssumption DEF WalkTyped, TypeOK
<1>1. ASSUME NEW n \in PageSizes, ListPage(n) PROVE WalkInv'
  BY <1>0, <1>1, PageTyped, PageExact, PageDates, PageDrift DEF WalkInv
<1>2. ASSUME RefuseToken \/ PageFails PROVE WalkInv'
  <2>1. /\ WalkTyped'
        /\ UNCHANGED <<rows, method, filter, first, token, seen, touched,
                       added, removed>>
    BY <1>0, <1>2, ErrorTyped
  <2>2. status' \in {"INVALID_ARGUMENT", "failed"} /\ Live
    BY <1>2 DEF RefuseToken, PageFails, Live
  <2>3. QuietWalkIsExact' /\ QuietWalkCounts' /\ BoundedDrift'
    BY <2>2 DEF QuietWalkIsExact, QuietWalkCounts, BoundedDrift
  <2>4. /\ Skipped' = Skipped /\ Quiet' = Quiet /\ Offset' = Offset
        /\ Repeats' = Repeats /\ Missed' = Missed /\ Ahead' = Ahead
        /\ Orders(method, filter)' = Orders(method, filter)
    BY <2>1 DEF Skipped, Quiet, Offset, ParsePageToken, Repeats, Missed, Ahead,
                Orders
  <2>5. ExactSoFar'
    BY <1>0, <2>1, <2>2, <2>4 DEF ExactSoFar
  <2>6. DatesSoFar'
    BY <1>0, <2>1, <2>2, <2>4 DEF DatesSoFar
  <2>7. DriftSoFar'
    BY <1>0, <2>1, <2>2, <2>4 DEF DriftSoFar
  <2> QED
    BY <2>1, <2>3, <2>5, <2>6, <2>7 DEF WalkInv
<1>3. ASSUME NEW r \in Rows, InsertRow(r) PROVE WalkInv'
  <2>1. /\ WalkTyped' /\ Written(r, r) /\ rows \subseteq rows'
        /\ added' = added + 1 /\ removed' = removed
    BY <1>0, <1>3, InsertTyped
  <2> QED
    BY <1>00, <2>1, WriteSoFar
<1>4. ASSUME NEW r \in rows, DeleteRow(r) PROVE WalkInv'
  <2>1. /\ WalkTyped' /\ Written(r, r) /\ rows' \subseteq rows
        /\ added' = added /\ removed' = removed + 1
    BY <1>0, <1>4, DeleteTyped
  <2> QED
    BY <1>00, <2>1, WriteSoFar
<1>5. ASSUME NEW r \in rows, NEW d \in Dates, MoveRow(r, d) PROVE WalkInv'
  <2>1. /\ WalkTyped' /\ Written(r, [r EXCEPT !.date = d])
        /\ added' = added + 1 /\ removed' = removed + 1
    BY <1>0, <1>5, MoveTyped
  <2> QED
    BY <1>00, <2>1, WriteSoFar
<1>6. CASE UNCHANGED vars
  BY <1>6 DEF vars, WalkInv, WalkTyped, TypeOK, Keyed, Tokens, Live, Offset,
              ParsePageToken, ExactSoFar, DatesSoFar, DriftSoFar, Orders,
              Skipped, Quiet, Repeats, Missed, Ahead, QuietWalkIsExact,
              Predecessors, QuietWalkCounts, BoundedDrift
<1> QED
  BY <1>1, <1>2, <1>3, <1>4, <1>5, <1>6
     DEF Next, Pages, ListVehicles, ListChargings, ListConsumptions, Others,
         WalkOver

\* The inductive invariant of a walk (ListVehicles, ListChargings and
\* ListConsumptions, page after page): types, what has been received so far,
\* and how far writes of others have shifted it.
THEOREM WalkInvariant == Spec => []WalkInv
<1>1. Init => WalkInv
  BY InitWalkInv
<1>2. WalkInv /\ [Next]_vars => WalkInv'
  BY NextWalkInv
<1> QED
  BY <1>1, <1>2, PTL DEF Spec

-----------------------------------------------------------------------------

\* Every variable of a walk keeps its type; among them that a page token never
\* leaves the range of ParsePageToken's arithmetic, whatever page_size the
\* client sends.
THEOREM WalkTypeCorrect == Spec => []TypeOK
<1>1. WalkInv => TypeOK
  BY DEF WalkInv, WalkTyped
<1> QED
  BY <1>1, WalkInvariant, PTL

\* ListVehicles through a table nobody writes to returns every vehicle beyond
\* the first offset, and returns it once: for every table, every sequence of
\* page sizes and with failed pages asked for again.
THEOREM QuietWalkIsExactHolds == Spec => []QuietWalkIsExact
<1>1. WalkInv => QuietWalkIsExact
  BY DEF WalkInv
<1> QED
  BY <1>1, WalkInvariant, PTL

\* ListChargings and ListConsumptions, which leave the order of equal start
\* times to PostgreSQL, return the right number of rows of every start time:
\* for every table, filter and sequence of page sizes.
THEOREM QuietWalkCountsHolds == Spec => []QuietWalkCounts
<1>1. WalkInv => QuietWalkCounts
  BY DEF WalkInv
<1> QED
  BY <1>1, WalkInvariant, PTL

\* However many rows others add, remove and move between two pages of
\* ListVehicles, the walk misses at most as many untouched vehicles as rows
\* were removed and repeats at most as many as were added.
THEOREM BoundedDriftHolds == Spec => []BoundedDrift
<1>1. WalkInv => BoundedDrift
  BY DEF WalkInv
<1> QED
  BY <1>1, WalkInvariant, PTL

=============================================================================
