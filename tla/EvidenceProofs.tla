--------------------------- MODULE EvidenceProofs ---------------------------
(***************************************************************************)
(* What Evidence's runs check on small workspaces, for every workspace,    *)
(* every plan and every page.                                              *)
(*                                                                         *)
(* The two steps are functions of a snapshot that does not change, so that *)
(* the inductive invariant says what their outcomes are, and all the rest  *)
(* is about the operators: sorting, cutting out a page, and the five       *)
(* computations of the executors.                                          *)
(***************************************************************************)
EXTENDS Evidence, FiniteSetTheorems, SequenceTheorems, TLAPS

-----------------------------------------------------------------------------
(***************************************************************************)
(* Sorted rows.  The rank of a row is the number of those before it; a     *)
(* finite set of numbers has one of every rank, so that it can be sorted.  *)
(***************************************************************************)
LEMMA MinOfTwo ==
  ASSUME NEW a \in Int, NEW b \in Int
  PROVE  Min({a, b}) = IF a <= b THEN a ELSE b
BY DEF Min

LEMMA MaxOfTwo ==
  ASSUME NEW a \in Int, NEW b \in Int
  PROVE  Max({a, b}) = IF a <= b THEN b ELSE a
BY DEF Max

Smaller(S, i) == {j \in S : j < i}

LEMMA Ranks ==
  ASSUME NEW S \in SUBSET Nat, IsFiniteSet(S)
  PROVE  /\ \A i \in S : Cardinality(Smaller(S, i)) \in 0 .. Cardinality(S) - 1
         /\ \A i, k \in S : i < k => Cardinality(Smaller(S, i)) < Cardinality(Smaller(S, k))
         /\ \A n \in 0 .. Cardinality(S) - 1 : \E i \in S : Cardinality(Smaller(S, i)) = n
<1> DEFINE N == Cardinality(S)
           rank == [i \in S |-> Cardinality(Smaller(S, i))]
<1>1. N \in Nat
  BY FS_CardinalityType
<1>2. ASSUME NEW i \in S PROVE IsFiniteSet(Smaller(S, i)) /\ Cardinality(Smaller(S, i)) \in 0 .. N - 1
  <2>1. Smaller(S, i) \in SUBSET S /\ i \notin Smaller(S, i)
    BY DEF Smaller
  <2>2. /\ IsFiniteSet(Smaller(S, i)) /\ Cardinality(Smaller(S, i)) <= N
        /\ N = Cardinality(Smaller(S, i)) => S = Smaller(S, i)
    BY <2>1, FS_Subset
  <2>3. Cardinality(Smaller(S, i)) \in Nat
    BY <2>2, FS_CardinalityType
  <2>4. Cardinality(Smaller(S, i)) # N
    BY <2>1, <2>2
  <2> HIDE DEF N
  <2> QED
    BY <1>1, <2>2, <2>3, <2>4
<1>3. ASSUME NEW i \in S, NEW k \in S, i < k
      PROVE  Cardinality(Smaller(S, i)) < Cardinality(Smaller(S, k))
  <2>1. Smaller(S, i) \in SUBSET Smaller(S, k) /\ i \in Smaller(S, k) /\ i \notin Smaller(S, i)
    <3>1. i \in Nat /\ k \in Nat /\ \A j \in S : j \in Nat
      OBVIOUS
    <3>2. \A j \in S : j < i => j < k
      BY <1>3, <3>1
    <3>3. ~(i < i)
      BY <3>1
    <3> QED
      BY <1>3, <3>2, <3>3, Zenon DEF Smaller
  <2>2. /\ Cardinality(Smaller(S, i)) <= Cardinality(Smaller(S, k))
        /\ Cardinality(Smaller(S, k)) = Cardinality(Smaller(S, i)) => Smaller(S, k) = Smaller(S, i)
    BY <1>2, <2>1, FS_Subset
  <2>3. Cardinality(Smaller(S, i)) \in Nat /\ Cardinality(Smaller(S, k)) \in Nat
    BY <1>1, <1>2
  <2> QED
    BY <2>1, <2>2, <2>3
<1>4. ASSUME NEW i \in S, NEW k \in S, i # k
      PROVE  Cardinality(Smaller(S, i)) # Cardinality(Smaller(S, k))
  <2>1. i < k \/ k < i
    BY <1>4
  <2>2. Cardinality(Smaller(S, i)) \in Nat /\ Cardinality(Smaller(S, k)) \in Nat
    BY <1>1, <1>2
  <2>3. CASE i < k
    <3>1. Cardinality(Smaller(S, i)) < Cardinality(Smaller(S, k))
      BY <1>3, <2>3
    <3> QED
      BY <2>2, <3>1
  <2>4. CASE k < i
    <3>1. Cardinality(Smaller(S, k)) < Cardinality(Smaller(S, i))
      BY <1>3, <2>4
    <3> QED
      BY <2>2, <3>1
  <2> QED
    BY <2>1, <2>3, <2>4
<1>5. rank \in Injection(S, 0 .. N - 1)
  BY <1>2, <1>4 DEF Injection, IsInjective
<1>6. rank \in Surjection(S, 0 .. N - 1)
  <2>1. IsFiniteSet(0 .. N - 1) /\ Cardinality(0 .. N - 1) = N
    <3> HIDE DEF N
    <3>1. N - 1 \in Int /\ N - 1 - 0 + 1 = N /\ (0 > N - 1 => N = 0)
      BY <1>1
    <3> QED
      BY <3>1, FS_Interval
  <2> HIDE DEF rank
  <2> QED
    BY <1>5, <2>1, FS_Injection
<1>7. ASSUME NEW n \in 0 .. N - 1 PROVE \E i \in S : Cardinality(Smaller(S, i)) = n
  BY <1>6 DEF Surjection
<1> QED
  BY <1>2, <1>3, <1>7

Ascending(rows, S) ==
  /\ rows \in [1..Cardinality(S) -> S]
  /\ \A m, n \in 1..Cardinality(S) : m < n => rows[m] < rows[n]

LEMMA CanBeSorted ==
  ASSUME NEW S \in SUBSET Nat, IsFiniteSet(S)
  PROVE  Ascending(Sorted(S), S)
<1> DEFINE Place(n) == CHOOSE i \in S : Cardinality(Smaller(S, i)) = n - 1
           rows == [n \in 1..Cardinality(S) |-> Place(n)]
<1>1. Cardinality(S) \in Nat
  BY FS_CardinalityType
<1>2. ASSUME NEW n \in 1..Cardinality(S)
      PROVE  Place(n) \in S /\ Cardinality(Smaller(S, Place(n))) = n - 1
  <2>1. \E i \in S : Cardinality(Smaller(S, i)) = n - 1
    BY <1>1, Ranks
  <2> QED
    BY <2>1
<1>3. ASSUME NEW m \in 1..Cardinality(S), NEW n \in 1..Cardinality(S), m < n
      PROVE  Place(m) < Place(n)
  <2>1. /\ Place(m) \in S /\ Cardinality(Smaller(S, Place(m))) = m - 1
        /\ Place(n) \in S /\ Cardinality(Smaller(S, Place(n))) = n - 1
    BY <1>2
  <2> HIDE DEF Place
  <2>2. Place(n) < Place(m) => n - 1 < m - 1
    BY <2>1, Ranks
  <2>3. Place(m) # Place(n) /\ ~(n - 1 < m - 1)
    BY <1>1, <1>3, <2>1
  <2>4. Place(m) \in Nat /\ Place(n) \in Nat
    BY <2>1
  <2> QED
    BY <2>2, <2>3, <2>4
<1>4. Ascending(rows, S)
  BY <1>2, <1>3 DEF Ascending
<1> HIDE DEF rows
<1>5. \E r \in [1..Cardinality(S) -> S] :
        \A m, n \in 1..Cardinality(S) : m < n => r[m] < r[n]
  BY <1>4 DEF Ascending
<1> QED
  BY <1>5 DEF Sorted, Ascending

\* Sorting keeps every row once, and puts it behind those before it.
LEMMA SortedIs ==
  ASSUME NEW S \in SUBSET Nat, IsFiniteSet(S)
  PROVE  /\ Cardinality(S) \in Nat
         /\ Sorted(S) \in Seq(S) /\ Len(Sorted(S)) = Cardinality(S)
         /\ \A m, n \in 1..Cardinality(S) : m < n => Sorted(S)[m] < Sorted(S)[n]
         /\ \A i \in S : \E n \in 1..Cardinality(S) : Sorted(S)[n] = i
         /\ \A n \in 1..Cardinality(S) : /\ Sorted(S)[n] \in S
                                         /\ Cardinality(Smaller(S, Sorted(S)[n])) = n - 1
<1> DEFINE rows == Sorted(S)
           N == Cardinality(S)
<1>1. N \in Nat
  BY FS_CardinalityType
<1>2. rows \in [1..N -> S] /\ \A m, n \in 1..N : m < n => rows[m] < rows[n]
  BY CanBeSorted DEF Ascending
<1> HIDE DEF rows
<1>3. rows \in Seq(S) /\ Len(rows) = N
  BY <1>1, <1>2
<1>4. \A m, n \in 1..N : rows[m] = rows[n] => m = n
  <2> SUFFICES ASSUME NEW m \in 1..N, NEW n \in 1..N, m # n PROVE rows[m] # rows[n]
    OBVIOUS
  <2>1. m < n \/ n < m
    BY <1>1
  <2>2. rows[m] \in Nat /\ rows[n] \in Nat
    BY <1>2
  <2> QED
    BY <1>2, <2>1, <2>2
<1>5. rows \in Surjection(1..N, S)
  <2>1. rows \in Injection(1..N, S)
    BY <1>2, <1>4 DEF Injection, IsInjective
  <2>2. Cardinality(1..N) = N
    BY <1>1, FS_Interval
  <2> QED
    BY <2>1, <2>2, FS_Injection
<1>6. ASSUME NEW n \in 1..N PROVE Cardinality(Smaller(S, rows[n])) = n - 1
  <2> DEFINE part == [m \in 1..(n - 1) |-> rows[m]]
  <2>1. ASSUME NEW m \in 1..(n - 1) PROVE rows[m] \in Smaller(S, rows[n])
    BY <1>1, <1>2, <2>1 DEF Smaller
  <2>2. ASSUME NEW i \in Smaller(S, rows[n]) PROVE \E m \in 1..(n - 1) : rows[m] = i
    <3>1. PICK m \in 1..N : rows[m] = i
      BY <1>5 DEF Surjection, Smaller
    <3>2. rows[m] < rows[n] /\ rows[m] \in Nat /\ rows[n] \in Nat
      BY <1>2, <3>1 DEF Smaller
    <3>3. ~(n < m) /\ n # m
      BY <1>2, <3>2
    <3> QED
      BY <1>1, <3>1, <3>3
  <2>3. part \in Injection(1..(n - 1), Smaller(S, rows[n]))
    BY <1>1, <1>4, <2>1 DEF Injection, IsInjective
  <2>4. part \in Surjection(1..(n - 1), Smaller(S, rows[n]))
    BY <2>1, <2>2 DEF Surjection
  <2>5. n - 1 \in Nat /\ ExistsBijection(1..(n - 1), Smaller(S, rows[n]))
    BY <1>1, <2>3, <2>4 DEF ExistsBijection, Bijection
  <2> QED
    BY <2>5, FS_CountingElements
<1>7. \A i \in S : \E n \in 1..N : rows[n] = i
  BY <1>5 DEF Surjection
<1>8. \A n \in 1..N : rows[n] \in S
  BY <1>2
<1> QED
  BY <1>1, <1>2, <1>3, <1>6, <1>7, <1>8 DEF rows

-----------------------------------------------------------------------------
(***************************************************************************)
(* Parts of sorted rows: the page of a request, and what a budget leaves.  *)
(***************************************************************************)
Distinct(rows) == \A m, n \in 1..Len(rows) : rows[m] = rows[n] => m = n

LEMMA DistinctRows ==
  ASSUME NEW S, NEW rows \in Seq(S), Distinct(rows)
  PROVE  /\ ToSet(rows) \subseteq S /\ IsFiniteSet(ToSet(rows))
         /\ Cardinality(ToSet(rows)) = Len(rows) /\ Len(rows) \in Nat
<1> DEFINE n == Len(rows)
<1>1. n \in Nat /\ rows \in [1..n -> S] /\ DOMAIN rows = 1..n
  BY LenProperties
<1>2. ToSet(rows) = {rows[i] : i \in 1..n} /\ ToSet(rows) \subseteq S
  BY <1>1 DEF ToSet
<1>3. rows \in Injection(1..n, ToSet(rows)) /\ rows \in Surjection(1..n, ToSet(rows))
  <2>1. rows \in [1..n -> ToSet(rows)]
    BY <1>1, <1>2
  <2>2. \A a, b \in DOMAIN rows : rows[a] = rows[b] => a = b
    BY <1>1 DEF Distinct
  <2>3. \A t \in ToSet(rows) : \E s \in 1..n : rows[s] = t
    BY <1>2
  <2> QED
    BY <2>1, <2>2, <2>3 DEF Injection, IsInjective, Surjection
<1>4. ExistsBijection(1..n, ToSet(rows)) /\ ExistsSurjection(1..n, ToSet(rows))
  BY <1>3 DEF ExistsBijection, ExistsSurjection, Bijection
<1> QED
  BY <1>1, <1>2, <1>4, FS_CountingElements, FS_NatSurjection

LEMMA AscendingDistinct ==
  ASSUME NEW S \in SUBSET Nat, NEW rows \in Seq(S),
         \A m, n \in 1..Len(rows) : m < n => rows[m] < rows[n]
  PROVE  Distinct(rows)
<1> SUFFICES ASSUME NEW m \in 1..Len(rows), NEW n \in 1..Len(rows), m # n PROVE rows[m] # rows[n]
  BY DEF Distinct
<1>1. Len(rows) \in Nat /\ rows[m] \in Nat /\ rows[n] \in Nat
  BY LenProperties, ElementOfSeq
<1>2. m < n \/ n < m
  BY <1>1
<1> QED
  BY <1>1, <1>2

\* The rows of a set that a page is of.
OnWindow(S, w) ==
  {i \in S : w.offset <= Cardinality(Smaller(S, i)) /\ Cardinality(Smaller(S, i)) < w.offset + w.limit}

IsWindow(rows, S, w) ==
  /\ rows \in Seq(OnWindow(S, w)) /\ Len(rows) \in Nat
  /\ Len(rows) <= Min({w.limit, Max({0, Cardinality(S) - w.offset})})
  /\ \A i \in 1..Len(rows) : /\ rows[i] \in OnWindow(S, w)
                             /\ Cardinality(Smaller(S, rows[i])) = w.offset + i - 1
  /\ \A i \in OnWindow(S, w) : \E n \in 1..Len(rows) : rows[n] = i
  /\ Distinct(rows)

\* A page has the rows at its places, in order, and no others.
LEMMA WindowIs ==
  ASSUME NEW S \in SUBSET Nat, IsFiniteSet(S), NEW w \in [offset : Nat, limit : Nat \ {0}],
         NEW rows, rows = Window(Sorted(S), w)
  PROVE  IsWindow(rows, S, w)
<1> DEFINE all == Sorted(S)
           N == Cardinality(S)
           off == w.offset
           lim == w.limit
           end == IF N <= off + lim THEN N ELSE off + lim
<1>0. off \in Nat /\ lim \in Nat \ {0}
  OBVIOUS
<1>1. /\ N \in Nat /\ all \in Seq(S) /\ Len(all) = N
      /\ \A m, n \in 1..N : m < n => all[m] < all[n]
      /\ \A i \in S : \E n \in 1..N : all[n] = i
      /\ \A n \in 1..N : all[n] \in S /\ Cardinality(Smaller(S, all[n])) = n - 1
  BY SortedIs
<1> HIDE DEF all, N, off, lim
<1>2. Min({Len(all), off + lim}) = end
  BY <1>0, <1>1, MinOfTwo
<1>3. end \in Nat /\ end <= N /\ end <= off + lim /\ (end = N \/ end = off + lim)
  BY <1>0, <1>1
<1> HIDE DEF end
<1>4. rows = SubSeq(all, off + 1, end)
  BY <1>2 DEF Window, all, off, lim
<1>5. \A i \in off + 1 .. end : all[i] \in S
  BY <1>0, <1>1, <1>3
<1>6. /\ rows \in Seq(S) /\ Len(rows) = IF off + 1 <= end THEN end - off ELSE 0
      /\ \A i \in 1 .. end - off : rows[i] = all[off + i]
  <2>1. off + 1 \in Int /\ end \in Int /\ end - (off + 1) + 1 = end - off
        /\ \A i \in 1 .. end - off : off + 1 + i - 1 = off + i
    BY <1>0, <1>3
  <2> QED
    BY <1>4, <1>5, <2>1, SubSeqProperties
<1>7. /\ Len(rows) \in Nat /\ (off + Len(rows) <= end \/ Len(rows) = 0)
      /\ 1..Len(rows) = 1 .. end - off
  BY <1>0, <1>3, <1>6
<1>8. ASSUME NEW i \in 1..Len(rows)
      PROVE  rows[i] \in OnWindow(S, w) /\ Cardinality(Smaller(S, rows[i])) = off + i - 1
  <2>1. off + i \in 1..N /\ rows[i] = all[off + i] /\ off + i - 1 < off + lim
    <3>1. i \in 1 .. end - off
      BY <1>7
    <3>2. i \in Nat /\ 1 <= i /\ off + i <= end
      BY <1>0, <1>3, <3>1
    <3> QED
      BY <1>0, <1>1, <1>3, <1>6, <3>1, <3>2
  <2>2. rows[i] \in S /\ Cardinality(Smaller(S, rows[i])) = off + i - 1
    <3>1. PICK k \in 1..N : k = off + i
      BY <2>1
    <3>2. all[k] \in S /\ Cardinality(Smaller(S, all[k])) = k - 1
      BY <1>1
    <3>3. i \in Nat /\ k \in Nat
      BY <1>0, <1>1, <1>7
    <3> QED
      BY <1>0, <2>1, <3>1, <3>2, <3>3
  <2> QED
    BY <1>0, <2>1, <2>2 DEF OnWindow, off, lim
<1>9. ASSUME NEW i \in OnWindow(S, w) PROVE \E n \in 1..Len(rows) : rows[n] = i
  <2>1. PICK k \in 1..N : all[k] = i
    BY <1>1 DEF OnWindow
  <2>2. off <= k - 1 /\ k - 1 < off + lim
    BY <1>1, <2>1 DEF OnWindow, off, lim
  <2>3. k - off \in 1 .. end - off /\ off + (k - off) = k
    BY <1>0, <1>1, <1>3, <2>2
  <2> QED
    BY <1>6, <1>7, <2>1, <2>3
<1>10. Distinct(rows)
  <2>1. \A m, n \in 1..Len(rows) : m < n => rows[m] < rows[n]
    <3> SUFFICES ASSUME NEW m \in 1..Len(rows), NEW n \in 1..Len(rows), m < n
                 PROVE  rows[m] < rows[n]
      OBVIOUS
    <3>1. off + m \in 1..N /\ off + n \in 1..N /\ off + m < off + n
      BY <1>0, <1>1, <1>3, <1>6, <1>7
    <3> QED
      BY <1>1, <1>6, <1>7, <3>1
  <2> QED
    BY <1>6, <2>1, AscendingDistinct
<1>11. rows \in Seq(OnWindow(S, w))
  <2>1. rows \in [1..Len(rows) -> S] /\ \A i \in 1..Len(rows) : rows[i] \in OnWindow(S, w)
    BY <1>6, <1>8, LenProperties
  <2> QED
    BY <1>7, <2>1
<1>12. Len(rows) <= Min({lim, Max({0, N - off})})
  <2> DEFINE left == Max({0, N - off})
  <2>1. left = IF 0 <= N - off THEN N - off ELSE 0
    BY <1>0, <1>1, MaxOfTwo
  <2>2. left \in Nat /\ Len(rows) <= left /\ Len(rows) <= lim
    BY <1>0, <1>1, <1>3, <1>6, <2>1
  <2> HIDE DEF left
  <2>3. Min({lim, left}) = IF lim <= left THEN lim ELSE left
    BY <1>0, <2>2, MinOfTwo
  <2>4. Len(rows) <= Min({lim, left})
    BY <2>2, <2>3
  <2> QED
    BY <2>4 DEF left
<1> QED
  BY <1>7, <1>8, <1>9, <1>10, <1>11, <1>12 DEF N, off, lim, IsWindow

LEMMA WindowCount ==
  ASSUME NEW S \in SUBSET Nat, IsFiniteSet(S), NEW w \in [offset : Nat, limit : Nat \ {0}],
         NEW rows, rows = Window(Sorted(S), w)
  PROVE  ToSet(rows) = OnWindow(S, w) /\ Cardinality(OnWindow(S, w)) = Len(rows)
<1>1. /\ rows \in Seq(OnWindow(S, w)) /\ Distinct(rows)
      /\ \A i \in OnWindow(S, w) : \E n \in 1..Len(rows) : rows[n] = i
  <2>1. IsWindow(rows, S, w)
    BY WindowIs
  <2> QED
    BY <2>1 DEF IsWindow
<1>2. ToSet(rows) = OnWindow(S, w)
  BY <1>1, LenProperties DEF ToSet
<1> QED
  BY <1>1, <1>2, DistinctRows

IsLimited(rows, S, n) ==
  /\ rows \in Seq(S) /\ Distinct(rows) /\ ToSet(rows) \subseteq S
  /\ Len(rows) = (IF Cardinality(S) <= n THEN Cardinality(S) ELSE n) /\ Len(rows) \in Nat
  /\ Cardinality(S) <= n => ToSet(rows) = S

\* A limit that is not reached leaves all rows.
LEMMA LimitedIs ==
  ASSUME NEW S \in SUBSET Nat, IsFiniteSet(S), NEW n \in Nat, NEW rows, rows = Limited(Sorted(S), n)
  PROVE  IsLimited(rows, S, n)
<1> DEFINE all == Sorted(S)
           N == Cardinality(S)
           end == IF N <= n THEN N ELSE n
<1>1. /\ N \in Nat /\ all \in Seq(S) /\ Len(all) = N
      /\ \A i, k \in 1..N : i < k => all[i] < all[k]
      /\ \A i \in S : \E k \in 1..N : all[k] = i
      /\ \A k \in 1..N : all[k] \in S
  BY SortedIs
<1> HIDE DEF all, N
<1>2. Min({Len(all), n}) = end
  BY <1>1, MinOfTwo
<1>3. end \in Nat /\ end <= N /\ (N <= n => end = N)
  BY <1>1
<1>4. rows = SubSeq(all, 1, end)
  BY <1>2 DEF Limited, all
<1>5. /\ rows \in Seq(S) /\ Len(rows) = end /\ \A i \in 1..end : rows[i] = all[i]
  <2> HIDE DEF end
  <2>1. end \in Int /\ 1 \in Int /\ end - 1 + 1 = end /\ \A i \in 1..end : all[i] \in S /\ 1 + i - 1 = i
    BY <1>1, <1>3
  <2>2. /\ SubSeq(all, 1, end) \in Seq(S)
        /\ Len(SubSeq(all, 1, end)) = IF 1 <= end THEN end - 1 + 1 ELSE 0
        /\ \A i \in 1 .. end - 1 + 1 : SubSeq(all, 1, end)[i] = all[1 + i - 1]
    BY <2>1, SubSeqProperties
  <2> QED
    BY <1>3, <1>4, <2>1, <2>2
<1>6. Distinct(rows)
  <2> HIDE DEF end
  <2>1. \A i, k \in 1..Len(rows) : i < k => rows[i] < rows[k]
    BY <1>1, <1>3, <1>5
  <2> QED
    BY <1>5, <2>1, AscendingDistinct
<1>7. ToSet(rows) \subseteq S
  BY <1>5, <1>6, DistinctRows
<1>8. N <= n => ToSet(rows) = S
  <2> SUFFICES ASSUME N <= n, NEW i \in S PROVE i \in ToSet(rows)
    BY <1>7
  <2>1. PICK k \in 1..N : all[k] = i
    BY <1>1
  <2>2. k \in 1..Len(rows) /\ rows[k] = i /\ DOMAIN rows = 1..Len(rows)
    BY <1>3, <1>5, <2>1, LenProperties
  <2> QED
    BY <2>2 DEF ToSet
<1> QED
  BY <1>3, <1>5, <1>6, <1>7, <1>8 DEF N, IsLimited

-----------------------------------------------------------------------------
(***************************************************************************)
(* What is selected is a finite set of numbers, and what the executors     *)
(* return is the page of it, row by row.                                   *)
(***************************************************************************)
LEMMA TablesFinite ==
  ASSUME NEW t, CaseAssumption(t)
  PROVE  /\ DOMAIN t.units \in SUBSET Nat /\ IsFiniteSet(DOMAIN t.units)
         /\ DOMAIN t.incidents \in SUBSET Nat /\ IsFiniteSet(DOMAIN t.incidents)
         /\ DOMAIN t.orders \in SUBSET Nat /\ IsFiniteSet(DOMAIN t.orders)
         /\ DOMAIN t.items \in SUBSET Nat /\ IsFiniteSet(DOMAIN t.items)
BY DEF CaseAssumption

LEMMA MatchesFinite ==
  ASSUME NEW t, CaseAssumption(t), NEW p, PlanAssumption(p)
  PROVE  Matches(t, p) \in SUBSET Nat /\ IsFiniteSet(Matches(t, p))
<1>1. /\ Facilities \in SUBSET Nat /\ IsFiniteSet(Facilities)
      /\ Components \in SUBSET Nat /\ IsFiniteSet(Components)
  BY DataAssumption
<1>2. CASE p.operation = "work_orders"
  <2>1. OrdersOf(t, p) \in SUBSET DOMAIN t.orders
    BY DEF OrdersOf
  <2> QED
    BY <1>2, <2>1, TablesFinite, FS_Subset DEF Matches
<1>3. CASE p.operation = "incidents"
  <2>1. IncidentsOf(t, p) \in SUBSET DOMAIN t.incidents
    BY DEF IncidentsOf
  <2> QED
    BY <1>3, <2>1, TablesFinite, FS_Subset DEF Matches
<1>4. CASE p.operation = "inventory"
  <2>1. ItemsOf(t, p) \in SUBSET DOMAIN t.items
    BY DEF ItemsOf
  <2> QED
    BY <1>4, <2>1, TablesFinite, FS_Subset DEF Matches
<1>5. CASE p.operation = "facility_equipment"
  <2>1. FacilitiesOf(t, p) \in SUBSET Facilities
    BY DEF FacilitiesOf
  <2> QED
    BY <1>1, <1>5, <2>1, FS_Subset DEF Matches
<1>6. CASE p.operation = "compatible_stock"
  <2>1. ComponentsOf(t, p) \in SUBSET Components
    BY DEF ComponentsOf
  <2> QED
    BY <1>1, <1>6, <2>1, FS_Subset DEF Matches
<1> QED
  BY <1>2, <1>3, <1>4, <1>5, <1>6 DEF PlanAssumption

LEMMA SupportingFinite ==
  ASSUME NEW t, CaseAssumption(t), NEW p, NEW units
  PROVE  /\ Supporting(t, p, units) \in SUBSET Nat /\ IsFiniteSet(Supporting(t, p, units))
         /\ UnitsOf(t, p) \in SUBSET Nat /\ IsFiniteSet(UnitsOf(t, p))
<1>1. Supporting(t, p, units) \in SUBSET DOMAIN t.incidents /\ UnitsOf(t, p) \in SUBSET DOMAIN t.units
  BY DEF Supporting, UnitsOf
<1> QED
  BY <1>1, TablesFinite, FS_Subset

\* The matches of a page, the units and incidents read for it, and the row of a match.
PageIds(t, p, w) == Window(Sorted(Matches(t, p)), w)

UnitsRead(t, p, w) ==
  Limited(Sorted({u \in UnitsOf(t, p) : t.units[u].facility \in ToSet(PageIds(t, p, w))}),
          MaxEvidence + Sentinel)

IncidentsRead(t, p, w) ==
  Limited(Sorted(Supporting(t, p, ToSet(UnitsRead(t, p, w)))),
          MaxEvidence - Len(UnitsRead(t, p, w)) + Sentinel)

IncidentIds(t, p) ==
  IF p.incident_statuses = None THEN <<>>
  ELSE Limited(Sorted(Supporting(t, p, {p.unit})), MaxEvidence + Sentinel)

RowOf(t, p, w, id) ==
  CASE p.operation = "work_orders"        -> OrderEvidence(t, p, id)
    [] p.operation = "incidents"          -> IncidentEvidence(t, p, id)
    [] p.operation = "inventory"          -> ItemEvidence(t, p, id)
    [] p.operation = "facility_equipment" -> FacilityEvidence(t, id, UnitsRead(t, p, w), IncidentsRead(t, p, w))
    [] p.operation = "compatible_stock"   -> StockEvidence(t, p, id)

RowsOf(t, p, w) == [i \in DOMAIN PageIds(t, p, w) |-> RowOf(t, p, w, PageIds(t, p, w)[i])]

\* Too much to read for an equipment query.
OverBudget(t, p, w) ==
  \/ /\ p.operation = "facility_equipment"
     /\ \/ Len(UnitsRead(t, p, w)) > MaxEvidence
        \/ Len(UnitsRead(t, p, w)) + Len(IncidentsRead(t, p, w)) > MaxEvidence
  \/ /\ p.operation = "compatible_stock"
     /\ \/ Len(IncidentIds(t, p)) > MaxEvidence
        \/ Len(IncidentIds(t, p)) + Len(PageIds(t, p, w)) > MaxEvidence

VerdictOf(t, p) ==
  IF p.operation = "compatible_stock"
  THEN IF p.incident_statuses # None /\ IncidentIds(t, p) = <<>> THEN "no_incident_match"
       ELSE Verdict(Cardinality(Matches(t, p)), <<>>)
  ELSE "matched"

IdsOf(t, p) == IF p.operation = "compatible_stock" THEN IncidentIds(t, p) ELSE <<>>

LEMMA PageIdsAre ==
  ASSUME NEW t, CaseAssumption(t), NEW p, PlanAssumption(p), NEW w \in Pages
  PROVE  /\ IsWindow(PageIds(t, p, w), Matches(t, p), w)
         /\ ToSet(PageIds(t, p, w)) = OnWindow(Matches(t, p), w)
         /\ Cardinality(OnWindow(Matches(t, p), w)) = Len(PageIds(t, p, w))
         /\ DOMAIN PageIds(t, p, w) = 1..Len(PageIds(t, p, w))
         /\ Len(PageIds(t, p, w)) \in Nat
<1>1. w \in [offset : Nat, limit : Nat \ {0}]
  BY DataAssumption
<1>2. Matches(t, p) \in SUBSET Nat /\ IsFiniteSet(Matches(t, p))
  BY MatchesFinite
<1>3. IsWindow(PageIds(t, p, w), Matches(t, p), w)
  BY <1>1, <1>2, WindowIs DEF PageIds
<1>4. /\ ToSet(PageIds(t, p, w)) = OnWindow(Matches(t, p), w)
      /\ Cardinality(OnWindow(Matches(t, p), w)) = Len(PageIds(t, p, w))
  BY <1>1, <1>2, WindowCount DEF PageIds
<1>5. PageIds(t, p, w) \in Seq(OnWindow(Matches(t, p), w))
  BY <1>3 DEF IsWindow
<1> QED
  BY <1>3, <1>4, <1>5, LenProperties

\* Nothing matches where incidents are asked for and there are none.
LEMMA NoIncidentNoMatch ==
  ASSUME NEW t, CaseAssumption(t), NEW p, PlanAssumption(p), p.operation = "compatible_stock",
         p.incident_statuses # None
  PROVE  /\ IncidentIds(t, p) = <<>> <=> Supporting(t, p, {p.unit}) = {}
         /\ IncidentIds(t, p) = <<>> => Matches(t, p) = {}
<1> DEFINE S == Supporting(t, p, {p.unit})
<1>1. S \in SUBSET Nat /\ IsFiniteSet(S)
  BY SupportingFinite
<1> HIDE DEF S
<1>2. MaxEvidence + Sentinel \in Nat /\ MaxEvidence + Sentinel > 0
  BY DataAssumption DEF Sentinel
<1>3. IsLimited(IncidentIds(t, p), S, MaxEvidence + Sentinel)
  BY <1>1, <1>2, LimitedIs DEF IncidentIds, S
<1>4. Cardinality(S) \in Nat /\ (Cardinality(S) = 0 <=> S = {})
  BY <1>1, FS_CardinalityType, FS_EmptySet
<1>5. IncidentIds(t, p) = <<>> <=> S = {}
  <2>1. IncidentIds(t, p) \in Seq(S) /\ (Len(IncidentIds(t, p)) = 0 <=> Cardinality(S) = 0)
    BY <1>2, <1>3, <1>4 DEF IsLimited
  <2>2. IncidentIds(t, p) = <<>> <=> Len(IncidentIds(t, p)) = 0
    BY <2>1, EmptySeq
  <2> QED
    BY <1>4, <2>1, <2>2
<1> QED
  BY <1>5 DEF S, Matches, ComponentsOf

\* What an executor computes is a refusal of too much evidence, or the page of the matches.
Outcome(t, p, w) ==
  IF OverBudget(t, p, w) THEN Refused("resource_limit")
  ELSE Done(Cardinality(Matches(t, p)), IdsOf(t, p), VerdictOf(t, p), RowsOf(t, p, w))

LEMMA ListingIs ==
  ASSUME NEW t, CaseAssumption(t), NEW p, PlanAssumption(p), NEW w \in Pages,
         p.operation \in {"work_orders", "incidents", "inventory"}
  PROVE  Listing(t, p, w) = Outcome(t, p, w)
<1>1. Len(Sorted(Matches(t, p))) = Cardinality(Matches(t, p))
  BY MatchesFinite, SortedIs
<1>2. \A id : RowOf(t, p, w, id) = CASE p.operation = "work_orders" -> OrderEvidence(t, p, id)
                                     [] p.operation = "incidents"   -> IncidentEvidence(t, p, id)
                                     [] p.operation = "inventory"   -> ItemEvidence(t, p, id)
  BY DEF RowOf
<1>3. /\ ~OverBudget(t, p, w) /\ VerdictOf(t, p) = "matched" /\ IdsOf(t, p) = <<>>
  BY DEF OverBudget, VerdictOf, IdsOf
<1>4. Listing(t, p, w) = Done(Cardinality(Matches(t, p)), <<>>, "matched", RowsOf(t, p, w))
  BY <1>1, <1>2, Zenon DEF Listing, Each, RowsOf, PageIds
<1> QED
  BY <1>3, <1>4 DEF Outcome

LEMMA EquipmentIs ==
  ASSUME NEW t, CaseAssumption(t), NEW p, PlanAssumption(p), NEW w \in Pages,
         p.operation = "facility_equipment"
  PROVE  Equipment(t, p, w) = Outcome(t, p, w)
<1>1. Matches(t, p) = FacilitiesOf(t, p)
  BY DEF Matches
<1>2. Len(Sorted(FacilitiesOf(t, p))) = Cardinality(Matches(t, p))
  BY <1>1, MatchesFinite, SortedIs
<1>3. \A id : RowOf(t, p, w, id) = FacilityEvidence(t, id, UnitsRead(t, p, w), IncidentsRead(t, p, w))
  BY DEF RowOf
<1>4. VerdictOf(t, p) = "matched" /\ IdsOf(t, p) = <<>>
  BY DEF VerdictOf, IdsOf
<1>5. OverBudget(t, p, w) <=> \/ Len(UnitsRead(t, p, w)) > MaxEvidence
                              \/ Len(UnitsRead(t, p, w)) + Len(IncidentsRead(t, p, w)) > MaxEvidence
  BY DEF OverBudget
<1>6. PageIds(t, p, w) = Window(Sorted(FacilitiesOf(t, p)), w)
  BY <1>1 DEF PageIds
<1>7. Equipment(t, p, w) =
        IF \/ Len(UnitsRead(t, p, w)) > MaxEvidence
           \/ Len(UnitsRead(t, p, w)) + Len(IncidentsRead(t, p, w)) > MaxEvidence
        THEN Refused("resource_limit")
        ELSE Done(Len(Sorted(FacilitiesOf(t, p))), <<>>, "matched",
                  [i \in DOMAIN PageIds(t, p, w) |->
                     FacilityEvidence(t, PageIds(t, p, w)[i], UnitsRead(t, p, w), IncidentsRead(t, p, w))])
  BY <1>6, Zenon DEF Equipment, Each, UnitsRead, IncidentsRead
<1> QED
  BY <1>2, <1>3, <1>4, <1>5, <1>7, Zenon DEF Outcome, RowsOf

LEMMA StockIs ==
  ASSUME NEW t, CaseAssumption(t), NEW p, PlanAssumption(p), NEW w \in Pages,
         p.operation = "compatible_stock"
  PROVE  Stock(t, p, w) = Outcome(t, p, w)
<1>1. Matches(t, p) = ComponentsOf(t, p)
  BY DEF Matches
<1>2. Len(Sorted(ComponentsOf(t, p))) = Cardinality(Matches(t, p))
  BY <1>1, MatchesFinite, SortedIs
<1>3. \A id : RowOf(t, p, w, id) = StockEvidence(t, p, id)
  BY DEF RowOf
<1>4. /\ IdsOf(t, p) = IncidentIds(t, p)
      /\ VerdictOf(t, p) = IF p.incident_statuses # None /\ IncidentIds(t, p) = <<>>
                           THEN "no_incident_match" ELSE Verdict(Cardinality(Matches(t, p)), <<>>)
  BY DEF VerdictOf, IdsOf
<1>5. OverBudget(t, p, w) <=> \/ Len(IncidentIds(t, p)) > MaxEvidence
                              \/ Len(IncidentIds(t, p)) + Len(PageIds(t, p, w)) > MaxEvidence
  BY DEF OverBudget
<1>6. PageIds(t, p, w) = Window(Sorted(ComponentsOf(t, p)), w)
  BY <1>1 DEF PageIds
<1> DEFINE rows == [i \in DOMAIN PageIds(t, p, w) |-> StockEvidence(t, p, PageIds(t, p, w)[i])]
<1>7. rows = RowsOf(t, p, w)
  BY <1>3, Zenon DEF RowsOf
<1>8. Stock(t, p, w) =
        IF Len(IncidentIds(t, p)) > MaxEvidence THEN Refused("resource_limit")
        ELSE IF p.incident_statuses # None /\ IncidentIds(t, p) = <<>>
        THEN Done(0, <<>>, "no_incident_match", <<>>)
        ELSE IF Len(IncidentIds(t, p)) + Len(rows) > MaxEvidence THEN Refused("resource_limit")
        ELSE Done(Len(Sorted(ComponentsOf(t, p))), IncidentIds(t, p),
                  Verdict(Len(Sorted(ComponentsOf(t, p))), rows), rows)
  BY <1>6, Zenon DEF Stock, Each, IncidentIds
<1>9. Len(rows) = Len(PageIds(t, p, w)) /\ Len(PageIds(t, p, w)) \in Nat
  <2>1. DOMAIN rows = 1..Len(PageIds(t, p, w)) /\ Len(PageIds(t, p, w)) \in Nat
    BY PageIdsAre
  <2>2. rows \in Seq({rows[i] : i \in DOMAIN rows})
    BY <2>1
  <2> HIDE DEF rows
  <2> QED
    BY <2>1, <2>2, LenProperties
<1>10. ASSUME Matches(t, p) = {}
       PROVE  Cardinality(Matches(t, p)) = 0 /\ Len(PageIds(t, p, w)) = 0 /\ RowsOf(t, p, w) = <<>>
  <2>1. OnWindow(Matches(t, p), w) = {}
    BY <1>10 DEF OnWindow
  <2>2. Cardinality(Matches(t, p)) = 0 /\ Len(PageIds(t, p, w)) = 0
    BY <1>10, <2>1, PageIdsAre, FS_EmptySet
  <2>3. DOMAIN PageIds(t, p, w) = {}
    BY <2>2, PageIdsAre
  <2> QED
    BY <2>2, <2>3 DEF RowsOf
<1> HIDE DEF rows
<1>11. \A n : Verdict(n, rows) = Verdict(n, <<>>)
  BY DEF Verdict
<1>12. CASE p.incident_statuses # None /\ IncidentIds(t, p) = <<>>
  <2>1. Matches(t, p) = {} /\ Len(IncidentIds(t, p)) = 0
    BY <1>12, NoIncidentNoMatch
  <2>2. ~OverBudget(t, p, w) /\ ~(Len(IncidentIds(t, p)) > MaxEvidence)
    BY <1>5, <1>10, <2>1, DataAssumption
  <2> QED
    BY <1>4, <1>8, <1>10, <1>12, <2>1, <2>2, Zenon DEF Outcome
<1>13. CASE ~(p.incident_statuses # None /\ IncidentIds(t, p) = <<>>)
  BY <1>2, <1>4, <1>5, <1>7, <1>8, <1>9, <1>11, <1>13, Zenon DEF Outcome
<1> QED
  BY <1>12, <1>13

LEMMA ComputedIs ==
  ASSUME NEW t, CaseAssumption(t), NEW p, PlanAssumption(p), NEW w \in Pages
  PROVE  Computed(t, p, w) = Outcome(t, p, w)
<1>1. CASE p.operation = "facility_equipment"
  <2>1. Computed(t, p, w) = Equipment(t, p, w)
    BY <1>1, Zenon DEF Computed
  <2> QED
    BY <1>1, <2>1, EquipmentIs
<1>2. CASE p.operation = "compatible_stock"
  <2>1. Computed(t, p, w) = Stock(t, p, w)
    BY <1>2 DEF Computed
  <2> QED
    BY <1>2, <2>1, StockIs
<1>3. CASE p.operation \in {"work_orders", "incidents", "inventory"}
  <2>1. Computed(t, p, w) = Listing(t, p, w)
    BY <1>3 DEF Computed
  <2> QED
    BY <1>3, <2>1, ListingIs
<1> QED
  BY <1>1, <1>2, <1>3 DEF PlanAssumption

-----------------------------------------------------------------------------
(***************************************************************************)
(* The budget.  A query that asks for one record more than the budget sees *)
(* whether there are more, and what it has read otherwise is everything.   *)
(***************************************************************************)
UnitsNeeded(t, p, w) ==
  {u \in UnitsOf(t, p) : t.units[u].facility \in OnWindow(Matches(t, p), w)}

LEMMA UnitsReadAre ==
  ASSUME NEW t, CaseAssumption(t), NEW p, PlanAssumption(p), NEW w \in Pages
  PROVE  /\ UnitsNeeded(t, p, w) \in SUBSET Nat /\ IsFiniteSet(UnitsNeeded(t, p, w))
         /\ IsLimited(UnitsRead(t, p, w), UnitsNeeded(t, p, w), MaxEvidence + 1)
<1>1. MaxEvidence + Sentinel = MaxEvidence + 1 /\ MaxEvidence + 1 \in Nat
  BY DataAssumption DEF Sentinel
<1>2. UnitsNeeded(t, p, w) \in SUBSET UnitsOf(t, p)
  BY DEF UnitsNeeded
<1>3. UnitsNeeded(t, p, w) \in SUBSET Nat /\ IsFiniteSet(UnitsNeeded(t, p, w))
  BY <1>2, SupportingFinite, FS_Subset
<1>4. UnitsRead(t, p, w) = Limited(Sorted(UnitsNeeded(t, p, w)), MaxEvidence + 1)
  BY <1>1, PageIdsAre DEF UnitsRead, UnitsNeeded
<1> QED
  BY <1>1, <1>3, <1>4, LimitedIs

LEMMA IncidentsReadAre ==
  ASSUME NEW t, CaseAssumption(t), NEW p, PlanAssumption(p), NEW w \in Pages,
         Len(UnitsRead(t, p, w)) <= MaxEvidence
  PROVE  /\ ToSet(UnitsRead(t, p, w)) = UnitsNeeded(t, p, w)
         /\ Len(UnitsRead(t, p, w)) = Cardinality(UnitsNeeded(t, p, w))
         /\ Supporting(t, p, UnitsNeeded(t, p, w)) \in SUBSET Nat
         /\ IsFiniteSet(Supporting(t, p, UnitsNeeded(t, p, w)))
         /\ IsLimited(IncidentsRead(t, p, w), Supporting(t, p, UnitsNeeded(t, p, w)),
                      MaxEvidence - Cardinality(UnitsNeeded(t, p, w)) + 1)
<1> DEFINE N == Cardinality(UnitsNeeded(t, p, w))
           S == Supporting(t, p, UnitsNeeded(t, p, w))
<1>1. /\ IsLimited(UnitsRead(t, p, w), UnitsNeeded(t, p, w), MaxEvidence + 1)
      /\ IsFiniteSet(UnitsNeeded(t, p, w))
  BY UnitsReadAre
<1>2. N \in Nat /\ MaxEvidence \in Nat
  BY <1>1, FS_CardinalityType, DataAssumption
<1>3. Len(UnitsRead(t, p, w)) = IF N <= MaxEvidence + 1 THEN N ELSE MaxEvidence + 1
  BY <1>1 DEF IsLimited
<1>4. N <= MaxEvidence /\ N <= MaxEvidence + 1 /\ Len(UnitsRead(t, p, w)) = N
  BY <1>2, <1>3
<1>5. ToSet(UnitsRead(t, p, w)) = UnitsNeeded(t, p, w)
  BY <1>1, <1>4 DEF IsLimited
<1>6. S \in SUBSET Nat /\ IsFiniteSet(S)
  BY SupportingFinite
<1>7. MaxEvidence - N + 1 \in Nat /\ Sentinel = 1
  BY <1>2, <1>4 DEF Sentinel
<1>8. IncidentsRead(t, p, w) = Limited(Sorted(S), MaxEvidence - N + 1)
  BY <1>4, <1>5, <1>7 DEF IncidentsRead
<1>9. IsLimited(IncidentsRead(t, p, w), S, MaxEvidence - N + 1)
  BY <1>6, <1>7, <1>8, LimitedIs
<1> QED
  BY <1>4, <1>5, <1>6, <1>9

\* What has to be read for a page of facilities.
LEMMA EquipmentBudget ==
  ASSUME NEW t, CaseAssumption(t), NEW p, PlanAssumption(p), NEW w \in Pages,
         p.operation = "facility_equipment"
  PROVE  /\ OverBudget(t, p, w) <=>
              Cardinality(UnitsNeeded(t, p, w)) + Cardinality(Supporting(t, p, UnitsNeeded(t, p, w))) > MaxEvidence
         /\ ~OverBudget(t, p, w) =>
              /\ ToSet(UnitsRead(t, p, w)) = UnitsNeeded(t, p, w)
              /\ ToSet(IncidentsRead(t, p, w)) = Supporting(t, p, UnitsNeeded(t, p, w))
<1> DEFINE N == Cardinality(UnitsNeeded(t, p, w))
           S == Supporting(t, p, UnitsNeeded(t, p, w))
           M == Cardinality(S)
           units == Len(UnitsRead(t, p, w))
           incidents == Len(IncidentsRead(t, p, w))
<1>1. /\ IsLimited(UnitsRead(t, p, w), UnitsNeeded(t, p, w), MaxEvidence + 1)
      /\ IsFiniteSet(UnitsNeeded(t, p, w))
  BY UnitsReadAre
<1>2. S \in SUBSET Nat /\ IsFiniteSet(S)
  BY SupportingFinite
<1>3. N \in Nat /\ M \in Nat /\ MaxEvidence \in Nat
  BY <1>1, <1>2, FS_CardinalityType, DataAssumption
<1>4. units = IF N <= MaxEvidence + 1 THEN N ELSE MaxEvidence + 1
  BY <1>1 DEF IsLimited
<1>5. OverBudget(t, p, w) <=> units > MaxEvidence \/ units + incidents > MaxEvidence
  BY DEF OverBudget
<1>6. CASE units > MaxEvidence
  <2> HIDE DEF N, M, units, incidents
  <2>1. N > MaxEvidence /\ N + M > MaxEvidence
    BY <1>3, <1>4, <1>6
  <2> QED
    BY <1>5, <1>6, <2>1 DEF N, M, S
<1>7. CASE ~(units > MaxEvidence)
  <2>1. units <= MaxEvidence
    <3> HIDE DEF N, units
    <3> QED
      BY <1>3, <1>4, <1>7
  <2>2. /\ ToSet(UnitsRead(t, p, w)) = UnitsNeeded(t, p, w) /\ units = N
        /\ IsLimited(IncidentsRead(t, p, w), S, MaxEvidence - N + 1)
    BY <2>1, IncidentsReadAre
  <2>3. /\ incidents = IF M <= MaxEvidence - N + 1 THEN M ELSE MaxEvidence - N + 1
        /\ M <= MaxEvidence - N + 1 => ToSet(IncidentsRead(t, p, w)) = S
    BY <2>2 DEF IsLimited
  <2> HIDE DEF N, M, units, incidents, S
  <2>4. units + incidents > MaxEvidence <=> N + M > MaxEvidence
    BY <1>3, <2>1, <2>2, <2>3
  <2>5. ~(N + M > MaxEvidence) => M <= MaxEvidence - N + 1
    BY <1>3
  <2> QED
    BY <1>5, <1>7, <2>2, <2>3, <2>4, <2>5 DEF N, M, S
<1> QED
  BY <1>6, <1>7

\* What has to be read for a page of components, the unit's incidents included.
LEMMA StockBudget ==
  ASSUME NEW t, CaseAssumption(t), NEW p, PlanAssumption(p), NEW w \in Pages,
         p.operation = "compatible_stock"
  PROVE  /\ OverBudget(t, p, w) <=>
              Cardinality(OnWindow(Matches(t, p), w))
                + (IF p.incident_statuses # None THEN Cardinality(Supporting(t, p, {p.unit})) ELSE 0)
                > MaxEvidence
         /\ ~OverBudget(t, p, w) =>
              /\ Distinct(IncidentIds(t, p)) /\ IncidentIds(t, p) \in Seq(Nat)
              /\ p.incident_statuses # None => ToSet(IncidentIds(t, p)) = Supporting(t, p, {p.unit})
              /\ p.incident_statuses = None => IncidentIds(t, p) = <<>>
<1> DEFINE S == Supporting(t, p, {p.unit})
           M == Cardinality(S)
           N == Cardinality(OnWindow(Matches(t, p), w))
           ids == Len(IncidentIds(t, p))
<1>1. S \in SUBSET Nat /\ IsFiniteSet(S) /\ M \in Nat
  BY SupportingFinite, FS_CardinalityType
<1>2. N = Len(PageIds(t, p, w)) /\ N \in Nat /\ MaxEvidence \in Nat
  BY PageIdsAre, DataAssumption
<1>3. OverBudget(t, p, w) <=> ids > MaxEvidence \/ ids + N > MaxEvidence
  BY <1>2 DEF OverBudget
<1>4. CASE p.incident_statuses = None
  <2>1. IncidentIds(t, p) = <<>> /\ ids = 0
    BY <1>4 DEF IncidentIds
  <2>2. Distinct(IncidentIds(t, p)) /\ IncidentIds(t, p) \in Seq(Nat)
    BY <2>1, EmptySeq DEF Distinct
  <2>3. OverBudget(t, p, w) <=> N + 0 > MaxEvidence
    <3> HIDE DEF N, ids
    <3> QED
      BY <1>2, <1>3, <2>1
  <2> QED
    BY <1>4, <2>1, <2>2, <2>3
<1>5. CASE p.incident_statuses # None
  <2>1. MaxEvidence + Sentinel = MaxEvidence + 1 /\ MaxEvidence + 1 \in Nat
    BY <1>2 DEF Sentinel
  <2>2. IncidentIds(t, p) = Limited(Sorted(S), MaxEvidence + 1)
    BY <1>5, <2>1 DEF IncidentIds
  <2>3. IsLimited(IncidentIds(t, p), S, MaxEvidence + 1)
    BY <1>1, <2>1, <2>2, LimitedIs
  <2>4. /\ IncidentIds(t, p) \in Seq(S) /\ Distinct(IncidentIds(t, p))
        /\ ids = (IF M <= MaxEvidence + 1 THEN M ELSE MaxEvidence + 1)
        /\ M <= MaxEvidence + 1 => ToSet(IncidentIds(t, p)) = S
    BY <2>3 DEF IsLimited
  <2>5. IncidentIds(t, p) \in Seq(Nat)
    BY <1>1, <2>4
  <2> HIDE DEF M, N, ids, S
  <2>6. OverBudget(t, p, w) <=> N + M > MaxEvidence
    BY <1>1, <1>2, <1>3, <2>4
  <2>7. ~(N + M > MaxEvidence) => M <= MaxEvidence + 1
    BY <1>1, <1>2
  <2> QED
    BY <1>5, <2>4, <2>5, <2>6, <2>7 DEF M, N, S
<1> QED
  BY <1>4, <1>5

-----------------------------------------------------------------------------
(***************************************************************************)
(* Evidence rows, one by one.                                              *)
(***************************************************************************)
LEMMA RowsAre ==
  ASSUME NEW t, CaseAssumption(t), NEW p, PlanAssumption(p), NEW w \in Pages
  PROVE  /\ DOMAIN RowsOf(t, p, w) = 1..Len(PageIds(t, p, w))
         /\ Len(RowsOf(t, p, w)) = Len(PageIds(t, p, w)) /\ Len(PageIds(t, p, w)) \in Nat
         /\ \A i \in 1..Len(PageIds(t, p, w)) :
              /\ PageIds(t, p, w)[i] \in OnWindow(Matches(t, p), w)
              /\ RowsOf(t, p, w)[i] = RowOf(t, p, w, PageIds(t, p, w)[i])
         /\ ToSet(RowsOf(t, p, w)) = {RowOf(t, p, w, id) : id \in OnWindow(Matches(t, p), w)}
<1> DEFINE ids == PageIds(t, p, w)
           rows == RowsOf(t, p, w)
           S == OnWindow(Matches(t, p), w)
<1>1. DOMAIN ids = 1..Len(ids) /\ Len(ids) \in Nat /\ ToSet(ids) = S
  BY PageIdsAre
<1>2. /\ DOMAIN rows = 1..Len(ids)
      /\ \A i \in 1..Len(ids) : rows[i] = RowOf(t, p, w, ids[i])
  BY <1>1 DEF RowsOf
<1>3. rows = [i \in 1..Len(ids) |-> RowOf(t, p, w, ids[i])]
  BY <1>1 DEF RowsOf
<1>4. S = {ids[i] : i \in 1..Len(ids)}
  BY <1>1 DEF ToSet
<1>5. ToSet(rows) = {rows[i] : i \in 1..Len(ids)}
  BY <1>2 DEF ToSet
<1> HIDE DEF ids, rows, S
<1>6. rows \in Seq({rows[i] : i \in 1..Len(ids)})
  BY <1>1, <1>2, <1>3
<1>7. Len(rows) = Len(ids)
  BY <1>1, <1>2, <1>6, LenProperties
<1>8. ToSet(rows) = {RowOf(t, p, w, id) : id \in S}
  BY <1>2, <1>4, <1>5, Zenon
<1>9. \A i \in 1..Len(ids) : ids[i] \in S
  BY <1>4
<1> QED
  BY <1>1, <1>2, <1>7, <1>8, <1>9 DEF ids, rows, S

\* Overdue is never unknown.
LEMMA OverdueIs ==
  ASSUME NEW order, order.due \in Nat \cup {None}, NEW as_of \in Nat
  PROVE  /\ Overdue(order, as_of) \in BOOLEAN
         /\ Overdue(order, as_of) <=> /\ order.status \in Active
                                      /\ order.due # None /\ order.due < as_of
<1>1. None \notin BOOLEAN /\ None \notin Nat
  BY DataAssumption
<1>2. \A a \in BOOLEAN, b \in BOOLEAN : And(a, b) = (a /\ b)
  BY <1>1, Zenon DEF And
<1>3. \A a : And(a, FALSE) = FALSE /\ And(FALSE, a) = FALSE
  BY Zenon DEF And
<1>4. CASE order.due = None
  BY <1>3, <1>4, Zenon DEF Overdue
<1>5. CASE order.due # None
  <2>1. None \notin {order.due, as_of}
    BY <1>1, <1>5
  <2>2. Less(order.due, as_of) = (order.due < as_of)
    BY <2>1, Zenon DEF Less
  <2>3. (order.due < as_of) \in BOOLEAN /\ (order.status \in Active) \in BOOLEAN /\ (order.due # None) \in BOOLEAN
    OBVIOUS
  <2>4. And(order.due # None, order.due < as_of) = (order.due # None /\ order.due < as_of)
    BY <1>2, <2>3, Zenon
  <2>5. Overdue(order, as_of) = (order.status \in Active /\ (order.due # None /\ order.due < as_of))
    BY <1>2, <2>2, <2>3, <2>4, Zenon DEF Overdue
  <2> QED
    BY <2>5, Zenon
<1> QED
  BY <1>4, <1>5

UnitRowsOf(S) == [i \in DOMAIN Sorted(S) |-> [unit_id |-> Sorted(S)[i]]]

AreUnitRows(rows, S) ==
  /\ Len(rows) = Cardinality(S)
  /\ S # {} => rows # <<>>
  /\ {rows[i].unit_id : i \in DOMAIN rows} = S
  /\ ToSet(rows) = {[unit_id |-> u] : u \in S}

LEMMA UnitRows ==
  ASSUME NEW S \in SUBSET Nat, IsFiniteSet(S)
  PROVE  AreUnitRows(UnitRowsOf(S), S)
<1> DEFINE rows == UnitRowsOf(S)
<1>0. rows = [i \in DOMAIN Sorted(S) |-> [unit_id |-> Sorted(S)[i]]]
  BY DEF UnitRowsOf
<1> HIDE DEF rows
<1>1. /\ Cardinality(S) \in Nat /\ DOMAIN Sorted(S) = 1..Cardinality(S)
      /\ \A i \in S : \E n \in 1..Cardinality(S) : Sorted(S)[n] = i
      /\ \A n \in 1..Cardinality(S) : Sorted(S)[n] \in S
  BY SortedIs, LenProperties
<1>2. rows \in [1..Cardinality(S) -> {[unit_id |-> u] : u \in S}]
  BY <1>0, <1>1
<1>3. Len(rows) = Cardinality(S) /\ DOMAIN rows = 1..Cardinality(S)
  <2>1. rows \in Seq({[unit_id |-> u] : u \in S})
    BY <1>1, <1>2
  <2> QED
    BY <1>1, <1>2, <2>1, LenProperties
<1>4. \A n \in 1..Cardinality(S) : rows[n] = [unit_id |-> Sorted(S)[n]]
  BY <1>0, <1>1
<1>5. {rows[i].unit_id : i \in DOMAIN rows} = S
  <2>1. \A n \in 1..Cardinality(S) : rows[n].unit_id = Sorted(S)[n]
    <3>1. \A u : [unit_id |-> u].unit_id = u
      OBVIOUS
    <3> QED
      BY <1>4, <3>1, Zenon
  <2>2. \A i \in DOMAIN rows : rows[i].unit_id \in S
    BY <1>1, <1>3, <2>1, Zenon
  <2>3. \A u \in S : \E i \in DOMAIN rows : rows[i].unit_id = u
    BY <1>1, <1>3, <2>1
  <2>4. \A u : u \in {rows[i].unit_id : i \in DOMAIN rows} <=> \E i \in DOMAIN rows : rows[i].unit_id = u
    BY Zenon
  <2> QED
    BY <2>2, <2>3, <2>4, Zenon
<1>6. ToSet(rows) = {[unit_id |-> u] : u \in S}
  <2>1. ToSet(rows) = {rows[n] : n \in 1..Cardinality(S)}
    BY <1>3 DEF ToSet
  <2>2. \A r \in ToSet(rows) : r \in {[unit_id |-> u] : u \in S}
    BY <1>2, <2>1
  <2>3. \A u \in S : [unit_id |-> u] \in ToSet(rows)
    BY <1>1, <1>4, <2>1
  <2> QED
    BY <2>2, <2>3
<1>7. S # {} => rows # <<>>
  <2> SUFFICES ASSUME NEW u \in S PROVE rows # <<>>
    OBVIOUS
  <2>1. PICK n \in 1..Cardinality(S) : Sorted(S)[n] = u
    BY <1>1
  <2>2. n \in DOMAIN rows
    BY <1>3
  <2> QED
    BY <2>2
<1> QED
  BY <1>3, <1>5, <1>6, <1>7 DEF AreUnitRows, rows

IncidentRowsOf(t, S) ==
  [i \in DOMAIN Sorted(S) |->
     [incident_id |-> Sorted(S)[i], equipment_unit_id |-> t.incidents[Sorted(S)[i]].unit]]

AreIncidentRows(rows, t, S) ==
  /\ Len(rows) = Cardinality(S)
  /\ \A i \in DOMAIN rows : \E j \in S : rows[i].equipment_unit_id = t.incidents[j].unit
  /\ {rows[i].incident_id : i \in DOMAIN rows} = S
  /\ ToSet(rows) = {[incident_id |-> i, equipment_unit_id |-> t.incidents[i].unit] : i \in S}

LEMMA IncidentRows ==
  ASSUME NEW t, NEW S \in SUBSET Nat, IsFiniteSet(S)
  PROVE  AreIncidentRows(IncidentRowsOf(t, S), t, S)
<1> DEFINE rows == IncidentRowsOf(t, S)
<1>0. rows = [i \in DOMAIN Sorted(S) |->
                [incident_id |-> Sorted(S)[i], equipment_unit_id |-> t.incidents[Sorted(S)[i]].unit]]
  BY DEF IncidentRowsOf
<1> HIDE DEF rows
<1> DEFINE Row(i) == [incident_id |-> i, equipment_unit_id |-> t.incidents[i].unit]
<1>1. /\ Cardinality(S) \in Nat /\ DOMAIN Sorted(S) = 1..Cardinality(S)
      /\ \A i \in S : \E n \in 1..Cardinality(S) : Sorted(S)[n] = i
      /\ \A n \in 1..Cardinality(S) : Sorted(S)[n] \in S
  BY SortedIs, LenProperties
<1>2. /\ DOMAIN rows = 1..Cardinality(S)
      /\ \A n \in 1..Cardinality(S) : rows[n] = Row(Sorted(S)[n])
      /\ rows = [n \in 1..Cardinality(S) |-> Row(Sorted(S)[n])]
  BY <1>0, <1>1
<1>3. \A i : Row(i).incident_id = i /\ Row(i).equipment_unit_id = t.incidents[i].unit
  OBVIOUS
<1> HIDE DEF Row
<1>4. rows \in [1..Cardinality(S) -> {Row(i) : i \in S}]
  BY <1>1, <1>2
<1>5. Len(rows) = Cardinality(S)
  <2>1. rows \in Seq({Row(i) : i \in S})
    BY <1>1, <1>4
  <2> QED
    BY <1>1, <1>2, <2>1, LenProperties
<1>6. \A n \in 1..Cardinality(S) : /\ rows[n].incident_id = Sorted(S)[n]
                                   /\ rows[n].equipment_unit_id = t.incidents[Sorted(S)[n]].unit
  BY <1>2, <1>3, Zenon
<1>7. {rows[i].incident_id : i \in DOMAIN rows} = S
  <2>1. \A i \in DOMAIN rows : rows[i].incident_id \in S
    BY <1>1, <1>2, <1>6, Zenon
  <2>2. \A j \in S : \E i \in DOMAIN rows : rows[i].incident_id = j
    BY <1>1, <1>2, <1>6
  <2>3. \A j : j \in {rows[i].incident_id : i \in DOMAIN rows} <=> \E i \in DOMAIN rows : rows[i].incident_id = j
    BY Zenon
  <2> QED
    BY <2>1, <2>2, <2>3, Zenon
<1>8. \A i \in DOMAIN rows : \E j \in S : rows[i].equipment_unit_id = t.incidents[j].unit
  BY <1>1, <1>2, <1>6, Zenon
<1>9. ToSet(rows) = {Row(i) : i \in S}
  <2>1. ToSet(rows) = {rows[n] : n \in 1..Cardinality(S)}
    BY <1>2 DEF ToSet
  <2>2. \A r \in ToSet(rows) : r \in {Row(i) : i \in S}
    BY <1>4, <2>1
  <2>3. \A i \in S : Row(i) \in ToSet(rows)
    BY <1>1, <1>2, <2>1
  <2> QED
    BY <2>2, <2>3
<1> QED
  BY <1>5, <1>7, <1>8, <1>9 DEF Row, AreIncidentRows, rows

\* A facility's row lists its units of those read, and its incidents.
UnitsAt(t, p, w, f) == {u \in UnitsNeeded(t, p, w) : t.units[u].facility = f}

IncidentsAt(t, p, w, f) ==
  {i \in Supporting(t, p, UnitsNeeded(t, p, w)) : t.incidents[i].facility = f}

LEMMA FacilityRow ==
  ASSUME NEW t, CaseAssumption(t), NEW p, PlanAssumption(p), NEW w \in Pages,
         p.operation = "facility_equipment", ~OverBudget(t, p, w), NEW f,
         NEW row, row = RowOf(t, p, w, f)
  PROVE  /\ row.facility_id = f /\ DOMAIN row = {"facility_id", "units", "incidents"}
         /\ AreUnitRows(row.units, UnitsAt(t, p, w, f))
         /\ AreIncidentRows(row.incidents, t, IncidentsAt(t, p, w, f))
         /\ UnitsAt(t, p, w, f) \in SUBSET Nat /\ IsFiniteSet(UnitsAt(t, p, w, f))
         /\ IncidentsAt(t, p, w, f) \in SUBSET Nat /\ IsFiniteSet(IncidentsAt(t, p, w, f))
         /\ \A i \in IncidentsAt(t, p, w, f) : t.incidents[i].unit \in UnitsAt(t, p, w, f)
<1>1. /\ ToSet(UnitsRead(t, p, w)) = UnitsNeeded(t, p, w)
      /\ ToSet(IncidentsRead(t, p, w)) = Supporting(t, p, UnitsNeeded(t, p, w))
  BY EquipmentBudget
<1>2. row = FacilityEvidence(t, f, UnitsRead(t, p, w), IncidentsRead(t, p, w))
  BY DEF RowOf
<1>3. row = [facility_id |-> f, units |-> UnitRowsOf(UnitsAt(t, p, w, f)),
             incidents |-> IncidentRowsOf(t, IncidentsAt(t, p, w, f))]
  BY <1>1, <1>2, Zenon
  DEF FacilityEvidence, Each, UnitsAt, IncidentsAt, UnitRowsOf, IncidentRowsOf
<1>4. UnitsAt(t, p, w, f) \in SUBSET UnitsNeeded(t, p, w)
  BY DEF UnitsAt
<1>5. UnitsAt(t, p, w, f) \in SUBSET Nat /\ IsFiniteSet(UnitsAt(t, p, w, f))
  BY <1>4, UnitsReadAre, FS_Subset
<1>6. IncidentsAt(t, p, w, f) \in SUBSET Supporting(t, p, UnitsNeeded(t, p, w))
  BY DEF IncidentsAt
<1>7. IncidentsAt(t, p, w, f) \in SUBSET Nat /\ IsFiniteSet(IncidentsAt(t, p, w, f))
  BY <1>6, SupportingFinite, FS_Subset
<1>8. ASSUME NEW i \in IncidentsAt(t, p, w, f)
      PROVE  t.incidents[i].unit \in UnitsAt(t, p, w, f)
  <2>1. /\ i \in DOMAIN t.incidents /\ t.incidents[i].facility = f
        /\ t.incidents[i].unit \in UnitsNeeded(t, p, w)
    BY DEF IncidentsAt, Supporting
  <2>2. t.incidents[i].unit # None
    BY <2>1, UnitsReadAre, DataAssumption
  <2>3. t.units[t.incidents[i].unit].facility = t.incidents[i].facility
    BY <2>1, <2>2 DEF CaseAssumption
  <2> QED
    BY <2>1, <2>3 DEF UnitsAt
<1>9. /\ AreUnitRows(UnitRowsOf(UnitsAt(t, p, w, f)), UnitsAt(t, p, w, f))
      /\ AreIncidentRows(IncidentRowsOf(t, IncidentsAt(t, p, w, f)), t, IncidentsAt(t, p, w, f))
  BY <1>5, <1>7, UnitRows, IncidentRows
<1> QED
  BY <1>3, <1>5, <1>7, <1>8, <1>9

-----------------------------------------------------------------------------
(***************************************************************************)
(* What is computed is valid.                                              *)
(***************************************************************************)
LEMMA OrderRowValid ==
  ASSUME CaseAssumption(tables), PlanAssumption(plan), page \in Pages,
         plan.operation = "work_orders", NEW id \in OnWindow(Matches(tables, plan), page)
  PROVE  ValidRow(RowOf(tables, plan, page, id))
<1> DEFINE order == tables.orders[id]
           row == OrderEvidence(tables, plan, id)
<1>1. id \in DOMAIN tables.orders
  BY DEF OnWindow, Matches, OrdersOf
<1>2. order.due \in Nat \cup {None} /\ plan.as_of \in Nat
  BY <1>1 DEF CaseAssumption, PlanAssumption
<1>3. /\ Overdue(order, plan.as_of) \in BOOLEAN
      /\ Overdue(order, plan.as_of) <=> /\ order.status \in Active
                                        /\ order.due # None /\ order.due < plan.as_of
  BY <1>2, OverdueIs
<1>4. /\ row.overdue = Overdue(order, plan.as_of) /\ row.blocked = (row.status = "blocked")
      /\ row.due_at = order.due /\ row.status = order.status
      /\ row.originating_incident_id = order.incident
      /\ row.incident_equipment_unit_id =
           IF order.incident = None THEN None ELSE tables.incidents[order.incident].unit
  BY Zenon DEF OrderEvidence
<1>5. RowOf(tables, plan, page, id) = row
  BY DEF RowOf
<1> HIDE DEF row, order
<1>6. row.overdue \in BOOLEAN /\ row.blocked = (row.status = "blocked")
  BY <1>3, <1>4, Zenon
<1>7. row.overdue => row.due_at # None /\ row.status \in Active
  BY <1>3, <1>4, Zenon
<1>8. row.status \in Active => row.status \notin {"completed", "cancelled"}
  BY DEF Active
<1>9. row.originating_incident_id = None => row.incident_equipment_unit_id = None
  BY <1>4, Zenon
<1>10. /\ row.overdue \in BOOLEAN /\ row.blocked = (row.status = "blocked")
       /\ row.overdue => row.due_at # None /\ row.status \notin {"completed", "cancelled"}
       /\ row.originating_incident_id = None => row.incident_equipment_unit_id = None
  BY <1>6, <1>7, <1>8, <1>9, Zenon
<1> QED
  BY <1>5, <1>10, Zenon DEF ValidRow

\* A facility on the page is there because of a unit, which its row lists.
LEMMA FacilityRowValid ==
  ASSUME CaseAssumption(tables), PlanAssumption(plan), page \in Pages,
         ~OverBudget(tables, plan, page),
         plan.operation = "facility_equipment", NEW id \in OnWindow(Matches(tables, plan), page)
  PROVE  ValidRow(RowOf(tables, plan, page, id))
<1> DEFINE row == RowOf(tables, plan, page, id)
           U == UnitsAt(tables, plan, page, id)
           I == IncidentsAt(tables, plan, page, id)
<1>1. /\ AreUnitRows(row.units, U) /\ AreIncidentRows(row.incidents, tables, I)
      /\ \A i \in I : tables.incidents[i].unit \in U
  BY FacilityRow
<1>2. U # {}
  <2>1. id \in FacilitiesOf(tables, plan)
    BY DEF OnWindow, Matches
  <2>2. PICK u \in UnitsOf(tables, plan) : tables.units[u].facility = id
    BY <2>1 DEF FacilitiesOf
  <2>3. u \in UnitsAt(tables, plan, page, id)
    BY <2>2 DEF UnitsAt, UnitsNeeded
  <2> QED
    BY <2>3
<1> HIDE DEF row, U, I
<1> DEFINE units == {row.units[i].unit_id : i \in DOMAIN row.units}
           incidents == {row.incidents[i].incident_id : i \in DOMAIN row.incidents}
<1>3. row.units # <<>> /\ units = U /\ Cardinality(units) = Len(row.units)
  BY <1>1, <1>2 DEF AreUnitRows
<1>4. /\ incidents = I /\ Cardinality(incidents) = Len(row.incidents)
      /\ \A i \in DOMAIN row.incidents : \E j \in I : row.incidents[i].equipment_unit_id = tables.incidents[j].unit
  BY <1>1 DEF AreIncidentRows
<1>5. \A i \in DOMAIN row.incidents : row.incidents[i].equipment_unit_id \in units
  BY <1>1, <1>3, <1>4, Zenon
<1>6. ValidRow(row)
  BY <1>3, <1>4, <1>5, Zenon DEF ValidRow
<1> QED
  BY <1>6 DEF row

LEMMA StockRowValid ==
  ASSUME CaseAssumption(tables), PlanAssumption(plan), page \in Pages,
         plan.operation = "compatible_stock", NEW id \in OnWindow(Matches(tables, plan), page)
  PROVE  ValidRow(RowOf(tables, plan, page, id))
<1> DEFINE unit == tables.units[plan.unit]
           items == {i \in DOMAIN tables.items :
                       tables.items[i].component = id /\ tables.items[i].facility = unit.facility}
           item == IF items = {} THEN None ELSE CHOOSE i \in items : TRUE
           row == StockEvidence(tables, plan, id)
<1>1. /\ row.inventory_id = item
      /\ row.quantity_on_hand = IF item = None THEN None ELSE tables.items[item].quantity
  BY Zenon DEF StockEvidence
<1>2. \A i \in DOMAIN tables.items : tables.items[i].quantity \in Nat /\ i \in Nat
  BY DEF CaseAssumption
<1>3. item = None \/ item \in DOMAIN tables.items
  <2>1. items # {} => (CHOOSE i \in items : TRUE) \in items
    BY Zenon
  <2> QED
    BY <2>1
<1>4. None \notin Nat
  BY DataAssumption
<1>5. RowOf(tables, plan, page, id) = row
  BY DEF RowOf
<1> HIDE DEF row, item
<1>6. (row.inventory_id = None) = (row.quantity_on_hand = None)
  BY <1>1, <1>2, <1>3, <1>4
<1> QED
  BY <1>5, <1>6, Zenon DEF ValidRow

LEMMA RowValid ==
  ASSUME CaseAssumption(tables), PlanAssumption(plan), page \in Pages,
         ~OverBudget(tables, plan, page), NEW id \in OnWindow(Matches(tables, plan), page)
  PROVE  ValidRow(RowOf(tables, plan, page, id))
<1>1. CASE plan.operation = "incidents"
  BY <1>1, Zenon DEF ValidRow
<1>2. CASE plan.operation = "inventory"
  <2>1. RowOf(tables, plan, page, id) = ItemEvidence(tables, plan, id)
    BY <1>2 DEF RowOf
  <2>2. LET row == ItemEvidence(tables, plan, id)
        IN  row.shortfall = Max({0, row.reorder_point - row.quantity_on_hand})
    BY DEF ItemEvidence, Shortfall
  <2> QED
    BY <1>2, <2>1, <2>2, Zenon DEF ValidRow
<1> QED
  BY <1>1, <1>2, OrderRowValid, FacilityRowValid, StockRowValid DEF PlanAssumption

LEMMA OutcomeValid ==
  ASSUME CaseAssumption(tables), PlanAssumption(plan), page \in Pages,
         ~OverBudget(tables, plan, page)
  PROVE  Valid(Outcome(tables, plan, page))
<1> DEFINE r == Outcome(tables, plan, page)
           S == Matches(tables, plan)
           ids == PageIds(tables, plan, page)
           rows == RowsOf(tables, plan, page)
<1>1. /\ r.total = Cardinality(S) /\ r.rows = rows
      /\ r.incident_ids = IdsOf(tables, plan) /\ r.verdict = VerdictOf(tables, plan)
  BY DEF Outcome, Done
<1>2. /\ DOMAIN rows = 1..Len(ids) /\ Len(rows) = Len(ids) /\ Len(ids) \in Nat
      /\ \A i \in 1..Len(ids) : /\ ids[i] \in OnWindow(S, page)
                                /\ rows[i] = RowOf(tables, plan, page, ids[i])
  BY RowsAre
<1>3. Len(ids) <= Min({page.limit, Max({0, Cardinality(S) - page.offset})}) /\ Distinct(ids)
  BY PageIdsAre DEF IsWindow
<1>4. Cardinality(S) \in Nat
  BY MatchesFinite, FS_CardinalityType
<1> HIDE DEF r, ids, rows, S
<1>5. Len(r.rows) <= Min({page.limit, Max({0, r.total - page.offset})})
  BY <1>1, <1>2, <1>3, Zenon
<1>6. \A i \in DOMAIN r.rows : ValidRow(r.rows[i])
  BY <1>1, <1>2, RowValid DEF S
<1>7. ASSUME plan.operation = "incidents", NEW i \in DOMAIN r.rows, NEW j \in DOMAIN r.rows, i # j
      PROVE  r.rows[i].incident_id # r.rows[j].incident_id
  <2>1. \A id : RowOf(tables, plan, page, id).incident_id = id
    BY <1>7 DEF RowOf, IncidentEvidence
  <2>2. r.rows[i].incident_id = ids[i] /\ r.rows[j].incident_id = ids[j]
    BY <1>1, <1>2, <2>1
  <2> QED
    BY <1>1, <1>2, <1>3, <1>7, <2>2 DEF Distinct
<1>8. ASSUME plan.operation = "compatible_stock"
      PROVE  /\ Cardinality(ToSet(r.incident_ids)) = Len(r.incident_ids)
             /\ r.verdict = "no_incident_match" => r.incident_ids = <<>>
             /\ (r.verdict = "matched") = (r.total > 0)
  <2>1. /\ r.incident_ids = IncidentIds(tables, plan)
        /\ r.verdict = IF plan.incident_statuses # None /\ IncidentIds(tables, plan) = <<>>
                       THEN "no_incident_match" ELSE Verdict(Cardinality(S), <<>>)
    BY <1>1, <1>8 DEF IdsOf, VerdictOf, S
  <2>2. Distinct(IncidentIds(tables, plan)) /\ IncidentIds(tables, plan) \in Seq(Nat)
    BY <1>8, StockBudget
  <2>3. Cardinality(ToSet(r.incident_ids)) = Len(r.incident_ids)
    BY <2>1, <2>2, DistinctRows
  <2>4. Verdict(Cardinality(S), <<>>) = IF Cardinality(S) > 0 THEN "matched" ELSE "no_compatibility"
    BY DEF Verdict
  <2>5. r.verdict = "no_incident_match" => r.incident_ids = <<>>
    BY <2>1, <2>4
  <2>6. CASE plan.incident_statuses # None /\ IncidentIds(tables, plan) = <<>>
    <3>1. S = {}
      BY <1>8, <2>6, NoIncidentNoMatch DEF S
    <3>2. r.total = 0 /\ r.verdict = "no_incident_match"
      BY <1>1, <2>1, <2>6, <3>1, FS_EmptySet
    <3>3. (r.verdict = "matched") = (r.total > 0)
      BY <3>2
    <3> QED
      BY <2>3, <2>5, <3>3
  <2>7. CASE ~(plan.incident_statuses # None /\ IncidentIds(tables, plan) = <<>>)
    <3>1. r.verdict = IF Cardinality(S) > 0 THEN "matched" ELSE "no_compatibility"
      BY <2>1, <2>4, <2>7, Zenon
    <3>2. (r.verdict = "matched") = (r.total > 0)
      BY <1>1, <1>4, <3>1
    <3> QED
      BY <2>3, <2>5, <3>2
  <2> QED
    BY <2>6, <2>7
<1>9. Valid(r)
  BY <1>5, <1>6, <1>7, <1>8, Zenon DEF Valid
<1> QED
  BY <1>9 DEF r

-----------------------------------------------------------------------------
(***************************************************************************)
(* The inductive invariant: the snapshot is one of those described, and    *)
(* each of the two outcomes is the one its step computes from it.          *)
(***************************************************************************)
DataOK ==
  /\ \E case \in Cases : tables = case.tables /\ plan \in case.plans
  /\ page \in Pages

ResultOK ==
  \/ result = NoResult
  \/ Unknown(tables, plan) /\ result = Refused("not_found")
  \/ ~Unknown(tables, plan) /\ result = Outcome(tables, plan, page)

Answered ==
  /\ answer.status = "answered" /\ answer.claims = Summary
  /\ answer.text = Text /\ answer.references = References
  /\ answer.coverage = IF Whole THEN "complete" ELSE "partial"
  /\ \E selection \in Selections : Acceptable(selection) /\ answer.order = Order(selection)

Rendering ==
  \/ /\ result.total = 0
     /\ answer = Cautious(IF plan.operation = "compatible_stock" THEN result.verdict ELSE "no_results")
  \/ /\ result.total # 0 /\ result.rows = <<>>
     /\ answer = Cautious("insufficient_evidence")
  \/ /\ result.total # 0 /\ result.rows # <<>>
     /\ answer = Cautious("invalid_answer") \/ Answered

AnswerOK == answer = NoAnswer \/ (result.status = "done" /\ Rendering)

EvidenceInv == DataOK /\ ResultOK /\ AnswerOK

LEMMA DataTyped ==
  ASSUME DataOK
  PROVE  CaseAssumption(tables) /\ PlanAssumption(plan) /\ page \in Pages
BY DataAssumption DEF DataOK

LEMMA Statuses ==
  /\ NoResult.status = "none" /\ NoAnswer.status = "none"
  /\ \A kind : Refused(kind).status = "failed" /\ Refused(kind).kind = kind
  /\ \A total, ids, status, rows : Done(total, ids, status, rows).status = "done"
BY DEF NoResult, NoAnswer, Refused, Done

LEMMA InitEvidence ==
  ASSUME Init
  PROVE  EvidenceInv
BY DEF Init, EvidenceInv, DataOK, ResultOK, AnswerOK

LEMMA ExecuteEvidence ==
  ASSUME EvidenceInv, Execute
  PROVE  EvidenceInv'
<1>1. CaseAssumption(tables) /\ PlanAssumption(plan) /\ page \in Pages
  BY DataTyped DEF EvidenceInv
<1>2. Computed(tables, plan, page) = Outcome(tables, plan, page)
  BY <1>1, ComputedIs
<1>3. /\ result = NoResult
      /\ result' = IF Unknown(tables, plan) THEN Refused("not_found")
                   ELSE IF Outcome(tables, plan, page).status = "done" /\ ~Valid(Outcome(tables, plan, page))
                   THEN Refused("validation_error") ELSE Outcome(tables, plan, page)
      /\ tables' = tables /\ plan' = plan /\ page' = page /\ answer' = answer
  BY <1>2, Zenon DEF Execute
<1>4. Outcome(tables, plan, page).status = "done" => Valid(Outcome(tables, plan, page))
  <2>1. ~OverBudget(tables, plan, page) => Valid(Outcome(tables, plan, page))
    BY <1>1, OutcomeValid
  <2>2. OverBudget(tables, plan, page) => Outcome(tables, plan, page).status = "failed"
    BY Statuses, Zenon DEF Outcome
  <2> QED
    BY <2>1, <2>2
<1>5. ResultOK'
  <2>1. \/ Unknown(tables, plan) /\ result' = Refused("not_found")
        \/ ~Unknown(tables, plan) /\ result' = Outcome(tables, plan, page)
    BY <1>3, <1>4, Zenon
  <2>2. /\ Unknown(tables, plan)' = Unknown(tables, plan)
        /\ Outcome(tables, plan, page)' = Outcome(tables, plan, page)
    BY <1>3
  <2> QED
    BY <2>1, <2>2, Zenon DEF ResultOK
<1>6. answer = NoAnswer
  BY <1>3, Statuses DEF EvidenceInv, AnswerOK
<1>7. DataOK' /\ AnswerOK'
  BY <1>3, <1>6 DEF EvidenceInv, DataOK, AnswerOK
<1> QED
  BY <1>5, <1>7 DEF EvidenceInv

\* Of a turn whose result and request are given, the rendering is given.
LEMMA RenderingStays ==
  ASSUME plan' = plan, page' = page, result' = result
  PROVE  /\ Whole' = Whole /\ Summary' = Summary /\ Text' = Text /\ References' = References
         /\ Selections' = Selections
         /\ \A selection : /\ Acceptable(selection)' = Acceptable(selection)
                           /\ Order(selection)' = Order(selection)
<1>1. Whole' = Whole
  BY DEF Whole
<1>2. Summary' = Summary
  BY <1>1 DEF Summary
<1>3. \A row : Named(row)' = Named(row)
  BY DEF Named
<1>4. Text' = Text
  BY <1>3 DEF Text
<1>5. References' = References
  BY DEF References
<1>6. /\ Selections' = Selections
      /\ \A selection : /\ Acceptable(selection)' = Acceptable(selection)
                        /\ Order(selection)' = Order(selection)
  BY DEF Selections, Acceptable, Order
<1> QED
  BY <1>1, <1>2, <1>4, <1>5, <1>6

LEMMA RenderEvidence ==
  ASSUME EvidenceInv, Render
  PROVE  EvidenceInv'
<1>1. /\ result.status = "done" /\ tables' = tables /\ plan' = plan /\ page' = page /\ result' = result
  BY DEF Render
<1>2. PICK selection \in Selections, long \in BOOLEAN : answer' = Rendered(selection, long)
  BY DEF Render
<1>3. /\ Whole' = Whole /\ Summary' = Summary /\ Text' = Text /\ References' = References
      /\ Selections' = Selections
      /\ \A s : Acceptable(s)' = Acceptable(s) /\ Order(s)' = Order(s)
  BY <1>1, RenderingStays
<1> DEFINE a == answer'
           Full == [status |-> "answered", order |-> Order(selection), claims |-> Summary,
                    text |-> Text, references |-> References,
                    coverage |-> IF Whole THEN "complete" ELSE "partial"]
<1>4. /\ Full.status = "answered" /\ Full.claims = Summary
      /\ Full.text = Text /\ Full.references = References
      /\ Full.coverage = IF Whole THEN "complete" ELSE "partial"
      /\ Full.order = Order(selection)
  OBVIOUS
<1>5. \/ /\ result.total = 0
         /\ a = Cautious(IF plan.operation = "compatible_stock" THEN result.verdict ELSE "no_results")
      \/ /\ result.total # 0 /\ result.rows = <<>>
         /\ a = Cautious("insufficient_evidence")
      \/ /\ result.total # 0 /\ result.rows # <<>>
         /\ a = Cautious("invalid_answer") \/ (Acceptable(selection) /\ a = Full)
  <2> DEFINE refused == ~Acceptable(selection) \/ long \/ Cardinality(References) > MaxReferences
  <2>1. a = IF result.total = 0
            THEN Cautious(IF plan.operation = "compatible_stock" THEN result.verdict ELSE "no_results")
            ELSE IF result.rows = <<>> THEN Cautious("insufficient_evidence")
            ELSE IF refused THEN Cautious("invalid_answer") ELSE Full
    BY <1>2, Zenon DEF Rendered
  <2>2. ~refused => Acceptable(selection)
    OBVIOUS
  <2> HIDE DEF a, Full, refused
  <2> QED
    BY <2>1, <2>2
<1> HIDE DEF Full
<1>6. Rendering'
  <2>1. Acceptable(selection) /\ a = Full => Answered'
    <3> SUFFICES ASSUME Acceptable(selection), a = Full PROVE Answered'
      OBVIOUS
    <3>1. \E s \in Selections' : Acceptable(s)' /\ answer'.order = Order(s)'
      BY <1>3, <1>4
    <3>2. (\E s \in Selections : Acceptable(s) /\ answer.order = Order(s))'
      BY <3>1
    <3> QED
      BY <1>3, <1>4, <3>2 DEF Answered
  <2>2. result.total' = result.total /\ result.rows' = result.rows /\ result.verdict' = result.verdict
        /\ plan.operation' = plan.operation
    BY <1>1
  <2> QED
    BY <1>1, <1>5, <2>1, <2>2 DEF Rendering
<1>7. DataOK' /\ ResultOK' /\ AnswerOK'
  BY <1>1, <1>6 DEF EvidenceInv, DataOK, ResultOK, AnswerOK
<1> QED
  BY <1>7 DEF EvidenceInv

THEOREM EvidenceInductive == Spec => []EvidenceInv
<1>1. Init => EvidenceInv
  BY InitEvidence
<1>2. EvidenceInv /\ [Next]_vars => EvidenceInv'
  <2> SUFFICES ASSUME EvidenceInv, [Next]_vars PROVE EvidenceInv'
    OBVIOUS
  <2>1. CASE Execute
    BY <2>1, ExecuteEvidence
  <2>2. CASE Render
    BY <2>2, RenderEvidence
  <2>3. CASE UNCHANGED vars
    <3>1. tables' = tables /\ plan' = plan /\ page' = page /\ result' = result /\ answer' = answer
      BY <2>3 DEF vars
    <3>2. /\ Whole' = Whole /\ Summary' = Summary /\ Text' = Text /\ References' = References
          /\ Selections' = Selections
          /\ \A s : Acceptable(s)' = Acceptable(s) /\ Order(s)' = Order(s)
      BY <3>1, RenderingStays
    <3>3. Answered' = Answered
      BY <3>1, <3>2 DEF Answered
    <3>4. Rendering' = Rendering
      BY <3>1, <3>3 DEF Rendering
    <3> QED
      BY <3>1, <3>4 DEF EvidenceInv, DataOK, ResultOK, AnswerOK
  <2> QED
    BY <2>1, <2>2, <2>3 DEF Next
<1> QED
  BY <1>1, <1>2, PTL DEF Spec

\* An executed plan: what its result is.
LEMMA WhenDone ==
  ASSUME EvidenceInv, result.status = "done"
  PROVE  /\ CaseAssumption(tables) /\ PlanAssumption(plan) /\ page \in Pages
         /\ ~Unknown(tables, plan) /\ ~OverBudget(tables, plan, page)
         /\ result.total = Cardinality(Matches(tables, plan))
         /\ result.incident_ids = IdsOf(tables, plan)
         /\ result.verdict = VerdictOf(tables, plan)
         /\ result.rows = RowsOf(tables, plan, page)
<1>1. CaseAssumption(tables) /\ PlanAssumption(plan) /\ page \in Pages
  BY DataTyped DEF EvidenceInv
<1>2. ~Unknown(tables, plan) /\ result = Outcome(tables, plan, page)
  BY Statuses DEF EvidenceInv, ResultOK
<1>3. ~OverBudget(tables, plan, page)
  BY <1>2, Statuses DEF Outcome
<1>4. result = Done(Cardinality(Matches(tables, plan)), IdsOf(tables, plan),
                    VerdictOf(tables, plan), RowsOf(tables, plan, page))
  BY <1>2, <1>3 DEF Outcome
<1>5. \A total, ids, status, rows :
        /\ Done(total, ids, status, rows).total = total
        /\ Done(total, ids, status, rows).incident_ids = ids
        /\ Done(total, ids, status, rows).verdict = status
        /\ Done(total, ids, status, rows).rows = rows
  BY DEF Done
<1> QED
  BY <1>1, <1>2, <1>3, <1>4, <1>5

\* No plan over any snapshot fails on the contract of its own result: the validators of
\* contracts.py accept what the executors compute, unknown dates and missing items included.
THEOREM ResultsAreValid == Spec => []ResultsValid
<1>1. EvidenceInv => ResultsValid
  <2> SUFFICES ASSUME EvidenceInv PROVE ResultsValid
    OBVIOUS
  <2>1. \/ Outcome(tables, plan, page) = Refused("resource_limit")
        \/ Outcome(tables, plan, page).status = "done"
    BY Statuses DEF Outcome
  <2>2. \/ result = NoResult \/ result = Refused("not_found")
        \/ result = Refused("resource_limit") \/ result.status = "done"
    BY <2>1 DEF EvidenceInv, ResultOK
  <2> QED
    BY <2>2, Statuses DEF ResultsValid
<1> QED
  BY <1>1, EvidenceInductive, PTL

-----------------------------------------------------------------------------
(***************************************************************************)
(* Pages and evidence.                                                     *)
(***************************************************************************)
LEMMA IdOfRow ==
  ASSUME PlanAssumption(plan), NEW id
  PROVE  IdOf(RowOf(tables, plan, page, id)) = id
<1> DEFINE row == RowOf(tables, plan, page, id)
<1>1. CASE plan.operation = "work_orders"
  <2>1. row.work_order_id = id
    BY <1>1 DEF RowOf, OrderEvidence
  <2> QED
    BY <1>1, <2>1 DEF IdOf
<1>2. CASE plan.operation = "incidents"
  <2>1. row.incident_id = id
    BY <1>2 DEF RowOf, IncidentEvidence
  <2> QED
    BY <1>2, <2>1 DEF IdOf
<1>3. CASE plan.operation = "inventory"
  <2>1. row.inventory_id = id
    BY <1>3 DEF RowOf, ItemEvidence
  <2> QED
    BY <1>3, <2>1 DEF IdOf
<1>4. CASE plan.operation = "facility_equipment"
  <2>1. row.facility_id = id
    BY <1>4 DEF RowOf, FacilityEvidence
  <2> QED
    BY <1>4, <2>1 DEF IdOf
<1>5. CASE plan.operation = "compatible_stock"
  <2>1. row.component_id = id
    BY <1>5 DEF RowOf, StockEvidence
  <2> QED
    BY <1>5, <2>1 DEF IdOf
<1> QED
  BY <1>1, <1>2, <1>3, <1>4, <1>5 DEF PlanAssumption

LEMMA OnPageIs ==
  /\ \A id : Before(id) = Cardinality(Smaller(Matches(tables, plan), id))
  /\ OnPage = OnWindow(Matches(tables, plan), page)
BY DEF Before, Smaller, OnPage, OnWindow

\* The row at each place of a page is the match with as many before it as the place says,
\* and the total counts every match.
THEOREM PagesAreTiles == Spec => []PagesTile
<1>1. EvidenceInv => PagesTile
  <2> SUFFICES ASSUME EvidenceInv, result.status = "done"
               PROVE  /\ result.total = Cardinality(Matches(tables, plan))
                      /\ Len(result.rows) = Cardinality(OnPage)
                      /\ \A i \in DOMAIN result.rows :
                           /\ IdOf(result.rows[i]) \in OnPage
                           /\ Before(IdOf(result.rows[i])) = page.offset + i - 1
    BY DEF PagesTile
  <2> DEFINE ids == PageIds(tables, plan, page)
             S == Matches(tables, plan)
  <2>1. /\ CaseAssumption(tables) /\ PlanAssumption(plan) /\ page \in Pages
        /\ result.total = Cardinality(S) /\ result.rows = RowsOf(tables, plan, page)
    BY WhenDone
  <2>2. /\ DOMAIN result.rows = 1..Len(ids) /\ Len(result.rows) = Len(ids)
        /\ \A i \in 1..Len(ids) : result.rows[i] = RowOf(tables, plan, page, ids[i])
    BY <2>1, RowsAre
  <2>3. /\ Cardinality(OnWindow(S, page)) = Len(ids)
        /\ \A i \in 1..Len(ids) : /\ ids[i] \in OnWindow(S, page)
                                  /\ Cardinality(Smaller(S, ids[i])) = page.offset + i - 1
    <3>1. IsWindow(ids, S, page) /\ Cardinality(OnWindow(S, page)) = Len(ids)
      BY <2>1, PageIdsAre
    <3> HIDE DEF ids, S
    <3> QED
      BY <3>1 DEF IsWindow
  <2> HIDE DEF ids, S
  <2>4. \A i \in 1..Len(ids) : IdOf(result.rows[i]) = ids[i]
    BY <2>1, <2>2, IdOfRow
  <2>5. /\ \A id : Before(id) = Cardinality(Smaller(S, id))
        /\ OnPage = OnWindow(S, page)
    BY OnPageIs DEF S
  <2> QED
    BY <2>1, <2>2, <2>3, <2>4, <2>5 DEF S
<1> QED
  BY <1>1, EvidenceInductive, PTL

\* Two pages of one list that follow each other share no row and are, together, the page
\* over both: a caller that adds its limit to its offset misses nothing and sees nothing
\* twice, while the snapshot stays what it is.
THEOREM PagesMeet ==
  ASSUME NEW S \in SUBSET Nat, IsFiniteSet(S), NEW first \in [offset : Nat, limit : Nat \ {0}],
         NEW next \in [offset : Nat, limit : Nat \ {0}], next.offset = first.offset + first.limit,
         NEW both, both = [offset |-> first.offset, limit |-> first.limit + next.limit]
  PROVE  LET Rows(w) == ToSet(Window(Sorted(S), w))
         IN  /\ Rows(first) \cap Rows(next) = {}
             /\ Rows(first) \cup Rows(next) = Rows(both)
<1>1. both \in [offset : Nat, limit : Nat \ {0}]
  OBVIOUS
<1>2. /\ ToSet(Window(Sorted(S), first)) = OnWindow(S, first)
      /\ ToSet(Window(Sorted(S), next)) = OnWindow(S, next)
      /\ ToSet(Window(Sorted(S), both)) = OnWindow(S, both)
  BY <1>1, WindowCount
<1>3. \A i \in S : Cardinality(Smaller(S, i)) \in Nat
  BY Ranks, FS_CardinalityType
<1> DEFINE a == first.offset
           m == first.limit
           n == next.limit
<1>4. /\ a \in Nat /\ m \in Nat /\ n \in Nat /\ next.offset = a + m
      /\ both.offset = a /\ both.limit = m + n
  OBVIOUS
<1>5. /\ \A i : i \in OnWindow(S, first) <=>
             i \in S /\ a <= Cardinality(Smaller(S, i)) /\ Cardinality(Smaller(S, i)) < a + m
      /\ \A i : i \in OnWindow(S, next) <=>
             i \in S /\ a + m <= Cardinality(Smaller(S, i)) /\ Cardinality(Smaller(S, i)) < a + m + n
      /\ \A i : i \in OnWindow(S, both) <=>
             i \in S /\ a <= Cardinality(Smaller(S, i)) /\ Cardinality(Smaller(S, i)) < a + m + n
  BY <1>4 DEF OnWindow
<1> HIDE DEF a, m, n
<1>6. ASSUME NEW i
      PROVE  /\ ~(i \in OnWindow(S, first) /\ i \in OnWindow(S, next))
             /\ i \in OnWindow(S, both) <=> i \in OnWindow(S, first) \/ i \in OnWindow(S, next)
  <2> DEFINE rank == Cardinality(Smaller(S, i))
  <2>1. i \in S => rank \in Nat
    BY <1>3
  <2>2. /\ i \in OnWindow(S, first) <=> i \in S /\ a <= rank /\ rank < a + m
        /\ i \in OnWindow(S, next) <=> i \in S /\ a + m <= rank /\ rank < a + m + n
        /\ i \in OnWindow(S, both) <=> i \in S /\ a <= rank /\ rank < a + m + n
    BY <1>5
  <2> HIDE DEF rank
  <2> QED
    BY <1>4, <2>1, <2>2
<1>7. /\ OnWindow(S, first) \cap OnWindow(S, next) = {}
      /\ OnWindow(S, first) \cup OnWindow(S, next) = OnWindow(S, both)
  BY <1>6
<1> QED
  BY <1>2, <1>7

\* A page from the start that is as long as the list is the list: with PagesMeet, pages laid
\* end to end hold every match.
THEOREM PagesReachTheEnd ==
  ASSUME NEW S \in SUBSET Nat, IsFiniteSet(S), NEW n \in Nat \ {0}, Cardinality(S) <= n
  PROVE  ToSet(Window(Sorted(S), [offset |-> 0, limit |-> n])) = S
<1> DEFINE w == [offset |-> 0, limit |-> n]
<1>1. w \in [offset : Nat, limit : Nat \ {0}]
  OBVIOUS
<1>2. ToSet(Window(Sorted(S), w)) = OnWindow(S, w)
  BY <1>1, WindowCount
<1>3. \A i \in S : Cardinality(Smaller(S, i)) \in 0 .. Cardinality(S) - 1 /\ Cardinality(S) \in Nat
  BY Ranks, FS_CardinalityType
<1>4. \A i \in S : w.offset <= Cardinality(Smaller(S, i)) /\ Cardinality(Smaller(S, i)) < w.offset + w.limit
  <2>1. w.offset = 0 /\ w.limit = n
    OBVIOUS
  <2> TAKE i \in S
  <2> DEFINE rank == Cardinality(Smaller(S, i))
             size == Cardinality(S)
  <2>2. rank \in 0 .. size - 1 /\ size \in Nat /\ size <= n
    BY <1>3
  <2> HIDE DEF rank, size, w
  <2>3. 0 <= rank /\ rank < 0 + n
    BY <2>2
  <2> QED
    BY <2>1, <2>3 DEF rank
<1>5. OnWindow(S, w) = S
  <2> HIDE DEF w
  <2> QED
    BY <1>4 DEF OnWindow
<1> QED
  BY <1>2, <1>5

\* What is over the budget, in the words of the property.
LEMMA BudgetIs ==
  ASSUME CaseAssumption(tables), PlanAssumption(plan), page \in Pages
  PROVE  LET incidents == Supporting(tables, plan, UnitsOnPage)
             records ==
               CASE plan.operation = "facility_equipment" -> Cardinality(UnitsOnPage) + Cardinality(incidents)
                 [] plan.operation = "compatible_stock" ->
                      Cardinality(OnPage) + (IF plan.incident_statuses # None THEN Cardinality(incidents) ELSE 0)
                 [] OTHER -> 0
         IN  OverBudget(tables, plan, page) <=> records > MaxEvidence
<1>1. OnPage = OnWindow(Matches(tables, plan), page)
  BY OnPageIs
<1>2. CASE plan.operation = "facility_equipment"
  <2>1. UnitsOnPage = UnitsNeeded(tables, plan, page)
    BY <1>1, <1>2 DEF UnitsOnPage, UnitsNeeded
  <2>2. OverBudget(tables, plan, page) <=>
          Cardinality(UnitsOnPage) + Cardinality(Supporting(tables, plan, UnitsOnPage)) > MaxEvidence
    BY <1>2, <2>1, EquipmentBudget
  <2> QED
    BY <1>2, <2>2, Zenon
<1>3. CASE plan.operation = "compatible_stock"
  <2>1. UnitsOnPage = {plan.unit}
    BY <1>3 DEF UnitsOnPage
  <2>2. OverBudget(tables, plan, page) <=>
          Cardinality(OnPage)
            + (IF plan.incident_statuses # None THEN Cardinality(Supporting(tables, plan, UnitsOnPage)) ELSE 0)
            > MaxEvidence
    BY <1>1, <1>3, <2>1, StockBudget
  <2>3. plan.operation # "facility_equipment"
    BY <1>3
  <2> QED
    BY <1>3, <2>2, <2>3
<1>4. CASE plan.operation \notin {"facility_equipment", "compatible_stock"}
  <2>1. ~OverBudget(tables, plan, page) /\ ~(0 > MaxEvidence)
    BY <1>4, DataAssumption DEF OverBudget
  <2>2. plan.operation # "facility_equipment" /\ plan.operation # "compatible_stock"
    BY <1>4
  <2> QED
    BY <2>1, <2>2
<1> QED
  BY <1>2, <1>3, <1>4

\* The units and incidents a facility's row lists are all there are.
LEMMA FacilityRowWhole ==
  ASSUME CaseAssumption(tables), PlanAssumption(plan), page \in Pages,
         plan.operation = "facility_equipment", ~OverBudget(tables, plan, page),
         NEW f, NEW row, row = RowOf(tables, plan, page, f)
  PROVE  /\ row.facility_id = f
         /\ {unit.unit_id : unit \in ToSet(row.units)} = {u \in UnitsOnPage : tables.units[u].facility = f}
         /\ {i.incident_id : i \in ToSet(row.incidents)} =
              {i \in Supporting(tables, plan, UnitsOnPage) : tables.units[tables.incidents[i].unit].facility = f}
<1> DEFINE U == UnitsAt(tables, plan, page, f)
           I == IncidentsAt(tables, plan, page, f)
<1>1. /\ row.facility_id = f
      /\ AreUnitRows(row.units, U) /\ AreIncidentRows(row.incidents, tables, I)
  BY FacilityRow
<1>2. UnitsOnPage = UnitsNeeded(tables, plan, page)
  BY OnPageIs DEF UnitsOnPage, UnitsNeeded
<1>3. U = {u \in UnitsOnPage : tables.units[u].facility = f}
  BY <1>2 DEF UnitsAt
<1>4. I = {i \in Supporting(tables, plan, UnitsOnPage) : tables.units[tables.incidents[i].unit].facility = f}
  <2>1. ASSUME NEW i \in Supporting(tables, plan, UnitsOnPage)
        PROVE  tables.units[tables.incidents[i].unit].facility = tables.incidents[i].facility
    <3>1. i \in DOMAIN tables.incidents /\ tables.incidents[i].unit \in UnitsOnPage
      BY DEF Supporting
    <3>2. tables.incidents[i].unit # None
      BY <1>2, <3>1, UnitsReadAre, DataAssumption
    <3> QED
      BY <3>1, <3>2 DEF CaseAssumption
  <2> QED
    BY <1>2, <2>1, Zenon DEF IncidentsAt
<1> HIDE DEF U, I
<1>5. {unit.unit_id : unit \in ToSet(row.units)} = U
  <2> DEFINE Unit(u) == [unit_id |-> u]
  <2>1. ToSet(row.units) = {Unit(u) : u \in U}
    BY <1>1 DEF AreUnitRows
  <2>2. \A u : Unit(u).unit_id = u
    OBVIOUS
  <2> HIDE DEF Unit
  <2> QED
    BY <2>1, <2>2
<1>6. {i.incident_id : i \in ToSet(row.incidents)} = I
  <2> DEFINE Incident(i) == [incident_id |-> i, equipment_unit_id |-> tables.incidents[i].unit]
  <2>1. ToSet(row.incidents) = {Incident(i) : i \in I}
    BY <1>1 DEF AreIncidentRows
  <2>2. \A i : Incident(i).incident_id = i
    OBVIOUS
  <2> HIDE DEF Incident
  <2> QED
    BY <2>1, <2>2
<1> QED
  BY <1>1, <1>3, <1>4, <1>5, <1>6

\* An equipment query is refused exactly when its page needs more records than the budget,
\* and otherwise its evidence is all of them.
THEOREM EvidenceIsWhole == Spec => []EvidenceWhole
<1>1. EvidenceInv => EvidenceWhole
  <2> SUFFICES ASSUME EvidenceInv PROVE EvidenceWhole
    OBVIOUS
  <2> DEFINE incidents == Supporting(tables, plan, UnitsOnPage)
             records ==
               CASE plan.operation = "facility_equipment" -> Cardinality(UnitsOnPage) + Cardinality(incidents)
                 [] plan.operation = "compatible_stock" ->
                      Cardinality(OnPage) + (IF plan.incident_statuses # None THEN Cardinality(incidents) ELSE 0)
                 [] OTHER -> 0
  <2>1. CaseAssumption(tables) /\ PlanAssumption(plan) /\ page \in Pages
    BY DataTyped DEF EvidenceInv
  <2>2. OverBudget(tables, plan, page) <=> records > MaxEvidence
    BY <2>1, BudgetIs
  <2> HIDE DEF records
  <2>3. ASSUME result.status # "none", ~Unknown(tables, plan)
        PROVE  (result = Refused("resource_limit")) = (records > MaxEvidence)
    <3>1. result = Outcome(tables, plan, page)
      BY <2>3, Statuses DEF EvidenceInv, ResultOK
    <3>2. OverBudget(tables, plan, page) <=> result = Refused("resource_limit")
      BY <3>1, Statuses DEF Outcome
    <3> QED
      BY <2>2, <3>2
  <2>4. ASSUME result.status = "done", plan.operation = "facility_equipment",
               NEW row \in ToSet(result.rows)
        PROVE  /\ {unit.unit_id : unit \in ToSet(row.units)} =
                    {u \in UnitsOnPage : tables.units[u].facility = row.facility_id}
               /\ {i.incident_id : i \in ToSet(row.incidents)} =
                    {i \in incidents : tables.units[tables.incidents[i].unit].facility = row.facility_id}
    <3>1. ~OverBudget(tables, plan, page) /\ result.rows = RowsOf(tables, plan, page)
      BY <2>4, WhenDone
    <3>2. PICK f \in OnWindow(Matches(tables, plan), page) : row = RowOf(tables, plan, page, f)
      BY <2>1, <2>4, <3>1, RowsAre
    <3>3. /\ row.facility_id = f
          /\ {unit.unit_id : unit \in ToSet(row.units)} = {u \in UnitsOnPage : tables.units[u].facility = f}
          /\ {i.incident_id : i \in ToSet(row.incidents)} =
               {i \in incidents : tables.units[tables.incidents[i].unit].facility = f}
      BY <2>1, <2>4, <3>1, <3>2, FacilityRowWhole
    <3> QED
      BY <3>3, Zenon
  <2>5. ASSUME result.status = "done", plan.operation = "compatible_stock", plan.incident_statuses # None
        PROVE  ToSet(result.incident_ids) = incidents
    <3>1. ~OverBudget(tables, plan, page) /\ result.incident_ids = IdsOf(tables, plan)
      BY <2>5, WhenDone
    <3>2. ToSet(IncidentIds(tables, plan)) = Supporting(tables, plan, {plan.unit})
      BY <2>1, <2>5, <3>1, StockBudget
    <3>3. UnitsOnPage = {plan.unit} /\ IdsOf(tables, plan) = IncidentIds(tables, plan)
      BY <2>5 DEF UnitsOnPage, IdsOf
    <3> QED
      BY <3>1, <3>2, <3>3
  <2> QED
    BY <2>3, <2>4, <2>5, Zenon DEF EvidenceWhole, records
<1> QED
  BY <1>1, EvidenceInductive, PTL

-----------------------------------------------------------------------------
(***************************************************************************)
(* Filters that split what matches without them.                           *)
(***************************************************************************)
Splits(one, other) ==
  /\ Matches(tables, one) \cap Matches(tables, other) = {}
  /\ Matches(tables, one) \cup Matches(tables, other) = Matches(tables, plan)

LEMMA OverdueSplits ==
  ASSUME CaseAssumption(tables), PlanAssumption(plan),
         plan.operation = "work_orders", plan.overdue = None
  PROVE  Splits([plan EXCEPT !.overdue = TRUE], [plan EXCEPT !.overdue = FALSE])
<1> DEFINE With(b) == [plan EXCEPT !.overdue = b]
           Rest(o) == LET order == tables.orders[o]
                      IN  /\ AtFacility(plan, order.facility) /\ In(plan.statuses, order.status)
                          /\ Equals(plan.unit, order.target) /\ Equals(plan.incident, order.incident)
           Late(o) == Overdue(tables.orders[o], plan.as_of)
<1>1. ASSUME NEW b
      PROVE  /\ With(b).operation = "work_orders" /\ With(b).overdue = b /\ With(b).as_of = plan.as_of
             /\ With(b).facility = plan.facility /\ With(b).type = plan.type
             /\ With(b).statuses = plan.statuses /\ With(b).unit = plan.unit
             /\ With(b).incident = plan.incident
  BY DEF PlanAssumption
<1> HIDE DEF With
<1>2. ASSUME NEW b
      PROVE  OrdersOf(tables, With(b)) = {o \in DOMAIN tables.orders : Rest(o) /\ Equals(b, Late(o))}
  BY <1>1 DEF OrdersOf, AtFacility
<1>3. OrdersOf(tables, plan) = {o \in DOMAIN tables.orders : Rest(o) /\ Equals(None, Late(o))}
  BY DEF OrdersOf
<1>4. \A o \in DOMAIN tables.orders : Late(o) \in BOOLEAN
  BY OverdueIs DEF CaseAssumption, PlanAssumption
<1>5. None \notin BOOLEAN
  BY DataAssumption
<1>6. \A b : Matches(tables, With(b)) = OrdersOf(tables, With(b))
  BY <1>1 DEF Matches
<1>7. Matches(tables, plan) = OrdersOf(tables, plan)
  BY DEF Matches
<1> HIDE DEF Rest, Late
<1>8. \A o \in DOMAIN tables.orders : Late(o) = TRUE \/ Late(o) = FALSE
  BY <1>4, Zenon
<1>9. ASSUME NEW b \in BOOLEAN, NEW o
      PROVE  o \in Matches(tables, With(b)) <=> o \in DOMAIN tables.orders /\ Rest(o) /\ Late(o) = b
  <2>1. Matches(tables, With(b)) = {j \in DOMAIN tables.orders : Rest(j) /\ Equals(b, Late(j))}
    BY <1>2, <1>6
  <2>2. o \in DOMAIN tables.orders => (Equals(b, Late(o)) <=> Late(o) = b)
    BY <1>4, <1>5 DEF Equals
  <2> QED
    BY <2>1, <2>2, Zenon
<1>10. \A o : o \in Matches(tables, plan) <=> o \in DOMAIN tables.orders /\ Rest(o)
  <2>1. \A o : Equals(None, Late(o))
    BY DEF Equals
  <2> QED
    BY <1>3, <1>7, <2>1, Zenon
<1>11. \A o : o \in Matches(tables, With(TRUE)) <=> o \in DOMAIN tables.orders /\ Rest(o) /\ Late(o) = TRUE
  BY <1>9
<1>12. \A o : o \in Matches(tables, With(FALSE)) <=> o \in DOMAIN tables.orders /\ Rest(o) /\ Late(o) = FALSE
  BY <1>9
<1>13. Splits(With(TRUE), With(FALSE))
  BY <1>8, <1>10, <1>11, <1>12, Zenon DEF Splits
<1> QED
  BY <1>13 DEF With

LEMMA BelowSplits ==
  ASSUME CaseAssumption(tables), PlanAssumption(plan),
         plan.operation = "inventory", plan.below = None
  PROVE  Splits([plan EXCEPT !.below = TRUE], [plan EXCEPT !.below = FALSE])
<1> DEFINE With(b) == [plan EXCEPT !.below = b]
           Rest(i) == LET item == tables.items[i]
                      IN  /\ AtFacility(plan, item.facility) /\ Equals(plan.component, item.component)
                          /\ plan.model # None => <<plan.model, item.component>> \in tables.links
                          /\ Compares(plan.quantity, item.quantity)
           Low(i) == Below(tables.items[i])
<1>1. ASSUME NEW b
      PROVE  /\ With(b).operation = "inventory" /\ With(b).below = b
             /\ With(b).facility = plan.facility /\ With(b).type = plan.type
             /\ With(b).component = plan.component /\ With(b).model = plan.model
             /\ With(b).quantity = plan.quantity
  BY DEF PlanAssumption
<1> HIDE DEF With
<1>2. ASSUME NEW b
      PROVE  ItemsOf(tables, With(b)) = {i \in DOMAIN tables.items : Rest(i) /\ Equals(b, Low(i))}
  BY <1>1 DEF ItemsOf, AtFacility
<1>3. ItemsOf(tables, plan) = {i \in DOMAIN tables.items : Rest(i) /\ Equals(None, Low(i))}
  BY DEF ItemsOf
<1>4. \A i : Low(i) \in BOOLEAN
  BY DEF Below
<1>5. None \notin BOOLEAN
  BY DataAssumption
<1>6. \A b : Matches(tables, With(b)) = ItemsOf(tables, With(b))
  BY <1>1 DEF Matches
<1>7. Matches(tables, plan) = ItemsOf(tables, plan)
  BY DEF Matches
<1> HIDE DEF Rest, Low
<1>8. \A i : Low(i) = TRUE \/ Low(i) = FALSE
  BY <1>4, Zenon
<1>9. ASSUME NEW b \in BOOLEAN, NEW i
      PROVE  i \in Matches(tables, With(b)) <=> i \in DOMAIN tables.items /\ Rest(i) /\ Low(i) = b
  <2>1. Matches(tables, With(b)) = {j \in DOMAIN tables.items : Rest(j) /\ Equals(b, Low(j))}
    BY <1>2, <1>6
  <2>2. i \in DOMAIN tables.items => (Equals(b, Low(i)) <=> Low(i) = b)
    BY <1>4, <1>5 DEF Equals
  <2> QED
    BY <2>1, <2>2, Zenon
<1>10. \A i : i \in Matches(tables, plan) <=> i \in DOMAIN tables.items /\ Rest(i)
  <2>1. \A i : Equals(None, Low(i))
    BY DEF Equals
  <2> QED
    BY <1>3, <1>7, <2>1, Zenon
<1>11. \A i : i \in Matches(tables, With(TRUE)) <=> i \in DOMAIN tables.items /\ Rest(i) /\ Low(i) = TRUE
  BY <1>9
<1>12. \A i : i \in Matches(tables, With(FALSE)) <=> i \in DOMAIN tables.items /\ Rest(i) /\ Low(i) = FALSE
  BY <1>9
<1>13. Splits(With(TRUE), With(FALSE))
  BY <1>8, <1>10, <1>11, <1>12, Zenon DEF Splits
<1> QED
  BY <1>13 DEF With

LEMMA WindowSplits ==
  ASSUME CaseAssumption(tables), PlanAssumption(plan),
         plan.operation = "incidents", plan.occurred # None,
         NEW middle \in plan.occurred.start + 1 .. plan.occurred.end - 1
  PROVE  Splits([plan EXCEPT !.occurred.end = middle], [plan EXCEPT !.occurred.start = middle])
<1> DEFINE first == [plan EXCEPT !.occurred.end = middle]
           second == [plan EXCEPT !.occurred.start = middle]
           Rest(i) == LET incident == tables.incidents[i]
                      IN  /\ AtFacility(plan, incident.facility) /\ In(plan.statuses, incident.status)
                          /\ Equals(plan.unit, incident.unit) /\ Equals(plan.fault, incident.fault)
                          /\ plan.model # None =>
                               incident.unit # None /\ tables.units[incident.unit].model = plan.model
           at(i) == tables.incidents[i].at
           start == plan.occurred.start
           end == plan.occurred.end
<1>1. /\ first.operation = "incidents" /\ first.occurred.start = start /\ first.occurred.end = middle
      /\ first.facility = plan.facility /\ first.type = plan.type /\ first.statuses = plan.statuses
      /\ first.unit = plan.unit /\ first.fault = plan.fault /\ first.model = plan.model
  BY DEF PlanAssumption
<1>2. /\ second.operation = "incidents" /\ second.occurred.start = middle /\ second.occurred.end = end
      /\ second.facility = plan.facility /\ second.type = plan.type /\ second.statuses = plan.statuses
      /\ second.unit = plan.unit /\ second.fault = plan.fault /\ second.model = plan.model
  BY DEF PlanAssumption
<1>3. /\ start \in Nat /\ end \in Nat /\ middle \in Nat /\ start < middle /\ middle < end
      /\ \A i \in DOMAIN tables.incidents : at(i) \in Nat
  BY DEF PlanAssumption, CaseAssumption
<1>4. first.occurred # None /\ second.occurred # None
  <2>1. DOMAIN plan.occurred = {"start", "end"}
    BY DEF PlanAssumption
  <2>2. /\ first.occurred = [plan.occurred EXCEPT !.end = middle]
        /\ second.occurred = [plan.occurred EXCEPT !.start = middle]
    BY DEF PlanAssumption
  <2> HIDE DEF first, second
  <2>3. first.occurred \in [start : Nat, end : Nat] /\ second.occurred \in [start : Nat, end : Nat]
    BY <1>3, <2>1, <2>2
  <2> QED
    BY <2>3, DataAssumption
<1> HIDE DEF first, second
<1>5. /\ \A i : i \in Matches(tables, first) <=>
              i \in DOMAIN tables.incidents /\ Rest(i) /\ start <= at(i) /\ at(i) < middle
      /\ \A i : i \in Matches(tables, second) <=>
              i \in DOMAIN tables.incidents /\ Rest(i) /\ middle <= at(i) /\ at(i) < end
      /\ \A i : i \in Matches(tables, plan) <=>
              i \in DOMAIN tables.incidents /\ Rest(i) /\ start <= at(i) /\ at(i) < end
  <2>1. /\ Matches(tables, first) = IncidentsOf(tables, first)
        /\ Matches(tables, second) = IncidentsOf(tables, second)
        /\ Matches(tables, plan) = IncidentsOf(tables, plan)
    BY <1>1, <1>2 DEF Matches
  <2>2. /\ \A i : During(first.occurred, at(i)) <=> start <= at(i) /\ at(i) < middle
        /\ \A i : During(second.occurred, at(i)) <=> middle <= at(i) /\ at(i) < end
        /\ \A i : During(plan.occurred, at(i)) <=> start <= at(i) /\ at(i) < end
    BY <1>1, <1>2, <1>4 DEF During
  <2>3. /\ IncidentsOf(tables, first) =
             {i \in DOMAIN tables.incidents : Rest(i) /\ During(first.occurred, at(i))}
        /\ IncidentsOf(tables, second) =
             {i \in DOMAIN tables.incidents : Rest(i) /\ During(second.occurred, at(i))}
        /\ IncidentsOf(tables, plan) =
             {i \in DOMAIN tables.incidents : Rest(i) /\ During(plan.occurred, at(i))}
    BY <1>1, <1>2 DEF IncidentsOf, AtFacility
  <2> HIDE DEF Rest, at, start, end
  <2> QED
    BY <2>1, <2>2, <2>3, Zenon
<1> HIDE DEF Rest, at, start, end
<1>6. \A i \in DOMAIN tables.incidents :
        /\ ~(at(i) < middle /\ middle <= at(i))
        /\ at(i) < middle \/ middle <= at(i)
        /\ at(i) < middle => at(i) < end
        /\ middle <= at(i) => start <= at(i)
  BY <1>3
<1>7. Splits(first, second)
  BY <1>5, <1>6, Zenon DEF Splits
<1> QED
  BY <1>7 DEF first, second

\* The shortfall of a row says whether the item is below its reorder point.
LEMMA ShortfallIs ==
  ASSUME NEW item, item.quantity \in Nat, item.reorder \in Nat
  PROVE  Shortfall(item) > 0 <=> Below(item)
<1>1. item.reorder - item.quantity \in Int
  OBVIOUS
<1>2. Shortfall(item) = IF 0 <= item.reorder - item.quantity THEN item.reorder - item.quantity ELSE 0
  BY <1>1, MaxOfTwo DEF Shortfall
<1> QED
  BY <1>2 DEF Below

\* No row falls between the two sides of a filter, or into both: overdue or not, below its
\* reorder point or not, before or after a point of the time window.
THEOREM FiltersDoSplit == Spec => []FiltersSplit
<1>1. EvidenceInv => FiltersSplit
  <2> SUFFICES ASSUME EvidenceInv PROVE FiltersSplit
    OBVIOUS
  <2>1. CaseAssumption(tables) /\ PlanAssumption(plan) /\ page \in Pages
    BY DataTyped DEF EvidenceInv
  <2>2. plan.operation = "work_orders" /\ plan.overdue = None =>
          Splits([plan EXCEPT !.overdue = TRUE], [plan EXCEPT !.overdue = FALSE])
    BY <2>1, OverdueSplits
  <2>3. plan.operation = "inventory" /\ plan.below = None =>
          Splits([plan EXCEPT !.below = TRUE], [plan EXCEPT !.below = FALSE])
    BY <2>1, BelowSplits
  <2>4. plan.operation = "incidents" /\ plan.occurred # None =>
          \A middle \in plan.occurred.start + 1 .. plan.occurred.end - 1 :
            Splits([plan EXCEPT !.occurred.end = middle], [plan EXCEPT !.occurred.start = middle])
    BY <2>1, WindowSplits
  <2>5. ASSUME plan.operation = "inventory", result.status = "done", plan.below # None,
               NEW row \in ToSet(result.rows)
        PROVE  (row.shortfall > 0) = plan.below
    <3>1. result.rows = RowsOf(tables, plan, page)
      BY <2>5, WhenDone
    <3>2. PICK id \in OnWindow(Matches(tables, plan), page) : row = RowOf(tables, plan, page, id)
      BY <2>1, <2>5, <3>1, RowsAre
    <3>3. id \in ItemsOf(tables, plan)
      BY <2>5 DEF OnWindow, Matches
    <3>4. id \in DOMAIN tables.items /\ Below(tables.items[id]) = plan.below
      BY <2>5, <3>3, Zenon DEF ItemsOf, Equals
    <3>5. row.shortfall = Shortfall(tables.items[id])
      BY <2>5, <3>2 DEF RowOf, ItemEvidence
    <3>6. Shortfall(tables.items[id]) > 0 <=> Below(tables.items[id])
      BY <2>1, <3>4, ShortfallIs DEF CaseAssumption
    <3>7. (Shortfall(tables.items[id]) > 0) \in BOOLEAN /\ Below(tables.items[id]) \in BOOLEAN
      BY DEF Below
    <3>8. (Shortfall(tables.items[id]) > 0) = Below(tables.items[id])
      BY <3>6, <3>7
    <3> QED
      BY <3>4, <3>5, <3>8, Zenon
  <2> QED
    BY <2>2, <2>3, <2>4, <2>5, Zenon DEF FiltersSplit, Splits
<1> QED
  BY <1>1, EvidenceInductive, PTL

-----------------------------------------------------------------------------
(***************************************************************************)
(* What an answer claims.                                                  *)
(***************************************************************************)
\* The claims by which a fault is said to recur or to be single are made of whole pages.
Counting ==
  /\ plan.operation = "incidents" /\ plan.fault # None /\ plan.occurred # None /\ Whole

SaidAs(all, partial, supported, unsupported, unrequired, interval) ==
  [all |-> all, partial |-> partial, supported |-> supported,
   unsupported |-> unsupported, unrequired |-> unrequired, interval |-> interval]

ClaimsOf(said, counted) == {claim \in DOMAIN said \ {"interval"} : said[claim]} \cup counted

AreClaims(claims, all, partial, supported, unsupported, counted) ==
  /\ "all" \in claims <=> all
  /\ "partial" \in claims <=> partial
  /\ "supported" \in claims <=> supported
  /\ "unsupported" \in claims <=> unsupported
  /\ "recurrence" \in claims => "recurrence" \in counted
  /\ "single" \in claims => "single" \in counted

LEMMA Said ==
  ASSUME NEW all \in BOOLEAN, NEW partial \in BOOLEAN, NEW supported \in BOOLEAN,
         NEW unsupported \in BOOLEAN, NEW unrequired \in BOOLEAN, NEW interval \in BOOLEAN,
         NEW counted \in SUBSET {"recurrence", "single"}
  PROVE  AreClaims(ClaimsOf(SaidAs(all, partial, supported, unsupported, unrequired, interval), counted),
                   all, partial, supported, unsupported, counted)
<1> DEFINE said == SaidAs(all, partial, supported, unsupported, unrequired, interval)
           claims == ClaimsOf(said, counted)
<1>1. /\ DOMAIN said = {"all", "partial", "supported", "unsupported", "unrequired", "interval"}
      /\ said["all"] = all /\ said["partial"] = partial
      /\ said["supported"] = supported /\ said["unsupported"] = unsupported
  BY DEF SaidAs
<1> HIDE DEF said
<1>2. \A claim : claim \in claims <=>
                   \/ claim \in DOMAIN said /\ claim # "interval" /\ said[claim]
                   \/ claim \in counted
  BY Zenon DEF ClaimsOf
<1> HIDE DEF claims
<1>3. /\ \A claim \in {"all", "partial", "supported", "unsupported"} :
           claim \notin counted /\ claim # "interval" /\ claim \in DOMAIN said
      /\ \A claim \in {"recurrence", "single"} : claim \notin DOMAIN said
  BY <1>1
<1>4. /\ \A claim \in {"all", "partial", "supported", "unsupported"} : claim \in claims <=> said[claim]
      /\ \A claim \in {"recurrence", "single"} : claim \in claims => claim \in counted
  BY <1>2, <1>3
<1>5. /\ "all" \in claims <=> said["all"]
      /\ "partial" \in claims <=> said["partial"]
      /\ "supported" \in claims <=> said["supported"]
      /\ "unsupported" \in claims <=> said["unsupported"]
  BY <1>4
<1>6. AreClaims(claims, all, partial, supported, unsupported, counted)
  BY <1>1, <1>4, <1>5 DEF AreClaims
<1> QED
  BY <1>6 DEF claims, said

LEMMA SummaryIs ==
  /\ "all" \in Summary <=> Whole
  /\ "partial" \in Summary <=> ~Whole
  /\ "supported" \in Summary => result.incident_ids # <<>>
  /\ "unsupported" \in Summary => plan.operation = "compatible_stock" /\ result.incident_ids = <<>>
  /\ "recurrence" \in Summary => Counting /\ result.total >= 2
  /\ "single" \in Summary => Counting /\ ~(result.total >= 2)
<1> DEFINE consistent == \A i \in DOMAIN result.rows :
             /\ plan.unit # None => result.rows[i].unit_id = plan.unit
             /\ result.rows[i].fault_code = plan.fault
             /\ plan.occurred.start <= result.rows[i].occurred_at
             /\ result.rows[i].occurred_at < plan.occurred.end
           supported == result.incident_ids # <<>>
           unsupported == plan.operation = "compatible_stock" /\ result.incident_ids = <<>>
           unrequired == /\ plan.operation \in {"facility_equipment", "compatible_stock"}
                         /\ plan.incident_statuses = None
           interval == /\ plan.operation = "incidents" /\ plan.fault # None
                       /\ plan.occurred # None /\ consistent /\ Whole
           partial == ~Whole
           said == [all |-> Whole, partial |-> partial, supported |-> supported,
                    unsupported |-> unsupported, unrequired |-> unrequired, interval |-> interval]
           counted == IF interval THEN {IF result.total >= Enough THEN "recurrence" ELSE "single"} ELSE {}
<1>1. Summary = {claim \in DOMAIN said \ {"interval"} : said[claim]} \cup counted
  BY DEF Summary
<1>2. interval => Counting
  BY DEF Counting
<1>3. /\ "recurrence" \in counted => interval /\ result.total >= 2
      /\ "single" \in counted => interval /\ ~(result.total >= 2)
      /\ \A claim \in counted : claim \in {"recurrence", "single"}
  <2> HIDE DEF interval
  <2> QED
    BY DEF Enough
<1>4. /\ Whole \in BOOLEAN /\ partial \in BOOLEAN /\ supported \in BOOLEAN
      /\ unsupported \in BOOLEAN /\ unrequired \in BOOLEAN /\ interval \in BOOLEAN
  BY DEF Whole
<1> HIDE DEF consistent, supported, unsupported, unrequired, interval, partial, counted
<1>5. counted \subseteq {"recurrence", "single"}
  BY <1>3, Zenon
<1>6. PICK a \in BOOLEAN, b \in BOOLEAN, c \in BOOLEAN, d \in BOOLEAN, e \in BOOLEAN, f \in BOOLEAN :
        a = Whole /\ b = partial /\ c = supported /\ d = unsupported /\ e = unrequired /\ f = interval
  BY <1>4, Zenon
<1>7. said = SaidAs(a, b, c, d, e, f)
  BY <1>6, Zenon DEF SaidAs
<1> HIDE DEF said
<1>8. Summary = ClaimsOf(SaidAs(a, b, c, d, e, f), counted)
  BY <1>1, <1>7 DEF ClaimsOf
<1>9. PICK others : others = counted
  OBVIOUS
<1>10. PICK claims : claims = Summary
  OBVIOUS
<1>11. AreClaims(claims, a, b, c, d, others)
  <2>1. others \in SUBSET {"recurrence", "single"}
    BY <1>5, <1>9
  <2>2. AreClaims(ClaimsOf(SaidAs(a, b, c, d, e, f), others), a, b, c, d, others)
    BY <2>1, Said
  <2> QED
    BY <1>8, <1>9, <1>10, <2>2
<1> QED
  BY <1>2, <1>3, <1>6, <1>9, <1>10, <1>11, Zenon DEF AreClaims, supported, unsupported, partial

\* Pages that are whole: the first page, when it has as many rows as match.
LEMMA WholeIs ==
  ASSUME EvidenceInv, result.status = "done"
  PROVE  /\ {IdOf(row) : row \in ToSet(result.rows)} = OnPage
         /\ result.rows = <<>> <=> OnPage = {}
         /\ Whole => OnPage = Matches(tables, plan)
         /\ result.rows # <<>> /\ OnPage = Matches(tables, plan) => Whole
<1> DEFINE S == Matches(tables, plan)
           P == OnWindow(S, page)
           rows == RowsOf(tables, plan, page)
           Row(id) == RowOf(tables, plan, page, id)
<1>1. /\ CaseAssumption(tables) /\ PlanAssumption(plan) /\ page \in Pages
      /\ result.total = Cardinality(S) /\ result.rows = rows
  BY WhenDone
<1>2. Len(rows) = Len(PageIds(tables, plan, page)) /\ Len(rows) \in Nat /\ ToSet(rows) = {Row(id) : id \in P}
      /\ DOMAIN rows = 1..Len(rows)
  BY <1>1, RowsAre
<1>3. Cardinality(P) = Len(rows)
  BY <1>1, <1>2, PageIdsAre
<1>4. S \in SUBSET Nat /\ IsFiniteSet(S) /\ Cardinality(S) \in Nat
  BY <1>1, MatchesFinite, FS_CardinalityType
<1>5. P \in SUBSET S /\ IsFiniteSet(P)
  <2>1. P \in SUBSET S
    BY DEF OnWindow
  <2> QED
    BY <1>4, <2>1, FS_Subset
<1>6. OnPage = P
  BY OnPageIs
<1>7. page.offset \in Nat
  BY <1>1, DataAssumption
<1>8. \A id : IdOf(Row(id)) = id
  BY <1>1, IdOfRow
<1> HIDE DEF S, P, rows, Row
<1>9. {IdOf(row) : row \in ToSet(result.rows)} = P
  <2>1. ToSet(result.rows) = {Row(id) : id \in P}
    BY <1>1, <1>2
  <2>2. \A row \in ToSet(result.rows) : IdOf(row) \in P
    BY <1>8, <2>1
  <2>3. \A id \in P : \E row \in ToSet(result.rows) : IdOf(row) = id
    BY <1>8, <2>1
  <2>4. \A id : id \in {IdOf(row) : row \in ToSet(result.rows)} <=>
                  \E row \in ToSet(result.rows) : IdOf(row) = id
    BY Zenon
  <2> QED
    BY <2>2, <2>3, <2>4, Zenon
<1>10. result.rows = <<>> <=> P = {}
  <2>1. P = {} <=> Len(rows) = 0
    BY <1>3, <1>5, FS_EmptySet
  <2>2. Len(rows) = 0 => DOMAIN rows = {}
    BY <1>2
  <2>3. DOMAIN rows = {} => rows = <<>>
    BY DEF rows, RowsOf
  <2>4. rows = <<>> => Len(rows) = 0
    BY <1>2
  <2> QED
    BY <1>1, <2>1, <2>2, <2>3, <2>4
<1>11. Whole => P = S
  BY <1>1, <1>3, <1>4, <1>5, FS_Subset DEF Whole
<1>12. ASSUME result.rows # <<>>, P = S PROVE Whole
  <2>1. Cardinality(S) > 0
    BY <1>4, <1>10, <1>12, FS_EmptySet
  <2>2. PICK id \in S : Cardinality(Smaller(S, id)) = 0
    <3>1. 0 \in 0 .. Cardinality(S) - 1
      BY <1>4, <2>1
    <3> QED
      BY <1>4, <3>1, Ranks
  <2>3. page.offset <= 0
    BY <1>12, <2>2 DEF P, OnWindow
  <2> QED
    BY <1>1, <1>3, <1>7, <1>12, <2>3 DEF Whole
<1> QED
  BY <1>6, <1>9, <1>10, <1>11, <1>12 DEF S

\* A fault filter and a time window leave the incidents that bear a recurrence out.
LEMMA SameFaultIs ==
  ASSUME plan.operation = "incidents", plan.fault # None, plan.occurred # None
  PROVE  SameFault = Matches(tables, plan)
<1>1. Matches(tables, plan) = IncidentsOf(tables, plan)
  BY DEF Matches
<1>2. ASSUME NEW i \in IncidentsOf(tables, plan)
      PROVE  /\ i \in DOMAIN tables.incidents
             /\ tables.incidents[i].fault = plan.fault
             /\ plan.occurred.start <= tables.incidents[i].at /\ tables.incidents[i].at < plan.occurred.end
  BY DEF IncidentsOf, Equals, During
<1> QED
  BY <1>1, <1>2, Zenon DEF SameFault

LEMMA CautiousReasons ==
  /\ \A one, other : Cautious(one) = Cautious(other) => one = other
  /\ \A reason : Cautious(reason).status = "cautious"
<1>1. \A reason : Cautious(reason).status = "cautious" /\ Cautious(reason).reason = reason
  BY DEF Cautious
<1>2. ASSUME NEW one, NEW other, Cautious(one) = Cautious(other) PROVE one = other
  <2>1. Cautious(one).reason = Cautious(other).reason
    BY <1>2
  <2>2. Cautious(one).reason = one /\ Cautious(other).reason = other
    BY <1>1
  <2> QED
    BY <2>1, <2>2
<1> QED
  BY <1>1, <1>2

LEMMA VerdictIs ==
  ASSUME EvidenceInv, result.status = "done"
  PROVE  /\ result.verdict \in {"matched", "no_compatibility", "no_incident_match"}
         /\ result.verdict = "no_incident_match" =>
              plan.operation = "compatible_stock" /\ Supporting(tables, plan, {plan.unit}) = {}
<1>1. /\ CaseAssumption(tables) /\ PlanAssumption(plan)
      /\ result.verdict = VerdictOf(tables, plan)
  BY WhenDone
<1>2. \A n : Verdict(n, <<>>) \in {"matched", "no_compatibility"}
  BY DEF Verdict
<1>3. CASE plan.operation = "compatible_stock" /\ plan.incident_statuses # None
           /\ IncidentIds(tables, plan) = <<>>
  <2>1. Supporting(tables, plan, {plan.unit}) = {}
    BY <1>1, <1>3, NoIncidentNoMatch
  <2>2. result.verdict = "no_incident_match"
    BY <1>1, <1>3 DEF VerdictOf
  <2> QED
    BY <1>3, <2>1, <2>2
<1>4. CASE ~(plan.operation = "compatible_stock" /\ plan.incident_statuses # None
             /\ IncidentIds(tables, plan) = <<>>)
  <2>1. result.verdict \in {"matched", "no_compatibility"}
    BY <1>1, <1>2, <1>4 DEF VerdictOf
  <2> QED
    BY <2>1
<1> QED
  BY <1>3, <1>4

LEMMA AnsweredClaims ==
  ASSUME EvidenceInv, answer.status = "answered"
  PROVE  LET rows == {IdOf(row) : row \in ToSet(result.rows)}
         IN  /\ ("all" \in answer.claims) = (rows = Matches(tables, plan))
             /\ ("partial" \in answer.claims) = (rows # Matches(tables, plan))
             /\ (answer.coverage = "complete") = (rows = Matches(tables, plan))
             /\ "recurrence" \in answer.claims => Cardinality(SameFault) > 1
             /\ "single" \in answer.claims => Cardinality(SameFault) = 1
             /\ "supported" \in answer.claims => Supporting(tables, plan, {plan.unit}) # {}
             /\ "unsupported" \in answer.claims => plan.incident_statuses = None
<1> DEFINE rows == {IdOf(row) : row \in ToSet(result.rows)}
           S == Matches(tables, plan)
<1>1. /\ result.status = "done" /\ result.rows # <<>> /\ result.total # 0
      /\ answer.claims = Summary /\ answer.coverage = IF Whole THEN "complete" ELSE "partial"
  <2>1. answer # NoAnswer /\ \A reason : answer # Cautious(reason)
    BY Statuses, CautiousReasons
  <2> QED
    BY <2>1 DEF EvidenceInv, AnswerOK, Rendering, Answered
<1>2. /\ CaseAssumption(tables) /\ PlanAssumption(plan) /\ page \in Pages
      /\ result.total = Cardinality(S) /\ result.incident_ids = IdsOf(tables, plan)
  BY <1>1, WhenDone
<1>3. Whole <=> rows = S
  BY <1>1, WholeIs
<1>4. rows # {} /\ rows = OnPage /\ OnPage \subseteq S
  <2>1. rows = OnPage /\ OnPage # {}
    BY <1>1, WholeIs
  <2> QED
    BY <2>1 DEF OnPage
<1>5. Cardinality(S) \in Nat /\ Cardinality(S) # 0
  BY <1>1, <1>2, MatchesFinite, FS_CardinalityType
<1>6. /\ "all" \in answer.claims <=> rows = S
      /\ "partial" \in answer.claims <=> rows # S
      /\ answer.coverage = "complete" <=> rows = S
  BY <1>1, <1>3, SummaryIs
<1>7. /\ "recurrence" \in answer.claims => Cardinality(SameFault) > 1
      /\ "single" \in answer.claims => Cardinality(SameFault) = 1
  <2>1. Counting => SameFault = S
    BY SameFaultIs DEF Counting
  <2> QED
    BY <1>1, <1>2, <1>5, <2>1, SummaryIs
<1>8. "supported" \in answer.claims => Supporting(tables, plan, {plan.unit}) # {}
  <2> SUFFICES ASSUME "supported" \in answer.claims PROVE Supporting(tables, plan, {plan.unit}) # {}
    OBVIOUS
  <2>1. IdsOf(tables, plan) # <<>>
    BY <1>1, <1>2, SummaryIs
  <2>2. plan.operation = "compatible_stock" /\ plan.incident_statuses # None /\ IncidentIds(tables, plan) # <<>>
    BY <2>1 DEF IdsOf, IncidentIds
  <2> QED
    BY <1>2, <2>2, NoIncidentNoMatch
<1>9. "unsupported" \in answer.claims => plan.incident_statuses = None
  <2> SUFFICES ASSUME "unsupported" \in answer.claims, plan.incident_statuses # None PROVE FALSE
    OBVIOUS
  <2>1. plan.operation = "compatible_stock" /\ IncidentIds(tables, plan) = <<>>
    BY <1>1, <1>2, SummaryIs DEF IdsOf
  <2>2. S = {}
    BY <1>2, <2>1, NoIncidentNoMatch
  <2> QED
    BY <1>4, <2>2
<1> QED
  BY <1>6, <1>7, <1>8, <1>9

\* What an answer claims beyond its rows is so in the tables: that they are all there is,
\* that a fault recurs or was seen once, that the unit has supporting incidents or none,
\* that nothing matched; and its coverage is complete exactly when no match is missing.
THEOREM ClaimsHold == Spec => []ClaimsAreTrue
<1>1. EvidenceInv => ClaimsAreTrue
  <2> SUFFICES ASSUME EvidenceInv PROVE ClaimsAreTrue
    OBVIOUS
  <2>1. ASSUME NEW reason, answer = Cautious(reason)
        PROVE  /\ result.status = "done"
               /\ \/ /\ result.total = 0
                     /\ reason = IF plan.operation = "compatible_stock" THEN result.verdict ELSE "no_results"
                  \/ /\ result.total # 0 /\ result.rows = <<>> /\ reason = "insufficient_evidence"
                  \/ reason = "invalid_answer"
    <3>1. answer # NoAnswer /\ answer.status # "answered"
      BY <2>1, Statuses, CautiousReasons
    <3>2. result.status = "done" /\ Rendering /\ ~Answered
      BY <3>1 DEF EvidenceInv, AnswerOK, Answered
    <3> QED
      BY <2>1, <3>2, CautiousReasons DEF Rendering
  <2>2. ASSUME result.status = "done", result.total = 0 PROVE Matches(tables, plan) = {}
    BY <2>2, WhenDone, MatchesFinite, FS_EmptySet
  <2>3. ASSUME answer \in {Cautious("no_results"), Cautious("no_compatibility")}
        PROVE  Matches(tables, plan) = {}
    <3>1. result.status = "done" /\ result.total = 0
      BY <2>1, <2>3
    <3> QED
      BY <2>2, <3>1
  <2>4. ASSUME answer = Cautious("no_incident_match")
        PROVE  Supporting(tables, plan, {plan.unit}) = {}
    <3>1. result.status = "done" /\ result.verdict = "no_incident_match"
      BY <2>1, <2>4
    <3> QED
      BY <3>1, VerdictIs
  <2>5. ASSUME answer = Cautious("insufficient_evidence")
        PROVE  Matches(tables, plan) # {} /\ OnPage = {}
    <3>1. result.status = "done" /\ result.total # 0 /\ result.rows = <<>>
      BY <2>1, <2>5, VerdictIs
    <3>2. OnPage = {}
      BY <3>1, WholeIs
    <3>3. Matches(tables, plan) # {}
      BY <3>1, WhenDone, FS_EmptySet
    <3> QED
      BY <3>2, <3>3
  <2>6. answer.status = "answered" =>
          LET rows == {IdOf(row) : row \in ToSet(result.rows)}
          IN  /\ ("all" \in answer.claims) = (rows = Matches(tables, plan))
              /\ ("partial" \in answer.claims) = (rows # Matches(tables, plan))
              /\ (answer.coverage = "complete") = (rows = Matches(tables, plan))
              /\ "recurrence" \in answer.claims => Cardinality(SameFault) > 1
              /\ "single" \in answer.claims => Cardinality(SameFault) = 1
              /\ "supported" \in answer.claims => Supporting(tables, plan, {plan.unit}) # {}
              /\ "unsupported" \in answer.claims => plan.incident_statuses = None
    BY AnsweredClaims, Zenon
  <2> QED
    BY <2>3, <2>4, <2>5, <2>6, Zenon DEF ClaimsAreTrue
<1> QED
  BY <1>1, EvidenceInductive, PTL

-----------------------------------------------------------------------------
(***************************************************************************)
(* References.  The walk over the keys of a row, nested records included,  *)
(* finds the records that the sentence about the row names.                *)
(***************************************************************************)
LEMMA IdentityTable ==
  /\ DOMAIN Identities =
       {"facility_id", "unit_id", "equipment_unit_id", "model_id", "component_id", "inventory_id",
        "incident_id", "work_order_id", "originating_incident_id", "incident_equipment_unit_id",
        "target_equipment_unit_id"}
  /\ Identities["facility_id"] = "facility" /\ Identities["unit_id"] = "equipment_unit"
  /\ Identities["equipment_unit_id"] = "equipment_unit" /\ Identities["model_id"] = "equipment_model"
  /\ Identities["component_id"] = "component" /\ Identities["inventory_id"] = "inventory"
  /\ Identities["incident_id"] = "incident" /\ Identities["work_order_id"] = "work_order"
  /\ Identities["originating_incident_id"] = "incident"
  /\ Identities["incident_equipment_unit_id"] = "equipment_unit"
  /\ Identities["target_equipment_unit_id"] = "equipment_unit"
BY DEF Identities

LEMMA IdentitiesAre ==
  ASSUME NEW record, NEW name
  PROVE  name \in IdentitiesIn(record) <=>
           \E key \in DOMAIN record \cap DOMAIN Identities :
             record[key] # None /\ name = <<Identities[key], record[key]>>
BY Zenon DEF IdentitiesIn

\* What a row gives is what its sentence says of it.
Covers(row, name) ==
  (name \in Named(row) /\ name[2] # None) <=> \E record \in {row} \cup Nested(row) : name \in IdentitiesIn(record)

LEMMA FlatRow ==
  ASSUME NEW row, "units" \notin DOMAIN row, "incidents" \notin DOMAIN row
  PROVE  Nested(row) = {}
BY DEF Nested

LEMMA OrderCovers ==
  ASSUME plan.operation = "work_orders", NEW id, NEW name, NEW row,
         row = OrderEvidence(tables, plan, id)
  PROVE  Covers(row, name)
<1>1. DOMAIN row = {"work_order_id", "facility_id", "status", "due_at", "overdue", "blocked",
                    "originating_incident_id", "incident_equipment_unit_id", "target_equipment_unit_id"}
  BY DEF OrderEvidence
<1>2. Nested(row) = {}
  BY <1>1, FlatRow
<1> DEFINE keys == {"work_order_id", "facility_id", "originating_incident_id",
                    "incident_equipment_unit_id", "target_equipment_unit_id"}
<1>3. DOMAIN row \cap DOMAIN Identities = keys
  BY <1>1, IdentityTable
<1> HIDE DEF keys
<1>4. name \in IdentitiesIn(row) <=>
        \E key \in keys : row[key] # None /\ name = <<Identities[key], row[key]>>
  BY <1>3, IdentitiesAre, Zenon
<1>5. name \in Named(row) <=>
        \/ name = <<"work_order", row.work_order_id>> \/ name = <<"facility", row.facility_id>>
        \/ name = <<"incident", row.originating_incident_id>>
        \/ name = <<"equipment_unit", row.incident_equipment_unit_id>>
        \/ name = <<"equipment_unit", row.target_equipment_unit_id>>
  BY DEF Named
<1>6. \A a, b : <<a, b>>[2] = b
  OBVIOUS
<1>7. name \in IdentitiesIn(row) <=>
        \/ row.work_order_id # None /\ name = <<"work_order", row.work_order_id>>
        \/ row.facility_id # None /\ name = <<"facility", row.facility_id>>
        \/ row.originating_incident_id # None /\ name = <<"incident", row.originating_incident_id>>
        \/ row.incident_equipment_unit_id # None /\ name = <<"equipment_unit", row.incident_equipment_unit_id>>
        \/ row.target_equipment_unit_id # None /\ name = <<"equipment_unit", row.target_equipment_unit_id>>
  BY <1>4, IdentityTable DEF keys
<1> QED
  BY <1>2, <1>5, <1>6, <1>7 DEF Covers

LEMMA IncidentCovers ==
  ASSUME plan.operation = "incidents", NEW id, NEW name, NEW row,
         row = IncidentEvidence(tables, plan, id)
  PROVE  Covers(row, name)
<1>1. DOMAIN row = {"incident_id", "facility_id", "unit_id", "fault_code", "occurred_at"}
  BY DEF IncidentEvidence
<1>2. Nested(row) = {}
  BY <1>1, FlatRow
<1> DEFINE keys == {"incident_id", "facility_id", "unit_id"}
<1>3. DOMAIN row \cap DOMAIN Identities = keys
  BY <1>1, IdentityTable
<1> HIDE DEF keys
<1>4. name \in IdentitiesIn(row) <=>
        \E key \in keys : row[key] # None /\ name = <<Identities[key], row[key]>>
  BY <1>3, IdentitiesAre, Zenon
<1>5. name \in Named(row) <=>
        \/ name = <<"incident", row.incident_id>> \/ name = <<"facility", row.facility_id>>
        \/ name = <<"equipment_unit", row.unit_id>>
  BY DEF Named
<1>6. \A a, b : <<a, b>>[2] = b
  OBVIOUS
<1>7. name \in IdentitiesIn(row) <=>
        \/ row.incident_id # None /\ name = <<"incident", row.incident_id>>
        \/ row.facility_id # None /\ name = <<"facility", row.facility_id>>
        \/ row.unit_id # None /\ name = <<"equipment_unit", row.unit_id>>
  BY <1>4, IdentityTable DEF keys
<1> QED
  BY <1>2, <1>5, <1>6, <1>7 DEF Covers

LEMMA ItemCovers ==
  ASSUME plan.operation = "inventory", NEW id, NEW name, NEW row,
         row = ItemEvidence(tables, plan, id)
  PROVE  Covers(row, name)
<1>1. DOMAIN row = {"inventory_id", "facility_id", "component_id", "quantity_on_hand",
                    "reorder_point", "shortfall"}
  BY DEF ItemEvidence
<1>2. Nested(row) = {}
  BY <1>1, FlatRow
<1> DEFINE keys == {"inventory_id", "facility_id", "component_id"}
<1>3. DOMAIN row \cap DOMAIN Identities = keys
  BY <1>1, IdentityTable
<1> HIDE DEF keys
<1>4. name \in IdentitiesIn(row) <=>
        \E key \in keys : row[key] # None /\ name = <<Identities[key], row[key]>>
  BY <1>3, IdentitiesAre, Zenon
<1>5. name \in Named(row) <=>
        \/ name = <<"inventory", row.inventory_id>> \/ name = <<"facility", row.facility_id>>
        \/ name = <<"component", row.component_id>>
  BY DEF Named
<1>6. \A a, b : <<a, b>>[2] = b
  OBVIOUS
<1>7. name \in IdentitiesIn(row) <=>
        \/ row.inventory_id # None /\ name = <<"inventory", row.inventory_id>>
        \/ row.facility_id # None /\ name = <<"facility", row.facility_id>>
        \/ row.component_id # None /\ name = <<"component", row.component_id>>
  BY <1>4, IdentityTable DEF keys
<1> QED
  BY <1>2, <1>5, <1>6, <1>7 DEF Covers

LEMMA StockCovers ==
  ASSUME plan.operation = "compatible_stock", NEW id, NEW name, NEW row,
         row = StockEvidence(tables, plan, id)
  PROVE  Covers(row, name)
<1>1. DOMAIN row = {"model_id", "component_id", "inventory_id", "quantity_on_hand"}
  BY DEF StockEvidence
<1>2. Nested(row) = {}
  BY <1>1, FlatRow
<1> DEFINE keys == {"model_id", "component_id", "inventory_id"}
<1>3. DOMAIN row \cap DOMAIN Identities = keys
  BY <1>1, IdentityTable
<1> HIDE DEF keys
<1>4. name \in IdentitiesIn(row) <=>
        \E key \in keys : row[key] # None /\ name = <<Identities[key], row[key]>>
  BY <1>3, IdentitiesAre, Zenon
<1>5. name \in Named(row) <=>
        \/ name = <<"component", row.component_id>> \/ name = <<"equipment_model", row.model_id>>
        \/ name = <<"inventory", row.inventory_id>>
  BY DEF Named
<1>6. \A a, b : <<a, b>>[2] = b
  OBVIOUS
<1>7. name \in IdentitiesIn(row) <=>
        \/ row.component_id # None /\ name = <<"component", row.component_id>>
        \/ row.model_id # None /\ name = <<"equipment_model", row.model_id>>
        \/ row.inventory_id # None /\ name = <<"inventory", row.inventory_id>>
  BY <1>4, IdentityTable DEF keys
<1> QED
  BY <1>2, <1>5, <1>6, <1>7 DEF Covers

\* The nested records of a facility's row are its units and incidents.
LEMMA FacilityCovers ==
  ASSUME CaseAssumption(tables), PlanAssumption(plan), page \in Pages,
         plan.operation = "facility_equipment", ~OverBudget(tables, plan, page),
         NEW id, NEW name, NEW row, row = RowOf(tables, plan, page, id)
  PROVE  Covers(row, name)
<1> DEFINE U == UnitsAt(tables, plan, page, id)
           I == IncidentsAt(tables, plan, page, id)
           Unit(u) == [unit_id |-> u]
           Incident(i) == [incident_id |-> i, equipment_unit_id |-> tables.incidents[i].unit]
           at(i) == tables.incidents[i].unit
<1>1. /\ row.facility_id = id /\ DOMAIN row = {"facility_id", "units", "incidents"}
      /\ AreUnitRows(row.units, U) /\ AreIncidentRows(row.incidents, tables, I)
      /\ U \in SUBSET Nat /\ I \in SUBSET Nat /\ \A i \in I : at(i) \in U
  BY FacilityRow
<1>2. ToSet(row.units) = {Unit(u) : u \in U} /\ ToSet(row.incidents) = {Incident(i) : i \in I}
  BY <1>1 DEF AreUnitRows, AreIncidentRows
<1>3. /\ \A u : Unit(u).unit_id = u /\ DOMAIN Unit(u) = {"unit_id"}
      /\ \A i : /\ Incident(i).incident_id = i /\ Incident(i).equipment_unit_id = at(i)
                /\ DOMAIN Incident(i) = {"incident_id", "equipment_unit_id"}
  OBVIOUS
<1> HIDE DEF U, I, Unit, Incident, at
<1>4. Nested(row) = ToSet(row.units) \cup ToSet(row.incidents)
  <2>1. DOMAIN row \cap {"units", "incidents"} = {"units", "incidents"}
    BY <1>1
  <2>2. {ToSet(row[key]) : key \in {"units", "incidents"}} = {ToSet(row.units), ToSet(row.incidents)}
    BY Zenon
  <2> QED
    BY <2>1, <2>2, Zenon DEF Nested
<1>5. None \notin Nat
  BY DataAssumption
<1>6. name \in IdentitiesIn(row) <=> id # None /\ name = <<"facility", id>>
  <2> DEFINE keys == {"facility_id"}
  <2>1. DOMAIN row \cap DOMAIN Identities = keys
    BY <1>1, IdentityTable
  <2> HIDE DEF keys
  <2>2. name \in IdentitiesIn(row) <=>
          \E key \in keys : row[key] # None /\ name = <<Identities[key], row[key]>>
    BY <2>1, IdentitiesAre, Zenon
  <2> QED
    BY <1>1, <2>2, IdentityTable DEF keys
<1>7. ASSUME NEW u \in U PROVE name \in IdentitiesIn(Unit(u)) <=> name = <<"equipment_unit", u>>
  <2> DEFINE keys == {"unit_id"}
  <2>1. DOMAIN Unit(u) \cap DOMAIN Identities = keys
    BY <1>3, IdentityTable
  <2> HIDE DEF keys
  <2>2. name \in IdentitiesIn(Unit(u)) <=>
          \E key \in keys : Unit(u)[key] # None /\ name = <<Identities[key], Unit(u)[key]>>
    BY <2>1, IdentitiesAre, Zenon
  <2>3. u # None
    BY <1>1, <1>5
  <2> QED
    BY <1>3, <2>2, <2>3, IdentityTable DEF keys
<1>8. ASSUME NEW i \in I
      PROVE  name \in IdentitiesIn(Incident(i)) <=> name = <<"incident", i>> \/ name = <<"equipment_unit", at(i)>>
  <2> DEFINE keys == {"incident_id", "equipment_unit_id"}
  <2>1. DOMAIN Incident(i) \cap DOMAIN Identities = keys
    BY <1>3, IdentityTable
  <2> HIDE DEF keys
  <2>2. name \in IdentitiesIn(Incident(i)) <=>
          \E key \in keys :
            Incident(i)[key] # None /\ name = <<Identities[key], Incident(i)[key]>>
    BY <2>1, IdentitiesAre, Zenon
  <2>3. i # None /\ at(i) # None
    BY <1>1, <1>5
  <2> QED
    BY <1>3, <2>2, <2>3, IdentityTable DEF keys
<1>9. (\E record \in {row} \cup Nested(row) : name \in IdentitiesIn(record)) <=>
        \/ id # None /\ name = <<"facility", id>>
        \/ \E u \in U : name = <<"equipment_unit", u>>
        \/ \E i \in I : name = <<"incident", i>> \/ name = <<"equipment_unit", at(i)>>
  <2>1. (\E record \in {row} \cup Nested(row) : name \in IdentitiesIn(record)) <=>
          \/ name \in IdentitiesIn(row)
          \/ \E u \in U : name \in IdentitiesIn(Unit(u))
          \/ \E i \in I : name \in IdentitiesIn(Incident(i))
    BY <1>2, <1>4, Zenon
  <2> QED
    BY <1>6, <1>7, <1>8, <2>1, Zenon
<1>10. name \in Named(row) <=>
         \/ name = <<"facility", id>>
         \/ \E u \in U : name = <<"equipment_unit", u>>
         \/ \E i \in I : name = <<"incident", i>> \/ name = <<"equipment_unit", at(i)>>
  <2>1. Named(row) =
          {<<"facility", row.facility_id>>}
            \cup {<<"equipment_unit", unit.unit_id>> : unit \in ToSet(row.units)}
            \cup {<<"incident", i.incident_id>> : i \in ToSet(row.incidents)}
            \cup {<<"equipment_unit", i.equipment_unit_id>> : i \in ToSet(row.incidents)}
    BY DEF Named
  <2>2. name \in Named(row) <=>
          \/ name = <<"facility", row.facility_id>>
          \/ \E u \in ToSet(row.units) : name = <<"equipment_unit", u.unit_id>>
          \/ \E i \in ToSet(row.incidents) : \/ name = <<"incident", i.incident_id>>
                                             \/ name = <<"equipment_unit", i.equipment_unit_id>>
    BY <2>1, Zenon
  <2>3. /\ (\E u \in ToSet(row.units) : name = <<"equipment_unit", u.unit_id>>) <=>
             \E u \in U : name = <<"equipment_unit", Unit(u).unit_id>>
        /\ (\E i \in ToSet(row.incidents) : \/ name = <<"incident", i.incident_id>>
                                            \/ name = <<"equipment_unit", i.equipment_unit_id>>) <=>
             \E i \in I : \/ name = <<"incident", Incident(i).incident_id>>
                          \/ name = <<"equipment_unit", Incident(i).equipment_unit_id>>
    BY <1>2, Zenon
  <2>4. /\ \A u : Unit(u).unit_id = u
        /\ \A i : Incident(i).incident_id = i /\ Incident(i).equipment_unit_id = at(i)
    BY <1>3, Zenon
  <2>5. /\ (\E u \in ToSet(row.units) : name = <<"equipment_unit", u.unit_id>>) <=>
             \E u \in U : name = <<"equipment_unit", u>>
        /\ (\E i \in ToSet(row.incidents) : \/ name = <<"incident", i.incident_id>>
                                            \/ name = <<"equipment_unit", i.equipment_unit_id>>) <=>
             \E i \in I : name = <<"incident", i>> \/ name = <<"equipment_unit", at(i)>>
    BY <2>3, <2>4
  <2>6. row.facility_id = id
    BY <1>1
  <2> QED
    BY <2>2, <2>5, <2>6
<1>11. name = <<"facility", id>> => name[2] = id
  OBVIOUS
<1>12. \A a, b : name = <<a, b>> => name[2] = b
  OBVIOUS
<1>13. \A u \in U : u # None
  BY <1>1, <1>5
<1>14. \A i \in I : i # None /\ at(i) # None
  BY <1>1, <1>5
<1> QED
  BY <1>9, <1>10, <1>11, <1>12, <1>13, <1>14, Zenon DEF Covers

LEMMA RowCovers ==
  ASSUME CaseAssumption(tables), PlanAssumption(plan), page \in Pages,
         ~OverBudget(tables, plan, page), NEW id, NEW name
  PROVE  Covers(RowOf(tables, plan, page, id), name)
<1>1. CASE plan.operation = "work_orders"
  BY <1>1, OrderCovers DEF RowOf
<1>2. CASE plan.operation = "incidents"
  BY <1>2, IncidentCovers DEF RowOf
<1>3. CASE plan.operation = "inventory"
  BY <1>3, ItemCovers DEF RowOf
<1>4. CASE plan.operation = "facility_equipment"
  BY <1>4, FacilityCovers
<1>5. CASE plan.operation = "compatible_stock"
  BY <1>5, StockCovers DEF RowOf
<1> QED
  BY <1>1, <1>2, <1>3, <1>4, <1>5 DEF PlanAssumption

\* Some of the numbers up to n, each once, and then the others in their order.
LEMMA OrderIs ==
  ASSUME NEW n \in Nat, NEW s \in Seq(1..n), Cardinality(ToSet(s)) = Len(s),
         NEW order, order = s \o Sorted((1..n) \ ToSet(s))
  PROVE  Len(order) = n /\ ToSet(order) = 1..n
<1> DEFINE T == ToSet(s)
           R == (1..n) \ T
           rest == Sorted(R)
           l == Len(s)
           c == Cardinality(R)
<1>0. l \in Nat /\ s \in [1..l -> 1..n] /\ DOMAIN s = 1..l
  BY LenProperties
<1>1. T = {s[i] : i \in 1..l} /\ T \subseteq 1..n
  BY <1>0 DEF ToSet
<1>2. IsFiniteSet(1..n) /\ Cardinality(1..n) = n
  BY FS_Interval
<1>3. Cardinality(T) = l
  OBVIOUS
<1>4. order = s \o rest
  OBVIOUS
<1> HIDE DEF T, l
<1>5. IsFiniteSet(R) /\ c = n - l
  <2>1. (1..n) \cap T = T
    BY <1>1
  <2>2. IsFiniteSet((1..n) \ T) /\ Cardinality((1..n) \ T) = Cardinality(1..n) - Cardinality((1..n) \cap T)
    BY <1>2, FS_Difference
  <2> QED
    BY <1>2, <1>3, <2>1, <2>2
<1>6. R \in SUBSET Nat /\ \A k \in 1..n : k \in R <=> k \notin T
  OBVIOUS
<1>7. R \subseteq 1..n
  OBVIOUS
<1> HIDE DEF R
<1>8. /\ rest \in Seq(R) /\ Len(rest) = c /\ c \in Nat
      /\ \A i \in R : \E m \in 1..c : rest[m] = i
  BY <1>5, <1>6, SortedIs
<1> HIDE DEF rest, c
<1>9. rest \in Seq(1..n)
  BY <1>7, <1>8, SeqMonotonic
<1>10. /\ order \in Seq(1..n) /\ Len(order) = l + c
       /\ \A i \in 1..l + c : order[i] = IF i <= l THEN s[i] ELSE rest[i - l]
  <2>1. /\ s \o rest \in Seq(1..n) /\ Len(s \o rest) = Len(s) + Len(rest)
        /\ \A i \in 1..Len(s) + Len(rest) :
             (s \o rest)[i] = IF i <= Len(s) THEN s[i] ELSE rest[i - Len(s)]
    BY <1>9, ConcatProperties
  <2> QED
    BY <1>4, <1>8, <2>1, Zenon DEF l
<1>12. l + c = n
  BY <1>0, <1>5, <1>8
<1>13. Len(order) = n
  BY <1>10, <1>12
<1>14. ToSet(order) = {order[i] : i \in 1..n} /\ ToSet(order) \subseteq 1..n
  <2>1. order \in [1..n -> 1..n] /\ DOMAIN order = 1..n
    BY <1>10, <1>13, LenProperties
  <2> QED
    BY <2>1 DEF ToSet
<1>11. ASSUME NEW k \in 1..n PROVE \E i \in 1..n : order[i] = k
  <2>1. CASE k \in T
    <3>1. PICK i \in 1..l : s[i] = k
      BY <1>1, <2>1
    <3>2. i \in 1..l + c /\ i <= l
      BY <1>0, <1>8, <3>1
    <3> QED
      BY <1>10, <1>12, <3>1, <3>2
  <2>2. CASE k \notin T
    <3>1. PICK m \in 1..c : rest[m] = k
      BY <1>6, <1>8, <2>2
    <3>2. l + m \in 1..l + c /\ ~(l + m <= l) /\ (l + m) - l = m
      BY <1>0, <1>8, <3>1
    <3>3. order[l + m] = rest[(l + m) - l]
      BY <1>10, <3>2
    <3> QED
      BY <1>12, <3>1, <3>2, <3>3
  <2> QED
    BY <2>1, <2>2
<1> QED
  BY <1>11, <1>13, <1>14

\* The references of an answer are exactly the records its text names, those of nested
\* and of supporting evidence included, and it tells every fact of the page once.
THEOREM TextHasReferences == Spec => []TextIsReferenced
<1>1. EvidenceInv => TextIsReferenced
  <2> SUFFICES ASSUME EvidenceInv, answer.status = "answered"
               PROVE  /\ answer.text = answer.references
                      /\ Len(answer.order) = Len(result.rows) /\ ToSet(answer.order) = DOMAIN result.rows
    BY DEF TextIsReferenced
  <2>0. /\ answer.text = Text /\ answer.references = References
        /\ \E selection \in Selections : Acceptable(selection) /\ answer.order = Order(selection)
    <3>1. answer # NoAnswer /\ \A reason : answer # Cautious(reason)
      BY Statuses, CautiousReasons
    <3>2. Answered
      BY <3>1 DEF EvidenceInv, AnswerOK, Rendering
    <3> QED
      BY <3>2 DEF Answered
  <2> DEFINE rows == ToSet(result.rows)
             ids == ToSet(result.incident_ids)
  <2>1. result.status = "done"
    BY Statuses, CautiousReasons DEF EvidenceInv, AnswerOK
  <2>2. /\ CaseAssumption(tables) /\ PlanAssumption(plan) /\ page \in Pages
        /\ ~OverBudget(tables, plan, page)
        /\ result.incident_ids = IdsOf(tables, plan) /\ result.rows = RowsOf(tables, plan, page)
    BY <2>1, WhenDone
  <2>3. \A row \in rows : \E id : row = RowOf(tables, plan, page, id)
    BY <2>2, RowsAre
  <2>4. \A i \in ids : i # None
    <3>1. CASE plan.operation = "compatible_stock"
      <4>1. Distinct(IncidentIds(tables, plan)) /\ IncidentIds(tables, plan) \in Seq(Nat)
        BY <2>2, <3>1, StockBudget
      <4>2. ToSet(IncidentIds(tables, plan)) \subseteq Nat
        BY <4>1, DistinctRows
      <4> QED
        BY <2>2, <3>1, <4>2, DataAssumption DEF IdsOf
    <3>2. CASE plan.operation # "compatible_stock"
      <4>1. result.incident_ids = <<>>
        BY <2>2, <3>2 DEF IdsOf
      <4> QED
        BY <4>1 DEF ToSet
    <3> QED
      BY <3>1, <3>2
  <2>8. Len(answer.order) = Len(result.rows) /\ ToSet(answer.order) = DOMAIN result.rows
    <3>1. PICK selection \in Selections : Acceptable(selection) /\ answer.order = Order(selection)
      BY <2>0
    <3> DEFINE n == Len(result.rows)
    <3>2. n \in Nat /\ DOMAIN result.rows = 1..n
      BY <2>2, RowsAre
    <3> HIDE DEF n
    <3>3. PICK m \in 0..MaxSelection : selection \in [1..m -> 0..n]
      BY DEF Selections, BoundedSeq, SeqOf, n
    <3>4. Cardinality(ToSet(selection)) = Len(selection) /\ ToSet(selection) \subseteq 1..n
      BY <3>1, <3>2 DEF Acceptable
    <3>5. selection \in Seq(1..n)
      <4>1. m \in Nat /\ DOMAIN selection = 1..m
        BY <3>3, DataAssumption
      <4>2. \A i \in 1..m : selection[i] \in 1..n
        BY <3>3, <3>4, <4>1 DEF ToSet
      <4>3. selection \in [1..m -> 1..n]
        BY <3>3, <4>2
      <4> QED
        BY <4>1, <4>3, SeqDef
    <3>6. answer.order = selection \o Sorted((1..n) \ ToSet(selection))
      BY <3>1, <3>2 DEF Order
    <3> QED
      BY <3>2, <3>4, <3>5, <3>6, OrderIs DEF n
  <2> HIDE DEF rows, ids
  <2>5. ASSUME NEW name PROVE name \in Text <=> name \in References
    <3>1. name \in Text <=>
            /\ name[2] # None
            /\ \/ \E row \in rows : name \in Named(row)
               \/ \E i \in ids : name = <<"incident", i>>
      BY Zenon DEF Text, rows, ids
    <3>2. name \in References <=>
            \/ \E row \in rows : \E record \in {row} \cup Nested(row) : name \in IdentitiesIn(record)
            \/ \E i \in ids : name = <<"incident", i>>
      BY Zenon DEF References, rows, ids
    <3>3. \A row \in rows : Covers(row, name)
      BY <2>2, <2>3, RowCovers
    <3>4. \A i \in ids : name = <<"incident", i>> => name[2] # None
      <4>1. \A a, b : name = <<a, b>> => name[2] = b
        OBVIOUS
      <4> QED
        BY <2>4, <4>1, Zenon
    <3> QED
      BY <3>1, <3>2, <3>3, <3>4, Zenon DEF Covers
  <2>6. Text \subseteq References
    BY <2>5
  <2>7. References \subseteq Text
    BY <2>5
  <2> QED
    BY <2>0, <2>6, <2>7, <2>8
<1> QED
  BY <1>1, EvidenceInductive, PTL
=============================================================================
