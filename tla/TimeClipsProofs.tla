--------------------------- MODULE TimeClipsProofs ---------------------------
(* The trace is true to the log, and its clips are true to the trace.      *)
(*                                                                         *)
(* TraceInv is the inductive invariant of Trace: beside the types, the     *)
(* order of time and the chain of states that EnhancedTrue is about, it    *)
(* says at every step of the loops which timers were counted (Timing),     *)
(* which of them were inserted (Merging) and which times of the clock are  *)
(* in the new list (Clocking). With it EnhancedTrue follows where a loop   *)
(* ends, and EventsKept where a loop hands over its list.                  *)
(*                                                                         *)
(* ClipInv is what TimeClips adds: a time that was looked at lies, by a    *)
(* margin of Span at the start, in one range that was found (Finding,      *)
(* Found), and the episodes that were cut are true (EpisodesTrue).         *)
EXTENDS TimeClips, FiniteSetTheorems, SequenceTheorems, WellFoundedInduction, TLAPS

(* The order of the natural numbers, as a constant the provers can use.    *)
LessThanNat == OpToRel(<, Nat)

(* It is well-founded.                                                     *)
LEMMA LessThanWellFounded == IsWellFoundedOn(LessThanNat, Nat)
  BY NatLessThanWellFounded, Zenon DEF LessThanNat

(* It has the pairs whose first number is the smaller one.                 *)
LEMMA LessThanPairs == LessThanNat = {ss \in Nat \X Nat : ss[1] < ss[2]}
  BY Zenon DEF OpToRel, LessThanNat

(* A set of natural numbers that is not empty has a least element.         *)
LEMMA LeastElement ==
  ASSUME NEW S, S \subseteq Nat, S # {}
  PROVE  \E m \in S : \A n \in S : m <= n
<1>1. PICK m \in S : \A n \in S : <<n, m>> \notin LessThanNat
  BY LessThanWellFounded, WFMin
<1>2. \A n \in S : ~ (n < m)
  <2>1. TAKE n \in S
  <2>2. <<n, m>> \notin LessThanNat
    BY <1>1
  <2>3. QED
    BY <2>2, LessThanPairs
<1>3. QED
  BY <1>1, <1>2

(* Min(S) in the model, the first index in the code.                       *)
LEMMA MinIs ==
  ASSUME NEW S, S \subseteq Nat, S # {}
  PROVE  Min(S) \in S /\ \A n \in S : Min(S) <= n
<1>1. \E m \in S : \A n \in S : m <= n
  BY LeastElement
<1>2. QED
  BY <1>1 DEF Min

(* A set of numbers up to a bound has a greatest element, Max(S).          *)
LEMMA MaxIs ==
  ASSUME NEW b \in Nat, NEW S, S \subseteq 0..b, S # {}
  PROVE  Max(S) \in S /\ \A n \in S : Max(S) >= n
<1> DEFINE below == {n \in 0..b : b - n \in S}
<1>1. PICK s \in S : TRUE
  OBVIOUS
<1>2. b - s \in below
  OBVIOUS
<1>3. below # {}
  BY <1>2
<1> HIDE DEF below
<1>9. below \subseteq 0..b /\ \A n \in below : b - n \in S
  BY DEF below
<1>10. below \subseteq Nat
  BY <1>9
<1>4. PICK m \in below : \A n \in below : m <= n
  BY <1>3, <1>10, LeastElement
<1>5. b - m \in S
  BY <1>4, <1>9
<1>6. ASSUME NEW n \in S PROVE b - m >= n
  <2>1. b - n \in below
    BY DEF below
  <2>2. m <= b - n
    BY <1>4, <2>1
  <2>3. QED
    BY <2>2, <1>4, <1>9
<1>7. \E x \in S : \A y \in S : x >= y
  BY <1>5, <1>6
<1>8. QED
  BY <1>7 DEF Max

-----------------------------------------------------------------------------
(* The numbers 0 to n - 1 are n.                                           *)
LEMMA NumbersBelow ==
  ASSUME NEW n \in Nat
  PROVE  /\ IsFiniteSet(0..(n - 1)) /\ Cardinality(0..(n - 1)) = n
         /\ IsFiniteSet(1..n) /\ Cardinality(1..n) = n
<1>1. IsFiniteSet(0..(n - 1)) /\ Cardinality(0..(n - 1)) = IF 0 > n - 1 THEN 0 ELSE (n - 1) - 0 + 1
  BY FS_Interval
<1>2. IsFiniteSet(1..n) /\ Cardinality(1..n) = IF 1 > n THEN 0 ELSE n - 1 + 1
  BY FS_Interval
<1>3. QED
  BY <1>1, <1>2

(* An element has a rank in a total order: the number of those before it.  *)
(* No two have the same one, and every number is the rank of one.          *)
LEMMA Ranks ==
  ASSUME NEW D, IsFiniteSet(D), NEW before,
         \A i \in D : before[i] \subseteq D /\ i \notin before[i],
         \A i, j \in D : i \in before[j] => before[i] \subseteq before[j],
         \A i, j \in D : i = j \/ i \in before[j] \/ j \in before[i]
  PROVE  /\ Cardinality(D) \in Nat
         /\ \A i \in D : Cardinality(before[i]) \in 0..(Cardinality(D) - 1)
         /\ \A i, j \in D : i \in before[j] => Cardinality(before[i]) < Cardinality(before[j])
         /\ \A i, j \in D : Cardinality(before[i]) = Cardinality(before[j]) => i = j
         /\ \A k \in 1..Cardinality(D) : \E i \in D : Cardinality(before[i]) = k - 1
<1> DEFINE N == Cardinality(D)
<1>1. N \in Nat
  BY FS_CardinalityType
<1>2. ASSUME NEW i \in D
      PROVE  IsFiniteSet(before[i]) /\ Cardinality(before[i]) \in 0..(N - 1)
  <2> DEFINE others == D \ {i}
  <2>1. IsFiniteSet(others) /\ Cardinality(others) = N - 1
    BY FS_RemoveElement
  <2>2. before[i] \in SUBSET others
    OBVIOUS
  <2> HIDE DEF others
  <2>3. IsFiniteSet(before[i]) /\ Cardinality(before[i]) <= N - 1
    BY <2>1, <2>2, FS_Subset
  <2>4. Cardinality(before[i]) \in Nat
    BY <2>3, FS_CardinalityType
  <2>5. QED
    BY <1>1, <2>3, <2>4
<1>3. ASSUME NEW i \in D, NEW j \in D, i \in before[j]
      PROVE  Cardinality(before[i]) < Cardinality(before[j])
  <2>1. before[i] \in SUBSET before[j] /\ before[i] # before[j]
    BY <1>3
  <2>2. IsFiniteSet(before[j]) /\ Cardinality(before[j]) \in Nat /\ Cardinality(before[i]) \in Nat
    BY <1>2, <1>1
  <2>3. /\ Cardinality(before[i]) <= Cardinality(before[j])
        /\ Cardinality(before[j]) = Cardinality(before[i]) => before[j] = before[i]
    BY <2>1, <2>2, FS_Subset
  <2>4. QED
    BY <2>1, <2>2, <2>3
<1>4. ASSUME NEW i \in D, NEW j \in D, Cardinality(before[i]) = Cardinality(before[j])
      PROVE  i = j
  <2>1. Cardinality(before[i]) \in Int /\ Cardinality(before[j]) \in Int
    BY <1>2
  <2>2. ~ (i \in before[j]) /\ ~ (j \in before[i])
    BY <1>3, <1>4, <2>1
  <2>3. QED
    BY <2>2
<1> DEFINE rank == [i \in D |-> Cardinality(before[i])]
<1>5. rank \in Injection(D, 0..(N - 1))
  BY <1>2, <1>4 DEF Injection, IsInjective
<1>6. IsFiniteSet(0..(N - 1)) /\ Cardinality(0..(N - 1)) = N
  BY <1>1, NumbersBelow
<1> HIDE DEF rank
<1>7. rank \in Surjection(D, 0..(N - 1))
  BY <1>5, <1>6, FS_Injection
<1>8. ASSUME NEW k \in 1..N PROVE \E i \in D : Cardinality(before[i]) = k - 1
  <2>1. k - 1 \in 0..(N - 1)
    BY <1>1
  <2>2. PICK i \in D : rank[i] = k - 1
    BY <1>7, <2>1 DEF Surjection
  <2>3. QED
    BY <2>2 DEF rank
<1>9. QED
  BY <1>1, <1>2, <1>3, <1>4, <1>8

(* The elements of a finite set before a given one.                        *)
SmallerIn(S) == [n \in S |-> {m \in S : m < n}]

(* They are ranked.                                                        *)
LEMMA SetRanks ==
  ASSUME NEW S, S \subseteq Int, IsFiniteSet(S)
  PROVE  /\ Cardinality(S) \in Nat
         /\ \A i \in S : Rank(S, i) \in 0..(Cardinality(S) - 1)
         /\ \A i, j \in S : i < j =>
               Rank(S, i) < Rank(S, j)
         /\ \A i, j \in S :
               Rank(S, i) = Rank(S, j) => i = j
         /\ \A k \in 1..Cardinality(S) : \E i \in S : Rank(S, i) = k - 1
<1> DEFINE before == SmallerIn(S)
<1>1. \A i \in S : before[i] = {m \in S : m < i}
  BY DEF SmallerIn
<1>2. \A i \in S : before[i] \subseteq S /\ i \notin before[i]
  BY <1>1
<1>3. ASSUME NEW i \in S, NEW j \in S, i \in before[j] PROVE before[i] \subseteq before[j]
  <2>1. before[i] = {m \in S : m < i} /\ before[j] = {m \in S : m < j}
    BY <1>1
  <2>2. i < j
    BY <1>3, <2>1
  <2>3. ASSUME NEW m \in before[i] PROVE m \in before[j]
    <3>1. m \in S /\ m < i
      BY <2>1
    <3>2. m \in Int /\ i \in Int /\ j \in Int
      BY <3>1
    <3>3. m < j
      BY <3>1, <3>2, <2>2
    <3>4. QED
      BY <3>1, <3>3, <2>1
  <2>4. QED
    BY <2>3
<1>4. \A i, j \in S : i = j \/ i \in before[j] \/ j \in before[i]
  BY <1>1
<1>5. \A i, j \in S : i < j => i \in before[j]
  BY <1>1
<1> HIDE DEF before
<1>6. /\ Cardinality(S) \in Nat
      /\ \A i \in S : Cardinality(before[i]) \in 0..(Cardinality(S) - 1)
      /\ \A i, j \in S : i \in before[j] => Cardinality(before[i]) < Cardinality(before[j])
      /\ \A i, j \in S : Cardinality(before[i]) = Cardinality(before[j]) => i = j
      /\ \A k \in 1..Cardinality(S) : \E i \in S : Cardinality(before[i]) = k - 1
  BY <1>2, <1>3, <1>4, Ranks
<1>7. QED
  BY <1>1, <1>5, <1>6 DEF Rank

(* The list e, of length N, has the elements of S, each once and in their  *)
(* order.                                                                  *)
Lists(e, N, S) ==
  /\ N \in Nat /\ e \in [1..N -> S]
  /\ \A j, k \in 1..N : j < k => e[j] < e[k]
  /\ \A n \in S : \E k \in 1..N : e[k] = n

(* Ordered(S) lists the elements of S.                                     *)
LEMMA OrderedIs ==
  ASSUME NEW S, S \subseteq Int, IsFiniteSet(S)
  PROVE  Lists(Ordered(S), Cardinality(S), S)
<1> DEFINE N == Cardinality(S)
<1>1. /\ N \in Nat
      /\ \A i \in S : Rank(S, i) \in 0..(N - 1)
      /\ \A i, j \in S : i < j => Rank(S, i) < Rank(S, j)
      /\ \A i, j \in S : Rank(S, i) = Rank(S, j) => i = j
      /\ \A k \in 1..N : \E i \in S : Rank(S, i) = k - 1
  BY SetRanks
<1>2. Ordered(S) = [k \in 1..N |-> CHOOSE n \in S : Rank(S, n) = k - 1]
  BY Zenon DEF Ordered
<1> HIDE DEF N
<1>3. \A k \in 1..N : Ordered(S)[k] \in S /\ Rank(S, Ordered(S)[k]) = k - 1
  BY <1>1, <1>2
<1>4. ASSUME NEW j \in 1..N, NEW k \in 1..N, j < k
      PROVE  Ordered(S)[j] < Ordered(S)[k]
  <2> DEFINE x == Ordered(S)[j]
             y == Ordered(S)[k]
  <2>1. x \in S /\ y \in S /\ Rank(S, x) < Rank(S, y)
    BY <1>3, <1>1, <1>4
  <2> HIDE DEF x, y
  <2>2. ~ (y < x) /\ x # y
    <3>1. Rank(S, x) \in Int /\ Rank(S, y) \in Int
      BY <1>1, <2>1
    <3>2. QED
      BY <1>1, <2>1, <3>1
  <2>3. x \in Int /\ y \in Int
    BY <2>1
  <2>4. x < y
    BY <2>2, <2>3
  <2>5. QED
    BY <2>4 DEF x, y
<1>5. ASSUME NEW n \in S PROVE \E k \in 1..N : Ordered(S)[k] = n
  <2>1. Rank(S, n) + 1 \in 1..N /\ (Rank(S, n) + 1) - 1 = Rank(S, n)
    BY <1>1
  <2>2. Ordered(S)[Rank(S, n) + 1] = n
    BY <1>1, <1>3, <2>1
  <2>3. QED
    BY <2>1, <2>2
<1>6. QED
  BY <1>1, <1>2, <1>3, <1>4, <1>5 DEF N, Lists

(* A list of the elements of S, each once and in their order, is that one. *)
LEMMA OrderedUnique ==
  ASSUME NEW S, S \subseteq Int, NEW N, NEW e, Lists(e, N, S)
  PROVE  /\ IsFiniteSet(S) /\ Cardinality(S) = N
         /\ Ordered(S) = e
<1> USE DEF Lists
<1>1. \A j, k \in 1..N : e[j] < e[k] => j < k
  BY \A i \in 1..N : e[i] \in Int
<1>2. \A j, k \in 1..N : e[j] = e[k] => j = k
  BY \A i \in 1..N : e[i] \in Int
<1>3. IsFiniteSet(S) /\ Cardinality(S) = N
  <2>1. e \in Bijection(1..N, S)
    BY <1>2 DEF Bijection, Injection, Surjection, IsInjective
  <2>2. ExistsBijection(1..N, S)
    BY <2>1 DEF ExistsBijection
  <2>3. QED
    BY <2>2, FS_NatBijection, FS_CountingElements
<1>4. ASSUME NEW k \in 1..N PROVE Rank(S, e[k]) = k - 1
  <2> DEFINE T == {m \in S : m < e[k]}
             f == [i \in 1..(k - 1) |-> e[i]]
  <2>1. k - 1 \in Nat /\ 1..(k - 1) \subseteq 1..N
    OBVIOUS
  <2>2. f \in [1..(k - 1) -> T]
    BY <2>1
  <2>3. \A i, j \in 1..(k - 1) : f[i] = f[j] => i = j
    BY <1>2, <2>1
  <2>4. \A t \in T : \E i \in 1..(k - 1) : f[i] = t
    <3>1. TAKE t \in T
    <3>2. PICK i \in 1..N : e[i] = t
      OBVIOUS
    <3>3. i < k
      BY <1>1, <3>2
    <3>4. QED
      BY <3>2, <3>3
  <2>5. f \in Bijection(1..(k - 1), T)
    BY <2>2, <2>3, <2>4 DEF Bijection, Injection, Surjection, IsInjective
  <2>6. ExistsBijection(1..(k - 1), T)
    BY <2>5 DEF ExistsBijection
  <2> HIDE DEF T, f
  <2>7. Cardinality(T) = k - 1
    BY <2>1, <2>6, FS_CountingElements
  <2>8. QED
    BY <2>7 DEF T, Rank
<1>5. \A i, j \in S : Rank(S, i) = Rank(S, j) => i = j
  BY <1>3, SetRanks
<1>6. Ordered(S) = [k \in 1..N |-> CHOOSE n \in S : Rank(S, n) = k - 1]
  BY <1>3 DEF Ordered
<1>7. \A k \in 1..N : (CHOOSE n \in S : Rank(S, n) = k - 1) = e[k]
  BY <1>4, <1>5
<1>8. Ordered(S) = e
  BY <1>6, <1>7
<1>9. QED
  BY <1>3, <1>8
-----------------------------------------------------------------------------
(* A set of places of a list is finite.                                    *)
LEMMA PlacesFinite ==
  ASSUME NEW T, NEW list \in Seq(T), NEW S, S \subseteq 1..Len(list)
  PROVE  IsFiniteSet(S) /\ S \subseteq Int
<1>1. Len(list) \in Nat
  BY LenProperties
<1> DEFINE n == Len(list)
<1>2. n \in Nat /\ S \in SUBSET (1..n)
  BY <1>1
<1> HIDE DEF n
<1>3. IsFiniteSet(1..n)
  BY <1>2, NumbersBelow
<1>4. IsFiniteSet(S)
  BY <1>2, <1>3, FS_Subset
<1>5. QED
  BY <1>2, <1>4

(* The elements of a list at the places e[1] to e[N].                      *)
Along(list, e, N) == [k \in 1..N |-> list[e[k]]]

(* Picked(list, S) has the elements of the list at the places S, in their  *)
(* order.                                                                  *)
LEMMA PickedIs ==
  ASSUME NEW T, NEW list \in Seq(T), NEW S, S \subseteq 1..Len(list)
  PROVE  /\ Lists(Ordered(S), Cardinality(S), S)
         /\ Picked(list, S) = Along(list, Ordered(S), Cardinality(S))
         /\ Picked(list, S) \in Seq(T) /\ Len(Picked(list, S)) = Cardinality(S)
<1> DEFINE o == Ordered(S)
           N == Cardinality(S)
<1>1. Lists(o, N, S)
  BY PlacesFinite, OrderedIs
<1>2. N \in Nat /\ o \in [1..N -> S]
  BY <1>1 DEF Lists
<1>3. Picked(list, S) = [k \in DOMAIN o |-> list[o[k]]]
  BY Zenon DEF Picked
<1> HIDE DEF o, N
<1>4. Picked(list, S) = [k \in 1..N |-> list[o[k]]]
  BY <1>2, <1>3
<1>5. \A k \in 1..N : list[o[k]] \in T
  <2>1. TAKE k \in 1..N
  <2>2. o[k] \in 1..Len(list)
    BY <1>2
  <2>3. QED
    BY <2>2
<1>6. Picked(list, S) \in Seq(T) /\ Len(Picked(list, S)) = N
  BY <1>2, <1>4, <1>5
<1>7. QED
  BY <1>1, <1>4, <1>6 DEF o, N, Along

(* It is the list that has these elements in this order.                   *)
LEMMA PickedUnique ==
  ASSUME NEW list, NEW S, S \subseteq Int, NEW N, NEW e, Lists(e, N, S)
  PROVE  Picked(list, S) = Along(list, e, N)
<1>1. Ordered(S) = e
  BY OrderedUnique
<1>2. DOMAIN e = 1..N
  BY DEF Lists
<1>3. QED
  BY <1>1, <1>2, Zenon DEF Picked, Along

(* From neighbouring places it is a part of the list.                      *)
LEMMA PickedInterval ==
  ASSUME NEW T, NEW list \in Seq(T), NEW a \in 1..(Len(list) + 1),
         NEW b \in (a - 1)..Len(list)
  PROVE  Picked(list, a..b) = SubSeq(list, a, b)
<1>1. Len(list) \in Nat
  BY LenProperties
<1> DEFINE N == b - a + 1
           e == [k \in 1..N |-> a + k - 1]
           S == a..b
<1>2. N \in Nat /\ a \in Nat /\ b \in Int
  BY <1>1
<1>3. S \subseteq Int /\ e \in [1..N -> S]
  BY <1>2
<1>4. \A j, k \in 1..N : j < k => e[j] < e[k]
  BY <1>2
<1>5. ASSUME NEW n \in S PROVE \E k \in 1..N : e[k] = n
  <2>1. n - a + 1 \in 1..N /\ a + (n - a + 1) - 1 = n
    BY <1>2
  <2>2. QED
    BY <2>1
<1>6. \A k \in 1..N : e[k] = a + k - 1
  OBVIOUS
<1>7. Lists(e, N, S)
  BY <1>2, <1>3, <1>4, <1>5 DEF Lists
<1> HIDE DEF e, S
<1>8. Picked(list, S) = Along(list, e, N)
  BY <1>3, <1>7, PickedUnique
<1>9. SubSeq(list, a, b) = [k \in 1..N |-> list[a + k - 1]]
  BY <1>1, <1>2
<1>10. QED
  BY <1>6, <1>8, <1>9 DEF S, Along

(* From all places it is the list.                                         *)
LEMMA PickedAll ==
  ASSUME NEW T, NEW list \in Seq(T)
  PROVE  Picked(list, 1..Len(list)) = list
<1>1. Len(list) \in Nat /\ 1 \in 1..(Len(list) + 1) /\ Len(list) \in (1 - 1)..Len(list)
  BY LenProperties
<1>2. Picked(list, 1..Len(list)) = SubSeq(list, 1, Len(list))
  BY <1>1, PickedInterval
<1>3. QED
  BY <1>2, SubSeqFull

(* From no place it is empty.                                              *)
LEMMA PickedNone == \A list : Picked(list, {}) = <<>>
<1>1. Ordered({}) = [k \in 1..0 |-> CHOOSE n \in {} : Rank({}, n) = k - 1]
  BY FS_EmptySet DEF Ordered
<1>2. \A list : Picked(list, {}) = [k \in DOMAIN Ordered({}) |-> list[Ordered({})[k]]]
  BY Zenon DEF Picked
<1>3. DOMAIN Ordered({}) = {}
  BY <1>1
<1>4. QED
  BY <1>2, <1>3

(* The list of a set and of a number greater than all of them.             *)
LEMMA ListsGrows ==
  ASSUME NEW S, S \subseteq Int, NEW N, NEW o, Lists(o, N, S),
         NEW last \in Int, \A n \in S : n < last,
         NEW e, e = [k \in 1..(N + 1) |-> IF k <= N THEN o[k] ELSE last]
  PROVE  Lists(e, N + 1, S \cup {last})
<1> USE DEF Lists
<1>1. N + 1 \in Nat /\ e \in [1..(N + 1) -> S \cup {last}]
  OBVIOUS
<1>2. ASSUME NEW j \in 1..(N + 1), NEW k \in 1..(N + 1), j < k PROVE e[j] < e[k]
  <2>1. j \in 1..N /\ e[j] = o[j]
    BY <1>2
  <2>2. CASE k \in 1..N
    BY <1>2, <2>1, <2>2
  <2>3. CASE ~ (k \in 1..N)
    <3>1. e[k] = last
      BY <2>3
    <3>2. o[j] \in S
      BY <2>1
    <3>3. QED
      BY <2>1, <3>1, <3>2
  <2>4. QED
    BY <2>2, <2>3
<1>3. ASSUME NEW n \in S \cup {last} PROVE \E k \in 1..(N + 1) : e[k] = n
  <2>1. CASE n \in S
    <3>1. PICK k \in 1..N : o[k] = n
      BY <2>1
    <3>2. k \in 1..(N + 1) /\ e[k] = n
      BY <3>1
    <3>3. QED
      BY <3>2
  <2>2. CASE n = last
    <3>1. N + 1 \in 1..(N + 1) /\ ~ (N + 1 <= N)
      OBVIOUS
    <3>2. QED
      BY <2>2, <3>1
  <2>3. QED
    BY <2>1, <2>2
<1>4. QED
  BY <1>1, <1>2, <1>3

(* A list that grows, with elements that are left out and one that is not. *)
PicksOneMore(list, more, x, S) ==
  Picked((list \o more) \o <<x>>, S \cup {Len(list) + Len(more) + 1}) = Append(Picked(list, S), x)

(* A longer list from which the last element is picked too.                *)
LEMMA PickedGrows ==
  ASSUME NEW T, NEW list \in Seq(T), NEW more \in Seq(T), NEW x \in T,
         NEW S, S \subseteq 1..Len(list)
  PROVE  PicksOneMore(list, more, x, S)
<1> DEFINE big == (list \o more) \o <<x>>
           L == Len(list)
           last == Len(list) + Len(more) + 1
           N == Cardinality(S)
           o == Ordered(S)
           e == [k \in 1..(N + 1) |-> IF k <= N THEN o[k] ELSE last]
           R == S \cup {last}
           p == Picked(list, S)
<1>1. L \in Nat /\ Len(more) \in Nat
  BY LenProperties
<1>2. /\ Lists(o, N, S)
      /\ p \in Seq(T) /\ Len(p) = N
      /\ p = Along(list, o, N)
  BY PickedIs
<1>3. /\ \A n \in 1..L : big[n] = list[n]
      /\ big[last] = x
  BY <1>1
<1> HIDE DEF N, o, L, last, p
<1>4. S \subseteq Int /\ last \in Int /\ \A n \in S : n \in 1..L /\ n < last
  BY <1>1 DEF L, last
<1>5. Lists(e, N + 1, R)
  BY <1>2, <1>4, ListsGrows
<1>6. N \in Nat /\ o \in [1..N -> S]
  BY <1>2 DEF Lists
<1>7. /\ \A k \in 1..N : k \in 1..(N + 1) /\ e[k] = o[k]
      /\ N + 1 \in 1..(N + 1) /\ e[N + 1] = last
  BY <1>6
<1> HIDE DEF e, R, big
<1>8. Picked(big, R) = Along(big, e, N + 1)
  <2>1. R \subseteq Int
    BY <1>4 DEF R
  <2>2. QED
    BY <1>5, <2>1, PickedUnique
<1>9. \A k \in 1..(N + 1) : Append(p, x)[k] = big[e[k]]
  <2>1. TAKE k \in 1..(N + 1)
  <2>2. CASE k \in 1..N
    <3>1. o[k] \in 1..L
      BY <1>6, <1>4, <2>2
    <3>2. p[k] = list[o[k]]
      BY <2>2, <1>2 DEF Along
    <3>3. Append(p, x)[k] = p[k]
      BY <2>2, <1>2, <1>6
    <3>4. QED
      BY <3>1, <3>2, <3>3, <2>2, <1>3, <1>7
  <2>3. CASE k = N + 1
    BY <2>3, <1>2, <1>3, <1>7
  <2>4. k \in 1..N \/ k = N + 1
    BY <1>6
  <2>5. QED
    BY <2>2, <2>3, <2>4
<1>10. Append(p, x) = Along(big, e, N + 1)
  <2> DEFINE q == Append(p, x)
             r == Along(big, e, N + 1)
  <2>1. q \in Seq(T) /\ Len(q) = N + 1
    BY <1>2
  <2>2. \A k \in 1..(N + 1) : r[k] = q[k]
    BY <1>9 DEF Along
  <2>3. r \in Seq(T) /\ Len(r) = N + 1
    <3>1. \A k \in 1..(N + 1) : q[k] \in T
      BY <2>1
    <3>2. \A k \in 1..(N + 1) : big[e[k]] \in T
      BY <3>1, <1>9
    <3>3. N + 1 \in Nat
      BY <1>6
    <3>4. QED
      BY <3>2, <3>3 DEF Along
  <2> HIDE DEF q, r
  <2>4. q = r
    BY <2>1, <2>2, <2>3, SeqEqual
  <2>5. QED
    BY <2>4 DEF q, r
<1>11. QED
  BY <1>8, <1>10 DEF big, R, last, L, p, PicksOneMore

(* A list that grows only with elements that are left out.                 *)
PicksNoMore(list, more, S) == Picked(list \o more, S) = Picked(list, S)

(* A longer list from which nothing more is picked.                        *)
LEMMA PickedPadded ==
  ASSUME NEW T, NEW list \in Seq(T), NEW more \in Seq(T),
         NEW S, S \subseteq 1..Len(list)
  PROVE  PicksNoMore(list, more, S)
<1> DEFINE N == Cardinality(S)
           o == Ordered(S)
           big == list \o more
<1>1. Lists(o, N, S)
  BY PickedIs
<1>2. S \subseteq Int
  OBVIOUS
<1>3. \A n \in 1..Len(list) : big[n] = list[n]
  OBVIOUS
<1> HIDE DEF N, o, big
<1>4. Picked(big, S) = Along(big, o, N)
  BY <1>1, <1>2, PickedUnique
<1>5. Picked(list, S) = Along(list, o, N)
  BY <1>1, <1>2, PickedUnique
<1>6. \A k \in 1..N : o[k] \in 1..Len(list)
  BY <1>1 DEF Lists
<1>7. QED
  BY <1>3, <1>4, <1>5, <1>6 DEF big, Along, PicksNoMore
-----------------------------------------------------------------------------
(* The events that are due are a first part of the list, which ends before *)
(* one that is not due.                                                    *)
LEMMA DueSplits ==
  ASSUME NEW T, NEW list \in Seq(T), \A e \in T : e.time \in Nat, NEW time \in Nat
  PROVE  /\ DueLen(list, time) \in 0..Len(list)
         /\ \A k \in 1..DueLen(list, time) : list[k].time <= time
         /\ DueLen(list, time) < Len(list) => list[DueLen(list, time) + 1].time > time
         /\ Due(list, time) \in Seq(T) /\ Len(Due(list, time)) = DueLen(list, time)
         /\ \A k \in 1..DueLen(list, time) : Due(list, time)[k] = list[k]
         /\ NotDue(list, time) \in Seq(T)
         /\ Len(NotDue(list, time)) = Len(list) - DueLen(list, time)
         /\ \A k \in 1..(Len(list) - DueLen(list, time)) :
               NotDue(list, time)[k] = list[DueLen(list, time) + k]
<1> DEFINE L == Len(list)
           S == {n \in 0..L : \A k \in 1..n : list[k].time <= time}
           d == DueLen(list, time)
<1>1. L \in Nat
  BY LenProperties
<1>2. 0 \in S /\ S \subseteq 0..L
  BY <1>1
<1>3. d = Max(S)
  BY DEF DueLen
<1> HIDE DEF L, S, d
<1>4. d \in S
  <2>1. S # {}
    BY <1>2
  <2>2. QED
    BY <1>1, <1>2, <1>3, <2>1, MaxIs
<1>5. \A n \in S : d >= n
  <2>1. S # {}
    BY <1>2
  <2>2. QED
    BY <1>1, <1>2, <1>3, <2>1, MaxIs
<1>6. d \in 0..L /\ \A k \in 1..d : list[k].time <= time
  BY <1>4 DEF S
<1>7. ASSUME d < L PROVE list[d + 1].time > time
  <2>1. d + 1 \in 0..L /\ d + 1 \in 1..L
    BY <1>1, <1>6, <1>7
  <2>2. list[d + 1].time \in Nat
    BY <2>1 DEF L
  <2>3. d + 1 \notin S
    <3>1. ~ (d >= d + 1)
      BY <1>6
    <3>2. QED
      BY <1>5, <3>1
  <2>4. PICK k \in 1..(d + 1) : ~ (list[k].time <= time)
    BY <2>1, <2>3 DEF S
  <2>5. k = d + 1
    <3>1. k \in 1..d \/ k = d + 1
      BY <1>6
    <3>2. QED
      BY <3>1, <1>6, <2>4
  <2>6. QED
    BY <2>2, <2>4, <2>5
<1>8. \A k \in 1..L : list[k] \in T
  BY DEF L
<1>9. /\ SubSeq(list, 1, d) \in Seq(T) /\ Len(SubSeq(list, 1, d)) = d
      /\ \A k \in 1..d : SubSeq(list, 1, d)[k] = list[k]
  BY <1>1, <1>6, <1>8
<1>10. /\ SubSeq(list, d + 1, L) \in Seq(T) /\ Len(SubSeq(list, d + 1, L)) = L - d
       /\ \A k \in 1..(L - d) : SubSeq(list, d + 1, L)[k] = list[d + k]
  BY <1>1, <1>6, <1>8
<1>11. Due(list, time) = SubSeq(list, 1, d) /\ NotDue(list, time) = SubSeq(list, d + 1, L)
  BY DEF Due, NotDue, d, L
<1>12. QED
  BY <1>6, <1>7, <1>9, <1>10, <1>11 DEF d, L

(* The list is the one of the due events and the others.                   *)
LEMMA DueConcat ==
  ASSUME NEW T, NEW list \in Seq(T), \A e \in T : e.time \in Nat, NEW time \in Nat
  PROVE  list = Due(list, time) \o NotDue(list, time)
<1> DEFINE d == DueLen(list, time)
           L == Len(list)
<1>1. d \in 0..L /\ L \in Nat
  BY DueSplits, LenProperties
<1> HIDE DEF d
<1>2. SubSeq(list, 1, d) \o SubSeq(list, d + 1, L) = SubSeq(list, 1, L)
  <2>1. 1 \in 1..(L + 1) /\ d \in (1 - 1)..L /\ L \in d..L
    BY <1>1
  <2>2. QED
    BY <2>1, ConcatAdjacentSubSeq
<1>3. SubSeq(list, 1, L) = list
  BY SubSeqFull
<1>4. QED
  BY <1>2, <1>3 DEF Due, NotDue, d

(* The sorted list has the elements of the list, each once.                *)
LEMMA ByTimeIs ==
  ASSUME NEW T, NEW list \in Seq(T), \A e \in T : e.time \in Nat
  PROVE  \E p \in [1..Len(list) -> 1..Len(list)] :
            /\ \A j, k \in 1..Len(list) : p[j] = p[k] => j = k
            /\ \A n \in 1..Len(list) : \E k \in 1..Len(list) : p[k] = n
            /\ \A j, k \in 1..Len(list) : j < k => list[p[j]].time <= list[p[k]].time
            /\ ByTime(list) = Along(list, p, Len(list))
            /\ ByTime(list) \in Seq(T) /\ Len(ByTime(list)) = Len(list)
<1> DEFINE L == Len(list)
           D == 1..L
           before == [n \in D |-> Before(list, n)]
           rank == [n \in D |-> Cardinality(before[n])]
<1>1. L \in Nat /\ DOMAIN list = D
  BY LenProperties
<1>2. \A n \in D : list[n] \in T /\ list[n].time \in Nat /\ n \in Nat
  OBVIOUS
<1>3. \A n \in D : \A m : m \in before[n] <=>
         m \in D /\ (list[m].time < list[n].time \/ (list[m].time = list[n].time /\ m < n))
  BY <1>1 DEF Before
<1>4. IsFiniteSet(D) /\ Cardinality(D) = L
  BY <1>1, NumbersBelow
<1> HIDE DEF D, before
<1>5. \A i \in D : before[i] \subseteq D /\ i \notin before[i]
  BY <1>2, <1>3
<1>6. ASSUME NEW i \in D, NEW j \in D, i \in before[j] PROVE before[i] \subseteq before[j]
  <2>1. list[i].time < list[j].time \/ (list[i].time = list[j].time /\ i < j)
    BY <1>3, <1>6
  <2>2. ASSUME NEW m \in before[i] PROVE m \in before[j]
    <3>1. m \in D /\ (list[m].time < list[i].time \/ (list[m].time = list[i].time /\ m < i))
      BY <1>3
    <3>2. /\ list[m].time \in Nat /\ list[i].time \in Nat /\ list[j].time \in Nat
          /\ m \in Nat /\ i \in Nat /\ j \in Nat
      BY <1>2, <3>1
    <3>3. list[m].time < list[j].time \/ (list[m].time = list[j].time /\ m < j)
      BY <2>1, <3>1, <3>2
    <3>4. QED
      BY <1>3, <3>1, <3>3
  <2>3. QED
    BY <2>2
<1>7. ASSUME NEW i \in D, NEW j \in D PROVE i = j \/ i \in before[j] \/ j \in before[i]
  <2>1. list[i].time \in Nat /\ list[j].time \in Nat /\ i \in Nat /\ j \in Nat
    BY <1>2
  <2>2. \/ i = j
        \/ list[i].time < list[j].time \/ (list[i].time = list[j].time /\ i < j)
        \/ list[j].time < list[i].time \/ (list[j].time = list[i].time /\ j < i)
    BY <2>1
  <2>3. QED
    BY <1>3, <2>2
<1>8. /\ \A i \in D : Cardinality(before[i]) \in 0..(Cardinality(D) - 1)
      /\ \A i, j \in D : i \in before[j] => Cardinality(before[i]) < Cardinality(before[j])
      /\ \A i, j \in D : Cardinality(before[i]) = Cardinality(before[j]) => i = j
      /\ \A k \in 1..Cardinality(D) : \E i \in D : Cardinality(before[i]) = k - 1
  BY <1>4, <1>5, <1>6, <1>7, Ranks
<1>9. /\ \A i \in D : rank[i] \in 0..(L - 1)
      /\ \A i, j \in D : i \in before[j] => rank[i] < rank[j]
      /\ \A i, j \in D : rank[i] = rank[j] => i = j
      /\ \A k \in D : \E i \in D : rank[i] = k - 1
  BY <1>4, <1>8 DEF D
<1>10. ByTime(list) = [k \in D |-> list[CHOOSE n \in D : rank[n] = k - 1]]
  <2>1. \A n \in D : rank[n] = Cardinality(Before(list, n))
    BY DEF before
  <2> HIDE DEF rank
  <2>2. ByTime(list) = [k \in D |-> list[CHOOSE n \in D : Cardinality(Before(list, n)) = k - 1]]
    <3>1. ByTime(list) = [k \in DOMAIN list |->
             list[CHOOSE n \in DOMAIN list : Cardinality(Before(list, n)) = k - 1]]
      BY Zenon DEF ByTime
    <3>2. QED
      BY <1>1, <3>1, Zenon
  <2>3. \A k \in D : (CHOOSE n \in D : Cardinality(Before(list, n)) = k - 1)
                     = (CHOOSE n \in D : rank[n] = k - 1)
    BY <2>1
  <2>4. QED
    BY <2>2, <2>3
<1> DEFINE p == [k \in D |-> CHOOSE n \in D : rank[n] = k - 1]
<1> HIDE DEF rank
<1>11. p \in [D -> D] /\ \A k \in D : rank[p[k]] = k - 1
  BY <1>9
<1>12. ByTime(list) = Along(list, p, L)
  BY <1>10 DEF Along, D
<1> HIDE DEF p
<1>13. \A j, k \in D : p[j] = p[k] => j = k
  <2>1. TAKE j, k \in D
  <2>2. rank[p[j]] = j - 1 /\ rank[p[k]] = k - 1 /\ j \in Nat /\ k \in Nat
    BY <1>11, <1>2
  <2>3. QED
    BY <2>2
<1>14. \A n \in D : \E k \in D : p[k] = n
  <2> TAKE n \in D
  <2>1. rank[n] \in 0..(L - 1)
    BY <1>9
  <2> HIDE DEF L
  <2>2. rank[n] + 1 \in D /\ (rank[n] + 1) - 1 = rank[n]
    BY <1>1, <2>1 DEF D
  <2>3. p[rank[n] + 1] \in D /\ rank[p[rank[n] + 1]] = rank[n]
    BY <1>11, <2>2
  <2>4. p[rank[n] + 1] = n
    BY <1>9, <2>3
  <2>5. QED
    BY <2>2, <2>4
<1>15. ASSUME NEW j \in D, NEW k \in D, j < k
       PROVE  list[p[j]].time <= list[p[k]].time
  <2>1. p[j] \in D /\ p[k] \in D /\ rank[p[j]] = j - 1 /\ rank[p[k]] = k - 1
    BY <1>11
  <2>2. ~ (p[k] \in before[p[j]])
    <3>1. j \in Nat /\ k \in Nat
      BY <1>2
    <3>2. ~ (rank[p[k]] < rank[p[j]])
      BY <2>1, <3>1, <1>15
    <3>3. QED
      BY <1>9, <2>1, <3>2
  <2>3. ~ (list[p[k]].time < list[p[j]].time)
    BY <1>3, <2>1, <2>2
  <2>4. list[p[k]].time \in Nat /\ list[p[j]].time \in Nat
    BY <1>2, <2>1
  <2>5. QED
    BY <2>3, <2>4
<1>16. ByTime(list) \in Seq(T) /\ Len(ByTime(list)) = L
  <2>1. \A k \in 1..L : list[p[k]] \in T
    BY <1>2, <1>11 DEF D
  <2>2. QED
    BY <1>1, <1>12, <2>1 DEF Along
<1>17. QED
  BY <1>11, <1>12, <1>13, <1>14, <1>15, <1>16 DEF D
-----------------------------------------------------------------------------
(* The times of the day.                                                   *)

(* A time is that of a number of whole days and a time of the day.         *)
LEMMA DivModSum ==
  ASSUME NEW n \in Nat, NEW d \in Nat, d > 0, NEW q, q = n \div d, NEW r, r = n % d
  PROVE  n = d * q + r
  BY Z3

(* Both are numbers, the second one smaller than a day.                    *)
LEMMA DivMod ==
  ASSUME NEW n \in Nat, NEW d \in Nat, d > 0
  PROVE  /\ n \div d \in Nat /\ n % d \in 0..(d - 1)
         /\ n = d * (n \div d) + (n % d)
<1> DEFINE q == n \div d
           r == n % d
<1>1. q \in Nat
  BY Z3
<1>2. r \in 0..(d - 1)
  BY Z3
<1>3. n = d * q + r
  BY DivModSum
<1>4. QED
  BY <1>1, <1>2, <1>3

(* Whole days do not change the time of the day.                           *)
LEMMA ModUnique ==
  ASSUME NEW d \in Nat, d > 0, NEW q \in Nat, NEW r \in 0..(d - 1)
  PROVE  (d * q + r) % d = r
  OBVIOUS

(* Days are counted by multiplication.                                     *)
LEMMA Distributes ==
  ASSUME NEW d \in Nat, NEW p \in Int, NEW q \in Int
  PROVE  /\ d * p \in Int /\ p * d = d * p
         /\ d * (p + q) = d * p + d * q /\ d * (p - q) = d * p - d * q
  BY Z3

(* More days are more time.                                                *)
LEMMA MoreDays ==
  ASSUME NEW d \in Nat, d > 0, NEW p \in Int, NEW q \in Int, p <= q
  PROVE  d * p <= d * q
  BY Z3

(* Days last at least as long as they are many.                            *)
LEMMA DaysLast ==
  ASSUME NEW d \in Nat, d > 0, NEW p \in Nat
  PROVE  p <= d * p
  BY Z3

(* The events of the clock are in the gap, at a time of the clock ...      *)
LEMMA ClockEventsIn ==
  ASSUME NEW start_time \in Nat, NEW end_time \in Nat,
         NEW t \in CountClockEvents(start_time, end_time)
  PROVE  t \in start_time..(end_time - 1) /\ t % Day \in ClockList
<1> DEFINE zero == start_time - (start_time % Day)
           q == start_time \div Day
<1>1. Day \in Nat /\ Day > 0 /\ ClockList \subseteq 0..(Day - 1)
  BY TraceAssumption
<1>13. \E clock \in ClockList, days \in 0..MaxTime :
         /\ t = zero + clock + days * Day
         /\ \A d \in 0..days : zero + clock + d * Day \in start_time..(end_time - 1)
  BY Zenon DEF CountClockEvents
<1>2. PICK clock \in ClockList, days \in 0..MaxTime : t = zero + clock + days * Day
  BY <1>13
<1>3. t \in start_time..(end_time - 1)
  BY Zenon DEF CountClockEvents
<1>4. q \in Nat /\ start_time % Day \in Int /\ start_time = Day * q + (start_time % Day)
  BY <1>1, DivMod
<1> HIDE DEF q, zero
<1>5. MaxTime \in Nat /\ days \in Nat
  BY TraceAssumption
<1>6. Day * q \in Int /\ Day * (q + days) = Day * q + Day * days
  BY <1>1, <1>4, <1>5, Distributes
<1>12. days * Day = Day * days /\ Day * days \in Int
  BY <1>1, <1>5, Distributes
<1>7. clock \in 0..(Day - 1) /\ clock \in Int
  BY <1>1
<1>8. t = Day * (q + days) + clock
  <2> DEFINE s == start_time % Day
             a == Day * q
             b == Day * days
  <2>1. s \in Int /\ start_time = a + s /\ zero = start_time - s
    BY <1>4 DEF zero
  <2>2. a \in Int /\ b \in Int /\ Day * (q + days) = a + b /\ days * Day = b
    BY <1>6, <1>12
  <2> HIDE DEF s, a, b
  <2>3. t = a + b + clock
    BY <1>2, <1>7, <2>1, <2>2
  <2>4. QED
    BY <2>2, <2>3
<1>9. q + days \in Nat
  BY <1>4, <1>5
<1>10. t % Day = clock
  BY <1>1, <1>7, <1>8, <1>9, ModUnique
<1>11. QED
  BY <1>3, <1>10

(* ... and one is missing only when its time of the day comes before that  *)
(* of the beginning of the gap.                                            *)
LEMMA ClockEventsMissing ==
  ASSUME NEW start_time \in Nat, NEW end_time \in Nat, end_time <= MaxTime,
         NEW t \in start_time..(end_time - 1), t % Day \in ClockList,
         t \notin CountClockEvents(start_time, end_time)
  PROVE  t % Day < start_time % Day
<1> DEFINE zero == start_time - (start_time % Day)
           q == start_time \div Day
           p == t \div Day
           clock == t % Day
           days == p - q
<1>1. Day \in Nat /\ Day > 0 /\ MaxTime \in Nat
  BY TraceAssumption
<1>2. t \in Nat
  OBVIOUS
<1>3. /\ q \in Nat /\ start_time % Day \in 0..(Day - 1)
      /\ start_time = Day * q + (start_time % Day)
  BY <1>1, DivMod
<1>4. p \in Nat /\ clock \in 0..(Day - 1) /\ t = Day * p + clock
  BY <1>1, <1>2, DivMod
<1>5. SUFFICES ASSUME ~ (clock < start_time % Day) PROVE FALSE
  OBVIOUS
<1> DEFINE s == start_time % Day
<1>6. s \in 0..(Day - 1) /\ s <= clock /\ start_time = Day * q + s /\ zero = start_time - s
  BY <1>3, <1>4, <1>5
<1> HIDE DEF p, q, clock, s, zero
<1>14. Day * q \in Int
  BY <1>1, <1>3, Distributes
<1>15. Day * p \in Int
  BY <1>1, <1>4, Distributes
<1>7. Day * q \in Int /\ Day * p \in Int
  BY <1>14, <1>15
<1>8. q <= p
  <2>1. SUFFICES ASSUME p + 1 <= q PROVE FALSE
    BY <1>3, <1>4
  <2>2. Day * (p + 1) <= Day * q
    BY <1>1, <1>3, <1>4, <2>1, MoreDays
  <2>3. Day * (p + 1) = Day * p + Day * 1
    BY <1>1, <1>4, Distributes
  <2>4. Day * 1 = Day
    BY <1>1
  <2>5. t < start_time
    BY <1>1, <1>4, <1>6, <1>7, <2>2, <2>3, <2>4
  <2>6. QED
    BY <2>5
<1>9. days \in Nat /\ days <= MaxTime
  <2>1. days \in Nat
    BY <1>3, <1>4, <1>8
  <2>2. p <= Day * p
    BY <1>1, <1>4, DaysLast
  <2>3. days <= p /\ p <= t
    BY <1>3, <1>4, <1>7, <2>2
  <2>4. QED
    BY <1>1, <1>3, <1>4, <2>1, <2>3
<1>10. t = zero + clock + days * Day
  <2>1. Day * days = Day * p - Day * q /\ days * Day = Day * days
    BY <1>1, <1>3, <1>4, <1>9, Distributes
  <2>2. QED
    BY <1>4, <1>6, <1>7, <2>1
<1>11. \A d \in 0..days : zero + clock + d * Day \in start_time..(end_time - 1)
  <2>1. TAKE d \in 0..days
  <2>2. d \in Nat /\ d <= days
    BY <1>9
  <2>3. d * Day = Day * d /\ Day * d \in Int /\ days * Day = Day * days /\ Day * days \in Int
    BY <1>1, <1>9, <2>2, Distributes
  <2>4. Day * d <= Day * days /\ d <= Day * d
    BY <1>1, <1>9, <2>2, MoreDays, DaysLast
  <2> DEFINE a == Day * d
             b == Day * days
  <2>5. t = zero + clock + b /\ a <= b /\ 0 <= a /\ a \in Int /\ b \in Int /\ d * Day = a
    BY <1>10, <2>2, <2>3, <2>4
  <2>6. zero \in Int /\ clock \in Int /\ zero + clock >= start_time
    BY <1>4, <1>6
  <2> HIDE DEF a, b, days
  <2>7. QED
    BY <2>5, <2>6
<1>12. t \in CountClockEvents(start_time, end_time)
  <2>1. clock \in ClockList
    BY DEF clock
  <2>2. days \in 0..MaxTime
    BY <1>1, <1>9
  <2> HIDE DEF days
  <2>3. \E c \in ClockList, ds \in 0..MaxTime :
           /\ t = zero + c + ds * Day
           /\ \A d \in 0..ds : zero + c + d * Day \in start_time..(end_time - 1)
    BY <1>10, <1>11, <2>1, <2>2
  <2>4. QED
    BY <2>3 DEF CountClockEvents, zero
<1>13. QED
  BY <1>12
-----------------------------------------------------------------------------
(* What the lists of the trace consist of, for a set of capabilities.      *)
Time == 0..MaxTime
State(caps) == [caps -> Value \cup {None}]
SetAction(caps) == [kind : {"set"}, time : Time, cap : caps, value : Value]
TimerAction == [kind : {"timer"}, time : Nat, cap : Cap, value : Value, span : Nat \ {0}]
ClockAction == [kind : {"clock"}, time : Nat]
Action(caps) == SetAction(caps) \cup TimerAction \cup ClockAction
Entry(caps) == [action : Action(caps), pre : State(caps)]

Caps == DOMAIN initial_state

Types ==
  /\ pc \in {"log", "sub", "timing", "merge", "clock", "done", "failed"}
  /\ Caps \subseteq Cap /\ initial_state \in State(Caps)
  /\ actions \in Seq(Entry(Caps)) /\ new_actions \in Seq(Entry(Caps))
  /\ time_range \in [start : Time, end : Time] /\ time_range.start <= time_range.end
  /\ logged \in 0..MaxEvents
  /\ index \in 1..(Len(actions) + 1) /\ tup \in 1..(Len(TimingTup) + 1)
  /\ timers \in Seq(TimerAction) /\ Len(timers) \in 0..1
  /\ fired \in Seq(TimerAction)
  /\ current_time \in Time

Kind(list, n) == list[n].action.kind
TimeOf(list, n) == list[n].action.time

(* What is not used yet is as it was.                                      *)
Unused ==
  /\ pc \in {"log", "sub"} =>
        /\ Caps = Cap /\ index = 1 /\ tup = 1 /\ timers = <<>> /\ fired = <<>>
  /\ pc \in {"log", "sub", "timing", "done"} => new_actions = <<>>
  /\ pc = "timing" /\ tup > Len(TimingTup) => index = 1
  /\ actions # <<>> => logged > 0
  /\ pc = "log" /\ logged > 0 => actions # <<>>

(* Which events there are.                                                 *)
Kinds ==
  /\ pc \in {"log", "sub", "timing", "merge"} =>
        \A n \in 1..Len(actions) : Kind(actions, n) = "set"
  /\ pc = "clock" =>
        /\ \A n \in 1..Len(actions) : Kind(actions, n) \in {"set", "timer"}
        /\ Len(actions) > 0 => Kind(actions, Len(actions)) = "set"
  /\ pc = "merge" => \A n \in 1..Len(new_actions) : Kind(new_actions, n) \in {"set", "timer"}

InTime(list) ==
  /\ \A n \in 1..Len(list) : TimeOf(list, n) \in time_range.start..time_range.end
  /\ \A j, k \in 1..Len(list) : j < k => TimeOf(list, j) <= TimeOf(list, k)
Timely == InTime(actions) /\ InTime(new_actions)

(* The state after the first n events. Up to length many, the events are in *)
(* the states that the ones before lead to.                                *)
Post(list, n) ==
  IF n = 0 THEN initial_state ELSE Effect(list[n].pre, list[n].action)
Chained(list, length) == \A n \in 1..length : list[n].pre = Post(list, n - 1)
Chain ==
  /\ pc # "done" => Chained(actions, Len(actions))
  /\ pc = "done" => Chained(actions, LastSet(actions))
  /\ Chained(new_actions, Len(new_actions))

(* Only the first event of the log may change nothing.                     *)
Changes(list) ==
  \A n \in 1..Len(list) :
     Kind(list, n) = "set" /\ list[n].pre[list[n].action.cap] = list[n].action.value
        => n = 1 /\ TimeOf(list, n) = time_range.start
Changing == Changes(actions) /\ Changes(new_actions)

(* The loops that make new_actions have come to the action before index.   *)
Progress ==
  pc \in {"merge", "clock"} =>
     /\ index = 1 => new_actions = <<>>
     /\ index > 1 =>
           /\ Len(new_actions) > 0
           /\ new_actions[Len(new_actions)] = actions[index - 1]

(* The timer that action n of the list starts, by the k-th of timing_tup;  *)
(* whether it has ended, or still runs, at the action i.                   *)
Mark(list, k, n) ==
  Timer(TimeOf(list, n) + TimingTup[k][2], TimingTup[k][1], list[n].action.value, TimingTup[k][2])
DueAt(list, k, n) == TimeOf(list, n) + TimingTup[k][2]
Ended(list, i, k, n) ==
  /\ n \in 1..i /\ list[n].action.cap = TimingTup[k][1]
  /\ TimeOf(list, i) >= DueAt(list, k, n)
  /\ \A m \in (n + 1)..i :
        list[m].action.cap = TimingTup[k][1] => TimeOf(list, m) >= DueAt(list, k, n)
Runs(list, i, k, n) ==
  /\ n \in 1..i /\ list[n].action.cap = TimingTup[k][1]
  /\ TimeOf(list, i) < DueAt(list, k, n)
  /\ \A m \in (n + 1)..i : list[m].action.cap # TimingTup[k][1]

(* At the end of the list, for one of timing_tup.                          *)
HeldMark(list, e) ==
  \E k \in 1..Len(TimingTup), n \in 1..Len(list) :
     Ended(list, Len(list), k, n) /\ e = Mark(list, k, n)

Counted(k, n) ==
  \/ k < tup /\ Ended(actions, Len(actions), k, n)
  \/ k = tup /\ Ended(actions, index - 1, k, n)
Timing ==
  pc = "timing" =>
     /\ \A j \in 1..Len(fired) : \E k \in 1..Len(TimingTup), n \in 1..Len(actions) :
           Counted(k, n) /\ fired[j] = Mark(actions, k, n)
     /\ \A k \in 1..Len(TimingTup), n \in 1..Len(actions) :
           Counted(k, n) => \E j \in 1..Len(fired) : fired[j] = Mark(actions, k, n)
     /\ \A i, j \in 1..Len(fired) : fired[i] = fired[j] => i = j
     /\ tup <= Len(TimingTup) =>
           /\ Len(timers) > 0 => \E n \in 1..Len(actions) :
                 Runs(actions, index - 1, tup, n) /\ timers[1] = Mark(actions, tup, n)
           /\ \A n \in 1..Len(actions) :
                 Runs(actions, index - 1, tup, n) =>
                    Len(timers) > 0 /\ timers[1] = Mark(actions, tup, n)

TimersOnce(list) ==
  \A i, j \in 1..Len(list) :
     Kind(list, i) = "timer" /\ list[i].action = list[j].action => i = j

SetPlaces(list) == {n \in 1..Len(list) : Kind(list, n) = "set"}
Triggers(list) == {n \in 1..Len(list) : Kind(list, n) # "clock"}

Merging ==
  pc = "merge" =>
     /\ \A j \in 1..Len(fired) : HeldMark(actions, fired[j])
     /\ \A n \in 1..Len(new_actions) :
           Kind(new_actions, n) = "timer" => HeldMark(actions, new_actions[n].action)
     /\ \A e : HeldMark(actions, e) =>
           \/ \E j \in 1..Len(fired) : fired[j] = e
           \/ \E n \in 1..Len(new_actions) : new_actions[n].action = e
     /\ \A i, j \in 1..Len(fired) :
           /\ fired[i] = fired[j] => i = j
           /\ i < j => fired[i].time <= fired[j].time
     /\ \A j \in 1..Len(fired) : index > 1 => fired[j].time > TimeOf(actions, index - 1)
     /\ TimersOnce(new_actions)
     /\ Picked(new_actions, SetPlaces(new_actions)) = SubSeq(actions, 1, index - 1)

Marked(list) ==
  /\ \A n \in 1..Len(list) :
        Kind(list, n) = "timer" => HeldMark(Picked(list, SetPlaces(list)), list[n].action)
  /\ \A e : HeldMark(Picked(list, SetPlaces(list)), e) =>
        \E n \in 1..Len(list) : list[n].action = e
  /\ TimersOnce(list)

(* The clock events of a list are at times of the clock before an end, and *)
(* each is there once; t is missed when the day has changed.               *)
ClockIn(list, end) ==
  /\ \A n \in 1..Len(list) : Kind(list, n) = "clock" =>
        TimeOf(list, n) \in time_range.start..(end - 1) /\ TimeOf(list, n) % Day \in ClockList
  /\ \A i, j \in 1..Len(list) :
        Kind(list, i) = "clock" /\ Kind(list, j) = "clock" /\ TimeOf(list, i) = TimeOf(list, j)
           => i = j
  /\ \A t \in time_range.start..(end - 1) :
        t % Day \in ClockList =>
           \/ \E n \in 1..Len(list) : Kind(list, n) = "clock" /\ TimeOf(list, n) = t
           \/ t % Day < GapStart(t) % Day

Clocking ==
  /\ pc \in {"clock", "done"} => Marked(actions)
  /\ pc = "clock" =>
        /\ Picked(new_actions, Triggers(new_actions)) = SubSeq(actions, 1, index - 1)
        /\ current_time = IF index = 1 THEN time_range.start ELSE TimeOf(actions, index - 1)
        /\ ClockIn(new_actions, current_time)
  /\ pc = "done" => ClockIn(actions, time_range.end)
  /\ pc = "failed" =>
        \A n \in 1..Len(actions) : Kind(actions, n) \in {"set", "timer"}

TraceInv ==
  /\ Types /\ Unused /\ Kinds /\ Timely /\ Chain /\ Changing /\ Progress
  /\ Timing /\ Merging /\ Clocking

(* The ranges found: a time looked at is in the core of one of them, and   *)
(* the cores are apart.                                                    *)
InCore(t, start, last) == start + Span <= t /\ t <= last
Finding ==
  view = "find" =>
     /\ n_seen = 0 => held = <<>> /\ time_clips = <<>>
     /\ n_seen > 0 =>
           /\ Len(held) = 1
           /\ held[1].start + Span <= held[1].current /\ held[1].current = time_list[n_seen]
           /\ \A k \in 1..Len(time_clips) : time_clips[k].end - Span < held[1].start
           /\ \A j \in 1..n_seen :
                 \/ InCore(time_list[j], held[1].start, held[1].current)
                 \/ \E k \in 1..Len(time_clips) :
                       InCore(time_list[j], time_clips[k].start, time_clips[k].end - Span)
     /\ \A k, l \in 1..Len(time_clips) : k < l => time_clips[k].end - Span < time_clips[l].start
     /\ episodes = <<>>

Found ==
  view = "generate" =>
     /\ \A j \in 1..Len(time_list) :
           \E k \in 1..Len(time_clips) :
              InCore(time_list[j], time_clips[k].start, time_clips[k].end - Span)
     /\ time_list # <<>> =>
           \A k, l \in 1..Len(time_clips) : k < l => time_clips[k].end - Span < time_clips[l].start

ClipTypes ==
  /\ view \in {"trace", "find", "generate", "manual"}
  /\ view # "trace" => pc = IF view = "manual" THEN "sub" ELSE "done"
  /\ time_list \in Seq(Time)
  /\ \A j, k \in 1..Len(time_list) : j < k => time_list[j] < time_list[k]
  /\ n_seen \in 0..Len(time_list)
  /\ held \in Seq([start : Int, current : Time]) /\ Len(held) \in 0..1
  /\ Len(held) = 1 => held[1].start < held[1].current
  /\ time_clips \in Seq([start : Int, end : Int])
  /\ \A k \in 1..Len(time_clips) : time_clips[k].start < time_clips[k].end
  /\ view = "trace" =>
        time_list = <<>> /\ n_seen = 0 /\ held = <<>> /\ time_clips = <<>> /\ episodes = <<>>
  /\ view = "manual" => time_list = <<>>
  /\ episodes \in Seq(Range(episodes))

EpisodesTrue == ClipKeepsEvents /\ ClipStateTrue /\ Len(episodes) \in 0..Len(time_clips)

ClipInv == ClipTypes /\ Finding /\ Found /\ EpisodesTrue
-----------------------------------------------------------------------------
(* Types and pieces of lists.                                              *)

(* The constants of the timers.                                            *)
LEMMA TimingFacts ==
  /\ Len(TimingTup) \in Nat
  /\ \A k \in 1..Len(TimingTup) : TimingTup[k][1] \in Cap /\ TimingTup[k][2] \in Nat \ {0}
  /\ \A j, k \in 1..Len(TimingTup) :
        TimingTup[j][1] = TimingTup[k][1] /\ TimingTup[j][2] = TimingTup[k][2] => j = k
<1>1. TimingTup \in Seq(Cap \X (Nat \ {0})) /\ IsInjective(TimingTup)
  BY TraceAssumption
<1>2. /\ Len(TimingTup) \in Nat /\ DOMAIN TimingTup = 1..Len(TimingTup)
      /\ \A k \in 1..Len(TimingTup) : TimingTup[k] \in Cap \X (Nat \ {0})
  BY <1>1
<1>3. \A k \in 1..Len(TimingTup) :
         /\ TimingTup[k][1] \in Cap /\ TimingTup[k][2] \in Nat \ {0}
         /\ TimingTup[k] = <<TimingTup[k][1], TimingTup[k][2]>>
  BY <1>2
<1>4. ASSUME NEW j \in 1..Len(TimingTup), NEW k \in 1..Len(TimingTup),
             TimingTup[j][1] = TimingTup[k][1], TimingTup[j][2] = TimingTup[k][2]
      PROVE  j = k
  <2>1. TimingTup[j] = TimingTup[k]
    BY <1>3, <1>4
  <2>2. QED
    BY <1>1, <1>2, <2>1 DEF IsInjective
<1>5. QED
  BY <1>2, <1>3, <1>4

(* Bounds of time.                                                         *)
LEMMA TimeFacts == MaxTime \in Nat /\ Time \subseteq Nat /\ 0 \in Time
  BY TraceAssumption DEF Time

(* The parts of an event.                                                  *)
LEMMA EntryFacts ==
  ASSUME NEW caps \in SUBSET Cap, NEW e \in Entry(caps)
  PROVE  /\ e = At(e.action, e.pre)
         /\ e.action \in Action(caps) /\ e.pre \in State(caps)
         /\ e.action.time \in Nat
         /\ e.action.kind \in {"set", "timer", "clock"}
         /\ e.action.kind = "set" => e.action \in SetAction(caps)
         /\ e.action.kind = "timer" => e.action \in TimerAction
         /\ e.action.kind = "clock" => e.action \in ClockAction
<1>1. e.action \in Action(caps) /\ e.pre \in State(caps) /\ e = At(e.action, e.pre)
  BY DEF Entry, At
<1>2. CASE e.action \in SetAction(caps)
  BY <1>1, <1>2, TimeFacts DEF SetAction
<1>3. CASE e.action \in TimerAction
  BY <1>1, <1>3 DEF TimerAction
<1>4. CASE e.action \in ClockAction
  BY <1>1, <1>4 DEF ClockAction
<1>5. QED
  BY <1>1, <1>2, <1>3, <1>4 DEF Action

(* An action is one of the three kinds.                                    *)
LEMMA AnEntry ==
  ASSUME NEW caps \in SUBSET Cap, NEW a \in Action(caps), NEW pre \in State(caps)
  PROVE  /\ At(a, pre) \in Entry(caps)
         /\ At(a, pre).action = a /\ At(a, pre).pre = pre
  BY DEF At, Entry

(* What an action leads to is a state.                                     *)
LEMMA EffectType ==
  ASSUME NEW caps \in SUBSET Cap, NEW state \in State(caps), NEW a \in Action(caps)
  PROVE  /\ Effect(state, a) \in State(caps)
         /\ a.kind # "set" => Effect(state, a) = state
<1>1. a.kind = "set" => a \in SetAction(caps)
  BY DEF Action, TimerAction, ClockAction
<1>2. CASE a.kind = "set"
  <2>1. a.cap \in caps /\ a.value \in Value
    BY <1>1, <1>2 DEF SetAction
  <2>2. QED
    BY <1>2, <2>1 DEF Effect, State
<1>3. CASE a.kind # "set"
  BY <1>3 DEF Effect
<1>4. QED
  BY <1>2, <1>3

(* A list of actions with the same state.                                  *)
LEMMA AllAtIs ==
  ASSUME NEW caps \in SUBSET Cap, NEW pre \in State(caps), NEW list \in Seq(Action(caps))
  PROVE  /\ AllAt(list, pre) \in Seq(Entry(caps)) /\ Len(AllAt(list, pre)) = Len(list)
         /\ \A n \in 1..Len(list) :
               AllAt(list, pre)[n].action = list[n] /\ AllAt(list, pre)[n].pre = pre
<1>1. Len(list) \in Nat /\ DOMAIN list = 1..Len(list)
      /\ \A n \in 1..Len(list) : list[n] \in Action(caps)
  OBVIOUS
<1>2. AllAt(list, pre) = [n \in 1..Len(list) |-> At(list[n], pre)]
  BY <1>1 DEF AllAt
<1>3. \A n \in 1..Len(list) : /\ At(list[n], pre) \in Entry(caps)
                             /\ At(list[n], pre).action = list[n] /\ At(list[n], pre).pre = pre
  BY <1>1, AnEntry
<1>4. QED
  BY <1>1, <1>2, <1>3

(* The types of all parts of the trace.                                    *)
LEMMA TraceTypes ==
  ASSUME Types
  PROVE  /\ Caps \in SUBSET Cap /\ initial_state \in State(Caps)
         /\ Len(actions) \in Nat /\ Len(new_actions) \in Nat
         /\ Len(timers) \in Nat /\ Len(fired) \in Nat
         /\ \A n \in 1..Len(actions) : actions[n] \in Entry(Caps)
         /\ \A n \in 1..Len(new_actions) : new_actions[n] \in Entry(Caps)
         /\ \A n \in 1..Len(actions) : TimeOf(actions, n) \in Nat
         /\ \A n \in 1..Len(new_actions) : TimeOf(new_actions, n) \in Nat
         /\ time_range.start \in Nat /\ time_range.end \in Nat /\ time_range.end <= MaxTime
         /\ index \in Nat /\ index >= 1 /\ tup \in Nat /\ current_time \in Nat
<1>1. /\ Caps \in SUBSET Cap /\ initial_state \in State(Caps)
      /\ Len(actions) \in Nat /\ Len(new_actions) \in Nat
      /\ Len(timers) \in Nat /\ Len(fired) \in Nat
      /\ \A n \in 1..Len(actions) : actions[n] \in Entry(Caps)
      /\ \A n \in 1..Len(new_actions) : new_actions[n] \in Entry(Caps)
  BY DEF Types
<1>2. /\ \A n \in 1..Len(actions) : TimeOf(actions, n) \in Nat
      /\ \A n \in 1..Len(new_actions) : TimeOf(new_actions, n) \in Nat
  BY <1>1, EntryFacts DEF TimeOf
<1>3. /\ time_range.start \in Nat /\ time_range.end \in Nat /\ time_range.end <= MaxTime
      /\ current_time \in Nat
  BY TimeFacts DEF Types, Time
<1>4. index \in Nat /\ index >= 1 /\ tup \in Nat
  BY <1>1, TimingFacts DEF Types
<1>5. QED
  BY <1>1, <1>2, <1>3, <1>4
-----------------------------------------------------------------------------
(* The trace of the log.                                                   *)

(* The parts of the invariant while the log is read or cut.                *)
LEMMA EarlyInv ==
  ASSUME Types, Unused, Kinds, Timely, Chain, Changing, pc \in {"log", "sub"}
  PROVE  TraceInv
<1>1. Progress /\ Timing /\ Merging /\ Clocking
  BY DEF Progress, Timing, Merging, Clocking
<1>2. QED
  BY <1>1 DEF TraceInv

(* At the beginning nothing is logged.                                     *)
LEMMA InitTrace == Init => TraceInv
<1> SUFFICES ASSUME Init PROVE TraceInv
  OBVIOUS
<1>1. /\ pc = "log" /\ actions = <<>> /\ new_actions = <<>> /\ timers = <<>> /\ fired = <<>>
      /\ time_range = [start |-> 0, end |-> 0] /\ logged = 0 /\ index = 1 /\ tup = 1
      /\ current_time = 0
  BY DEF Init
<1>2. initial_state \in State(Cap)
  <2>1. initial_state \in {[cap \in Cap |-> None]} \cup [Cap -> Value]
    BY DEF Init
  <2>2. CASE initial_state = [cap \in Cap |-> None]
    BY <2>2 DEF State
  <2>3. CASE initial_state \in [Cap -> Value]
    BY <2>3 DEF State
  <2>4. QED
    BY <2>1, <2>2, <2>3
<1>3. Caps = Cap
  BY <1>2 DEF Caps, State
<1>4. Types
  <2>1. Len(actions) = 0 /\ Len(timers) = 0
    BY <1>1
  <2>2. 1 \in 1..(Len(TimingTup) + 1) /\ logged \in 0..MaxEvents
    BY <1>1, TimingFacts, TraceAssumption
  <2>3. time_range \in [start : Time, end : Time] /\ time_range.start <= time_range.end
    BY <1>1, TimeFacts
  <2>4. \A S : <<>> \in Seq(S)
    OBVIOUS
  <2>5. QED
    BY <1>1, <1>2, <1>3, <2>1, <2>2, <2>3, <2>4, TimeFacts DEF Types
<1>5. Unused
  BY <1>1, <1>3 DEF Unused
<1>6. Kinds /\ Timely /\ Chain /\ Changing
  BY <1>1 DEF Kinds, Timely, InTime, Chain, Chained, Changing, Changes
<1>7. QED
  BY <1>1, <1>4, <1>5, <1>6, EarlyInv

(* An event is logged.                                                     *)
LEMMA AddActionStep ==
  ASSUME TraceInv, NEW time \in 0..MaxTime, NEW cap \in Cap, NEW value \in Value,
         AddAction(time, cap, value)
  PROVE  TraceInv'
<1> DEFINE L == Len(actions)
           pre == IF actions = <<>> THEN initial_state ELSE StateAfter(actions)
           a == Set(time, cap, value)
           x == At(a, pre)
<1>1. /\ Types /\ Unused /\ Kinds /\ Timely /\ Chain /\ Changing
  BY DEF TraceInv
<1>2. /\ pc = "log" /\ logged < MaxEvents /\ time >= time_range.end
      /\ logged' = logged + 1
      /\ time_range' = [start |-> IF logged = 0 THEN time ELSE time_range.start, end |-> time]
      /\ actions' = IF actions = <<>> \/ pre[cap] # value THEN Append(actions, x) ELSE actions
      /\ pc' = pc /\ initial_state' = initial_state
      /\ index' = index /\ tup' = tup /\ timers' = timers /\ fired' = fired
      /\ new_actions' = new_actions /\ current_time' = current_time
  BY DEF AddAction, Loop
<1>3. /\ L \in Nat /\ actions \in Seq(Entry(Caps))
      /\ \A n \in 1..L : actions[n] \in Entry(Caps) /\ TimeOf(actions, n) \in Nat
      /\ time_range.start \in Nat /\ time_range.end \in Nat
      /\ time_range.start <= time_range.end
      /\ Caps = Cap /\ Caps' = Cap /\ initial_state \in State(Cap)
      /\ index = 1 /\ tup = 1 /\ timers = <<>> /\ fired = <<>> /\ new_actions = <<>>
      /\ logged \in Nat /\ logged + 1 \in 0..MaxEvents
  <2>1. pc \in {"log", "sub", "timing", "done"} /\ pc \in {"log", "sub"}
    BY <1>2
  <2>2. Caps = Cap /\ index = 1 /\ tup = 1 /\ timers = <<>> /\ fired = <<>> /\ new_actions = <<>>
    BY <1>1, <2>1 DEF Unused
  <2>3. Caps' = Cap
    BY <1>2, <2>2 DEF Caps
  <2>4. logged \in Nat /\ logged + 1 \in 0..MaxEvents
    BY <1>1, <1>2, TraceAssumption DEF Types
  <2>5. actions \in Seq(Entry(Caps)) /\ time_range.start <= time_range.end
    BY <1>1 DEF Types
  <2>6. QED
    BY <1>1, <2>2, <2>3, <2>4, <2>5, TraceTypes
<1>4. actions # <<>> => L >= 1 /\ actions[L] \in Entry(Cap) /\ StateAfter(actions) = Post(actions, L)
  <2> SUFFICES ASSUME actions # <<>>
               PROVE  L >= 1 /\ actions[L] \in Entry(Cap) /\ StateAfter(actions) = Post(actions, L)
    OBVIOUS
  <2>1. L >= 1 /\ L \in 1..L
    BY <1>3
  <2>2. StateAfter(actions) = Effect(actions[L].pre, actions[L].action)
    BY DEF StateAfter, Last
  <2>3. QED
    BY <1>3, <2>1, <2>2 DEF Post
<1>5. pre \in State(Cap)
  <2>1. CASE actions = <<>>
    BY <1>3, <2>1
  <2>2. CASE actions # <<>>
    <3>1. actions[L].pre \in State(Cap) /\ actions[L].action \in Action(Cap)
      BY <1>4, <2>2, EntryFacts
    <3>2. Post(actions, L) \in State(Cap)
      <4>1. L # 0
        BY <1>4, <2>2
      <4>2. QED
        BY <3>1, <4>1, EffectType DEF Post
    <3>3. QED
      BY <1>4, <2>2, <3>2
  <2>3. QED
    BY <2>1, <2>2
<1>6. x \in Entry(Cap) /\ x.action = a /\ x.pre = pre
  <2>1. a \in Action(Cap)
    BY DEF Set, Action, SetAction, Time
  <2>2. QED
    BY <1>5, <2>1, AnEntry
<1>7. a.kind = "set" /\ a.time = time /\ a.cap = cap /\ a.value = value
  BY DEF Set
<1>8. pre = Post(actions, L)
  <2>1. CASE actions = <<>>
    BY <2>1 DEF Post
  <2>2. CASE actions # <<>>
    BY <1>4, <2>2
  <2>3. QED
    BY <2>1, <2>2
<1> HIDE DEF a, x, pre, L
<1>9. /\ time_range'.start \in Nat /\ time_range'.end = time
      /\ time_range'.start <= time /\ time \in Nat
      /\ time_range' \in [start : Time, end : Time]
      /\ actions # <<>> => time_range'.start = time_range.start
      /\ actions = <<>> => time_range'.start = time
  <2>1. time \in Time /\ time \in Nat
    BY TimeFacts DEF Time
  <2>2. time_range \in [start : Time, end : Time]
    BY <1>1 DEF Types
  <2>3. time_range.start <= time
    BY <1>2, <1>3, <2>1
  <2>4. (actions # <<>> => logged # 0) /\ (actions = <<>> => logged = 0)
    BY <1>1, <1>2, <1>3 DEF Unused
  <2>5. QED
    BY <1>2, <1>3, <2>1, <2>2, <2>3, <2>4
<1>10. \/ actions' = actions /\ actions # <<>>
       \/ /\ actions' = Append(actions, x)
          /\ actions = <<>> \/ pre[cap] # value
  BY <1>2
<1>11. /\ actions' \in Seq(Entry(Cap)) /\ actions' # <<>> /\ Len(actions') \in Nat
       /\ Len(actions') \in {L, L + 1}
       /\ \A n \in 1..L : actions'[n] = actions[n]
       /\ Len(actions') = L + 1 => actions'[L + 1] = x /\ (L = 0 \/ pre[cap] # value)
  <2>1. CASE actions' = actions /\ actions # <<>>
    BY <1>3, <2>1 DEF L
  <2>2. CASE actions' = Append(actions, x) /\ (actions = <<>> \/ pre[cap] # value)
    <3>1. actions = <<>> => L = 0
      BY DEF L
    <3>2. QED
      BY <1>3, <1>6, <2>2, <3>1 DEF L
  <2>3. QED
    BY <1>10, <2>1, <2>2
<1>12. \A n \in 1..Len(actions') : n \in 1..L \/ (n = L + 1 /\ Len(actions') = L + 1)
  BY <1>3, <1>11
<1>13. Types'
  <2>1. index' = 1 /\ 1 \in 1..(Len(actions') + 1) /\ tup' \in 1..(Len(TimingTup) + 1)
    BY <1>1, <1>2, <1>3, <1>11 DEF Types
  <2>2. /\ pc' \in {"log", "sub", "timing", "merge", "clock", "done", "failed"}
        /\ timers' \in Seq(TimerAction) /\ Len(timers') \in 0..1
        /\ fired' \in Seq(TimerAction) /\ current_time' \in Time
        /\ new_actions' \in Seq(Entry(Cap))
    BY <1>1, <1>2, <1>3 DEF Types
  <2>3. logged' \in 0..MaxEvents
    BY <1>2, <1>3
  <2>4. time_range'.start <= time_range'.end
    BY <1>9
  <2>5. initial_state' \in State(Cap)
    BY <1>2, <1>3
  <2>6. QED
    BY <1>3, <1>9, <1>11, <2>1, <2>2, <2>3, <2>4, <2>5 DEF Types
<1>14. Unused'
  <2>1. logged' > 0
    BY <1>2, <1>3
  <2>2. QED
    BY <1>2, <1>3, <1>11, <2>1 DEF Unused
<1>15. Kinds'
  <2>1. \A n \in 1..L : Kind(actions, n) = "set"
    BY <1>1, <1>2 DEF Kinds, L
  <2>2. \A n \in 1..Len(actions') : Kind(actions', n) = "set"
    BY <1>6, <1>7, <1>11, <1>12, <2>1 DEF Kind
  <2>3. pc' # "clock" /\ pc' # "merge"
    BY <1>2
  <2>4. QED
    BY <2>2, <2>3 DEF Kinds
<1>16. Timely'
  <2>1. \A n \in 1..L : /\ TimeOf(actions, n) \in time_range.start..time_range.end
                        /\ TimeOf(actions', n) = TimeOf(actions, n)
    BY <1>1, <1>11 DEF Timely, InTime, TimeOf, L
  <2>2. Len(actions') = L + 1 => TimeOf(actions', L + 1) = time
    BY <1>6, <1>7, <1>11 DEF TimeOf
  <2>3. ASSUME NEW n \in 1..Len(actions')
        PROVE  TimeOf(actions', n) \in time_range'.start..time_range'.end /\ TimeOf(actions', n) <= time
    <3>1. CASE n \in 1..L
      <4>1. actions # <<>>
        BY <3>1 DEF L
      <4>2. QED
        BY <1>2, <1>3, <1>9, <2>1, <3>1, <4>1
    <3>2. CASE n = L + 1 /\ Len(actions') = L + 1
      BY <1>9, <2>2, <3>2
    <3>3. QED
      BY <1>12, <3>1, <3>2
  <2>4. ASSUME NEW j \in 1..Len(actions'), NEW k \in 1..Len(actions'), j < k
        PROVE  TimeOf(actions', j) <= TimeOf(actions', k)
    <3>1. CASE k \in 1..L
      <4>1. j \in 1..L
        BY <1>3, <2>4, <3>1
      <4>2. TimeOf(actions, j) <= TimeOf(actions, k)
        BY <1>1, <2>4, <3>1, <4>1 DEF Timely, InTime, L
      <4>3. QED
        BY <2>1, <3>1, <4>1, <4>2
    <3>2. CASE k = L + 1 /\ Len(actions') = L + 1
      BY <2>2, <2>3, <3>2
    <3>3. QED
      BY <1>12, <3>1, <3>2
  <2>5. Len(new_actions') = 0
    BY <1>2, <1>3
  <2>6. QED
    BY <2>3, <2>4, <2>5 DEF Timely, InTime
<1>17. Chain'
  <2>1. Chained(actions, L)
    BY <1>1, <1>2 DEF Chain, L
  <2>2. ASSUME NEW n \in 0..L PROVE Post(actions, n)' = Post(actions, n)
    <3>1. n = 0 \/ n \in 1..L
      BY <1>3
    <3>2. n = 0 \/ actions'[n] = actions[n]
      BY <1>11, <3>1
    <3>3. QED
      BY <1>2, <3>2 DEF Post
  <2>3. ASSUME NEW n \in 1..Len(actions') PROVE actions'[n].pre = Post(actions, n - 1)'
    <3>1. CASE n \in 1..L
      <4>1. n - 1 \in 0..L
        BY <1>3, <3>1
      <4>2. QED
        BY <1>11, <2>1, <2>2, <3>1, <4>1 DEF Chained
    <3>2. CASE n = L + 1 /\ Len(actions') = L + 1
      <4>1. n - 1 = L /\ L \in 0..L
        BY <1>3, <3>2
      <4>2. QED
        BY <1>6, <1>8, <1>11, <2>2, <3>2, <4>1
    <3>3. QED
      BY <1>12, <3>1, <3>2
  <2>5. Len(new_actions') = 0 /\ pc' # "done"
    BY <1>2, <1>3
  <2>6. QED
    BY <2>3, <2>5 DEF Chain, Chained
<1>18. Changing'
  <2>1. ASSUME NEW n \in 1..Len(actions'), Kind(actions', n) = "set",
               actions'[n].pre[actions'[n].action.cap] = actions'[n].action.value
        PROVE  n = 1 /\ TimeOf(actions', n) = time_range'.start
    <3>1. CASE n \in 1..L
      <4>1. n = 1 /\ TimeOf(actions, n) = time_range.start
        BY <1>1, <1>11, <2>1, <3>1 DEF Changing, Changes, Kind, L
      <4>2. actions # <<>>
        BY <3>1 DEF L
      <4>3. QED
        BY <1>9, <1>11, <3>1, <4>1, <4>2 DEF TimeOf
    <3>2. CASE n = L + 1 /\ Len(actions') = L + 1
      <4>1. L = 0
        BY <1>6, <1>7, <1>11, <2>1, <3>2
      <4>2. actions = <<>>
        BY <1>3, <4>1 DEF L
      <4>3. QED
        BY <1>6, <1>7, <1>9, <1>11, <3>2, <4>1, <4>2 DEF TimeOf
    <3>3. QED
      BY <1>12, <3>1, <3>2
  <2>2. Len(new_actions') = 0
    BY <1>2, <1>3
  <2>3. QED
    BY <2>1, <2>2 DEF Changing, Changes
<1>19. pc' \in {"log", "sub"}
  BY <1>2
<1>20. (Types /\ Unused /\ Kinds /\ Timely /\ Chain /\ Changing /\ pc \in {"log", "sub"} => TraceInv)'
  BY EarlyInv, PTL
<1>21. QED
  BY <1>13, <1>14, <1>15, <1>16, <1>17, <1>18, <1>19, <1>20

(* The trace is cut to where all values are known.                         *)
LEMMA TruncNoneStep == ASSUME TraceInv, TruncNone PROVE TraceInv'
<1> DEFINE L == Len(actions)
           known == {n \in DOMAIN actions : \A cap \in Cap : actions[n].pre[cap] # None}
           m == Min(known)
           cut == SubSeq(actions, m, L)
<1>1. /\ Types /\ Unused /\ Kinds /\ Timely /\ Chain /\ Changing
  BY DEF TraceInv
<1>2. /\ pc = "log" /\ pc' = "sub"
      /\ time_range' = time_range /\ logged' = logged
      /\ index' = index /\ tup' = tup /\ timers' = timers /\ fired' = fired
      /\ new_actions' = new_actions /\ current_time' = current_time
  BY DEF TruncNone, Loop
<1>3. /\ known = {} => actions' = <<>> /\ initial_state' = initial_state
      /\ known # {} => actions' = cut /\ initial_state' = actions[m].pre
  BY DEF TruncNone
<1>4. /\ L \in Nat /\ actions \in Seq(Entry(Cap))
      /\ \A n \in 1..L : actions[n] \in Entry(Cap)
      /\ Caps = Cap /\ initial_state \in State(Cap)
      /\ index = 1 /\ tup = 1 /\ timers = <<>> /\ fired = <<>> /\ new_actions = <<>>
  <2>1. pc \in {"log", "sub", "timing", "done"} /\ pc \in {"log", "sub"}
    BY <1>2
  <2>2. Caps = Cap /\ index = 1 /\ tup = 1 /\ timers = <<>> /\ fired = <<>> /\ new_actions = <<>>
    BY <1>1, <2>1 DEF Unused
  <2>3. actions \in Seq(Entry(Cap))
    BY <1>1, <2>2 DEF Types
  <2>4. QED
    BY <1>1, <2>2, <2>3, TraceTypes
<1>5. known # {} => m \in 1..L
  <2>1. known \subseteq Nat
    BY <1>4
  <2>2. known # {} => m \in known
    BY <2>1, MinIs
  <2>3. QED
    BY <1>4, <2>2
<1> HIDE DEF L, known, m, cut
(* Of the trace that is left, event n was event n + s.                     *)
<1>6. PICK s \in Nat :
         /\ actions' \in Seq(Entry(Cap)) /\ Len(actions') \in Nat
         /\ s + Len(actions') <= L
         /\ \A n \in 1..Len(actions') : actions'[n] = actions[s + n]
         /\ Len(actions') > 0 => initial_state' = actions[s + 1].pre
         /\ initial_state' \in State(Cap)
  <2>1. CASE known = {}
    <3>1. actions' = <<>> /\ initial_state' = initial_state
      BY <1>3, <2>1
    <3>2. 0 \in Nat /\ 0 + Len(actions') <= L /\ Len(actions') = 0
      BY <1>4, <3>1
    <3>3. actions' \in Seq(Entry(Cap))
      BY <3>1
    <3>4. QED
      BY <1>4, <3>1, <3>2, <3>3
  <2>2. CASE known # {}
    <3>1. actions' = cut /\ initial_state' = actions[m].pre /\ m \in 1..L
      BY <1>3, <1>5, <2>2
    <3>2. /\ cut \in Seq(Entry(Cap)) /\ Len(cut) = L - m + 1
          /\ \A n \in 1..(L - m + 1) : cut[n] = actions[(m - 1) + n]
      BY <1>4, <3>1 DEF cut
    <3>3. m - 1 \in Nat /\ (m - 1) + 1 = m /\ (m - 1) + (L - m + 1) <= L /\ L - m + 1 \in Nat
      BY <1>4, <3>1
    <3>4. actions[m].pre \in State(Cap)
      BY <1>4, <3>1, EntryFacts
    <3>5. QED
      BY <3>1, <3>2, <3>3, <3>4
  <2>3. QED
    BY <2>1, <2>2
<1>7. \A n \in 1..Len(actions') : s + n \in 1..L
  BY <1>4, <1>6
<1>8. Caps' = Cap
  BY <1>6 DEF Caps, State
<1>9. Types'
  <2>1. index' = 1 /\ 1 \in 1..(Len(actions') + 1)
    BY <1>2, <1>4, <1>6
  <2>2. new_actions' \in Seq(Entry(Cap))
    BY <1>2, <1>4
  <2>3. QED
    BY <1>1, <1>2, <1>6, <1>8, <2>1, <2>2 DEF Types
<1>10. Unused'
  <2>1. actions' # <<>> => Len(actions') > 0
    BY <1>6
  <2>2. Len(actions') > 0 => L > 0
    BY <1>4, <1>6
  <2>3. L > 0 => actions # <<>>
    BY DEF L
  <2>4. pc' = "sub"
    BY <1>2
  <2>5. logged > 0 <=> logged' > 0
    BY <1>2
  <2>6. /\ pc' \in {"log", "sub"} =>
              Caps' = Cap /\ index' = 1 /\ tup' = 1 /\ timers' = <<>> /\ fired' = <<>>
        /\ pc' \in {"log", "sub", "timing", "done"} => new_actions' = <<>>
    BY <1>2, <1>4, <1>8
  <2>7. actions' # <<>> => logged' > 0
    BY <1>1, <2>1, <2>2, <2>3, <2>5 DEF Unused
  <2>8. QED
    BY <2>4, <2>6, <2>7 DEF Unused
<1>11. Kinds'
  <2>1. \A n \in 1..L : Kind(actions, n) = "set"
    BY <1>1, <1>2 DEF Kinds, L
  <2>2. \A n \in 1..Len(actions') : Kind(actions', n) = "set"
    BY <1>6, <1>7, <2>1 DEF Kind
  <2>3. pc' # "clock" /\ pc' # "merge"
    BY <1>2
  <2>4. QED
    BY <2>2, <2>3 DEF Kinds
<1>12. Timely'
  <2>1. \A n \in 1..Len(actions') : TimeOf(actions', n) = TimeOf(actions, s + n)
    BY <1>6 DEF TimeOf
  <2>2. InTime(actions)
    BY <1>1 DEF Timely
  <2>3. \A n \in 1..Len(actions') : TimeOf(actions', n) \in time_range'.start..time_range'.end
    BY <1>2, <1>7, <2>1, <2>2 DEF InTime, L
  <2>4. ASSUME NEW j \in 1..Len(actions'), NEW k \in 1..Len(actions'), j < k
        PROVE  TimeOf(actions', j) <= TimeOf(actions', k)
    <3>1. s + j \in 1..L /\ s + k \in 1..L /\ s + j < s + k
      BY <1>6, <1>7, <2>4
    <3>2. TimeOf(actions, s + j) <= TimeOf(actions, s + k)
      BY <2>2, <3>1 DEF InTime, L
    <3>3. QED
      BY <2>1, <3>2
  <2>5. Len(new_actions') = 0
    BY <1>2, <1>4
  <2>6. QED
    BY <2>3, <2>4, <2>5 DEF Timely, InTime
<1>13. Chain'
  <2>1. Chained(actions, L)
    BY <1>1, <1>2 DEF Chain, L
  <2>2. ASSUME NEW n \in 1..Len(actions') PROVE actions'[n].pre = Post(actions, n - 1)'
    <3>1. CASE n = 1
      <4>1. actions'[1] = actions[s + 1] /\ initial_state' = actions[s + 1].pre
        BY <1>6, <3>1
      <4>2. QED
        BY <3>1, <4>1 DEF Post
    <3>2. CASE n # 1
      <4>1. /\ n - 1 \in 1..Len(actions') /\ n - 1 # 0
            /\ s + n \in 1..L /\ (s + n) - 1 = s + (n - 1) /\ (s + n) - 1 # 0
        BY <1>6, <1>7, <3>2
      <4>2. actions[s + n].pre = Post(actions, (s + n) - 1)
        BY <2>1, <4>1 DEF Chained
      <4>3. Post(actions, (s + n) - 1) = Effect(actions[s + (n - 1)].pre, actions[s + (n - 1)].action)
        BY <4>1 DEF Post
      <4>4. actions'[n] = actions[s + n] /\ actions'[n - 1] = actions[s + (n - 1)]
        BY <1>6, <4>1
      <4>5. Post(actions, n - 1)' = Effect(actions'[n - 1].pre, actions'[n - 1].action)
        BY <4>1 DEF Post
      <4>6. QED
        BY <4>2, <4>3, <4>4, <4>5
    <3>3. QED
      BY <3>1, <3>2
  <2>3. Len(new_actions') = 0 /\ pc' # "done"
    BY <1>2, <1>4
  <2>4. QED
    BY <2>2, <2>3 DEF Chain, Chained
<1>14. Changing'
  <2>1. ASSUME NEW n \in 1..Len(actions'), Kind(actions', n) = "set",
               actions'[n].pre[actions'[n].action.cap] = actions'[n].action.value
        PROVE  n = 1 /\ TimeOf(actions', n) = time_range'.start
    <3>1. actions'[n] = actions[s + n] /\ s + n \in 1..L
      BY <1>6, <1>7
    <3>2. s + n = 1 /\ TimeOf(actions, s + n) = time_range.start
      BY <1>1, <2>1, <3>1 DEF Changing, Changes, Kind, L
    <3>3. n = 1
      BY <1>6, <3>2
    <3>4. QED
      BY <1>2, <3>1, <3>2, <3>3 DEF TimeOf
  <2>2. Len(new_actions') = 0
    BY <1>2, <1>4
  <2>3. QED
    BY <2>1, <2>2 DEF Changing, Changes
<1>15. pc' \in {"log", "sub"}
  BY <1>2
<1>16. (Types /\ Unused /\ Kinds /\ Timely /\ Chain /\ Changing /\ pc \in {"log", "sub"} => TraceInv)'
  BY EarlyInv, PTL
<1>17. QED
  BY <1>9, <1>10, <1>11, <1>12, <1>13, <1>14, <1>15, <1>16
-----------------------------------------------------------------------------
(* The trace is cut to some capabilities.                                  *)
Mask(state, caps) == [cap \in caps |-> state[cap]]

(* An event of another capability does not change what is kept, and one of *)
(* the capabilities changes it as it changed the state.                    *)
LEMMA MaskEffect ==
  ASSUME NEW caps \in SUBSET Cap, NEW state \in State(Cap), NEW a \in SetAction(Cap)
  PROVE  /\ Mask(state, caps) \in State(caps)
         /\ a.cap \notin caps => Mask(Effect(state, a), caps) = Mask(state, caps)
         /\ a.cap \in caps => Mask(Effect(state, a), caps) = Effect(Mask(state, caps), a)
<1>1. a.kind = "set" /\ a.cap \in Cap
  BY DEF SetAction
<1>2. Effect(state, a) = [state EXCEPT ![a.cap] = a.value]
  BY <1>1 DEF Effect
<1>3. Effect(Mask(state, caps), a) = [Mask(state, caps) EXCEPT ![a.cap] = a.value]
  BY <1>1 DEF Effect
<1>4. \A cap \in caps : Effect(state, a)[cap] = IF cap = a.cap THEN a.value ELSE state[cap]
  BY <1>1, <1>2 DEF State
<1>5. Mask(state, caps) \in State(caps)
  BY DEF Mask, State
<1>6. ASSUME a.cap \notin caps PROVE Mask(Effect(state, a), caps) = Mask(state, caps)
  BY <1>4, <1>6 DEF Mask
<1>7. ASSUME a.cap \in caps PROVE Mask(Effect(state, a), caps) = Effect(Mask(state, caps), a)
  BY <1>3, <1>4, <1>7 DEF Mask
<1>8. QED
  BY <1>5, <1>6, <1>7

(* Over events of other capabilities, what is kept stays the same.         *)
LEMMA Skipped ==
  ASSUME NEW caps \in SUBSET Cap, NEW list \in Seq(Entry(Cap)), Chained(list, Len(list)),
         \A n \in 1..Len(list) : Kind(list, n) = "set",
         NEW lo \in 0..Len(list), NEW hi \in (lo + 1)..Len(list),
         \A m \in (lo + 1)..(hi - 1) : list[m].action.cap \notin caps
  PROVE  Mask(list[hi].pre, caps) = Mask(Post(list, lo), caps)
<1> DEFINE bad == {h \in (lo + 1)..hi : Mask(list[h].pre, caps) # Mask(Post(list, lo), caps)}
<1>1. Len(list) \in Nat /\ lo \in Nat /\ hi \in Nat
  OBVIOUS
<1>2. SUFFICES ASSUME bad # {} PROVE FALSE
  <2>1. hi \in (lo + 1)..hi
    BY <1>1
  <2>2. QED
    BY <2>1
<1>3. bad \subseteq Nat
  BY <1>1
<1>4. PICK h \in bad : \A n \in bad : h <= n
  BY <1>2, <1>3, LeastElement
<1>5. h \in 1..Len(list) /\ list[h].pre = Post(list, h - 1) /\ h \in (lo + 1)..hi
  BY <1>1, <1>4 DEF Chained
<1>6. h # lo + 1
  <2>1. SUFFICES ASSUME h = lo + 1 PROVE FALSE
    OBVIOUS
  <2>2. h - 1 = lo
    BY <1>1, <2>1
  <2>3. QED
    BY <1>4, <1>5, <2>2
<1>7. /\ h - 1 \in (lo + 1)..hi /\ h - 1 \in (lo + 1)..(hi - 1) /\ h - 1 \in 1..Len(list)
      /\ h - 1 # 0 /\ ~ (h <= h - 1)
  BY <1>1, <1>5, <1>6
<1>8. Mask(list[h - 1].pre, caps) = Mask(Post(list, lo), caps)
  BY <1>4, <1>7
<1> DEFINE e == list[h - 1]
<1>9. e \in Entry(Cap) /\ e.action.kind = "set" /\ e.action.cap \notin caps
  BY <1>7 DEF Kind
<1>10. Post(list, h - 1) = Effect(e.pre, e.action)
  BY <1>7 DEF Post
<1>11. e.pre \in State(Cap) /\ e.action \in SetAction(Cap)
  BY <1>9, EntryFacts
<1> HIDE DEF e
<1>12. Mask(Effect(e.pre, e.action), caps) = Mask(e.pre, caps)
  BY <1>9, <1>11, MaskEffect
<1>13. QED
  BY <1>4, <1>5, <1>8, <1>10, <1>12 DEF e

(* The other events are left out.                                          *)
LEMMA SubTraceStep ==
  ASSUME TraceInv, NEW caps \in SUBSET Cap, SubTrace(caps)
  PROVE  TraceInv'
<1> DEFINE L == Len(actions)
           S == {n \in DOMAIN actions : actions[n].action.cap \in caps}
           o == Ordered(S)
           N == Cardinality(S)
           left == Picked(actions, S)
<1>1. /\ Types /\ Unused /\ Kinds /\ Timely /\ Chain /\ Changing
  BY DEF TraceInv
<1>2. /\ pc = "sub" /\ pc' = "timing"
      /\ time_range' = time_range /\ logged' = logged
      /\ index' = index /\ tup' = tup /\ timers' = timers /\ fired' = fired
      /\ new_actions' = new_actions /\ current_time' = current_time
      /\ initial_state' = Mask(initial_state, caps)
      /\ actions' = [n \in DOMAIN left |-> At(left[n].action, Mask(left[n].pre, caps))]
  BY DEF SubTrace, Loop, Mask
<1>3. /\ L \in Nat /\ actions \in Seq(Entry(Cap)) /\ DOMAIN actions = 1..L
      /\ \A n \in 1..L : actions[n] \in Entry(Cap)
      /\ Caps = Cap /\ initial_state \in State(Cap)
      /\ index = 1 /\ tup = 1 /\ timers = <<>> /\ fired = <<>> /\ new_actions = <<>>
  <2>1. pc \in {"log", "sub", "timing", "done"} /\ pc \in {"log", "sub"}
    BY <1>2
  <2>2. Caps = Cap /\ index = 1 /\ tup = 1 /\ timers = <<>> /\ fired = <<>> /\ new_actions = <<>>
    BY <1>1, <2>1 DEF Unused
  <2>3. actions \in Seq(Entry(Cap))
    BY <1>1, <2>2 DEF Types
  <2>4. QED
    BY <1>1, <2>2, <2>3, TraceTypes
<1>4. \A n \in 1..L : n \in S <=> actions[n].action.cap \in caps
  BY <1>3
<1>5. S \subseteq 1..L
  BY <1>3
<1>6. /\ Lists(o, N, S) /\ left \in Seq(Entry(Cap)) /\ Len(left) = N
      /\ left = Along(actions, o, N)
  BY <1>3, <1>5, PickedIs
<1> HIDE DEF S, o, N, left
<1>7. /\ N \in Nat
      /\ \A k \in 1..N : o[k] \in S /\ o[k] \in 1..L /\ o[k] \in Nat
      /\ \A j, k \in 1..N : j < k => o[j] < o[k]
      /\ \A n \in S : \E k \in 1..N : o[k] = n
  <2>1. /\ N \in Nat /\ o \in [1..N -> S]
        /\ \A j, k \in 1..N : j < k => o[j] < o[k]
        /\ \A n \in S : \E k \in 1..N : o[k] = n
    BY <1>6 DEF Lists
  <2>2. \A n \in S : n \in 1..L /\ n \in Nat
    BY <1>3, <1>5
  <2>3. QED
    BY <2>1, <2>2
<1>8. DOMAIN left = 1..N /\ \A k \in 1..N : left[k] = actions[o[k]]
  BY <1>6 DEF Along
<1>9. /\ \A n \in 1..L : actions[n].action.kind = "set"
      /\ Chained(actions, L)
  BY <1>1, <1>2 DEF Kinds, Kind, Chain, L
<1>10. \A k \in 1..N : /\ actions[o[k]].action \in SetAction(caps)
                       /\ actions[o[k]].action \in SetAction(Cap)
                       /\ actions[o[k]].pre \in State(Cap)
  <2>1. TAKE k \in 1..N
  <2>2. o[k] \in 1..L /\ actions[o[k]].action.cap \in caps
    BY <1>4, <1>7
  <2>3. actions[o[k]].action \in SetAction(Cap) /\ actions[o[k]].pre \in State(Cap)
    BY <1>3, <1>9, <2>2, EntryFacts
  <2>4. QED
    BY <2>2, <2>3 DEF SetAction
<1>11. /\ DOMAIN actions' = 1..N
       /\ \A k \in 1..N : /\ actions'[k].action = actions[o[k]].action
                          /\ actions'[k].pre = Mask(actions[o[k]].pre, caps)
                          /\ actions'[k] \in Entry(caps)
  <2>1. actions' = [k \in 1..N |-> At(left[k].action, Mask(left[k].pre, caps))]
    BY <1>2, <1>8
  <2>2. ASSUME NEW k \in 1..N
        PROVE  /\ actions'[k].action = actions[o[k]].action
               /\ actions'[k].pre = Mask(actions[o[k]].pre, caps)
               /\ actions'[k] \in Entry(caps)
    <3>1. actions'[k] = At(actions[o[k]].action, Mask(actions[o[k]].pre, caps))
      BY <1>8, <2>1
    <3>2. actions[o[k]].action \in Action(caps) /\ Mask(actions[o[k]].pre, caps) \in State(caps)
      BY <1>10, MaskEffect DEF Action
    <3>3. QED
      BY <3>1, <3>2, AnEntry
  <2>3. QED
    BY <2>1, <2>2
<1>12. actions' \in Seq(Entry(caps)) /\ Len(actions') = N
  <2>1. actions' = [k \in 1..N |-> actions'[k]]
    BY <1>2, <1>8
  <2>2. QED
    BY <1>7, <1>11, <2>1
<1>13. Caps' = caps /\ initial_state' \in State(caps)
  <2>1. Mask(initial_state, caps) \in State(caps)
    BY <1>3 DEF Mask, State
  <2>2. QED
    BY <1>2, <2>1 DEF Caps, State
<1>14. Types'
  <2>1. index' = 1 /\ 1 \in 1..(Len(actions') + 1)
    BY <1>2, <1>3, <1>7, <1>12
  <2>2. new_actions' \in Seq(Entry(caps))
    BY <1>2, <1>3
  <2>3. QED
    BY <1>1, <1>2, <1>12, <1>13, <2>1, <2>2 DEF Types
<1>15. Unused'
  <2>1. actions' # <<>> => N > 0
    BY <1>7, <1>12
  <2>2. N > 0 => L > 0
    <3>1. SUFFICES ASSUME N > 0 PROVE L > 0
      OBVIOUS
    <3>2. 1 \in 1..N
      BY <1>7, <3>1
    <3>3. o[1] \in 1..L
      BY <1>7, <3>2
    <3>4. QED
      BY <1>3, <3>3
  <2>3. L > 0 => actions # <<>>
    BY DEF L
  <2>4. actions' # <<>> => logged' > 0
    BY <1>1, <1>2, <2>1, <2>2, <2>3 DEF Unused
  <2>5. pc' = "timing" /\ new_actions' = <<>> /\ index' = 1
    BY <1>2, <1>3
  <2>6. QED
    BY <2>4, <2>5 DEF Unused
<1>16. Kinds'
  <2>1. ASSUME NEW k \in 1..Len(actions') PROVE Kind(actions', k) = "set"
    <3>1. k \in 1..N /\ o[k] \in 1..L
      BY <1>7, <1>12
    <3>2. actions'[k].action = actions[o[k]].action /\ actions[o[k]].action.kind = "set"
      BY <1>9, <1>11, <3>1
    <3>3. QED
      BY <3>2 DEF Kind
  <2>2. QED
    BY <1>2, <2>1 DEF Kinds
<1>17. Timely'
  <2>1. \A k \in 1..N : TimeOf(actions', k) = TimeOf(actions, o[k])
    BY <1>11 DEF TimeOf
  <2>2. InTime(actions)
    BY <1>1 DEF Timely
  <2>3. \A k \in 1..N : TimeOf(actions', k) \in time_range'.start..time_range'.end
    BY <1>2, <1>7, <2>1, <2>2 DEF InTime, L
  <2>4. \A j, k \in 1..N : j < k => TimeOf(actions', j) <= TimeOf(actions', k)
    BY <1>7, <2>1, <2>2 DEF InTime, L
  <2>5. Len(new_actions') = 0
    BY <1>2, <1>3
  <2>6. QED
    BY <1>12, <2>3, <2>4, <2>5 DEF Timely, InTime
<1>18. Chain'
  <2>1. ASSUME NEW k \in 1..N PROVE actions'[k].pre = Post(actions, k - 1)'
    <3> DEFINE lo == IF k = 1 THEN 0 ELSE o[k - 1]
    <3>1. o[k] \in 1..L /\ o[k] \in S
      BY <1>7
    <3>2. k # 1 => k - 1 \in 1..N /\ k - 1 < k
      BY <1>7
    <3>3. lo \in 0..L /\ lo \in Nat /\ lo < o[k]
      BY <1>3, <1>7, <3>1, <3>2
    <3>4. o[k] \in (lo + 1)..L
      BY <1>3, <3>1, <3>3
    <3>5. \A m \in (lo + 1)..(o[k] - 1) : actions[m].action.cap \notin caps
      <4>1. SUFFICES ASSUME NEW m \in (lo + 1)..(o[k] - 1), actions[m].action.cap \in caps
                     PROVE FALSE
        OBVIOUS
      <4>2. m \in 1..L /\ m > lo /\ m < o[k] /\ m \in Nat
        BY <1>3, <3>1, <3>3
      <4>3. m \in S
        BY <1>4, <4>1, <4>2
      <4>4. PICK j \in 1..N : o[j] = m
        BY <1>7, <4>3
      <4>5. j < k
        <5>1. ~ (k < j) /\ k # j
          BY <1>7, <4>2, <4>4
        <5>2. QED
          BY <1>7, <5>1
      <4>6. k # 1 /\ (j = k - 1 \/ j < k - 1)
        BY <1>7, <4>5
      <4>7. o[j] <= o[k - 1]
        <5>1. o[j] \in Nat /\ o[k - 1] \in Nat
          BY <1>7, <3>2, <4>6
        <5>2. j = k - 1 \/ o[j] < o[k - 1]
          BY <1>7, <3>2, <4>6
        <5>3. QED
          BY <5>1, <5>2
      <4>8. QED
        BY <1>7, <3>2, <4>2, <4>4, <4>6, <4>7
    <3> HIDE DEF lo
    <3>6. Mask(actions[o[k]].pre, caps) = Mask(Post(actions, lo), caps)
      BY <1>3, <1>9, <3>3, <3>4, <3>5, Skipped DEF Kind, L
    <3>7. Mask(Post(actions, lo), caps) = Post(actions, k - 1)'
      <4>1. CASE k = 1
        BY <1>2, <4>1 DEF Post, lo
      <4>2. CASE k # 1
        <5>1. /\ lo = o[k - 1] /\ lo # 0 /\ k - 1 # 0
              /\ actions'[k - 1].action = actions[lo].action
              /\ actions'[k - 1].pre = Mask(actions[lo].pre, caps)
              /\ actions[lo].action \in SetAction(Cap) /\ actions[lo].action.cap \in caps
              /\ actions[lo].pre \in State(Cap)
          <6>1. lo = o[k - 1] /\ k - 1 \in 1..N /\ k - 1 # 0
            BY <1>7, <3>2, <4>2 DEF lo
          <6>2. lo \in 1..L /\ lo # 0 /\ lo \in S
            BY <1>3, <1>7, <6>1
          <6>3. actions[lo].action.cap \in caps
            BY <1>4, <6>2
          <6>4. QED
            BY <1>10, <1>11, <6>1, <6>2, <6>3
        <5>2. Post(actions, lo) = Effect(actions[lo].pre, actions[lo].action)
          BY <5>1 DEF Post
        <5>3. Mask(Effect(actions[lo].pre, actions[lo].action), caps)
              = Effect(Mask(actions[lo].pre, caps), actions[lo].action)
          BY <5>1, MaskEffect
        <5>4. Post(actions, k - 1)' = Effect(actions'[k - 1].pre, actions'[k - 1].action)
          BY <5>1 DEF Post
        <5>5. QED
          BY <5>1, <5>2, <5>3, <5>4
      <4>3. QED
        BY <4>1, <4>2
    <3>8. QED
      BY <1>11, <3>6, <3>7
  <2>2. Len(new_actions') = 0 /\ pc' # "done"
    BY <1>2, <1>3
  <2>3. QED
    BY <1>12, <2>1, <2>2 DEF Chain, Chained
<1>19. Changing'
  <2>1. ASSUME NEW k \in 1..N, Kind(actions', k) = "set",
               actions'[k].pre[actions'[k].action.cap] = actions'[k].action.value
        PROVE  k = 1 /\ TimeOf(actions', k) = time_range'.start
    <3> DEFINE a == actions[o[k]].action
    <3>1. o[k] \in 1..L /\ a.cap \in caps /\ Kind(actions, o[k]) = "set"
      BY <1>7, <1>9, <1>10 DEF Kind, SetAction
    <3>2. actions[o[k]].pre[a.cap] = a.value
      <4>1. Mask(actions[o[k]].pre, caps)[a.cap] = actions[o[k]].pre[a.cap]
        BY <3>1 DEF Mask
      <4>2. QED
        BY <1>11, <2>1, <4>1
    <3>3. o[k] = 1 /\ TimeOf(actions, o[k]) = time_range.start
      BY <1>1, <3>1, <3>2 DEF Changing, Changes, L
    <3>4. k = 1
      <4>1. SUFFICES ASSUME k # 1 PROVE FALSE
        OBVIOUS
      <4>2. 1 \in 1..N /\ 1 < k
        BY <1>7, <4>1
      <4>3. o[1] < o[k] /\ o[1] \in 1..L
        BY <1>7, <4>2
      <4>4. QED
        BY <1>3, <3>3, <4>3
    <3>5. QED
      BY <1>2, <1>11, <3>3, <3>4 DEF TimeOf
  <2>2. Len(new_actions') = 0
    BY <1>2, <1>3
  <2>3. QED
    BY <1>12, <2>1, <2>2 DEF Changing, Changes
<1>20. Progress' /\ Merging' /\ Clocking'
  BY <1>2 DEF Progress, Merging, Clocking
<1>21. Timing'
  <2>1. Len(fired') = 0 /\ Len(timers') = 0 /\ tup' = 1 /\ index' = 1
    BY <1>2, <1>3
  <2>2. \A k \in 1..Len(TimingTup) : \A n : ~ (k < 1)
    BY TimingFacts
  <2>3. \A k, n : ~ Ended(actions, index - 1, k, n)' /\ ~ Runs(actions, index - 1, k, n)'
    BY <2>1 DEF Ended, Runs
  <2>4. \A k \in 1..Len(TimingTup), n \in 1..Len(actions') : ~ Counted(k, n)'
    BY <2>1, <2>2, <2>3 DEF Counted
  <2>5. \A n : ~ Runs(actions, index - 1, tup, n)'
    BY <2>1 DEF Runs
  <2>6. QED
    BY <2>1, <2>4, <2>5 DEF Timing
<1>22. QED
  BY <1>14, <1>15, <1>16, <1>17, <1>18, <1>19, <1>20, <1>21 DEF TraceInv
-----------------------------------------------------------------------------
(* The timers are counted.                                                 *)

(* At the next action, the timers that have ended are those that had and   *)
(* those that ran and are due; those that run are the others that ran, and *)
(* the one the action starts, which stops those of the same capability.    *)
LEMMA TimerStep ==
  ASSUME NEW list, NEW L \in Nat,
         \A n \in 1..L : TimeOf(list, n) \in Nat,
         \A j, m \in 1..L : j < m => TimeOf(list, j) <= TimeOf(list, m),
         NEW k \in 1..Len(TimingTup), NEW i \in 1..L, NEW n \in 1..L
  PROVE  /\ Ended(list, i, k, n) <=>
               \/ Ended(list, i - 1, k, n)
               \/ Runs(list, i - 1, k, n) /\ DueAt(list, k, n) <= TimeOf(list, i)
         /\ Runs(list, i, k, n) <=>
               \/ /\ Runs(list, i - 1, k, n) /\ DueAt(list, k, n) > TimeOf(list, i)
                  /\ list[i].action.cap # TimingTup[k][1]
               \/ n = i /\ list[i].action.cap = TimingTup[k][1]
<1> DEFINE due == DueAt(list, k, n)
           cap == TimingTup[k][1]
           t == TimeOf(list, i)
           s == TimeOf(list, i - 1)
<1>1. TimingTup[k][2] \in Nat \ {0}
  BY TimingFacts
<1>2. /\ TimeOf(list, n) \in Nat /\ t \in Nat /\ due \in Nat /\ due > TimeOf(list, n)
  BY <1>1 DEF DueAt
<1>3. i > 1 => s \in Nat /\ s <= t /\ i - 1 \in 1..L
  <2>1. i > 1 => i - 1 \in 1..L /\ i - 1 < i
    OBVIOUS
  <2>2. QED
    BY <2>1
<1> HIDE DEF due, cap, t, s
<1>4. Ended(list, i, k, n) <=>
         /\ n \in 1..i /\ list[n].action.cap = cap /\ t >= due
         /\ \A m \in (n + 1)..i : list[m].action.cap = cap => TimeOf(list, m) >= due
  BY DEF Ended, due, cap, t
<1>5. Ended(list, i - 1, k, n) <=>
         /\ n \in 1..(i - 1) /\ list[n].action.cap = cap /\ s >= due
         /\ \A m \in (n + 1)..(i - 1) : list[m].action.cap = cap => TimeOf(list, m) >= due
  BY DEF Ended, due, cap, s
<1>6. Runs(list, i, k, n) <=>
         /\ n \in 1..i /\ list[n].action.cap = cap /\ t < due
         /\ \A m \in (n + 1)..i : list[m].action.cap # cap
  BY DEF Runs, due, cap, t
<1>7. Runs(list, i - 1, k, n) <=>
         /\ n \in 1..(i - 1) /\ list[n].action.cap = cap /\ s < due
         /\ \A m \in (n + 1)..(i - 1) : list[m].action.cap # cap
  BY DEF Runs, due, cap, s
<1>8. \A m \in (n + 1)..i : m \in (n + 1)..(i - 1) \/ m = i
  OBVIOUS
<1>9. ASSUME Ended(list, i, k, n)
      PROVE  Ended(list, i - 1, k, n) \/ (Runs(list, i - 1, k, n) /\ due <= t)
  <2>1. n \in 1..(i - 1) /\ i > 1
    <3>1. n # i
      BY <1>2, <1>4, <1>9 DEF t
    <3>2. QED
      BY <1>4, <1>9, <3>1
  <2>2. CASE s >= due
    <3>1. \A m \in (n + 1)..(i - 1) : m \in (n + 1)..i
      OBVIOUS
    <3>2. QED
      BY <1>4, <1>5, <1>9, <2>1, <2>2, <3>1
  <2>3. CASE s < due
    <3>1. ASSUME NEW m \in (n + 1)..(i - 1) PROVE list[m].action.cap # cap
      <4>1. m \in (n + 1)..i /\ m \in 1..L /\ (m < i - 1 \/ m = i - 1)
        BY <2>1
      <4>2. TimeOf(list, m) \in Nat /\ TimeOf(list, m) <= s
        BY <1>3, <2>1, <4>1 DEF s
      <4>3. ~ (TimeOf(list, m) >= due)
        BY <1>2, <1>3, <2>1, <2>3, <4>2
      <4>4. QED
        BY <1>4, <1>9, <4>1, <4>3
    <3>2. due <= t
      BY <1>2, <1>4, <1>9
    <3>3. QED
      BY <1>4, <1>7, <1>9, <2>1, <2>3, <3>1, <3>2
  <2>4. QED
    BY <1>2, <1>3, <2>1, <2>2, <2>3
<1>10. ASSUME Ended(list, i - 1, k, n) PROVE Ended(list, i, k, n)
  <2>1. n \in 1..i /\ i > 1 /\ t >= due
    BY <1>2, <1>3, <1>5, <1>10
  <2>2. QED
    BY <1>4, <1>5, <1>8, <1>10, <2>1 DEF t
<1>11. ASSUME Runs(list, i - 1, k, n), due <= t PROVE Ended(list, i, k, n)
  <2>1. n \in 1..i /\ t >= due
    BY <1>2, <1>7, <1>11
  <2>2. QED
    BY <1>4, <1>7, <1>8, <1>11, <2>1 DEF t
<1>12. ASSUME Runs(list, i, k, n), n # i
       PROVE  Runs(list, i - 1, k, n) /\ due > t /\ list[i].action.cap # cap
  <2>1. n \in 1..(i - 1) /\ i > 1 /\ i \in (n + 1)..i
    BY <1>6, <1>12
  <2>2. s < due /\ due > t
    BY <1>2, <1>3, <1>6, <1>12, <2>1
  <2>3. \A m \in (n + 1)..(i - 1) : m \in (n + 1)..i
    OBVIOUS
  <2>4. QED
    BY <1>6, <1>7, <1>12, <2>1, <2>2, <2>3
<1>13. ASSUME Runs(list, i - 1, k, n), due > t, list[i].action.cap # cap
       PROVE  Runs(list, i, k, n)
  <2>1. n \in 1..i /\ t < due
    BY <1>2, <1>7, <1>13
  <2>2. QED
    BY <1>6, <1>7, <1>8, <1>13, <2>1
<1>14. ASSUME n = i, list[i].action.cap = cap PROVE Runs(list, i, k, n)
  <2>1. n \in 1..i /\ t < due /\ (n + 1)..i = {}
    BY <1>2, <1>14 DEF t
  <2>2. QED
    BY <1>6, <1>14, <2>1
<1>15. ASSUME Runs(list, i, k, n), n = i PROVE list[i].action.cap = cap
  BY <1>6, <1>15
<1>16. QED
  BY <1>9, <1>10, <1>11, <1>12, <1>13, <1>14, <1>15 DEF due, cap, t

(* Nothing has happened before the first action.                           *)
LEMMA TimerStart == \A list, k, n : ~ Ended(list, 0, k, n) /\ ~ Runs(list, 0, k, n)
  BY DEF Ended, Runs

(* The parts of an event of a timer.                                       *)
LEMMA MarkFacts ==
  ASSUME NEW list, NEW k, NEW n
  PROVE  /\ Mark(list, k, n).kind = "timer" /\ Mark(list, k, n).time = DueAt(list, k, n)
         /\ Mark(list, k, n).cap = TimingTup[k][1]
         /\ Mark(list, k, n).span = TimingTup[k][2]
         /\ Mark(list, k, n).value = list[n].action.value
  BY DEF Mark, Timer, DueAt

(* It is an event of a timer when the action is a change of a value.       *)
LEMMA MarkType ==
  ASSUME NEW caps \in SUBSET Cap, NEW list, NEW k \in 1..Len(TimingTup), NEW n,
         list[n] \in Entry(caps), list[n].action.kind = "set"
  PROVE  Mark(list, k, n) \in TimerAction
<1>1. TimingTup[k][1] \in Cap /\ TimingTup[k][2] \in Nat \ {0}
  BY TimingFacts
<1>2. list[n].action.time \in Nat /\ list[n].action.value \in Value
  BY EntryFacts DEF SetAction
<1>3. QED
  BY <1>1, <1>2 DEF Mark, Timer, TimerAction, TimeOf

(* A timer has a time.                                                     *)
LEMMA TimerTime == \A e \in TimerAction : e.time \in Nat
  BY DEF TimerAction

(* So have the timers of a list.                                           *)
LEMMA TimersTime ==
  ASSUME NEW list \in Seq(TimerAction)
  PROVE  \A n \in 1..Len(list) : list[n] \in TimerAction /\ list[n].time \in Nat
<1>1. \A n \in 1..Len(list) : list[n] \in TimerAction
  OBVIOUS
<1>2. QED
  BY <1>1, TimerTime

(* A list and one more.                                                    *)
LEMMA JoinOne ==
  ASSUME NEW S, NEW list \in Seq(S), NEW one \in Seq(S), Len(one) = 1
  PROVE  /\ Len(list \o one) = Len(list) + 1
         /\ \A j \in 1..Len(list) : (list \o one)[j] = list[j]
         /\ (list \o one)[Len(list) + 1] = one[1]
<1>1. Len(list) \in Nat
  OBVIOUS
<1>2. /\ Len(list \o one) = Len(list) + Len(one)
      /\ \A i \in 1..(Len(list) + Len(one)) :
            (list \o one)[i] = IF i <= Len(list) THEN list[i] ELSE one[i - Len(list)]
  BY ConcatProperties
<1>3. QED
  BY <1>1, <1>2

(* Of at most one timer, it is due or it is not.                           *)
LEMMA OneDue ==
  ASSUME NEW list \in Seq(TimerAction), Len(list) \in 0..1, NEW time \in Nat
  PROVE  /\ Len(list) = 1 /\ list[1].time <= time => Due(list, time) = list /\ NotDue(list, time) = <<>>
         /\ Len(list) = 0 \/ list[1].time > time => Due(list, time) = <<>> /\ NotDue(list, time) = list
<1> DEFINE d == DueLen(list, time)
<1>1. \A e \in TimerAction : e.time \in Nat
  BY DEF TimerAction
<1>2. /\ d \in 0..Len(list)
      /\ \A k \in 1..d : list[k].time <= time
      /\ d < Len(list) => list[d + 1].time > time
      /\ Due(list, time) \in Seq(TimerAction) /\ Len(Due(list, time)) = d
      /\ NotDue(list, time) \in Seq(TimerAction)
      /\ Len(NotDue(list, time)) = Len(list) - d
  <2> DEFINE T == TimerAction
  <2>1. list \in Seq(T) /\ (\A e \in T : e.time \in Nat) /\ time \in Nat
    BY <1>1
  <2> HIDE DEF T
  <2>2. /\ DueLen(list, time) \in 0..Len(list)
        /\ \A k \in 1..DueLen(list, time) : list[k].time <= time
        /\ DueLen(list, time) < Len(list) => list[DueLen(list, time) + 1].time > time
        /\ Due(list, time) \in Seq(T) /\ Len(Due(list, time)) = DueLen(list, time)
        /\ NotDue(list, time) \in Seq(T)
        /\ Len(NotDue(list, time)) = Len(list) - DueLen(list, time)
    BY <2>1, DueSplits
  <2>3. QED
    BY <2>2 DEF T
<1>3. list = Due(list, time) \o NotDue(list, time)
  BY <1>1, DueConcat
<1> HIDE DEF d
<1>4. Len(list) > 0 => list[1].time \in Nat
  BY <1>1
<1>5. ASSUME Len(list) = 1, list[1].time <= time
      PROVE  Due(list, time) = list /\ NotDue(list, time) = <<>>
  <2>1. d = 1
    <3>1. d # 0
      BY <1>2, <1>4, <1>5
    <3>2. QED
      BY <1>2, <1>5, <3>1
  <2>2. NotDue(list, time) = <<>>
    BY <1>2, <1>5, <2>1
  <2>3. QED
    BY <1>2, <1>3, <2>2
<1>6. ASSUME Len(list) = 0 \/ list[1].time > time
      PROVE  Due(list, time) = <<>> /\ NotDue(list, time) = list
  <2>1. d = 0
    <3>1. SUFFICES ASSUME d # 0 PROVE FALSE
      OBVIOUS
    <3>2. d = 1 /\ Len(list) = 1
      BY <1>2, <3>1
    <3>3. list[1].time <= time
      BY <1>2, <3>2
    <3>4. QED
      BY <1>4, <1>6, <3>2, <3>3
  <2>2. Due(list, time) = <<>>
    BY <1>2, <2>1
  <2>3. QED
    BY <1>2, <1>3, <2>2
<1>7. QED
  BY <1>5, <1>6

(* A timer of a capability is stopped by its next value.                   *)
LEMMA AllStopped ==
  ASSUME NEW list \in Seq(TimerAction), NEW cap, \A n \in 1..Len(list) : list[n].cap = cap
  PROVE  Stopped(list, cap) = <<>>
<1>1. {n \in DOMAIN list : list[n].cap # cap} = {}
  OBVIOUS
<1>2. QED
  BY <1>1, PickedNone DEF Stopped

(* The parts of the invariant while timers are counted.                    *)
LEMMA TimingFrame ==
  ASSUME Types, Unused, Kinds, Timely, Chain, Changing, pc = "timing"
  PROVE  /\ Progress /\ Merging /\ Clocking
         /\ actions \in Seq(Entry(Caps)) /\ Caps \in SUBSET Cap
         /\ Len(actions) \in Nat
         /\ \A n \in 1..Len(actions) : actions[n] \in Entry(Caps) /\ Kind(actions, n) = "set"
         /\ \A n \in 1..Len(actions) : TimeOf(actions, n) \in Nat
         /\ \A j, k \in 1..Len(actions) : j < k => TimeOf(actions, j) <= TimeOf(actions, k)
<1>1. Progress /\ Merging /\ Clocking
  BY DEF Progress, Merging, Clocking
<1>2. \A n \in 1..Len(actions) : Kind(actions, n) = "set"
  BY DEF Kinds
<1>3. \A j, k \in 1..Len(actions) : j < k => TimeOf(actions, j) <= TimeOf(actions, k)
  BY DEF Timely, InTime
<1>4. actions \in Seq(Entry(Caps))
  BY DEF Types
<1>5. QED
  BY <1>1, <1>2, <1>3, <1>4, TraceTypes

(* What is said of the trace when only the timers change.                  *)
LEMMA TimingKeeps ==
  ASSUME Types, Unused, Kinds, Timely, Chain, Changing, pc = "timing", pc' = "timing",
         UNCHANGED <<initial_state, actions, time_range, logged, new_actions, current_time>>,
         index' \in 1..(Len(actions) + 1), tup' \in 1..(Len(TimingTup) + 1),
         tup' > Len(TimingTup) => index' = 1,
         timers' \in Seq(TimerAction), Len(timers') \in 0..1, fired' \in Seq(TimerAction)
  PROVE  (Types /\ Unused /\ Kinds /\ Timely /\ Chain /\ Changing /\ Progress /\ Merging /\ Clocking)'
<1>1. Caps' = Caps
  BY DEF Caps
<1>2. Types'
  BY <1>1 DEF Types
<1>3. Unused'
  BY <1>1 DEF Unused
<1>4. Kinds'
  BY DEF Kinds, Kind
<1>5. Timely'
  BY DEF Timely, InTime, TimeOf
<1>6. Chain'
  <2>1. Chained(actions, Len(actions)) /\ Chained(new_actions, Len(new_actions))
    BY DEF Chain
  <2>2. Chained(actions, Len(actions))' /\ Chained(new_actions, Len(new_actions))'
    BY <2>1 DEF Chained, Post
  <2>3. QED
    BY <2>2 DEF Chain
<1>7. Changing'
  BY DEF Changing, Changes, Kind, TimeOf
<1>8. Progress' /\ Merging' /\ Clocking'
  BY DEF Progress, Merging, Clocking
<1>9. QED
  BY <1>2, <1>3, <1>4, <1>5, <1>6, <1>7, <1>8

(* One action is looked at.                                                *)
LEMMA TimeActionStep == ASSUME TraceInv, TimeAction PROVE TraceInv'
<1> DEFINE L == Len(actions)
           F == Len(fired)
           a == actions[index].action
           cap == TimingTup[tup][1]
           span == TimingTup[tup][2]
           due == Due(timers, a.time)
           left == NotDue(timers, a.time)
           new == Mark(actions, tup, index)
<1>1. /\ Types /\ Unused /\ Kinds /\ Timely /\ Chain /\ Changing /\ Timing
  BY DEF TraceInv
<1>2. /\ pc = "timing" /\ tup <= Len(TimingTup) /\ index <= L /\ index' = index + 1
      /\ fired' = fired \o due
      /\ timers' = IF a.cap = cap
                   THEN Append(Stopped(left, cap), Timer(a.time + span, cap, a.value, span))
                   ELSE left
      /\ pc' = pc /\ tup' = tup
      /\ UNCHANGED <<initial_state, actions, time_range, logged, new_actions, current_time>>
  BY DEF TimeAction
<1>3. /\ actions \in Seq(Entry(Caps)) /\ Caps \in SUBSET Cap /\ L \in Nat
      /\ \A n \in 1..L : actions[n] \in Entry(Caps) /\ Kind(actions, n) = "set"
      /\ \A n \in 1..L : TimeOf(actions, n) \in Nat
      /\ \A j, k \in 1..L : j < k => TimeOf(actions, j) <= TimeOf(actions, k)
  BY <1>1, <1>2, TimingFrame
<1>4. /\ index \in 1..L /\ tup \in 1..Len(TimingTup) /\ tup \in Nat /\ index \in Nat
      /\ timers \in Seq(TimerAction) /\ Len(timers) \in 0..1
      /\ fired \in Seq(TimerAction) /\ F \in Nat
  BY <1>1, <1>2, TraceTypes DEF Types
<1>5. /\ a.time \in Nat /\ a.time = TimeOf(actions, index)
      /\ Len(timers) > 0 => timers[1].time \in Nat
  <2>1. \A n \in 1..Len(timers) : timers[n].time \in Nat
    BY <1>4, TimersTime
  <2>2. Len(timers) > 0 => 1 \in 1..Len(timers)
    BY <1>4
  <2>3. QED
    BY <1>3, <1>4, <2>1, <2>2 DEF TimeOf
<1>6. /\ \A j \in 1..F : \E k \in 1..Len(TimingTup), n \in 1..L :
            Counted(k, n) /\ fired[j] = Mark(actions, k, n)
      /\ \A k \in 1..Len(TimingTup), n \in 1..L :
            Counted(k, n) => \E j \in 1..F : fired[j] = Mark(actions, k, n)
      /\ \A i, j \in 1..F : fired[i] = fired[j] => i = j
      /\ Len(timers) > 0 => \E n \in 1..L :
            Runs(actions, index - 1, tup, n) /\ timers[1] = Mark(actions, tup, n)
      /\ \A n \in 1..L :
            Runs(actions, index - 1, tup, n) => Len(timers) > 0 /\ timers[1] = Mark(actions, tup, n)
  BY <1>1, <1>2 DEF Timing
<1>7. \A n \in 1..L :
        /\ Ended(actions, index, tup, n) <=>
              \/ Ended(actions, index - 1, tup, n)
              \/ Runs(actions, index - 1, tup, n) /\ DueAt(actions, tup, n) <= a.time
        /\ Runs(actions, index, tup, n) <=>
              \/ /\ Runs(actions, index - 1, tup, n) /\ DueAt(actions, tup, n) > a.time
                 /\ a.cap # cap
              \/ n = index /\ a.cap = cap
  <2>1. ASSUME NEW n \in 1..L
        PROVE  /\ Ended(actions, index, tup, n) <=>
                     \/ Ended(actions, index - 1, tup, n)
                     \/ Runs(actions, index - 1, tup, n) /\ DueAt(actions, tup, n) <= TimeOf(actions, index)
               /\ Runs(actions, index, tup, n) <=>
                     \/ /\ Runs(actions, index - 1, tup, n) /\ DueAt(actions, tup, n) > TimeOf(actions, index)
                        /\ actions[index].action.cap # TimingTup[tup][1]
                     \/ n = index /\ actions[index].action.cap = TimingTup[tup][1]
    BY <1>3, <1>4, TimerStep
  <2>2. QED
    BY <1>5, <2>1
<1>8. /\ Len(timers) = 1 /\ timers[1].time <= a.time => due = timers /\ left = <<>>
      /\ Len(timers) = 0 \/ timers[1].time > a.time => due = <<>> /\ left = timers
  BY <1>4, <1>5, OneDue
<1>9. new \in TimerAction
  BY <1>3, <1>4, MarkType DEF Kind
<1>10. timers' = IF a.cap = cap THEN <<new>> ELSE left
  <2>1. Len(timers) > 0 => timers[1].cap = cap
    BY <1>6, MarkFacts
  <2>2. left = timers \/ left = <<>>
    <3>1. Len(timers) = 1 => timers[1].time \in Nat
      BY <1>5
    <3>2. QED
      BY <1>4, <1>5, <1>8, <3>1
  <2>3. left \in Seq(TimerAction) /\ \A n \in 1..Len(left) : left[n].cap = cap
    <3>1. \A n \in 1..Len(timers) : timers[n].cap = cap
      BY <1>4, <2>1
    <3>2. CASE left = timers
      BY <1>4, <3>1, <3>2
    <3>3. CASE left = <<>>
      BY <3>3
    <3>4. QED
      BY <2>2, <3>2, <3>3
  <2>4. Stopped(left, cap) = <<>>
    BY <2>3, AllStopped
  <2>5. new = Timer(a.time + span, cap, a.value, span)
    BY <1>5 DEF Mark
  <2> HIDE DEF left, new
  <2>6. Append(<<>>, new) = <<new>>
    OBVIOUS
  <2>7. QED
    BY <1>2, <2>4, <2>5, <2>6
<1> HIDE DEF a, cap, span, due, left, new, L, F
(* Either the timer ends, or there is none that does.                      *)
<1>11. \/ /\ Len(timers) = 1 /\ timers[1].time <= a.time
          /\ fired' = fired \o timers /\ left = <<>>
       \/ /\ Len(timers) = 0 \/ timers[1].time > a.time
          /\ fired' = fired /\ left = timers
  <2>1. Len(timers) = 1 => timers[1].time \in Nat
    BY <1>5
  <2>2. fired \o <<>> = fired
    BY <1>4
  <2>3. CASE Len(timers) = 1 /\ timers[1].time <= a.time
    BY <1>2, <1>8, <2>3
  <2>4. CASE Len(timers) = 0 \/ timers[1].time > a.time
    BY <1>2, <1>8, <2>2, <2>4
  <2>5. QED
    BY <1>4, <1>5, <2>1, <2>3, <2>4
<1>12. /\ fired' \in Seq(TimerAction)
       /\ timers' \in Seq(TimerAction) /\ Len(timers') \in 0..1
  <2>1. fired \o timers \in Seq(TimerAction)
    BY <1>4
  <2>2. left \in Seq(TimerAction) /\ Len(left) \in 0..1
    <3>1. <<>> \in Seq(TimerAction) /\ Len(<<>>) = 0 /\ 0 \in 0..1
      OBVIOUS
    <3>2. left = <<>> \/ left = timers
      BY <1>11
    <3>3. CASE left = <<>>
      BY <3>1, <3>3
    <3>4. CASE left = timers
      BY <1>4, <3>4
    <3>5. QED
      BY <3>2, <3>3, <3>4
  <2>3. <<new>> \in Seq(TimerAction) /\ Len(<<new>>) = 1
    BY <1>9
  <2>4. fired' = fired \o timers \/ fired' = fired
    BY <1>11
  <2>5. fired' \in Seq(TimerAction)
    BY <1>4, <2>1, <2>4
  <2>6. timers' = <<new>> \/ timers' = left
    BY <1>10
  <2>7. timers' \in Seq(TimerAction) /\ Len(timers') \in 0..1
    <3>1. CASE timers' = <<new>>
      BY <2>3, <3>1
    <3>2. CASE timers' = left
      BY <2>2, <3>2
    <3>3. QED
      BY <2>6, <3>1, <3>2
  <2>8. QED
    BY <2>5, <2>7
<1>13. (Types /\ Unused /\ Kinds /\ Timely /\ Chain /\ Changing /\ Progress /\ Merging /\ Clocking)'
  <2>1. /\ index' \in 1..(Len(actions) + 1) /\ tup' \in 1..(Len(TimingTup) + 1)
        /\ ~ (tup' > Len(TimingTup)) /\ pc' = "timing"
    BY <1>2, <1>3, <1>4, TimingFacts DEF L
  <2>2. QED
    BY <1>1, <1>2, <1>12, <2>1, TimingKeeps
<1>14. index' - 1 = index
  BY <1>2, <1>4
<1>15. \A k, n :
          /\ Ended(actions, index - 1, k, n)' <=> Ended(actions, index, k, n)
          /\ Runs(actions, index - 1, k, n)' <=> Runs(actions, index, k, n)
          /\ Ended(actions, Len(actions), k, n)' <=> Ended(actions, Len(actions), k, n)
          /\ Mark(actions, k, n)' = Mark(actions, k, n)
  <2>1. actions' = actions
    BY <1>2
  <2>2. ASSUME NEW k, NEW n
        PROVE  /\ Ended(actions, index - 1, k, n)' <=> Ended(actions, index, k, n)
               /\ Runs(actions, index - 1, k, n)' <=> Runs(actions, index, k, n)
    BY <1>14, <2>1
  <2>3. ASSUME NEW k, NEW n
        PROVE  /\ Ended(actions, Len(actions), k, n)' <=> Ended(actions, Len(actions), k, n)
               /\ Mark(actions, k, n)' = Mark(actions, k, n)
    BY <2>1
  <2>4. QED
    BY <2>2, <2>3
(* What has ended now had ended before, or it is the timer's.              *)
<1>16. \A k \in 1..Len(TimingTup), n \in 1..L :
          Counted(k, n)' <=>
             \/ Counted(k, n)
             \/ k = tup /\ Runs(actions, index - 1, tup, n) /\ DueAt(actions, tup, n) <= a.time
  <2>1. tup' = tup
    BY <1>2
  <2>2. SUFFICES ASSUME NEW k \in 1..Len(TimingTup), NEW n \in 1..L
                 PROVE  Counted(k, n)' <=>
                           \/ Counted(k, n)
                           \/ k = tup /\ Runs(actions, index - 1, tup, n) /\ DueAt(actions, tup, n) <= a.time
    OBVIOUS
  <2>3. Counted(k, n)' <=>
           \/ k < tup /\ Ended(actions, Len(actions), k, n)
           \/ k = tup /\ Ended(actions, index, k, n)
    BY <1>15, <2>1 DEF Counted
  <2>4. Counted(k, n) <=>
           \/ k < tup /\ Ended(actions, Len(actions), k, n)
           \/ k = tup /\ Ended(actions, index - 1, k, n)
    BY DEF Counted
  <2>5. Ended(actions, index, tup, n) <=>
           \/ Ended(actions, index - 1, tup, n)
           \/ Runs(actions, index - 1, tup, n) /\ DueAt(actions, tup, n) <= a.time
    BY <1>7
  <2>6. CASE k = tup
    BY <2>3, <2>4, <2>5, <2>6
  <2>7. CASE k # tup
    BY <2>3, <2>4, <2>7
  <2>8. QED
    BY <2>6, <2>7
<1>17. Len(timers) = 1 => \A j \in 1..F : fired[j] # timers[1]
  <2>1. SUFFICES ASSUME Len(timers) = 1, NEW j \in 1..F, fired[j] = timers[1] PROVE FALSE
    OBVIOUS
  <2>2. PICK n \in 1..L : Runs(actions, index - 1, tup, n) /\ timers[1] = Mark(actions, tup, n)
    BY <1>6, <2>1
  <2>3. PICK k \in 1..Len(TimingTup), m \in 1..L : Counted(k, m) /\ fired[j] = Mark(actions, k, m)
    BY <1>6, <2>1
  <2>4. Mark(actions, k, m) = Mark(actions, tup, n)
    BY <2>1, <2>2, <2>3
  <2>5. TimingTup[k][1] = TimingTup[tup][1] /\ TimingTup[k][2] = TimingTup[tup][2]
    BY <2>4, MarkFacts
  <2>6. k = tup
    BY <1>4, <2>5, TimingFacts
  <2>7. DueAt(actions, k, m) = DueAt(actions, tup, n)
    BY <2>4, MarkFacts
  <2>8. Ended(actions, index - 1, tup, m)
    BY <1>4, <2>3, <2>6 DEF Counted
  <2>9. TimeOf(actions, index - 1) >= DueAt(actions, tup, m)
    BY <2>8 DEF Ended
  <2>10. TimeOf(actions, index - 1) < DueAt(actions, tup, n) /\ n \in 1..(index - 1)
    BY <2>2 DEF Runs
  <2>11. TimeOf(actions, index - 1) \in Nat /\ DueAt(actions, tup, n) \in Nat
    <3>1. index - 1 \in 1..L
      BY <1>3, <1>4, <2>10
    <3>2. QED
      BY <1>3, <1>4, <3>1, TimingFacts DEF DueAt
  <2>12. QED
    BY <2>6, <2>7, <2>9, <2>10, <2>11
<1>18. /\ Len(fired') \in Nat
       /\ \A j \in 1..F : j \in 1..Len(fired') /\ fired'[j] = fired[j]
       /\ \A j \in 1..Len(fired') :
             \/ j \in 1..F
             \/ j = F + 1 /\ Len(timers) = 1 /\ timers[1].time <= a.time /\ fired'[j] = timers[1]
       /\ Len(timers) = 1 /\ timers[1].time <= a.time =>
             F + 1 \in 1..Len(fired') /\ fired'[F + 1] = timers[1]
  <2>1. CASE /\ Len(timers) = 1 /\ timers[1].time <= a.time
             /\ fired' = fired \o timers
    <3>1. /\ Len(fired') = F + 1
          /\ \A j \in 1..F : fired'[j] = fired[j]
          /\ fired'[F + 1] = timers[1]
      <4>1. /\ Len(fired \o timers) = Len(fired) + 1
            /\ \A j \in 1..Len(fired) : (fired \o timers)[j] = fired[j]
            /\ (fired \o timers)[Len(fired) + 1] = timers[1]
        <5>1. fired \in Seq(TimerAction) /\ timers \in Seq(TimerAction) /\ Len(timers) = 1
          BY <1>4, <2>1
        <5>2. QED
          BY <5>1, JoinOne
      <4>2. QED
        BY <2>1, <4>1 DEF F
    <3>2. F \in Nat
      BY <1>4
    <3> HIDE DEF F
    <3>3. /\ Len(fired') \in Nat /\ F + 1 \in 1..Len(fired')
          /\ \A j \in 1..F : j \in 1..Len(fired')
          /\ \A j \in 1..Len(fired') : j \in 1..F \/ j = F + 1
      BY <3>1, <3>2
    <3>4. QED
      BY <2>1, <3>1, <3>3
  <2>2. CASE /\ Len(timers) = 0 \/ timers[1].time > a.time
             /\ fired' = fired
    <3>1. ~ (Len(timers) = 1 /\ timers[1].time <= a.time)
      <4>1. Len(timers) = 1 => timers[1].time \in Nat
        BY <1>5
      <4>2. QED
        BY <1>5, <2>2, <4>1
    <3>2. QED
      BY <1>4, <2>2, <3>1 DEF F
  <2>3. QED
    BY <1>11, <2>1, <2>2
<1>19. ASSUME NEW j \in 1..Len(fired')
       PROVE  \E k \in 1..Len(TimingTup), n \in 1..L : Counted(k, n)' /\ fired'[j] = Mark(actions, k, n)
  <2>1. CASE j \in 1..F
    <3>1. PICK k \in 1..Len(TimingTup), n \in 1..L : Counted(k, n) /\ fired[j] = Mark(actions, k, n)
      BY <1>6, <2>1
    <3>2. Counted(k, n)'
      BY <1>16, <3>1
    <3>3. fired'[j] = Mark(actions, k, n)
      BY <1>18, <2>1, <3>1
    <3>4. QED
      BY <3>2, <3>3
  <2>2. CASE j = F + 1 /\ Len(timers) = 1 /\ timers[1].time <= a.time /\ fired'[j] = timers[1]
    <3>1. PICK n \in 1..L : Runs(actions, index - 1, tup, n) /\ timers[1] = Mark(actions, tup, n)
      BY <1>6, <2>2
    <3>2. DueAt(actions, tup, n) <= a.time
      BY <2>2, <3>1, MarkFacts
    <3>3. \A m \in 1..L : Runs(actions, index - 1, tup, m) /\ DueAt(actions, tup, m) <= a.time
                              => \A k \in 1..Len(TimingTup) : k = tup => Counted(k, m)'
      BY <1>16
    <3>4. PICK k \in 1..Len(TimingTup) : k = tup
      BY <1>4
    <3>5. Counted(k, n)'
      BY <3>1, <3>2, <3>3, <3>4
    <3>6. fired'[j] = Mark(actions, k, n)
      BY <2>2, <3>1, <3>4
    <3>7. QED
      BY <3>5, <3>6
  <2>3. QED
    BY <1>18, <2>1, <2>2
<1>20. ASSUME NEW k \in 1..Len(TimingTup), NEW n \in 1..L, Counted(k, n)'
       PROVE  \E j \in 1..Len(fired') : fired'[j] = Mark(actions, k, n)
  <2>1. CASE Counted(k, n)
    <3>1. PICK j \in 1..F : fired[j] = Mark(actions, k, n)
      BY <1>6, <2>1
    <3>2. QED
      BY <1>18, <3>1
  <2>2. CASE k = tup /\ Runs(actions, index - 1, tup, n) /\ DueAt(actions, tup, n) <= a.time
    <3>1. Len(timers) > 0 /\ timers[1] = Mark(actions, k, n)
      BY <1>6, <2>2
    <3>2. Len(timers) = 1 /\ timers[1].time <= a.time
      BY <1>4, <2>2, <3>1, MarkFacts
    <3>3. QED
      BY <1>18, <3>1, <3>2
  <2>3. \/ Counted(k, n)
        \/ k = tup /\ Runs(actions, index - 1, tup, n) /\ DueAt(actions, tup, n) <= a.time
    <3>1. Counted(k, n)'
      BY <1>20
    <3>2. QED
      BY <1>16, <3>1, Zenon
  <2>4. QED
    BY <2>1, <2>2, <2>3, Zenon
<1>21. ASSUME NEW i \in 1..Len(fired'), NEW j \in 1..Len(fired'), fired'[i] = fired'[j]
       PROVE  i = j
  <2>1. CASE i \in 1..F /\ j \in 1..F
    <3>1. fired'[i] = fired[i] /\ fired'[j] = fired[j]
      BY <1>18, <2>1
    <3>2. fired[i] = fired[j]
      BY <1>21, <3>1
    <3>3. QED
      BY <1>6, <2>1, <3>2
  <2>2. CASE i \in 1..F /\ ~ (j \in 1..F)
    BY <1>17, <1>18, <1>21, <2>2
  <2>3. CASE ~ (i \in 1..F) /\ j \in 1..F
    BY <1>17, <1>18, <1>21, <2>3
  <2>4. CASE ~ (i \in 1..F) /\ ~ (j \in 1..F)
    BY <1>18, <2>4
  <2>5. QED
    BY <2>1, <2>2, <2>3, <2>4
<1>22. ASSUME Len(timers') > 0
       PROVE  \E n \in 1..L : Runs(actions, index, tup, n) /\ timers'[1] = Mark(actions, tup, n)
  <2>1. CASE a.cap = cap
    <3>1. timers'[1] = new /\ Runs(actions, index, tup, index)
      BY <1>4, <1>7, <1>10, <2>1
    <3>2. QED
      BY <1>4, <3>1 DEF new
  <2>2. CASE a.cap # cap
    <3>1. timers' = left
      BY <1>10, <2>2
    <3>2. Len(timers) > 0 /\ timers[1].time > a.time /\ timers' = timers
      BY <1>4, <1>11, <1>22, <3>1
    <3>3. PICK n \in 1..L : Runs(actions, index - 1, tup, n) /\ timers[1] = Mark(actions, tup, n)
      BY <1>6, <3>2
    <3>4. DueAt(actions, tup, n) > a.time
      BY <3>2, <3>3, MarkFacts
    <3>5. Runs(actions, index, tup, n)
      BY <1>7, <2>2, <3>3, <3>4
    <3>6. QED
      BY <3>2, <3>3, <3>5
  <2>3. QED
    BY <2>1, <2>2
<1>23. ASSUME NEW n \in 1..L, Runs(actions, index, tup, n)
       PROVE  Len(timers') > 0 /\ timers'[1] = Mark(actions, tup, n)
  <2>1. CASE n = index /\ a.cap = cap
    BY <1>10, <2>1 DEF new
  <2>2. CASE /\ Runs(actions, index - 1, tup, n) /\ DueAt(actions, tup, n) > a.time
             /\ a.cap # cap
    <3>1. Len(timers) > 0 /\ timers[1] = Mark(actions, tup, n)
      BY <1>6, <2>2
    <3>2. ~ (timers[1].time <= a.time)
      <4>1. timers[1].time = DueAt(actions, tup, n) /\ timers[1].time \in Nat
        BY <1>5, <3>1, MarkFacts
      <4>2. QED
        BY <1>5, <2>2, <4>1
    <3>3. timers' = timers
      BY <1>10, <1>11, <2>2, <3>2
    <3>4. QED
      BY <3>1, <3>3
  <2>3. QED
    BY <1>7, <1>23, <2>1, <2>2
<1>24. Timing'
  <2>1. Len(actions') = L /\ tup' = tup
    BY <1>2 DEF L
  <2>2. /\ \A j \in 1..Len(fired') : \E k \in 1..Len(TimingTup), n \in 1..L :
              Counted(k, n)' /\ fired'[j] = Mark(actions, k, n)'
        /\ \A k \in 1..Len(TimingTup), n \in 1..L :
              Counted(k, n)' => \E j \in 1..Len(fired') : fired'[j] = Mark(actions, k, n)'
    <3>1. ASSUME NEW j \in 1..Len(fired')
          PROVE  \E k \in 1..Len(TimingTup), n \in 1..L :
                    Counted(k, n)' /\ fired'[j] = Mark(actions, k, n)'
      <4>1. PICK k \in 1..Len(TimingTup), n \in 1..L :
               Counted(k, n)' /\ fired'[j] = Mark(actions, k, n)
        BY <1>19
      <4>2. Mark(actions, k, n)' = Mark(actions, k, n)
        BY <1>15
      <4>3. QED
        BY <4>1, <4>2
    <3>2. ASSUME NEW k \in 1..Len(TimingTup), NEW n \in 1..L, Counted(k, n)'
          PROVE  \E j \in 1..Len(fired') : fired'[j] = Mark(actions, k, n)'
      <4>1. PICK j \in 1..Len(fired') : fired'[j] = Mark(actions, k, n)
        BY <1>20, <3>2
      <4>2. Mark(actions, k, n)' = Mark(actions, k, n)
        BY <1>15
      <4>3. QED
        BY <4>1, <4>2
    <3>3. QED
      BY <3>1, <3>2
  <2>3. /\ Len(timers') > 0 => \E n \in 1..L :
              Runs(actions, index - 1, tup, n)' /\ timers'[1] = Mark(actions, tup, n)'
        /\ \A n \in 1..L :
              Runs(actions, index - 1, tup, n)' =>
                 Len(timers') > 0 /\ timers'[1] = Mark(actions, tup, n)'
    <3>1. \A n : /\ Runs(actions, index - 1, tup, n)' <=> Runs(actions, index, tup, n)
                 /\ Mark(actions, tup, n)' = Mark(actions, tup, n)
      BY <1>2, <1>14
    <3>2. QED
      BY <1>22, <1>23, <3>1
  <2>4. QED
    BY <1>21, <2>1, <2>2, <2>3 DEF Timing
<1>25. QED
  BY <1>13, <1>24 DEF TraceInv

(* The next of timing_tup. After the last action, the timers that have     *)
(* ended are those that had by its end.                                    *)
LEMMA NextTupStep == ASSUME TraceInv, NextTup PROVE TraceInv'
<1> DEFINE L == Len(actions)
<1>1. /\ Types /\ Unused /\ Kinds /\ Timely /\ Chain /\ Changing /\ Timing
  BY DEF TraceInv
<1>2. /\ pc = "timing" /\ tup <= Len(TimingTup) /\ index > L
      /\ tup' = tup + 1 /\ index' = 1 /\ timers' = <<>>
      /\ pc' = pc /\ fired' = fired
      /\ UNCHANGED <<initial_state, actions, time_range, logged, new_actions, current_time>>
  BY DEF NextTup
<1>3. /\ L \in Nat /\ index = L + 1 /\ tup \in 1..Len(TimingTup) /\ tup \in Nat
      /\ fired \in Seq(TimerAction) /\ Len(fired) \in Nat
  <2>1. /\ L \in Nat /\ index \in 1..(L + 1) /\ tup \in 1..(Len(TimingTup) + 1)
        /\ fired \in Seq(TimerAction)
    BY <1>1 DEF Types
  <2>2. Len(TimingTup) \in Nat /\ Len(fired) \in Nat
    BY <2>1, TimingFacts
  <2>3. QED
    BY <1>2, <2>1, <2>2
<1>4. /\ index - 1 = L /\ index' - 1 = 0 /\ actions' = actions
      /\ <<>> \in Seq(TimerAction) /\ Len(<<>>) = 0 /\ 0 \in 0..1
  BY <1>2, <1>3
<1>5. (Types /\ Unused /\ Kinds /\ Timely /\ Chain /\ Changing /\ Progress /\ Merging /\ Clocking)'
  <2>1. /\ index' \in 1..(Len(actions) + 1) /\ tup' \in 1..(Len(TimingTup) + 1)
        /\ tup' > Len(TimingTup) => index' = 1
        /\ pc' = "timing"
        /\ timers' \in Seq(TimerAction) /\ Len(timers') \in 0..1 /\ fired' \in Seq(TimerAction)
    BY <1>2, <1>3, <1>4, TimingFacts
  <2>2. QED
    BY <1>1, <1>2, <2>1, TimingKeeps
<1>6. \A k, n :
         /\ Ended(actions, index - 1, k, n)' <=> Ended(actions, 0, k, n)
         /\ Runs(actions, index - 1, k, n)' <=> Runs(actions, 0, k, n)
         /\ Ended(actions, Len(actions), k, n)' <=> Ended(actions, L, k, n)
         /\ Mark(actions, k, n)' = Mark(actions, k, n)
  <2>1. ASSUME NEW k, NEW n
        PROVE  /\ Ended(actions, index - 1, k, n)' <=> Ended(actions, 0, k, n)
               /\ Runs(actions, index - 1, k, n)' <=> Runs(actions, 0, k, n)
    BY <1>4
  <2>2. ASSUME NEW k, NEW n
        PROVE  /\ Ended(actions, Len(actions), k, n)' <=> Ended(actions, L, k, n)
               /\ Mark(actions, k, n)' = Mark(actions, k, n)
    BY <1>4
  <2>3. QED
    BY <2>1, <2>2
<1>7. \A k \in 1..Len(TimingTup), n \in 1..L : Counted(k, n)' <=> Counted(k, n)
  <2>1. SUFFICES ASSUME NEW k \in 1..Len(TimingTup), NEW n \in 1..L
                 PROVE  Counted(k, n)' <=> Counted(k, n)
    OBVIOUS
  <2>2. Counted(k, n)' <=>
           \/ k < tup + 1 /\ Ended(actions, L, k, n)
           \/ k = tup + 1 /\ Ended(actions, 0, k, n)
    BY <1>2, <1>6 DEF Counted
  <2>3. Counted(k, n) <=>
           \/ k < tup /\ Ended(actions, L, k, n)
           \/ k = tup /\ Ended(actions, L, k, n)
    BY <1>4 DEF Counted
  <2>4. ~ Ended(actions, 0, k, n)
    BY TimerStart
  <2>5. k < tup + 1 <=> k < tup \/ k = tup
    BY <1>3
  <2>6. QED
    BY <2>2, <2>3, <2>4, <2>5
<1>8. Timing'
  <2>1. /\ \A j \in 1..Len(fired) : \E k \in 1..Len(TimingTup), n \in 1..L :
              Counted(k, n) /\ fired[j] = Mark(actions, k, n)
        /\ \A k \in 1..Len(TimingTup), n \in 1..L :
              Counted(k, n) => \E j \in 1..Len(fired) : fired[j] = Mark(actions, k, n)
        /\ \A i, j \in 1..Len(fired) : fired[i] = fired[j] => i = j
    BY <1>1, <1>2 DEF Timing
  <2>2. /\ \A j \in 1..Len(fired) : \E k \in 1..Len(TimingTup), n \in 1..L :
              Counted(k, n)' /\ fired[j] = Mark(actions, k, n)'
        /\ \A k \in 1..Len(TimingTup), n \in 1..L :
              Counted(k, n)' => \E j \in 1..Len(fired) : fired[j] = Mark(actions, k, n)'
    <3>1. ASSUME NEW j \in 1..Len(fired)
          PROVE  \E k \in 1..Len(TimingTup), n \in 1..L :
                    Counted(k, n)' /\ fired[j] = Mark(actions, k, n)'
      <4>1. PICK k \in 1..Len(TimingTup), n \in 1..L :
               Counted(k, n) /\ fired[j] = Mark(actions, k, n)
        BY <2>1
      <4>2. Counted(k, n)' /\ fired[j] = Mark(actions, k, n)'
        BY <1>6, <1>7, <4>1
      <4>3. QED
        BY <4>2
    <3>2. ASSUME NEW k \in 1..Len(TimingTup), NEW n \in 1..L, Counted(k, n)'
          PROVE  \E j \in 1..Len(fired) : fired[j] = Mark(actions, k, n)'
      BY <1>6, <1>7, <2>1, <3>2
    <3>3. QED
      BY <3>1, <3>2
  <2>3. ~ (Len(timers') > 0)
    BY <1>2, <1>4
  <2>4. \A k, n : ~ Runs(actions, index - 1, k, n)'
    BY <1>6, TimerStart
  <2>5. actions' = actions /\ fired' = fired
    BY <1>2
  <2>6. QED
    BY <2>1, <2>2, <2>3, <2>4, <2>5 DEF Timing
<1>9. QED
  BY <1>5, <1>8 DEF TraceInv

(* All timers are counted: what has fired is sorted.                       *)
LEMMA SortFiredStep == ASSUME TraceInv, SortFired PROVE TraceInv'
<1> DEFINE L == Len(actions)
           sorted == ByTime(fired)
<1>1. /\ Types /\ Unused /\ Kinds /\ Timely /\ Chain /\ Changing /\ Timing
  BY DEF TraceInv
<1>2. /\ pc = "timing" /\ tup > Len(TimingTup) /\ pc' = "merge" /\ fired' = sorted
      /\ UNCHANGED <<initial_state, actions, time_range, logged, index, tup, timers,
                     new_actions, current_time>>
  BY DEF SortFired
<1>3. /\ L \in Nat /\ index = 1 /\ tup = Len(TimingTup) + 1 /\ new_actions = <<>>
      /\ fired \in Seq(TimerAction) /\ Len(fired) \in Nat
  BY <1>1, <1>2, TraceTypes, TimingFacts DEF Types, Unused
<1>4. /\ \A e : HeldMark(actions, e) => \E j \in 1..Len(fired) : fired[j] = e
      /\ \A j \in 1..Len(fired) : HeldMark(actions, fired[j])
      /\ \A i, j \in 1..Len(fired) : fired[i] = fired[j] => i = j
  <2>1. /\ \A j \in 1..Len(fired) : \E k \in 1..Len(TimingTup), n \in 1..L :
              Counted(k, n) /\ fired[j] = Mark(actions, k, n)
        /\ \A k \in 1..Len(TimingTup), n \in 1..L :
              Counted(k, n) => \E j \in 1..Len(fired) : fired[j] = Mark(actions, k, n)
        /\ \A i, j \in 1..Len(fired) : fired[i] = fired[j] => i = j
    BY <1>1, <1>2 DEF Timing
  <2>2. \A k \in 1..Len(TimingTup) : k < tup /\ k # tup
    BY <1>3, TimingFacts
  <2>3. \A k \in 1..Len(TimingTup), n \in 1..L : Counted(k, n) <=> Ended(actions, L, k, n)
    BY <2>2 DEF Counted
  <2>4. ASSUME NEW j \in 1..Len(fired) PROVE HeldMark(actions, fired[j])
    <3>1. PICK k \in 1..Len(TimingTup), n \in 1..L :
             Counted(k, n) /\ fired[j] = Mark(actions, k, n)
      BY <2>1
    <3>2. Ended(actions, L, k, n)
      BY <2>3, <3>1
    <3>3. QED
      BY <3>1, <3>2 DEF HeldMark
  <2>5. ASSUME NEW e, HeldMark(actions, e) PROVE \E j \in 1..Len(fired) : fired[j] = e
    <3>1. PICK k \in 1..Len(TimingTup), n \in 1..L :
             Ended(actions, L, k, n) /\ e = Mark(actions, k, n)
      BY <2>5 DEF HeldMark
    <3>2. Counted(k, n)
      BY <2>3, <3>1
    <3>3. QED
      BY <2>1, <3>1, <3>2
  <2>6. QED
    BY <2>1, <2>4, <2>5
<1>5. PICK p \in [1..Len(fired) -> 1..Len(fired)] :
         /\ \A j, k \in 1..Len(fired) : p[j] = p[k] => j = k
         /\ \A n \in 1..Len(fired) : \E k \in 1..Len(fired) : p[k] = n
         /\ \A j, k \in 1..Len(fired) : j < k => fired[p[j]].time <= fired[p[k]].time
         /\ sorted = Along(fired, p, Len(fired))
         /\ sorted \in Seq(TimerAction) /\ Len(sorted) = Len(fired)
  BY <1>3, TimerTime, ByTimeIs
<1> HIDE DEF sorted
<1>6. \A k \in 1..Len(fired) : sorted[k] = fired[p[k]] /\ p[k] \in 1..Len(fired)
  BY <1>5 DEF Along
<1>7. /\ \A e : HeldMark(actions, e) => \E j \in 1..Len(sorted) : sorted[j] = e
      /\ \A j \in 1..Len(sorted) : HeldMark(actions, sorted[j])
      /\ \A i, j \in 1..Len(sorted) :
            /\ sorted[i] = sorted[j] => i = j
            /\ i < j => sorted[i].time <= sorted[j].time
  <2>1. ASSUME NEW e, HeldMark(actions, e) PROVE \E j \in 1..Len(sorted) : sorted[j] = e
    <3>1. PICK n \in 1..Len(fired) : fired[n] = e
      BY <1>4, <2>1
    <3>2. PICK k \in 1..Len(fired) : p[k] = n
      BY <1>5
    <3>3. sorted[k] = e /\ k \in 1..Len(sorted)
      BY <1>5, <1>6, <3>1, <3>2
    <3>4. QED
      BY <3>3
  <2>2. ASSUME NEW j \in 1..Len(sorted) PROVE HeldMark(actions, sorted[j])
    <3>1. j \in 1..Len(fired)
      BY <1>5
    <3>2. QED
      BY <1>4, <1>6, <3>1
  <2>3. ASSUME NEW i \in 1..Len(sorted), NEW j \in 1..Len(sorted)
        PROVE  /\ sorted[i] = sorted[j] => i = j
               /\ i < j => sorted[i].time <= sorted[j].time
    <3>1. i \in 1..Len(fired) /\ j \in 1..Len(fired)
      BY <1>5
    <3>2. sorted[i] = fired[p[i]] /\ sorted[j] = fired[p[j]]
          /\ p[i] \in 1..Len(fired) /\ p[j] \in 1..Len(fired)
      BY <1>6, <3>1
    <3>3. ASSUME sorted[i] = sorted[j] PROVE i = j
      <4>1. p[i] = p[j]
        BY <1>4, <3>2, <3>3
      <4>2. QED
        BY <1>5, <3>1, <4>1
    <3>4. ASSUME i < j PROVE sorted[i].time <= sorted[j].time
      <4>1. \A m, n \in 1..Len(fired) : m < n => fired[p[m]].time <= fired[p[n]].time
        BY <1>5
      <4>2. fired[p[i]].time <= fired[p[j]].time
        BY <3>1, <3>4, <4>1
      <4>3. QED
        BY <3>2, <4>2
    <3>5. QED
      BY <3>3, <3>4
  <2>4. QED
    BY <2>1, <2>2, <2>3
<1>8. /\ actions' = actions /\ new_actions' = <<>> /\ Len(new_actions') = 0
      /\ index' = 1 /\ fired' = sorted
  BY <1>2, <1>3
<1>9. Merging'
  <2>1. SetPlaces(<<>>) = {} /\ Picked(<<>>, SetPlaces(<<>>)) = <<>>
    <3>1. SetPlaces(<<>>) = {}
      <4>1. 1..Len(<<>>) = {}
        OBVIOUS
      <4>2. QED
        BY <4>1 DEF SetPlaces
    <3>2. QED
      BY <3>1, PickedNone
  <2>2. SubSeq(actions, 1, 0) = <<>>
    BY <1>1 DEF Types
  <2>3. (Picked(new_actions, SetPlaces(new_actions)) = SubSeq(actions, 1, index - 1))'
    <3>1. index' - 1 = 0
      BY <1>8
    <3>2. Picked(new_actions', SetPlaces(new_actions')) = <<>>
      BY <1>8, <2>1
    <3>3. QED
      BY <1>8, <2>2, <3>1, <3>2
  <2>4. TimersOnce(new_actions)'
    BY <1>8 DEF TimersOnce
  <2>5. \A j \in 1..Len(fired') : HeldMark(actions, fired[j])'
    BY <1>7, <1>8
  <2>6. /\ \A n \in 1..Len(new_actions') : FALSE
        /\ ~ (index' > 1)
    BY <1>8
  <2>7. (\A e : HeldMark(actions, e) => \E j \in 1..Len(fired) : fired[j] = e)'
    BY <1>7, <1>8
  <2>8. (\A i, j \in 1..Len(fired) :
           /\ fired[i] = fired[j] => i = j
           /\ i < j => fired[i].time <= fired[j].time)'
    BY <1>7, <1>8
  <2>9. QED
    BY <2>3, <2>4, <2>5, <2>6, <2>7, <2>8 DEF Merging
<1>10. Caps' = Caps
  BY <1>2 DEF Caps
<1>11. Types'
  BY <1>1, <1>2, <1>5, <1>10 DEF Types
<1>12. Unused' /\ Kinds'
  <2>1. Unused'
    BY <1>1, <1>2 DEF Unused
  <2>2. Kinds'
    <3>1. \A n \in 1..Len(actions) : Kind(actions, n) = "set"
      BY <1>1, <1>2 DEF Kinds
    <3>2. \A n \in 1..Len(new_actions') : FALSE
      BY <1>8
    <3>3. QED
      BY <1>2, <3>1, <3>2 DEF Kinds, Kind
  <2>3. QED
    BY <2>1, <2>2
<1>13. Timely' /\ Changing'
  <2>1. Timely'
    BY <1>1, <1>2 DEF Timely, InTime, TimeOf
  <2>2. Changing'
    BY <1>1, <1>2 DEF Changing, Changes, Kind, TimeOf
  <2>3. QED
    BY <2>1, <2>2
<1>14. Chain'
  <2>1. Chained(actions, Len(actions)) /\ Chained(new_actions, Len(new_actions))
    BY <1>1, <1>2 DEF Chain
  <2>2. Chained(actions, Len(actions))' /\ Chained(new_actions, Len(new_actions))'
    BY <1>2, <2>1 DEF Chained, Post
  <2>3. QED
    BY <1>2, <2>2 DEF Chain
<1>15. Progress' /\ Timing' /\ Clocking'
  <2>1. Progress'
    BY <1>8 DEF Progress
  <2>2. Timing' /\ Clocking'
    BY <1>2 DEF Timing, Clocking
  <2>3. QED
    BY <2>1, <2>2
<1>16. QED
  BY <1>9, <1>11, <1>12, <1>13, <1>14, <1>15 DEF TraceInv
-----------------------------------------------------------------------------
(* Events are inserted before an action.                                   *)
Inserts(big, list, events, a) ==
  /\ Len(list) \in Nat /\ Len(events) \in Nat /\ Len(big) = Len(list) + Len(events) + 1
  /\ \A n \in 1..Len(list) : big[n] = list[n]
  /\ \A n \in 1..Len(events) :
        big[Len(list) + n].action = events[n] /\ big[Len(list) + n].pre = a.pre
  /\ big[Len(big)] = a
  /\ \A n \in 1..Len(big) :
        \/ n \in 1..Len(list)
        \/ \E m \in 1..Len(events) : n = Len(list) + m
        \/ n = Len(big)

(* Events are added at the end, in a state.                                *)
Extends(big, list, events, pre) ==
  /\ Len(list) \in Nat /\ Len(events) \in Nat /\ Len(big) = Len(list) + Len(events)
  /\ \A n \in 1..Len(list) : big[n] = list[n]
  /\ \A n \in 1..Len(events) :
        big[Len(list) + n].action = events[n] /\ big[Len(list) + n].pre = pre
  /\ \A n \in 1..Len(big) :
        n \in 1..Len(list) \/ \E m \in 1..Len(events) : n = Len(list) + m

(* Events at the end of a list of entries, all in one state (AllAt).       *)
LEMMA Extended ==
  ASSUME NEW caps \in SUBSET Cap, NEW list \in Seq(Entry(caps)),
         NEW events \in Seq(Action(caps)), NEW pre \in State(caps)
  PROVE  /\ Extends(list \o AllAt(events, pre), list, events, pre)
         /\ list \o AllAt(events, pre) \in Seq(Entry(caps))
<1> DEFINE E == Entry(caps)
           more == AllAt(events, pre)
           big == list \o more
           L == Len(list)
           M == Len(events)
<1>1. /\ more \in Seq(E) /\ Len(more) = M
      /\ \A n \in 1..M : more[n].action = events[n] /\ more[n].pre = pre
  BY AllAtIs
<1>2. list \in Seq(E) /\ L \in Nat /\ M \in Nat
  OBVIOUS
<1> HIDE DEF E, more, M
<1>3. /\ big \in Seq(E) /\ Len(big) = L + M
      /\ \A n \in 1..L : big[n] = list[n]
      /\ \A n \in 1..M : big[L + n] = more[n]
  <2>1. list \in Seq(E) /\ more \in Seq(E) /\ Len(more) = M /\ Len(list) \in Nat /\ M \in Nat
    BY <1>1, <1>2
  <2>2. big \in Seq(E) /\ Len(big) = L + M
    <3>1. big \in Seq(E)
      BY <2>1, ConcatProperties
    <3>2. Len(big) = Len(list) + Len(more)
      BY <2>1, ConcatProperties
    <3>3. QED
      BY <2>1, <3>1, <3>2
  <2>3. \A n \in 1..L : big[n] = list[n]
    BY <2>1
  <2>4. \A n \in 1..M : big[L + n] = more[n]
    BY <2>1
  <2>5. QED
    BY <2>2, <2>3, <2>4
<1> HIDE DEF big, L
<1>4. ASSUME NEW n \in 1..(L + M)
      PROVE  n \in 1..L \/ (\E m \in 1..M : n = L + m)
  <2>1. CASE n > L
    <3>1. n - L \in 1..M /\ n = L + (n - L)
      BY <1>2, <2>1
    <3>2. QED
      BY <3>1
  <2>2. QED
    BY <1>2, <2>1
<1>5. Extends(big, list, events, pre)
  BY <1>1, <1>2, <1>3, <1>4 DEF Extends, L, M
<1>6. QED
  BY <1>3, <1>5 DEF big, E, more

(* Events before an action, in the state that the action was in.           *)
LEMMA Inserted ==
  ASSUME NEW caps \in SUBSET Cap, NEW list \in Seq(Entry(caps)),
         NEW events \in Seq(Action(caps)), NEW a \in Entry(caps)
  PROVE  /\ Inserts((list \o AllAt(events, a.pre)) \o <<a>>, list, events, a)
         /\ (list \o AllAt(events, a.pre)) \o <<a>> \in Seq(Entry(caps))
<1> DEFINE E == Entry(caps)
           front == list \o AllAt(events, a.pre)
           big == front \o <<a>>
           L == Len(list)
           M == Len(events)
<1>1. Extends(front, list, events, a.pre) /\ front \in Seq(E)
  BY EntryFacts, Extended
<1>2. /\ L \in Nat /\ M \in Nat /\ Len(front) = L + M
      /\ \A n \in 1..L : front[n] = list[n]
      /\ \A n \in 1..M : front[L + n].action = events[n] /\ front[L + n].pre = a.pre
      /\ \A n \in 1..(L + M) : n \in 1..L \/ \E m \in 1..M : n = L + m
  BY <1>1 DEF Extends
<1>3. a \in E
  OBVIOUS
<1> HIDE DEF E, front, L, M
<1>4. /\ big \in Seq(E) /\ Len(big) = L + M + 1
      /\ \A n \in 1..(L + M) : big[n] = front[n]
      /\ big[L + M + 1] = a
  <2>1. /\ <<a>> \in Seq(E) /\ Len(<<a>>) = 1 /\ <<a>>[1] = a
    BY <1>3
  <2>2. big \in Seq(E)
    BY <1>1, <2>1
  <2>3. QED
    BY <1>1, <1>2, <2>1, <2>2, JoinOne
<1> HIDE DEF big
<1>5. \A n \in 1..L : n \in 1..(L + M)
  BY <1>2
<1>6. \A n \in 1..M : L + n \in 1..(L + M)
  BY <1>2
<1>7. \A n \in 1..(L + M + 1) : n \in 1..(L + M) \/ n = L + M + 1
  BY <1>2
<1>8. Inserts(big, list, events, a)
  BY <1>2, <1>4, <1>5, <1>6, <1>7 DEF Inserts, L, M
<1>9. QED
  BY <1>4, <1>8 DEF big, front, E

(* The states of the events still follow from each other, when what is     *)
(* inserted changes nothing.                                               *)
LEMMA InsertedChain ==
  ASSUME NEW caps \in SUBSET Cap, NEW list, NEW events \in Seq(Action(caps)),
         NEW a \in Entry(caps), NEW big, Inserts(big, list, events, a),
         Chained(list, Len(list)), Post(list, Len(list)) = a.pre,
         \A n \in 1..Len(events) : events[n].kind # "set"
  PROVE  Chained(big, Len(big))
<1> DEFINE L == Len(list)
           M == Len(events)
<1>1. /\ L \in Nat /\ M \in Nat /\ Len(big) = L + M + 1
      /\ \A n \in 1..L : big[n] = list[n]
      /\ \A n \in 1..M : big[L + n].action = events[n] /\ big[L + n].pre = a.pre
      /\ big[Len(big)] = a
      /\ \A n \in 1..Len(big) :
            \/ n \in 1..L
            \/ \E m \in 1..M : n = L + m
            \/ n = Len(big)
  BY DEF Inserts
<1>2. \A n \in 1..L : list[n].pre = Post(list, n - 1)
  BY DEF Chained
<1>3. a.pre \in State(caps)
  BY EntryFacts
<1>4. \A n \in 1..M : events[n] \in Action(caps)
  OBVIOUS
<1> HIDE DEF L, M
<1>5. Post(big, L) = a.pre
  <2>1. CASE L = 0
    BY <2>1 DEF Post, L
  <2>2. CASE L # 0
    <3>1. big[L] = list[L]
      BY <1>1, <2>2
    <3>2. QED
      BY <2>2, <3>1 DEF Post, L
  <2>3. QED
    BY <2>1, <2>2
<1>6. ASSUME NEW m \in 1..M PROVE Post(big, L + m) = a.pre
  <2>1. Effect(a.pre, events[m]) = a.pre
    BY <1>3, <1>4, EffectType DEF M
  <2>2. L + m # 0 /\ big[L + m].action = events[m] /\ big[L + m].pre = a.pre
    BY <1>1
  <2>3. QED
    BY <2>1, <2>2 DEF Post
<1>7. \A m \in 0..M : Post(big, L + m) = a.pre
  <2>1. \A m \in 0..M : m = 0 \/ m \in 1..M
    BY <1>1
  <2>2. L + 0 = L
    BY <1>1
  <2>3. QED
    BY <1>5, <1>6, <2>1, <2>2
<1>8. ASSUME NEW n \in 1..Len(big) PROVE big[n].pre = Post(big, n - 1)
  <2>1. CASE n \in 1..L
    <3>1. big[n].pre = Post(list, n - 1)
      BY <1>1, <1>2, <2>1
    <3>2. CASE n = 1
      BY <3>1, <3>2 DEF Post
    <3>3. CASE n # 1
      <4>1. n - 1 # 0 /\ n - 1 \in 1..L
        BY <1>1, <2>1, <3>3
      <4>2. QED
        BY <1>1, <3>1, <4>1 DEF Post
    <3>4. QED
      BY <3>2, <3>3
  <2>2. CASE \E m \in 1..M : n = L + m
    <3>1. PICK m \in 1..M : n = L + m
      BY <2>2
    <3>2. m - 1 \in 0..M /\ n - 1 = L + (m - 1)
      BY <1>1, <3>1
    <3>3. QED
      BY <1>1, <1>7, <3>1, <3>2
  <2>3. CASE n = Len(big)
    <3>1. M \in 0..M /\ n - 1 = L + M
      BY <1>1, <2>3
    <3>2. QED
      BY <1>1, <1>7, <2>3, <3>1
  <2>4. QED
    BY <1>1, <2>1, <2>2, <2>3
<1>9. QED
  BY <1>8 DEF Chained

(* They are in the order of time, when what is inserted is.                *)
LEMMA InsertedTime ==
  ASSUME time_range.start \in Nat, time_range.end \in Nat,
         NEW list, NEW events, NEW a, NEW big, Inserts(big, list, events, a),
         InTime(list), a.action.time \in time_range.start..time_range.end,
         \A n \in 1..Len(events) : events[n].time \in time_range.start..a.action.time,
         \A m, n \in 1..Len(events) : m < n => events[m].time <= events[n].time,
         \A n \in 1..Len(list) : TimeOf(list, n) <= a.action.time,
         \A n \in 1..Len(list), m \in 1..Len(events) : TimeOf(list, n) <= events[m].time
  PROVE  InTime(big)
<1> DEFINE L == Len(list)
           M == Len(events)
           B == Len(big)
           t == a.action.time
<1>1. /\ L \in Nat /\ M \in Nat /\ B = L + M + 1
      /\ \A n \in 1..L : TimeOf(big, n) = TimeOf(list, n)
      /\ \A n \in 1..M : TimeOf(big, L + n) = events[n].time
      /\ TimeOf(big, B) = t
      /\ \A n \in 1..B :
            \/ n \in 1..L
            \/ \E m \in 1..M : n = L + m
            \/ n = B
  BY DEF Inserts, TimeOf
<1>2. /\ \A n \in 1..L : TimeOf(list, n) \in time_range.start..time_range.end
      /\ \A j, k \in 1..L : j < k => TimeOf(list, j) <= TimeOf(list, k)
  BY DEF InTime
<1>3. t \in time_range.start..time_range.end /\ t \in Nat
  OBVIOUS
<1> HIDE DEF L, M, B, t
<1>4. ASSUME NEW n \in 1..B PROVE TimeOf(big, n) \in time_range.start..time_range.end
  <2>1. CASE n \in 1..L
    BY <1>1, <1>2, <2>1
  <2>2. CASE \E m \in 1..M : n = L + m
    <3>1. PICK m \in 1..M : n = L + m
      BY <2>2
    <3>2. TimeOf(big, n) \in time_range.start..t
      BY <1>1, <3>1 DEF M, t
    <3>3. QED
      BY <1>3, <3>2
  <2>3. CASE n = B
    BY <1>1, <1>3, <2>3
  <2>4. QED
    BY <1>1, <2>1, <2>2, <2>3
<1>5. ASSUME NEW j \in 1..B, NEW k \in 1..B, j < k PROVE TimeOf(big, j) <= TimeOf(big, k)
  <2>1. CASE k \in 1..L
    <3>1. j \in 1..L
      BY <1>1, <1>5, <2>1
    <3>2. QED
      BY <1>1, <1>2, <1>5, <2>1, <3>1
  <2>2. CASE \E m \in 1..M : k = L + m
    <3>1. PICK m \in 1..M : k = L + m
      BY <2>2
    <3>2. CASE j \in 1..L
      <4>1. TimeOf(list, j) <= events[m].time
        BY <3>2 DEF L, M
      <4>2. QED
        BY <1>1, <3>1, <3>2, <4>1
    <3>3. CASE \E i \in 1..M : j = L + i
      <4>1. PICK i \in 1..M : j = L + i
        BY <3>3
      <4>2. i < m
        BY <1>1, <1>5, <3>1, <4>1
      <4>3. events[i].time <= events[m].time
        BY <4>2 DEF M
      <4>4. QED
        BY <1>1, <3>1, <4>1, <4>3
    <3>4. j # B
      BY <1>1, <1>5
    <3>5. QED
      BY <1>1, <3>2, <3>3, <3>4
  <2>3. CASE k = B
    <3>1. CASE j \in 1..L
      <4>1. TimeOf(list, j) <= t
        BY <3>1 DEF L, t
      <4>2. QED
        BY <1>1, <2>3, <3>1, <4>1
    <3>2. CASE \E i \in 1..M : j = L + i
      <4>1. PICK i \in 1..M : j = L + i
        BY <3>2
      <4>2. events[i].time \in time_range.start..t
        BY DEF M, t
      <4>3. events[i].time <= t
        BY <4>2
      <4>4. QED
        BY <1>1, <2>3, <4>1, <4>3
    <3>3. j # B
      BY <1>1, <1>5, <2>3
    <3>4. QED
      BY <1>1, <3>1, <3>2, <3>3
  <2>4. QED
    BY <1>1, <2>1, <2>2, <2>3
<1>6. QED
  BY <1>4, <1>5 DEF InTime, B

(* Only the first event of the log may change nothing.                     *)
LEMMA InsertedChanges ==
  ASSUME NEW list, NEW events, NEW a, NEW big, Inserts(big, list, events, a),
         Changes(list), \A n \in 1..Len(events) : events[n].kind # "set",
         a.action.kind = "set" /\ a.pre[a.action.cap] = a.action.value =>
            Len(list) = 0 /\ Len(events) = 0 /\ a.action.time = time_range.start
  PROVE  Changes(big)
<1> DEFINE L == Len(list)
           M == Len(events)
           B == Len(big)
<1>1. /\ L \in Nat /\ M \in Nat /\ B = L + M + 1
      /\ \A n \in 1..L : big[n] = list[n]
      /\ \A n \in 1..M : big[L + n].action = events[n]
      /\ big[B] = a
      /\ \A n \in 1..B :
            \/ n \in 1..L
            \/ \E m \in 1..M : n = L + m
            \/ n = B
  BY DEF Inserts
<1> HIDE DEF B
<1>2. SUFFICES ASSUME NEW n \in 1..B, Kind(big, n) = "set",
                      big[n].pre[big[n].action.cap] = big[n].action.value
               PROVE  n = 1 /\ TimeOf(big, n) = time_range.start
  BY DEF Changes, B
<1>3. CASE n \in 1..L
  <2>1. big[n] = list[n]
    BY <1>1, <1>3
  <2>2. QED
    BY <1>2, <1>3, <2>1 DEF Changes, Kind, TimeOf
<1>4. CASE \E m \in 1..M : n = L + m
  BY <1>1, <1>2, <1>4 DEF Kind
<1>5. CASE n = B
  <2>1. Len(list) = 0 /\ Len(events) = 0 /\ a.action.time = time_range.start
    BY <1>1, <1>2, <1>5 DEF Kind
  <2>2. QED
    BY <1>1, <1>5, <2>1 DEF TimeOf
<1>6. QED
  BY <1>1, <1>3, <1>4, <1>5

(* A part of a list that grows by one.                                     *)
LEMMA SubSeqGrows ==
  ASSUME NEW S, NEW list \in Seq(S), NEW i \in 1..Len(list)
  PROVE  Append(SubSeq(list, 1, i - 1), list[i]) = SubSeq(list, 1, i)
OBVIOUS
-----------------------------------------------------------------------------
(* One action and what is inserted before it goes to new_actions.          *)
Fits(events) ==
  /\ events \in Seq(Action(Caps))
  /\ \A n \in 1..Len(events) :
        events[n].kind # "set" /\ events[n].time \in time_range.start..TimeOf(actions, index)
  /\ \A m, n \in 1..Len(events) : m < n => events[m].time <= events[n].time
  /\ index > 1 => \A n \in 1..Len(events) : TimeOf(actions, index - 1) <= events[n].time
  /\ index = 1 /\ TimeOf(actions, 1) = time_range.start => Len(events) = 0

(* Where new_actions ends, the action begins.                              *)
LEMMA LastNew ==
  ASSUME Types, Timely, Chain, Progress, pc \in {"merge", "clock"}, index <= Len(actions)
  PROVE  /\ index \in 1..Len(actions) /\ actions[index] \in Entry(Caps)
         /\ Post(new_actions, Len(new_actions)) = actions[index].pre
         /\ index > 1 => \A n \in 1..Len(new_actions) :
               TimeOf(new_actions, n) <= TimeOf(actions, index - 1)
         /\ index = 1 => Len(new_actions) = 0
         /\ TimeOf(actions, index) \in time_range.start..time_range.end
         /\ index > 1 => /\ index - 1 \in 1..Len(actions)
                         /\ TimeOf(actions, index - 1) <= TimeOf(actions, index)
<1>1. /\ index \in 1..Len(actions) /\ index \in Nat /\ Len(actions) \in Nat
      /\ actions[index] \in Entry(Caps) /\ Len(new_actions) \in Nat
  BY TraceTypes
<1>2. \A n \in 1..Len(actions) : actions[n].pre = Post(actions, n - 1)
  BY DEF Chain, Chained
<1>3. /\ index = 1 => new_actions = <<>>
      /\ index > 1 => Len(new_actions) > 0 /\ new_actions[Len(new_actions)] = actions[index - 1]
  BY DEF Progress
<1>4. /\ \A n \in 1..Len(actions) : TimeOf(actions, n) \in time_range.start..time_range.end
      /\ \A j, k \in 1..Len(actions) : j < k => TimeOf(actions, j) <= TimeOf(actions, k)
      /\ \A j, k \in 1..Len(new_actions) : j < k => TimeOf(new_actions, j) <= TimeOf(new_actions, k)
  BY DEF Timely, InTime
<1>5. Post(new_actions, Len(new_actions)) = actions[index].pre
  <2>1. actions[index].pre = Post(actions, index - 1)
    BY <1>1, <1>2
  <2>2. CASE index = 1
    <3>1. Len(new_actions) = 0 /\ index - 1 = 0
      BY <1>3, <2>2
    <3>2. QED
      BY <2>1, <3>1 DEF Post
  <2>3. CASE index > 1
    <3>1. Len(new_actions) # 0 /\ index - 1 # 0
      BY <1>1, <1>3, <2>3
    <3>2. QED
      BY <1>3, <2>1, <2>3, <3>1 DEF Post
  <2>4. QED
    BY <1>1, <2>2, <2>3
<1>6. ASSUME index > 1, NEW n \in 1..Len(new_actions)
      PROVE  TimeOf(new_actions, n) <= TimeOf(actions, index - 1)
  <2>1. TimeOf(new_actions, Len(new_actions)) = TimeOf(actions, index - 1)
    BY <1>3, <1>6 DEF TimeOf
  <2>2. TimeOf(new_actions, n) \in Nat
    BY TraceTypes
  <2>3. Len(new_actions) \in 1..Len(new_actions)
    BY <1>1, <1>3, <1>6
  <2>4. CASE n = Len(new_actions)
    BY <2>1, <2>2, <2>4
  <2>5. CASE n < Len(new_actions)
    BY <1>4, <2>1, <2>3, <2>5
  <2>6. QED
    BY <1>1, <2>4, <2>5
<1>7. index > 1 => index - 1 \in 1..Len(actions) /\ TimeOf(actions, index - 1) <= TimeOf(actions, index)
  <2>1. index > 1 => index - 1 \in 1..Len(actions) /\ index - 1 < index
    BY <1>1
  <2>2. QED
    BY <1>1, <1>4, <2>1
<1>8. index = 1 => Len(new_actions) = 0
  BY <1>3
<1>9. QED
  BY <1>1, <1>4, <1>5, <1>6, <1>7, <1>8

(* A turn of either loop keeps the types, the order of time, the chain of  *)
(* states and the progress.                                                *)
LEMMA LoopStep ==
  ASSUME Types, Unused, Timely, Chain, Changing, Progress,
         pc \in {"merge", "clock"}, index <= Len(actions),
         NEW events, Fits(events),
         new_actions' = (new_actions \o AllAt(events, actions[index].pre)) \o <<actions[index]>>,
         index' = index + 1, pc' = pc,
         UNCHANGED <<initial_state, actions, time_range, logged, tup, timers>>,
         fired' \in Seq(TimerAction), current_time' \in Time
  PROVE  /\ (Types /\ Unused /\ Timely /\ Chain /\ Changing /\ Progress)' /\ Caps' = Caps
         /\ Inserts(new_actions', new_actions, events, actions[index])
<1> DEFINE a == actions[index]
           big == new_actions'
<1>1. /\ index \in 1..Len(actions) /\ index \in Nat /\ a \in Entry(Caps)
      /\ Caps \in SUBSET Cap /\ Len(actions) \in Nat
      /\ new_actions \in Seq(Entry(Caps)) /\ events \in Seq(Action(Caps))
  <2>1. /\ index \in 1..(Len(actions) + 1) /\ new_actions \in Seq(Entry(Caps))
        /\ events \in Seq(Action(Caps))
    BY DEF Types, Fits
  <2>2. /\ index \in Nat /\ Len(actions) \in Nat /\ Caps \in SUBSET Cap
        /\ \A n \in 1..Len(actions) : actions[n] \in Entry(Caps)
    BY TraceTypes
  <2>3. index \in 1..Len(actions)
    BY <2>1, <2>2
  <2>4. QED
    BY <2>1, <2>2, <2>3
<1>2. Inserts(big, new_actions, events, a) /\ big \in Seq(Entry(Caps))
  <2> DEFINE caps == Caps
  <2>1. /\ caps \in SUBSET Cap /\ a \in Entry(caps)
        /\ new_actions \in Seq(Entry(caps)) /\ events \in Seq(Action(caps))
    BY <1>1
  <2> HIDE DEF caps, a
  <2>2. /\ Inserts((new_actions \o AllAt(events, a.pre)) \o <<a>>, new_actions, events, a)
        /\ (new_actions \o AllAt(events, a.pre)) \o <<a>> \in Seq(Entry(caps))
    BY <2>1, Inserted
  <2>3. QED
    BY <2>2 DEF a, caps
<1>3. /\ Post(new_actions, Len(new_actions)) = a.pre
      /\ index > 1 => \A n \in 1..Len(new_actions) :
            TimeOf(new_actions, n) <= TimeOf(actions, index - 1)
      /\ index = 1 => Len(new_actions) = 0
      /\ TimeOf(actions, index) \in time_range.start..time_range.end
      /\ index > 1 => TimeOf(actions, index - 1) <= TimeOf(actions, index)
                      /\ index - 1 \in 1..Len(actions)
  BY LastNew
<1>4. /\ \A n \in 1..Len(events) :
            events[n].kind # "set" /\ events[n].time \in time_range.start..TimeOf(actions, index)
      /\ \A m, n \in 1..Len(events) : m < n => events[m].time <= events[n].time
      /\ index > 1 => \A n \in 1..Len(events) : TimeOf(actions, index - 1) <= events[n].time
      /\ index = 1 /\ TimeOf(actions, 1) = time_range.start => Len(events) = 0
  BY DEF Fits
<1>5. Caps' = Caps
  BY DEF Caps
<1>6. Chained(new_actions, Len(new_actions)) /\ Chained(actions, Len(actions))
  BY DEF Chain
<1>7. Chained(big, Len(big))
  <2> DEFINE caps == Caps
  <2>1. /\ caps \in SUBSET Cap /\ a \in Entry(caps) /\ events \in Seq(Action(caps))
        /\ Inserts(big, new_actions, events, a)
        /\ Chained(new_actions, Len(new_actions)) /\ Post(new_actions, Len(new_actions)) = a.pre
    BY <1>1, <1>2, <1>3, <1>6
  <2>2. \A n \in 1..Len(events) : events[n].kind # "set"
    BY <1>4
  <2> HIDE DEF caps, a, big
  <2>3. QED
    BY <2>1, <2>2, InsertedChain
<1>8. InTime(big)
  <2>1. time_range.start \in Nat /\ time_range.end \in Nat
    BY TraceTypes
  <2>2. InTime(new_actions)
    BY DEF Timely
  <2>3. a.action.time = TimeOf(actions, index)
    BY DEF TimeOf
  <2>4. ASSUME NEW n \in 1..Len(new_actions)
        PROVE  /\ TimeOf(new_actions, n) <= a.action.time
               /\ \A m \in 1..Len(events) : TimeOf(new_actions, n) <= events[m].time
    <3>1. index > 1
      BY <1>1, <1>3
    <3>2. /\ TimeOf(new_actions, n) <= TimeOf(actions, index - 1)
          /\ TimeOf(actions, index - 1) <= TimeOf(actions, index)
          /\ TimeOf(new_actions, n) \in Nat /\ TimeOf(actions, index - 1) \in Nat
          /\ TimeOf(actions, index) \in Nat
      BY <1>1, <1>3, <3>1, TraceTypes
    <3>3. ASSUME NEW m \in 1..Len(events) PROVE TimeOf(new_actions, n) <= events[m].time
      <4>1. TimeOf(actions, index - 1) <= events[m].time
        BY <1>4, <3>1
      <4>2. events[m].time \in Nat
        <5>1. /\ events[m].time \in time_range.start..TimeOf(actions, index)
              /\ time_range.start \in Nat /\ TimeOf(actions, index) \in Nat
          BY <1>4, <3>2, TraceTypes
        <5>2. QED
          BY <5>1
      <4> DEFINE x == TimeOf(new_actions, n)
                 y == TimeOf(actions, index - 1)
                 z == events[m].time
      <4>3. x \in Nat /\ y \in Nat /\ z \in Nat /\ x <= y /\ y <= z
        BY <3>2, <4>1, <4>2
      <4> HIDE DEF x, y, z
      <4>4. x <= z
        BY <4>3
      <4>5. QED
        BY <4>4 DEF x, z
    <3>4. QED
      BY <2>3, <3>2, <3>3
  <2>5. a.action.time \in time_range.start..time_range.end
    BY <1>3, <2>3
  <2>6. \A n \in 1..Len(events) : events[n].time \in time_range.start..a.action.time
    BY <1>4, <2>3
  <2> HIDE DEF a, big
  <2>7. QED
    BY <1>2, <1>4, <2>1, <2>2, <2>4, <2>5, <2>6, InsertedTime
<1>9. Changes(big)
  <2>1. ASSUME a.action.kind = "set", a.pre[a.action.cap] = a.action.value
        PROVE  Len(new_actions) = 0 /\ Len(events) = 0 /\ a.action.time = time_range.start
    <3>1. index = 1 /\ TimeOf(actions, index) = time_range.start
      BY <1>1, <2>1 DEF Changing, Changes, Kind
    <3>2. QED
      BY <1>3, <1>4, <3>1 DEF TimeOf
  <2>2. Changes(new_actions)
    BY DEF Changing
  <2> HIDE DEF a, big
  <2>3. QED
    BY <1>2, <1>4, <2>1, <2>2, InsertedChanges
<1>10. Types'
  <2>1. index' \in 1..(Len(actions') + 1)
    BY <1>1
  <2>2. QED
    BY <1>2, <1>5, <2>1 DEF Types
<1>11. Unused'
  BY <1>5 DEF Unused
<1>12. Timely'
  <2>1. InTime(actions)'
    BY DEF Timely, InTime, TimeOf
  <2>2. InTime(new_actions)'
    BY <1>8 DEF InTime
  <2>3. QED
    BY <2>1, <2>2 DEF Timely
<1>13. Chain'
  <2>1. Chained(actions, Len(actions))'
    BY <1>6 DEF Chained, Post
  <2>2. Chained(new_actions, Len(new_actions))'
    BY <1>7 DEF Chained, Post
  <2>3. QED
    BY <2>1, <2>2 DEF Chain
<1>14. Changing'
  <2>1. Changes(actions)'
    BY DEF Changing, Changes, Kind, TimeOf
  <2>2. Changes(new_actions)'
    BY <1>9 DEF Changes
  <2>3. QED
    BY <2>1, <2>2 DEF Changing
<1>15. Progress'
  <2>1. index' > 1 /\ index' - 1 = index /\ index' # 1
    BY <1>1
  <2>2. Len(big) > 0 /\ big[Len(big)] = a
    BY <1>2 DEF Inserts
  <2>3. QED
    BY <2>1, <2>2 DEF Progress
<1>16. QED
  BY <1>2, <1>5, <1>10, <1>11, <1>12, <1>13, <1>14, <1>15
-----------------------------------------------------------------------------
(* What is picked grows by the action, when what is inserted is not picked. *)
PicksInserted(list, events, a, S) ==
  Picked((list \o AllAt(events, a.pre)) \o <<a>>, S \cup {Len(list) + Len(events) + 1})
  = Append(Picked(list, S), a)

(* What is picked when events and then an action are added.                *)
LEMMA PickedInserted ==
  ASSUME NEW caps \in SUBSET Cap, NEW list \in Seq(Entry(caps)),
         NEW events \in Seq(Action(caps)), NEW a \in Entry(caps),
         NEW S, S \subseteq 1..Len(list)
  PROVE  PicksInserted(list, events, a, S)
<1> DEFINE E == Entry(caps)
           more == AllAt(events, a.pre)
<1>1. more \in Seq(E) /\ Len(more) = Len(events)
  BY EntryFacts, AllAtIs
<1>2. list \in Seq(E) /\ a \in E
  OBVIOUS
<1> HIDE DEF E, more
<1>3. S \subseteq 1..Len(list)
  OBVIOUS
<1>4. PicksOneMore(list, more, a, S)
  BY <1>1, <1>2, <1>3, PickedGrows
<1>5. Picked((list \o more) \o <<a>>, S \cup {Len(list) + Len(more) + 1})
      = Append(Picked(list, S), a)
  BY <1>4, Zenon DEF PicksOneMore
<1>6. Picked((list \o more) \o <<a>>, S \cup {Len(list) + Len(events) + 1})
      = Append(Picked(list, S), a)
  BY <1>1, <1>5, Zenon
<1>7. QED
  BY <1>6, Zenon DEF more, PicksInserted

(* The sets of places, when an action is inserted with events.             *)
LEMMA PlacesInserted ==
  ASSUME NEW list, NEW events, NEW a, NEW big, Inserts(big, list, events, a)
  PROVE  /\ /\ a.action.kind = "set" /\ \A n \in 1..Len(events) : events[n].kind # "set"
            => SetPlaces(big) = SetPlaces(list) \cup {Len(list) + Len(events) + 1}
         /\ /\ a.action.kind # "clock" /\ \A n \in 1..Len(events) : events[n].kind = "clock"
            => Triggers(big) = Triggers(list) \cup {Len(list) + Len(events) + 1}
<1> DEFINE L == Len(list)
           M == Len(events)
           B == Len(big)
<1>1. /\ L \in Nat /\ M \in Nat /\ B = L + M + 1
      /\ \A n \in 1..L : Kind(big, n) = Kind(list, n)
      /\ \A n \in 1..M : Kind(big, L + n) = events[n].kind
      /\ Kind(big, B) = a.action.kind
      /\ \A n \in 1..B :
            \/ n \in 1..L
            \/ \E m \in 1..M : n = L + m
            \/ n = B
  BY DEF Inserts, Kind
<1>2. /\ SetPlaces(big) = {n \in 1..B : Kind(big, n) = "set"}
      /\ SetPlaces(list) = {n \in 1..L : Kind(list, n) = "set"}
      /\ Triggers(big) = {n \in 1..B : Kind(big, n) # "clock"}
      /\ Triggers(list) = {n \in 1..L : Kind(list, n) # "clock"}
  BY DEF SetPlaces, Triggers
<1>3. \A n \in 1..L : n \in 1..B
  BY <1>1
<1>4. B \in 1..B
  BY <1>1
<1> HIDE DEF L, M, B
<1>5. ASSUME a.action.kind = "set", \A n \in 1..M : events[n].kind # "set"
      PROVE  SetPlaces(big) = SetPlaces(list) \cup {B}
  <2>1. ASSUME NEW n \in 1..B PROVE Kind(big, n) = "set" <=> n \in SetPlaces(list) \cup {B}
    <3>1. CASE n \in 1..L
      <4>1. n # B
        BY <1>1, <3>1
      <4>2. QED
        BY <1>1, <1>2, <3>1, <4>1
    <3>2. CASE n = B
      BY <1>1, <1>5, <3>2
    <3>3. CASE \E m \in 1..M : n = L + m
      <4>1. PICK m \in 1..M : n = L + m
        BY <3>3
      <4>2. Kind(big, n) # "set"
        BY <1>1, <1>5, <4>1
      <4>3. n \notin 1..L /\ n # B
        BY <1>1, <4>1
      <4>4. QED
        BY <1>2, <4>2, <4>3
    <3>4. QED
      BY <1>1, <3>1, <3>2, <3>3
  <2>2. QED
    BY <1>2, <1>3, <1>4, <2>1
<1>6. ASSUME a.action.kind # "clock", \A n \in 1..M : events[n].kind = "clock"
      PROVE  Triggers(big) = Triggers(list) \cup {B}
  <2>1. ASSUME NEW n \in 1..B PROVE Kind(big, n) # "clock" <=> n \in Triggers(list) \cup {B}
    <3>1. CASE n \in 1..L
      <4>1. n # B
        BY <1>1, <3>1
      <4>2. QED
        BY <1>1, <1>2, <3>1, <4>1
    <3>2. CASE n = B
      BY <1>1, <1>6, <3>2
    <3>3. CASE \E m \in 1..M : n = L + m
      <4>1. PICK m \in 1..M : n = L + m
        BY <3>3
      <4>2. Kind(big, n) = "clock"
        BY <1>1, <1>6, <4>1
      <4>3. n \notin 1..L /\ n # B
        BY <1>1, <4>1
      <4>4. QED
        BY <1>2, <4>2, <4>3
    <3>4. QED
      BY <1>1, <3>1, <3>2, <3>3
  <2>2. QED
    BY <1>2, <1>3, <1>4, <2>1
<1>7. QED
  BY <1>1, <1>5, <1>6 DEF M, L, B

(* An event of a timer is after an action and not after the last one.      *)
LEMMA HeldFacts ==
  ASSUME NEW list, Len(list) \in Nat, \A n \in 1..Len(list) : TimeOf(list, n) \in Nat,
         \A j, k \in 1..Len(list) : j < k => TimeOf(list, j) <= TimeOf(list, k),
         NEW e, HeldMark(list, e)
  PROVE  /\ e.kind = "timer" /\ e.time \in Nat /\ Len(list) > 0
         /\ TimeOf(list, 1) < e.time /\ e.time <= TimeOf(list, Len(list))
<1>1. PICK k \in 1..Len(TimingTup), n \in 1..Len(list) :
         Ended(list, Len(list), k, n) /\ e = Mark(list, k, n)
  BY DEF HeldMark
<1>2. e.kind = "timer" /\ e.time = TimeOf(list, n) + TimingTup[k][2]
  BY <1>1, MarkFacts DEF DueAt
<1>3. TimeOf(list, Len(list)) >= TimeOf(list, n) + TimingTup[k][2]
  BY <1>1 DEF Ended, DueAt
<1>4. TimingTup[k][2] \in Nat \ {0} /\ TimeOf(list, n) \in Nat
  BY TimingFacts
<1>5. Len(list) > 0 /\ 1 \in 1..Len(list) /\ Len(list) \in 1..Len(list)
  OBVIOUS
<1>6. TimeOf(list, 1) \in Nat /\ TimeOf(list, Len(list)) \in Nat /\ TimeOf(list, 1) <= TimeOf(list, n)
  <2>1. n = 1 \/ 1 < n
    OBVIOUS
  <2>2. TimeOf(list, 1) \in Nat /\ TimeOf(list, Len(list)) \in Nat
    BY <1>5
  <2>3. QED
    BY <1>4, <1>5, <2>1, <2>2
<1>7. QED
  BY <1>2, <1>3, <1>4, <1>5, <1>6
-----------------------------------------------------------------------------
(* The events of timers that are due are inserted.                         *)
LEMMA MergeStep == ASSUME TraceInv, Merge PROVE TraceInv'
<1> DEFINE a == actions[index]
           t == TimeOf(actions, index)
           due == Due(fired, t)
           d == DueLen(fired, t)
           F == Len(fired)
           L == Len(actions)
           N == Len(new_actions)
           big == new_actions'
<1>1. Types /\ Unused /\ Kinds /\ Timely /\ Chain /\ Changing /\ Progress /\ Merging
  BY DEF TraceInv
<1>2. /\ pc = "merge" /\ pc' = pc /\ index <= L /\ index' = index + 1
      /\ big = (new_actions \o AllAt(due, a.pre)) \o <<a>>
      /\ fired' = NotDue(fired, t)
      /\ UNCHANGED <<initial_state, actions, time_range, logged, tup, timers, current_time>>
  <2>1. (new_actions \o (AllAt(due, a.pre) \o <<a>>)) = (new_actions \o AllAt(due, a.pre)) \o <<a>>
    <3>1. index \in 1..L
      BY <1>1 DEF Merge, Types
    <3>2. /\ a \in Entry(Caps) /\ Caps \in SUBSET Cap /\ fired \in Seq(TimerAction) /\ t \in Nat
          /\ new_actions \in Seq(Entry(Caps))
      BY <1>1, <3>1, TraceTypes DEF Types
    <3>3. due \in Seq(TimerAction)
      BY <3>2, TimerTime, DueSplits
    <3>4. due \in Seq(Action(Caps)) /\ a.pre \in State(Caps)
      BY <3>2, <3>3, EntryFacts DEF Action
    <3>5. AllAt(due, a.pre) \in Seq(Entry(Caps)) /\ <<a>> \in Seq(Entry(Caps))
      BY <3>2, <3>4, AllAtIs
    <3> HIDE DEF due, a
    <3>6. QED
      BY <3>2, <3>5, ConcatAssociative
  <2>2. a.action.time = t
    BY DEF TimeOf
  <2>3. big = new_actions \o (AllAt(due, a.pre) \o <<a>>)
    BY <2>2 DEF Merge, Merged
  <2>4. QED
    BY <2>1, <2>2, <2>3 DEF Merge
<1>3. /\ index \in 1..L /\ index \in Nat /\ L \in Nat /\ N \in Nat
      /\ a \in Entry(Caps) /\ Caps \in SUBSET Cap /\ fired \in Seq(TimerAction) /\ F \in Nat
      /\ t \in Nat /\ new_actions \in Seq(Entry(Caps)) /\ a.action.kind = "set"
      /\ actions \in Seq(Entry(Caps))
  <2>1. index \in 1..L
    BY <1>1, <1>2 DEF Types
  <2>2. a.action.kind = "set"
    BY <1>1, <1>2, <2>1 DEF Kinds, Kind
  <2>3. QED
    BY <1>1, <2>1, <2>2, TraceTypes DEF Types
<1>4. /\ \A j \in 1..F : HeldMark(actions, fired[j])
      /\ \A n \in 1..N : Kind(new_actions, n) = "timer" => HeldMark(actions, new_actions[n].action)
      /\ \A e : HeldMark(actions, e) =>
            \/ \E j \in 1..F : fired[j] = e
            \/ \E n \in 1..N : new_actions[n].action = e
      /\ \A i, j \in 1..F :
            /\ fired[i] = fired[j] => i = j
            /\ i < j => fired[i].time <= fired[j].time
      /\ \A j \in 1..F : index > 1 => fired[j].time > TimeOf(actions, index - 1)
      /\ TimersOnce(new_actions)
      /\ Picked(new_actions, SetPlaces(new_actions)) = SubSeq(actions, 1, index - 1)
  BY <1>1, <1>2 DEF Merging
<1>5. /\ d \in 0..F
      /\ \A k \in 1..d : fired[k].time <= t
      /\ d < F => fired[d + 1].time > t
      /\ due \in Seq(TimerAction) /\ Len(due) = d
      /\ \A k \in 1..d : due[k] = fired[k]
      /\ fired' \in Seq(TimerAction)
      /\ Len(fired') = F - d
      /\ \A k \in 1..(F - d) : fired'[k] = fired[d + k]
  <2> DEFINE rest == NotDue(fired, t)
  <2>1. fired \in Seq(TimerAction) /\ t \in Nat /\ \A e \in TimerAction : e.time \in Nat
    <3> HIDE DEF t
    <3>1. QED
      BY <1>3, TimerTime
  <2>2. rest = fired'
    BY <1>2
  <2> HIDE DEF t
  <2>3. /\ d \in 0..F
        /\ \A k \in 1..d : fired[k].time <= t
        /\ d < F => fired[d + 1].time > t
        /\ due \in Seq(TimerAction) /\ Len(due) = d
        /\ \A k \in 1..d : due[k] = fired[k]
        /\ rest \in Seq(TimerAction) /\ Len(rest) = F - d
        /\ \A k \in 1..(F - d) : rest[k] = fired[d + k]
    <3> DEFINE T == TimerAction
    <3>1. fired \in Seq(T) /\ t \in Nat /\ \A e \in T : e.time \in Nat
      BY <2>1
    <3> HIDE DEF T
    <3>2. /\ DueLen(fired, t) \in 0..Len(fired)
          /\ \A k \in 1..DueLen(fired, t) : fired[k].time <= t
          /\ DueLen(fired, t) < Len(fired) => fired[DueLen(fired, t) + 1].time > t
          /\ Due(fired, t) \in Seq(T) /\ Len(Due(fired, t)) = DueLen(fired, t)
          /\ \A k \in 1..DueLen(fired, t) : Due(fired, t)[k] = fired[k]
          /\ NotDue(fired, t) \in Seq(T) /\ Len(NotDue(fired, t)) = Len(fired) - DueLen(fired, t)
          /\ \A k \in 1..(Len(fired) - DueLen(fired, t)) :
                NotDue(fired, t)[k] = fired[DueLen(fired, t) + k]
      <4> HIDE DEF t
      <4>1. QED
        BY <3>1, DueSplits
    <3>3. QED
      BY <3>2 DEF T
  <2> HIDE DEF rest, d, due, F
  <2>4. QED
    BY <2>2, <2>3
<1>6. /\ \A n \in 1..L : TimeOf(actions, n) \in Nat
      /\ \A j, k \in 1..L : j < k => TimeOf(actions, j) <= TimeOf(actions, k)
      /\ \A n \in 1..L : TimeOf(actions, n) >= time_range.start
      /\ time_range.start \in Nat
  <2>1. time_range.start \in Nat /\ time_range.end \in Nat
    BY <1>1, TraceTypes
  <2>2. \A n \in 1..L : TimeOf(actions, n) \in time_range.start..time_range.end
    BY <1>1 DEF Timely, InTime
  <2>3. \A j, k \in 1..L : j < k => TimeOf(actions, j) <= TimeOf(actions, k)
    BY <1>1 DEF Timely, InTime
  <2>4. QED
    BY <2>1, <2>2, <2>3
<1>7. \A j \in 1..F : /\ fired[j].kind = "timer" /\ fired[j].time \in Nat
                      /\ TimeOf(actions, 1) < fired[j].time
  <2>1. TAKE j \in 1..F
  <2>2. HeldMark(actions, fired[j])
    BY <1>4
  <2>3. QED
    BY <1>3, <1>6, <2>2, HeldFacts
<1>8. \A k \in 1..(F - d) : fired[d + k].time > t
  <2>1. TAKE k \in 1..(F - d)
  <2>2. d + 1 \in 1..F /\ d + k \in 1..F /\ d < F /\ (k = 1 \/ d + 1 < d + k)
    BY <1>3, <1>5
  <2>3. fired[d + 1].time > t
    BY <1>5, <2>2
  <2>4. fired[d + 1].time \in Nat /\ fired[d + k].time \in Nat
    BY <1>7, <2>2
  <2>5. CASE k = 1
    BY <2>3, <2>5
  <2>6. CASE d + 1 < d + k
    <3>1. fired[d + 1].time <= fired[d + k].time
      BY <1>4, <2>2, <2>6
    <3>2. QED
      BY <1>3, <2>3, <2>4, <3>1
  <2>7. QED
    BY <2>2, <2>5, <2>6
<1> HIDE DEF a, t, due, d, F, L, N, big
<1>9. \A k \in 1..d : k \in 1..F /\ due[k] = fired[k] /\ fired[k].time <= t
  BY <1>3, <1>5
<1>10. Fits(due)
  <2>1. due \in Seq(Action(Caps))
    BY <1>5 DEF Action
  <2>2. ASSUME NEW n \in 1..d
        PROVE  due[n].kind # "set" /\ due[n].time \in time_range.start..t
    <3>1. TimeOf(actions, 1) \in Nat /\ TimeOf(actions, 1) >= time_range.start
      BY <1>3, <1>6
    <3>2. /\ fired[n].kind = "timer" /\ fired[n].time \in Nat
          /\ TimeOf(actions, 1) < fired[n].time /\ fired[n].time <= t
      BY <1>7, <1>9
    <3>3. due[n] = fired[n] /\ t \in Nat /\ time_range.start \in Nat
      BY <1>3, <1>6, <1>9
    <3>4. fired[n].time \in time_range.start..t
      BY <3>1, <3>2, <3>3
    <3>5. QED
      BY <3>2, <3>3, <3>4
  <2>3. ASSUME NEW m \in 1..d, NEW n \in 1..d, m < n PROVE due[m].time <= due[n].time
    BY <1>4, <1>9, <2>3
  <2>4. ASSUME index > 1, NEW n \in 1..d PROVE TimeOf(actions, index - 1) <= due[n].time
    <3>1. index - 1 \in 1..L
      BY <1>3, <2>4
    <3>2. TimeOf(actions, index - 1) \in Nat
      BY <1>6, <3>1
    <3>3. fired[n].time > TimeOf(actions, index - 1) /\ fired[n].time \in Nat
      BY <1>4, <1>7, <1>9, <2>4
    <3>4. QED
      BY <1>9, <3>2, <3>3
  <2>5. ASSUME index = 1 PROVE d = 0
    <3>1. SUFFICES ASSUME d # 0 PROVE FALSE
      OBVIOUS
    <3>2. 1 \in 1..d /\ 1 \in 1..F
      BY <1>3, <1>5, <3>1
    <3>3. fired[1].time <= t /\ t < fired[1].time /\ fired[1].time \in Nat
      BY <1>7, <1>9, <2>5, <3>2 DEF t
    <3>4. QED
      BY <1>3, <3>3
  <2>6. QED
    BY <1>5, <2>1, <2>2, <2>3, <2>4, <2>5 DEF Fits, t
<1>11. /\ (Types /\ Unused /\ Timely /\ Chain /\ Changing /\ Progress)' /\ Caps' = Caps
       /\ Inserts(big, new_actions, due, a)
  <2>1. current_time' \in Time /\ pc \in {"merge", "clock"} /\ index <= Len(actions)
    BY <1>1, <1>2 DEF Types, L
  <2>2. new_actions' = (new_actions \o AllAt(due, actions[index].pre)) \o <<actions[index]>>
    BY <1>2 DEF a, big
  <2>3. QED
    BY <1>1, <1>2, <1>5, <1>10, <2>1, <2>2, LoopStep DEF a, big
<1>12. /\ Len(big) = N + d + 1
       /\ \A n \in 1..N : big[n] = new_actions[n]
       /\ \A n \in 1..d : big[N + n].action = due[n]
       /\ big[Len(big)] = a
       /\ \A n \in 1..Len(big) :
             \/ n \in 1..N
             \/ \E m \in 1..d : n = N + m
             \/ n = Len(big)
  BY <1>5, <1>11 DEF Inserts, N
<1>13. Kinds'
  <2>1. \A n \in 1..Len(actions) : Kind(actions, n) = "set"
    BY <1>1, <1>2 DEF Kinds
  <2>2. \A n \in 1..N : Kind(new_actions, n) \in {"set", "timer"}
    BY <1>1, <1>2 DEF Kinds, N
  <2>3. \A n \in 1..Len(big) : Kind(big, n) \in {"set", "timer"}
    <3>1. TAKE n \in 1..Len(big)
    <3>2. CASE n \in 1..N
      BY <1>12, <2>2, <3>2 DEF Kind
    <3>3. CASE \E m \in 1..d : n = N + m
      BY <1>7, <1>9, <1>12, <3>3 DEF Kind
    <3>4. CASE n = Len(big)
      BY <1>3, <1>12, <3>4 DEF Kind
    <3>5. QED
      BY <1>12, <3>2, <3>3, <3>4
  <2>4. QED
    BY <1>2, <2>1, <2>3 DEF Kinds, Kind, big
<1>14. Timing' /\ Clocking'
  BY <1>2 DEF Timing, Clocking
<1>15. (Picked(new_actions, SetPlaces(new_actions)) = SubSeq(actions, 1, index - 1))'
  <2>1. \A n \in 1..Len(due) : due[n].kind # "set"
    BY <1>5, <1>7, <1>9
  <2>2. SetPlaces(big) = SetPlaces(new_actions) \cup {Len(new_actions) + Len(due) + 1}
    BY <1>3, <1>11, <2>1, PlacesInserted
  <2>3. SetPlaces(new_actions) \subseteq 1..Len(new_actions)
    BY DEF SetPlaces
  <2>4. due \in Seq(Action(Caps))
    BY <1>10 DEF Fits
  <2>5. PicksInserted(new_actions, due, a, SetPlaces(new_actions))
    BY <1>3, <2>3, <2>4, PickedInserted
  <2>6. Picked(big, SetPlaces(big)) = Append(Picked(new_actions, SetPlaces(new_actions)), a)
    BY <1>2, <2>2, <2>5, Zenon DEF PicksInserted
  <2>7. Append(SubSeq(actions, 1, index - 1), actions[index]) = SubSeq(actions, 1, index)
    BY <1>3, SubSeqGrows DEF L
  <2>8. index' - 1 = index /\ actions' = actions /\ big = new_actions'
    BY <1>2, <1>3 DEF big
  <2>9. QED
    BY <1>4, <2>6, <2>7, <2>8 DEF a
<1>16. ASSUME NEW n \in 1..Len(big), Kind(big, n) = "timer"
       PROVE  \/ n \in 1..N /\ big[n].action = new_actions[n].action /\ Kind(new_actions, n) = "timer"
              \/ \E m \in 1..d : n = N + m /\ big[n].action = fired[m] /\ m \in 1..F
  <2>1. CASE n \in 1..N
    BY <1>12, <1>16, <2>1 DEF Kind
  <2>2. CASE \E m \in 1..d : n = N + m
    BY <1>9, <1>12, <2>2
  <2>3. n # Len(big)
    BY <1>3, <1>12, <1>16 DEF Kind
  <2>4. QED
    BY <1>12, <2>1, <2>2, <2>3
<1>17. \A n \in 1..Len(big) : Kind(big, n) = "timer" => HeldMark(actions, big[n].action)
  BY <1>4, <1>16
<1>18. ASSUME NEW e, HeldMark(actions, e)
       PROVE  \/ \E j \in 1..Len(fired') : fired'[j] = e
              \/ \E n \in 1..Len(big) : big[n].action = e
  <2>1. CASE \E n \in 1..N : new_actions[n].action = e
    <3>1. PICK n \in 1..N : new_actions[n].action = e
      BY <2>1
    <3>2. n \in 1..Len(big) /\ big[n].action = e
      BY <1>3, <1>5, <1>12, <3>1
    <3>3. QED
      BY <3>2
  <2>2. CASE \E j \in 1..F : fired[j] = e
    <3>1. PICK j \in 1..F : fired[j] = e
      BY <2>2
    <3>2. CASE j <= d
      <4>1. j \in 1..d /\ N + j \in 1..Len(big)
        BY <1>3, <1>5, <1>12, <3>2
      <4>2. big[N + j].action = e
        BY <1>9, <1>12, <3>1, <4>1
      <4>3. QED
        BY <4>1, <4>2
    <3>3. CASE j > d
      <4>1. j - d \in 1..(F - d) /\ d + (j - d) = j
        BY <1>3, <1>5, <3>3
      <4>2. fired'[j - d] = e /\ j - d \in 1..Len(fired')
        BY <1>5, <3>1, <4>1
      <4>3. QED
        BY <4>2
    <3>4. QED
      BY <1>3, <1>5, <3>2, <3>3
  <2>3. QED
    BY <1>4, <1>18, <2>1, <2>2
<1>19. \A k \in 1..Len(fired') : k \in 1..(F - d) /\ d + k \in 1..F /\ fired'[k] = fired[d + k]
  BY <1>3, <1>5
<1>20. /\ \A j \in 1..Len(fired') : HeldMark(actions, fired'[j]) /\ fired'[j].time > t
       /\ \A i, j \in 1..Len(fired') :
             /\ fired'[i] = fired'[j] => i = j
             /\ i < j => fired'[i].time <= fired'[j].time
  <2>1. ASSUME NEW j \in 1..Len(fired') PROVE HeldMark(actions, fired'[j]) /\ fired'[j].time > t
    BY <1>4, <1>8, <1>19
  <2>2. ASSUME NEW i \in 1..Len(fired'), NEW j \in 1..Len(fired'), fired'[i] = fired'[j] PROVE i = j
    <3>1. d + i = d + j
      BY <1>4, <1>19, <2>2
    <3>2. QED
      BY <1>3, <1>5, <3>1
  <2>3. ASSUME NEW i \in 1..Len(fired'), NEW j \in 1..Len(fired'), i < j
        PROVE  fired'[i].time <= fired'[j].time
    <3>1. d + i < d + j
      BY <1>3, <1>5, <2>3
    <3>2. QED
      BY <1>4, <1>19, <3>1
  <2>4. QED
    BY <2>1, <2>2, <2>3
<1>21. \A n \in 1..N : \A m \in 1..F : TimeOf(new_actions, n) # fired[m].time
  <2>1. TAKE n \in 1..N
  <2>2. TAKE m \in 1..F
  <2>3. /\ index > 1 => \A k \in 1..N : TimeOf(new_actions, k) <= TimeOf(actions, index - 1)
        /\ index = 1 => N = 0
        /\ index > 1 => index - 1 \in 1..L
    <3>1. pc \in {"merge", "clock"} /\ index <= Len(actions)
      BY <1>2 DEF L
    <3>2. QED
      BY <1>1, <3>1, LastNew DEF N, L
  <2>4. index > 1
    BY <1>3, <2>3
  <2>5. /\ TimeOf(new_actions, n) <= TimeOf(actions, index - 1)
        /\ fired[m].time > TimeOf(actions, index - 1)
        /\ TimeOf(actions, index - 1) \in Nat /\ TimeOf(new_actions, n) \in Nat
        /\ fired[m].time \in Nat
    BY <1>1, <1>4, <1>6, <1>7, <2>3, <2>4, TraceTypes DEF N
  <2>6. QED
    BY <2>5
<1>22. TimersOnce(big)
  <2>1. SUFFICES ASSUME NEW i \in 1..Len(big), NEW j \in 1..Len(big),
                        Kind(big, i) = "timer", big[i].action = big[j].action
                 PROVE  i = j
    BY DEF TimersOnce
  <2>2. Kind(big, j) = "timer"
    BY <2>1 DEF Kind
  <2>3. /\ \/ i \in 1..N /\ big[i].action = new_actions[i].action /\ Kind(new_actions, i) = "timer"
           \/ \E m \in 1..d : i = N + m /\ big[i].action = fired[m] /\ m \in 1..F
        /\ \/ j \in 1..N /\ big[j].action = new_actions[j].action /\ Kind(new_actions, j) = "timer"
           \/ \E m \in 1..d : j = N + m /\ big[j].action = fired[m] /\ m \in 1..F
    BY <1>16, <2>1, <2>2
  <2>4. CASE /\ i \in 1..N /\ big[i].action = new_actions[i].action /\ Kind(new_actions, i) = "timer"
             /\ j \in 1..N /\ big[j].action = new_actions[j].action
    BY <1>4, <2>1, <2>4 DEF TimersOnce, N
  <2>5. CASE /\ i \in 1..N /\ big[i].action = new_actions[i].action
             /\ \E m \in 1..d : big[j].action = fired[m] /\ m \in 1..F
    BY <1>21, <2>1, <2>5 DEF TimeOf
  <2>6. CASE /\ j \in 1..N /\ big[j].action = new_actions[j].action
             /\ \E m \in 1..d : big[i].action = fired[m] /\ m \in 1..F
    BY <1>21, <2>1, <2>6 DEF TimeOf
  <2>7. CASE /\ \E m \in 1..d : i = N + m /\ big[i].action = fired[m] /\ m \in 1..F
             /\ \E m \in 1..d : j = N + m /\ big[j].action = fired[m] /\ m \in 1..F
    BY <1>4, <2>1, <2>7
  <2>8. QED
    BY <2>3, <2>4, <2>5, <2>6, <2>7
<1>23. Merging'
  <2>1. /\ index' - 1 = index /\ actions' = actions /\ big = new_actions'
    BY <1>2, <1>3 DEF big
  <2>2. /\ (\A j \in 1..Len(fired) : HeldMark(actions, fired[j]))'
        /\ (\A n \in 1..Len(new_actions) :
              Kind(new_actions, n) = "timer" => HeldMark(actions, new_actions[n].action))'
    BY <1>17, <1>20, <2>1
  <2>3. (\A e : HeldMark(actions, e) =>
           \/ \E j \in 1..Len(fired) : fired[j] = e
           \/ \E n \in 1..Len(new_actions) : new_actions[n].action = e)'
    BY <1>18, <2>1
  <2>4. (\A i, j \in 1..Len(fired) :
           /\ fired[i] = fired[j] => i = j
           /\ i < j => fired[i].time <= fired[j].time)'
    BY <1>20
  <2>5. (\A j \in 1..Len(fired) : index > 1 => fired[j].time > TimeOf(actions, index - 1))'
    BY <1>20, <2>1 DEF t
  <2>6. TimersOnce(new_actions)'
    BY <1>22, <2>1
  <2>7. QED
    BY <1>15, <2>2, <2>3, <2>4, <2>5, <2>6 DEF Merging
<1>24. QED
  BY <1>11, <1>13, <1>14, <1>23 DEF TraceInv
-----------------------------------------------------------------------------
(* The trace with the events of timers is the trace now.                   *)
LEMMA MergeEndsStep == ASSUME TraceInv, MergeEnds PROVE TraceInv'
<1> DEFINE L == Len(actions)
           F == Len(fired)
           N == Len(new_actions)
<1>1. Types /\ Unused /\ Kinds /\ Timely /\ Chain /\ Changing /\ Progress /\ Merging
  BY DEF TraceInv
<1>2. /\ pc = "merge" /\ index > L /\ pc' = "clock" /\ actions' = new_actions
      /\ new_actions' = <<>> /\ index' = 1 /\ fired' = <<>> /\ current_time' = time_range.start
      /\ UNCHANGED <<initial_state, time_range, logged, tup, timers>>
  BY DEF MergeEnds
<1>3. /\ index = L + 1 /\ L \in Nat /\ N \in Nat /\ F \in Nat
      /\ actions \in Seq(Entry(Caps)) /\ new_actions \in Seq(Entry(Caps))
      /\ time_range.start \in Nat /\ Caps \in SUBSET Cap
  BY <1>1, <1>2, TraceTypes DEF Types
<1>4. /\ \A j \in 1..F : HeldMark(actions, fired[j])
      /\ \A n \in 1..N : Kind(new_actions, n) = "timer" => HeldMark(actions, new_actions[n].action)
      /\ \A e : HeldMark(actions, e) =>
            \/ \E j \in 1..F : fired[j] = e
            \/ \E n \in 1..N : new_actions[n].action = e
      /\ \A j \in 1..F : index > 1 => fired[j].time > TimeOf(actions, index - 1)
      /\ TimersOnce(new_actions)
      /\ Picked(new_actions, SetPlaces(new_actions)) = SubSeq(actions, 1, index - 1)
  BY <1>1, <1>2 DEF Merging
<1>5. /\ L = 0 => new_actions = <<>>
      /\ L > 0 => N > 0 /\ new_actions[N] = actions[L]
  <2>1. index - 1 = L
    BY <1>3
  <2>2. /\ index = 1 => new_actions = <<>>
        /\ index > 1 => N > 0 /\ new_actions[N] = actions[index - 1]
    BY <1>1, <1>2 DEF Progress
  <2>3. (L = 0 => index = 1) /\ (L > 0 => index > 1)
    BY <1>3
  <2>4. QED
    BY <2>1, <2>2, <2>3
<1>6. Picked(new_actions, SetPlaces(new_actions)) = actions
  <2>1. index - 1 = L
    BY <1>3
  <2>2. SubSeq(actions, 1, L) = actions
    BY <1>3, SubSeqFull
  <2>3. QED
    BY <1>4, <2>1, <2>2
<1>7. F = 0
  <2>1. SUFFICES ASSUME F # 0 PROVE FALSE
    OBVIOUS
  <2>2. 1 \in 1..F
    BY <1>3, <2>1
  <2>3. HeldMark(actions, fired[1])
    BY <1>4, <2>2
  <2>4. /\ \A n \in 1..L : TimeOf(actions, n) \in Nat
        /\ \A j, k \in 1..L : j < k => TimeOf(actions, j) <= TimeOf(actions, k)
    BY <1>1, TraceTypes DEF Timely, InTime
  <2>5. fired[1].time \in Nat /\ L > 0 /\ fired[1].time <= TimeOf(actions, L)
    BY <1>3, <2>3, <2>4, HeldFacts
  <2>6. index > 1 /\ index - 1 = L /\ L \in 1..L
    BY <1>3, <2>5
  <2>7. fired[1].time > TimeOf(actions, L) /\ TimeOf(actions, L) \in Nat
    BY <1>4, <2>2, <2>4, <2>6
  <2>8. QED
    BY <2>5, <2>7
<1>8. Caps' = Caps
  BY <1>2 DEF Caps
<1>9. Types'
  <2>1. /\ index' \in 1..(Len(actions') + 1)
        /\ new_actions' \in Seq(Entry(Caps)) /\ fired' \in Seq(TimerAction)
        /\ current_time' \in Time
    BY <1>1, <1>2, <1>3 DEF Types
  <2>2. QED
    BY <1>1, <1>2, <1>3, <1>8, <2>1 DEF Types
<1>10. Unused'
  <2>1. actions' # <<>> => logged > 0
    <3>1. actions' # <<>> => L > 0
      BY <1>2, <1>3, <1>5
    <3>2. L > 0 => actions # <<>>
      OBVIOUS
    <3>3. QED
      BY <1>1, <3>1, <3>2 DEF Unused
  <2>2. QED
    BY <1>2, <2>1 DEF Unused
<1>11. Kinds'
  <2>1. \A n \in 1..N : Kind(new_actions, n) \in {"set", "timer"}
    BY <1>1, <1>2 DEF Kinds
  <2>2. N > 0 => Kind(new_actions, N) = "set"
    <3>1. L > 0 => L \in 1..L
      BY <1>3
    <3>2. L > 0 => Kind(actions, L) = "set"
      BY <1>1, <1>2, <3>1 DEF Kinds
    <3>3. QED
      BY <1>3, <1>5, <3>2 DEF Kind
  <2>3. QED
    BY <1>2, <2>1, <2>2 DEF Kinds, Kind
<1>12. Len(new_actions') = 0 /\ 1..Len(new_actions') = {}
  BY <1>2
<1>13. Timely'
  <2>1. InTime(new_actions)
    BY <1>1 DEF Timely
  <2>2. InTime(actions)' /\ InTime(new_actions)'
    BY <1>2, <1>12, <2>1 DEF InTime, TimeOf
  <2>3. QED
    BY <2>2 DEF Timely
<1>14. Chain'
  <2>1. Chained(new_actions, N)
    BY <1>1 DEF Chain
  <2>2. Chained(actions, Len(actions))'
    BY <1>2, <2>1 DEF Chained, Post
  <2>3. Chained(new_actions, Len(new_actions))'
    BY <1>12 DEF Chained
  <2>4. QED
    BY <1>2, <2>2, <2>3 DEF Chain
<1>15. Changing'
  <2>1. Changes(new_actions)
    BY <1>1 DEF Changing
  <2>2. Changes(actions)' /\ Changes(new_actions)'
    BY <1>2, <1>12, <2>1 DEF Changes, Kind, TimeOf
  <2>3. QED
    BY <2>2 DEF Changing
<1>16. Progress' /\ Timing' /\ Merging'
  BY <1>2 DEF Progress, Timing, Merging
<1>17. Marked(actions')
  <2>1. Marked(new_actions)
    <3>1. \A e : HeldMark(actions, e) => \E n \in 1..N : new_actions[n].action = e
      BY <1>3, <1>4, <1>7
    <3>2. QED
      BY <1>4, <1>6, <3>1 DEF Marked
  <2>2. QED
    BY <1>2, <2>1
<1>18. (Picked(new_actions, Triggers(new_actions)) = SubSeq(actions, 1, index - 1))'
  <2>1. Triggers(<<>>) = {}
    BY <1>2, <1>12 DEF Triggers
  <2>2. Picked(<<>>, Triggers(<<>>)) = <<>>
    BY <2>1, PickedNone
  <2>3. SubSeq(new_actions, 1, 0) = <<>>
    BY <1>3
  <2>4. index' - 1 = 0
    BY <1>2
  <2>5. QED
    BY <1>2, <2>2, <2>3, <2>4
<1>19. ClockIn(new_actions, current_time)'
  <2>1. \A t : t \notin time_range'.start..(current_time' - 1)
    BY <1>2, <1>3
  <2>2. QED
    BY <1>12, <2>1 DEF ClockIn
<1>20. Clocking'
  <2>1. (current_time = IF index = 1 THEN time_range.start ELSE TimeOf(actions, index - 1))'
    BY <1>2
  <2>2. Marked(actions)'
    BY <1>17
  <2>3. pc' = "clock"
    BY <1>2
  <2>4. QED
    BY <1>18, <1>19, <2>1, <2>2, <2>3 DEF Clocking
<1>21. QED
  BY <1>9, <1>10, <1>11, <1>13, <1>14, <1>15, <1>16, <1>20 DEF TraceInv
-----------------------------------------------------------------------------
(* The clock is counted.                                                   *)

(* The elements of a picked list.                                          *)
FromPlaces(p, list, o, S) ==
  /\ \A k \in 1..Len(p) : o[k] \in S /\ p[k] = list[o[k]]
  /\ \A n \in S : \E k \in 1..Len(p) : o[k] = n
  /\ \A j, k \in 1..Len(p) : j < k => o[j] < o[k]

(* The elements that are picked are those at the places, in their order.   *)
LEMMA PickedElements ==
  ASSUME NEW T, NEW list \in Seq(T), NEW S, S \subseteq 1..Len(list)
  PROVE  FromPlaces(Picked(list, S), list, Ordered(S), S)
<1> DEFINE o == Ordered(S)
           N == Cardinality(S)
           p == Picked(list, S)
<1>1. Lists(o, N, S) /\ p = Along(list, o, N) /\ Len(p) = N
  BY PickedIs
<1> HIDE DEF o, N, p
<1>2. /\ N \in Nat /\ o \in [1..N -> S]
      /\ \A n \in S : \E k \in 1..N : o[k] = n
      /\ \A j, k \in 1..N : j < k => o[j] < o[k]
  BY <1>1 DEF Lists
<1>3. \A k \in 1..N : p[k] = list[o[k]] /\ o[k] \in S
  BY <1>1, <1>2 DEF Along
<1>4. FromPlaces(p, list, o, S)
  BY <1>1, <1>2, <1>3 DEF FromPlaces
<1>5. QED
  BY <1>4 DEF o, p

(* To pick from what is picked.                                            *)
PlacesOf(list, R, S, Q) == Q = {k \in 1..Len(Picked(list, R)) : Ordered(R)[k] \in S}
PicksAgain(list, R, S, Q) == Picked(Picked(list, R), Q) = Picked(list, S)

(* Picking from what was picked is picking from the list.                  *)
LEMMA PickedPicked ==
  ASSUME NEW T, NEW list \in Seq(T), NEW R, R \subseteq 1..Len(list), NEW S, S \subseteq R,
         NEW Q, PlacesOf(list, R, S, Q)
  PROVE  PicksAgain(list, R, S, Q)
<1> DEFINE p == Picked(list, R)
           o == Ordered(R)
           N == Cardinality(R)
           q == Ordered(Q)
           M == Cardinality(Q)
           e == [k \in 1..M |-> o[q[k]]]
<1>1. /\ Lists(o, N, R) /\ p = Along(list, o, N) /\ Len(p) = N /\ p \in Seq(T)
  BY PickedIs
<1>2. Q \subseteq 1..Len(p) /\ R \subseteq Int /\ S \subseteq Int
  BY <1>1 DEF PlacesOf
<1>3. Lists(q, M, Q) /\ Picked(p, Q) = Along(p, q, M)
  <2> HIDE DEF p, q, M
  <2>1. Lists(Ordered(Q), Cardinality(Q), Q)
        /\ Picked(p, Q) = Along(p, Ordered(Q), Cardinality(Q))
    BY <1>1, <1>2, PickedIs
  <2>2. QED
    BY <2>1 DEF q, M
<1>4. /\ N \in Nat /\ o \in [1..N -> R]
      /\ \A j, k \in 1..N : j < k => o[j] < o[k]
      /\ \A n \in R : \E k \in 1..N : o[k] = n
  BY <1>1 DEF Lists
<1>5. \A k : k \in Q <=> k \in 1..N /\ o[k] \in S
  BY <1>1 DEF PlacesOf
<1> HIDE DEF p, o, N, q, M
<1>6. /\ M \in Nat /\ q \in [1..M -> Q]
      /\ \A j, k \in 1..M : j < k => q[j] < q[k]
      /\ \A n \in Q : \E k \in 1..M : q[k] = n
  BY <1>3 DEF Lists
<1>7. \A k \in 1..M : q[k] \in 1..N /\ o[q[k]] \in S /\ e[k] = o[q[k]]
  BY <1>5, <1>6
<1>8. e \in [1..M -> S]
  BY <1>7
<1> HIDE DEF e
<1>9. Lists(e, M, S)
  <2>1. \A j, k \in 1..M : j < k => e[j] < e[k]
    BY <1>4, <1>6, <1>7
  <2>2. ASSUME NEW n \in S PROVE \E k \in 1..M : e[k] = n
    <3>1. PICK k \in 1..N : o[k] = n
      BY <1>4
    <3>2. PICK j \in 1..M : q[j] = k
      BY <1>5, <1>6, <3>1
    <3>3. QED
      BY <1>7, <3>1, <3>2
  <2>3. QED
    BY <1>6, <1>8, <2>1, <2>2 DEF Lists
<1>10. Picked(list, S) = Along(list, e, M)
  BY <1>2, <1>9, PickedUnique
<1>11. \A k \in 1..M : p[q[k]] = list[e[k]]
  BY <1>1, <1>7 DEF Along
<1>12. Along(p, q, M) = Along(list, e, M)
  BY <1>11 DEF Along
<1>13. QED
  BY <1>3, <1>10, <1>12 DEF p, PicksAgain

(* The events that are no events of the clock are not in the way when sets *)
(* are picked.                                                             *)
LEMMA SetsOfTriggers ==
  ASSUME NEW T, NEW list \in Seq(T), NEW p, p = Picked(list, Triggers(list))
  PROVE  Picked(p, SetPlaces(p)) = Picked(list, SetPlaces(list))
<1> DEFINE R == Triggers(list)
           S == SetPlaces(list)
           Q == SetPlaces(p)
<1>1. R \subseteq 1..Len(list) /\ S \subseteq R
  BY DEF Triggers, SetPlaces
<1>2. \A n \in R : n \in S <=> Kind(list, n) = "set"
  BY DEF Triggers, SetPlaces
<1> HIDE DEF R, S
<1>3. p = Picked(list, R)
  BY DEF R
<1>4. \A k \in 1..Len(p) : Ordered(R)[k] \in R /\ p[k] = list[Ordered(R)[k]]
  <2>1. R \subseteq 1..Len(list) /\ list \in Seq(T)
    BY <1>1
  <2>2. FromPlaces(Picked(list, R), list, Ordered(R), R)
    BY <2>1, PickedElements
  <2>3. QED
    BY <1>3, <2>2 DEF FromPlaces
<1>5. Q = {k \in 1..Len(p) : Ordered(R)[k] \in S}
  <2>1. Q = {k \in 1..Len(p) : Kind(p, k) = "set"}
    BY DEF SetPlaces
  <2>2. \A k \in 1..Len(p) : Kind(p, k) = "set" <=> Ordered(R)[k] \in S
    BY <1>2, <1>4 DEF Kind
  <2> HIDE DEF Q
  <2>3. QED
    BY <2>1, <2>2
<1> HIDE DEF Q
<1>6. Picked(p, Q) = Picked(list, S)
  <2>1. PlacesOf(list, R, S, Q)
    BY <1>3, <1>5, Zenon DEF PlacesOf
  <2>2. PicksAgain(list, R, S, Q)
    BY <1>1, <2>1, PickedPicked
  <2>3. QED
    BY <1>3, <2>2, Zenon DEF PicksAgain
<1>7. QED
  BY <1>6 DEF Q, S

(* The events of the clock in a gap.                                       *)
Ticks(events, S) ==
  /\ events \in Seq(ClockAction) /\ Len(events) \in Nat
  /\ \A n \in 1..Len(events) : events[n].kind = "clock" /\ events[n].time \in S
  /\ \A m, n \in 1..Len(events) : m < n => events[m].time < events[n].time
  /\ \A t \in S : \E n \in 1..Len(events) : events[n].time = t

(* The clock events of a stretch of time are its counted times, in order.  *)
LEMMA ClockActionsIs ==
  ASSUME NEW start_time \in Nat, NEW end_time \in Nat
  PROVE  Ticks(ClockActions(start_time, end_time), CountClockEvents(start_time, end_time))
<1> DEFINE S == CountClockEvents(start_time, end_time)
           o == Ordered(S)
           N == Cardinality(S)
           events == ClockActions(start_time, end_time)
<1>1. S \subseteq 0..end_time
  <2>1. \A t \in S : t \in start_time..(end_time - 1)
    BY ClockEventsIn, Zenon
  <2>2. start_time..(end_time - 1) \subseteq 0..end_time
    OBVIOUS
  <2> HIDE DEF S
  <2>3. QED
    BY <2>1, <2>2
<1> HIDE DEF S
<1>2. S \subseteq Int /\ S \subseteq Nat /\ IsFiniteSet(S)
  <2>1. IsFiniteSet(0..end_time)
    BY FS_Interval
  <2>2. S \in SUBSET (0..end_time)
    BY <1>1
  <2>3. IsFiniteSet(S)
    BY <2>1, <2>2, FS_Subset
  <2>4. S \subseteq Int /\ S \subseteq Nat
    BY <1>1
  <2>5. QED
    BY <2>3, <2>4
<1>3. Lists(o, N, S)
  BY <1>2, OrderedIs
<1> HIDE DEF o, N
<1>4. /\ N \in Nat /\ o \in [1..N -> S]
      /\ \A j, k \in 1..N : j < k => o[j] < o[k]
      /\ \A n \in S : \E k \in 1..N : o[k] = n
  BY <1>3 DEF Lists
<1>5. events = [n \in 1..N |-> Clock(o[n])]
  <2>1. events = [n \in DOMAIN o |-> Clock(o[n])]
    BY DEF ClockActions, o, S
  <2>2. QED
    BY <1>4, <2>1
<1> HIDE DEF events
<1>6. \A n \in 1..N : /\ Clock(o[n]) \in ClockAction /\ Clock(o[n]).kind = "clock"
                      /\ Clock(o[n]).time = o[n] /\ o[n] \in S
  <2>1. TAKE n \in 1..N
  <2>2. o[n] \in S /\ o[n] \in Nat
    BY <1>2, <1>4
  <2>3. QED
    BY <2>2 DEF Clock, ClockAction
<1>7. events \in Seq(ClockAction) /\ Len(events) = N
  BY <1>4, <1>5, <1>6
<1>8. \A n \in 1..N : events[n].kind = "clock" /\ events[n].time = o[n] /\ o[n] \in S
  BY <1>5, <1>6
<1>9. QED
  <2>1. \A m, n \in 1..N : m < n => events[m].time < events[n].time
    BY <1>4, <1>8
  <2>2. \A t \in S : \E n \in 1..N : events[n].time = t
    BY <1>4, <1>8
  <2>3. Ticks(events, S)
    BY <1>4, <1>7, <1>8, <2>1, <2>2 DEF Ticks
  <2>4. QED
    BY <2>3 DEF S, events

(* The gap that a time is in begins with the action before it.             *)
LEMMA GapIs ==
  ASSUME Types, InTime(actions), \A n \in 1..Len(actions) : Kind(actions, n) # "clock",
         NEW i \in 1..(Len(actions) + 1), NEW c \in Nat,
         c = IF i = 1 THEN time_range.start ELSE TimeOf(actions, i - 1),
         NEW t \in Nat, c <= t, \A n \in i..Len(actions) : TimeOf(actions, n) > t
  PROVE  GapStart(t) = c
<1> DEFINE times == {actions[n].action.time :
                        n \in {m \in DOMAIN actions : actions[m].action.kind # "clock"}}
           S == {time_range.start} \cup {s \in times : s <= t}
<1>1. /\ Len(actions) \in Nat /\ DOMAIN actions = 1..Len(actions)
      /\ time_range.start \in Nat
      /\ \A n \in 1..Len(actions) : TimeOf(actions, n) \in Nat /\ TimeOf(actions, n) >= time_range.start
      /\ \A j, k \in 1..Len(actions) : j < k => TimeOf(actions, j) <= TimeOf(actions, k)
  <2>1. /\ Len(actions) \in Nat /\ time_range.start \in Nat /\ time_range.end \in Nat
        /\ \A n \in 1..Len(actions) : TimeOf(actions, n) \in Nat
    BY TraceTypes
  <2>2. DOMAIN actions = 1..Len(actions)
    BY DEF Types
  <2>3. /\ \A n \in 1..Len(actions) : TimeOf(actions, n) \in time_range.start..time_range.end
        /\ \A j, k \in 1..Len(actions) : j < k => TimeOf(actions, j) <= TimeOf(actions, k)
    BY DEF InTime
  <2>4. QED
    BY <2>1, <2>2, <2>3
<1>2. \A s : s \in times <=> \E n \in 1..Len(actions) : s = TimeOf(actions, n)
  BY <1>1 DEF TimeOf, Kind
<1>3. GapStart(t) = Max(S)
  BY DEF GapStart
<1> HIDE DEF times
<1>4. c \in S
  <2>1. CASE i = 1
    BY <2>1
  <2>2. CASE i # 1
    <3>1. i - 1 \in 1..Len(actions)
      BY <1>1, <2>2
    <3>2. c \in times
      BY <1>2, <2>2, <3>1
    <3>3. QED
      BY <3>2
  <2>3. QED
    BY <2>1, <2>2
<1>5. ASSUME NEW s \in S PROVE s \in 0..t /\ s <= c
  <2>0. time_range.start <= c
    <3>1. i # 1 => i - 1 \in 1..Len(actions)
      BY <1>1
    <3>2. QED
      BY <1>1, <3>1
  <2>1. CASE s = time_range.start
    BY <1>1, <2>0, <2>1
  <2>2. CASE s \in times /\ s <= t
    <3>1. PICK n \in 1..Len(actions) : s = TimeOf(actions, n)
      BY <1>2, <2>2
    <3>2. s \in Nat
      BY <1>1, <3>1
    <3>3. ~ (n \in i..Len(actions))
      <4>1. SUFFICES ASSUME n \in i..Len(actions) PROVE FALSE
        OBVIOUS
      <4>2. TimeOf(actions, n) > t
        BY <4>1
      <4>3. QED
        BY <2>2, <3>1, <3>2, <4>2
    <3>4. i # 1 /\ i - 1 \in 1..Len(actions) /\ (n = i - 1 \/ n < i - 1)
      BY <1>1, <3>3
    <3>5. s <= TimeOf(actions, i - 1)
      BY <1>1, <3>1, <3>2, <3>4
    <3>6. QED
      BY <2>2, <3>2, <3>4, <3>5
  <2>3. QED
    BY <2>1, <2>2
<1> HIDE DEF S
<1>6. Max(S) \in S /\ \A s \in S : Max(S) >= s
  <2>1. S \subseteq 0..t /\ S # {}
    BY <1>4, <1>5
  <2>2. QED
    BY <2>1, MaxIs
<1>7. QED
  <2>1. Max(S) \in 0..t /\ Max(S) <= c /\ Max(S) >= c
    BY <1>4, <1>5, <1>6
  <2>2. QED
    BY <1>3, <2>1
-----------------------------------------------------------------------------
(* The events of the clock before one action.                              *)
LEMMA AddClockStep == ASSUME TraceInv, AddClock PROVE TraceInv'
<1> DEFINE a == actions[index]
           t == TimeOf(actions, index)
           c == current_time
           start == time_range.start
           events == ClockActions(c, t)
           M == Len(events)
           L == Len(actions)
           N == Len(new_actions)
           big == new_actions'
<1>1. Types /\ Unused /\ Kinds /\ Timely /\ Chain /\ Changing /\ Progress /\ Clocking
  BY DEF TraceInv
<1>2. /\ pc = "clock" /\ pc' = pc /\ index <= L /\ index' = index + 1
      /\ big = (new_actions \o AllAt(events, a.pre)) \o <<a>>
      /\ current_time' = t
      /\ UNCHANGED <<initial_state, actions, time_range, logged, tup, timers, fired>>
  BY DEF AddClock, TimeOf
<1>3. /\ index \in 1..L /\ index \in Nat /\ L \in Nat /\ N \in Nat
      /\ a \in Entry(Caps) /\ Caps \in SUBSET Cap
      /\ t \in Nat /\ new_actions \in Seq(Entry(Caps)) /\ actions \in Seq(Entry(Caps))
      /\ c \in Nat /\ start \in Nat /\ time_range.end \in Nat /\ time_range.end <= MaxTime
  <2>1. index \in 1..L
    BY <1>1, <1>2 DEF Types
  <2>2. QED
    BY <1>1, <2>1, TraceTypes DEF Types
<1>4. /\ \A n \in 1..L : Kind(actions, n) \in {"set", "timer"}
      /\ Marked(actions)
      /\ Picked(new_actions, Triggers(new_actions)) = SubSeq(actions, 1, index - 1)
      /\ c = IF index = 1 THEN start ELSE TimeOf(actions, index - 1)
      /\ ClockIn(new_actions, c)
  BY <1>1, <1>2 DEF Kinds, Clocking
<1>5. /\ c <= t /\ start <= c /\ t <= time_range.end
      /\ \A n \in 1..L : TimeOf(actions, n) \in Nat /\ TimeOf(actions, n) >= start
      /\ \A j, k \in 1..L : j < k => TimeOf(actions, j) <= TimeOf(actions, k)
  <2>1. \A n \in 1..L : TimeOf(actions, n) \in start..time_range.end
    BY <1>1 DEF Timely, InTime
  <2>2. \A j, k \in 1..L : j < k => TimeOf(actions, j) <= TimeOf(actions, k)
    BY <1>1 DEF Timely, InTime
  <2>3. index # 1 => index - 1 \in 1..L /\ index - 1 < index
    BY <1>3
  <2>4. \A n \in 1..L : TimeOf(actions, n) \in Nat /\ TimeOf(actions, n) >= start
                        /\ TimeOf(actions, n) <= time_range.end
    BY <1>3, <2>1
  <2>5. CASE index = 1
    BY <1>3, <1>4, <2>2, <2>4, <2>5
  <2>6. CASE index # 1
    BY <1>3, <1>4, <2>2, <2>3, <2>4, <2>6
  <2>7. QED
    BY <2>5, <2>6
<1> HIDE DEF a, t, c, start, L, N, big
<1>6. /\ events \in Seq(ClockAction) /\ M \in Nat
      /\ \A n \in 1..M : events[n].kind = "clock" /\ events[n].time \in CountClockEvents(c, t)
      /\ \A m, n \in 1..M : m < n => events[m].time < events[n].time
      /\ \A u \in CountClockEvents(c, t) : \E n \in 1..M : events[n].time = u
  <2>1. Ticks(events, CountClockEvents(c, t))
    BY <1>3, ClockActionsIs
  <2> HIDE DEF events
  <2>2. QED
    BY <2>1 DEF Ticks
<1> HIDE DEF events, M
<1>7. \A u \in CountClockEvents(c, t) : u \in c..(t - 1) /\ u % Day \in ClockList
  <2>1. c \in Nat /\ t \in Nat
    BY <1>3
  <2>2. ASSUME NEW u \in CountClockEvents(c, t)
        PROVE  u \in c..(t - 1) /\ u % Day \in ClockList
    BY <2>1, ClockEventsIn
  <2>3. QED
    BY <2>2
<1>8. \A n \in 1..M : /\ events[n].kind = "clock" /\ events[n].time \in Nat
                      /\ c <= events[n].time /\ events[n].time < t
                      /\ events[n].time % Day \in ClockList
  <2>1. TAKE n \in 1..M
  <2>2. events[n].time \in c..(t - 1) /\ events[n].time % Day \in ClockList
    BY <1>6, <1>7
  <2>3. QED
    BY <1>3, <1>6, <2>2
<1>9. Fits(events)
  <2>1. events \in Seq(Action(Caps))
    BY <1>6 DEF Action
  <2>2. \A n \in 1..M : events[n].kind # "set" /\ events[n].time \in start..t
    BY <1>3, <1>5, <1>8
  <2>3. \A m, n \in 1..M : m < n => events[m].time <= events[n].time
    BY <1>6, <1>8
  <2>4. index > 1 => \A n \in 1..M : TimeOf(actions, index - 1) <= events[n].time
    BY <1>3, <1>4, <1>8
  <2>5. ASSUME index = 1, t = start PROVE M = 0
    <3>1. c = t
      BY <1>4, <2>5
    <3>2. ~ (1 \in 1..M)
      BY <1>3, <1>8, <3>1
    <3>3. QED
      BY <1>6, <3>2
  <2>6. QED
    BY <2>1, <2>2, <2>3, <2>4, <2>5 DEF Fits, M, t, start
<1>10. /\ (Types /\ Unused /\ Timely /\ Chain /\ Changing /\ Progress)' /\ Caps' = Caps
       /\ Inserts(big, new_actions, events, a)
  <2>1. current_time' \in Time /\ fired' \in Seq(TimerAction)
        /\ pc \in {"merge", "clock"} /\ index <= Len(actions)
    BY <1>1, <1>2, <1>3, <1>5, TimeFacts DEF Types, Time, L
  <2>2. new_actions' = (new_actions \o AllAt(events, actions[index].pre)) \o <<actions[index]>>
    BY <1>2 DEF a, big
  <2>3. QED
    BY <1>1, <1>2, <1>9, <2>1, <2>2, LoopStep DEF a, big
<1>11. /\ Len(big) = N + M + 1
       /\ \A n \in 1..N : big[n] = new_actions[n]
       /\ \A n \in 1..M : big[N + n].action = events[n]
       /\ big[Len(big)] = a
       /\ \A n \in 1..Len(big) :
             \/ n \in 1..N
             \/ \E m \in 1..M : n = N + m
             \/ n = Len(big)
  BY <1>10 DEF Inserts, N, M
<1>12. Kinds'
  <2>1. L > 0 => Kind(actions, L) = "set"
    BY <1>1, <1>2 DEF Kinds, L
  <2>2. QED
    BY <1>2, <1>4, <2>1 DEF Kinds, Kind, L
<1>13. Timing' /\ Merging'
  BY <1>2 DEF Timing, Merging
<1>14. a.action.kind # "clock"
  BY <1>3, <1>4 DEF Kind, a
<1>15. (Picked(new_actions, Triggers(new_actions)) = SubSeq(actions, 1, index - 1))'
  <2>1. \A n \in 1..Len(events) : events[n].kind = "clock"
    BY <1>8 DEF M
  <2>2. Triggers(big) = Triggers(new_actions) \cup {Len(new_actions) + Len(events) + 1}
    BY <1>10, <1>14, <2>1, PlacesInserted
  <2>3. Triggers(new_actions) \subseteq 1..Len(new_actions)
    BY DEF Triggers
  <2>4. events \in Seq(Action(Caps))
    BY <1>9 DEF Fits
  <2>5. PicksInserted(new_actions, events, a, Triggers(new_actions))
    BY <1>3, <2>3, <2>4, PickedInserted
  <2>6. Picked(big, Triggers(big)) = Append(Picked(new_actions, Triggers(new_actions)), a)
    BY <1>2, <2>2, <2>5, Zenon DEF PicksInserted
  <2>7. Append(SubSeq(actions, 1, index - 1), actions[index]) = SubSeq(actions, 1, index)
    BY <1>3, SubSeqGrows DEF L
  <2>8. index' - 1 = index /\ actions' = actions /\ big = new_actions'
    BY <1>2, <1>3 DEF big
  <2>9. QED
    BY <1>4, <2>6, <2>7, <2>8 DEF a
<1>16. /\ \A n \in 1..N : Kind(new_actions, n) = "clock" =>
             TimeOf(new_actions, n) \in start..(c - 1) /\ TimeOf(new_actions, n) % Day \in ClockList
       /\ \A i, j \in 1..N :
             /\ Kind(new_actions, i) = "clock" /\ Kind(new_actions, j) = "clock"
             /\ TimeOf(new_actions, i) = TimeOf(new_actions, j)
             => i = j
       /\ \A u \in start..(c - 1) :
             u % Day \in ClockList =>
                \/ \E n \in 1..N : Kind(new_actions, n) = "clock" /\ TimeOf(new_actions, n) = u
                \/ u % Day < GapStart(u) % Day
  BY <1>4 DEF ClockIn, N, start
<1>17. ASSUME NEW n \in 1..Len(big), Kind(big, n) = "clock"
       PROVE  \/ /\ n \in 1..N /\ TimeOf(big, n) = TimeOf(new_actions, n)
                 /\ Kind(new_actions, n) = "clock" /\ TimeOf(big, n) \in start..(c - 1)
              \/ \E m \in 1..M : n = N + m /\ TimeOf(big, n) = events[m].time
  <2>1. CASE n \in 1..N
    BY <1>11, <1>16, <1>17, <2>1 DEF Kind, TimeOf
  <2>2. CASE \E m \in 1..M : n = N + m
    BY <1>11, <2>2 DEF TimeOf
  <2>3. n # Len(big)
    BY <1>11, <1>14, <1>17 DEF Kind
  <2>4. QED
    BY <1>11, <2>1, <2>2, <2>3
<1>18. ASSUME NEW n \in 1..Len(big), Kind(big, n) = "clock"
       PROVE  TimeOf(big, n) \in start..(t - 1) /\ TimeOf(big, n) % Day \in ClockList
  <2>1. CASE /\ n \in 1..N /\ TimeOf(big, n) = TimeOf(new_actions, n)
             /\ Kind(new_actions, n) = "clock" /\ TimeOf(big, n) \in start..(c - 1)
    <3>1. TimeOf(big, n) \in start..(t - 1)
      BY <1>3, <1>5, <2>1
    <3>2. QED
      BY <1>16, <2>1, <3>1
  <2>2. CASE \E m \in 1..M : n = N + m /\ TimeOf(big, n) = events[m].time
    <3>1. PICK m \in 1..M : TimeOf(big, n) = events[m].time
      BY <2>2
    <3>2. events[m].time \in start..(t - 1)
      BY <1>3, <1>5, <1>8
    <3>3. QED
      BY <1>8, <3>1, <3>2
  <2>3. QED
    BY <1>17, <1>18, <2>1, <2>2
<1>19. ASSUME NEW i \in 1..Len(big), NEW j \in 1..Len(big),
              Kind(big, i) = "clock", Kind(big, j) = "clock", TimeOf(big, i) = TimeOf(big, j)
       PROVE  i = j
  <2>1. /\ \/ /\ i \in 1..N /\ TimeOf(big, i) = TimeOf(new_actions, i)
              /\ Kind(new_actions, i) = "clock" /\ TimeOf(big, i) \in start..(c - 1)
           \/ \E m \in 1..M : i = N + m /\ TimeOf(big, i) = events[m].time
        /\ \/ /\ j \in 1..N /\ TimeOf(big, j) = TimeOf(new_actions, j)
              /\ Kind(new_actions, j) = "clock" /\ TimeOf(big, j) \in start..(c - 1)
           \/ \E m \in 1..M : j = N + m /\ TimeOf(big, j) = events[m].time
    BY <1>17, <1>19
  <2>2. \A u \in start..(c - 1) : \A m \in 1..M : u # events[m].time
    BY <1>3, <1>8
  <2>3. CASE /\ i \in 1..N /\ TimeOf(big, i) = TimeOf(new_actions, i) /\ Kind(new_actions, i) = "clock"
             /\ j \in 1..N /\ TimeOf(big, j) = TimeOf(new_actions, j) /\ Kind(new_actions, j) = "clock"
    BY <1>16, <1>19, <2>3
  <2>4. CASE TimeOf(big, i) \in start..(c - 1) /\ \E m \in 1..M : TimeOf(big, j) = events[m].time
    BY <1>19, <2>2, <2>4
  <2>5. CASE TimeOf(big, j) \in start..(c - 1) /\ \E m \in 1..M : TimeOf(big, i) = events[m].time
    BY <1>19, <2>2, <2>5
  <2>6. CASE /\ \E m \in 1..M : i = N + m /\ TimeOf(big, i) = events[m].time
             /\ \E m \in 1..M : j = N + m /\ TimeOf(big, j) = events[m].time
    <3>1. PICK m \in 1..M : i = N + m /\ TimeOf(big, i) = events[m].time
      BY <2>6
    <3>2. PICK k \in 1..M : j = N + k /\ TimeOf(big, j) = events[k].time
      BY <2>6
    <3>3. ~ (m < k) /\ ~ (k < m)
      BY <1>6, <1>8, <1>19, <3>1, <3>2
    <3>4. QED
      BY <3>1, <3>2, <3>3
  <2>7. QED
    BY <2>1, <2>3, <2>4, <2>5, <2>6
<1>20. ASSUME NEW u \in start..(t - 1), u % Day \in ClockList
       PROVE  \/ \E n \in 1..Len(big) : Kind(big, n) = "clock" /\ TimeOf(big, n) = u
              \/ u % Day < GapStart(u) % Day
  <2>0. u \in Nat
    BY <1>3
  <2>1. CASE u < c
    <3>1. u \in start..(c - 1)
      BY <1>3, <2>0, <2>1
    <3>2. CASE \E n \in 1..N : Kind(new_actions, n) = "clock" /\ TimeOf(new_actions, n) = u
      <4>1. PICK n \in 1..N : Kind(new_actions, n) = "clock" /\ TimeOf(new_actions, n) = u
        BY <3>2
      <4>2. n \in 1..Len(big)
        BY <1>3, <1>6, <1>11
      <4>3. Kind(big, n) = "clock" /\ TimeOf(big, n) = u
        BY <1>11, <4>1 DEF Kind, TimeOf
      <4>4. QED
        BY <4>2, <4>3
    <3>3. QED
      BY <1>16, <1>20, <3>1, <3>2
  <2>2. CASE c <= u /\ u \in CountClockEvents(c, t)
    <3>1. PICK m \in 1..M : events[m].time = u
      BY <1>6, <2>2
    <3>2. N + m \in 1..Len(big) /\ big[N + m].action = events[m]
      BY <1>3, <1>6, <1>11
    <3>3. Kind(big, N + m) = "clock" /\ TimeOf(big, N + m) = u
      BY <1>8, <3>1, <3>2 DEF Kind, TimeOf
    <3>4. QED
      BY <3>2, <3>3
  <2>3. CASE c <= u /\ u \notin CountClockEvents(c, t)
    <3>1. u \in c..(t - 1) /\ t <= MaxTime
      <4>1. u < t
        BY <1>3
      <4>2. MaxTime \in Nat
        BY TimeFacts
      <4>3. QED
        BY <1>3, <1>5, <2>0, <2>3, <4>1, <4>2
    <3>2. u % Day < c % Day
      BY <1>3, <1>20, <2>3, <3>1, ClockEventsMissing
    <3>3. GapStart(u) = c
      <4>1. \A n \in 1..L : Kind(actions, n) # "clock"
        BY <1>4
      <4>2. InTime(actions)
        BY <1>1 DEF Timely
      <4>3. \A n \in index..L : TimeOf(actions, n) > u
        <5>1. TAKE n \in index..L
        <5>2. n \in 1..L /\ (n = index \/ index < n)
          BY <1>3
        <5>3. t <= TimeOf(actions, n) /\ TimeOf(actions, n) \in Nat
          BY <1>3, <1>5, <5>2 DEF t
        <5>4. u < t
          BY <1>3
        <5>5. QED
          BY <1>3, <2>0, <5>3, <5>4
      <4>4. index \in 1..(Len(actions) + 1)
        BY <1>3 DEF L
      <4>5. c = IF index = 1 THEN time_range.start ELSE TimeOf(actions, index - 1)
        BY <1>4 DEF start
      <4>6. QED
        BY <1>1, <1>3, <2>0, <2>3, <4>1, <4>2, <4>3, <4>4, <4>5, GapIs DEF L
    <3>4. QED
      BY <3>2, <3>3
  <2>4. QED
    BY <1>3, <2>0, <2>1, <2>2, <2>3
<1>21. \A u : GapStart(u)' = GapStart(u)
  BY <1>2 DEF GapStart
<1>22. ClockIn(new_actions, current_time)'
  <2>1. new_actions' = big /\ current_time' = t /\ time_range' = time_range
    BY <1>2 DEF big
  <2>2. QED
    BY <1>18, <1>19, <1>20, <1>21, <2>1 DEF ClockIn, Kind, TimeOf, start
<1>23. Clocking'
  <2>1. Marked(actions)'
    BY <1>2, <1>4
  <2>2. (current_time = IF index = 1 THEN time_range.start ELSE TimeOf(actions, index - 1))'
    <3>1. index' # 1 /\ index' - 1 = index /\ actions' = actions /\ current_time' = t
      BY <1>2, <1>3
    <3>2. QED
      BY <3>1 DEF t
  <2>3. QED
    BY <1>2, <1>15, <1>22, <2>1, <2>2 DEF Clocking
<1>24. QED
  BY <1>10, <1>12, <1>13, <1>23 DEF TraceInv
-----------------------------------------------------------------------------
(* The events of the clock after the last action.                          *)

(* What is known when all actions have been treated.                       *)
LEMMA AllTreated ==
  ASSUME TraceInv, pc = "clock", index > Len(actions)
  PROVE  /\ index = Len(actions) + 1 /\ Len(actions) \in Nat /\ Len(new_actions) \in Nat
         /\ Caps \in SUBSET Cap
         /\ actions \in Seq(Entry(Caps)) /\ new_actions \in Seq(Entry(Caps))
         /\ current_time \in Nat /\ time_range.start \in Nat /\ time_range.end \in Nat
         /\ time_range.start <= current_time /\ current_time <= time_range.end
         /\ time_range.end <= MaxTime
         /\ \A n \in 1..Len(actions) : Kind(actions, n) \in {"set", "timer"}
         /\ Picked(new_actions, Triggers(new_actions)) = actions
         /\ current_time =
               IF index = 1 THEN time_range.start ELSE TimeOf(actions, index - 1)
         /\ \A n \in 1..Len(new_actions) :
               TimeOf(new_actions, n) \in Nat /\ TimeOf(new_actions, n) <= current_time
<1> DEFINE L == Len(actions)
           N == Len(new_actions)
<1>1. Types /\ Kinds /\ Timely /\ Progress /\ Clocking
  BY DEF TraceInv
<1>2. /\ index = L + 1 /\ L \in Nat /\ N \in Nat
      /\ Caps \in SUBSET Cap
      /\ actions \in Seq(Entry(Caps)) /\ new_actions \in Seq(Entry(Caps))
      /\ current_time \in Nat /\ time_range.start \in Nat /\ time_range.end \in Nat
      /\ time_range.start <= time_range.end /\ time_range.end <= MaxTime
      /\ \A n \in 1..N : TimeOf(new_actions, n) \in Nat
  BY <1>1, TraceTypes DEF Types
<1>3. /\ \A n \in 1..L : Kind(actions, n) \in {"set", "timer"}
      /\ Picked(new_actions, Triggers(new_actions)) = SubSeq(actions, 1, index - 1)
      /\ current_time = IF index = 1 THEN time_range.start ELSE TimeOf(actions, index - 1)
  BY <1>1 DEF Kinds, Clocking
<1>4. SubSeq(actions, 1, index - 1) = actions
  <2>1. index - 1 = L
    BY <1>2
  <2>2. SubSeq(actions, 1, L) = actions
    BY <1>2, SubSeqFull
  <2>3. QED
    BY <2>1, <2>2
<1>5. /\ \A n \in 1..L : TimeOf(actions, n) \in time_range.start..time_range.end
      /\ \A j, k \in 1..N : j < k => TimeOf(new_actions, j) <= TimeOf(new_actions, k)
  BY <1>1 DEF Timely, InTime
<1>6. /\ index = 1 => N = 0
      /\ index > 1 => N > 0 /\ new_actions[N] = actions[index - 1]
  BY <1>1 DEF Progress
<1>7. time_range.start <= current_time /\ current_time <= time_range.end
  <2>1. CASE index = 1
    BY <1>2, <1>3, <2>1
  <2>2. CASE index # 1
    <3>1. index - 1 \in 1..L
      BY <1>2, <2>2
    <3>2. TimeOf(actions, index - 1) \in time_range.start..time_range.end
      BY <1>5, <3>1
    <3>3. QED
      BY <1>2, <1>3, <2>2, <3>2
  <2>3. QED
    BY <2>1, <2>2
<1>8. ASSUME NEW n \in 1..N PROVE TimeOf(new_actions, n) <= current_time
  <2>1. index > 1
    BY <1>2, <1>6
  <2>2. TimeOf(new_actions, N) = current_time /\ N \in 1..N /\ (n = N \/ n < N)
    BY <1>2, <1>3, <1>6, <2>1 DEF TimeOf
  <2>3. QED
    BY <1>2, <1>5, <2>2
<1>9. QED
  BY <1>2, <1>3, <1>4, <1>7, <1>8

(* The variable of the loop is not there, or the start of the trace.       *)
LEMMA ClockFails ==
  ASSUME TraceInv, pc = "clock", index > Len(actions), pc' = "failed", index' = 1,
         UNCHANGED <<actions, new_actions, initial_state, time_range, logged, tup, timers, fired,
                     current_time>>
  PROVE  TraceInv'
<1>1. Types /\ Unused /\ Timely /\ Chain /\ Changing
  BY DEF TraceInv
<1>2. Len(actions) \in Nat /\ \A n \in 1..Len(actions) : Kind(actions, n) \in {"set", "timer"}
  BY AllTreated
<1>3. Caps' = Caps
  BY DEF Caps
<1>4. Types'
  BY <1>1, <1>2, <1>3 DEF Types
<1>5. Unused' /\ Kinds'
  BY <1>1 DEF Unused, Kinds
<1>6. Timely'
  BY <1>1 DEF Timely, InTime, TimeOf
<1>7. Changing'
  BY <1>1 DEF Changing, Changes, Kind, TimeOf
<1>8. Chain'
  <2>1. Chained(actions, Len(actions)) /\ Chained(new_actions, Len(new_actions))
    BY <1>1 DEF Chain
  <2>2. Chained(actions, Len(actions))' /\ Chained(new_actions, Len(new_actions))'
    BY <2>1 DEF Chained, Post
  <2>3. QED
    BY <2>2 DEF Chain
<1>9. Progress' /\ Timing' /\ Merging'
  BY DEF Progress, Timing, Merging
<1>10. Clocking'
  BY <1>2 DEF Clocking, Kind
<1>11. QED
  BY <1>4, <1>5, <1>6, <1>7, <1>8, <1>9, <1>10 DEF TraceInv

(* Events of the clock at the end leave the others alone.                  *)
LEMMA ExtendedPlaces ==
  ASSUME NEW big, NEW list, NEW events, NEW pre, Extends(big, list, events, pre),
         \A n \in 1..Len(events) : events[n].kind = "clock"
  PROVE  /\ Triggers(big) = Triggers(list)
         /\ \A n \in 1..Len(big) : Kind(big, n) = "set" => n <= Len(list)
<1>1. /\ \A n \in 1..Len(list) : Kind(big, n) = Kind(list, n) /\ n \in 1..Len(big)
      /\ \A n \in 1..Len(events) : Kind(big, Len(list) + n) = "clock"
      /\ \A n \in 1..Len(big) :
            n \in 1..Len(list) \/ \E m \in 1..Len(events) : n = Len(list) + m
      /\ Len(list) \in Nat
  <2>1. /\ Len(list) \in Nat /\ Len(events) \in Nat /\ Len(big) = Len(list) + Len(events)
        /\ \A n \in 1..Len(big) :
              n \in 1..Len(list) \/ \E m \in 1..Len(events) : n = Len(list) + m
    BY DEF Extends
  <2>2. \A n \in 1..Len(list) : Kind(big, n) = Kind(list, n)
    BY DEF Extends, Kind
  <2>3. \A n \in 1..Len(events) : Kind(big, Len(list) + n) = "clock"
    BY DEF Extends, Kind
  <2>4. \A n \in 1..Len(list) : n \in 1..Len(big)
    BY <2>1
  <2>5. QED
    BY <2>1, <2>2, <2>3, <2>4
<1>2. \A n \in 1..Len(big) : Kind(big, n) # "clock" <=> n \in 1..Len(list) /\ Kind(list, n) # "clock"
  BY <1>1
<1>3. Triggers(big) = Triggers(list)
  BY <1>1, <1>2 DEF Triggers
<1>4. \A n \in 1..Len(big) : Kind(big, n) = "set" => n <= Len(list)
  BY <1>1
<1>5. QED
  BY <1>3, <1>4

(* What is marked stays so, when events of the clock are put in.           *)
LEMMA MarkedStays ==
  ASSUME NEW T, NEW big \in Seq(T), NEW list, Picked(big, Triggers(big)) = list,
         Marked(list)
  PROVE  Marked(big)
<1> DEFINE R == Triggers(big)
           o == Ordered(R)
<1>1. R \subseteq 1..Len(big) /\ \A n \in 1..Len(big) : Kind(big, n) = "timer" => n \in R
  BY DEF Triggers
<1> HIDE DEF R
<1>2. /\ \A k \in 1..Len(list) : o[k] \in R /\ list[k] = big[o[k]]
      /\ \A n \in R : \E k \in 1..Len(list) : o[k] = n
  <2>1. list = Picked(big, R)
    BY DEF R
  <2>2. FromPlaces(Picked(big, R), big, o, R)
    BY <1>1, PickedElements
  <2> HIDE DEF o
  <2>3. QED
    BY <2>1, <2>2 DEF FromPlaces
<1>3. Picked(list, SetPlaces(list)) = Picked(big, SetPlaces(big))
  BY SetsOfTriggers
<1> HIDE DEF o
<1>4. \A n \in 1..Len(big) : Kind(big, n) = "timer" =>
         \E k \in 1..Len(list) : o[k] = n /\ list[k] = big[n] /\ Kind(list, k) = "timer"
  BY <1>1, <1>2 DEF Kind
<1>5. /\ \A n \in 1..Len(list) :
            Kind(list, n) = "timer" => HeldMark(Picked(list, SetPlaces(list)), list[n].action)
      /\ \A e : HeldMark(Picked(list, SetPlaces(list)), e) =>
            \E n \in 1..Len(list) : list[n].action = e
      /\ \A i, j \in 1..Len(list) :
            Kind(list, i) = "timer" /\ list[i].action = list[j].action => i = j
  BY DEF Marked, TimersOnce
<1>6. ASSUME NEW n \in 1..Len(big), Kind(big, n) = "timer"
      PROVE  HeldMark(Picked(big, SetPlaces(big)), big[n].action)
  <2>1. PICK k \in 1..Len(list) : list[k] = big[n] /\ Kind(list, k) = "timer"
    BY <1>4, <1>6
  <2>2. HeldMark(Picked(list, SetPlaces(list)), list[k].action)
    BY <1>5, <2>1
  <2>3. QED
    BY <1>3, <2>1, <2>2
<1>7. ASSUME NEW e, HeldMark(Picked(big, SetPlaces(big)), e)
      PROVE  \E n \in 1..Len(big) : big[n].action = e
  <2>1. PICK k \in 1..Len(list) : list[k].action = e
    BY <1>3, <1>5, <1>7
  <2>2. o[k] \in 1..Len(big) /\ big[o[k]].action = e
    BY <1>1, <1>2, <2>1
  <2>3. QED
    BY <2>2
<1>8. ASSUME NEW i \in 1..Len(big), NEW j \in 1..Len(big), Kind(big, i) = "timer",
             big[i].action = big[j].action
      PROVE  i = j
  <2>1. Kind(big, j) = "timer"
    BY <1>8 DEF Kind
  <2>2. PICK k \in 1..Len(list) : o[k] = i /\ list[k] = big[i] /\ Kind(list, k) = "timer"
    BY <1>4, <1>8
  <2>3. PICK l \in 1..Len(list) : o[l] = j /\ list[l] = big[j] /\ Kind(list, l) = "timer"
    BY <1>4, <2>1
  <2>4. k = l
    BY <1>5, <1>8, <2>2, <2>3
  <2>5. QED
    BY <2>2, <2>3, <2>4
<1>9. QED
  BY <1>6, <1>7, <1>8 DEF Marked, TimersOnce

(* The trace goes up to the last change of a value.                        *)
LEMMA LastSetIs ==
  ASSUME NEW T, NEW list \in Seq(T)
  PROVE  /\ LastSet(list) \in 0..Len(list)
         /\ \A n \in 1..Len(list) : Kind(list, n) = "set" => n <= LastSet(list)
         /\ LastSet(list) > 0 => Kind(list, LastSet(list)) = "set"
<1> DEFINE S == {0} \cup {n \in DOMAIN list : IsSet(list[n])}
<1>1. Len(list) \in Nat /\ DOMAIN list = 1..Len(list)
  OBVIOUS
<1>2. \A n : n \in S <=> n = 0 \/ (n \in 1..Len(list) /\ Kind(list, n) = "set")
  BY <1>1 DEF IsSet, Kind
<1>3. LastSet(list) = Max(S)
  BY DEF LastSet
<1> HIDE DEF S
<1>4. S \subseteq 0..Len(list) /\ S # {}
  BY <1>1, <1>2
<1>5. Max(S) \in S /\ \A n \in S : Max(S) >= n
  BY <1>1, <1>4, MaxIs
<1>6. Max(S) \in 0..Len(list) /\ \A n \in 1..Len(list) : Kind(list, n) = "set" => n <= Max(S)
  BY <1>1, <1>2, <1>4, <1>5
<1>7. Max(S) > 0 => Kind(list, Max(S)) = "set"
  BY <1>2, <1>5
<1>8. QED
  BY <1>3, <1>6, <1>7
-----------------------------------------------------------------------------
(* The times of the actions are those of the events that are not of the    *)
(* clock, and so a gap begins where it did.                                *)
LEMMA GapStays ==
  ASSUME NEW T, actions \in Seq(T), actions' \in Seq(T), time_range' = time_range,
         \A n \in 1..Len(actions) : Kind(actions, n) # "clock",
         Picked(actions', Triggers(actions')) = actions
  PROVE  \A u : GapStart(u)' = GapStart(u)
<1> DEFINE big == actions'
           R == Triggers(big)
           o == Ordered(R)
           times == {actions[n].action.time :
                        n \in {m \in DOMAIN actions : actions[m].action.kind # "clock"}}
           after == {big[n].action.time :
                        n \in {m \in DOMAIN big : big[m].action.kind # "clock"}}
<1>1. DOMAIN actions = 1..Len(actions) /\ DOMAIN big = 1..Len(big)
  OBVIOUS
<1>2. R \subseteq 1..Len(big) /\ \A n \in 1..Len(big) : Kind(big, n) # "clock" <=> n \in R
  BY DEF Triggers
<1>3. \A s : s \in times <=> \E n \in 1..Len(actions) : s = TimeOf(actions, n)
  BY <1>1 DEF TimeOf, Kind
<1>4. \A s : s \in after <=> \E n \in R : s = TimeOf(big, n)
  BY <1>1, <1>2 DEF TimeOf, Kind
<1> HIDE DEF R
<1>5. /\ \A k \in 1..Len(actions) : o[k] \in R /\ actions[k] = big[o[k]]
      /\ \A n \in R : \E k \in 1..Len(actions) : o[k] = n
  <2>1. actions = Picked(big, R)
    BY DEF R
  <2>2. big \in Seq(T)
    OBVIOUS
  <2> HIDE DEF big
  <2>3. FromPlaces(Picked(big, R), big, o, R)
    BY <1>2, <2>2, PickedElements
  <2> HIDE DEF o
  <2>4. QED
    BY <2>1, <2>3 DEF FromPlaces
<1> HIDE DEF o, times, after, big
<1>6. \A k \in 1..Len(actions) : TimeOf(actions, k) = TimeOf(big, o[k])
  BY <1>5 DEF TimeOf
<1>7. after = times
  <2>1. ASSUME NEW s \in after PROVE s \in times
    <3>1. PICK n \in R : s = TimeOf(big, n)
      BY <1>4
    <3>2. PICK k \in 1..Len(actions) : o[k] = n
      BY <1>5
    <3>3. QED
      BY <1>3, <1>6, <3>1, <3>2
  <2>2. ASSUME NEW s \in times PROVE s \in after
    <3>1. PICK k \in 1..Len(actions) : s = TimeOf(actions, k)
      BY <1>3
    <3>2. QED
      BY <1>4, <1>5, <1>6, <3>1
  <2>3. QED
    BY <2>1, <2>2
<1>8. ASSUME NEW u PROVE GapStart(u)' = GapStart(u)
  <2>1. GapStart(u) = Max({time_range.start} \cup {s \in times : s <= u})
    BY DEF GapStart, times
  <2>2. GapStart(u)' = Max({time_range'.start} \cup {s \in after : s <= u})
    BY DEF GapStart, after, big
  <2>3. QED
    BY <1>7, <2>1, <2>2
<1>9. QED
  BY <1>8

(* The events of the clock are in the trace.                               *)
LEMMA ClockEnds ==
  ASSUME TraceInv, pc = "clock", index > Len(actions), pc' = "done", new_actions' = <<>>,
         index' = 1, logged # 0, NEW events,
         events = ClockActions(current_time, time_range.end),
         NEW pre \in State(Caps), actions' = new_actions \o AllAt(events, pre),
         UNCHANGED <<initial_state, time_range, logged, tup, timers, fired, current_time>>
  PROVE  TraceInv' /\ Picked(actions', SetPlaces(actions')) = Picked(actions, SetPlaces(actions))
<1> DEFINE big == actions'
           L == Len(actions)
           N == Len(new_actions)
           M == Len(events)
           c == current_time
           start == time_range.start
           end == time_range.end
<1>1. Types /\ Unused /\ Kinds /\ Timely /\ Chain /\ Changing /\ Progress /\ Clocking
  BY DEF TraceInv
<1>2. /\ index = L + 1 /\ L \in Nat /\ N \in Nat
      /\ Caps \in SUBSET Cap
      /\ actions \in Seq(Entry(Caps)) /\ new_actions \in Seq(Entry(Caps))
      /\ c \in Nat /\ start \in Nat /\ end \in Nat
      /\ start <= c /\ c <= end /\ end <= MaxTime
      /\ \A n \in 1..L : Kind(actions, n) \in {"set", "timer"}
      /\ Picked(new_actions, Triggers(new_actions)) = actions
      /\ c = IF index = 1 THEN start ELSE TimeOf(actions, index - 1)
      /\ \A n \in 1..N : TimeOf(new_actions, n) \in Nat /\ TimeOf(new_actions, n) <= c
  BY AllTreated
<1>3. Marked(actions) /\ ClockIn(new_actions, c)
  BY <1>1 DEF Clocking
<1> HIDE DEF L, N, M, c, start, end
<1>4. /\ events \in Seq(ClockAction) /\ M \in Nat
      /\ \A n \in 1..M : events[n].kind = "clock" /\ events[n].time \in CountClockEvents(c, end)
      /\ \A m, n \in 1..M : m < n => events[m].time < events[n].time
      /\ \A u \in CountClockEvents(c, end) : \E n \in 1..M : events[n].time = u
  <2>1. Ticks(events, CountClockEvents(c, end))
    <3>1. Ticks(ClockActions(c, end), CountClockEvents(c, end))
      BY <1>2, ClockActionsIs
    <3>2. events = ClockActions(c, end)
      BY DEF c, end
    <3>3. QED
      BY <3>1, <3>2
  <2>2. QED
    BY <2>1 DEF Ticks, M
<1>5. \A n \in 1..M : /\ events[n].kind = "clock" /\ events[n].time \in Nat
                      /\ c <= events[n].time /\ events[n].time < end
                      /\ events[n].time % Day \in ClockList
  <2>1. ASSUME NEW u \in CountClockEvents(c, end)
        PROVE  u \in c..(end - 1) /\ u % Day \in ClockList
    BY <1>2, ClockEventsIn
  <2>2. TAKE n \in 1..M
  <2>3. events[n].time \in c..(end - 1) /\ events[n].time % Day \in ClockList
    BY <1>4, <2>1
  <2>4. c \in Nat /\ end \in Nat /\ events[n].kind = "clock"
    BY <1>2, <1>4
  <2>5. QED
    BY <2>3, <2>4
<1>6. events \in Seq(Action(Caps))
  BY <1>4 DEF Action
<1>7. Extends(big, new_actions, events, pre) /\ big \in Seq(Entry(Caps))
  <2> DEFINE caps == Caps
  <2>1. /\ caps \in SUBSET Cap /\ new_actions \in Seq(Entry(caps))
        /\ events \in Seq(Action(caps)) /\ pre \in State(caps)
    BY <1>2, <1>6
  <2> HIDE DEF caps
  <2>2. /\ Extends(new_actions \o AllAt(events, pre), new_actions, events, pre)
        /\ new_actions \o AllAt(events, pre) \in Seq(Entry(caps))
    BY <2>1, Extended
  <2>3. QED
    BY <2>2 DEF caps
<1>8. /\ Len(big) = N + M
      /\ \A n \in 1..N : big[n] = new_actions[n] /\ n \in 1..Len(big)
      /\ \A n \in 1..M : big[N + n].action = events[n] /\ N + n \in 1..Len(big)
      /\ \A n \in 1..Len(big) : n \in 1..N \/ \E m \in 1..M : n = N + m
  <2>1. /\ Len(big) = N + M
        /\ \A n \in 1..N : big[n] = new_actions[n]
        /\ \A n \in 1..M : big[N + n].action = events[n]
        /\ \A n \in 1..Len(big) : n \in 1..N \/ \E m \in 1..M : n = N + m
    BY <1>7 DEF Extends, N, M
  <2>2. N \in Nat /\ M \in Nat
    BY <1>2, <1>4
  <2> HIDE DEF big
  <2>3. \A n \in 1..N : n \in 1..Len(big)
    BY <2>1, <2>2
  <2>4. \A n \in 1..M : N + n \in 1..Len(big)
    BY <2>1, <2>2
  <2>5. QED
    BY <2>1, <2>3, <2>4
<1>9. /\ Triggers(big) = Triggers(new_actions)
      /\ \A n \in 1..Len(big) : Kind(big, n) = "set" => n <= N
  <2>1. \A n \in 1..Len(events) : events[n].kind = "clock"
    BY <1>5 DEF M
  <2> HIDE DEF big
  <2>2. QED
    BY <1>7, <2>1, ExtendedPlaces DEF N
<1>10. Picked(big, Triggers(big)) = actions
  <2> DEFINE E == Entry(Caps)
             more == AllAt(events, pre)
             R == Triggers(new_actions)
  <2>1. more \in Seq(E) /\ new_actions \in Seq(E)
    BY <1>2, <1>6, AllAtIs
  <2>2. R \subseteq 1..Len(new_actions)
    BY DEF Triggers
  <2> HIDE DEF E, more, R
  <2>3. PicksNoMore(new_actions, more, R)
    BY <2>1, <2>2, PickedPadded
  <2>4. Picked(new_actions \o more, R) = actions
    BY <1>2, <2>3, Zenon DEF PicksNoMore, R
  <2>5. big = new_actions \o more
    BY DEF more
  <2>6. QED
    BY <1>9, <2>4, <2>5, Zenon DEF R
<1>11. Picked(big, SetPlaces(big)) = Picked(actions, SetPlaces(actions))
  <2>1. actions = Picked(big, Triggers(big)) /\ big \in Seq(Entry(Caps))
    BY <1>7, <1>10
  <2> HIDE DEF big
  <2>2. QED
    BY <2>1, SetsOfTriggers
<1>12. Marked(big)
  <2>1. big \in Seq(Entry(Caps))
    BY <1>7
  <2> HIDE DEF big
  <2>2. QED
    BY <1>3, <1>10, <2>1, MarkedStays
<1>13. Caps' = Caps
  BY DEF Caps
<1>14. Types'
  <2>1. index' \in 1..(Len(actions') + 1) /\ new_actions' \in Seq(Entry(Caps))
    BY <1>2, <1>4, <1>8
  <2>2. QED
    BY <1>1, <1>7, <1>13, <2>1 DEF Types
<1>15. Unused' /\ Kinds'
  <2>1. logged > 0
    <3>1. logged \in 0..MaxEvents /\ MaxEvents \in Nat
      BY <1>1, TraceAssumption DEF Types
    <3>2. QED
      BY <3>1
  <2>2. QED
    BY <2>1 DEF Unused, Kinds
<1>16. Len(new_actions') = 0 /\ 1..Len(new_actions') = {}
  OBVIOUS
<1>17. InTime(big)
  <2>1. /\ \A n \in 1..N : TimeOf(new_actions, n) \in start..end
        /\ \A j, k \in 1..N : j < k => TimeOf(new_actions, j) <= TimeOf(new_actions, k)
    BY <1>1 DEF Timely, InTime, N, start, end
  <2>2. /\ \A n \in 1..N : TimeOf(big, n) = TimeOf(new_actions, n)
        /\ \A n \in 1..M : TimeOf(big, N + n) = events[n].time
    BY <1>8 DEF TimeOf
  <2>3. ASSUME NEW n \in 1..Len(big) PROVE TimeOf(big, n) \in start..end
    <3>1. CASE n \in 1..N
      BY <2>1, <2>2, <3>1
    <3>2. CASE \E m \in 1..M : n = N + m
      <4>1. PICK m \in 1..M : n = N + m
        BY <3>2
      <4>2. /\ TimeOf(big, n) \in Nat /\ c <= TimeOf(big, n) /\ TimeOf(big, n) < end
            /\ c \in Nat /\ start \in Nat /\ end \in Nat /\ start <= c
        BY <1>2, <1>5, <2>2, <4>1
      <4>3. QED
        BY <4>2
    <3>3. QED
      BY <1>8, <3>1, <3>2
  <2>4. ASSUME NEW j \in 1..Len(big), NEW k \in 1..Len(big), j < k
        PROVE  TimeOf(big, j) <= TimeOf(big, k)
    <3>1. CASE k \in 1..N
      <4>1. j \in 1..N
        BY <1>2, <2>4, <3>1
      <4>2. QED
        BY <2>1, <2>2, <2>4, <3>1, <4>1
    <3>2. CASE j \in 1..N /\ \E m \in 1..M : k = N + m
      <4>1. PICK m \in 1..M : k = N + m
        BY <3>2
      <4>2. TimeOf(big, j) \in Nat /\ TimeOf(big, j) <= c
        BY <1>2, <2>2, <3>2
      <4>3. TimeOf(big, k) \in Nat /\ c <= TimeOf(big, k)
        BY <1>5, <2>2, <4>1
      <4>4. QED
        BY <1>2, <4>2, <4>3
    <3>3. CASE (\E i \in 1..M : j = N + i) /\ \E m \in 1..M : k = N + m
      <4>1. PICK i \in 1..M : j = N + i
        BY <3>3
      <4>2. PICK m \in 1..M : k = N + m
        BY <3>3
      <4>3. i < m
        BY <1>2, <2>4, <4>1, <4>2
      <4>4. events[i].time < events[m].time /\ events[i].time \in Nat /\ events[m].time \in Nat
        BY <1>4, <1>5, <4>3
      <4>5. QED
        BY <2>2, <4>1, <4>2, <4>4
    <3>4. QED
      BY <1>8, <3>1, <3>2, <3>3
  <2>5. QED
    BY <2>3, <2>4 DEF InTime, start, end
<1>18. Timely'
  <2>1. InTime(actions)' /\ InTime(new_actions)'
    BY <1>16, <1>17 DEF InTime
  <2>2. QED
    BY <2>1 DEF Timely
<1>19. Changing'
  <2>1. Changes(big)
    <3>1. Changes(new_actions)
      BY <1>1 DEF Changing
    <3>2. SUFFICES ASSUME NEW n \in 1..Len(big), Kind(big, n) = "set",
                          big[n].pre[big[n].action.cap] = big[n].action.value
                   PROVE  n = 1 /\ TimeOf(big, n) = time_range.start
      BY DEF Changes
    <3>3. n \in 1..N
      BY <1>2, <1>9, <3>2
    <3>4. big[n] = new_actions[n]
      BY <1>8, <3>3
    <3>5. QED
      BY <3>1, <3>2, <3>3, <3>4 DEF Changes, Kind, TimeOf, N
  <2>2. Changes(actions)' /\ Changes(new_actions)'
    BY <1>16, <2>1 DEF Changes
  <2>3. QED
    BY <2>2 DEF Changing
<1>20. Chain'
  <2>1. Chained(big, LastSet(big))
    <3>1. LastSet(big) \in 0..Len(big) /\ (LastSet(big) > 0 => Kind(big, LastSet(big)) = "set")
      <4>1. big \in Seq(Entry(Caps))
        BY <1>7
      <4> HIDE DEF big
      <4>2. QED
        BY <4>1, LastSetIs
    <3>2. LastSet(big) <= N
      <4>1. CASE LastSet(big) = 0
        BY <1>2, <4>1
      <4>2. CASE LastSet(big) > 0
        <5>1. LastSet(big) \in 1..Len(big)
          BY <1>2, <1>4, <1>8, <3>1, <4>2
        <5>2. QED
          BY <1>9, <3>1, <4>2, <5>1
      <4>3. QED
        BY <1>2, <1>4, <1>8, <3>1, <4>1, <4>2
    <3>3. \A n \in 1..N : new_actions[n].pre = Post(new_actions, n - 1)
      BY <1>1 DEF Chain, Chained, N
    <3>4. ASSUME NEW n \in 1..LastSet(big) PROVE big[n].pre = Post(big, n - 1)
      <4>1. n \in 1..N /\ (n = 1 \/ n - 1 \in 1..N)
        BY <1>2, <1>4, <1>8, <3>1, <3>2
      <4>2. big[n].pre = Post(new_actions, n - 1)
        BY <1>8, <3>3, <4>1
      <4>3. CASE n = 1
        BY <4>2, <4>3 DEF Post
      <4>4. CASE n - 1 \in 1..N
        <5>0. N \in Nat /\ \A m \in 1..N : big[m] = new_actions[m]
          BY <1>2, <1>8
        <5>1. big[n - 1] = new_actions[n - 1]
          BY <4>4, <5>0
        <5>2. n - 1 # 0
          BY <4>4, <5>0
        <5>3. QED
          BY <4>2, <5>1, <5>2 DEF Post
      <4>5. QED
        BY <4>1, <4>3, <4>4
    <3>5. QED
      BY <3>4 DEF Chained
  <2>2. Chained(actions, LastSet(actions))'
    BY <2>1 DEF Chained, Post
  <2>3. Chained(new_actions, Len(new_actions))'
    BY <1>16 DEF Chained
  <2>4. QED
    BY <2>2, <2>3 DEF Chain
<1>21. Progress' /\ Timing' /\ Merging'
  BY DEF Progress, Timing, Merging
<1>22. /\ \A n \in 1..N : Kind(new_actions, n) = "clock" =>
             TimeOf(new_actions, n) \in start..(c - 1) /\ TimeOf(new_actions, n) % Day \in ClockList
       /\ \A i, j \in 1..N :
             /\ Kind(new_actions, i) = "clock" /\ Kind(new_actions, j) = "clock"
             /\ TimeOf(new_actions, i) = TimeOf(new_actions, j)
             => i = j
       /\ \A u \in start..(c - 1) :
             u % Day \in ClockList =>
                \/ \E n \in 1..N : Kind(new_actions, n) = "clock" /\ TimeOf(new_actions, n) = u
                \/ u % Day < GapStart(u) % Day
  BY <1>3 DEF ClockIn, N, start
<1>23. ASSUME NEW n \in 1..Len(big), Kind(big, n) = "clock"
       PROVE  \/ /\ n \in 1..N /\ TimeOf(big, n) = TimeOf(new_actions, n)
                 /\ Kind(new_actions, n) = "clock" /\ TimeOf(big, n) \in start..(c - 1)
              \/ \E m \in 1..M : n = N + m /\ TimeOf(big, n) = events[m].time
  <2>1. CASE n \in 1..N
    BY <1>8, <1>22, <1>23, <2>1 DEF Kind, TimeOf
  <2>2. CASE \E m \in 1..M : n = N + m
    BY <1>8, <2>2 DEF TimeOf
  <2>3. QED
    BY <1>8, <2>1, <2>2
<1>24. ASSUME NEW n \in 1..Len(big), Kind(big, n) = "clock"
       PROVE  TimeOf(big, n) \in start..(end - 1) /\ TimeOf(big, n) % Day \in ClockList
  <2>1. CASE /\ n \in 1..N /\ TimeOf(big, n) = TimeOf(new_actions, n)
             /\ Kind(new_actions, n) = "clock" /\ TimeOf(big, n) \in start..(c - 1)
    <3>1. TimeOf(big, n) \in start..(end - 1)
      BY <1>2, <2>1
    <3>2. QED
      BY <1>22, <2>1, <3>1
  <2>2. CASE \E m \in 1..M : n = N + m /\ TimeOf(big, n) = events[m].time
    <3>1. PICK m \in 1..M : TimeOf(big, n) = events[m].time
      BY <2>2
    <3>2. events[m].time \in start..(end - 1)
      <4>1. /\ start \in Nat /\ c \in Nat /\ end \in Nat /\ start <= c
            /\ events[m].time \in c..(end - 1)
        BY <1>2, <1>5
      <4>2. QED
        BY <4>1
    <3>3. QED
      BY <1>5, <3>1, <3>2
  <2>3. QED
    BY <1>23, <1>24, <2>1, <2>2
<1>25. ASSUME NEW i \in 1..Len(big), NEW j \in 1..Len(big),
              Kind(big, i) = "clock", Kind(big, j) = "clock", TimeOf(big, i) = TimeOf(big, j)
       PROVE  i = j
  <2>1. /\ \/ /\ i \in 1..N /\ TimeOf(big, i) = TimeOf(new_actions, i)
              /\ Kind(new_actions, i) = "clock" /\ TimeOf(big, i) \in start..(c - 1)
           \/ \E m \in 1..M : i = N + m /\ TimeOf(big, i) = events[m].time
        /\ \/ /\ j \in 1..N /\ TimeOf(big, j) = TimeOf(new_actions, j)
              /\ Kind(new_actions, j) = "clock" /\ TimeOf(big, j) \in start..(c - 1)
           \/ \E m \in 1..M : j = N + m /\ TimeOf(big, j) = events[m].time
    BY <1>23, <1>25
  <2>2. \A u \in start..(c - 1) : \A m \in 1..M : u # events[m].time
    BY <1>2, <1>5
  <2>3. CASE /\ i \in 1..N /\ TimeOf(big, i) = TimeOf(new_actions, i) /\ Kind(new_actions, i) = "clock"
             /\ j \in 1..N /\ TimeOf(big, j) = TimeOf(new_actions, j) /\ Kind(new_actions, j) = "clock"
    BY <1>22, <1>25, <2>3
  <2>4. CASE TimeOf(big, i) \in start..(c - 1) /\ \E m \in 1..M : TimeOf(big, j) = events[m].time
    BY <1>25, <2>2, <2>4
  <2>5. CASE TimeOf(big, j) \in start..(c - 1) /\ \E m \in 1..M : TimeOf(big, i) = events[m].time
    BY <1>25, <2>2, <2>5
  <2>6. CASE /\ \E m \in 1..M : i = N + m /\ TimeOf(big, i) = events[m].time
             /\ \E m \in 1..M : j = N + m /\ TimeOf(big, j) = events[m].time
    <3>1. PICK m \in 1..M : i = N + m /\ TimeOf(big, i) = events[m].time
      BY <2>6
    <3>2. PICK k \in 1..M : j = N + k /\ TimeOf(big, j) = events[k].time
      BY <2>6
    <3>3. ~ (m < k) /\ ~ (k < m)
      BY <1>4, <1>5, <1>25, <3>1, <3>2
    <3>4. QED
      BY <3>1, <3>2, <3>3
  <2>7. QED
    BY <2>1, <2>3, <2>4, <2>5, <2>6
<1>26. ASSUME NEW u \in start..(end - 1), u % Day \in ClockList
       PROVE  \/ \E n \in 1..Len(big) : Kind(big, n) = "clock" /\ TimeOf(big, n) = u
              \/ u % Day < GapStart(u) % Day
  <2>0. u \in Nat /\ u < end
    BY <1>2
  <2>1. CASE u < c
    <3>1. u \in start..(c - 1)
      BY <1>2, <2>0, <2>1
    <3>2. CASE \E n \in 1..N : Kind(new_actions, n) = "clock" /\ TimeOf(new_actions, n) = u
      <4>1. PICK n \in 1..N : Kind(new_actions, n) = "clock" /\ TimeOf(new_actions, n) = u
        BY <3>2
      <4>2. n \in 1..Len(big) /\ Kind(big, n) = "clock" /\ TimeOf(big, n) = u
        BY <1>8, <4>1 DEF Kind, TimeOf
      <4>3. QED
        BY <4>2
    <3>3. QED
      BY <1>22, <1>26, <3>1, <3>2
  <2>2. CASE c <= u /\ u \in CountClockEvents(c, end)
    <3>1. PICK m \in 1..M : events[m].time = u
      BY <1>4, <2>2
    <3>2. N + m \in 1..Len(big) /\ Kind(big, N + m) = "clock" /\ TimeOf(big, N + m) = u
      BY <1>5, <1>8, <3>1 DEF Kind, TimeOf
    <3>3. QED
      BY <3>2
  <2>3. CASE c <= u /\ u \notin CountClockEvents(c, end)
    <3>1. u \in c..(end - 1)
      BY <1>2, <2>0, <2>3
    <3>2. u % Day < c % Day
      BY <1>2, <1>26, <2>3, <3>1, ClockEventsMissing
    <3>3. GapStart(u) = c
      <4>1. \A n \in 1..L : Kind(actions, n) # "clock"
        BY <1>2
      <4>2. InTime(actions)
        BY <1>1 DEF Timely
      <4>3. \A n \in index..L : TimeOf(actions, n) > u
        BY <1>2
      <4>4. index \in 1..(Len(actions) + 1)
        BY <1>2 DEF L
      <4>5. c = IF index = 1 THEN time_range.start ELSE TimeOf(actions, index - 1)
        BY <1>2 DEF start
      <4>6. QED
        BY <1>1, <1>2, <2>0, <2>3, <4>1, <4>2, <4>3, <4>4, <4>5, GapIs DEF L
    <3>4. QED
      BY <3>2, <3>3
  <2>4. QED
    BY <1>2, <2>0, <2>1, <2>2, <2>3
<1>27. \A u : GapStart(u)' = GapStart(u)
  <2>1. \A n \in 1..Len(actions) : Kind(actions, n) # "clock"
    BY <1>2 DEF L
  <2>2. actions \in Seq(Entry(Caps)) /\ actions' \in Seq(Entry(Caps))
    BY <1>2, <1>7
  <2>3. Picked(actions', Triggers(actions')) = actions /\ time_range' = time_range
    BY <1>10
  <2>4. QED
    BY <2>1, <2>2, <2>3, GapStays
<1>28. ClockIn(actions, time_range.end)'
  BY <1>24, <1>25, <1>26, <1>27 DEF ClockIn, start, end
<1>29. Clocking'
  <2>1. Marked(actions)'
    BY <1>12
  <2>2. QED
    BY <1>28, <2>1 DEF Clocking
<1>30. QED
  BY <1>11, <1>14, <1>15, <1>18, <1>19, <1>20, <1>21, <1>29 DEF TraceInv
-----------------------------------------------------------------------------
(* The last step of the trace.                                             *)
SetsKept == Picked(actions', SetPlaces(actions')) = Picked(actions, SetPlaces(actions))

(* The events of the clock after the last action end the trace.            *)
LEMMA AddLastClockStep ==
  ASSUME TraceInv, AddLastClock
  PROVE  TraceInv' /\ SetsKept
<1> DEFINE events == ClockActions(current_time, time_range.end)
           pre == IF actions = <<>> THEN initial_state ELSE Last(actions).pre
<1>1. /\ pc = "clock" /\ index > Len(actions) /\ index' = 1
      /\ UNCHANGED <<initial_state, time_range, logged, tup, timers, fired, current_time>>
      /\ IF logged = 0 \/ (actions = <<>> /\ events # <<>>)
         THEN pc' = "failed" /\ UNCHANGED <<actions, new_actions>>
         ELSE /\ pc' = "done" /\ new_actions' = <<>>
              /\ actions' = IF events = <<>> THEN new_actions
                            ELSE new_actions \o AllAt(events, Last(actions).pre)
  BY DEF AddLastClock
<1>2. CASE logged = 0 \/ (actions = <<>> /\ events # <<>>)
  <2>1. pc' = "failed" /\ UNCHANGED <<actions, new_actions>>
    BY <1>1, <1>2
  <2> HIDE DEF events
  <2>2. TraceInv'
    BY <1>1, <2>1, ClockFails
  <2>3. SetsKept
    BY <2>1 DEF SetsKept
  <2>4. QED
    BY <2>2, <2>3
<1>3. CASE ~ (logged = 0 \/ (actions = <<>> /\ events # <<>>))
  <2>1. /\ pc' = "done" /\ new_actions' = <<>> /\ logged # 0
        /\ actions' = IF events = <<>> THEN new_actions
                      ELSE new_actions \o AllAt(events, Last(actions).pre)
        /\ events # <<>> => actions # <<>>
    BY <1>1, <1>3
  <2>2. initial_state \in State(Caps) /\ actions \in Seq(Entry(Caps)) /\ new_actions \in Seq(Entry(Caps))
    BY DEF TraceInv, Types
  <2>3. pre \in State(Caps)
    <3>1. CASE actions = <<>>
      BY <2>2, <3>1
    <3>2. CASE actions # <<>>
      <4>1. Len(actions) \in 1..Len(actions) /\ Last(actions) = actions[Len(actions)]
        BY <2>2, <3>2 DEF Last
      <4>2. Last(actions) \in Entry(Caps)
        BY <2>2, <4>1
      <4>3. Last(actions).pre \in State(Caps)
        BY <4>2 DEF Entry
      <4>4. QED
        BY <3>2, <4>3
    <3>3. QED
      BY <3>1, <3>2
  <2>4. actions' = new_actions \o AllAt(events, pre)
    <3>1. CASE events = <<>>
      <4>1. AllAt(events, pre) = <<>>
        BY <3>1 DEF AllAt
      <4>2. new_actions \o <<>> = new_actions
        BY <2>2
      <4>3. actions' = new_actions
        BY <2>1, <3>1
      <4> HIDE DEF events, pre
      <4>4. QED
        BY <4>1, <4>2, <4>3
    <3>2. CASE events # <<>>
      BY <2>1, <3>2
    <3>3. QED
      BY <3>1, <3>2
  <2> DEFINE ticks == events
             state == pre
  <2>5. ticks = ClockActions(current_time, time_range.end) /\ state \in State(Caps)
        /\ actions' = new_actions \o AllAt(ticks, state)
    BY <2>3, <2>4
  <2> HIDE DEF events, pre, ticks, state
  <2>6. TraceInv' /\ Picked(actions', SetPlaces(actions')) = Picked(actions, SetPlaces(actions))
    BY <1>1, <2>1, <2>5, ClockEnds
  <2>7. QED
    BY <2>6 DEF SetsKept
<1>4. QED
  BY <1>2, <1>3

(* Steps that do not change the trace.                                     *)
LEMMA TraceStays ==
  ASSUME TraceInv, UNCHANGED vars
  PROVE  TraceInv'
<1>1. Caps' = Caps /\ \A u : GapStart(u)' = GapStart(u)
  BY DEF Caps, GapStart, vars
<1>2. Types' /\ Unused' /\ Kinds' /\ Timely' /\ Changing' /\ Progress'
  <2>1. Types'
    BY <1>1 DEF TraceInv, Types, vars
  <2>2. Unused'
    BY <1>1 DEF TraceInv, Unused, vars
  <2>3. Kinds'
    BY DEF TraceInv, Kinds, Kind, vars
  <2>4. Timely'
    BY DEF TraceInv, Timely, InTime, TimeOf, vars
  <2>5. Changing'
    BY DEF TraceInv, Changing, Changes, Kind, TimeOf, vars
  <2>6. Progress'
    BY DEF TraceInv, Progress, vars
  <2>7. QED
    BY <2>1, <2>2, <2>3, <2>4, <2>5, <2>6
<1>3. Chain'
  BY DEF TraceInv, Chain, Chained, Post, LastSet, vars
<1>4. Timing'
  BY DEF TraceInv, Timing, Counted, vars
<1>5. Merging'
  BY DEF TraceInv, Merging, vars
<1>6. Clocking'
  BY <1>1 DEF TraceInv, Clocking, ClockIn, vars
<1>7. QED
  BY <1>2, <1>3, <1>4, <1>5, <1>6 DEF TraceInv

(* Each step of the trace keeps its invariant.                             *)
LEMMA TraceNext ==
  ASSUME TraceInv, [Next]_vars
  PROVE  TraceInv'
<1>1. ASSUME NEW time \in 0..MaxTime, NEW cap \in Cap, NEW value \in Value,
             AddAction(time, cap, value)
      PROVE  TraceInv'
  BY <1>1, AddActionStep
<1>2. CASE TruncNone
  BY <1>2, TruncNoneStep
<1>3. ASSUME NEW caps \in SUBSET Cap \ {{}}, SubTrace(caps)
      PROVE  TraceInv'
  BY <1>3, SubTraceStep
<1>4. CASE TimeAction
  BY <1>4, TimeActionStep
<1>5. CASE NextTup
  BY <1>5, NextTupStep
<1>6. CASE SortFired
  BY <1>6, SortFiredStep
<1>7. CASE Merge
  BY <1>7, MergeStep
<1>8. CASE MergeEnds
  BY <1>8, MergeEndsStep
<1>9. CASE AddClock
  BY <1>9, AddClockStep
<1>10. CASE AddLastClock
  BY <1>10, AddLastClockStep
<1>11. CASE UNCHANGED vars
  BY <1>11, TraceStays
<1>12. QED
  BY <1>1, <1>2, <1>3, <1>4, <1>5, <1>6, <1>7, <1>8, <1>9, <1>10, <1>11 DEF Next
-----------------------------------------------------------------------------
(* The properties of the trace.                                            *)
LEMMA TraceIsTyped == ASSUME TraceInv PROVE TypeOK
<1>1. Types
  BY DEF TraceInv
<1>2. /\ Caps \in SUBSET Cap /\ initial_state \in State(Caps)
      /\ Len(actions) \in Nat /\ Len(new_actions) \in Nat /\ Len(timers) \in Nat
      /\ DOMAIN actions = 1..Len(actions) /\ DOMAIN new_actions = 1..Len(new_actions)
      /\ \A n \in 1..Len(actions) : actions[n] \in Entry(Caps)
      /\ \A n \in 1..Len(new_actions) : new_actions[n] \in Entry(Caps)
  BY <1>1, TraceTypes DEF Types
<1>3. /\ \A n \in DOMAIN actions : actions[n].pre \in State(Caps)
      /\ \A n \in DOMAIN new_actions : new_actions[n].pre \in State(Caps)
  BY <1>2 DEF Entry
<1>4. \E caps \in SUBSET Cap :
         LET S == [caps -> Value \cup {None}]
         IN  /\ initial_state \in S
             /\ \A n \in DOMAIN actions : actions[n].pre \in S
             /\ \A n \in DOMAIN new_actions : new_actions[n].pre \in S
  BY <1>2, <1>3 DEF State
<1>5. time_range.start \in 0..time_range.end /\ time_range.end \in 0..MaxTime
      /\ current_time \in 0..MaxTime
  BY <1>1, TimeFacts DEF Types, Time
<1>6. pc \in {"log", "sub", "timing", "merge", "clock", "done", "failed"}
      /\ logged \in 0..MaxEvents /\ index \in 1..(Len(actions) + 1)
      /\ tup \in 1..(Len(TimingTup) + 1) /\ Len(timers) \in 0..1
  BY <1>1 DEF Types
<1>7. QED
  BY <1>4, <1>5, <1>6 DEF TypeOK

(* The events that are no timer or clock are picked by their places.       *)
LEMMA SetsIs == ASSUME NEW T, NEW list \in Seq(T) PROVE Sets(list) = Picked(list, SetPlaces(list))
<1>1. DOMAIN list = 1..Len(list)
  OBVIOUS
<1>2. {n \in DOMAIN list : IsSet(list[n])} = SetPlaces(list)
  BY <1>1 DEF SetPlaces, IsSet, Kind
<1>3. QED
  BY <1>2, Zenon DEF Sets

(* The states of the trace can be replayed.                                *)
LEMMA TraceChains == ASSUME TraceInv PROVE PreConditionsChain
<1>1. actions \in Seq(Entry(Caps)) /\ Len(actions) \in Nat
  BY DEF TraceInv, Types
<1>2. LastSet(actions) \in 0..Len(actions)
  BY <1>1, LastSetIs
<1>3. \A n \in 1..LastSet(actions) : actions[n].pre = Post(actions, n - 1)
  <2>1. CASE pc = "done"
    BY <2>1 DEF TraceInv, Chain, Chained
  <2>2. CASE pc # "done"
    BY <1>1, <1>2, <2>2 DEF TraceInv, Chain, Chained
  <2>3. QED
    BY <2>1, <2>2
<1>4. SUFFICES ASSUME NEW n \in 1..LastSet(actions)
               PROVE  actions[n].pre = IF n = 1 THEN initial_state
                                       ELSE Effect(actions[n - 1].pre, actions[n - 1].action)
  BY DEF PreConditionsChain
<1>5. n \in Nat /\ (n - 1 = 0 <=> n = 1)
  BY <1>1, <1>2
<1>6. QED
  BY <1>3, <1>5 DEF Post

(* The trace is in the order of time.                                      *)
LEMMA TraceInOrder == ASSUME TraceInv PROVE InOrder
<1>1. Len(actions) \in Nat /\ InTime(actions)
  BY DEF TraceInv, Types, Timely
<1>2. SUFFICES ASSUME NEW n \in 2..Len(actions)
               PROVE  actions[n - 1].action.time <= actions[n].action.time
  BY DEF InOrder
<1>3. n \in 1..Len(actions) /\ n - 1 \in 1..Len(actions) /\ n - 1 < n
  BY <1>1
<1>4. TimeOf(actions, n - 1) <= TimeOf(actions, n)
  BY <1>1, <1>3 DEF InTime
<1>5. QED
  BY <1>4 DEF TimeOf

(* Sets of the same size.                                                  *)
LEMMA OneToOne ==
  ASSUME NEW S, NEW T, IsFiniteSet(S), NEW f \in [S -> T],
         \A x, y \in S : f[x] = f[y] => x = y,
         \A t \in T : \E x \in S : f[x] = t
  PROVE  Cardinality(T) = Cardinality(S)
<1>1. f \in Bijection(S, T)
  BY DEF Bijection, Injection, Surjection, IsInjective
<1>2. ExistsBijection(S, T)
  BY <1>1 DEF ExistsBijection
<1>3. QED
  BY <1>2, FS_Bijection

(* The timers that have fired are those that a value was kept for.         *)
LEMMA HeldIs ==
  ASSUME NEW T, NEW S \in Seq(T), S = Sets(actions), NEW e
  PROVE  e \in Held <=> HeldMark(S, e)
<1> DEFINE HeldBy(cap, span) ==
              {Timer(S[n].action.time + span, cap, S[n].action.value, span) :
                 n \in {m \in DOMAIN S : S[m].action.cap = cap /\ KeptFor(S, m, span)}}
<1>1. DOMAIN TimingTup = 1..Len(TimingTup) /\ DOMAIN S = 1..Len(S) /\ Len(S) \in Nat
  BY TraceAssumption
<1>2. Held = UNION {HeldBy(TimingTup[k][1], TimingTup[k][2]) : k \in DOMAIN TimingTup}
  BY DEF Held
<1>3. ASSUME NEW k \in 1..Len(TimingTup), NEW n \in 1..Len(S)
      PROVE  /\ Ended(S, Len(S), k, n) <=>
                   S[n].action.cap = TimingTup[k][1] /\ KeptFor(S, n, TimingTup[k][2])
             /\ Mark(S, k, n) = Timer(S[n].action.time + TimingTup[k][2], TimingTup[k][1],
                                      S[n].action.value, TimingTup[k][2])
  <2>1. Last(S) = S[Len(S)]
    BY DEF Last
  <2>2. Mark(S, k, n) = Timer(S[n].action.time + TimingTup[k][2], TimingTup[k][1],
                              S[n].action.value, TimingTup[k][2])
    BY DEF Mark, TimeOf
  <2>3. \A m \in (n + 1)..Len(S) :
           S[m].action.cap = S[n].action.cap => S[m].action.cap = S[n].action.cap
    OBVIOUS
  <2>4. Ended(S, Len(S), k, n) <=>
           S[n].action.cap = TimingTup[k][1] /\ KeptFor(S, n, TimingTup[k][2])
    BY <2>1 DEF Ended, KeptFor, DueAt, TimeOf
  <2>5. QED
    BY <2>2, <2>4
<1>4. \A k \in 1..Len(TimingTup) : e \in HeldBy(TimingTup[k][1], TimingTup[k][2]) <=>
         \E n \in 1..Len(S) : Ended(S, Len(S), k, n) /\ e = Mark(S, k, n)
  BY <1>1, <1>3
<1> HIDE DEF HeldBy
<1>5. e \in Held <=>
         \E k \in 1..Len(TimingTup) : e \in HeldBy(TimingTup[k][1], TimingTup[k][2])
  BY <1>1, <1>2
<1>6. HeldMark(S, e) <=> \E k \in 1..Len(TimingTup) : \E n \in 1..Len(S) :
         Ended(S, Len(S), k, n) /\ e = Mark(S, k, n)
  BY DEF HeldMark
<1>7. QED
  BY <1>4, <1>5, <1>6

(* The timers that fired are those that were held long enough, each once.  *)
LEMMA TimersTrue == ASSUME TraceInv PROVE TimersFireWhenHeld
<1>1. actions \in Seq(Entry(Caps)) /\ Len(actions) \in Nat /\ DOMAIN actions = 1..Len(actions)
  BY DEF TraceInv, Types
<1>2. SUFFICES ASSUME pc \in {"clock", "done"}
               PROVE  /\ {actions[n].action : n \in Fired} = Held
                      /\ Cardinality(Fired) = Cardinality(Held)
  BY DEF TimersFireWhenHeld
<1> DEFINE S == Picked(actions, SetPlaces(actions))
<1>3. /\ \A n \in 1..Len(actions) : Kind(actions, n) = "timer" => HeldMark(S, actions[n].action)
      /\ \A e : HeldMark(S, e) => \E n \in 1..Len(actions) : actions[n].action = e
      /\ \A i, j \in 1..Len(actions) :
            Kind(actions, i) = "timer" /\ actions[i].action = actions[j].action => i = j
  BY <1>2 DEF TraceInv, Clocking, Marked, TimersOnce
<1>4. S \in Seq(Entry(Caps)) /\ S = Sets(actions)
  <2>1. S = Sets(actions)
    BY <1>1, SetsIs
  <2>2. SetPlaces(actions) \subseteq 1..Len(actions)
    BY DEF SetPlaces
  <2>3. S \in Seq(Entry(Caps))
    BY <1>1, <2>2, PickedIs
  <2>4. QED
    BY <2>1, <2>3
<1> HIDE DEF S
<1>5. \A e : e \in Held <=> HeldMark(S, e)
  <2>1. ASSUME NEW e PROVE e \in Held <=> HeldMark(S, e)
    BY <1>4, HeldIs
  <2>2. QED
    BY <2>1
<1>6. \A e : HeldMark(S, e) => e.kind = "timer"
  BY DEF HeldMark, Mark, Timer
<1>7. \A n : n \in Fired <=> n \in 1..Len(actions) /\ Kind(actions, n) = "timer"
  BY <1>1 DEF Fired, Kind
<1>8. \A e \in Held : \E n \in Fired : actions[n].action = e
  BY <1>3, <1>5, <1>6, <1>7 DEF Kind
<1>9. \A n \in Fired : actions[n].action \in Held
  BY <1>3, <1>5, <1>7
<1>10. {actions[n].action : n \in Fired} = Held
  BY <1>8, <1>9
<1>11. Cardinality(Held) = Cardinality(Fired)
  <2> DEFINE f == [n \in Fired |-> actions[n].action]
  <2>1. IsFiniteSet(Fired)
    <3>1. IsFiniteSet(1..Len(actions)) /\ Fired \in SUBSET (1..Len(actions))
      BY <1>1, <1>7, FS_Interval
    <3>2. QED
      BY <3>1, FS_Subset
  <2>2. f \in [Fired -> Held]
    BY <1>9
  <2>3. \A x, y \in Fired : f[x] = f[y] => x = y
    BY <1>3, <1>7
  <2>4. \A e \in Held : \E x \in Fired : f[x] = e
    BY <1>8
  <2> HIDE DEF f
  <2>5. QED
    BY <2>1, <2>2, <2>3, <2>4, OneToOne
<1>12. QED
  BY <1>10, <1>11
-----------------------------------------------------------------------------
(* The clock.                                                              *)
LEMMA ClockTrue == ASSUME TraceInv PROVE ClockEventsTrue
<1> DEFINE P == {m \in DOMAIN actions : actions[m].action.kind = "clock"}
<1>1. Len(actions) \in Nat /\ DOMAIN actions = 1..Len(actions)
  BY DEF TraceInv, Types
<1>2. \A n : n \in P <=> n \in 1..Len(actions) /\ Kind(actions, n) = "clock"
  BY <1>1 DEF Kind
<1>3. ClockTimes = {TimeOf(actions, n) : n \in P}
  BY DEF ClockTimes, TimeOf
<1> HIDE DEF P
<1>4. pc # "done" => P = {}
  <2>1. pc # "done" => \A n \in 1..Len(actions) : Kind(actions, n) \in {"set", "timer"}
    BY DEF TraceInv, Types, Kinds, Clocking
  <2>2. QED
    BY <1>2, <2>1
<1>5. ClockIn(actions, time_range.end) \/ P = {}
  BY <1>4 DEF TraceInv, Clocking
<1>6. \A t \in ClockTimes : t % Day \in ClockList /\ t \in time_range.start..(time_range.end - 1)
  BY <1>2, <1>3, <1>5 DEF ClockIn
<1>7. \A i, j \in P : TimeOf(actions, i) = TimeOf(actions, j) => i = j
  BY <1>2, <1>5 DEF ClockIn
<1>8. Cardinality(ClockTimes) = Cardinality(P)
  <2> DEFINE f == [n \in P |-> TimeOf(actions, n)]
  <2>1. IsFiniteSet(P)
    <3>1. IsFiniteSet(1..Len(actions)) /\ P \in SUBSET (1..Len(actions))
      BY <1>1, <1>2, FS_Interval
    <3>2. QED
      BY <3>1, FS_Subset
  <2>2. f \in [P -> ClockTimes]
    BY <1>3
  <2>3. \A x, y \in P : f[x] = f[y] => x = y
    BY <1>7
  <2>4. \A t \in ClockTimes : \E x \in P : f[x] = t
    BY <1>3
  <2> HIDE DEF f
  <2>5. QED
    BY <2>1, <2>2, <2>3, <2>4, OneToOne
<1>9. ASSUME pc = "done",
             NEW t \in {t \in time_range.start..(time_range.end - 1) : t % Day \in ClockList}
                         \ ClockTimes
      PROVE  t % Day < GapStart(t) % Day
  <2>1. ClockIn(actions, time_range.end)
    BY <1>9 DEF TraceInv, Clocking
  <2>2. ~ \E n \in 1..Len(actions) : Kind(actions, n) = "clock" /\ TimeOf(actions, n) = t
    BY <1>2, <1>3, <1>9
  <2>3. QED
    BY <2>1, <2>2 DEF ClockIn
<1>10. QED
  BY <1>6, <1>8, <1>9 DEF ClockEventsTrue, P

(* Together: a trace that is done has what EnhancedTrue asks for.          *)
LEMMA TraceTrue == ASSUME TraceInv PROVE EnhancedTrue
  BY TraceChains, TraceInOrder, TimersTrue, ClockTrue DEF EnhancedTrue

(* What is put in leaves the events alone.                                 *)
LEMMA SetsStay ==
  ASSUME TraceInv, TraceInv', [Next]_vars, pc = "merge" \/ pc = "clock"
  PROVE  Sets(actions') = Sets(actions)
<1>1. actions \in Seq(Entry(Caps)) /\ actions' \in Seq(Entry(Caps)')
  BY DEF TraceInv, Types
<1>2. Sets(actions) = Picked(actions, SetPlaces(actions))
  BY <1>1, SetsIs
<1>3. Sets(actions') = Picked(actions', SetPlaces(actions'))
  <2> DEFINE list == actions'
             T == Entry(Caps)'
  <2>1. list \in Seq(T)
    BY <1>1
  <2> HIDE DEF list, T
  <2>2. Sets(list) = Picked(list, SetPlaces(list))
    BY <2>1, SetsIs
  <2>3. QED
    BY <2>2 DEF list
<1>4. CASE UNCHANGED actions
  BY <1>4
<1>5. CASE MergeEnds
  <2>1. /\ pc = "merge" /\ index > Len(actions) /\ actions' = new_actions
        /\ index \in 1..(Len(actions) + 1) /\ Len(actions) \in Nat
    BY <1>1, <1>5 DEF MergeEnds, TraceInv, Types
  <2>2. index - 1 = Len(actions)
    BY <2>1
  <2>3. Picked(new_actions, SetPlaces(new_actions)) = SubSeq(actions, 1, index - 1)
    BY <2>1 DEF TraceInv, Merging
  <2>4. SubSeq(actions, 1, Len(actions)) = actions
    BY <1>1, SubSeqFull
  <2>5. Picked(new_actions, SetPlaces(new_actions)) = actions
    BY <2>2, <2>3, <2>4
  <2>6. SetPlaces(actions) = 1..Len(actions)
    BY <2>1 DEF TraceInv, Kinds, SetPlaces
  <2>7. Picked(actions, 1..Len(actions)) = actions
    BY <1>1, PickedAll
  <2>8. QED
    BY <1>2, <1>3, <2>1, <2>5, <2>6, <2>7
<1>6. CASE AddLastClock
  BY <1>2, <1>3, <1>6, AddLastClockStep DEF SetsKept
<1>7. QED
  BY <1>4, <1>5, <1>6
  DEF Next, AddAction, TruncNone, SubTrace, TimeAction, NextTup, SortFired, Merge, AddClock, vars
-----------------------------------------------------------------------------
(* The ranges of the clips.                                                *)
LEMMA OfRange == ASSUME NEW T, NEW list \in Seq(T) PROVE list \in Seq(Range(list))
<1>1. Len(list) \in Nat /\ DOMAIN list = 1..Len(list)
      /\ list = [n \in 1..Len(list) |-> list[n]]
  OBVIOUS
<1>2. \A n \in 1..Len(list) : list[n] \in Range(list)
  BY <1>1 DEF Range
<1> DEFINE R == Range(list)
<1>3. list \in [1..Len(list) -> R]
  BY <1>1, <1>2
<1> HIDE DEF R
<1>4. list \in Seq(R)
  BY <1>1, <1>3
<1>5. QED
  BY <1>4 DEF R

(* At first there is no clip.                                              *)
LEMMA ClipInitInv == ClipInit => ClipInv
<1> SUFFICES ASSUME ClipInit PROVE ClipInv
  OBVIOUS
<1>1. /\ view = "trace" /\ time_list = <<>> /\ n_seen = 0 /\ held = <<>>
      /\ time_clips = <<>> /\ episodes = <<>>
  BY DEF ClipInit
<1>2. /\ Len(time_list) = 0 /\ Len(held) = 0 /\ Len(time_clips) = 0 /\ Len(episodes) = 0
      /\ DOMAIN episodes = {} /\ 1..0 = {}
      /\ time_list \in Seq(Time) /\ held \in Seq([start : Int, current : Time])
      /\ time_clips \in Seq([start : Int, end : Int]) /\ episodes \in Seq(Range(episodes))
  BY <1>1
<1>3. ClipTypes
  BY <1>1, <1>2 DEF ClipTypes
<1>4. Finding /\ Found
  BY <1>1 DEF Finding, Found
<1>5. EpisodesTrue
  BY <1>2 DEF EpisodesTrue, ClipKeepsEvents, ClipStateTrue
<1>6. QED
  BY <1>3, <1>4, <1>5 DEF ClipInv

(* The trace is made before the clips are.                                 *)
LEMMA ClipTraceStep ==
  ASSUME ClipInv, view = "trace", UNCHANGED clip_vars
  PROVE  ClipInv'
<1>1. /\ view' = "trace" /\ episodes' = <<>> /\ time_clips' = <<>>
      /\ UNCHANGED <<view, time_list, n_seen, held, time_clips, episodes>>
  BY DEF ClipInv, ClipTypes, clip_vars
<1>2. ClipTypes'
  BY <1>1 DEF ClipInv, ClipTypes
<1>3. Finding' /\ Found'
  BY <1>1 DEF Finding, Found
<1>4. DOMAIN episodes' = {} /\ Len(episodes') = 0 /\ Len(time_clips') = 0
  BY <1>1
<1>5. EpisodesTrue'
  BY <1>4 DEF EpisodesTrue, ClipKeepsEvents, ClipStateTrue
<1>6. QED
  BY <1>2, <1>3, <1>5 DEF ClipInv

(* The episodes stay as they are.                                          *)
LEMMA EpisodesStay ==
  ASSUME EpisodesTrue, UNCHANGED vars, UNCHANGED episodes,
         Len(time_clips) \in Nat, Len(time_clips') \in Nat, Len(time_clips) <= Len(time_clips')
  PROVE  EpisodesTrue'
<1>1. ClipKeepsEvents'
  BY DEF EpisodesTrue, ClipKeepsEvents, vars
<1>2. \A time : TrueState(time)' = TrueState(time)
  BY DEF TrueState, vars
<1>3. \A time : OnlyClocksFrom(time)' <=> OnlyClocksFrom(time)
  BY DEF OnlyClocksFrom, vars
<1>4. ClipStateTrue'
  BY <1>2, <1>3 DEF EpisodesTrue, ClipStateTrue
<1>5. Len(episodes') \in 0..Len(time_clips')
  BY DEF EpisodesTrue
<1>6. QED
  BY <1>1, <1>4, <1>5 DEF EpisodesTrue

(* The types of the ranges.                                                *)
LEMMA ClipFacts ==
  ASSUME ClipTypes
  PROVE  /\ Len(time_list) \in Nat /\ Len(held) \in Nat /\ Len(time_clips) \in Nat
         /\ \A k \in 1..Len(time_list) : time_list[k] \in Nat
         /\ \A k \in 1..Len(time_clips) : time_clips[k].start \in Int /\ time_clips[k].end \in Int
         /\ Len(held) = 1 => held[1].start \in Int /\ held[1].current \in Nat
                             /\ Head(held) = held[1]
         /\ held = <<>> <=> Len(held) = 0
         /\ Len(held) \in 0..1 /\ n_seen \in 0..Len(time_list) /\ Span \in Nat /\ Span > 0
<1>1. /\ time_list \in Seq(Time) /\ time_clips \in Seq([start : Int, end : Int])
      /\ held \in Seq([start : Int, current : Time])
  BY DEF ClipTypes
<1>2. Len(time_list) \in Nat /\ Len(held) \in Nat /\ Len(time_clips) \in Nat
  BY <1>1, LenProperties
<1> DEFINE R == [start : Int, end : Int]
           H == [start : Int, current : Time]
<1>3. /\ \A r \in R : r.start \in Int /\ r.end \in Int
      /\ \A h \in H : h.start \in Int /\ h.current \in Time
  OBVIOUS
<1>4. time_clips \in Seq(R) /\ held \in Seq(H)
  BY <1>1
<1> HIDE DEF R, H
<1>5. \A k \in 1..Len(time_list) : time_list[k] \in Time
  BY <1>1
<1>6. \A k \in 1..Len(time_clips) : time_clips[k] \in R
  BY <1>4
<1>7. \A k \in 1..Len(held) : held[k] \in H
  BY <1>4
<1>8. Len(held) = 1 => held[1] \in H /\ Head(held) = held[1]
  BY <1>4, <1>7
<1>9. held = <<>> <=> Len(held) = 0
  BY <1>1
<1>10. Len(held) \in 0..1 /\ n_seen \in 0..Len(time_list)
  BY DEF ClipTypes
<1>11. Span \in Nat /\ Span > 0
  BY SpanAssumption
<1>12. QED
  BY <1>3, <1>2, <1>5, <1>6, <1>8, <1>9, <1>10, <1>11, TimeFacts

(* find_time_clips begins with the times of the new actions.               *)
LEMMA FindTimeClipsStep == ASSUME TraceInv, ClipInv, FindTimeClips PROVE ClipInv'
<1>1. /\ view = "trace" /\ pc = "done" /\ view' = "find"
      /\ UNCHANGED <<vars, n_seen, held, time_clips, episodes>>
  BY DEF FindTimeClips
<1>2. PICK times \in SUBSET Times : time_list' = Ordered(times)
  BY DEF FindTimeClips
<1>3. /\ n_seen = 0 /\ held = <<>> /\ time_clips = <<>> /\ episodes = <<>>
  BY <1>1 DEF ClipInv, ClipTypes
<1>4. actions \in Seq(Entry(Caps)) /\ Len(actions) \in Nat /\ DOMAIN actions = 1..Len(actions)
      /\ time_range.start \in Time /\ time_range.end \in Time
      /\ \A n \in 1..Len(actions) : TimeOf(actions, n) \in time_range.start..time_range.end
  BY DEF TraceInv, Types, Timely, InTime
<1>5. \A t \in times : t \in Time
  <2>1. ASSUME NEW n \in 1..Len(actions) PROVE TimeOf(actions, n) \in Time
    <3>1. TimeOf(actions, n) \in time_range.start..time_range.end
      BY <1>4
    <3>2. time_range.start \in 0..MaxTime /\ time_range.end \in 0..MaxTime /\ MaxTime \in Nat
      BY <1>4, TimeFacts DEF Time
    <3>3. QED
      BY <3>1, <3>2 DEF Time
  <2>2. \A t \in times : \E n \in 1..Len(actions) : t = TimeOf(actions, n)
    BY <1>4 DEF Times, Triggering, TimeOf
  <2>3. QED
    BY <2>1, <2>2
<1>6. times \subseteq Int /\ IsFiniteSet(times)
  <2>1. IsFiniteSet(Time) /\ times \in SUBSET Time
    BY <1>5, TimeFacts, FS_Interval DEF Time
  <2>2. IsFiniteSet(times)
    BY <2>1, FS_Subset
  <2>3. times \subseteq Nat
    BY <1>5, TimeFacts
  <2>4. QED
    BY <2>2, <2>3
<1> DEFINE o == Ordered(times)
           N == Cardinality(times)
<1>7. Lists(o, N, times)
  BY <1>6, OrderedIs
<1>8. time_list' = o
  BY <1>2
<1> HIDE DEF o, N
<1>9. /\ N \in Nat /\ o \in Seq(Time) /\ Len(o) = N
      /\ \A j, k \in 1..N : j < k => o[j] < o[k]
  <2>1. N \in Nat /\ o \in [1..N -> times] /\ \A j, k \in 1..N : j < k => o[j] < o[k]
    BY <1>7 DEF Lists
  <2>2. o \in [1..N -> Time]
    BY <1>5, <2>1
  <2>3. QED
    BY <2>1, <2>2
<1>10. ClipTypes'
  <2>1. pc' = "done" /\ UNCHANGED <<n_seen, held, time_clips, episodes>>
    BY <1>1 DEF vars
  <2>2. n_seen' \in 0..Len(time_list')
    BY <1>3, <1>8, <1>9, <2>1
  <2>3. QED
    BY <1>1, <1>8, <1>9, <2>1, <2>2 DEF ClipInv, ClipTypes
<1>11. Finding' /\ Found'
  <2>1. Len(time_clips') = 0 /\ 1..0 = {}
    BY <1>1, <1>3
  <2>2. QED
    BY <1>1, <1>3, <2>1 DEF Finding, Found
<1>12. EpisodesTrue'
  <2>1. EpisodesTrue /\ UNCHANGED vars /\ UNCHANGED episodes
        /\ Len(time_clips) \in Nat /\ Len(time_clips') \in Nat /\ Len(time_clips) <= Len(time_clips')
    BY <1>1, <1>3 DEF ClipInv
  <2>2. QED
    BY <2>1, EpisodesStay
<1>13. QED
  BY <1>10, <1>11, <1>12 DEF ClipInv

(* A single clip is asked for (the page with a start and an end).          *)
LEMMA FindOneClipStep ==
  ASSUME ClipInv, NEW start_time \in Int, NEW end_time \in Int,
         FindOneClip(start_time, end_time)
  PROVE  ClipInv'
<1> DEFINE clip == [start |-> start_time, end |-> end_time]
<1>1. /\ view = "trace" /\ pc = "done" /\ view' = "generate" /\ start_time < end_time
      /\ time_clips' = <<clip>>
      /\ UNCHANGED <<vars, time_list, n_seen, held, episodes>>
  BY DEF FindOneClip
<1>2. time_list = <<>> /\ time_clips = <<>> /\ episodes = <<>>
  BY <1>1 DEF ClipInv, ClipTypes
<1>3. clip \in [start : Int, end : Int] /\ clip.start < clip.end
  BY <1>1
<1> HIDE DEF clip
<1>4. time_clips' \in Seq([start : Int, end : Int]) /\ Len(time_clips') = 1
      /\ \A k \in 1..Len(time_clips') : time_clips'[k].start < time_clips'[k].end
  BY <1>1, <1>3
<1>5. ClipTypes'
  <2>1. pc' = "done" /\ UNCHANGED <<time_list, n_seen, held, episodes>>
    BY <1>1 DEF vars
  <2>2. QED
    BY <1>1, <1>4, <2>1 DEF ClipInv, ClipTypes
<1>6. Finding' /\ Found'
  <2>1. time_list' = <<>> /\ Len(time_list') = 0 /\ 1..0 = {}
    BY <1>1, <1>2
  <2>2. QED
    BY <1>1, <2>1 DEF Finding, Found
<1>7. EpisodesTrue'
  <2>1. EpisodesTrue /\ UNCHANGED vars /\ UNCHANGED episodes
        /\ Len(time_clips) \in Nat /\ Len(time_clips') \in Nat /\ Len(time_clips) <= Len(time_clips')
    BY <1>1, <1>2, <1>4 DEF ClipInv
  <2>2. QED
    BY <2>1, EpisodesStay
<1>8. QED
  BY <1>5, <1>6, <1>7 DEF ClipInv
-----------------------------------------------------------------------------
(* The next time that is looked at is in the range that is held, or begins *)
(* one of its own.                                                         *)
InHeld(t, range) == InCore(t, range.start, range.current)
InFound(t, list) == \E k \in 1..Len(list) : InCore(t, list[k].start, list[k].end - Span)
EndBefore(list, start) == \A k \in 1..Len(list) : list[k].end - Span < start
CoresApart(list) ==
  \A k, l \in 1..Len(list) : k < l => list[k].end - Span < list[l].start

(* The ranges that are found, with the places of the lists spelled out.    *)
LEMMA FindingIs ==
  ASSUME ClipTypes, view = "find"
  PROVE  Finding <=>
            /\ n_seen = 0 => held = <<>> /\ time_clips = <<>>
            /\ n_seen > 0 =>
                  /\ Len(held) = 1
                  /\ held[1].start + Span <= held[1].current
                  /\ held[1].current = time_list[n_seen]
                  /\ EndBefore(time_clips, held[1].start)
                  /\ \A j \in 1..n_seen :
                        InHeld(time_list[j], held[1]) \/ InFound(time_list[j], time_clips)
            /\ CoresApart(time_clips)
            /\ episodes = <<>>
  BY DEF Finding, EndBefore, InHeld, InFound, CoresApart

(* What a step of the search has to show.                                  *)
LEMMA LookedAt ==
  ASSUME ClipInv, NEW time, LookAt(time), NEW h \in [start : Int, current : Time],
         held' = <<h>>, h.start + Span <= h.current, h.current = time,
         time_clips' \in Seq([start : Int, end : Int]),
         \A k \in 1..Len(time_clips') : time_clips'[k].start < time_clips'[k].end,
         EndBefore(time_clips', h.start), CoresApart(time_clips'),
         \A j \in 1..n_seen : InHeld(time_list[j], h) \/ InFound(time_list[j], time_clips')
  PROVE  ClipInv'
<1>1. /\ view = "find" /\ n_seen < Len(time_list) /\ time = time_list[n_seen + 1]
      /\ n_seen' = n_seen + 1 /\ UNCHANGED <<vars, view, time_list, episodes>>
  BY DEF LookAt
<1>2. ClipTypes /\ Finding /\ EpisodesTrue
  BY DEF ClipInv
<1>3. /\ Len(time_list) \in Nat /\ n_seen \in 0..Len(time_list) /\ Span \in Nat /\ Span > 0
      /\ Len(time_clips) \in Nat
  BY <1>2, ClipFacts
<1>4. h.start \in Int /\ h.current \in Nat
  <2>1. h.start \in Int /\ h.current \in Time
    OBVIOUS
  <2>2. QED
    BY <2>1, TimeFacts
<1>5. held' \in Seq([start : Int, current : Time]) /\ Len(held') = 1 /\ held'[1] = h
  OBVIOUS
<1>6. ClipTypes'
  <2>1. pc' = pc
    BY <1>1 DEF vars
  <2>2. n_seen' \in 0..Len(time_list)
    BY <1>1, <1>3
  <2>3. held'[1].start < held'[1].current
    BY <1>3, <1>4, <1>5
  <2>4. view' = "find" /\ view = "find" /\ time_list' = time_list /\ episodes' = episodes
    BY <1>1
  <2>5. /\ pc = "done" /\ time_list \in Seq(Time) /\ episodes \in Seq(Range(episodes))
        /\ \A j, k \in 1..Len(time_list) : j < k => time_list[j] < time_list[k]
    BY <1>2, <2>4 DEF ClipTypes
  <2>6. QED
    BY <1>5, <2>1, <2>2, <2>3, <2>4, <2>5 DEF ClipTypes
<1>7. \A j \in 1..n_seen' : InHeld(time_list[j], h) \/ InFound(time_list[j], time_clips')
  <2>1. TAKE j \in 1..n_seen'
  <2>2. j \in 1..n_seen \/ j = n_seen + 1
    BY <1>1, <1>3
  <2>3. CASE j = n_seen + 1
    <3>1. InCore(time_list[j], h.start, h.current)
      BY <1>1, <1>3, <1>4, <2>3 DEF InCore
    <3>2. QED
      BY <3>1 DEF InHeld
  <2>4. QED
    BY <2>2, <2>3
<1>8. Finding'
  <2>1. n_seen' # 0 /\ time_list'[n_seen'] = h.current
    BY <1>1, <1>3
  <2>2. episodes' = <<>>
    BY <1>1, <1>2 DEF Finding
  <2>3. /\ Len(held') = 1 /\ held'[1].start + Span <= held'[1].current
        /\ held'[1].current = time_list'[n_seen']
        /\ EndBefore(time_clips', held'[1].start)
        /\ \A j \in 1..n_seen' :
              InHeld(time_list'[j], held'[1]) \/ InFound(time_list'[j], time_clips')
    BY <1>1, <1>5, <1>7, <2>1
  <2>4. (Finding <=>
            /\ n_seen = 0 => held = <<>> /\ time_clips = <<>>
            /\ n_seen > 0 =>
                  /\ Len(held) = 1
                  /\ held[1].start + Span <= held[1].current
                  /\ held[1].current = time_list[n_seen]
                  /\ EndBefore(time_clips, held[1].start)
                  /\ \A j \in 1..n_seen :
                        InHeld(time_list[j], held[1]) \/ InFound(time_list[j], time_clips)
            /\ CoresApart(time_clips)
            /\ episodes = <<>>)'
    BY <1>1, <1>6 DEF Finding, EndBefore, InHeld, InFound, CoresApart
  <2>5. QED
    BY <2>1, <2>2, <2>3, <2>4
<1>9. Found'
  BY <1>1 DEF Found
<1>10. EpisodesTrue'
  <2>1. episodes = <<>> /\ episodes' = <<>> /\ UNCHANGED vars
    BY <1>1, <1>2 DEF Finding
  <2>2. DOMAIN episodes' = {} /\ Len(episodes') = 0
    BY <2>1
  <2>3. Len(time_clips') \in Nat
    OBVIOUS
  <2>4. QED
    BY <2>2, <2>3 DEF EpisodesTrue, ClipKeepsEvents, ClipStateTrue
<1>11. QED
  BY <1>6, <1>8, <1>9, <1>10 DEF ClipInv

(* The first range begins at the first time.                               *)
LEMMA FirstTimeStep == ASSUME ClipInv, NEW time, FirstTime(time) PROVE ClipInv'
<1> DEFINE h == [start |-> time - Span, current |-> time]
<1>1. /\ LookAt(time) /\ held = <<>> /\ held' = <<h>> /\ time_clips' = time_clips
      /\ view = "find" /\ n_seen < Len(time_list) /\ time = time_list[n_seen + 1]
  BY DEF FirstTime, LookAt, Holding
<1>2. ClipTypes /\ Finding
  BY DEF ClipInv
<1>3. /\ Len(time_list) \in Nat /\ n_seen \in 0..Len(time_list) /\ Span \in Nat /\ Span > 0
      /\ time_list \in Seq(Time)
  BY <1>2, ClipFacts DEF ClipTypes
<1>4. time \in Time /\ time \in Nat
  <2>1. n_seen + 1 \in 1..Len(time_list)
    BY <1>1, <1>3
  <2>2. time \in Time
    BY <1>1, <1>3, <2>1
  <2>3. QED
    BY <2>2, TimeFacts
<1>5. n_seen = 0 /\ time_clips = <<>>
  <2>1. Len(held) # 1
    BY <1>1
  <2>2. n_seen = 0
    BY <1>1, <1>2, <1>3, <2>1 DEF Finding
  <2>3. QED
    BY <1>1, <1>2, <2>2 DEF Finding
<1>6. h \in [start : Int, current : Time] /\ h.start + Span <= h.current /\ h.current = time
  BY <1>3, <1>4
<1>7. /\ time_clips' = <<>> /\ Len(time_clips') = 0 /\ 1..0 = {}
      /\ time_clips' \in Seq([start : Int, end : Int])
  BY <1>1, <1>5
<1> HIDE DEF h
<1>8. EndBefore(time_clips', h.start) /\ CoresApart(time_clips')
  BY <1>7 DEF EndBefore, CoresApart
<1>9. \A j \in 1..n_seen : InHeld(time_list[j], h) \/ InFound(time_list[j], time_clips')
  BY <1>5, <1>7
<1>10. QED
  BY <1>1, <1>6, <1>7, <1>8, <1>9, LookedAt

(* What is known when a range is held.                                     *)
LEMMA HeldRange ==
  ASSUME ClipInv, NEW time, LookAt(time), held # <<>>
  PROVE  /\ Len(held) = 1 /\ Head(held) = held[1] /\ n_seen > 0
         /\ time \in Time /\ time \in Nat /\ Span \in Nat /\ Span > 0
         /\ held[1].start \in Int /\ held[1].current \in Nat /\ held[1].current < time
         /\ held[1].start + Span <= held[1].current
         /\ EndBefore(time_clips, held[1].start) /\ CoresApart(time_clips)
         /\ \A j \in 1..n_seen :
               InHeld(time_list[j], held[1]) \/ InFound(time_list[j], time_clips)
<1>1. view = "find" /\ n_seen < Len(time_list) /\ time = time_list[n_seen + 1]
  BY DEF LookAt
<1>2. ClipTypes /\ Finding
  BY DEF ClipInv
<1>3. /\ Len(time_list) \in Nat /\ n_seen \in 0..Len(time_list) /\ Span \in Nat /\ Span > 0
      /\ Len(held) = 1 /\ Head(held) = held[1]
      /\ held[1].start \in Int /\ held[1].current \in Nat
      /\ time_list \in Seq(Time)
      /\ \A j, k \in 1..Len(time_list) : j < k => time_list[j] < time_list[k]
  <2>1. Len(held) = 1
    BY <1>2, ClipFacts
  <2>2. QED
    BY <1>2, <2>1, ClipFacts DEF ClipTypes
<1>4. n_seen > 0
  BY <1>1, <1>2, <1>3 DEF Finding
<1>5. /\ held[1].start + Span <= held[1].current
      /\ held[1].current = time_list[n_seen]
      /\ EndBefore(time_clips, held[1].start)
      /\ \A j \in 1..n_seen :
            InHeld(time_list[j], held[1]) \/ InFound(time_list[j], time_clips)
      /\ CoresApart(time_clips)
  BY <1>1, <1>2, <1>4, FindingIs
<1>6. time \in Time /\ time \in Nat /\ held[1].current < time
  <2>1. n_seen \in 1..Len(time_list) /\ n_seen + 1 \in 1..Len(time_list) /\ n_seen < n_seen + 1
    BY <1>1, <1>3, <1>4
  <2>2. time \in Time /\ time_list[n_seen] < time_list[n_seen + 1]
    BY <1>1, <1>3, <2>1
  <2>3. QED
    BY <1>1, <1>5, <2>2, TimeFacts
<1>7. QED
  BY <1>3, <1>4, <1>5, <1>6

(* A time that is close goes to the range that is held.                    *)
LEMMA ExtendClipStep == ASSUME ClipInv, NEW time, ExtendClip(time) PROVE ClipInv'
<1> DEFINE h == [start |-> held[1].start, current |-> time]
<1>1. LookAt(time) /\ held # <<>> /\ time_clips' = time_clips
  BY DEF ExtendClip
<1>2. /\ Len(held) = 1 /\ Head(held) = held[1] /\ n_seen > 0
      /\ time \in Time /\ time \in Nat /\ Span \in Nat /\ Span > 0
      /\ held[1].start \in Int /\ held[1].current \in Nat /\ held[1].current < time
      /\ held[1].start + Span <= held[1].current
      /\ EndBefore(time_clips, held[1].start) /\ CoresApart(time_clips)
      /\ \A j \in 1..n_seen :
            InHeld(time_list[j], held[1]) \/ InFound(time_list[j], time_clips)
  BY <1>1, HeldRange
<1>3. held' = <<h>>
  BY <1>2 DEF ExtendClip, Holding
<1>4. /\ h \in [start : Int, current : Time] /\ h.start + Span <= h.current
      /\ h.current = time /\ h.start = held[1].start
  BY <1>2
<1> HIDE DEF h
<1>5. /\ time_clips' \in Seq([start : Int, end : Int])
      /\ \A k \in 1..Len(time_clips') : time_clips'[k].start < time_clips'[k].end
  BY <1>1 DEF ClipInv, ClipTypes
<1>6. \A j \in 1..n_seen : time_list[j] \in Nat
  <2>1. ClipTypes
    BY DEF ClipInv
  <2>2. /\ \A j \in 1..Len(time_list) : time_list[j] \in Nat
        /\ n_seen \in 0..Len(time_list) /\ Len(time_list) \in Nat
    BY <2>1, ClipFacts
  <2>3. QED
    BY <2>2
<1>7. \A j \in 1..n_seen : InHeld(time_list[j], held[1]) => InHeld(time_list[j], h)
  BY <1>2, <1>4, <1>6 DEF InHeld, InCore
<1>8. /\ \A j \in 1..n_seen : InHeld(time_list[j], h) \/ InFound(time_list[j], time_clips')
      /\ EndBefore(time_clips', h.start) /\ CoresApart(time_clips')
  BY <1>1, <1>2, <1>4, <1>7
<1>9. QED
  BY <1>1, <1>3, <1>4, <1>5, <1>8, LookedAt

(* A range is added, after the others.                                     *)
LEMMA RangeAdded ==
  ASSUME NEW list \in Seq([start : Int, end : Int]), NEW clip \in [start : Int, end : Int],
         \A k \in 1..Len(list) : list[k].start < list[k].end, clip.start < clip.end,
         EndBefore(list, clip.start), CoresApart(list)
  PROVE  /\ Append(list, clip) \in Seq([start : Int, end : Int])
         /\ \A k \in 1..Len(Append(list, clip)) :
               Append(list, clip)[k].start < Append(list, clip)[k].end
         /\ CoresApart(Append(list, clip))
         /\ \A t : InFound(t, list) \/ InCore(t, clip.start, clip.end - Span)
                      => InFound(t, Append(list, clip))
         /\ \A start \in Int :
               clip.end - Span < start /\ clip.start < start => EndBefore(Append(list, clip), start)
<1> DEFINE R == [start : Int, end : Int]
           big == Append(list, clip)
<1>1. \A r \in R : r.start \in Int /\ r.end \in Int
  OBVIOUS
<1>2. list \in Seq(R) /\ clip \in R
  OBVIOUS
<1> HIDE DEF R
<1>3. /\ big \in Seq(R) /\ Len(list) \in Nat /\ Len(big) = Len(list) + 1
      /\ \A k \in 1..Len(list) : big[k] = list[k] /\ list[k] \in R /\ k \in 1..Len(big)
      /\ big[Len(list) + 1] = clip /\ Len(list) + 1 \in 1..Len(big)
      /\ \A k \in 1..Len(big) : k \in 1..Len(list) \/ k = Len(list) + 1
  <2>1. Len(list) \in Nat
    BY <1>2
  <2>2. QED
    BY <1>2, <2>1
<1> HIDE DEF big
<1>4. \A k \in 1..Len(big) : big[k].start < big[k].end
  BY <1>3
<1>5. CoresApart(big)
  <2>1. SUFFICES ASSUME NEW k \in 1..Len(big), NEW l \in 1..Len(big), k < l
                 PROVE  big[k].end - Span < big[l].start
    BY DEF CoresApart
  <2>2. k \in 1..Len(list)
    BY <1>3, <2>1
  <2>3. QED
    BY <1>3, <2>1, <2>2 DEF CoresApart, EndBefore
<1>6. ASSUME NEW t, InFound(t, list) \/ InCore(t, clip.start, clip.end - Span)
      PROVE  InFound(t, big)
  <2>1. CASE InFound(t, list)
    <3>1. PICK k \in 1..Len(list) : InCore(t, list[k].start, list[k].end - Span)
      BY <2>1 DEF InFound
    <3>2. k \in 1..Len(big) /\ InCore(t, big[k].start, big[k].end - Span)
      BY <1>3, <3>1
    <3>3. QED
      BY <3>2 DEF InFound
  <2>2. CASE InCore(t, clip.start, clip.end - Span)
    BY <1>3, <2>2 DEF InFound
  <2>3. QED
    BY <1>6, <2>1, <2>2
<1>7. ASSUME NEW start \in Int, clip.end - Span < start, clip.start < start
      PROVE  EndBefore(big, start)
  <2>1. SUFFICES ASSUME NEW k \in 1..Len(big) PROVE big[k].end - Span < start
    BY DEF EndBefore
  <2>2. CASE k \in 1..Len(list)
    <3>1. list[k].end - Span < clip.start /\ big[k] = list[k]
      BY <1>3, <2>2 DEF EndBefore
    <3>2. list[k].end \in Int /\ clip.start \in Int /\ Span \in Int
      BY <1>1, <1>2, <1>3, <2>2, SpanAssumption
    <3>3. list[k].end - Span < start
      <4> DEFINE last == list[k].end - Span
      <4>1. last \in Int /\ last < clip.start /\ clip.start < start
        <5>1. clip.start < start
          BY <1>7
        <5>2. last < clip.start
          BY <3>1
        <5>3. last \in Int
          BY <3>2
        <5>4. QED
          BY <5>1, <5>2, <5>3
      <4> HIDE DEF last
      <4>2. last < start
        BY <3>2, <4>1
      <4>3. QED
        BY <4>2 DEF last
    <3>4. QED
      BY <3>1, <3>3
  <2>3. QED
    BY <1>3, <1>7, <2>2
<1>8. QED
  BY <1>3, <1>4, <1>5, <1>6, <1>7 DEF R, big
-----------------------------------------------------------------------------
(* A range ends and the next one begins.                                   *)
LEMMA ClosedIs ==
  ASSUME Len(held) = 1, held[1].start \in Int, held[1].current \in Nat,
         held[1].start + Span <= held[1].current
  PROVE  /\ Closed(held[1]) \in [start : Int, end : Int]
         /\ Closed(held[1]).start = held[1].start
         /\ Closed(held[1]).end - Span = held[1].current
         /\ Closed(held[1]).start < Closed(held[1]).end
  BY SpanAssumption DEF Closed

(* A time that is far away ends the range and begins the next one.         *)
LEMMA NewClipStep == ASSUME ClipInv, NEW time, NewClip(time) PROVE ClipInv'
<1> DEFINE h == [start |-> time - Span, current |-> time]
           clip == Closed(held[1])
<1>1. LookAt(time) /\ held # <<>>
  BY DEF NewClip
<1>2. /\ Len(held) = 1 /\ Head(held) = held[1] /\ n_seen > 0
      /\ time \in Time /\ time \in Nat /\ Span \in Nat /\ Span > 0
      /\ held[1].start \in Int /\ held[1].current \in Nat /\ held[1].current < time
      /\ held[1].start + Span <= held[1].current
      /\ EndBefore(time_clips, held[1].start) /\ CoresApart(time_clips)
      /\ \A j \in 1..n_seen :
            InHeld(time_list[j], held[1]) \/ InFound(time_list[j], time_clips)
  BY <1>1, HeldRange
<1>3. /\ held' = <<h>> /\ time_clips' = Append(time_clips, clip)
      /\ time > held[1].current + Span
  BY <1>2 DEF NewClip, Holding, Apart
<1>4. /\ h \in [start : Int, current : Time] /\ h.start + Span <= h.current
      /\ h.current = time /\ h.start = time - Span
  BY <1>2
<1> HIDE DEF h
<1>5. /\ clip \in [start : Int, end : Int] /\ clip.start = held[1].start
      /\ clip.end - Span = held[1].current /\ clip.start < clip.end
  BY <1>2, ClosedIs
<1> HIDE DEF clip
<1>6. /\ time_clips \in Seq([start : Int, end : Int])
      /\ \A k \in 1..Len(time_clips) : time_clips[k].start < time_clips[k].end
  BY DEF ClipInv, ClipTypes
<1>7. /\ time_clips' \in Seq([start : Int, end : Int])
      /\ \A k \in 1..Len(time_clips') : time_clips'[k].start < time_clips'[k].end
      /\ CoresApart(time_clips')
      /\ \A t : InFound(t, time_clips) \/ InCore(t, clip.start, clip.end - Span)
                   => InFound(t, time_clips')
      /\ \A start \in Int :
            clip.end - Span < start /\ clip.start < start => EndBefore(time_clips', start)
  <2>1. EndBefore(time_clips, clip.start) /\ CoresApart(time_clips)
    BY <1>2, <1>5
  <2>2. /\ Append(time_clips, clip) \in Seq([start : Int, end : Int])
        /\ \A k \in 1..Len(Append(time_clips, clip)) :
              Append(time_clips, clip)[k].start < Append(time_clips, clip)[k].end
        /\ CoresApart(Append(time_clips, clip))
        /\ \A t : InFound(t, time_clips) \/ InCore(t, clip.start, clip.end - Span)
                     => InFound(t, Append(time_clips, clip))
        /\ \A start \in Int : clip.end - Span < start /\ clip.start < start
                                 => EndBefore(Append(time_clips, clip), start)
    BY <1>5, <1>6, <2>1, RangeAdded
  <2>3. QED
    BY <1>3, <2>2
<1>8. EndBefore(time_clips', h.start)
  <2>1. h.start \in Int /\ clip.end - Span < h.start /\ clip.start < h.start
    BY <1>2, <1>3, <1>4, <1>5
  <2>2. QED
    BY <1>7, <2>1
<1>9. \A j \in 1..n_seen : InHeld(time_list[j], h) \/ InFound(time_list[j], time_clips')
  <2>1. \A t : InHeld(t, held[1]) => InCore(t, clip.start, clip.end - Span)
    BY <1>5 DEF InHeld
  <2>2. QED
    BY <1>2, <1>7, <2>1
<1>10. QED
  BY <1>1, <1>3, <1>4, <1>7, <1>8, <1>9, LookedAt

(* The last range is found.                                                *)
LEMMA LastClipStep == ASSUME ClipInv, LastClip PROVE ClipInv'
<1> DEFINE clip == Closed(held[1])
           big == time_clips'
<1>1. /\ view = "find" /\ view' = "generate" /\ n_seen = Len(time_list) /\ held' = <<>>
      /\ big = IF held = <<>> THEN time_clips ELSE Append(time_clips, Closed(Head(held)))
      /\ UNCHANGED <<vars, time_list, n_seen, episodes>>
  BY DEF LastClip
<1>2. ClipTypes /\ Finding /\ EpisodesTrue
  BY DEF ClipInv
<1>3. /\ Len(time_list) \in Nat /\ n_seen \in 0..Len(time_list)
      /\ held = <<>> <=> Len(held) = 0
      /\ Len(held) \in 0..1 /\ Len(held) \in Nat
      /\ Len(held) = 1 => held[1].start \in Int /\ held[1].current \in Nat
                          /\ Head(held) = held[1]
      /\ time_clips \in Seq([start : Int, end : Int])
      /\ \A k \in 1..Len(time_clips) : time_clips[k].start < time_clips[k].end
  BY <1>2, ClipFacts DEF ClipTypes
<1>4. /\ n_seen = 0 => held = <<>> /\ time_clips = <<>>
      /\ n_seen > 0 =>
            /\ Len(held) = 1
            /\ held[1].start + Span <= held[1].current
            /\ EndBefore(time_clips, held[1].start)
            /\ \A j \in 1..n_seen :
                  InHeld(time_list[j], held[1]) \/ InFound(time_list[j], time_clips)
      /\ CoresApart(time_clips)
      /\ episodes = <<>>
  BY <1>1, <1>2, FindingIs
<1>5. /\ big \in Seq([start : Int, end : Int])
      /\ \A k \in 1..Len(big) : big[k].start < big[k].end
      /\ CoresApart(big)
      /\ \A j \in 1..Len(time_list) : InFound(time_list[j], big)
  <2>1. CASE n_seen = 0
    <3>1. big = time_clips /\ Len(time_list) = 0 /\ 1..0 = {}
      BY <1>1, <1>4, <2>1
    <3>2. QED
      BY <1>3, <1>4, <3>1
  <2>2. CASE n_seen > 0
    <3>1. /\ Len(held) = 1 /\ held[1].start \in Int /\ held[1].current \in Nat
          /\ held[1].start + Span <= held[1].current /\ held # <<>> /\ Head(held) = held[1]
      <4>1. Len(held) = 1 /\ held[1].start + Span <= held[1].current
        BY <1>4, <2>2
      <4>2. held[1].start \in Int /\ held[1].current \in Nat /\ Head(held) = held[1]
        BY <1>3, <4>1
      <4>3. held # <<>>
        BY <4>1
      <4>4. QED
        BY <4>1, <4>2, <4>3
    <3>2. /\ clip \in [start : Int, end : Int] /\ clip.start = held[1].start
          /\ clip.end - Span = held[1].current /\ clip.start < clip.end
      BY <3>1, ClosedIs
    <3>3. big = Append(time_clips, clip)
      BY <1>1, <3>1
    <3> HIDE DEF clip, big
    <3>4. EndBefore(time_clips, clip.start) /\ CoresApart(time_clips)
      BY <1>4, <2>2, <3>2
    <3>5. /\ Append(time_clips, clip) \in Seq([start : Int, end : Int])
          /\ \A k \in 1..Len(Append(time_clips, clip)) :
                Append(time_clips, clip)[k].start < Append(time_clips, clip)[k].end
          /\ CoresApart(Append(time_clips, clip))
          /\ \A t : InFound(t, time_clips) \/ InCore(t, clip.start, clip.end - Span)
                       => InFound(t, Append(time_clips, clip))
      BY <1>3, <3>2, <3>4, RangeAdded
    <3>6. \A t : InHeld(t, held[1]) => InCore(t, clip.start, clip.end - Span)
      BY <3>2 DEF InHeld
    <3>7. \A j \in 1..n_seen : InFound(time_list[j], Append(time_clips, clip))
      BY <1>4, <2>2, <3>5, <3>6
    <3>8. QED
      BY <1>1, <3>3, <3>5, <3>7
  <2>3. n_seen \in Nat
    BY <1>3
  <2>4. n_seen = 0 \/ n_seen > 0
    BY <2>3
  <2> HIDE DEF big
  <2>5. QED
    BY <2>1, <2>2, <2>4
<1>6. ClipTypes'
  <2>1. pc' = pc /\ held' \in Seq([start : Int, current : Time]) /\ Len(held') = 0
    BY <1>1 DEF vars
  <2>2. QED
    BY <1>1, <1>2, <1>4, <1>5, <2>1 DEF ClipTypes
<1>7. Finding'
  BY <1>1 DEF Finding
<1>8. Found'
  <2>1. UNCHANGED time_list
    BY <1>1
  <2>2. QED
    BY <1>5, <2>1 DEF Found, InFound, CoresApart
<1>9. EpisodesTrue'
  <2>1. DOMAIN episodes' = {} /\ Len(episodes') = 0
    BY <1>1, <1>4
  <2>2. Len(time_clips') \in Nat
    BY <1>5
  <2>3. QED
    BY <2>1, <2>2 DEF EpisodesTrue, ClipKeepsEvents, ClipStateTrue
<1>10. QED
  BY <1>6, <1>7, <1>8, <1>9 DEF ClipInv

(* A time is in the core of one range, and so in no other.                 *)
LEMMA TimesCovered == ASSUME ClipInv PROVE CoveredOnce
<1>1. SUFFICES ASSUME view = "generate", NEW time \in Range(time_list)
               PROVE  Cardinality({k \in DOMAIN time_clips :
                         time \in time_clips[k].start..(time_clips[k].end - 1)}) = 1
  BY DEF CoveredOnce
<1> DEFINE S == {k \in DOMAIN time_clips :
                    time \in time_clips[k].start..(time_clips[k].end - 1)}
<1>2. /\ Len(time_list) \in Nat /\ Len(time_clips) \in Nat /\ Span \in Nat /\ Span > 0
      /\ \A k \in 1..Len(time_list) : time_list[k] \in Nat
      /\ \A k \in 1..Len(time_clips) : time_clips[k].start \in Int /\ time_clips[k].end \in Int
      /\ time_list \in Seq(Time) /\ DOMAIN time_clips = 1..Len(time_clips)
  BY ClipFacts DEF ClipInv, ClipTypes
<1>3. PICK j \in 1..Len(time_list) : time = time_list[j]
  BY <1>2 DEF Range
<1>4. time \in Nat /\ time_list # <<>>
  BY <1>2, <1>3
<1>5. PICK k \in 1..Len(time_clips) :
         InCore(time, time_clips[k].start, time_clips[k].end - Span)
  BY <1>1, <1>3 DEF ClipInv, Found
<1>6. \A i, l \in 1..Len(time_clips) : i < l => time_clips[i].end - Span < time_clips[l].start
  BY <1>1, <1>4 DEF ClipInv, Found
<1>7. /\ time_clips[k].start + Span <= time /\ time <= time_clips[k].end - Span
      /\ time_clips[k].start \in Int /\ time_clips[k].end \in Int
  BY <1>2, <1>5 DEF InCore
<1>8. time \in time_clips[k].start..(time_clips[k].end - 1)
  BY <1>2, <1>4, <1>7
<1>9. ASSUME NEW l \in 1..Len(time_clips), l # k
      PROVE  time \notin time_clips[l].start..(time_clips[l].end - 1)
  <2>1. time_clips[l].start \in Int /\ time_clips[l].end \in Int
    BY <1>2
  <2>2. l < k \/ k < l
    BY <1>2, <1>9
  <2>3. CASE l < k
    <3>1. time_clips[l].end - Span < time_clips[k].start
      BY <1>6, <2>3
    <3>2. QED
      BY <1>2, <1>4, <1>7, <2>1, <3>1
  <2>4. CASE k < l
    <3>1. time_clips[k].end - Span < time_clips[l].start
      BY <1>6, <2>4
    <3>2. QED
      BY <1>2, <1>4, <1>7, <2>1, <3>1
  <2>5. QED
    BY <2>2, <2>3, <2>4
<1>10. S = {k}
  BY <1>2, <1>8, <1>9
<1>11. Cardinality({k}) = 1
  BY FS_Singleton
<1>12. QED
  BY <1>10, <1>11
-----------------------------------------------------------------------------
(* The state that actions lead to: the last write of a value counts.       *)
Writes(a, cap) == a.kind = "set" /\ a.cap = cap
NotWritten(list, k, cap) == \A m \in 1..k : ~ Writes(list[m], cap)
WrittenAt(list, k, cap, w) ==
  w \in 1..k /\ Writes(list[w], cap) /\ \A m \in (w + 1)..k : ~ Writes(list[m], cap)

(* A value is the last one written, and else the one it was.               *)
LEMMA StateByIs ==
  ASSUME NEW state, NEW list, NEW k \in Nat
  PROVE  /\ DOMAIN StateBy(state, list, k) = DOMAIN state
         /\ StateBy(state, list, k) =
               [cap \in DOMAIN state |-> StateBy(state, list, k)[cap]]
         /\ \A cap \in DOMAIN state :
               NotWritten(list, k, cap) => StateBy(state, list, k)[cap] = state[cap]
         /\ \A cap \in DOMAIN state : \A w :
               WrittenAt(list, k, cap, w) => StateBy(state, list, k)[cap] = list[w].value
         /\ \A cap \in DOMAIN state :
               NotWritten(list, k, cap) \/ \E w : WrittenAt(list, k, cap, w)
<1> DEFINE W(cap) == {n \in 1..k : list[n].kind = "set" /\ list[n].cap = cap}
<1>1. StateBy(state, list, k) =
         [cap \in DOMAIN state |-> IF W(cap) = {} THEN state[cap] ELSE list[Max(W(cap))].value]
  BY DEF StateBy
<1>2. \A cap, n : n \in W(cap) <=> n \in 1..k /\ Writes(list[n], cap)
  BY DEF Writes
<1> HIDE DEF W
<1>3. \A cap : NotWritten(list, k, cap) <=> W(cap) = {}
  BY <1>2 DEF NotWritten
<1>4. ASSUME NEW cap, W(cap) # {}
      PROVE  WrittenAt(list, k, cap, Max(W(cap)))
  <2>1. W(cap) \subseteq 0..k
    BY <1>2
  <2>2. Max(W(cap)) \in W(cap) /\ \A n \in W(cap) : Max(W(cap)) >= n
    BY <1>4, <2>1, MaxIs
  <2>3. \A m \in (Max(W(cap)) + 1)..k : ~ Writes(list[m], cap)
    <3>1. Max(W(cap)) \in 1..k
      BY <1>2, <2>2
    <3>2. TAKE m \in (Max(W(cap)) + 1)..k
    <3>3. m \in 1..k /\ ~ (Max(W(cap)) >= m)
      BY <3>1
    <3>4. QED
      BY <1>2, <2>2, <3>3
  <2>4. QED
    BY <1>2, <2>2, <2>3 DEF WrittenAt
<1>5. ASSUME NEW cap, NEW v, NEW w, WrittenAt(list, k, cap, v), WrittenAt(list, k, cap, w)
      PROVE  v = w
  BY <1>5 DEF WrittenAt
<1>6. \A cap \in DOMAIN state :
         NotWritten(list, k, cap) => StateBy(state, list, k)[cap] = state[cap]
  BY <1>1, <1>3
<1>7. ASSUME NEW cap \in DOMAIN state, NEW w, WrittenAt(list, k, cap, w)
      PROVE  StateBy(state, list, k)[cap] = list[w].value
  <2>1. W(cap) # {}
    BY <1>2, <1>7 DEF WrittenAt
  <2>2. w = Max(W(cap))
    BY <1>4, <1>5, <1>7, <2>1
  <2>3. QED
    BY <1>1, <2>1, <2>2
<1>8. \A cap \in DOMAIN state : NotWritten(list, k, cap) \/ \E w : WrittenAt(list, k, cap, w)
  BY <1>3, <1>4
<1>9. DOMAIN StateBy(state, list, k) = DOMAIN state
      /\ StateBy(state, list, k) = [cap \in DOMAIN state |-> StateBy(state, list, k)[cap]]
  BY <1>1
<1>10. QED
  BY <1>6, <1>7, <1>8, <1>9

(* States with the same values are the same.                               *)
LEMMA SameState ==
  ASSUME NEW s, NEW r, NEW D, s = [cap \in D |-> s[cap]], r = [cap \in D |-> r[cap]],
         \A cap \in D : s[cap] = r[cap]
  PROVE  s = r
<1>1. [cap \in D |-> s[cap]] = [cap \in D |-> r[cap]]
  OBVIOUS
<1>2. QED
  BY <1>1, Zenon

(* No actions, and one action more.                                        *)
LEMMA StateByNone ==
  ASSUME NEW caps, NEW state \in State(caps), NEW list
  PROVE  StateBy(state, list, 0) = state
<1>1. DOMAIN state = caps /\ state = [cap \in caps |-> state[cap]]
  BY DEF State
<1>2. \A cap : NotWritten(list, 0, cap)
  BY DEF NotWritten
<1>3. /\ StateBy(state, list, 0) = [cap \in caps |-> StateBy(state, list, 0)[cap]]
      /\ \A cap \in caps : StateBy(state, list, 0)[cap] = state[cap]
  BY <1>1, <1>2, StateByIs
<1>4. QED
  BY <1>1, <1>3, SameState

(* One action more has its effect on that state.                           *)
LEMMA StateByMore ==
  ASSUME NEW caps, NEW state, DOMAIN state = caps, NEW list, NEW k \in Nat
  PROVE  StateBy(state, list, k + 1) = Effect(StateBy(state, list, k), list[k + 1])
<1> DEFINE s == StateBy(state, list, k)
           r == StateBy(state, list, k + 1)
           a == list[k + 1]
           e == Effect(s, a)
<1>0. k + 1 \in Nat
  OBVIOUS
<1>1. /\ s = [cap \in caps |-> s[cap]] /\ DOMAIN s = caps
      /\ \A cap \in caps : NotWritten(list, k, cap) => s[cap] = state[cap]
      /\ \A cap \in caps : \A w : WrittenAt(list, k, cap, w) => s[cap] = list[w].value
      /\ \A cap \in caps : NotWritten(list, k, cap) \/ \E w : WrittenAt(list, k, cap, w)
  BY StateByIs
<1>2. /\ r = [cap \in caps |-> r[cap]]
      /\ \A cap \in caps : NotWritten(list, k + 1, cap) => r[cap] = state[cap]
      /\ \A cap \in caps : \A w : WrittenAt(list, k + 1, cap, w) => r[cap] = list[w].value
  BY <1>0, StateByIs
<1> HIDE DEF s, r
<1>3. /\ e = [cap \in caps |-> e[cap]]
      /\ \A cap \in caps : e[cap] = IF Writes(a, cap) THEN a.value ELSE s[cap]
  <2>1. CASE a.kind = "set"
    <3>1. e = [s EXCEPT ![a.cap] = a.value]
      BY <2>1 DEF Effect
    <3>2. QED
      BY <1>1, <2>1, <3>1 DEF Writes
  <2>2. CASE a.kind # "set"
    <3>1. e = s
      BY <2>2 DEF Effect
    <3>2. QED
      BY <1>1, <2>2, <3>1 DEF Writes
  <2>3. QED
    BY <2>1, <2>2
<1> HIDE DEF e
<1>4. ASSUME NEW cap \in caps PROVE r[cap] = e[cap]
  <2>0. \A m \in 1..(k + 1) : m \in 1..k \/ m = k + 1
    OBVIOUS
  <2>1. CASE Writes(a, cap)
    <3>1. WrittenAt(list, k + 1, cap, k + 1)
      BY <2>1 DEF WrittenAt
    <3>2. QED
      BY <1>2, <1>3, <2>1, <3>1
  <2>2. CASE ~ Writes(a, cap) /\ NotWritten(list, k, cap)
    <3>1. NotWritten(list, k + 1, cap)
      BY <2>0, <2>2 DEF NotWritten
    <3>2. QED
      BY <1>1, <1>2, <1>3, <2>2, <3>1
  <2>3. CASE ~ Writes(a, cap) /\ \E w : WrittenAt(list, k, cap, w)
    <3>1. PICK w : WrittenAt(list, k, cap, w)
      BY <2>3
    <3>2. \A m \in (w + 1)..(k + 1) : m \in (w + 1)..k \/ m = k + 1
      BY <3>1 DEF WrittenAt
    <3>3. w \in 1..(k + 1)
      BY <3>1 DEF WrittenAt
    <3>4. WrittenAt(list, k + 1, cap, w)
      BY <2>3, <3>1, <3>2, <3>3 DEF WrittenAt
    <3>5. QED
      BY <1>1, <1>2, <1>3, <2>3, <3>1, <3>4
  <2>4. QED
    BY <1>1, <2>1, <2>2, <2>3
<1>5. r = e
  BY <1>2, <1>3, <1>4, SameState
<1>6. QED
  BY <1>5 DEF r, e, s

(* Some actions first, and then the others.                                *)
Follows(tail, list, a, b) == \A n \in 1..b : tail[n] = list[a + n]

(* The actions can be cut in two: the second part starts where the first   *)
(* one ends.                                                               *)
LEMMA StateByShift ==
  ASSUME NEW state, NEW list, NEW tail, NEW a \in Nat, NEW b \in Nat, Follows(tail, list, a, b)
  PROVE  StateBy(StateBy(state, list, a), tail, b) = StateBy(state, list, a + b)
<1> DEFINE caps == DOMAIN state
           s == StateBy(state, list, a)
           t == StateBy(s, tail, b)
           r == StateBy(state, list, a + b)
<1>0. a + b \in Nat
  OBVIOUS
<1>1. /\ DOMAIN s = caps
      /\ \A cap \in caps : NotWritten(list, a, cap) => s[cap] = state[cap]
      /\ \A cap \in caps : \A w : WrittenAt(list, a, cap, w) => s[cap] = list[w].value
      /\ \A cap \in caps : NotWritten(list, a, cap) \/ \E w : WrittenAt(list, a, cap, w)
  BY StateByIs
<1> HIDE DEF s
<1>2. /\ t = [cap \in caps |-> t[cap]]
      /\ \A cap \in caps : NotWritten(tail, b, cap) => t[cap] = s[cap]
      /\ \A cap \in caps : \A w : WrittenAt(tail, b, cap, w) => t[cap] = tail[w].value
      /\ \A cap \in caps : NotWritten(tail, b, cap) \/ \E w : WrittenAt(tail, b, cap, w)
  BY <1>1, StateByIs
<1>3. /\ r = [cap \in caps |-> r[cap]]
      /\ \A cap \in caps : NotWritten(list, a + b, cap) => r[cap] = state[cap]
      /\ \A cap \in caps : \A w : WrittenAt(list, a + b, cap, w) => r[cap] = list[w].value
  BY <1>0, StateByIs
<1> HIDE DEF t, r
<1>4. \A m \in 1..(a + b) : m \in 1..a \/ (m - a \in 1..b /\ list[m] = tail[m - a])
  <2>1. TAKE m \in 1..(a + b)
  <2>2. CASE m <= a
    BY <2>2
  <2>3. CASE m > a
    <3>1. m - a \in 1..b /\ a + (m - a) = m
      BY <2>3
    <3>2. QED
      BY <3>1 DEF Follows
  <2>4. QED
    BY <2>2, <2>3
<1>5. ASSUME NEW cap \in caps PROVE t[cap] = r[cap]
  <2>1. CASE \E w : WrittenAt(tail, b, cap, w)
    <3>1. PICK w : WrittenAt(tail, b, cap, w)
      BY <2>1
    <3>2. w \in 1..b /\ a + w \in 1..(a + b) /\ list[a + w] = tail[w]
      BY <3>1 DEF WrittenAt, Follows
    <3>3. ASSUME NEW m \in ((a + w) + 1)..(a + b) PROVE ~ Writes(list[m], cap)
      <4>1. m - a \in (w + 1)..b /\ m \in 1..(a + b) /\ ~ (m \in 1..a)
        BY <3>2
      <4>2. list[m] = tail[m - a]
        BY <1>4, <4>1
      <4>3. QED
        BY <3>1, <4>1, <4>2 DEF WrittenAt
    <3>4. WrittenAt(list, a + b, cap, a + w)
      BY <3>1, <3>2, <3>3 DEF WrittenAt
    <3>5. QED
      BY <1>2, <1>3, <3>1, <3>2, <3>4
  <2>2. CASE NotWritten(tail, b, cap) /\ NotWritten(list, a, cap)
    <3>1. NotWritten(list, a + b, cap)
      BY <1>4, <2>2 DEF NotWritten
    <3>2. QED
      BY <1>1, <1>2, <1>3, <2>2, <3>1
  <2>3. CASE NotWritten(tail, b, cap) /\ \E w : WrittenAt(list, a, cap, w)
    <3>1. PICK w : WrittenAt(list, a, cap, w)
      BY <2>3
    <3>2. w \in 1..a /\ w \in 1..(a + b)
      BY <3>1 DEF WrittenAt
    <3>3. ASSUME NEW m \in (w + 1)..(a + b) PROVE ~ Writes(list[m], cap)
      <4>1. m \in 1..(a + b) /\ (m \in 1..a => m \in (w + 1)..a)
        BY <3>2
      <4>2. QED
        BY <1>4, <2>3, <3>1, <4>1 DEF NotWritten, WrittenAt
    <3>4. WrittenAt(list, a + b, cap, w)
      BY <3>1, <3>2, <3>3 DEF WrittenAt
    <3>5. QED
      BY <1>1, <1>2, <1>3, <2>3, <3>1, <3>4
  <2>4. QED
    BY <1>1, <1>2, <2>1, <2>2, <2>3
<1>6. t = r
  BY <1>2, <1>3, <1>5, SameState
<1>7. QED
  BY <1>6 DEF t, r, s

(* Actions that set nothing.                                               *)
LEMMA StateByQuiet ==
  ASSUME NEW state, NEW list, NEW j \in Nat, NEW k \in Nat, j <= k,
         \A m \in (j + 1)..k : list[m].kind # "set"
  PROVE  StateBy(state, list, k) = StateBy(state, list, j)
<1> DEFINE caps == DOMAIN state
           s == StateBy(state, list, j)
           r == StateBy(state, list, k)
<1>1. /\ s = [cap \in caps |-> s[cap]]
      /\ \A cap \in caps : NotWritten(list, j, cap) => s[cap] = state[cap]
      /\ \A cap \in caps : \A w : WrittenAt(list, j, cap, w) => s[cap] = list[w].value
      /\ \A cap \in caps : NotWritten(list, j, cap) \/ \E w : WrittenAt(list, j, cap, w)
  BY StateByIs
<1>2. /\ r = [cap \in caps |-> r[cap]]
      /\ \A cap \in caps : NotWritten(list, k, cap) => r[cap] = state[cap]
      /\ \A cap \in caps : \A w : WrittenAt(list, k, cap, w) => r[cap] = list[w].value
  BY StateByIs
<1> HIDE DEF s, r
<1>3. ASSUME NEW cap \in caps PROVE r[cap] = s[cap]
  <2>1. CASE NotWritten(list, j, cap)
    <3>1. \A m \in 1..k : m \in 1..j \/ m \in (j + 1)..k
      OBVIOUS
    <3>2. NotWritten(list, k, cap)
      BY <2>1, <3>1 DEF NotWritten, Writes
    <3>3. QED
      BY <1>1, <1>2, <2>1, <3>2
  <2>2. CASE \E w : WrittenAt(list, j, cap, w)
    <3>1. PICK w : WrittenAt(list, j, cap, w)
      BY <2>2
    <3>2. w \in 1..j /\ w \in 1..k
      BY <3>1 DEF WrittenAt
    <3>3. \A m \in (w + 1)..k : m \in (w + 1)..j \/ m \in (j + 1)..k
      BY <3>2
    <3>4. WrittenAt(list, k, cap, w)
      BY <3>1, <3>2, <3>3 DEF WrittenAt, Writes
    <3>5. QED
      BY <1>1, <1>2, <3>1, <3>4
  <2>3. QED
    BY <1>1, <2>1, <2>2
<1>4. r = s
  BY <1>1, <1>2, <1>3, SameState
<1>5. QED
  BY <1>4 DEF r, s
-----------------------------------------------------------------------------
(* The states of the trace, from its first one.                            *)
Acts == [n \in DOMAIN actions |-> actions[n].action]
Reached(n) == StateBy(initial_state, Acts, n)

(* The types of a trace, as the lemmas on clips use them.                  *)
LEMMA TraceLast ==
  ASSUME TraceInv
  PROVE  /\ actions \in Seq(Entry(Caps)) /\ Len(actions) \in Nat
         /\ DOMAIN actions = 1..Len(actions) /\ DOMAIN Acts = 1..Len(actions)
         /\ initial_state \in State(Caps) /\ Caps \in SUBSET Cap
         /\ \A n \in 1..Len(actions) : /\ Acts[n] = actions[n].action
                                       /\ TimeOf(actions, n) \in Nat
                                       /\ actions[n] \in Entry(Caps)
         /\ LastSet(actions) \in 0..Len(actions)
         /\ \A n \in (LastSet(actions) + 1)..Len(actions) : Kind(actions, n) # "set"
         /\ Chained(actions, LastSet(actions))
<1>1. Types
  BY DEF TraceInv
<1>2. /\ actions \in Seq(Entry(Caps)) /\ Len(actions) \in Nat
      /\ initial_state \in State(Caps) /\ Caps \in SUBSET Cap
      /\ \A n \in 1..Len(actions) : actions[n] \in Entry(Caps) /\ TimeOf(actions, n) \in Nat
  BY <1>1, TraceTypes DEF Types
<1>3. DOMAIN actions = 1..Len(actions)
  BY <1>2
<1>4. DOMAIN Acts = 1..Len(actions) /\ \A n \in 1..Len(actions) : Acts[n] = actions[n].action
  BY <1>3 DEF Acts
<1>5. /\ LastSet(actions) \in 0..Len(actions)
      /\ \A n \in 1..Len(actions) : Kind(actions, n) = "set" => n <= LastSet(actions)
  BY <1>2, LastSetIs
<1>6. \A n \in (LastSet(actions) + 1)..Len(actions) : Kind(actions, n) # "set"
  BY <1>2, <1>5
<1>7. Chained(actions, LastSet(actions))
  <2>1. CASE pc = "done"
    BY <2>1 DEF TraceInv, Chain
  <2>2. CASE pc # "done"
    BY <1>2, <1>5, <2>2 DEF TraceInv, Chain, Chained
  <2>3. QED
    BY <2>1, <2>2
<1>8. QED
  BY <1>2, <1>3, <1>4, <1>5, <1>6, <1>7

(* The states of the trace are those that its actions lead to.             *)
LEMMA TraceStates ==
  ASSUME TraceInv
  PROVE  /\ \A n \in 0..LastSet(actions) : Reached(n) = Post(actions, n)
         /\ \A n \in 1..LastSet(actions) : actions[n].pre = Reached(n - 1)
<1> DEFINE K == LastSet(actions)
           bad == {n \in 0..K : Reached(n) # Post(actions, n)}
<1>1. /\ K \in 0..Len(actions) /\ Len(actions) \in Nat /\ initial_state \in State(Caps)
      /\ \A n \in 1..Len(actions) : Acts[n] = actions[n].action
      /\ \A n \in 1..K : actions[n].pre = Post(actions, n - 1)
  BY TraceLast DEF Chained
<1> HIDE DEF K
<1>2. DOMAIN initial_state = Caps
  BY DEF Caps
<1>3. bad = {}
  <2>1. SUFFICES ASSUME bad # {} PROVE FALSE
    OBVIOUS
  <2>2. bad \subseteq Nat
    BY <1>1
  <2>3. PICK h \in bad : \A n \in bad : h <= n
    BY <2>1, <2>2, LeastElement
  <2>4. h # 0
    <3>1. Reached(0) = initial_state
      BY <1>1, StateByNone DEF Reached
    <3>2. Post(actions, 0) = initial_state
      BY DEF Post
    <3>3. QED
      BY <2>3, <3>1, <3>2
  <2>5. /\ h \in 1..K /\ h \in 1..Len(actions) /\ h - 1 \in Nat /\ h - 1 \in 0..K
        /\ (h - 1) + 1 = h /\ ~ (h <= h - 1)
    BY <1>1, <2>3, <2>4
  <2>6. Reached(h - 1) = Post(actions, h - 1)
    BY <2>3, <2>5
  <2>7. Reached((h - 1) + 1) = Effect(Reached(h - 1), Acts[(h - 1) + 1])
    <3> DEFINE j == h - 1
    <3>1. j \in Nat
      BY <2>5
    <3> HIDE DEF j
    <3>2. Reached(j + 1) = Effect(Reached(j), Acts[j + 1])
      BY <1>2, <3>1, StateByMore DEF Reached
    <3>3. QED
      BY <3>2 DEF j
  <2>8. Post(actions, h) = Effect(actions[h].pre, actions[h].action)
    BY <2>4 DEF Post
  <2>9. Reached(h) = Effect(actions[h].pre, actions[h].action)
    BY <1>1, <2>5, <2>6, <2>7
  <2>10. QED
    BY <2>3, <2>8, <2>9
<1>4. \A n \in 0..K : Reached(n) = Post(actions, n)
  BY <1>3
<1>5. \A n \in 1..K : actions[n].pre = Reached(n - 1)
  <2>1. TAKE n \in 1..K
  <2>2. n - 1 \in 0..K
    BY <1>1
  <2>3. QED
    BY <1>1, <1>4, <2>2
<1>6. QED
  BY <1>4, <1>5 DEF K

(* The events from a time on are the last ones.                            *)
FromPlace(u, a) ==
  /\ a \in 1..(Len(actions) + 1)
  /\ \A n \in 1..Len(actions) : TimeOf(actions, n) >= u <=> n >= a

(* There is a first event at or after a time.                              *)
LEMMA PlaceOf ==
  ASSUME TraceInv, NEW u \in Int
  PROVE  \E a : FromPlace(u, a)
<1> DEFINE later == {n \in 1..Len(actions) : TimeOf(actions, n) >= u}
<1>1. /\ Len(actions) \in Nat /\ \A n \in 1..Len(actions) : TimeOf(actions, n) \in Nat
      /\ \A j, k \in 1..Len(actions) : j < k => TimeOf(actions, j) <= TimeOf(actions, k)
  BY TraceLast DEF TraceInv, Timely, InTime
<1>2. CASE later = {}
  <2>1. Len(actions) + 1 \in 1..(Len(actions) + 1)
        /\ \A n \in 1..Len(actions) : ~ (n >= Len(actions) + 1)
    BY <1>1
  <2>2. FromPlace(u, Len(actions) + 1)
    BY <1>2, <2>1 DEF FromPlace
  <2>3. QED
    BY <2>2
<1>3. CASE later # {}
  <2>1. later \subseteq Nat
    OBVIOUS
  <2>2. PICK a \in later : \A n \in later : a <= n
    BY <1>3, <2>1, LeastElement
  <2>3. ASSUME NEW n \in 1..Len(actions), n >= a PROVE TimeOf(actions, n) >= u
    <3>1. a \in 1..Len(actions) /\ TimeOf(actions, a) >= u
      BY <2>2
    <3>2. n = a \/ a < n
      BY <2>3, <3>1
    <3>3. TimeOf(actions, a) <= TimeOf(actions, n)
      BY <1>1, <3>1, <3>2
    <3>4. TimeOf(actions, a) \in Nat /\ TimeOf(actions, n) \in Nat
      BY <1>1, <3>1
    <3>5. QED
      BY <3>1, <3>3, <3>4
  <2>4. FromPlace(u, a)
    BY <1>1, <2>2, <2>3 DEF FromPlace
  <2>5. QED
    BY <2>4
<1>4. QED
  BY <1>2, <1>3

(* The events of a clip are from a to b.                                   *)
ClipPlaces(clip, a, b) ==
  /\ a \in 1..(Len(actions) + 1) /\ b \in (a - 1)..Len(actions)
  /\ \A n \in 1..Len(actions) : /\ InClip(clip, TimeOf(actions, n)) <=> n \in a..b
                                /\ TimeOf(actions, n) >= clip.start <=> n >= a

(* The events in the range of a clip are next to each other.               *)
LEMMA ClipHasPlaces ==
  ASSUME TraceInv, NEW clip, clip.start \in Int, clip.end \in Int, clip.start < clip.end
  PROVE  \E a, b : ClipPlaces(clip, a, b)
<1>1. Len(actions) \in Nat /\ \A n \in 1..Len(actions) : TimeOf(actions, n) \in Nat
  BY TraceLast
<1>2. PICK a : FromPlace(clip.start, a)
  BY PlaceOf
<1>3. PICK e : FromPlace(clip.end, e)
  BY PlaceOf
<1>4. /\ a \in 1..(Len(actions) + 1) /\ e \in 1..(Len(actions) + 1)
      /\ \A n \in 1..Len(actions) : TimeOf(actions, n) >= clip.start <=> n >= a
      /\ \A n \in 1..Len(actions) : TimeOf(actions, n) >= clip.end <=> n >= e
  BY <1>2, <1>3 DEF FromPlace
<1>5. a <= e
  <2>1. SUFFICES ASSUME e < a PROVE FALSE
    BY <1>4
  <2>2. e \in 1..Len(actions) /\ ~ (e >= a) /\ e >= e
    BY <1>1, <1>4, <2>1
  <2>3. TimeOf(actions, e) >= clip.end /\ ~ (TimeOf(actions, e) >= clip.start)
    BY <1>4, <2>2
  <2>4. TimeOf(actions, e) \in Nat
    BY <1>1, <2>2
  <2>5. QED
    BY <2>3, <2>4
<1>6. e - 1 \in (a - 1)..Len(actions)
  BY <1>1, <1>4, <1>5
<1>7. ASSUME NEW n \in 1..Len(actions)
      PROVE  InClip(clip, TimeOf(actions, n)) <=> n \in a..(e - 1)
  <2>1. TimeOf(actions, n) \in Nat
    BY <1>1
  <2>2. InClip(clip, TimeOf(actions, n)) <=>
           TimeOf(actions, n) >= clip.start /\ ~ (TimeOf(actions, n) >= clip.end)
    BY <2>1 DEF InClip
  <2>3. QED
    BY <1>4, <2>2
<1>8. ClipPlaces(clip, a, e - 1)
  BY <1>4, <1>6, <1>7 DEF ClipPlaces
<1>9. QED
  BY <1>8
-----------------------------------------------------------------------------
(* The state that a clip begins in.                                        *)
StartsIn(clip, a) ==
  /\ StateAt(clip) \in State(Caps)
  /\ TrueState(clip.start) = Reached(a - 1)
  /\ StateAt(clip) = Reached(a - 1) \/ OnlyClocksFrom(clip.start)
  /\ a <= LastSet(actions) \/ LastSet(actions) = Len(actions) => StateAt(clip) = Reached(a - 1)

(* generate_clip takes the state of the first event that is not before the *)
(* start.                                                                  *)
LEMMA StateAtIs ==
  ASSUME TraceInv, NEW clip, NEW a, NEW b, ClipPlaces(clip, a, b)
  PROVE  StateAt(clip) = IF a <= Len(actions) THEN actions[a].pre
                         ELSE Post(actions, Len(actions))
<1> DEFINE later == {n \in DOMAIN actions : actions[n].action.time >= clip.start}
<1>1. Len(actions) \in Nat /\ DOMAIN actions = 1..Len(actions) /\ actions \in Seq(Entry(Caps))
  BY TraceLast
<1>2. /\ a \in 1..(Len(actions) + 1)
      /\ \A n \in 1..Len(actions) : TimeOf(actions, n) >= clip.start <=> n >= a
  BY DEF ClipPlaces
<1>3. StateAt(clip) = IF later # {} THEN actions[Min(later)].pre
                      ELSE IF actions # <<>> THEN StateAfter(actions) ELSE initial_state
  BY DEF StateAt
<1>4. \A n : n \in later <=> n \in 1..Len(actions) /\ n >= a
  BY <1>1, <1>2 DEF TimeOf
<1> HIDE DEF later
<1>5. CASE a <= Len(actions)
  <2>1. a \in later
    BY <1>1, <1>2, <1>4, <1>5
  <2>2. later \subseteq Nat /\ later # {}
    BY <1>1, <1>4, <2>1
  <2>3. Min(later) \in later /\ \A n \in later : Min(later) <= n
    BY <2>2, MinIs
  <2>4. Min(later) = a
    <3>1. Min(later) <= a /\ Min(later) >= a /\ Min(later) \in 1..Len(actions)
      BY <1>4, <2>1, <2>3
    <3>2. QED
      BY <1>2, <3>1
  <2>5. QED
    BY <1>3, <1>5, <2>2, <2>4
<1>6. CASE ~ (a <= Len(actions))
  <2>1. later = {}
    BY <1>1, <1>2, <1>4, <1>6
  <2>2. CASE actions = <<>>
    <3>1. Len(actions) = 0
      BY <2>2
    <3>2. QED
      BY <1>3, <1>6, <2>1, <2>2, <3>1 DEF Post
  <2>3. CASE actions # <<>>
    <3>1. Len(actions) # 0 /\ Last(actions) = actions[Len(actions)]
      BY <1>1, <2>3 DEF Last
    <3>2. StateAfter(actions) = Post(actions, Len(actions))
      BY <3>1 DEF StateAfter, Post
    <3>3. QED
      BY <1>3, <1>6, <2>1, <2>3, <3>2
  <2>4. QED
    BY <2>2, <2>3
<1>7. QED
  BY <1>5, <1>6

(* The state at a time is the one the events before it lead to.            *)
LEMMA TrueStateIs ==
  ASSUME TraceInv, NEW clip, NEW a, NEW b, ClipPlaces(clip, a, b), clip.start \in Int
  PROVE  TrueState(clip.start) = Reached(a - 1)
<1> DEFINE earlier == {n \in DOMAIN Acts : Acts[n].time < clip.start}
<1>1. /\ Len(actions) \in Nat /\ DOMAIN Acts = 1..Len(actions)
      /\ \A n \in 1..Len(actions) : Acts[n] = actions[n].action /\ TimeOf(actions, n) \in Nat
  BY TraceLast
<1>2. /\ a \in 1..(Len(actions) + 1)
      /\ \A n \in 1..Len(actions) : TimeOf(actions, n) >= clip.start <=> n >= a
  BY DEF ClipPlaces
<1>3. TrueState(clip.start) = StateBy(initial_state, Acts, Cardinality(earlier))
  BY DEF TrueState, Acts
<1>4. \A n : n \in earlier <=> n \in 1..Len(actions) /\ TimeOf(actions, n) < clip.start
  BY <1>1 DEF TimeOf
<1> HIDE DEF earlier
<1>5. \A n \in 1..Len(actions) : TimeOf(actions, n) < clip.start <=> n < a
  <2>1. TAKE n \in 1..Len(actions)
  <2>2. TimeOf(actions, n) < clip.start <=> ~ (TimeOf(actions, n) >= clip.start)
    BY <1>1
  <2>3. QED
    BY <1>2, <2>2
<1>6. earlier = 1..(a - 1)
  <2>1. \A n : n \in 1..(a - 1) <=> n \in 1..Len(actions) /\ n < a
    BY <1>1, <1>2
  <2>2. \A n : n \in earlier <=> n \in 1..(a - 1)
    BY <1>4, <1>5, <2>1
  <2>3. QED
    BY <2>2
<1>7. Cardinality(1..(a - 1)) = a - 1
  <2>1. 1 \in Int /\ a - 1 \in Int /\ a - 1 >= 0
    BY <1>2
  <2>2. Cardinality(1..(a - 1)) = IF 1 > a - 1 THEN 0 ELSE (a - 1) - 1 + 1
    BY <2>1, FS_Interval
  <2>3. QED
    BY <2>1, <2>2
<1>8. QED
  BY <1>3, <1>6, <1>7 DEF Reached

(* So a clip starts in the state of its first event, or where nothing is   *)
(* written any more.                                                       *)
LEMMA ClipStarts ==
  ASSUME TraceInv, NEW clip, NEW a, NEW b, ClipPlaces(clip, a, b), clip.start \in Int
  PROVE  StartsIn(clip, a)
<1> DEFINE L == Len(actions)
           K == LastSet(actions)
           s == StateAt(clip)
<1>1. /\ L \in Nat /\ K \in 0..L /\ Caps \in SUBSET Cap /\ initial_state \in State(Caps)
      /\ \A n \in 1..L : TimeOf(actions, n) \in Nat /\ actions[n] \in Entry(Caps)
      /\ \A n \in (K + 1)..L : Kind(actions, n) # "set"
  BY TraceLast
<1>2. /\ a \in 1..(L + 1)
      /\ \A n \in 1..L : TimeOf(actions, n) >= clip.start <=> n >= a
  BY DEF ClipPlaces
<1>3. s = IF a <= L THEN actions[a].pre ELSE Post(actions, L)
  BY StateAtIs
<1>4. TrueState(clip.start) = Reached(a - 1)
  BY TrueStateIs
<1>5. /\ \A n \in 0..K : Reached(n) = Post(actions, n)
      /\ \A n \in 1..K : actions[n].pre = Reached(n - 1)
  BY TraceStates
<1> HIDE DEF L, K, s
<1>6. s \in State(Caps)
  <2>1. CASE a <= L
    <3>1. actions[a] \in Entry(Caps)
      BY <1>1, <1>2, <2>1
    <3>2. QED
      BY <1>3, <2>1, <3>1 DEF Entry
  <2>2. CASE ~ (a <= L) /\ L = 0
    BY <1>1, <1>3, <2>2 DEF Post
  <2>3. CASE ~ (a <= L) /\ L # 0
    <3>1. actions[L] \in Entry(Caps)
      BY <1>1, <2>3
    <3>2. actions[L].pre \in State(Caps) /\ actions[L].action \in Action(Caps)
      BY <1>1, <3>1, EntryFacts
    <3>3. Effect(actions[L].pre, actions[L].action) \in State(Caps)
      BY <1>1, <3>2, EffectType
    <3>4. QED
      BY <1>3, <2>3, <3>3 DEF Post
  <2>4. QED
    BY <2>1, <2>2, <2>3
<1>7. ASSUME a <= K \/ K = L PROVE s = Reached(a - 1)
  <2>1. CASE a <= L
    <3>1. a \in 1..K
      BY <1>1, <1>2, <1>7, <2>1
    <3>2. QED
      BY <1>3, <1>5, <2>1, <3>1
  <2>2. CASE ~ (a <= L)
    <3>1. a - 1 = L /\ L \in 0..K
      BY <1>1, <1>2, <1>7, <2>2
    <3>2. QED
      BY <1>3, <1>5, <2>2, <3>1
  <2>3. QED
    BY <2>1, <2>2
<1>8. ASSUME ~ (a <= K \/ K = L) PROVE OnlyClocksFrom(clip.start)
  <2>1. K < L
    BY <1>1, <1>8
  <2>2. ASSUME NEW n \in 1..K PROVE actions[n].action.time < clip.start
    <3>1. n \in 1..L /\ ~ (n >= a)
      BY <1>1, <1>2, <1>8
    <3>2. TimeOf(actions, n) \in Nat /\ ~ (TimeOf(actions, n) >= clip.start)
      BY <1>1, <1>2, <3>1
    <3>3. QED
      BY <3>2 DEF TimeOf
  <2>3. QED
    BY <2>1, <2>2 DEF OnlyClocksFrom, K, L
<1>9. QED
  BY <1>4, <1>6, <1>7, <1>8 DEF StartsIn, s, K, L
-----------------------------------------------------------------------------
(* A clip that is cut out of the trace, whose events are from a to b.      *)
ClipActs(e) == [n \in DOMAIN e.actions |-> e.actions[n].action]
CutOut(e, clip, a, b) ==
  /\ e = [start |-> clip.start, end |-> clip.end, state |-> StateAt(clip), actions |-> e.actions]
  /\ \E T : e.actions \in Seq(T)
  /\ Len(e.actions) = b - a + 1
  /\ \A n \in 1..(b - a + 1) :
        /\ e.actions[n].action = Acts[(a - 1) + n]
        /\ e.actions[n].pre = StateBy(StateAt(clip), ClipActs(e), n - 1)

(* The events in the clip, in the states that they lead to, all change     *)
(* something but the first.                                                *)
Timed(state, list) == [n \in DOMAIN list |-> At(list[n], StateBy(state, list, n - 1))]
Needed(state, list, n) ==
  n = 1 \/ list[n].kind # "set" \/ Timed(state, list)[n].pre[list[n].cap] # list[n].value

(* A clip is built of all events when none of them is left out as empty.   *)
LEMMA BuiltAll ==
  ASSUME NEW state, NEW T, NEW list \in Seq(T), \A n \in 1..Len(list) : Needed(state, list, n)
  PROVE  Built(state, list) = Timed(state, list)
<1> DEFINE timed == Timed(state, list)
           U == {timed[n] : n \in 1..Len(list)}
<1>1. DOMAIN list = 1..Len(list) /\ Len(list) \in Nat
  OBVIOUS
<1>2. Built(state, list) = Picked(timed, {n \in DOMAIN list : Needed(state, list, n)})
  BY DEF Built, Timed, Needed
<1>3. {n \in DOMAIN list : Needed(state, list, n)} = 1..Len(list)
  BY <1>1
<1>4. timed = [n \in 1..Len(list) |-> timed[n]]
  BY <1>1 DEF Timed
<1> HIDE DEF timed
<1>5. timed \in Seq(U) /\ Len(timed) = Len(list)
  <2>1. timed \in [1..Len(list) -> U]
    BY <1>4
  <2> HIDE DEF U
  <2>2. QED
    BY <1>1, <2>1
<1> HIDE DEF U
<1>6. Picked(timed, 1..Len(timed)) = timed
  BY <1>5, PickedAll
<1>7. QED
  BY <1>2, <1>3, <1>5, <1>6 DEF timed

(* What is inside.                                                         *)
Inside(a, b) == [n \in 1..(b - a + 1) |-> Acts[(a - 1) + n]]

(* The clip that generate_clip makes of the events from a to b.            *)
LEMMA InsideIs ==
  ASSUME TraceInv, NEW clip, NEW a, NEW b, ClipPlaces(clip, a, b)
  PROVE  /\ GenerateClip(clip) =
               [start |-> clip.start, end |-> clip.end, state |-> StateAt(clip),
                actions |-> Built(StateAt(clip), Inside(a, b))]
         /\ Inside(a, b) \in Seq(Action(Caps)) /\ Len(Inside(a, b)) = b - a + 1
         /\ b - a + 1 \in Nat
         /\ \A n \in 1..(b - a + 1) : (a - 1) + n \in 1..Len(actions)
<1> DEFINE inside == Picked(actions, {n \in DOMAIN actions : InClip(clip, actions[n].action.time)})
           list == [n \in DOMAIN inside |-> inside[n].action]
           N == b - a + 1
<1>1. /\ actions \in Seq(Entry(Caps)) /\ Len(actions) \in Nat /\ Caps \in SUBSET Cap
      /\ DOMAIN actions = 1..Len(actions)
      /\ \A n \in 1..Len(actions) : Acts[n] = actions[n].action /\ actions[n] \in Entry(Caps)
  BY TraceLast
<1>2. /\ a \in 1..(Len(actions) + 1) /\ b \in (a - 1)..Len(actions)
      /\ \A n \in 1..Len(actions) : InClip(clip, TimeOf(actions, n)) <=> n \in a..b
  BY DEF ClipPlaces
<1>3. N \in Nat /\ \A n \in 1..N : (a - 1) + n \in 1..Len(actions)
  BY <1>1, <1>2
<1>4. {n \in DOMAIN actions : InClip(clip, actions[n].action.time)} = a..b
  <2>1. \A n \in 1..Len(actions) : InClip(clip, actions[n].action.time) <=> n \in a..b
    BY <1>2 DEF TimeOf
  <2>2. \A n : n \in a..b => n \in 1..Len(actions)
    BY <1>1, <1>2
  <2>3. QED
    BY <1>1, <2>1, <2>2
<1>5. inside = SubSeq(actions, a, b)
  BY <1>1, <1>2, <1>4, PickedInterval
<1>6. SubSeq(actions, a, b) = [n \in 1..N |-> actions[(a - 1) + n]]
  <2>1. SubSeq(actions, a, b) = [n \in 1..N |-> actions[a + n - 1]]
    BY <1>1, <1>2
  <2>2. \A n \in 1..N : a + n - 1 = (a - 1) + n
    BY <1>2
  <2>3. QED
    BY <2>1, <2>2
<1>7. \A n \in 1..N : actions[(a - 1) + n].action = Acts[(a - 1) + n]
  BY <1>1, <1>3
<1>8. inside = [n \in 1..N |-> actions[(a - 1) + n]]
  BY <1>5, <1>6
<1> HIDE DEF inside
<1>9. list = Inside(a, b)
  BY <1>7, <1>8 DEF Inside
<1>10. \A n \in 1..N : Acts[(a - 1) + n] \in Action(Caps)
  <2>1. TAKE n \in 1..N
  <2>2. (a - 1) + n \in 1..Len(actions)
    BY <1>3
  <2>3. actions[(a - 1) + n] \in Entry(Caps)
    BY <1>1, <2>2
  <2>4. QED
    BY <1>7, <2>3 DEF Entry
<1>11. Inside(a, b) \in Seq(Action(Caps)) /\ Len(Inside(a, b)) = N
  BY <1>3, <1>10 DEF Inside
<1>12. GenerateClip(clip) = [start |-> clip.start, end |-> clip.end, state |-> StateAt(clip),
                             actions |-> Built(StateAt(clip), list)]
  BY DEF GenerateClip, inside
<1>13. QED
  BY <1>3, <1>9, <1>11, <1>12

(* No event of a clip is left out as one that changes nothing.             *)
LEMMA InsideNeeded ==
  ASSUME TraceInv, NEW clip, NEW a, NEW b, ClipPlaces(clip, a, b), clip.start \in Int,
         NEW n \in 1..(b - a + 1)
  PROVE  Needed(StateAt(clip), Inside(a, b), n)
<1> DEFINE s == StateAt(clip)
           list == Inside(a, b)
           K == LastSet(actions)
           m == (a - 1) + n
<1>1. /\ Len(actions) \in Nat /\ K \in 0..Len(actions)
      /\ \A i \in 1..Len(actions) : Acts[i] = actions[i].action
      /\ \A i \in (K + 1)..Len(actions) : Kind(actions, i) # "set"
  BY TraceLast
<1>2. a \in 1..(Len(actions) + 1) /\ b \in (a - 1)..Len(actions)
  BY DEF ClipPlaces
<1>3. m \in 1..Len(actions) /\ n \in Nat /\ n >= 1 /\ m >= a /\ m \in Nat
  BY <1>1, <1>2
<1>4. /\ \A i \in 1..(b - a + 1) : list[i] = Acts[(a - 1) + i]
      /\ DOMAIN list = 1..(b - a + 1)
  BY DEF Inside
<1> HIDE DEF s, list, K
<1>5. list[n] = actions[m].action
  BY <1>1, <1>3, <1>4
<1>6. SUFFICES ASSUME n # 1, list[n].kind = "set"
               PROVE  StateBy(s, list, n - 1)[list[n].cap] # list[n].value
  <2>1. Timed(s, list)[n].pre = StateBy(s, list, n - 1)
    BY <1>4 DEF Timed, At
  <2>2. QED
    BY <2>1 DEF Needed, s, list
<1>7. m \in 1..K /\ a <= K
  <2>1. Kind(actions, m) = "set"
    BY <1>5, <1>6 DEF Kind
  <2>2. m \in 1..K
    BY <1>1, <1>3, <2>1
  <2>3. QED
    BY <1>1, <1>2, <1>3, <2>2
<1>8. s = Reached(a - 1)
  BY <1>7, ClipStarts DEF StartsIn, s, K
<1>9. StateBy(s, list, n - 1) = Reached(m - 1)
  <2> DEFINE i == a - 1
             j == n - 1
  <2>1. i \in Nat /\ j \in Nat /\ i + j = m - 1
    BY <1>2, <1>3
  <2>2. Follows(list, Acts, i, j)
    <3>1. \A k \in 1..j : k \in 1..(b - a + 1)
      BY <1>2, <1>3
    <3>2. QED
      BY <1>4, <3>1 DEF Follows
  <2>3. s = StateBy(initial_state, Acts, i)
    BY <1>8 DEF Reached
  <2> HIDE DEF i, j
  <2>4. StateBy(StateBy(initial_state, Acts, i), list, j) = StateBy(initial_state, Acts, i + j)
    BY <2>1, <2>2, StateByShift
  <2>5. StateBy(s, list, j) = Reached(m - 1)
    BY <2>1, <2>3, <2>4, Zenon DEF Reached
  <2>6. QED
    BY <2>5 DEF j
<1>10. actions[m].pre = Reached(m - 1)
  BY <1>7, TraceStates DEF K
<1>11. actions[m].pre[actions[m].action.cap] # actions[m].action.value
  <2>1. m # 1
    BY <1>2, <1>3, <1>6
  <2>2. Kind(actions, m) = "set"
    BY <1>5, <1>6 DEF Kind
  <2>3. Changes(actions)
    BY DEF TraceInv, Changing
  <2> HIDE DEF m
  <2>4. QED
    BY <1>3, <2>1, <2>2, <2>3 DEF Changes
<1>12. QED
  BY <1>5, <1>9, <1>10, <1>11

(* So the clip has each of its events once, in order.                      *)
LEMMA ClipIs ==
  ASSUME TraceInv, NEW clip, NEW a, NEW b, ClipPlaces(clip, a, b), clip.start \in Int
  PROVE  CutOut(GenerateClip(clip), clip, a, b)
<1> DEFINE s == StateAt(clip)
           list == Inside(a, b)
           N == b - a + 1
           e == GenerateClip(clip)
           timed == Timed(s, list)
           U == {timed[n] : n \in 1..N}
<1>1. /\ e = [start |-> clip.start, end |-> clip.end, state |-> s, actions |-> Built(s, list)]
      /\ list \in Seq(Action(Caps)) /\ Len(list) = N /\ N \in Nat
  BY InsideIs
<1>2. \A n \in 1..N : Needed(s, list, n) /\ list[n] = Acts[(a - 1) + n]
  BY InsideNeeded DEF Inside
<1> HIDE DEF s, list, e, N
<1>3. Built(s, list) = timed
  BY <1>1, <1>2, BuiltAll
<1>4. timed = [n \in 1..N |-> At(list[n], StateBy(s, list, n - 1))]
  BY <1>1 DEF Timed
<1> HIDE DEF timed
<1>5. timed \in Seq(U) /\ Len(timed) = N
  <2>1. timed \in [1..N -> U]
    BY <1>4
  <2> HIDE DEF U
  <2>2. QED
    BY <1>1, <2>1
<1> HIDE DEF U
<1>6. e.actions = timed /\ DOMAIN timed = 1..N
      /\ e = [start |-> clip.start, end |-> clip.end, state |-> s, actions |-> e.actions]
  BY <1>1, <1>3, <1>4
<1>7. \A n \in 1..N : timed[n].action = list[n] /\ timed[n].pre = StateBy(s, list, n - 1)
  BY <1>4 DEF At
<1>8. ClipActs(e) = list
  <2>1. ClipActs(e) = [n \in 1..N |-> list[n]]
    BY <1>6, <1>7 DEF ClipActs
  <2>2. list = [n \in 1..N |-> list[n]]
    BY <1>1
  <2>3. QED
    BY <2>1, <2>2
<1>9. \A n \in 1..N : /\ e.actions[n].action = Acts[(a - 1) + n]
                      /\ e.actions[n].pre = StateBy(s, ClipActs(e), n - 1)
  BY <1>2, <1>6, <1>7, <1>8
<1>10. (\E T : e.actions \in Seq(T)) /\ Len(e.actions) = N
  BY <1>5, <1>6
<1>11. QED
  BY <1>6, <1>9, <1>10 DEF CutOut, e, s, N
-----------------------------------------------------------------------------
(* What the properties say of one episode.                                 *)
AskedFor(clip, a) == /\ clip.start <= a.time /\ a.time < clip.end
                     /\ a.kind = "set" => a.cap \in DOMAIN clip.state
EventsIn(clip) ==
  ClipActs(clip) = Picked(Acts, {n \in DOMAIN actions : AskedFor(clip, actions[n].action)})
StateIn(clip) ==
  /\ \/ OnlyClocksFrom(clip.start)
     \/ clip.state = [cap \in DOMAIN clip.state |-> TrueState(clip.start)[cap]]
  /\ \A n \in DOMAIN ClipActs(clip) :
        clip.actions[n].pre = StateBy(clip.state, ClipActs(clip), n - 1)

(* The properties of all episodes say the same of each one.                *)
LEMMA EachEpisode ==
  (ClipKeepsEvents /\ ClipStateTrue) <=>
     \A k \in DOMAIN episodes : EventsIn(episodes[k]) /\ StateIn(episodes[k])
<1>1. ClipKeepsEvents <=> \A k \in DOMAIN episodes : EventsIn(episodes[k])
  BY DEF ClipKeepsEvents, EventsIn, AskedFor, ClipActs, Acts
<1>2. ClipStateTrue <=> \A k \in DOMAIN episodes : StateIn(episodes[k])
  BY DEF ClipStateTrue, StateIn, ClipActs
<1>3. QED
  BY <1>1, <1>2

(* An action that is in the range of a clip.                               *)
LEMMA InRange ==
  ASSUME TraceInv, NEW clip, NEW a, NEW b, ClipPlaces(clip, a, b),
         clip.start \in Int, clip.end \in Int
  PROVE  \A n \in 1..Len(actions) :
            (clip.start <= actions[n].action.time /\ actions[n].action.time < clip.end)
               <=> n \in a..b
<1>1. /\ \A n \in 1..Len(actions) : TimeOf(actions, n) \in Nat
      /\ \A n \in 1..Len(actions) : InClip(clip, TimeOf(actions, n)) <=> n \in a..b
  BY TraceLast DEF ClipPlaces
<1>2. TAKE n \in 1..Len(actions)
<1>3. TimeOf(actions, n) \in Nat /\ (InClip(clip, TimeOf(actions, n)) <=> n \in a..b)
  BY <1>1
<1>4. InClip(clip, TimeOf(actions, n)) <=>
         clip.start <= TimeOf(actions, n) /\ TimeOf(actions, n) < clip.end
  BY <1>3 DEF InClip
<1>5. QED
  BY <1>3, <1>4 DEF TimeOf

(* A clip that is cut out has the events in its range and the states they  *)
(* happened in.                                                            *)
LEMMA CutOutTrue ==
  ASSUME TraceInv, NEW clip, NEW a, NEW b, ClipPlaces(clip, a, b),
         clip.start \in Int, clip.end \in Int, NEW e, CutOut(e, clip, a, b)
  PROVE  EventsIn(e) /\ StateIn(e)
<1> DEFINE N == b - a + 1
<1>1. /\ actions \in Seq(Entry(Caps)) /\ Len(actions) \in Nat /\ Caps \in SUBSET Cap
      /\ DOMAIN actions = 1..Len(actions) /\ DOMAIN Acts = 1..Len(actions)
      /\ \A n \in 1..Len(actions) : Acts[n] = actions[n].action /\ actions[n] \in Entry(Caps)
  BY TraceLast
<1>2. a \in 1..(Len(actions) + 1) /\ b \in (a - 1)..Len(actions)
  BY DEF ClipPlaces
<1>3. /\ e.start = clip.start /\ e.end = clip.end /\ e.state = StateAt(clip)
      /\ DOMAIN e.actions = 1..N /\ N \in Nat
      /\ \A n \in 1..N : /\ e.actions[n].action = Acts[(a - 1) + n]
                         /\ e.actions[n].pre = StateBy(StateAt(clip), ClipActs(e), n - 1)
  <2>1. PICK T : e.actions \in Seq(T)
    BY DEF CutOut
  <2>2. Len(e.actions) = N
    BY DEF CutOut
  <2>3. DOMAIN e.actions = 1..N /\ N \in Nat
    BY <2>1, <2>2
  <2>4. e = [start |-> clip.start, end |-> clip.end, state |-> StateAt(clip),
             actions |-> e.actions]
    BY DEF CutOut
  <2>5. e.start = clip.start /\ e.end = clip.end /\ e.state = StateAt(clip)
    BY <2>4
  <2>6. QED
    BY <2>3, <2>5 DEF CutOut
<1>4. StartsIn(clip, a)
  BY ClipStarts
<1>5. StateAt(clip) \in State(Caps) /\ DOMAIN StateAt(clip) = Caps
  BY <1>4 DEF StartsIn, State
<1>6. {n \in DOMAIN actions : AskedFor(e, actions[n].action)} = a..b
  <2>1. ASSUME NEW n \in 1..Len(actions) PROVE AskedFor(e, actions[n].action) <=> n \in a..b
    <3>1. actions[n].action.kind = "set" => actions[n].action.cap \in Caps
      <4>1. actions[n] \in Entry(Caps)
        BY <1>1
      <4>2. actions[n].action.kind = "set" => actions[n].action \in SetAction(Caps)
        BY <1>1, <4>1, EntryFacts
      <4>3. QED
        BY <4>2 DEF SetAction
    <3>2. (clip.start <= actions[n].action.time /\ actions[n].action.time < clip.end)
             <=> n \in a..b
      BY InRange
    <3>3. QED
      BY <1>3, <1>5, <3>1, <3>2 DEF AskedFor
  <2>2. \A n : n \in a..b => n \in 1..Len(actions)
    BY <1>1, <1>2
  <2>3. QED
    BY <1>1, <2>1, <2>2
<1>7. Picked(Acts, a..b) = [n \in 1..N |-> Acts[(a - 1) + n]]
  <2> DEFINE list == Acts
             T == Action(Caps)
  <2>1. list \in Seq(T) /\ Len(list) = Len(actions)
    <3>1. \A n \in 1..Len(actions) : actions[n].action \in T
      BY <1>1 DEF Entry
    <3>2. Acts = [n \in 1..Len(actions) |-> actions[n].action]
      BY <1>1 DEF Acts
    <3> HIDE DEF T
    <3>3. QED
      BY <1>1, <3>1, <3>2
  <2>2. a \in 1..(Len(list) + 1) /\ b \in (a - 1)..Len(list) /\ Len(list) \in Nat
    BY <1>1, <1>2, <2>1
  <2> HIDE DEF list, T
  <2>3. Picked(list, a..b) = SubSeq(list, a, b)
    BY <2>1, <2>2, PickedInterval
  <2>4. SubSeq(list, a, b) = [n \in 1..N |-> list[a + n - 1]]
    BY <2>1, <2>2
  <2>5. \A n \in 1..N : a + n - 1 = (a - 1) + n
    BY <2>2
  <2>6. QED
    BY <2>3, <2>4, <2>5 DEF list
<1> HIDE DEF N
<1>8. ClipActs(e) = [n \in 1..N |-> Acts[(a - 1) + n]]
  BY <1>3 DEF ClipActs
<1>9. EventsIn(e)
  BY <1>6, <1>7, <1>8 DEF EventsIn
<1>10. StateIn(e)
  <2>1. OnlyClocksFrom(clip.start)
        \/ StateAt(clip) = [cap \in DOMAIN StateAt(clip) |-> TrueState(clip.start)[cap]]
    <3>1. CASE OnlyClocksFrom(clip.start)
      BY <3>1
    <3>2. CASE StateAt(clip) = TrueState(clip.start)
      <4>1. StateAt(clip) = [cap \in DOMAIN StateAt(clip) |-> StateAt(clip)[cap]]
        BY <1>5 DEF State
      <4>2. QED
        BY <3>2, <4>1
    <3>3. QED
      BY <1>4, <3>1, <3>2 DEF StartsIn
  <2>2. DOMAIN ClipActs(e) = 1..N
    BY <1>8
  <2>3. QED
    BY <1>3, <2>1, <2>2 DEF StateIn
<1>11. QED
  BY <1>9, <1>10

(* A clip is added.                                                        *)
LEMMA EpisodeAdded ==
  ASSUME \A k \in DOMAIN episodes : EventsIn(episodes[k]) /\ StateIn(episodes[k]),
         UNCHANGED vars, NEW e, EventsIn(e), StateIn(e), NEW T, episodes \in Seq(T),
         episodes' = Append(episodes, e)
  PROVE  (ClipKeepsEvents /\ ClipStateTrue)'
<1>1. /\ Len(episodes) \in Nat /\ DOMAIN episodes = 1..Len(episodes)
      /\ DOMAIN episodes' = 1..(Len(episodes) + 1)
      /\ \A k \in 1..Len(episodes) : episodes'[k] = episodes[k]
      /\ episodes'[Len(episodes) + 1] = e
  OBVIOUS
<1>2. \A k \in DOMAIN episodes' : EventsIn(episodes'[k]) /\ StateIn(episodes'[k])
  <2>1. TAKE k \in DOMAIN episodes'
  <2>2. k \in 1..Len(episodes) \/ k = Len(episodes) + 1
    BY <1>1
  <2>3. QED
    BY <1>1, <2>2
<1>3. /\ \A c : EventsIn(c)' <=> EventsIn(c)
      /\ \A c : StateIn(c)' <=> StateIn(c)
  <2>1. Acts' = Acts
    BY DEF Acts, vars
  <2>2. \A c : EventsIn(c)' <=> EventsIn(c)
    BY <2>1 DEF EventsIn, vars
  <2>3. \A t : TrueState(t)' = TrueState(t)
    BY DEF TrueState, vars
  <2>4. \A t : OnlyClocksFrom(t)' <=> OnlyClocksFrom(t)
    BY DEF OnlyClocksFrom, vars
  <2>5. \A c : StateIn(c)' <=> StateIn(c)
    BY <2>3, <2>4 DEF StateIn
  <2>6. QED
    BY <2>2, <2>5
<1>4. (\A k \in DOMAIN episodes : EventsIn(episodes[k]) /\ StateIn(episodes[k]))'
  BY <1>2, <1>3
<1>5. ((ClipKeepsEvents /\ ClipStateTrue) <=>
          \A k \in DOMAIN episodes : EventsIn(episodes[k]) /\ StateIn(episodes[k]))'
  BY EachEpisode, PTL
<1>6. QED
  BY <1>4, <1>5
-----------------------------------------------------------------------------
(* The next clip is cut.                                                   *)
LEMMA GenerateStep == ASSUME TraceInv, ClipInv, Generate PROVE ClipInv'
<1> DEFINE clip == time_clips[Len(episodes) + 1]
           e == GenerateClip(clip)
           R == Range(episodes)
<1>1. /\ view = "generate" /\ Len(episodes) < Len(time_clips) /\ episodes' = Append(episodes, e)
      /\ UNCHANGED <<vars, view, time_list, n_seen, held, time_clips>>
  BY DEF Generate
<1>2. ClipTypes /\ Found /\ EpisodesTrue /\ episodes \in Seq(R)
  BY DEF ClipInv, ClipTypes
<1> HIDE DEF R
<1>3. Len(episodes) \in Nat /\ Len(time_clips) \in Nat
  BY <1>2, ClipFacts
<1>4. Len(episodes) + 1 \in 1..Len(time_clips)
  BY <1>1, <1>3
<1>5. clip.start \in Int /\ clip.end \in Int /\ clip.start < clip.end
  BY <1>2, <1>4, ClipFacts DEF ClipTypes
<1> HIDE DEF clip
<1>6. EventsIn(e) /\ StateIn(e)
  <2>1. PICK a, b : ClipPlaces(clip, a, b)
    BY <1>5, ClipHasPlaces
  <2>2. CutOut(e, clip, a, b)
    BY <1>5, <2>1, ClipIs
  <2> HIDE DEF e
  <2>3. QED
    BY <1>5, <2>1, <2>2, CutOutTrue
<1> HIDE DEF e
<1>7. \A k \in DOMAIN episodes : EventsIn(episodes[k]) /\ StateIn(episodes[k])
  BY <1>2, EachEpisode DEF EpisodesTrue
<1>8. UNCHANGED vars
  BY <1>1
<1>9. (ClipKeepsEvents /\ ClipStateTrue)'
  BY <1>1, <1>2, <1>6, <1>7, <1>8, EpisodeAdded
<1>10. episodes' \in Seq(R \cup {e}) /\ Len(episodes') = Len(episodes) + 1
  BY <1>1, <1>2
<1>11. episodes' \in Seq(Range(episodes'))
  <2> DEFINE list == episodes'
             T == R \cup {e}
  <2>1. list \in Seq(T)
    BY <1>10
  <2> HIDE DEF list, T
  <2>2. list \in Seq(Range(list))
    BY <2>1, OfRange
  <2>3. QED
    BY <2>2 DEF list
<1>12. ClipTypes'
  <2>1. pc' = pc
    BY <1>8 DEF vars
  <2>2. QED
    BY <1>1, <1>2, <1>11, <2>1 DEF ClipTypes
<1>13. Len(episodes') \in 0..Len(time_clips')
  BY <1>1, <1>3, <1>10
<1>14. EpisodesTrue'
  BY <1>9, <1>13 DEF EpisodesTrue
<1>15. Finding' /\ Found'
  BY <1>1, <1>2 DEF Finding, Found
<1>16. QED
  BY <1>12, <1>14, <1>15 DEF ClipInv

-----------------------------------------------------------------------------
(* The clip of some capabilities: what the others did does not count.      *)
PicksCaps(list, left, q, M, N, caps) ==
  /\ N \in Nat /\ Lists(q, M, {n \in 1..N : list[n].cap \in caps})
  /\ \A n \in 1..M : left[n] = list[q[n]]

(* Actions on other capabilities do not change what is in the state of     *)
(* some.                                                                   *)
LEMMA StateByPicked ==
  ASSUME NEW state, NEW caps, caps \subseteq DOMAIN state, NEW list, NEW left, NEW q, NEW M, NEW N,
         PicksCaps(list, left, q, M, N, caps), NEW n \in 1..M
  PROVE  StateBy(Mask(state, caps), left, n - 1) = Mask(StateBy(state, list, q[n] - 1), caps)
<1> DEFINE Q == {m \in 1..N : list[m].cap \in caps}
           mask == Mask(state, caps)
           t == StateBy(mask, left, n - 1)
           s == StateBy(state, list, q[n] - 1)
           r == Mask(s, caps)
<1>1. /\ N \in Nat /\ M \in Nat /\ q \in [1..M -> Q]
      /\ \A i, j \in 1..M : i < j => q[i] < q[j]
      /\ \A m \in Q : \E k \in 1..M : q[k] = m
      /\ \A k \in 1..M : left[k] = list[q[k]]
  BY DEF PicksCaps, Lists
<1>2. \A m : m \in Q <=> m \in 1..N /\ list[m].cap \in caps
  OBVIOUS
<1> HIDE DEF Q
<1>3. /\ n \in Nat /\ n - 1 \in Nat /\ q[n] \in 1..N /\ q[n] - 1 \in Nat
      /\ \A k \in 1..M : q[k] \in 1..N
  BY <1>1, <1>2
<1>4. DOMAIN mask = caps /\ \A cap \in caps : mask[cap] = state[cap]
  BY DEF Mask
<1> HIDE DEF mask
<1>5. /\ t = [cap \in caps |-> t[cap]]
      /\ \A cap \in caps : NotWritten(left, n - 1, cap) => t[cap] = mask[cap]
      /\ \A cap \in caps : \A w : WrittenAt(left, n - 1, cap, w) => t[cap] = left[w].value
      /\ \A cap \in caps : NotWritten(left, n - 1, cap) \/ \E w : WrittenAt(left, n - 1, cap, w)
  <2> DEFINE j == n - 1
  <2>1. j \in Nat
    BY <1>3
  <2> HIDE DEF j
  <2>2. /\ StateBy(mask, left, j) = [cap \in caps |-> StateBy(mask, left, j)[cap]]
        /\ \A cap \in caps : NotWritten(left, j, cap) => StateBy(mask, left, j)[cap] = mask[cap]
        /\ \A cap \in caps : \A w :
              WrittenAt(left, j, cap, w) => StateBy(mask, left, j)[cap] = left[w].value
        /\ \A cap \in caps : NotWritten(left, j, cap) \/ \E w : WrittenAt(left, j, cap, w)
    BY <1>4, <2>1, StateByIs
  <2>3. QED
    BY <2>2 DEF j
<1>6. /\ \A cap \in caps : NotWritten(list, q[n] - 1, cap) => s[cap] = state[cap]
      /\ \A cap \in caps : \A w : WrittenAt(list, q[n] - 1, cap, w) => s[cap] = list[w].value
  <2> DEFINE j == q[n] - 1
  <2>1. j \in Nat
    BY <1>3
  <2> HIDE DEF j
  <2>2. /\ \A cap \in caps : NotWritten(list, j, cap) => StateBy(state, list, j)[cap] = state[cap]
        /\ \A cap \in caps : \A w :
              WrittenAt(list, j, cap, w) => StateBy(state, list, j)[cap] = list[w].value
    BY <2>1, StateByIs
  <2>3. QED
    BY <2>2 DEF j
<1>7. r = [cap \in caps |-> r[cap]] /\ \A cap \in caps : r[cap] = s[cap]
  BY DEF Mask
<1> HIDE DEF t, s, r
<1>8. ASSUME NEW cap \in caps, NEW m \in 1..(q[n] - 1), Writes(list[m], cap)
      PROVE  \E j \in 1..(n - 1) : q[j] = m /\ Writes(left[j], cap)
  <2>1. m \in Q
    <3>1. q[n] \in 1..N /\ N \in Nat
      BY <1>1, <1>3
    <3>2. m \in 1..N
      BY <3>1
    <3>3. list[m].cap \in caps
      BY <1>8 DEF Writes
    <3>4. QED
      BY <1>2, <3>2, <3>3
  <2>2. PICK j \in 1..M : q[j] = m
    BY <1>1, <2>1
  <2>3. ~ (n = j) /\ ~ (n < j)
    <3>1. q[j] < q[n] /\ q[j] \in Int /\ q[n] \in Int
      BY <1>3, <2>2
    <3>2. QED
      BY <1>1, <3>1
  <2>4. j \in 1..(n - 1)
    BY <1>1, <1>3, <2>3
  <2>5. QED
    BY <1>1, <1>8, <2>2, <2>4
<1>9. ASSUME NEW cap \in caps PROVE t[cap] = r[cap]
  <2>1. CASE NotWritten(left, n - 1, cap)
    <3>1. NotWritten(list, q[n] - 1, cap)
      BY <1>8, <2>1 DEF NotWritten
    <3>2. QED
      BY <1>4, <1>5, <1>6, <1>7, <2>1, <3>1
  <2>2. CASE \E w : WrittenAt(left, n - 1, cap, w)
    <3>1. PICK w : WrittenAt(left, n - 1, cap, w)
      BY <2>2
    <3>2. /\ w \in 1..(n - 1) /\ w \in 1..M /\ w < n /\ Writes(left[w], cap)
          /\ \A j \in (w + 1)..(n - 1) : ~ Writes(left[j], cap)
      BY <1>1, <1>3, <3>1 DEF WrittenAt
    <3>3. q[w] \in 1..N /\ q[w] < q[n] /\ left[w] = list[q[w]]
      BY <1>1, <1>3, <3>2
    <3>4. q[w] \in 1..(q[n] - 1)
      BY <1>3, <3>3
    <3>5. ASSUME NEW m \in (q[w] + 1)..(q[n] - 1) PROVE ~ Writes(list[m], cap)
      <4>1. SUFFICES ASSUME Writes(list[m], cap) PROVE FALSE
        OBVIOUS
      <4>2. m \in 1..(q[n] - 1) /\ q[w] < m
        BY <1>3, <3>3
      <4>3. PICK j \in 1..(n - 1) : q[j] = m /\ Writes(left[j], cap)
        BY <1>8, <4>1, <4>2
      <4>4. j \in 1..M /\ ~ (j = w) /\ ~ (j < w)
        <5>1. j \in 1..M
          BY <1>1, <1>3
        <5>2. q[w] < q[j] /\ q[j] \in Int /\ q[w] \in Int
          BY <1>3, <3>3, <4>2, <4>3, <5>1
        <5>3. QED
          BY <1>1, <3>2, <5>1, <5>2
      <4>5. j \in (w + 1)..(n - 1)
        BY <1>3, <3>2, <4>4
      <4>6. QED
        BY <3>2, <4>3, <4>5
    <3>6. WrittenAt(list, q[n] - 1, cap, q[w])
      BY <3>2, <3>3, <3>4, <3>5 DEF WrittenAt
    <3>7. QED
      BY <1>5, <1>6, <1>7, <3>1, <3>3, <3>6
  <2>3. QED
    BY <1>5, <2>1, <2>2
<1>10. t = r
  BY <1>5, <1>7, <1>9, SameState
<1>11. QED
  BY <1>10 DEF t, r, s, mask
-----------------------------------------------------------------------------
(* The clip of a trace as it was recorded, and of some capabilities.       *)
LEMMA OnlyCapsIs ==
  ASSUME NEW e, NEW T, e.actions \in Seq(T), NEW caps,
         NEW Q, Q = {n \in 1..Len(e.actions) : e.actions[n].action.cap \in caps},
         e = [start |-> e.start, end |-> e.end, state |-> e.state, actions |-> e.actions]
  PROVE  /\ OnlyCaps(e, caps).start = e.start /\ OnlyCaps(e, caps).end = e.end
         /\ OnlyCaps(e, caps).state = Mask(e.state, caps)
         /\ OnlyCaps(e, caps).actions =
               [n \in 1..Cardinality(Q) |-> At(e.actions[Ordered(Q)[n]].action,
                                               Mask(e.actions[Ordered(Q)[n]].pre, caps))]
         /\ Lists(Ordered(Q), Cardinality(Q), Q)
<1> DEFINE list == e.actions
           q == Ordered(Q)
           M == Cardinality(Q)
           left == Picked(list, {n \in DOMAIN list : list[n].action.cap \in caps})
           masked == [n \in DOMAIN left |-> At(left[n].action, Mask(left[n].pre, caps))]
<1>1. OnlyCaps(e, caps) = [e EXCEPT !.state = Mask(e.state, caps), !.actions = masked]
  BY DEF OnlyCaps, Mask
<1>2. DOMAIN list = 1..Len(list)
  OBVIOUS
<1>3. {n \in DOMAIN list : list[n].action.cap \in caps} = Q
  BY <1>2
<1>4. Q \subseteq 1..Len(list)
  OBVIOUS
<1> HIDE DEF list
<1>5. list \in Seq(T)
  BY DEF list
<1>6. Lists(q, M, Q) /\ Picked(list, Q) = Along(list, q, M)
  BY <1>4, <1>5, PickedIs
<1>7. left = [n \in 1..M |-> list[q[n]]]
  BY <1>3, <1>6 DEF Along
<1> HIDE DEF left, q, M
<1>8. masked = [n \in 1..M |-> At(list[q[n]].action, Mask(list[q[n]].pre, caps))]
  BY <1>7
<1> HIDE DEF masked
<1>9. /\ OnlyCaps(e, caps).start = e.start /\ OnlyCaps(e, caps).end = e.end
      /\ OnlyCaps(e, caps).state = Mask(e.state, caps) /\ OnlyCaps(e, caps).actions = masked
  BY <1>1
<1>10. QED
  BY <1>6, <1>8, <1>9 DEF list, q, M

(* A clip that is cut to some capabilities is still true.                  *)
LEMMA ManualTrue ==
  ASSUME TraceInv, pc = "sub", NEW clip, NEW a, NEW b, ClipPlaces(clip, a, b),
         clip.start \in Int, clip.end \in Int, NEW caps \in SUBSET Cap, NEW e, CutOut(e, clip, a, b)
  PROVE  EventsIn(OnlyCaps(e, caps)) /\ StateIn(OnlyCaps(e, caps))
<1> DEFINE N == b - a + 1
           Q == {n \in 1..N : e.actions[n].action.cap \in caps}
           q == Ordered(Q)
           M == Cardinality(Q)
           f == OnlyCaps(e, caps)
           o == [n \in 1..M |-> (a - 1) + q[n]]
           S == {n \in DOMAIN actions : AskedFor(f, actions[n].action)}
<1>1. /\ actions \in Seq(Entry(Caps)) /\ Len(actions) \in Nat
      /\ DOMAIN actions = 1..Len(actions)
      /\ \A n \in 1..Len(actions) : Acts[n] = actions[n].action
      /\ a \in 1..(Len(actions) + 1) /\ b \in (a - 1)..Len(actions)
  BY TraceLast DEF ClipPlaces
<1>2. /\ Caps = Cap /\ \A n \in 1..Len(actions) : Kind(actions, n) = "set"
  BY DEF TraceInv, Unused, Kinds
<1>3. PICK T : e.actions \in Seq(T)
  BY DEF CutOut
<1>4. /\ e = [start |-> clip.start, end |-> clip.end, state |-> StateAt(clip), actions |-> e.actions]
      /\ Len(e.actions) = N /\ N \in Nat /\ DOMAIN e.actions = 1..N
      /\ \A n \in 1..N : /\ e.actions[n].action = Acts[(a - 1) + n]
                         /\ e.actions[n].pre = StateBy(StateAt(clip), ClipActs(e), n - 1)
  <2>1. Len(e.actions) = N
    BY DEF CutOut
  <2>2. N \in Nat
    BY <1>1
  <2>3. DOMAIN e.actions = 1..N
    BY <1>3, <2>1
  <2>4. QED
    BY <2>1, <2>2, <2>3 DEF CutOut
<1>5. e.start = clip.start /\ e.end = clip.end /\ e.state = StateAt(clip)
      /\ e = [start |-> e.start, end |-> e.end, state |-> e.state, actions |-> e.actions]
  <2>1. e.start = clip.start /\ e.end = clip.end /\ e.state = StateAt(clip)
    BY <1>4
  <2>2. QED
    BY <1>4, <2>1
<1>6. \A n : n \in Q <=> n \in 1..N /\ Acts[(a - 1) + n].cap \in caps
  BY <1>4
<1>7. Q = {n \in 1..Len(e.actions) : e.actions[n].action.cap \in caps}
  BY <1>4
<1> HIDE DEF N, Q, q, M, f
<1>8. /\ f.start = clip.start /\ f.end = clip.end /\ f.state = Mask(StateAt(clip), caps)
      /\ f.actions = [n \in 1..M |-> At(e.actions[q[n]].action, Mask(e.actions[q[n]].pre, caps))]
      /\ Lists(q, M, Q)
  <2>1. /\ f.start = e.start /\ f.end = e.end /\ f.state = Mask(e.state, caps)
        /\ f.actions = [n \in 1..M |-> At(e.actions[q[n]].action, Mask(e.actions[q[n]].pre, caps))]
        /\ Lists(q, M, Q)
    <3>1. /\ OnlyCaps(e, caps).start = e.start /\ OnlyCaps(e, caps).end = e.end
          /\ OnlyCaps(e, caps).state = Mask(e.state, caps)
          /\ OnlyCaps(e, caps).actions =
                [n \in 1..Cardinality(Q) |-> At(e.actions[Ordered(Q)[n]].action,
                                                Mask(e.actions[Ordered(Q)[n]].pre, caps))]
          /\ Lists(Ordered(Q), Cardinality(Q), Q)
      <4>1. /\ e.actions \in Seq(T)
            /\ Q = {n \in 1..Len(e.actions) : e.actions[n].action.cap \in caps}
            /\ e = [start |-> e.start, end |-> e.end, state |-> e.state, actions |-> e.actions]
        BY <1>3, <1>5, <1>7
      <4>2. QED
        BY <4>1, OnlyCapsIs, SMTT(30)
    <3>2. f = OnlyCaps(e, caps) /\ q = Ordered(Q) /\ M = Cardinality(Q)
      BY DEF f, q, M
    <3>3. QED
      BY <3>1, <3>2
  <2>2. QED
    BY <1>5, <2>1
<1>9. /\ M \in Nat /\ q \in [1..M -> Q]
      /\ \A j, k \in 1..M : j < k => q[j] < q[k]
      /\ \A n \in Q : \E k \in 1..M : q[k] = n
      /\ \A n \in 1..M : q[n] \in 1..N
  BY <1>6, <1>8 DEF Lists
<1>10. /\ DOMAIN f.state = caps
       /\ \A n \in 1..M : /\ f.actions[n].action = Acts[(a - 1) + q[n]]
                          /\ f.actions[n].pre = Mask(StateBy(StateAt(clip), ClipActs(e), q[n] - 1), caps)
       /\ DOMAIN f.actions = 1..M
  <2>1. DOMAIN f.state = caps
    BY <1>8 DEF Mask
  <2>2. \A n \in 1..M : /\ f.actions[n].action = e.actions[q[n]].action
                        /\ f.actions[n].pre = Mask(e.actions[q[n]].pre, caps)
    BY <1>8 DEF At
  <2>3. QED
    BY <1>4, <1>8, <1>9, <2>1, <2>2
<1>11. ClipActs(f) = [n \in 1..M |-> Acts[(a - 1) + q[n]]]
  BY <1>10 DEF ClipActs
<1>12. \A n : n \in S <=> n \in a..b /\ Acts[n].cap \in caps
  <2>1. ASSUME NEW n \in 1..Len(actions)
        PROVE  AskedFor(f, actions[n].action) <=> n \in a..b /\ Acts[n].cap \in caps
    <3>1. (clip.start <= actions[n].action.time /\ actions[n].action.time < clip.end)
             <=> n \in a..b
      BY InRange
    <3>2. actions[n].action.kind = "set"
      BY <1>2 DEF Kind
    <3>3. QED
      BY <1>1, <1>8, <1>10, <3>1, <3>2 DEF AskedFor
  <2>2. \A n : n \in a..b => n \in 1..Len(actions)
    BY <1>1
  <2>3. QED
    BY <1>1, <2>1, <2>2
<1> HIDE DEF S
<1>13. Lists(o, M, S)
  <2>1. \A n \in 1..M : o[n] \in S /\ o[n] = (a - 1) + q[n]
    <3>1. TAKE n \in 1..M
    <3>2. q[n] \in Q /\ q[n] \in 1..N /\ o[n] = (a - 1) + q[n]
      BY <1>9
    <3>3. (a - 1) + q[n] \in a..b
      BY <1>1, <3>2 DEF N
    <3>4. QED
      BY <1>6, <1>12, <3>2, <3>3
  <2>2. \A j, k \in 1..M : j < k => o[j] < o[k]
    <3>1. TAKE j, k \in 1..M
    <3>2. q[j] \in 1..N /\ q[k] \in 1..N /\ (j < k => q[j] < q[k])
      BY <1>9
    <3>3. QED
      BY <1>1, <2>1, <3>2
  <2>3. ASSUME NEW n \in S PROVE \E k \in 1..M : o[k] = n
    <3>1. n \in a..b /\ Acts[n].cap \in caps
      BY <1>12
    <3>2. n - a + 1 \in 1..N /\ (a - 1) + (n - a + 1) = n
      BY <1>1, <3>1 DEF N
    <3>3. n - a + 1 \in Q
      BY <1>6, <3>1, <3>2
    <3>4. PICK k \in 1..M : q[k] = n - a + 1
      BY <1>9, <3>3
    <3>5. QED
      BY <2>1, <3>2, <3>4
  <2>4. o \in [1..M -> S]
    BY <2>1
  <2>5. QED
    BY <1>9, <2>2, <2>3, <2>4 DEF Lists
<1>14. EventsIn(f)
  <2>1. S \subseteq Int
    BY <1>1, <1>12
  <2>2. Picked(Acts, S) = Along(Acts, o, M)
    BY <1>13, <2>1, PickedUnique
  <2>3. Along(Acts, o, M) = [n \in 1..M |-> Acts[(a - 1) + q[n]]]
    BY DEF Along
  <2>4. QED
    BY <1>11, <2>2, <2>3 DEF EventsIn, S
<1>15. StateAt(clip) = TrueState(clip.start) /\ StateAt(clip) \in State(Caps)
  <2>1. LastSet(actions) = Len(actions)
    <3>1. LastSet(actions) \in 0..Len(actions)
          /\ \A n \in (LastSet(actions) + 1)..Len(actions) : Kind(actions, n) # "set"
      BY TraceLast
    <3>2. ~ (LastSet(actions) < Len(actions))
      BY <1>1, <1>2, <3>1
    <3>3. QED
      BY <1>1, <3>1, <3>2
  <2>2. StartsIn(clip, a)
    BY ClipStarts
  <2>3. QED
    BY <2>1, <2>2 DEF StartsIn
<1>16. f.state = [cap \in DOMAIN f.state |-> TrueState(clip.start)[cap]]
  BY <1>8, <1>10, <1>15 DEF Mask
<1>17. ASSUME NEW n \in 1..M
       PROVE  f.actions[n].pre = StateBy(f.state, ClipActs(f), n - 1)
  <2> DEFINE list == ClipActs(e)
             left == ClipActs(f)
             s == StateAt(clip)
  <2>1. \A k \in 1..N : list[k] = Acts[(a - 1) + k]
    BY <1>4 DEF ClipActs
  <2>2. \A k \in 1..M : left[k] = list[q[k]]
    BY <1>9, <1>11, <2>1
  <2>3. {k \in 1..N : list[k].cap \in caps} = Q
    BY <1>6, <2>1
  <2>4. PicksCaps(list, left, q, M, N, caps)
    BY <1>4, <1>8, <2>2, <2>3 DEF PicksCaps
  <2>5. caps \subseteq DOMAIN s
    BY <1>2, <1>15 DEF State
  <2> HIDE DEF list, left, s
  <2>6. StateBy(Mask(s, caps), left, n - 1) = Mask(StateBy(s, list, q[n] - 1), caps)
    BY <2>4, <2>5, StateByPicked
  <2>7. QED
    BY <1>8, <1>10, <2>6 DEF list, left, s
<1>18. DOMAIN ClipActs(f) = 1..M
  BY <1>11
<1>19. StateIn(f)
  BY <1>8, <1>16, <1>17, <1>18 DEF StateIn
<1>20. QED
  BY <1>14, <1>19 DEF f
-----------------------------------------------------------------------------
(* The page for superusers.                                                *)
LEMMA ManualStep ==
  ASSUME TraceInv, ClipInv, NEW start_time \in Int, NEW end_time \in Int,
         NEW caps \in SUBSET Cap, getepisode_manual(start_time, end_time, caps)
  PROVE  ClipInv'
<1> DEFINE clip == [start |-> start_time, end |-> end_time]
           e == OnlyCaps(GenerateClip(clip), caps)
<1>1. /\ view = "trace" /\ pc = "sub" /\ view' = "manual" /\ start_time < end_time
      /\ time_clips' = <<clip>> /\ episodes' = <<e>>
      /\ UNCHANGED <<vars, time_list, n_seen, held>>
  <2>1. /\ view = "trace" /\ pc = "sub" /\ view' = "manual" /\ start_time < end_time
        /\ time_clips' = <<clip>>
        /\ episodes' = <<OnlyCaps(GenerateClip(Head(time_clips')), caps)>>
        /\ UNCHANGED <<vars, time_list, n_seen, held>>
    BY DEF getepisode_manual
  <2> HIDE DEF clip
  <2>2. Head(time_clips') = clip
    BY <2>1
  <2>3. QED
    BY <2>1, <2>2
<1>2. time_list = <<>> /\ time_clips = <<>> /\ episodes = <<>>
  BY <1>1 DEF ClipInv, ClipTypes
<1>3. /\ clip \in [start : Int, end : Int] /\ clip.start < clip.end
      /\ clip.start \in Int /\ clip.end \in Int
  BY <1>1
<1> HIDE DEF clip
<1>4. EventsIn(e) /\ StateIn(e)
  <2>1. PICK a, b : ClipPlaces(clip, a, b)
    BY <1>3, ClipHasPlaces
  <2> DEFINE c == GenerateClip(clip)
  <2>2. CutOut(c, clip, a, b)
    BY <1>3, <2>1, ClipIs
  <2> HIDE DEF c
  <2>3. EventsIn(OnlyCaps(c, caps)) /\ StateIn(OnlyCaps(c, caps))
    BY <1>1, <1>3, <2>1, <2>2, ManualTrue
  <2>4. QED
    BY <2>3 DEF c
<1> HIDE DEF e
<1>5. /\ time_clips' \in Seq([start : Int, end : Int]) /\ Len(time_clips') = 1
      /\ \A k \in 1..Len(time_clips') : time_clips'[k].start < time_clips'[k].end
      /\ episodes' \in Seq({e}) /\ Len(episodes') = 1
  BY <1>1, <1>3
<1>6. episodes' \in Seq(Range(episodes'))
  <2> DEFINE list == episodes'
  <2>1. list \in Seq({e})
    BY <1>5
  <2> HIDE DEF list
  <2>2. list \in Seq(Range(list))
    BY <2>1, OfRange
  <2>3. QED
    BY <2>2 DEF list
<1>7. (ClipKeepsEvents /\ ClipStateTrue)'
  <2>1. \A k \in DOMAIN episodes : EventsIn(episodes[k]) /\ StateIn(episodes[k])
    BY <1>2
  <2>2. episodes \in Seq({e}) /\ episodes' = Append(episodes, e) /\ UNCHANGED vars
    BY <1>1, <1>2
  <2>3. QED
    BY <1>4, <2>1, <2>2, EpisodeAdded
<1>8. ClipTypes'
  <2>1. pc' = "sub" /\ time_list' = <<>> /\ UNCHANGED <<time_list, n_seen, held>>
    BY <1>1, <1>2 DEF vars
  <2>2. QED
    BY <1>1, <1>5, <1>6, <2>1 DEF ClipInv, ClipTypes
<1>9. EpisodesTrue'
  BY <1>5, <1>7 DEF EpisodesTrue
<1>10. Finding' /\ Found'
  BY <1>1 DEF Finding, Found
<1>11. QED
  BY <1>8, <1>9, <1>10 DEF ClipInv

-----------------------------------------------------------------------------
(* A step that changes nothing keeps the clips.                            *)
LEMMA ClipsStay ==
  ASSUME ClipInv, UNCHANGED <<vars, clip_vars>>
  PROVE  ClipInv'
<1>1. UNCHANGED vars /\ UNCHANGED <<view, time_list, n_seen, held, time_clips, episodes>>
  BY DEF clip_vars
<1>2. ClipTypes'
  BY <1>1 DEF ClipInv, ClipTypes, vars
<1>3. Finding' /\ Found'
  BY <1>1 DEF ClipInv, Finding, Found
<1>4. EpisodesTrue'
  <2>1. ClipTypes /\ EpisodesTrue
    BY DEF ClipInv
  <2>2. Len(time_clips) \in Nat /\ Len(time_clips') \in Nat /\ Len(time_clips) <= Len(time_clips')
    BY <1>1, <2>1, ClipFacts
  <2>3. QED
    BY <1>1, <2>1, <2>2, EpisodesStay
<1>5. QED
  BY <1>2, <1>3, <1>4 DEF ClipInv

(* The trace does what Trace says, and the clips do not change it.         *)
LEMMA ClipStepIsTraceStep == [ClipNext]_<<vars, clip_vars>> => [Next]_vars
BY DEF ClipNext, FindTimeClips, LastClip, Generate, FindOneClip, getepisode_manual,
       FirstTime, ExtendClip, NewClip, LookAt, vars

(* Each step keeps the invariant of the clips.                             *)
LEMMA ClipInvStep ==
  ASSUME TraceInv, ClipInv, [ClipNext]_<<vars, clip_vars>>
  PROVE  ClipInv'
<1>1. CASE view = "trace" /\ Next /\ UNCHANGED clip_vars
  BY <1>1, ClipTraceStep
<1>2. CASE FindTimeClips
  BY <1>2, FindTimeClipsStep
<1>3. CASE LastClip
  BY <1>3, LastClipStep
<1>4. CASE Generate
  BY <1>4, GenerateStep
<1>5. ASSUME NEW start_time \in 0..MaxTime, NEW end_time \in 1..(MaxTime + 1),
             FindOneClip(start_time, end_time)
      PROVE  ClipInv'
  <2>1. start_time \in Int /\ end_time \in Int
    OBVIOUS
  <2>2. QED
    BY <1>5, <2>1, FindOneClipStep
<1>6. ASSUME NEW start_time \in 0..MaxTime, NEW end_time \in 1..(MaxTime + 1),
             NEW caps \in SUBSET Cap \ {{}}, getepisode_manual(start_time, end_time, caps)
      PROVE  ClipInv'
  <2>1. start_time \in Int /\ end_time \in Int /\ caps \in SUBSET Cap
    OBVIOUS
  <2>2. QED
    BY <1>6, <2>1, ManualStep
<1>7. ASSUME NEW time \in Range(time_list), FirstTime(time)
      PROVE  ClipInv'
  BY <1>7, FirstTimeStep
<1>8. ASSUME NEW time \in Range(time_list), ExtendClip(time)
      PROVE  ClipInv'
  BY <1>8, ExtendClipStep
<1>9. ASSUME NEW time \in Range(time_list), NewClip(time)
      PROVE  ClipInv'
  BY <1>9, NewClipStep
<1>10. CASE UNCHANGED <<vars, clip_vars>>
  BY <1>10, ClipsStay
<1>11. QED
  BY <1>1, <1>2, <1>3, <1>4, <1>5, <1>6, <1>7, <1>8, <1>9, <1>10 DEF ClipNext

(* The invariant of the trace and of its clips.                            *)
THEOREM ClipInvariant == ClipSpec => [](TraceInv /\ ClipInv)
<1>1. ClipInit => TraceInv /\ ClipInv
  <2>1. SUFFICES ASSUME ClipInit PROVE TraceInv /\ ClipInv
    OBVIOUS
  <2>2. Init
    BY <2>1 DEF ClipInit
  <2>3. QED
    BY <2>1, <2>2, InitTrace, ClipInitInv
<1>2. TraceInv /\ ClipInv /\ [ClipNext]_<<vars, clip_vars>> => (TraceInv /\ ClipInv)'
  <2>1. SUFFICES ASSUME TraceInv, ClipInv, [ClipNext]_<<vars, clip_vars>>
                 PROVE  TraceInv' /\ ClipInv'
    OBVIOUS
  <2>2. [Next]_vars
    BY <2>1, ClipStepIsTraceStep
  <2>3. TraceInv'
    BY <2>1, <2>2, TraceNext
  <2>4. ClipInv'
    BY <2>1, ClipInvStep
  <2>5. QED
    BY <2>3, <2>4
<1>3. QED
  BY <1>1, <1>2, PTL DEF ClipSpec

(* The variables of the trace and of its clips have their types            *)
(* (autotapta/model/Trace.py and find_time_clips).                         *)
THEOREM ClipsTyped == ClipSpec => []ClipTypeOK
<1>1. TraceInv /\ ClipInv => ClipTypeOK
  <2>1. SUFFICES ASSUME TraceInv, ClipInv PROVE ClipTypeOK
    OBVIOUS
  <2>2. TypeOK
    BY <2>1, TraceIsTyped
  <2>3. ClipTypes /\ Len(episodes) \in 0..Len(time_clips)
    BY <2>1 DEF ClipInv, EpisodesTrue
  <2>4. /\ view \in {"trace", "find", "generate", "manual"}
        /\ view # "trace" => pc = IF view = "manual" THEN "sub" ELSE "done"
        /\ n_seen \in 0..Len(time_list) /\ Len(held) \in 0..1
        /\ \A k \in 1..Len(time_clips) : time_clips[k].start < time_clips[k].end
        /\ Len(held) = 1 => held[1].start < held[1].current
    BY <2>3 DEF ClipTypes
  <2>5. /\ DOMAIN time_clips = 1..Len(time_clips) /\ DOMAIN held = 1..Len(held)
        /\ DOMAIN time_list = 1..Len(time_list)
        /\ \A k \in 1..Len(time_list) : time_list[k] \in Time
    BY <2>3 DEF ClipTypes
  <2>6. Range(time_list) \subseteq 0..MaxTime
    BY <2>5 DEF Range, Time
  <2>7. \A k \in DOMAIN held : held[k].start < held[k].current
    <3>1. TAKE k \in DOMAIN held
    <3>2. Len(held) = 1 /\ k = 1
      BY <2>4, <2>5
    <3>3. QED
      BY <2>4, <3>2
  <2>8. QED
    BY <2>2, <2>3, <2>4, <2>5, <2>6, <2>7 DEF ClipTypeOK
<1>2. QED
  BY <1>1, ClipInvariant, PTL

(* An enhanced trace can be replayed, is in the order of time, and has the *)
(* events of timers and clocks that happened, each once                    *)
(* (enhanceTraceWithTiming, enhanceTraceWithClock).                        *)
THEOREM TraceEnhanced == ClipSpec => []EnhancedTrue
<1>1. TraceInv => EnhancedTrue
  BY TraceTrue
<1>2. QED
  BY <1>1, ClipInvariant, PTL

(* Each new action is in one clip and in one only, and a clip has all      *)
(* events in its range and the states they happened in (find_time_clips,   *)
(* generate_clip, getepisode_manual).                                      *)
THEOREM ClipsAreTrue == ClipSpec => []ClipsTrue
<1>1. TraceInv /\ ClipInv => ClipsTrue
  <2>1. SUFFICES ASSUME TraceInv, ClipInv PROVE ClipsTrue
    OBVIOUS
  <2>2. CoveredOnce
    BY <2>1, TimesCovered
  <2>3. ClipKeepsEvents /\ ClipStateTrue
    BY <2>1 DEF ClipInv, EpisodesTrue
  <2>4. QED
    BY <2>2, <2>3 DEF ClipsTrue
<1>2. QED
  BY <1>1, ClipInvariant, PTL

(* The events of timers and clocks go between the events of the trace, and *)
(* none of these is lost, doubled, moved or changed (enhanceTraceWithTiming *)
(* and enhanceTraceWithClock).                                             *)
THEOREM NothingLost == ClipSpec => EventsKept
<1>1. /\ TraceInv /\ TraceInv' /\ [ClipNext]_<<vars, clip_vars>>
      => [(pc = "merge" \/ pc = "clock") => Sets(actions') = Sets(actions)]_vars
  <2>1. SUFFICES ASSUME TraceInv, TraceInv', [ClipNext]_<<vars, clip_vars>>,
                        pc = "merge" \/ pc = "clock"
                 PROVE  Sets(actions') = Sets(actions)
    OBVIOUS
  <2>2. [Next]_vars
    BY <2>1, ClipStepIsTraceStep
  <2>3. QED
    BY <2>1, <2>2, SetsStay
<1>2. ClipSpec => []TraceInv
  BY ClipInvariant, PTL
<1>3. QED
  BY <1>1, <1>2, PTL DEF ClipSpec, EventsKept
=============================================================================
