-------------------------- MODULE SubsequenceLemmas --------------------------
(***************************************************************************)
(* Facts about queues and their parts, for queues and index sets of any    *)
(* size: what picking a subsequence keeps, what taking elements out of a   *)
(* queue leaves in it, and what joining two queues holds.                  *)
(***************************************************************************)
EXTENDS Subsequences, Functions, TLAPS, FiniteSetTheorems, SequenceTheorems

\* The number of indices of K up to k.
RankIn(K, k) == Cardinality({l \in K : l <= k})

\* An index of K has a rank between 1 and the size of K.
LEMMA RankBounds ==
  ASSUME NEW K \in SUBSET Nat, IsFiniteSet(K), NEW k \in K
  PROVE  RankIn(K, k) \in 1..Cardinality(K)
<1> DEFINE Low == {l \in K : l <= k}
<1>1. IsFiniteSet(Low) /\ Cardinality(Low) <= Cardinality(K)
  BY FS_Subset
<1>2. Cardinality(K) \in Nat /\ Cardinality(Low) \in Nat
  BY <1>1, FS_CardinalityType
<1>3. Low # {}
  <2>1. k \in Low  OBVIOUS
  <2> QED BY <2>1
<1>4. Cardinality(Low) # 0
  BY <1>1, <1>3, FS_EmptySet
<1> QED BY <1>1, <1>2, <1>4 DEF RankIn

\* A larger index has a larger rank.
LEMMA RankGrows ==
  ASSUME NEW K \in SUBSET Nat, IsFiniteSet(K), NEW j \in K, NEW k \in K, j < k
  PROVE  RankIn(K, j) < RankIn(K, k)
<1> DEFINE Low(i) == {l \in K : l <= i}
<1>1. IsFiniteSet(Low(k)) /\ IsFiniteSet(Low(j))
  BY FS_Subset
<1>2. Low(j) \in SUBSET Low(k)
  <2>1. \A l \in K : l <= j => l <= k  OBVIOUS
  <2> QED BY <2>1
<1>3. Low(j) # Low(k)
  <2>1. k \in Low(k) /\ k \notin Low(j)  OBVIOUS
  <2> QED BY <2>1
<1>4. Cardinality(Low(j)) <= Cardinality(Low(k)) /\ Cardinality(Low(j)) # Cardinality(Low(k))
  BY <1>1, <1>2, <1>3, FS_Subset
<1>5. Cardinality(Low(j)) \in Nat /\ Cardinality(Low(k)) \in Nat
  BY <1>1, FS_CardinalityType
<1> QED BY <1>4, <1>5 DEF RankIn

\* Distinct indices have distinct ranks.
LEMMA RankInjective ==
  ASSUME NEW K \in SUBSET Nat, IsFiniteSet(K), NEW j \in K, NEW k \in K,
         RankIn(K, j) = RankIn(K, k)
  PROVE  j = k
<1>1. RankIn(K, j) \in Nat
  BY RankBounds, FS_CardinalityType
<1>2. CASE j < k  BY <1>1, <1>2, RankGrows
<1>3. CASE k < j  BY <1>1, <1>3, RankGrows
<1> QED BY <1>2, <1>3

\* Every rank is taken, or two indices would share one.
LEMMA RankOnto ==
  ASSUME NEW K \in SUBSET Nat, IsFiniteSet(K), NEW j \in 1..Cardinality(K)
  PROVE  \E k \in K : RankIn(K, k) = j
<1> SUFFICES ASSUME \A k \in K : RankIn(K, k) # j  PROVE FALSE
  OBVIOUS
<1> DEFINE N == Cardinality(K)
           T == (1..N) \ {j}
           rank == [k \in K |-> RankIn(K, k)]
<1>1. N \in Nat
  BY FS_CardinalityType
<1>2. IsFiniteSet(1..N) /\ Cardinality(1..N) = N
  BY <1>1, FS_Interval
<1>3. IsFiniteSet(T) /\ Cardinality(T) = N - 1
  <2> DEFINE I == 1..N
  <2>1. IsFiniteSet(I) /\ Cardinality(I) = N /\ j \in I
    BY <1>2
  <2> HIDE DEF I, N
  <2>2. IsFiniteSet(I \ {j}) /\ Cardinality(I \ {j}) = N - 1
    BY <2>1, FS_RemoveElement
  <2> QED BY <2>2 DEF I
<1>4. rank \in [K -> T]
  <2>1. \A k \in K : RankIn(K, k) \in 1..N /\ RankIn(K, k) # j
    BY RankBounds
  <2>2. \A k \in K : RankIn(K, k) \in T
    BY <2>1
  <2> HIDE DEF T
  <2> QED BY <2>2
<1>5. Cardinality(T) < Cardinality(K)
  BY <1>1, <1>3
<1>6. \E x, y \in K : x # y /\ rank[x] = rank[y]
  <2> HIDE DEF T, rank
  <2> QED BY <1>3, <1>4, <1>5, FS_PigeonHole
<1> QED BY <1>6, RankInjective

\* The index that Pick puts at position j.
IndexAt(K, j) == CHOOSE k \in K : Cardinality({l \in K : l <= k}) = j

\* The element that Pick puts at position j has rank j.
LEMMA AtIsRanked ==
  ASSUME NEW K \in SUBSET Nat, IsFiniteSet(K), NEW j \in 1..Cardinality(K)
  PROVE  IndexAt(K, j) \in K /\ RankIn(K, IndexAt(K, j)) = j
<1>1. \E k \in K : Cardinality({l \in K : l <= k}) = j
  BY RankOnto DEF RankIn
<1> QED BY <1>1 DEF IndexAt, RankIn

\* An index is the one of its own rank.
LEMMA AtOfRank ==
  ASSUME NEW K \in SUBSET Nat, IsFiniteSet(K), NEW k \in K
  PROVE  IndexAt(K, RankIn(K, k)) = k
<1> DEFINE a == IndexAt(K, RankIn(K, k))
<1>1. RankIn(K, k) \in 1..Cardinality(K)
  BY RankBounds
<1>2. a \in K /\ RankIn(K, a) = RankIn(K, k)
  BY <1>1, AtIsRanked
<1> HIDE DEF a
<1>3. a = k
  BY <1>2, RankInjective
<1> QED BY <1>3 DEF a

-----------------------------------------------------------------------------
\* An index set of a sequence is a finite set of numbers.
LEMMA IndicesFinite ==
  ASSUME NEW S, NEW q \in Seq(S), NEW K \in SUBSET DOMAIN q
  PROVE  K \in SUBSET Nat /\ IsFiniteSet(K) /\ Cardinality(K) \in Nat
<1>1. DOMAIN q = 1..Len(q) /\ Len(q) \in Nat
  BY LenProperties
<1>2. IsFiniteSet(DOMAIN q)
  BY <1>1, FS_Interval
<1> QED BY <1>1, <1>2, FS_Subset, FS_CardinalityType

\* Pick lists the elements at the indices K, each index once.
LEMMA PickElements ==
  ASSUME NEW S, NEW q \in Seq(S), NEW K \in SUBSET DOMAIN q
  PROVE  /\ Pick(q, K) \in Seq(S)
         /\ DOMAIN Pick(q, K) = 1..Cardinality(K)
         /\ \A j \in DOMAIN Pick(q, K) : IndexAt(K, j) \in K /\ Pick(q, K)[j] = q[IndexAt(K, j)]
<1>1. K \in SUBSET Nat /\ IsFiniteSet(K) /\ Cardinality(K) \in Nat
  BY IndicesFinite
<1>2. Pick(q, K) = [j \in 1..Cardinality(K) |-> q[IndexAt(K, j)]]
  BY DEF Pick, IndexAt
<1>3. \A j \in 1..Cardinality(K) : IndexAt(K, j) \in K
  BY <1>1, AtIsRanked
<1>4. \A k \in K : q[k] \in S
  BY ElementOfSeq, LenProperties
<1>5. Pick(q, K) \in [1..Cardinality(K) -> S]
  BY <1>2, <1>3, <1>4
<1>6. Pick(q, K) \in Seq(S)
  BY <1>1, <1>5
<1> QED BY <1>2, <1>3, <1>6

\* Pick lists exactly the elements at the indices K.
LEMMA PickRange ==
  ASSUME NEW S, NEW q \in Seq(S), NEW K \in SUBSET DOMAIN q
  PROVE  Range(Pick(q, K)) = {q[k] : k \in K}
<1> DEFINE r == Pick(q, K)
<1>1. K \in SUBSET Nat /\ IsFiniteSet(K)
  BY IndicesFinite
<1>2. DOMAIN r = 1..Cardinality(K) /\ \A j \in DOMAIN r : IndexAt(K, j) \in K /\ r[j] = q[IndexAt(K, j)]
  BY PickElements
<1> HIDE DEF r
<1>3. \A k \in K : \E j \in DOMAIN r : r[j] = q[k]
  <2> TAKE k \in K
  <2> DEFINE j == RankIn(K, k)
  <2>1. j \in DOMAIN r /\ IndexAt(K, j) = k
    BY <1>1, <1>2, RankBounds, AtOfRank
  <2> QED BY <1>2, <2>1
<1>4. Range(r) = {q[k] : k \in K}
  BY <1>2, <1>3 DEF Range
<1> QED BY <1>4 DEF r

\* A part of a queue without repetition has none either.
LEMMA PickInjective ==
  ASSUME NEW S, NEW q \in Seq(S), NEW K \in SUBSET DOMAIN q, IsInjective(q)
  PROVE  IsInjective(Pick(q, K))
<1> DEFINE r == Pick(q, K)
<1>1. K \in SUBSET Nat /\ IsFiniteSet(K)
  BY IndicesFinite
<1>2. DOMAIN r = 1..Cardinality(K) /\ \A j \in DOMAIN r : IndexAt(K, j) \in K /\ r[j] = q[IndexAt(K, j)]
  BY PickElements
<1> HIDE DEF r
<1>3. ASSUME NEW i \in DOMAIN r, NEW j \in DOMAIN r, r[i] = r[j]  PROVE i = j
  <2>1. IndexAt(K, i) = IndexAt(K, j)
    BY <1>2, <1>3 DEF IsInjective
  <2> QED BY <1>1, <1>2, <2>1, AtIsRanked
<1>4. IsInjective(r)
  BY <1>3 DEF IsInjective
<1> QED BY <1>4 DEF r

\* Without takes exactly S out, and keeps a queue without repetition so.
LEMMA WithoutElements ==
  ASSUME NEW T, NEW q \in Seq(T), NEW S
  PROVE  /\ Without(q, S) \in Seq(T)
         /\ Range(Without(q, S)) = Range(q) \ S
         /\ IsInjective(q) => IsInjective(Without(q, S))
<1> DEFINE K == {k \in DOMAIN q : q[k] \notin S}
<1>1. Without(q, S) = Pick(q, K)
  BY DEF Without
<1>2. Pick(q, K) \in Seq(T)
  BY PickElements
<1>3. Range(Pick(q, K)) = {q[k] : k \in K}
  BY PickRange
<1>4. {q[k] : k \in K} = Range(q) \ S
  BY DEF Range
<1>5. IsInjective(q) => IsInjective(Pick(q, K))
  BY PickInjective
<1> QED BY <1>1, <1>2, <1>3, <1>4, <1>5

\* Pick keeps the order of the indices.
LEMMA PickOrder ==
  ASSUME NEW S, NEW q \in Seq(S), NEW K \in SUBSET DOMAIN q,
         NEW k \in DOMAIN Pick(q, K), NEW l \in DOMAIN Pick(q, K), k < l
  PROVE  /\ IndexAt(K, k) \in K /\ IndexAt(K, l) \in K /\ IndexAt(K, k) < IndexAt(K, l)
         /\ Pick(q, K)[k] = q[IndexAt(K, k)] /\ Pick(q, K)[l] = q[IndexAt(K, l)]
<1> DEFINE m == IndexAt(K, k)
           n == IndexAt(K, l)
<1>1. K \in SUBSET Nat /\ IsFiniteSet(K) /\ Cardinality(K) \in Nat
  BY IndicesFinite
<1>2. DOMAIN Pick(q, K) = 1..Cardinality(K) /\ \A j \in DOMAIN Pick(q, K) : Pick(q, K)[j] = q[IndexAt(K, j)]
  BY PickElements
<1>3. m \in K /\ n \in K /\ RankIn(K, m) = k /\ RankIn(K, n) = l
  BY <1>1, <1>2, AtIsRanked
<1>4. m \in Nat /\ n \in Nat /\ k \in Nat /\ l \in Nat
  BY <1>1, <1>2, <1>3
<1>5. ASSUME NEW i \in K, NEW j \in K, RankIn(K, i) = k, RankIn(K, j) = l  PROVE i < j
  <2>1. ~(j < i)
    BY <1>1, <1>4, <1>5, RankGrows
  <2>2. i # j
    BY <1>4, <1>5
  <2> QED BY <1>1, <1>5, <2>1, <2>2
<1>6. m < n
  <2> HIDE DEF m, n
  <2> QED BY <1>3, <1>5
<1> QED BY <1>2, <1>3, <1>6

\* What is left keeps its order, and is not longer.
LEMMA WithoutOrder ==
  ASSUME NEW T, NEW q \in Seq(T), NEW S
  PROVE  /\ \A k, l \in DOMAIN Without(q, S) : k < l =>
              \E m, n \in DOMAIN q : m < n /\ q[m] = Without(q, S)[k] /\ q[n] = Without(q, S)[l]
         /\ Len(Without(q, S)) <= Len(q)
<1> DEFINE K == {k \in DOMAIN q : q[k] \notin S}
           r == Pick(q, K)
<1>1. Without(q, S) = r
  BY DEF Without
<1>2. K \in SUBSET DOMAIN q
  OBVIOUS
<1>3. \A k, l \in DOMAIN r : k < l => \E m, n \in DOMAIN q : m < n /\ q[m] = r[k] /\ q[n] = r[l]
  <2> SUFFICES ASSUME NEW k \in DOMAIN r, NEW l \in DOMAIN r, k < l
               PROVE  \E m, n \in DOMAIN q : m < n /\ q[m] = r[k] /\ q[n] = r[l]
    OBVIOUS
  <2>1. /\ IndexAt(K, k) \in K /\ IndexAt(K, l) \in K /\ IndexAt(K, k) < IndexAt(K, l)
        /\ r[k] = q[IndexAt(K, k)] /\ r[l] = q[IndexAt(K, l)]
    BY <1>2, PickOrder
  <2> HIDE DEF K, r
  <2> QED BY <1>2, <2>1
<1>4. r \in Seq(T) /\ DOMAIN r = 1..Cardinality(K) /\ Cardinality(K) \in Nat
  BY <1>2, PickElements, IndicesFinite
<1> HIDE DEF r, K
<1>5. Len(r) <= Len(q)
  <2> DEFINE n == Len(q)
  <2>1. n \in Nat /\ DOMAIN q = 1..n
    BY LenProperties
  <2> HIDE DEF n
  <2>2. IsFiniteSet(1..n) /\ Cardinality(1..n) = n
    BY <2>1, FS_Interval
  <2>3. Cardinality(K) <= n
    BY <1>2, <2>1, <2>2, FS_Subset
  <2>4. Len(r) = Cardinality(K)
    BY <1>4, LenProperties
  <2> QED BY <2>3, <2>4 DEF n
<1> QED BY <1>1, <1>3, <1>5

-----------------------------------------------------------------------------
(* Queues whose elements in C are listed in increasing order *)

Sorted(C, q)    == \A k, l \in DOMAIN q : k < l /\ q[k] \in C /\ q[l] \in C => q[k] < q[l]
Before(C, P, Q) == \A i \in P \cap C, j \in Q \cap C : i < j

\* A part of an ordered queue is ordered.
LEMMA SortedPick ==
  ASSUME NEW T, NEW q \in Seq(T), NEW K \in SUBSET DOMAIN q, NEW C, Sorted(C, q)
  PROVE  Sorted(C, Pick(q, K))
<1> SUFFICES ASSUME NEW k \in DOMAIN Pick(q, K), NEW l \in DOMAIN Pick(q, K), k < l,
                    Pick(q, K)[k] \in C, Pick(q, K)[l] \in C
             PROVE  Pick(q, K)[k] < Pick(q, K)[l]
  BY DEF Sorted
<1>1. /\ IndexAt(K, k) \in K /\ IndexAt(K, l) \in K /\ IndexAt(K, k) < IndexAt(K, l)
      /\ Pick(q, K)[k] = q[IndexAt(K, k)] /\ Pick(q, K)[l] = q[IndexAt(K, l)]
  BY PickOrder
<1> QED BY <1>1 DEF Sorted

LEMMA SortedWithout ==
  ASSUME NEW T, NEW q \in Seq(T), NEW S, NEW C, Sorted(C, q)
  PROVE  Sorted(C, Without(q, S))
<1>1. {k \in DOMAIN q : q[k] \notin S} \in SUBSET DOMAIN q
  OBVIOUS
<1> QED BY <1>1, SortedPick DEF Without

\* Two ordered queues are ordered one behind the other when the first comes before the second.
LEMMA SortedJoin ==
  ASSUME NEW T, NEW p \in Seq(T), NEW q \in Seq(T), NEW C,
         Sorted(C, p), Sorted(C, q), Before(C, Range(p), Range(q))
  PROVE  Sorted(C, p \o q)
<1> DEFINE r == p \o q
<1>1. /\ DOMAIN r = 1..(Len(p) + Len(q))
      /\ \A i \in DOMAIN r : r[i] = IF i <= Len(p) THEN p[i] ELSE q[i - Len(p)]
  BY ConcatProperties, LenProperties
<1>2. DOMAIN p = 1..Len(p) /\ DOMAIN q = 1..Len(q) /\ Len(p) \in Nat /\ Len(q) \in Nat
  BY LenProperties
<1> HIDE DEF r
<1> SUFFICES ASSUME NEW k \in DOMAIN r, NEW l \in DOMAIN r, k < l, r[k] \in C, r[l] \in C
             PROVE  r[k] < r[l]
  BY DEF Sorted, r
<1>3. CASE l <= Len(p)
  <2>1. k \in DOMAIN p /\ l \in DOMAIN p /\ r[k] = p[k] /\ r[l] = p[l]
    BY <1>1, <1>2, <1>3
  <2> QED BY <2>1 DEF Sorted
<1>4. CASE ~(k <= Len(p))
  <2>1. k - Len(p) \in DOMAIN q /\ l - Len(p) \in DOMAIN q /\ k - Len(p) < l - Len(p) /\ ~(l <= Len(p))
    BY <1>1, <1>2, <1>4
  <2>2. r[k] = q[k - Len(p)] /\ r[l] = q[l - Len(p)]
    BY <1>1, <1>4, <2>1
  <2> QED BY <2>1, <2>2 DEF Sorted
<1>5. CASE k <= Len(p) /\ ~(l <= Len(p))
  <2>1. k \in DOMAIN p /\ l - Len(p) \in DOMAIN q /\ r[k] = p[k] /\ r[l] = q[l - Len(p)]
    BY <1>1, <1>2, <1>5
  <2>2. r[k] \in Range(p) /\ r[l] \in Range(q)
    BY <2>1 DEF Range
  <2> QED BY <2>2 DEF Before
<1> QED BY <1>3, <1>4, <1>5

\* Joining two queues that share nothing.
LEMMA JoinElements ==
  ASSUME NEW T, NEW p \in Seq(T), NEW q \in Seq(T)
  PROVE  /\ p \o q \in Seq(T)
         /\ Range(p \o q) = Range(p) \cup Range(q)
         /\ IsInjective(p) /\ IsInjective(q) /\ Range(p) \cap Range(q) = {} => IsInjective(p \o q)
<1> DEFINE r == p \o q
<1>1. /\ r \in Seq(T) /\ DOMAIN r = 1..(Len(p) + Len(q))
      /\ \A i \in DOMAIN r : r[i] = IF i <= Len(p) THEN p[i] ELSE q[i - Len(p)]
  BY ConcatProperties, LenProperties
<1>2. DOMAIN p = 1..Len(p) /\ DOMAIN q = 1..Len(q) /\ Len(p) \in Nat /\ Len(q) \in Nat
  BY LenProperties
<1> HIDE DEF r
<1>3. Range(r) = Range(p) \cup Range(q)
  <2>1. \A i \in DOMAIN r : r[i] \in Range(p) \cup Range(q)
    BY <1>1, <1>2 DEF Range
  <2>2. \A i \in DOMAIN p : i \in DOMAIN r /\ r[i] = p[i]
    BY <1>1, <1>2
  <2>3. \A i \in DOMAIN q : i + Len(p) \in DOMAIN r /\ r[i + Len(p)] = q[i]
    <3> TAKE i \in DOMAIN q
    <3>1. i + Len(p) \in DOMAIN r /\ ~(i + Len(p) <= Len(p)) /\ (i + Len(p)) - Len(p) = i
      BY <1>1, <1>2
    <3> QED BY <1>1, <3>1
  <2> QED BY <2>1, <2>2, <2>3 DEF Range
<1>4. ASSUME IsInjective(p), IsInjective(q), Range(p) \cap Range(q) = {},
             NEW i \in DOMAIN r, NEW j \in DOMAIN r, r[i] = r[j]
      PROVE  i = j
  <2>1. \A k \in DOMAIN p : \A l \in DOMAIN q : p[k] # q[l]
    BY <1>4 DEF Range
  <2>2. CASE i <= Len(p) /\ j <= Len(p)
    BY <1>1, <1>2, <1>4, <2>2 DEF IsInjective
  <2>3. CASE ~(i <= Len(p)) /\ ~(j <= Len(p))
    <3>1. i - Len(p) \in DOMAIN q /\ j - Len(p) \in DOMAIN q
      BY <1>1, <1>2, <2>3
    <3>2. q[i - Len(p)] = q[j - Len(p)]
      BY <1>1, <1>4, <2>3
    <3>3. i - Len(p) = j - Len(p)
      BY <1>4, <3>1, <3>2 DEF IsInjective
    <3> QED BY <1>1, <1>2, <3>3
  <2>4. CASE i <= Len(p) /\ ~(j <= Len(p))
    <3>1. i \in DOMAIN p /\ j - Len(p) \in DOMAIN q
      BY <1>1, <1>2, <2>4
    <3> QED BY <1>1, <1>4, <2>1, <2>4, <3>1
  <2>5. CASE ~(i <= Len(p)) /\ j <= Len(p)
    <3>1. j \in DOMAIN p /\ i - Len(p) \in DOMAIN q
      BY <1>1, <1>2, <2>5
    <3> QED BY <1>1, <1>4, <2>1, <2>5, <3>1
  <2> QED BY <2>2, <2>3, <2>4, <2>5
<1> QED BY <1>1, <1>3, <1>4 DEF r, IsInjective

\* A sequence without repetition is as long as it has elements.
LEMMA LengthCounts ==
  ASSUME NEW S, NEW q \in Seq(S), IsInjective(q)
  PROVE  IsFiniteSet(Range(q)) /\ Cardinality(Range(q)) = Len(q) /\ Len(q) \in Nat
<1> DEFINE n == Len(q)
<1>1. n \in Nat /\ DOMAIN q = 1..n
  BY LenProperties
<1>2. IsFiniteSet(1..n) /\ Cardinality(1..n) = n
  BY <1>1, FS_Interval
<1>3. q \in Surjection(DOMAIN q, Range(q)) /\ q \in Injection(DOMAIN q, Range(q))
  <2>1. q = [i \in DOMAIN q |-> q[i]]
    OBVIOUS
  <2>2. q \in [DOMAIN q -> Range(q)]
    BY <2>1 DEF Range
  <2> QED BY <2>2 DEF Surjection, Injection, IsInjective, Range
<1> HIDE DEF n
<1>4. IsFiniteSet(Range(q)) /\ Cardinality(Range(q)) = n
  BY <1>1, <1>2, <1>3, FS_Surjection
<1> QED BY <1>1, <1>4 DEF n
=============================================================================
