------------------------- MODULE HNSWAlgorithmsProofs -------------------------
(***************************************************************************)
(* What the search and the selection of the index promise, for every index *)
(* that insertion, deletion and loading can leave behind (WellFormed).     *)
(*                                                                         *)
(* The algorithms are recursive functions.  The induction theorems of the  *)
(* library take an operator, which the provers cannot instantiate; here    *)
(* induction is over sets: a set of naturals that has 0 and is closed      *)
(* under successors has all of them.                                       *)
(***************************************************************************)
EXTENDS HNSWAlgorithms, FiniteSetTheorems, WellFoundedInduction, TLAPS

(***************************************************************************)
(* Induction and recursion                                                 *)
(***************************************************************************)

\* A set of naturals that is not empty has a smallest element.
LEMMA Minimum ==
  ASSUME NEW T, T \subseteq Nat, T # {}
  PROVE  \E n \in T : \A m \in T : n <= m
<1> DEFINE R == OpToRel(<, Nat)
<1>1. PICK x \in T : \A y \in T : ~ (<<y, x>> \in R)
  <2>1. IsWellFoundedOn(R, Nat)
    BY NatLessThanWellFounded
  <2> HIDE DEF R
  <2> QED BY <2>1, WFMin, Zenon
<1>2. \A y, z \in Nat : y < z => <<y, z>> \in R
  BY DEF OpToRel
<1> HIDE DEF R
<1>3. ASSUME NEW y \in T PROVE x <= y
  <2>1. x \in Nat /\ y \in Nat /\ ~ (y < x)
    BY <1>1, <1>2
  <2> QED BY <2>1
<1> QED BY <1>3

\* Induction: a set that has 0, and k + 1 with every k, has every natural.
LEMMA SetInduction ==
  ASSUME NEW S, 0 \in S, \A k \in Nat : k \in S => k + 1 \in S
  PROVE  \A k \in Nat : k \in S
<1> SUFFICES ASSUME NEW j \in Nat, j \notin S PROVE FALSE
  OBVIOUS
<1> DEFINE T == {k \in Nat : k \notin S}
<1>1. PICK n \in T : \A m \in T : n <= m
  <2>1. T \subseteq Nat /\ T # {}
    OBVIOUS
  <2> HIDE DEF T
  <2> QED BY <2>1, Minimum
<1>2. n \in Nat \ {0} /\ n - 1 \in Nat /\ n - 1 \notin T
  BY <1>1
<1> QED BY <1>1, <1>2

\* F makes the value at k out of k and the value at k - 1.
IsStep(F, n, V) == F \in [(1 .. n) \X V -> V]

\* g is made by F, from v.
IsMadeBy(g, F, n, V, v) ==
  /\ g \in [0 .. n -> V]
  /\ \A k \in 0 .. n : g[k] = IF k = 0 THEN v ELSE F[<<k, g[k - 1]>>]

\* A function on 0 .. n may be defined by its first value and a step.
LEMMA PrimitiveRecursion ==
  ASSUME NEW V, NEW v, v \in V, NEW n, n \in Nat, NEW F, IsStep(F, n, V)
  PROVE  \E g : IsMadeBy(g, F, n, V, v)
<1> USE DEF IsStep
<1> DEFINE eq(g, j) == \A k \in 0 .. j : g[k] = IF k = 0 THEN v ELSE F[<<k, g[k - 1]>>]
           S == {j \in Nat : j <= n => \E g \in [0 .. j -> V] : eq(g, j)}
<1>1. 0 \in S
  <2>1. [k \in 0 .. 0 |-> v] \in [0 .. 0 -> V] /\ eq([k \in 0 .. 0 |-> v], 0)
    OBVIOUS
  <2> QED BY <2>1
<1>2. ASSUME NEW j \in Nat, j \in S PROVE j + 1 \in S
  <2> SUFFICES ASSUME j + 1 <= n PROVE \E g \in [0 .. j + 1 -> V] : eq(g, j + 1)
    OBVIOUS
  <2>1. PICK g \in [0 .. j -> V] : eq(g, j)
    BY <1>2
  <2> DEFINE h == [k \in 0 .. j + 1 |-> IF k = j + 1 THEN F[<<j + 1, g[j]>>] ELSE g[k]]
  <2>2. g[j] \in V /\ <<j + 1, g[j]>> \in (1 .. n) \X V
    BY <2>1
  <2>3. F[<<j + 1, g[j]>>] \in V
    BY <2>2
  <2>4. h \in [0 .. j + 1 -> V]
    BY <2>3
  <2>5. ASSUME NEW k \in 0 .. j + 1 PROVE h[k] = IF k = 0 THEN v ELSE F[<<k, h[k - 1]>>]
    <3>1. CASE k = j + 1
      <4>1. h[k] = F[<<j + 1, g[j]>>] /\ h[k - 1] = g[j] /\ k # 0 /\ j \in 0 .. j + 1
        BY <3>1
      <4> HIDE DEF h
      <4> QED BY <3>1, <4>1
    <3>2. CASE k # j + 1
      <4>1. k \in 0 .. j /\ h[k] = g[k] /\ (k # 0 => h[k - 1] = g[k - 1])
        BY <3>2
      <4> QED BY <4>1, <2>1
    <3> QED BY <3>1, <3>2
  <2> QED BY <2>4, <2>5
<1>3. n \in S
  <2> HIDE DEF S
  <2> QED BY <1>1, <1>2, SetInduction
<1> QED BY <1>3 DEF IsMadeBy

(***************************************************************************)
(* The order of a heap                                                     *)
(***************************************************************************)

\* C are ids of vectors that can be compared with q.
Comparable(data, q, C) ==
  /\ q \in Int
  /\ \A c \in C : c \in Int /\ data[c] \in Int

\* What comes off a heap of C before c
Ahead(data, q, C, c) == {d \in C : Closer(data, q, d, c)}

\* A distance is a natural number.
LEMMA DistType == \A x, y \in Int : Dist(x, y) \in Nat
<1>1. \A z \in Int : z * z \in Int /\ z * z >= 0
  BY SMTT(30)
<1> QED BY <1>1 DEF Dist

\* Elements are totally ordered by distance and id.
LEMMA CloserIsOrder ==
  ASSUME NEW data, NEW q, NEW C, Comparable(data, q, C)
  PROVE  /\ \A a \in C : ~ Closer(data, q, a, a)
         /\ \A a, b \in C : Closer(data, q, a, b) => ~ Closer(data, q, b, a)
         /\ \A a, b, c \in C : Closer(data, q, a, b) /\ Closer(data, q, b, c) => Closer(data, q, a, c)
         /\ \A a, b \in C : a = b \/ Closer(data, q, a, b) \/ Closer(data, q, b, a)
         /\ \A a, b \in C : Closer(data, q, a, b) => Dist(q, data[a]) <= Dist(q, data[b])
<1> DEFINE d(c) == Dist(q, data[c])
<1>1. ASSUME NEW c \in C PROVE c \in Int /\ d(c) \in Int
  <2>1. q \in Int /\ data[c] \in Int /\ c \in Int
    BY DEF Comparable
  <2>2. Dist(q, data[c]) \in Nat
    BY <2>1, DistType
  <2> QED BY <2>1, <2>2
<1>2. \A a, b : Closer(data, q, a, b) <=> d(a) < d(b) \/ (d(a) = d(b) /\ a > b)
  BY DEF Closer
<1> HIDE DEF d
<1>3. \A a, b \in C : Closer(data, q, a, b) => d(a) <= d(b)
  BY <1>1, <1>2
<1>4. \A a, b, c \in C : Closer(data, q, a, b) /\ Closer(data, q, b, c) => Closer(data, q, a, c)
  BY <1>1, <1>2
<1>5. \A a, b \in C : a = b \/ Closer(data, q, a, b) \/ Closer(data, q, b, a)
  BY <1>1, <1>2
<1>6. \A a, b \in C : Closer(data, q, a, b) => ~ Closer(data, q, b, a)
  BY <1>1, <1>2
<1> QED BY <1>3, <1>4, <1>5, <1>6 DEF d

\* The number of elements ahead is an order-preserving numbering from 0.
LEMMA AheadFacts ==
  ASSUME NEW data, NEW q, NEW C, Comparable(data, q, C), IsFiniteSet(C)
  PROVE  /\ Cardinality(C) \in Nat
         /\ \A c \in C : Cardinality(Ahead(data, q, C, c)) \in 0 .. Cardinality(C) - 1
         /\ \A a, b \in C : Closer(data, q, a, b) <=>
              Cardinality(Ahead(data, q, C, a)) < Cardinality(Ahead(data, q, C, b))
         /\ \A a, b \in C :
              Cardinality(Ahead(data, q, C, a)) = Cardinality(Ahead(data, q, C, b)) => a = b
<1> DEFINE A(c) == Ahead(data, q, C, c)
           N == Cardinality(C)
<1>1. N \in Nat
  BY FS_CardinalityType
<1>2. ASSUME NEW c \in C PROVE Cardinality(A(c)) \in 0 .. N - 1 /\ IsFiniteSet(A(c))
  <2>1. A(c) \in SUBSET (C \ {c})
    BY CloserIsOrder DEF Ahead
  <2>2. IsFiniteSet(C \ {c}) /\ Cardinality(C \ {c}) = N - 1
    BY FS_RemoveElement
  <2>3. IsFiniteSet(A(c)) /\ Cardinality(A(c)) <= Cardinality(C \ {c}) /\ Cardinality(A(c)) \in Nat
    <3> HIDE DEF A
    <3> QED BY <2>1, <2>2, FS_Subset, FS_CardinalityType
  <2> QED BY <2>2, <2>3, <1>1
<1>3. ASSUME NEW a \in C, NEW b \in C, Closer(data, q, a, b)
      PROVE  Cardinality(A(a)) < Cardinality(A(b))
  <2>1. A(a) \cup {a} \in SUBSET A(b) /\ a \notin A(a)
    BY <1>3, CloserIsOrder DEF Ahead
  <2>2. IsFiniteSet(A(a)) /\ IsFiniteSet(A(b)) /\ Cardinality(A(a)) \in Nat /\ Cardinality(A(b)) \in Nat
    BY <1>2
  <2> HIDE DEF A
  <2>3. Cardinality(A(a) \cup {a}) = Cardinality(A(a)) + 1
    BY <2>1, <2>2, FS_AddElement
  <2>4. Cardinality(A(a) \cup {a}) <= Cardinality(A(b))
    BY <2>1, <2>2, FS_Subset
  <2> QED BY <2>2, <2>3, <2>4
<1> HIDE DEF A
<1>4. \A a, b \in C : a = b \/ Closer(data, q, a, b) \/ Closer(data, q, b, a)
  BY CloserIsOrder
<1>5. \A c \in C : Cardinality(A(c)) \in Int
  BY <1>2
<1>6. \A a, b \in C : Cardinality(A(a)) = Cardinality(A(b)) => a = b
  BY <1>3, <1>4, <1>5
<1>7. ASSUME NEW a \in C, NEW b \in C, Cardinality(A(a)) < Cardinality(A(b))
      PROVE  Closer(data, q, a, b)
  <2>1. a # b /\ ~ Closer(data, q, b, a)
    BY <1>3, <1>5, <1>7
  <2> QED BY <2>1, <1>4
<1> QED BY <1>1, <1>2, <1>3, <1>6, <1>7 DEF A

\* There is a k-th element for every k up to the size of the set.
LEMMA KthFacts ==
  ASSUME NEW data, NEW q, NEW C, Comparable(data, q, C), IsFiniteSet(C),
         NEW k \in 1 .. Cardinality(C)
  PROVE  /\ KthClosest(data, q, C, k) \in C
         /\ Cardinality(Ahead(data, q, C, KthClosest(data, q, C, k))) = k - 1
<1> DEFINE N == Cardinality(C)
           f == [c \in C |-> Cardinality(Ahead(data, q, C, c))]
<1>1. N \in Nat
  BY FS_CardinalityType
<1>2. f \in Injection(C, 0 .. N - 1)
  BY AheadFacts DEF Injection, IsInjective
<1>3. IsFiniteSet(0 .. N - 1) /\ Cardinality(0 .. N - 1) = N
  <2>1. 0 \in Int /\ N - 1 \in Int /\ (0 > N - 1 <=> N = 0)
    BY <1>1
  <2> QED BY <2>1, <1>1, FS_Interval
<1>4. f \in Surjection(C, 0 .. N - 1)
  <2> HIDE DEF f, N
  <2> QED BY <1>2, <1>3, FS_Injection DEF N
<1>5. PICK c \in C : Cardinality(Ahead(data, q, C, c)) = k - 1
  <2>1. k - 1 \in 0 .. N - 1
    BY <1>1
  <2>2. \E c \in C : f[c] = k - 1
    <3> HIDE DEF f, N
    <3> QED BY <2>1, <1>4 DEF Surjection
  <2> QED BY <2>2
<1>6. KthClosest(data, q, C, k) = CHOOSE c1 \in C : Cardinality(Ahead(data, q, C, c1)) = k - 1
  BY DEF KthClosest, Ahead
<1> QED BY <1>5, <1>6

\* The elements closest to q: as many as asked for, or all, and none that is
\* left out comes before one of them.
LEMMA ClosestFacts ==
  ASSUME NEW data, NEW q, NEW C, Comparable(data, q, C), IsFiniteSet(C), NEW k \in Nat
  PROVE  /\ Closest(data, q, C, k) \subseteq C
         /\ IsFiniteSet(Closest(data, q, C, k))
         /\ Cardinality(Closest(data, q, C, k)) = IF k < Cardinality(C) THEN k ELSE Cardinality(C)
         /\ \A a \in Closest(data, q, C, k), b \in C \ Closest(data, q, C, k) : Closer(data, q, a, b)
<1> DEFINE N == Cardinality(C)
           K == Closest(data, q, C, k)
           rank(c) == Cardinality(Ahead(data, q, C, c))
           r == [c \in K |-> rank(c)]
<1>1. K = {c \in C : rank(c) < k}
  BY DEF Closest, Ahead
<1>2. N \in Nat /\ \A c \in C : rank(c) \in 0 .. N - 1
  BY AheadFacts
<1>3. K \subseteq C /\ IsFiniteSet(K)
  <2>1. K \in SUBSET C
    BY <1>1
  <2> HIDE DEF K
  <2> QED BY <2>1, FS_Subset
<1>4. \A a \in K, b \in C \ K : Closer(data, q, a, b)
  <2> SUFFICES ASSUME NEW a \in K, NEW b \in C \ K PROVE Closer(data, q, a, b)
    OBVIOUS
  <2>1. rank(a) < rank(b) /\ a \in C
    BY <1>1, <1>2
  <2> QED BY <2>1, AheadFacts
<1>5. CASE k < N
  <2>1. IsFiniteSet(0 .. k - 1) /\ Cardinality(0 .. k - 1) = k
    <3>1. 0 \in Int /\ k - 1 \in Int /\ (0 > k - 1 <=> k = 0)
      OBVIOUS
    <3> QED BY <3>1, FS_Interval
  <2>2. r \in Injection(K, 0 .. k - 1)
    <3>1. \A c \in K : rank(c) \in 0 .. k - 1
      BY <1>1, <1>2
    <3>2. \A a, b \in K : rank(a) = rank(b) => a = b
      BY <1>3, AheadFacts
    <3> QED BY <3>1, <3>2 DEF Injection, IsInjective
  <2>3. \A j \in 0 .. k - 1 : \E c \in K : r[c] = j
    <3> SUFFICES ASSUME NEW j \in 0 .. k - 1 PROVE \E c \in K : rank(c) = j
      OBVIOUS
    <3>1. j + 1 \in 1 .. N /\ j < k
      BY <1>2, <1>5
    <3>2. PICK c \in C : rank(c) = (j + 1) - 1
      BY <3>1, KthFacts
    <3> QED BY <3>1, <3>2, <1>1
  <2>4. r \in Surjection(K, 0 .. k - 1)
    <3> HIDE DEF K, rank
    <3> QED BY <2>2, <2>3 DEF Surjection, Injection
  <2>5. Cardinality(K) = k
    <3> HIDE DEF K, r
    <3> QED BY <2>1, <2>2, <2>4, FS_Injection
  <2> QED BY <1>3, <1>4, <1>5, <2>5
<1>6. CASE ~ (k < N)
  <2>1. K = C
    BY <1>1, <1>2, <1>6
  <2> QED BY <1>3, <1>4, <1>6, <2>1
<1> QED BY <1>5, <1>6

\* The nearest element is not farther than any other.
LEMMA NearestFacts ==
  ASSUME NEW data, NEW q, NEW C, Comparable(data, q, C), IsFiniteSet(C), C # {}
  PROVE  /\ Nearest(data, q, C) \in C
         /\ \A c \in C : Dist(q, data[Nearest(data, q, C)]) <= Dist(q, data[c])
<1> DEFINE n == Nearest(data, q, C)
<1>1. Cardinality(C) \in Nat /\ Cardinality(C) # 0
  BY FS_CardinalityType, FS_EmptySet
<1>2. n \in C /\ Cardinality(Ahead(data, q, C, n)) = 0
  <2>1. 1 \in 1 .. Cardinality(C)
    BY <1>1
  <2> QED BY <2>1, KthFacts DEF Nearest
<1> HIDE DEF n
<1>3. ASSUME NEW c \in C PROVE Dist(q, data[n]) <= Dist(q, data[c])
  <2>1. Cardinality(Ahead(data, q, C, c)) >= 0
    BY AheadFacts
  <2>2. ~ Closer(data, q, c, n)
    <3>1. Cardinality(Ahead(data, q, C, c)) \in Int
      BY AheadFacts
    <3>2. ~ (Cardinality(Ahead(data, q, C, c)) < Cardinality(Ahead(data, q, C, n)))
      BY <2>1, <3>1, <1>2
    <3> QED BY <3>2, <1>2, AheadFacts
  <2>3. c = n \/ Closer(data, q, n, c)
    BY <2>2, <1>2, CloserIsOrder
  <2>4. Dist(q, data[c]) \in Nat
    BY DistType DEF Comparable
  <2> QED BY <2>3, <2>4, <1>2, CloserIsOrder
<1> QED BY <1>2, <1>3 DEF n

\* Some element is not nearer than any other.
LEMMA FarthestExists ==
  ASSUME NEW data, NEW q, NEW C, Comparable(data, q, C), IsFiniteSet(C), C # {}
  PROVE  \E f \in C : \A c \in C : Dist(q, data[c]) <= Dist(q, data[f])
<1> DEFINE N == Cardinality(C)
           f == KthClosest(data, q, C, N)
<1>1. N \in Nat \ {0}
  BY FS_CardinalityType, FS_EmptySet
<1>2. f \in C /\ Cardinality(Ahead(data, q, C, f)) = N - 1
  <2>1. N \in 1 .. Cardinality(C)
    BY <1>1
  <2> QED BY <2>1, KthFacts
<1> HIDE DEF f
<1>3. ASSUME NEW c \in C PROVE Dist(q, data[c]) <= Dist(q, data[f])
  <2>1. ~ (Cardinality(Ahead(data, q, C, f)) < Cardinality(Ahead(data, q, C, c)))
    <3>1. Cardinality(Ahead(data, q, C, c)) \in 0 .. Cardinality(C) - 1
      BY AheadFacts
    <3> QED BY <3>1, <1>1, <1>2
  <2>2. c = f \/ Closer(data, q, c, f)
    BY <2>1, <1>2, AheadFacts, CloserIsOrder
  <2>3. Dist(q, data[c]) \in Nat
    BY DistType DEF Comparable
  <2> QED BY <2>2, <2>3, <1>2, CloserIsOrder
<1> QED BY <1>2, <1>3

(***************************************************************************)
(* Neighbour selection                                                     *)
(***************************************************************************)

\* One turn of the loop over the candidates, with the k-th nearest of them
Selecting(data, q, C, m, alpha, k, before) ==
  IF /\ Cardinality(before) < m
     /\ \A r \in before : ~ Occludes(data, q, alpha, r, KthClosest(data, q, C, k))
  THEN before \cup {KthClosest(data, q, C, k)}
  ELSE before

\* f has what is kept after every turn.
IsLoop(data, q, C, m, alpha, f) ==
  /\ f[0] = {}
  /\ \A k \in 1 .. Cardinality(C) : f[k] = Selecting(data, q, C, m, alpha, k, f[k - 1])

\* The loop's own equation has a solution, so that the selection is what is
\* kept after the last candidate.
LEMMA SelectionLoop ==
  ASSUME NEW data, NEW q, NEW C, Comparable(data, q, C), IsFiniteSet(C), NEW m, NEW alpha
  PROVE  \E f : /\ getNeighborsByHeuristic2(data, q, C, m, alpha) = f[Cardinality(C)]
                /\ IsLoop(data, q, C, m, alpha, f)
<1> DEFINE N == Cardinality(C)
           eq(f) == f = [k \in 0 .. N |-> IF k = 0 THEN {}
                                          ELSE Selecting(data, q, C, m, alpha, k, f[k - 1])]
<1>1. N \in Nat
  BY FS_CardinalityType
<1>2. \E g : eq(g)
  <2> DEFINE F == [p \in (1 .. N) \X SUBSET C |-> Selecting(data, q, C, m, alpha, p[1], p[2])]
  <2>1. F \in [(1 .. N) \X SUBSET C -> SUBSET C]
    <3>1. ASSUME NEW k \in 1 .. N, NEW b \in SUBSET C
          PROVE  Selecting(data, q, C, m, alpha, k, b) \in SUBSET C
      BY KthFacts DEF Selecting
    <3> QED BY <3>1
  <2>2. PICK g : IsMadeBy(g, F, N, SUBSET C, {})
    <3>1. {} \in SUBSET C /\ IsStep(F, N, SUBSET C)
      BY <2>1 DEF IsStep
    <3> HIDE DEF F, N
    <3> QED BY <1>1, <3>1, PrimitiveRecursion
  <2>3. ASSUME NEW k \in 0 .. N, k # 0
        PROVE  F[<<k, g[k - 1]>>] = Selecting(data, q, C, m, alpha, k, g[k - 1])
    <3>1. k \in 1 .. N /\ g[k - 1] \in SUBSET C
      BY <1>1, <2>2, <2>3 DEF IsMadeBy
    <3> QED BY <3>1
  <2> HIDE DEF F
  <2>4. \A k \in 0 .. N : g[k] = IF k = 0 THEN {} ELSE Selecting(data, q, C, m, alpha, k, g[k - 1])
    BY <2>2, <2>3 DEF IsMadeBy
  <2> HIDE DEF N
  <2>5. g = [k \in 0 .. N |-> g[k]]
    BY <2>2 DEF IsMadeBy
  <2> QED BY <2>4, <2>5
<1>3. PICK f : getNeighborsByHeuristic2(data, q, C, m, alpha) = f[N] /\ eq(f)
  BY <1>2, Zenon DEF getNeighborsByHeuristic2, Selecting
<1>4. IsLoop(data, q, C, m, alpha, f)
  <2>1. 0 \in 0 .. N /\ \A k \in 1 .. N : k \in 0 .. N /\ k # 0
    BY <1>1
  <2> QED BY <1>3, <2>1 DEF IsLoop
<1> QED BY <1>3, <1>4

\* What is ahead of c among the kept elements
KeptBefore(data, q, K, c) == {r \in K : Closer(data, q, r, c)}

\* c belongs to the selection K: fewer than m nearer elements are kept, and
\* none of them occludes it.
Deserves(data, q, m, alpha, K, c) ==
  /\ Cardinality(KeptBefore(data, q, K, c)) < m
  /\ \A r \in KeptBefore(data, q, K, c) : ~ Occludes(data, q, alpha, r, c)

\* The selection from C, as a condition: at most m of C, exactly those that
\* deserve it.
IsSelection(data, q, C, m, alpha, K) ==
  /\ K \subseteq C
  /\ Cardinality(K) <= m
  /\ \A c \in C : c \in K <=> Deserves(data, q, m, alpha, K, c)

\* getNeighborsByHeuristic2 (hnswalg.h:530-574) selects, of any candidates, at
\* most m, and exactly the greedy choice: a candidate is kept if and only if
\* fewer than m nearer ones are kept and none of these occludes it.
THEOREM SelectionIsGreedy ==
  ASSUME NEW data, NEW q, NEW C, Comparable(data, q, C), IsFiniteSet(C), NEW m \in Nat, NEW alpha
  PROVE  IsSelection(data, q, C, m, alpha, getNeighborsByHeuristic2(data, q, C, m, alpha))
<1>1. PICK f : /\ getNeighborsByHeuristic2(data, q, C, m, alpha) = f[Cardinality(C)]
               /\ IsLoop(data, q, C, m, alpha, f)
  BY SelectionLoop
<1> DEFINE N == Cardinality(C)
           rank(c) == Cardinality(Ahead(data, q, C, c))
           first(k) == {c \in C : rank(c) < k}
           kth(k) == KthClosest(data, q, C, k)
           good(K, k) == IsFiniteSet(K) /\ IsSelection(data, q, first(k), m, alpha, K)
<1>2. N \in Nat /\ \A c \in C : rank(c) \in 0 .. N - 1
  BY AheadFacts
<1>3. good({}, 0)
  <2>1. first(0) = {}
    BY <1>2
  <2> QED BY <2>1, FS_EmptySet DEF IsSelection
<1>4. ASSUME NEW k \in 1 .. N, NEW K, good(K, k - 1)
      PROVE  good(Selecting(data, q, C, m, alpha, k, K), k)
  <2> DEFINE c == kth(k)
             B(x, e) == KeptBefore(data, q, x, e)
  <2>1. c \in C /\ rank(c) = k - 1
    BY KthFacts
  <2>2. first(k) = first(k - 1) \cup {c} /\ c \notin first(k - 1)
    <3>1. \A e \in C : rank(e) = k - 1 => e = c
      BY <2>1, AheadFacts
    <3>2. \A e \in C : rank(e) < k <=> rank(e) < k - 1 \/ rank(e) = k - 1
      BY <1>2
    <3> QED BY <2>1, <3>1, <3>2
  <2>3. \A e \in first(k - 1) : Closer(data, q, e, c) /\ ~ Closer(data, q, c, e)
    <3> SUFFICES ASSUME NEW e \in C, rank(e) < k - 1
                 PROVE  Closer(data, q, e, c) /\ ~ Closer(data, q, c, e)
      OBVIOUS
    <3>1. Closer(data, q, e, c)
      BY <2>1, AheadFacts
    <3> QED BY <3>1, <2>1, CloserIsOrder
  <2> HIDE DEF first, kth, rank
  <2>4. K \subseteq first(k - 1) /\ Cardinality(K) <= m /\ IsFiniteSet(K) /\ Cardinality(K) \in Nat
    BY <1>4, FS_CardinalityType DEF IsSelection
  <2>5. B(K, c) = K /\ B(K \cup {c}, c) = K
    <3>1. ~ Closer(data, q, c, c)
      BY <2>1, CloserIsOrder
    <3> QED BY <2>3, <2>4, <3>1 DEF KeptBefore
  <2>6. \A e \in first(k - 1) : B(K \cup {c}, e) = B(K, e)
    BY <2>3 DEF KeptBefore
  <2>7. IsFiniteSet(K \cup {c}) /\ Cardinality(K \cup {c}) = Cardinality(K) + 1
    BY <2>2, <2>4, FS_AddElement
  <2>8. CASE Cardinality(K) < m /\ \A r \in K : ~ Occludes(data, q, alpha, r, c)
    <3>1. Selecting(data, q, C, m, alpha, k, K) = K \cup {c}
      BY <2>8 DEF Selecting, kth
    <3>2. Deserves(data, q, m, alpha, K \cup {c}, c)
      BY <2>5, <2>8 DEF Deserves
    <3>3. \A e \in first(k - 1) : e \in K \cup {c} <=> Deserves(data, q, m, alpha, K \cup {c}, e)
      BY <2>2, <2>6, <1>4 DEF Deserves, IsSelection
    <3>4. Cardinality(K \cup {c}) <= m
      BY <2>4, <2>7, <2>8
    <3> QED BY <3>1, <3>2, <3>3, <3>4, <2>2, <2>4, <2>7 DEF IsSelection
  <2>9. CASE ~ (Cardinality(K) < m /\ \A r \in K : ~ Occludes(data, q, alpha, r, c))
    <3>1. Selecting(data, q, C, m, alpha, k, K) = K
      BY <2>9 DEF Selecting, kth
    <3>2. ~ Deserves(data, q, m, alpha, K, c)
      BY <2>5, <2>9 DEF Deserves
    <3> QED BY <3>1, <3>2, <2>2, <2>4, <1>4 DEF IsSelection
  <2> QED BY <2>8, <2>9
<1> DEFINE S == {k \in Nat : k <= N => good(f[k], k)}
<1>5. 0 \in S
  BY <1>1, <1>3 DEF IsLoop
<1>6. ASSUME NEW k \in Nat, k \in S PROVE k + 1 \in S
  <2> SUFFICES ASSUME k + 1 <= N PROVE good(f[k + 1], k + 1)
    OBVIOUS
  <2>1. good(f[k], k) /\ k + 1 \in 1 .. N /\ (k + 1) - 1 = k
    BY <1>2, <1>6
  <2>2. f[k + 1] = Selecting(data, q, C, m, alpha, k + 1, f[k])
    BY <1>1, <2>1 DEF IsLoop
  <2> HIDE DEF good
  <2> QED BY <1>4, <2>1, <2>2
<1>7. good(f[N], N)
  <2>1. N \in S
    <3> HIDE DEF S, N
    <3> QED BY <1>2, <1>5, <1>6, SetInduction
  <2> QED BY <2>1, <1>2
<1>8. first(N) = C
  BY <1>2
<1> QED BY <1>1, <1>7, <1>8

\* The nearest candidate is always kept.
COROLLARY NearestIsSelected ==
  ASSUME NEW data, NEW q, NEW C, Comparable(data, q, C), IsFiniteSet(C), C # {},
         NEW m \in Nat \ {0}, NEW alpha
  PROVE  Nearest(data, q, C) \in getNeighborsByHeuristic2(data, q, C, m, alpha)
<1> DEFINE K == getNeighborsByHeuristic2(data, q, C, m, alpha)
           n == Nearest(data, q, C)
<1>1. IsSelection(data, q, C, m, alpha, K)
  BY SelectionIsGreedy
<1>2. n \in C /\ \A c \in C : ~ Closer(data, q, c, n)
  <2>1. 1 \in 1 .. Cardinality(C)
    BY FS_CardinalityType, FS_EmptySet
  <2>2. n \in C /\ Cardinality(Ahead(data, q, C, n)) = 0
    BY <2>1, KthFacts DEF Nearest
  <2>3. IsFiniteSet(Ahead(data, q, C, n))
    <3>1. Ahead(data, q, C, n) \in SUBSET C
      BY DEF Ahead
    <3> QED BY <3>1, FS_Subset
  <2>4. Ahead(data, q, C, n) = {}
    BY <2>2, <2>3, FS_EmptySet
  <2> QED BY <2>2, <2>4 DEF Ahead
<1>3. KeptBefore(data, q, K, n) = {}
  BY <1>1, <1>2 DEF KeptBefore, IsSelection
<1> HIDE DEF K, n
<1>4. Deserves(data, q, m, alpha, K, n)
  BY <1>3, FS_EmptySet DEF Deserves
<1> QED BY <1>1, <1>2, <1>4 DEF IsSelection, K, n

(***************************************************************************)
(* Indexes                                                                 *)
(***************************************************************************)

\* What WellFormed says of one level, and that any ids can be compared.
LEMMA IndexFacts ==
  ASSUME NEW ix, NEW M, WellFormed(ix, M), NEW q \in Int
  PROVE  /\ ix.count \in Nat \ {0} /\ IsFiniteSet(Ids(ix)) /\ Cardinality(Ids(ix)) = ix.count
         /\ \A n \in Ids(ix) : n \in Int /\ ix.data[n] \in Int /\ Dist(q, ix.data[n]) \in Nat
         /\ \A n \in Ids(ix) : ix.element_levels_[n] \in 0 .. ix.maxlevel_
         /\ \A l \in 0 .. ix.maxlevel_, n \in Ids(ix) :
              ix.links[l][n] \subseteq {c \in Ids(ix) : ix.element_levels_[c] >= l}
         /\ \A C \in SUBSET Ids(ix) : IsFiniteSet(C) /\ Comparable(ix.data, q, C)
<1>1. ix.count \in Nat \ {0} /\ ix.data \in [Ids(ix) -> Int]
  BY DEF WellFormed
<1>2. IsFiniteSet(Ids(ix)) /\ Cardinality(Ids(ix)) = ix.count
  <2>1. 0 \in Int /\ ix.count - 1 \in Int /\ ~ (0 > ix.count - 1)
    BY <1>1
  <2>2. IsFiniteSet(0 .. (ix.count - 1)) /\ Cardinality(0 .. (ix.count - 1)) = (ix.count - 1) - 0 + 1
    BY <2>1, FS_Interval
  <2> QED BY <2>2, <1>1 DEF Ids
<1>3. ASSUME NEW n \in Ids(ix) PROVE n \in Int /\ ix.data[n] \in Int /\ Dist(q, ix.data[n]) \in Nat
  <2>1. n \in Int /\ ix.data[n] \in Int
    BY <1>1 DEF Ids
  <2> QED BY <2>1, DistType
<1>4. \A n \in Ids(ix) : ix.element_levels_[n] \in 0 .. ix.maxlevel_
  BY DEF WellFormed
<1>5. ASSUME NEW l \in 0 .. ix.maxlevel_, NEW n \in Ids(ix)
      PROVE  ix.links[l][n] \subseteq {c \in Ids(ix) : ix.element_levels_[c] >= l}
  BY DEF WellFormed
<1>6. ASSUME NEW C \in SUBSET Ids(ix) PROVE IsFiniteSet(C) /\ Comparable(ix.data, q, C)
  BY <1>2, <1>3, FS_Subset DEF Comparable
<1> QED BY <1>1, <1>2, <1>3, <1>4, <1>5, <1>6

\* The distance of an element from q
From(ix, q, n) == Dist(q, ix.data[n])

\* All elements are closer than some bound.
LEMMA DistancesBounded ==
  ASSUME NEW ix, NEW M, WellFormed(ix, M), NEW q \in Int
  PROVE  \E K \in Nat : \A n \in Ids(ix) : From(ix, q, n) < K
<1>1. IsFiniteSet(Ids(ix)) /\ Comparable(ix.data, q, Ids(ix)) /\ Ids(ix) # {}
  BY IndexFacts, FS_EmptySet
<1>2. PICK f \in Ids(ix) : \A n \in Ids(ix) : Dist(q, ix.data[n]) <= Dist(q, ix.data[f])
  BY <1>1, FarthestExists
<1>3. \A n \in Ids(ix) : From(ix, q, n) \in Nat
  BY IndexFacts DEF From
<1>4. From(ix, q, f) + 1 \in Nat /\ \A n \in Ids(ix) : From(ix, q, n) < From(ix, q, f) + 1
  BY <1>2, <1>3 DEF From
<1> QED BY <1>4

(***************************************************************************)
(* The descent                                                             *)
(***************************************************************************)

CloserThan(ix, q, l, n) == {c \in ix.links[l][n] : Dist(q, ix.data[c]) < Dist(q, ix.data[n])}

\* w leads from every element of S to where the descent ends.
Walks(ix, q, l, w, S) ==
  \A n \in S :
    w[n] = IF CloserThan(ix, q, l, n) = {} THEN n
           ELSE w[Nearest(ix.data, q, CloserThan(ix, q, l, n))]

\* A step of the descent leads to a closer element of the level.
LEMMA StepFacts ==
  ASSUME NEW ix, NEW M, WellFormed(ix, M), NEW q \in Int, NEW l \in 0 .. ix.maxlevel_,
         NEW n \in Ids(ix), CloserThan(ix, q, l, n) # {},
         NEW c, c = Nearest(ix.data, q, CloserThan(ix, q, l, n))
  PROVE  c \in Ids(ix) /\ ix.element_levels_[c] >= l /\ From(ix, q, c) < From(ix, q, n)
<1> DEFINE C == CloserThan(ix, q, l, n)
<1>1. C \in SUBSET {e \in Ids(ix) : ix.element_levels_[e] >= l}
  BY IndexFacts DEF CloserThan
<1>2. IsFiniteSet(C) /\ Comparable(ix.data, q, C)
  BY <1>1, IndexFacts
<1>3. c \in C
  <2> HIDE DEF C
  <2> QED BY <1>2, NearestFacts DEF C
<1> QED BY <1>1, <1>3 DEF CloserThan, From

\* The elements closer than k
Ball(ix, q, k) == {n \in Ids(ix) : From(ix, q, n) < k}

\* The equation of the descent has a solution.
LEMMA DescentLoop ==
  ASSUME NEW ix, NEW M, WellFormed(ix, M), NEW q \in Int, NEW l \in 0 .. ix.maxlevel_, NEW start
  PROVE  \E w : Descend(ix, q, start, l) = w[start] /\ Walks(ix, q, l, w, Ids(ix))
<1> DEFINE S == {k \in Nat : \E w : Walks(ix, q, l, w, Ball(ix, q, k))}
           next(n) == Nearest(ix.data, q, CloserThan(ix, q, l, n))
<1>1. \A n \in Ids(ix) : From(ix, q, n) \in Nat
  BY IndexFacts DEF From
<1>2. 0 \in S
  BY <1>1 DEF Walks, Ball
<1>3. ASSUME NEW k \in Nat, k \in S PROVE k + 1 \in S
  <2>1. PICK w : Walks(ix, q, l, w, Ball(ix, q, k))
    BY <1>3
  <2> DEFINE h == [n \in Ids(ix) |-> IF n \in Ball(ix, q, k) THEN w[n]
                                     ELSE IF CloserThan(ix, q, l, n) = {} THEN n ELSE w[next(n)]]
  <2>2. ASSUME NEW n \in Ball(ix, q, k + 1), CloserThan(ix, q, l, n) # {}
        PROVE  next(n) \in Ball(ix, q, k)
    <3>1. n \in Ids(ix) /\ From(ix, q, n) < k + 1
      BY DEF Ball
    <3>2. next(n) \in Ids(ix) /\ From(ix, q, next(n)) < From(ix, q, n)
      BY <2>2, <3>1, StepFacts
    <3> HIDE DEF next
    <3> QED BY <3>1, <3>2, <1>1 DEF Ball
  <2>3. ASSUME NEW n \in Ball(ix, q, k) PROVE n \in Ball(ix, q, k + 1) /\ h[n] = w[n]
    BY <1>1 DEF Ball
  <2>4. ASSUME NEW n \in Ball(ix, q, k + 1)
        PROVE  h[n] = IF CloserThan(ix, q, l, n) = {} THEN n ELSE h[next(n)]
    <3>1. n \in Ids(ix)
      BY DEF Ball
    <3>2. CASE n \in Ball(ix, q, k)
      <4>1. h[n] = IF CloserThan(ix, q, l, n) = {} THEN n ELSE w[next(n)]
        BY <3>2, <2>1, <2>3 DEF Walks
      <4>2. CloserThan(ix, q, l, n) # {} => h[next(n)] = w[next(n)]
        <5> HIDE DEF h, next
        <5> QED BY <2>2, <2>3
      <4> HIDE DEF h, next
      <4> QED BY <4>1, <4>2
    <3>3. CASE n \notin Ball(ix, q, k)
      <4>1. h[n] = IF CloserThan(ix, q, l, n) = {} THEN n ELSE w[next(n)]
        BY <3>1, <3>3
      <4>2. CloserThan(ix, q, l, n) # {} => h[next(n)] = w[next(n)]
        <5> HIDE DEF h, next
        <5> QED BY <2>2, <2>3
      <4> HIDE DEF h, next
      <4> QED BY <4>1, <4>2
    <3> QED BY <3>2, <3>3
  <2>5. Walks(ix, q, l, h, Ball(ix, q, k + 1))
    <3> HIDE DEF h
    <3> QED BY <2>4 DEF Walks
  <2> QED BY <2>5
<1>4. PICK w : Walks(ix, q, l, w, Ids(ix))
  <2>1. PICK K \in Nat : \A n \in Ids(ix) : From(ix, q, n) < K
    BY DistancesBounded
  <2>2. K \in S
    <3> HIDE DEF S
    <3> QED BY <1>2, <1>3, SetInduction
  <2>3. Ball(ix, q, K) = Ids(ix)
    BY <2>1 DEF Ball
  <2> QED BY <2>2, <2>3
<1> DEFINE eq(g) == g = [n \in Ids(ix) |-> IF CloserThan(ix, q, l, n) = {} THEN n ELSE g[next(n)]]
           v == [n \in Ids(ix) |-> w[n]]
<1>5. eq(v)
  <2>1. ASSUME NEW n \in Ids(ix)
        PROVE  v[n] = IF CloserThan(ix, q, l, n) = {} THEN n ELSE v[next(n)]
    <3>1. w[n] = IF CloserThan(ix, q, l, n) = {} THEN n ELSE w[next(n)]
      BY <1>4 DEF Walks
    <3>2. CloserThan(ix, q, l, n) # {} => next(n) \in Ids(ix)
      BY StepFacts
    <3> HIDE DEF next
    <3> QED BY <3>1, <3>2
  <2>2. v = [n \in Ids(ix) |-> v[n]]
    OBVIOUS
  <2> HIDE DEF v, next
  <2> QED BY <2>1, <2>2
<1>6. \E g : eq(g)
  BY <1>5
<1>7. PICK g : Descend(ix, q, start, l) = g[start] /\ eq(g)
  BY <1>6, Zenon DEF Descend, CloserThan
<1>8. Walks(ix, q, l, g, Ids(ix))
  <2> HIDE DEF next
  <2> QED BY <1>7 DEF Walks, next
<1> QED BY <1>7, <1>8

\* On a level the descent of search2Layer and searchKnn (extension.h:49-70)
\* ends at an element none of whose neighbours on the level is closer to the
\* query; the element is not farther than the start, and on the level unless
\* it is the start.
THEOREM DescentEndsLocally ==
  ASSUME NEW ix, NEW M, WellFormed(ix, M), NEW q \in Int, NEW l \in 0 .. ix.maxlevel_,
         NEW start \in Ids(ix)
  PROVE  LET e == Descend(ix, q, start, l)
         IN  /\ e \in Ids(ix)
             /\ From(ix, q, e) <= From(ix, q, start)
             /\ \A c \in ix.links[l][e] : From(ix, q, e) <= From(ix, q, c)
             /\ e = start \/ ix.element_levels_[e] >= l
<1> DEFINE good(n, e) == /\ e \in Ids(ix)
                         /\ From(ix, q, e) <= From(ix, q, n)
                         /\ CloserThan(ix, q, l, e) = {}
                         /\ e = n \/ ix.element_levels_[e] >= l
           next(n) == Nearest(ix.data, q, CloserThan(ix, q, l, n))
<1>1. \A n \in Ids(ix) : From(ix, q, n) \in Nat /\ ix.element_levels_[n] \in Int
  BY IndexFacts DEF From
<1> SUFFICES good(start, Descend(ix, q, start, l))
  <2> DEFINE e == Descend(ix, q, start, l)
  <2>1. e \in Ids(ix) /\ CloserThan(ix, q, l, e) = {}
    OBVIOUS
  <2>2. \A c \in ix.links[l][e] : c \in Ids(ix)
    BY <2>1, IndexFacts
  <2>3. \A c \in ix.links[l][e] : ~ (From(ix, q, c) < From(ix, q, e))
    BY <2>1 DEF CloserThan, From
  <2> HIDE DEF e
  <2>4. \A c \in ix.links[l][e] : From(ix, q, e) <= From(ix, q, c)
    BY <1>1, <2>1, <2>2, <2>3
  <2> QED BY <2>4 DEF e
<1>2. PICK w : Descend(ix, q, start, l) = w[start] /\ Walks(ix, q, l, w, Ids(ix))
  BY DescentLoop
<1> DEFINE S == {k \in Nat : \A n \in Ball(ix, q, k) : good(n, w[n])}
<1>3. 0 \in S
  BY <1>1 DEF Ball
<1>4. ASSUME NEW k \in Nat, k \in S PROVE k + 1 \in S
  <2> SUFFICES ASSUME NEW n \in Ball(ix, q, k + 1) PROVE good(n, w[n])
    OBVIOUS
  <2>1. n \in Ids(ix) /\ From(ix, q, n) < k + 1
    BY DEF Ball
  <2>2. CASE CloserThan(ix, q, l, n) = {}
    <3>1. w[n] = n
      BY <1>2, <2>1, <2>2 DEF Walks
    <3> QED BY <1>1, <2>1, <2>2, <3>1
  <2>3. CASE CloserThan(ix, q, l, n) # {}
    <3>1. w[n] = w[next(n)]
      BY <1>2, <2>1, <2>3 DEF Walks
    <3>2. next(n) \in Ids(ix) /\ ix.element_levels_[next(n)] >= l /\ From(ix, q, next(n)) < From(ix, q, n)
      BY <2>1, <2>3, StepFacts
    <3> HIDE DEF next
    <3>3. next(n) \in Ball(ix, q, k)
      BY <1>1, <2>1, <3>2 DEF Ball
    <3>4. good(next(n), w[next(n)])
      BY <1>4, <3>3
    <3>5. w[next(n)] \in Ids(ix) /\ ix.element_levels_[w[next(n)]] >= l
      BY <3>2, <3>4
    <3> QED BY <1>1, <2>1, <3>1, <3>2, <3>4, <3>5
  <2> QED BY <2>2, <2>3
<1>5. PICK K \in Nat : \A n \in Ids(ix) : From(ix, q, n) < K
  BY DistancesBounded
<1>6. K \in S
  <2> HIDE DEF S
  <2> QED BY <1>3, <1>4, SetInduction
<1>7. start \in Ball(ix, q, K)
  BY <1>5 DEF Ball
<1> QED BY <1>2, <1>6, <1>7

\* at has, for every level from hi down to lo, the element the descent stands
\* at when it gets there.
Stations(ix, q, start, hi, lo, at) ==
  /\ at[hi] = start
  /\ \A l \in lo .. hi - 1 : at[l] = Descend(ix, q, at[l + 1], l + 1)

\* The loop over the levels has its stations.
LEMMA LevelLoop ==
  ASSUME NEW ix, NEW M, WellFormed(ix, M), NEW q \in Int, NEW start \in Ids(ix),
         NEW hi \in 0 .. ix.maxlevel_, NEW lo \in 0 .. hi
  PROVE  \E at : DescendFrom(ix, q, start, hi, lo) = at[lo] /\ Stations(ix, q, start, hi, lo, at)
<1> DEFINE n == hi - lo
           F == [p \in (1 .. n) \X Ids(ix) |-> Descend(ix, q, p[2], (hi - p[1]) + 1)]
           eq(at) == at = [l \in lo .. hi |-> IF l = hi THEN start ELSE Descend(ix, q, at[l + 1], l + 1)]
<1>1. n \in Nat /\ ix.maxlevel_ \in Nat /\ hi \in Nat /\ lo \in Nat
  BY DEF WellFormed
<1>2. IsStep(F, n, Ids(ix))
  <2>1. ASSUME NEW k \in 1 .. n, NEW e \in Ids(ix) PROVE Descend(ix, q, e, (hi - k) + 1) \in Ids(ix)
    <3>1. (hi - k) + 1 \in 0 .. ix.maxlevel_
      BY <1>1
    <3> QED BY <3>1, DescentEndsLocally
  <2> QED BY <2>1 DEF IsStep
<1>3. PICK g : IsMadeBy(g, F, n, Ids(ix), start)
  <2> HIDE DEF F, n
  <2> QED BY <1>1, <1>2, PrimitiveRecursion
<1>4. g \in [0 .. n -> Ids(ix)] /\ g[0] = start
  <2>1. 0 \in 0 .. n
    BY <1>1
  <2> HIDE DEF F, n
  <2> QED BY <1>3, <2>1 DEF IsMadeBy
<1>5. ASSUME NEW k \in 1 .. n PROVE g[k] = Descend(ix, q, g[k - 1], (hi - k) + 1)
  <2>1. k \in 0 .. n /\ k # 0 /\ k - 1 \in 0 .. n
    BY <1>1
  <2>2. g[k] = F[<<k, g[k - 1]>>] /\ g[k - 1] \in Ids(ix)
    <3> HIDE DEF F, n
    <3> QED BY <1>3, <1>4, <2>1 DEF IsMadeBy
  <2> QED BY <2>2
<1> DEFINE at == [l \in lo .. hi |-> g[hi - l]]
<1>6. eq(at)
  <2>1. ASSUME NEW l \in lo .. hi
        PROVE  at[l] = IF l = hi THEN start ELSE Descend(ix, q, at[l + 1], l + 1)
    <3>1. CASE l = hi
      <4>1. hi - l = 0
        BY <1>1, <3>1
      <4> QED BY <3>1, <4>1, <1>4
    <3>2. CASE l # hi
      <4>1. hi - l \in 1 .. n /\ (hi - l) - 1 = hi - (l + 1) /\ (hi - (hi - l)) + 1 = l + 1 /\ l + 1 \in lo .. hi
        BY <1>1, <3>2
      <4>2. at[l] = g[hi - l] /\ at[l + 1] = g[hi - (l + 1)]
        BY <4>1
      <4> HIDE DEF at, n
      <4> QED BY <3>2, <4>1, <4>2, <1>5
    <3> QED BY <3>1, <3>2
  <2>2. at = [l \in lo .. hi |-> at[l]]
    OBVIOUS
  <2> HIDE DEF at
  <2> QED BY <2>1, <2>2
<1>7. \E f : eq(f)
  BY <1>6
<1>8. PICK f : DescendFrom(ix, q, start, hi, lo) = f[lo] /\ eq(f)
  BY <1>7, Zenon DEF DescendFrom
<1>9. Stations(ix, q, start, hi, lo, f)
  <2>1. hi \in lo .. hi /\ \A l \in lo .. hi - 1 : l \in lo .. hi /\ l # hi
    BY <1>1
  <2> QED BY <1>8, <2>1 DEF Stations
<1> QED BY <1>8, <1>9

\* The descent from level hi to level lo (extension.h:46-71) ends at an element
\* not farther from the query than the start, which is the start or has a
\* level above lo.
THEOREM DescentFacts ==
  ASSUME NEW ix, NEW M, WellFormed(ix, M), NEW q \in Int, NEW start \in Ids(ix),
         NEW hi \in 0 .. ix.maxlevel_, NEW lo \in 0 .. hi
  PROVE  LET e == DescendFrom(ix, q, start, hi, lo)
         IN  /\ e \in Ids(ix)
             /\ From(ix, q, e) <= From(ix, q, start)
             /\ e = start \/ ix.element_levels_[e] >= lo + 1
<1>1. PICK at : DescendFrom(ix, q, start, hi, lo) = at[lo] /\ Stations(ix, q, start, hi, lo, at)
  BY LevelLoop
<1> DEFINE good(k, e) == /\ e \in Ids(ix)
                         /\ From(ix, q, e) <= From(ix, q, start)
                         /\ e = start \/ ix.element_levels_[e] >= (hi - k) + 1
           S == {k \in Nat : k <= hi - lo => good(k, at[hi - k])}
<1>2. ix.maxlevel_ \in Nat /\ hi \in Nat /\ lo \in Nat
  BY DEF WellFormed
<1>3. \A n \in Ids(ix) : From(ix, q, n) \in Nat /\ ix.element_levels_[n] \in Int
  BY IndexFacts DEF From
<1>4. 0 \in S
  <2>1. hi - 0 = hi
    BY <1>2
  <2> QED BY <1>1, <1>3, <2>1 DEF Stations
<1>5. ASSUME NEW k \in Nat, k \in S PROVE k + 1 \in S
  <2> SUFFICES ASSUME k + 1 <= hi - lo PROVE good(k + 1, at[hi - (k + 1)])
    OBVIOUS
  <2> DEFINE l == hi - (k + 1)
  <2>1. l \in lo .. hi - 1 /\ l + 1 = hi - k /\ l + 1 \in 0 .. ix.maxlevel_ /\ k <= hi - lo
    BY <1>2
  <2>2. good(k, at[l + 1])
    BY <1>5, <2>1
  <2>3. at[l] = Descend(ix, q, at[l + 1], l + 1)
    <3> HIDE DEF l
    <3> QED BY <1>1, <2>1 DEF Stations
  <2>4. /\ at[l] \in Ids(ix) /\ From(ix, q, at[l]) <= From(ix, q, at[l + 1])
        /\ at[l] = at[l + 1] \/ ix.element_levels_[at[l]] >= l + 1
    <3> HIDE DEF l
    <3> QED BY <2>1, <2>2, <2>3, DescentEndsLocally
  <2>5. at[l + 1] = start \/ ix.element_levels_[at[l + 1]] >= (hi - k) + 1
    BY <2>2
  <2>6. From(ix, q, at[l]) <= From(ix, q, start)
    BY <1>3, <2>2, <2>4
  <2>7. at[l] = start \/ ix.element_levels_[at[l]] >= (hi - (k + 1)) + 1
    <3>1. CASE at[l] = at[l + 1]
      BY <3>1, <2>1, <2>2, <2>5, <1>2, <1>3
    <3>2. CASE ix.element_levels_[at[l]] >= l + 1
      BY <3>2
    <3> QED BY <3>1, <3>2, <2>4
  <2> QED BY <2>4, <2>6, <2>7
<1>6. hi - lo \in S
  <2>1. hi - lo \in Nat
    BY <1>2
  <2> HIDE DEF S
  <2> QED BY <2>1, <1>4, <1>5, SetInduction
<1>7. good(hi - lo, at[hi - (hi - lo)]) /\ hi - (hi - lo) = lo
  BY <1>2, <1>6
<1> QED BY <1>1, <1>7

(***************************************************************************)
(* The beam                                                                *)
(***************************************************************************)

\* The elements on level l
OnLevel(ix, l) == {n \in Ids(ix) : ix.element_levels_[n] >= l}

\* No room is left in top for an element as far as e.
NoRoomFor(ix, q, ef, top, e) ==
  /\ Cardinality(top) = ef
  /\ \A t \in top : From(ix, q, t) <= From(ix, q, e)

\* What holds whenever the loop begins a turn: top has the nearest of the
\* visited elements, but for the hidden ones, and what has been visited has
\* been expanded, or waits for it, or is too far.
BeamInv(ix, q, start, l, ef, hidden, s) ==
  /\ s \in [cand : SUBSET OnLevel(ix, l), visited : SUBSET OnLevel(ix, l), top : SUBSET OnLevel(ix, l)]
  /\ start \in s.visited
  /\ s.cand \subseteq s.visited
  /\ s.top \subseteq s.visited \ hidden
  /\ Cardinality(s.top) <= ef
  /\ \A c \in (s.visited \ hidden) \ s.top : NoRoomFor(ix, q, ef, s.top, c)
  /\ \A e \in s.top : e \in s.cand \/ ix.links[l][e] \subseteq s.visited
  /\ \A e \in s.visited : e \in s.cand \/ ix.links[l][e] \subseteq s.visited
                          \/ NoRoomFor(ix, q, ef, s.top, e)

\* The beam begins so.
LEMMA BeamBegins ==
  ASSUME NEW ix, NEW M, WellFormed(ix, M), NEW q \in Int, NEW l \in 0 .. ix.maxlevel_,
         NEW start \in OnLevel(ix, l), NEW ef \in Nat \ {0}, NEW hidden
  PROVE  BeamInv(ix, q, start, l, ef, hidden, BeamStart(start, hidden))
<1> DEFINE s == BeamStart(start, hidden)
<1>1. s = [cand |-> {start}, visited |-> {start}, top |-> {start} \ hidden]
  BY DEF BeamStart
<1>2. Cardinality(s.top) <= ef
  <2>1. s.top = {} \/ s.top = {start}
    BY <1>1
  <2>2. Cardinality({}) = 0 /\ Cardinality({start}) = 1
    BY FS_EmptySet, FS_Singleton
  <2> HIDE DEF s
  <2> QED BY <2>1, <2>2
<1>3. s \in [cand : SUBSET OnLevel(ix, l), visited : SUBSET OnLevel(ix, l), top : SUBSET OnLevel(ix, l)]
  BY <1>1
<1> QED BY <1>1, <1>2, <1>3 DEF BeamInv

\* A turn of the loop keeps it so, and one more of the visited elements is no
\* candidate any more.
LEMMA BeamGoesOn ==
  ASSUME NEW ix, NEW M, WellFormed(ix, M), NEW q \in Int, NEW l \in 0 .. ix.maxlevel_,
         NEW start \in OnLevel(ix, l), NEW ef \in Nat \ {0}, NEW hidden,
         NEW s, BeamInv(ix, q, start, l, ef, hidden, s), s.cand # {},
         NEW r, r = BeamExpand(ix, q, l, ef, hidden, s)
  PROVE  /\ BeamInv(ix, q, start, l, ef, hidden, r)
         /\ Cardinality(r.visited \ r.cand) >= Cardinality(s.visited \ s.cand) + 1
<1> DEFINE W == OnLevel(ix, l)
           n == Nearest(ix.data, q, s.cand)
           new == ix.links[l][n] \ s.visited
           considered == {c \in new : Cardinality(s.top) < ef \/ BelowBound(ix, q, s.top, c)}
           offered == s.top \cup (considered \ hidden)
           d(e) == From(ix, q, e)
<1>1. /\ s.cand \subseteq s.visited /\ s.visited \subseteq W /\ s.top \subseteq s.visited \ hidden
      /\ W \subseteq Ids(ix) /\ start \in s.visited
  BY DEF BeamInv, OnLevel
<1>2. \A e \in W : d(e) \in Nat
  BY IndexFacts DEF OnLevel, From
<1>3. \A C \in SUBSET W : IsFiniteSet(C) /\ Comparable(ix.data, q, C)
  BY IndexFacts DEF OnLevel
<1>4. n \in s.cand
  BY <1>1, <1>3, NearestFacts
<1>5. new \subseteq W
  BY <1>1, <1>4, IndexFacts DEF OnLevel
<1>6. r = [cand    |-> (s.cand \ {n}) \cup considered,
           visited |-> s.visited \cup new,
           top     |-> Closest(ix.data, q, offered, ef)]
  BY DEF BeamExpand
<1>7. /\ r.cand = (s.cand \ {n}) \cup considered
      /\ r.visited = s.visited \cup new
      /\ r.top = Closest(ix.data, q, offered, ef)
      /\ r \in [cand : SUBSET W, visited : SUBSET W, top : {Closest(ix.data, q, offered, ef)}]
  <2>1. considered \subseteq W
    BY <1>5
  <2> HIDE DEF considered, offered, new, n, W
  <2> QED BY <1>1, <1>5, <1>6, <2>1
<1>8. offered \in SUBSET W
  BY <1>1, <1>5
<1>9. ix.links[l][n] \subseteq r.visited
  BY <1>7
<1>10. \A e \in new : e \in considered \/
         (~ (Cardinality(s.top) < ef) /\ \A t \in s.top : ~ (d(e) < d(t)))
  BY DEF BelowBound, From
<1>11. considered \subseteq new
  OBVIOUS
<1> HIDE DEF W, n, new, considered, d
<1>12. /\ r.top \subseteq offered
       /\ Cardinality(r.top) = IF ef < Cardinality(offered) THEN ef ELSE Cardinality(offered)
       /\ \A a \in r.top, b \in offered \ r.top : Closer(ix.data, q, a, b)
  <2>1. IsFiniteSet(offered) /\ Comparable(ix.data, q, offered) /\ ef \in Nat
    BY <1>3, <1>8
  <2>2. r.top = Closest(ix.data, q, offered, ef)
    BY <1>7
  <2> HIDE DEF offered
  <2> QED BY <2>1, <2>2, ClosestFacts
<1>13. /\ IsFiniteSet(offered) /\ IsFiniteSet(s.top) /\ IsFiniteSet(r.top)
       /\ Cardinality(offered) \in Nat /\ Cardinality(s.top) \in Nat
       /\ Cardinality(s.top) <= Cardinality(offered)
  <2>1. s.top \in SUBSET offered /\ r.top \in SUBSET offered
    BY <1>12
  <2> HIDE DEF offered
  <2> QED BY <1>3, <1>8, <2>1, FS_Subset, FS_CardinalityType
<1>14. \A a \in r.top, b \in offered \ r.top : d(a) <= d(b)
  <2> SUFFICES ASSUME NEW a \in r.top, NEW b \in offered \ r.top PROVE d(a) <= d(b)
    OBVIOUS
  <2>1. Closer(ix.data, q, a, b) /\ a \in offered
    BY <1>12
  <2>2. Comparable(ix.data, q, offered)
    BY <1>3, <1>8
  <2> HIDE DEF offered
  <2> QED BY <2>1, <2>2, CloserIsOrder DEF d, From
<1>15. ASSUME NEW e \in W, NoRoomFor(ix, q, ef, s.top, e) PROVE NoRoomFor(ix, q, ef, r.top, e)
  <2>1. Cardinality(s.top) = ef /\ \A t \in s.top : d(t) <= d(e)
    BY <1>15 DEF NoRoomFor, d
  <2>2. Cardinality(r.top) = ef
    BY <1>12, <1>13, <2>1
  <2>3. ASSUME NEW t \in r.top PROVE d(t) <= d(e)
    <3>1. CASE t \in s.top
      BY <2>1, <3>1
    <3>2. CASE t \notin s.top
      <4>1. PICK b \in s.top : b \notin r.top
        <5> SUFFICES ASSUME s.top \subseteq r.top PROVE FALSE
          OBVIOUS
        <5> QED BY <1>13, <2>1, <2>2, <3>2, FS_Subset
      <4>2. d(t) <= d(b) /\ d(b) <= d(e)
        BY <1>14, <2>1, <4>1
      <4>3. d(t) \in Nat /\ d(b) \in Nat /\ d(e) \in Nat
        BY <1>1, <1>2, <1>8, <1>12
      <4> QED BY <4>2, <4>3
    <3> QED BY <3>1, <3>2
  <2> QED BY <2>2, <2>3 DEF NoRoomFor, d
<1>16. ASSUME NEW b \in offered \ r.top PROVE NoRoomFor(ix, q, ef, r.top, b)
  <2>1. Cardinality(r.top) = ef
    <3> SUFFICES ASSUME ~ (ef < Cardinality(offered)) PROVE FALSE
      BY <1>12
    <3>1. Cardinality(r.top) = Cardinality(offered)
      BY <1>12
    <3>2. r.top = offered
      <4>1. r.top \in SUBSET offered
        BY <1>12
      <4> HIDE DEF offered
      <4> QED BY <3>1, <4>1, <1>13, FS_Subset
    <3> QED BY <3>2
  <2> QED BY <2>1, <1>14 DEF NoRoomFor, d
<1>17. ASSUME NEW e \in new \ considered PROVE NoRoomFor(ix, q, ef, r.top, e)
  <2>1. Cardinality(s.top) = ef
    BY <1>10, <1>13 DEF BeamInv
  <2>2. \A t \in s.top : d(t) <= d(e)
    BY <1>1, <1>2, <1>5, <1>10
  <2>3. NoRoomFor(ix, q, ef, s.top, e)
    BY <2>1, <2>2 DEF NoRoomFor, d
  <2> QED BY <2>3, <1>5, <1>15
<1>18. r.cand \subseteq r.visited /\ start \in r.visited
  BY <1>1, <1>7, <1>11
<1>19. r.top \subseteq r.visited \ hidden
  BY <1>1, <1>7, <1>11, <1>12
<1>20. Cardinality(r.top) <= ef
  BY <1>12, <1>13
<1>21. ASSUME NEW c \in (r.visited \ hidden) \ r.top PROVE NoRoomFor(ix, q, ef, r.top, c)
  <2>1. CASE c \in offered
    BY <2>1, <1>16
  <2>2. CASE c \in s.visited /\ c \notin offered
    <3>1. c \in W /\ NoRoomFor(ix, q, ef, s.top, c)
      BY <2>2, <1>1 DEF BeamInv
    <3> QED BY <3>1, <1>15
  <2>3. CASE c \in new /\ c \notin offered
    BY <2>3, <1>17
  <2> QED BY <2>1, <2>2, <2>3, <1>7
<1>22. ASSUME NEW e \in s.visited, e \in s.cand \/ ix.links[l][e] \subseteq s.visited
       PROVE  e \in r.cand \/ ix.links[l][e] \subseteq r.visited
  BY <1>7, <1>9, <1>22
<1>23. ASSUME NEW e \in r.top PROVE e \in r.cand \/ ix.links[l][e] \subseteq r.visited
  <2>1. CASE e \in s.top
    BY <2>1, <1>1, <1>22 DEF BeamInv
  <2>2. CASE e \in considered
    BY <2>2, <1>7
  <2> QED BY <2>1, <2>2, <1>12
<1>24. ASSUME NEW e \in r.visited
       PROVE  e \in r.cand \/ ix.links[l][e] \subseteq r.visited \/ NoRoomFor(ix, q, ef, r.top, e)
  <2>1. CASE e \in s.visited
    BY <2>1, <1>1, <1>15, <1>22 DEF BeamInv
  <2>2. CASE e \in new
    BY <2>2, <1>7, <1>17
  <2> QED BY <2>1, <2>2, <1>7
<1>25. r \in [cand : SUBSET W, visited : SUBSET W, top : SUBSET W]
  BY <1>7, <1>8, <1>12
<1>26. BeamInv(ix, q, start, l, ef, hidden, r)
  BY <1>18, <1>19, <1>20, <1>21, <1>23, <1>24, <1>25 DEF BeamInv, W
<1>27. Cardinality(r.visited \ r.cand) >= Cardinality(s.visited \ s.cand) + 1
  <2> DEFINE A == s.visited \ s.cand
             B == r.visited \ r.cand
  <2>1. new \cap s.visited = {}
    BY DEF new
  <2>2. A \cup {n} \in SUBSET B /\ n \notin A /\ A \in SUBSET W /\ B \in SUBSET W
    BY <1>1, <1>4, <1>5, <1>7, <1>11, <2>1
  <2> HIDE DEF A, B
  <2>3. IsFiniteSet(A) /\ IsFiniteSet(B) /\ Cardinality(A) \in Nat /\ Cardinality(B) \in Nat
    BY <1>3, <2>2, FS_CardinalityType
  <2>4. Cardinality(A \cup {n}) = Cardinality(A) + 1 /\ Cardinality(A \cup {n}) <= Cardinality(B)
    BY <2>2, <2>3, FS_AddElement, FS_Subset
  <2>5. Cardinality(B) >= Cardinality(A) + 1
    BY <2>3, <2>4
  <2> QED BY <2>5 DEF A, B
<1> QED BY <1>26, <1>27

\* One turn of the loop, or none when it has been left
BeamTurn(ix, q, l, ef, hidden, early, s) ==
  IF BeamStops(ix, q, ef, early, s) THEN s ELSE BeamExpand(ix, q, l, ef, hidden, s)

\* What a turn makes of a beam that holds BeamInv
LEMMA BeamTurns ==
  ASSUME NEW ix, NEW M, WellFormed(ix, M), NEW q \in Int, NEW l \in 0 .. ix.maxlevel_,
         NEW start \in OnLevel(ix, l), NEW ef \in Nat \ {0}, NEW hidden, NEW early,
         NEW s, BeamInv(ix, q, start, l, ef, hidden, s),
         NEW r, r = BeamTurn(ix, q, l, ef, hidden, early, s)
  PROVE  /\ BeamInv(ix, q, start, l, ef, hidden, r)
         /\ \/ BeamStops(ix, q, ef, early, s)
            \/ Cardinality(r.visited \ r.cand) >= Cardinality(s.visited \ s.cand) + 1
<1>1. CASE BeamStops(ix, q, ef, early, s)
  BY <1>1 DEF BeamTurn
<1>2. CASE ~ BeamStops(ix, q, ef, early, s)
  <2>1. r = BeamExpand(ix, q, l, ef, hidden, s) /\ s.cand # {}
    BY <1>2 DEF BeamTurn, BeamStops
  <2> QED BY <2>1, BeamGoesOn
<1> QED BY <1>1, <1>2

\* f has what the beam holds after every turn.
IsBeam(ix, q, start, l, ef, hidden, early, f) ==
  /\ f[0] = BeamStart(start, hidden)
  /\ \A k \in 1 .. ix.count : f[k] = BeamTurn(ix, q, l, ef, hidden, early, f[k - 1])

\* The equation of BeamAfter has a solution.
LEMMA BeamLoop ==
  ASSUME NEW ix, NEW M, WellFormed(ix, M), NEW q \in Int, NEW l \in 0 .. ix.maxlevel_,
         NEW start \in OnLevel(ix, l), NEW ef \in Nat \ {0}, NEW hidden, NEW early
  PROVE  IsBeam(ix, q, start, l, ef, hidden, early, BeamAfter(ix, q, start, l, ef, hidden, early))
<1> DEFINE W == OnLevel(ix, l)
           All == [cand : SUBSET W, visited : SUBSET W, top : SUBSET W]
           V == {s \in All : BeamInv(ix, q, start, l, ef, hidden, s)}
           turn(s) == BeamTurn(ix, q, l, ef, hidden, early, s)
           F == [p \in (1 .. ix.count) \X V |-> turn(p[2])]
           v == BeamStart(start, hidden)
           eq(f) == f = [k \in 0 .. ix.count |-> IF k = 0 THEN v ELSE turn(f[k - 1])]
<1>1. ix.count \in Nat
  BY DEF WellFormed
<1>2. v \in V
  BY BeamBegins DEF BeamInv
<1>3. ASSUME NEW s \in V PROVE turn(s) \in V
  <2>1. BeamInv(ix, q, start, l, ef, hidden, turn(s))
    BY BeamTurns
  <2> HIDE DEF turn
  <2> QED BY <2>1 DEF BeamInv
<1>4. IsStep(F, ix.count, V)
  <2> HIDE DEF V, turn
  <2> QED BY <1>3 DEF IsStep
<1>5. PICK g : IsMadeBy(g, F, ix.count, V, v)
  <2> HIDE DEF F, V, v
  <2> QED BY <1>1, <1>2, <1>4, PrimitiveRecursion
<1>6. eq(g)
  <2> HIDE DEF V, v, turn
  <2>1. g \in [0 .. ix.count -> V]
    BY <1>5 DEF IsMadeBy
  <2>2. ASSUME NEW k \in 0 .. ix.count PROVE g[k] = IF k = 0 THEN v ELSE turn(g[k - 1])
    <3>1. g[k] = IF k = 0 THEN v ELSE F[<<k, g[k - 1]>>]
      <4> HIDE DEF F
      <4> QED BY <1>5 DEF IsMadeBy
    <3>2. k # 0 => k \in 1 .. ix.count /\ g[k - 1] \in V
      BY <1>1, <2>1
    <3>3. k # 0 => F[<<k, g[k - 1]>>] = turn(g[k - 1])
      BY <3>2
    <3> QED BY <3>1, <3>3
  <2> HIDE DEF F
  <2> QED BY <2>1, <2>2
<1>7. eq(BeamAfter(ix, q, start, l, ef, hidden, early))
  <2>1. \E f : eq(f)
    BY <1>6
  <2> QED BY <2>1, Zenon DEF BeamAfter, BeamTurn
<1> QED
  <2>1. 0 \in 0 .. ix.count /\ \A k \in 1 .. ix.count : k \in 0 .. ix.count /\ k # 0
    BY <1>1
  <2> QED BY <1>7, <2>1 DEF IsBeam

\* The loop of a search (searchBaseLayerST, search2Layer) ends: it has been left
\* after as many turns as the index has elements.
THEOREM BeamEnds ==
  ASSUME NEW ix, NEW M, WellFormed(ix, M), NEW q \in Int, NEW l \in 0 .. ix.maxlevel_,
         NEW start \in OnLevel(ix, l), NEW ef \in Nat \ {0}, NEW hidden, NEW early,
         NEW s, s = BeamAfter(ix, q, start, l, ef, hidden, early)[ix.count]
  PROVE  BeamStops(ix, q, ef, early, s) /\ BeamInv(ix, q, start, l, ef, hidden, s)
<1> DEFINE f == BeamAfter(ix, q, start, l, ef, hidden, early)
           inv(r) == BeamInv(ix, q, start, l, ef, hidden, r)
           stops(r) == BeamStops(ix, q, ef, early, r)
           done(r) == Cardinality(r.visited \ r.cand)
           S == {k \in Nat : k <= ix.count => inv(f[k]) /\ (stops(f[k]) \/ done(f[k]) >= k)}
<1>1. ix.count \in Nat
  BY DEF WellFormed
<1>2. IsBeam(ix, q, start, l, ef, hidden, early, f)
  BY BeamLoop
<1>3. \A C \in SUBSET OnLevel(ix, l) : IsFiniteSet(C)
  BY IndexFacts DEF OnLevel
<1>4. ASSUME NEW r, inv(r) PROVE done(r) \in Nat
  <2>1. r.visited \ r.cand \in SUBSET OnLevel(ix, l)
    BY <1>4 DEF BeamInv
  <2> QED BY <2>1, <1>3, FS_CardinalityType
<1> HIDE DEF f
<1>5. 0 \in S
  <2>1. inv(f[0])
    BY <1>2, BeamBegins DEF IsBeam
  <2>2. done(f[0]) >= 0
    BY <2>1, <1>4
  <2> QED BY <2>1, <2>2
<1>6. ASSUME NEW k \in Nat, k \in S PROVE k + 1 \in S
  <2> SUFFICES ASSUME k + 1 <= ix.count
               PROVE  inv(f[k + 1]) /\ (stops(f[k + 1]) \/ done(f[k + 1]) >= k + 1)
    OBVIOUS
  <2>1. inv(f[k]) /\ (stops(f[k]) \/ done(f[k]) >= k)
    BY <1>1, <1>6
  <2>2. f[k + 1] = BeamTurn(ix, q, l, ef, hidden, early, f[k])
    <3>1. k + 1 \in 1 .. ix.count /\ (k + 1) - 1 = k
      BY <1>1
    <3> QED BY <1>2, <3>1 DEF IsBeam
  <2>3. inv(f[k + 1]) /\ (stops(f[k]) \/ done(f[k + 1]) >= done(f[k]) + 1)
    BY <2>1, <2>2, BeamTurns
  <2>4. done(f[k]) \in Nat /\ done(f[k + 1]) \in Nat
    BY <1>4, <2>1, <2>3
  <2>5. CASE stops(f[k])
    <3>1. f[k + 1] = f[k]
      BY <2>2, <2>5 DEF BeamTurn
    <3> HIDE DEF inv, stops
    <3> QED BY <2>3, <2>5, <3>1
  <2>6. CASE ~ stops(f[k])
    <3>1. done(f[k]) >= k /\ done(f[k + 1]) >= done(f[k]) + 1
      BY <2>1, <2>3, <2>6
    <3>2. done(f[k + 1]) >= k + 1
      <4> HIDE DEF done
      <4> QED BY <2>4, <3>1
    <3> QED BY <2>3, <3>2
  <2> QED BY <2>5, <2>6
<1>7. inv(s) /\ (stops(s) \/ done(s) >= ix.count)
  <2>1. ix.count \in S
    <3> HIDE DEF S
    <3> QED BY <1>1, <1>5, <1>6, SetInduction
  <2>2. f[ix.count] = s
    BY DEF f
  <2> HIDE DEF inv, stops, done
  <2> QED BY <1>1, <2>1, <2>2
<1>8. CASE done(s) >= ix.count
  <2> DEFINE A == s.visited \ s.cand
  <2>1. A \in SUBSET Ids(ix) /\ s.cand \subseteq Ids(ix)
    BY <1>7 DEF BeamInv, OnLevel
  <2>2. IsFiniteSet(Ids(ix)) /\ Cardinality(Ids(ix)) = ix.count
    BY IndexFacts
  <2>3. s.cand \cap A = {}
    OBVIOUS
  <2>4. Cardinality(A) >= ix.count
    BY <1>8
  <2> HIDE DEF A
  <2>5. Cardinality(A) <= Cardinality(Ids(ix)) /\ Cardinality(A) \in Nat
    BY <2>1, <2>2, FS_Subset, FS_CardinalityType
  <2>6. A = Ids(ix)
    BY <2>1, <2>2, <2>4, <2>5, <1>1, FS_Subset
  <2>7. s.cand = {}
    BY <2>1, <2>3, <2>6
  <2> QED BY <2>7, <1>7 DEF BeamStops
<1> QED BY <1>7, <1>8

\* What a search has explored by the time it stops, V, explains what it has
\* found: V has the start and, of every element that is not too far, the whole
\* list; what was explored and is not among the results is hidden or too far.
Explored(ix, q, start, l, ef, hidden, top, V) ==
  /\ start \in V /\ V \subseteq OnLevel(ix, l)
  /\ top \subseteq V \ hidden
  /\ \A c \in (V \ hidden) \ top : NoRoomFor(ix, q, ef, top, c)
  /\ \A e \in top : ix.links[l][e] \subseteq V
  /\ \A e \in V : ix.links[l][e] \subseteq V \/ NoRoomFor(ix, q, ef, top, e)

\* A search on level l (hnswalg.h:403-528, extension.h:73-150) finds at most ef
\* elements of the level, none of them hidden, and misses nothing it could
\* reach: following the lists from the start through elements, hidden or not,
\* that are closer than the farthest result, one comes upon results and
\* elements that are not closer.  The rule of bare_bone_search, which looks at
\* the distance only, makes no difference when nothing is hidden.
THEOREM BeamExplores ==
  ASSUME NEW ix, NEW M, WellFormed(ix, M), NEW q \in Int, NEW l \in 0 .. ix.maxlevel_,
         NEW start \in OnLevel(ix, l), NEW ef \in Nat \ {0}, NEW hidden, NEW early,
         early => hidden = {}
  PROVE  LET top == Beam(ix, q, start, l, ef, hidden, early)
         IN  /\ top \subseteq OnLevel(ix, l) \ hidden
             /\ Cardinality(top) <= ef
             /\ \E V : Explored(ix, q, start, l, ef, hidden, top, V)
<1> DEFINE s == BeamAfter(ix, q, start, l, ef, hidden, early)[ix.count]
           far(e) == NoRoomFor(ix, q, ef, s.top, e)
           n == Nearest(ix.data, q, s.cand)
<1>1. Beam(ix, q, start, l, ef, hidden, early) = s.top
  BY DEF Beam
<1>2. BeamStops(ix, q, ef, early, s) /\ BeamInv(ix, q, start, l, ef, hidden, s)
  BY BeamEnds
<1> HIDE DEF s
<1>3. /\ s.cand \subseteq s.visited /\ s.visited \subseteq OnLevel(ix, l)
      /\ s.top \subseteq s.visited \ hidden /\ start \in s.visited /\ Cardinality(s.top) <= ef
      /\ \A c \in (s.visited \ hidden) \ s.top : far(c)
  BY <1>2 DEF BeamInv
<1>4. \A e \in OnLevel(ix, l) : From(ix, q, e) \in Nat
  BY IndexFacts DEF OnLevel, From
<1>5. ASSUME NEW e \in s.cand PROVE far(e) /\ e \notin s.top
  <2>1. /\ ~ (\E t \in s.top : Dist(q, ix.data[n]) <= Dist(q, ix.data[t]))
        /\ early \/ Cardinality(s.top) = ef
    BY <1>2, <1>5 DEF BeamStops
  <2>2. n \in s.cand /\ \A c \in s.cand : Dist(q, ix.data[n]) <= Dist(q, ix.data[c])
    <3>1. s.cand \in SUBSET Ids(ix)
      BY <1>3 DEF OnLevel
    <3>2. IsFiniteSet(s.cand) /\ Comparable(ix.data, q, s.cand)
      BY <3>1, IndexFacts
    <3> QED BY <3>2, <1>5, NearestFacts
  <2> HIDE DEF n
  <2>3. ASSUME NEW t \in s.top PROVE From(ix, q, t) < From(ix, q, n) /\ From(ix, q, n) <= From(ix, q, e)
    <3>1. t \in OnLevel(ix, l) /\ n \in OnLevel(ix, l)
      BY <1>3, <2>2
    <3>2. ~ (From(ix, q, n) <= From(ix, q, t)) /\ From(ix, q, n) <= From(ix, q, e)
      BY <2>1, <2>2 DEF From
    <3> QED BY <3>1, <3>2, <1>4
  <2>4. \A t \in s.top : From(ix, q, t) \in Nat /\ From(ix, q, e) \in Nat /\ From(ix, q, n) \in Nat
    BY <1>3, <1>4, <2>2
  <2>5. e \notin s.top /\ n \notin s.top
    BY <2>3, <2>4
  <2>6. Cardinality(s.top) = ef
    <3>1. CASE early
      BY <3>1, <1>3, <2>2, <2>5 DEF NoRoomFor
    <3> QED BY <3>1, <2>1
  <2>7. \A t \in s.top : From(ix, q, t) <= From(ix, q, e)
    BY <2>3, <2>4
  <2> QED BY <2>5, <2>6, <2>7 DEF NoRoomFor
<1>6. Explored(ix, q, start, l, ef, hidden, s.top, s.visited)
  <2>1. \A e \in s.top : ix.links[l][e] \subseteq s.visited
    BY <1>2, <1>5 DEF BeamInv
  <2>2. \A e \in s.visited : ix.links[l][e] \subseteq s.visited \/ far(e)
    BY <1>2, <1>5 DEF BeamInv
  <2> QED BY <1>3, <2>1, <2>2 DEF Explored
<1>7. s.top \subseteq OnLevel(ix, l) \ hidden
  BY <1>3
<1> QED BY <1>1, <1>3, <1>6, <1>7

\* Every element of the level is linked to all others.
Complete(ix, l) == \A n \in OnLevel(ix, l) : OnLevel(ix, l) \ {n} \subseteq ix.links[l][n]

\* Where every element of a level is linked to all others, a search finds ef
\* nearest elements of those that are not hidden: all others are not closer.
THEOREM ExactOnCompleteLevel ==
  ASSUME NEW ix, NEW M, WellFormed(ix, M), NEW q \in Int, NEW l \in 0 .. ix.maxlevel_,
         NEW start \in OnLevel(ix, l), NEW ef \in Nat \ {0}, NEW hidden, NEW early,
         early => hidden = {}, Complete(ix, l)
  PROVE  LET top == Beam(ix, q, start, l, ef, hidden, early)
         IN  \A c \in (OnLevel(ix, l) \ hidden) \ top : NoRoomFor(ix, q, ef, top, c)
<1> DEFINE top == Beam(ix, q, start, l, ef, hidden, early)
<1>1. PICK V : Explored(ix, q, start, l, ef, hidden, top, V)
  BY BeamExplores
<1> HIDE DEF top
<1>2. V = OnLevel(ix, l)
  <2>1. \A e \in V : ix.links[l][e] \subseteq V => V = OnLevel(ix, l)
    BY <1>1 DEF Explored, Complete
  <2>2. CASE top = {}
    <3>1. ~ NoRoomFor(ix, q, ef, top, start)
      BY <2>2, FS_EmptySet DEF NoRoomFor
    <3> QED BY <2>1, <3>1, <1>1 DEF Explored
  <2>3. CASE top # {}
    BY <2>1, <2>3, <1>1 DEF Explored
  <2> QED BY <2>2, <2>3
<1> QED BY <1>1, <1>2 DEF Explored, top

(***************************************************************************)
(* The two searches of an index                                            *)
(***************************************************************************)

\* search2Layer (extension.h:39-152) finds at most lambda live elements of the
\* level, and leaves as entry point one of them or the one it was given: what
\* SearchAssumption of MergeLevel asks of a search, for every index, query and
\* level, and every entry point of the level or none.  It finds something where
\* nothing is marked deleted.
THEOREM search2LayerFacts ==
  ASSUME NEW ix, NEW M, WellFormed(ix, M), NEW q \in Int, NEW lo \in 0 .. ix.maxlevel_,
         NEW ep \in {NoEntry} \cup OnLevel(ix, lo), NEW lambda \in Nat \ {0}
  PROVE  LET res == search2Layer(ix, q, ep, IF ep = NoEntry THEN ix.maxlevel_ ELSE lo, lo, lambda)
         IN  /\ res.top \subseteq LayerNodes(ix, lo)
             /\ Cardinality(res.top) <= lambda
             /\ res.ep \in {ep} \cup LayerNodes(ix, lo)
             /\ ix.deleted = {} => res.top # {}
<1> DEFINE hi == IF ep = NoEntry THEN ix.maxlevel_ ELSE lo
           from == IF ep = NoEntry THEN ix.enterpoint_node_ ELSE ep
           start == DescendFrom(ix, q, from, hi, lo)
           top == Beam(ix, q, start, lo, lambda, ix.deleted, FALSE)
           res == search2Layer(ix, q, ep, hi, lo, lambda)
<1>1. ix.maxlevel_ \in Nat /\ lo \in Int
  BY DEF WellFormed
<1>2. hi \in 0 .. ix.maxlevel_ /\ lo \in 0 .. hi
  BY <1>1
<1>3. from \in OnLevel(ix, lo)
  BY <1>1 DEF WellFormed, OnLevel
<1>4. start \in OnLevel(ix, lo)
  <2>1. start \in Ids(ix) /\ (start = from \/ ix.element_levels_[start] >= lo + 1)
    <3>1. from \in Ids(ix)
      BY <1>3 DEF OnLevel
    <3> HIDE DEF from, hi
    <3> QED BY <1>2, <3>1, DescentFacts
  <2>2. ix.element_levels_[start] \in Int
    BY <2>1, IndexFacts
  <2> HIDE DEF start
  <2> QED BY <2>1, <2>2, <1>1, <1>3 DEF OnLevel
<1>5. res = [top |-> top, ep |-> IF top = {} THEN ep ELSE Nearest(ix.data, q, top)]
  BY DEF search2Layer
<1> HIDE DEF start, hi, from
<1>6. top \subseteq OnLevel(ix, lo) \ ix.deleted /\ Cardinality(top) <= lambda
  BY <1>4, BeamExplores
<1>10. \E V : Explored(ix, q, start, lo, lambda, ix.deleted, top, V)
  <2> PICK early : early = FALSE
    OBVIOUS
  <2>1. /\ top = Beam(ix, q, start, lo, lambda, ix.deleted, early)
        /\ lambda \in Nat \ {0} /\ lo \in 0 .. ix.maxlevel_ /\ q \in Int
        /\ early => ix.deleted = {}
    OBVIOUS
  <2> HIDE DEF top
  <2> QED BY <1>4, <2>1, BeamExplores
<1>9. ix.deleted = {} => top # {}
  <2> HIDE DEF top
  <2>1. PICK V : Explored(ix, q, start, lo, lambda, ix.deleted, top, V)
    BY <1>10
  <2>2. ~ NoRoomFor(ix, q, lambda, {}, start)
    BY FS_EmptySet DEF NoRoomFor
  <2> QED BY <2>1, <2>2 DEF Explored
<1> HIDE DEF top
<1>7. top # {} => Nearest(ix.data, q, top) \in top
  <2>1. top \in SUBSET Ids(ix)
    BY <1>6 DEF OnLevel
  <2> QED BY <2>1, IndexFacts, NearestFacts
<1>8. OnLevel(ix, lo) \ ix.deleted \subseteq LayerNodes(ix, lo)
  BY DEF OnLevel, LayerNodes
<1> QED BY <1>5, <1>6, <1>7, <1>8, <1>9 DEF hi

\* What a query may answer with: with num_deleted_ 0 deletion marks are ignored.
Answerable(ix, num_deleted_) == Ids(ix) \ (IF num_deleted_ = 0 THEN {} ELSE ix.deleted)

\* searchKnn (hnswalg.h:1435-1489) answers with at most k elements, none of
\* them marked deleted unless num_deleted_ says that there are no marks, and
\* where every element is linked to all others, with k elements that no other
\* one is closer than, or with all there are.
THEOREM searchKnnFacts ==
  ASSUME NEW ix, NEW M, WellFormed(ix, M), NEW q \in Int, NEW num_deleted_,
         NEW k \in Nat \ {0}, NEW ef \in Nat
  PROVE  LET answer == searchKnn(ix, num_deleted_, q, k, ef)
             rest == Answerable(ix, num_deleted_) \ answer
         IN  /\ answer \subseteq Answerable(ix, num_deleted_)
             /\ Cardinality(answer) <= k
             /\ Complete(ix, 0) =>
                  /\ rest = {} \/ Cardinality(answer) = k
                  /\ \A a \in answer, c \in rest : From(ix, q, a) <= From(ix, q, c)
<1> DEFINE bareBone == num_deleted_ = 0
           hidden == IF bareBone THEN {} ELSE ix.deleted
           start == DescendFrom(ix, q, ix.enterpoint_node_, ix.maxlevel_, 0)
           size == IF ef > k THEN ef ELSE k
           found == Beam(ix, q, start, 0, size, hidden, bareBone)
           answer == Closest(ix.data, q, found, k)
           rest == Answerable(ix, num_deleted_) \ answer
<1>1. searchKnn(ix, num_deleted_, q, k, ef) = answer
  BY DEF searchKnn
<1>2. /\ ix.maxlevel_ \in Nat /\ ix.enterpoint_node_ \in Ids(ix)
      /\ 0 \in 0 .. ix.maxlevel_ /\ ix.maxlevel_ \in 0 .. ix.maxlevel_
  BY DEF WellFormed
<1>3. OnLevel(ix, 0) = Ids(ix)
  BY IndexFacts DEF OnLevel
<1>4. start \in OnLevel(ix, 0)
  BY <1>2, <1>3, DescentFacts
<1>5. size \in Nat \ {0} /\ size >= k /\ (bareBone => hidden = {})
  OBVIOUS
<1>6. Answerable(ix, num_deleted_) = OnLevel(ix, 0) \ hidden
  BY <1>3 DEF Answerable
<1> HIDE DEF start, size, hidden, bareBone
<1>7. found \subseteq OnLevel(ix, 0) \ hidden
  BY <1>2, <1>4, <1>5, BeamExplores
<1>8. Complete(ix, 0) => \A c \in (OnLevel(ix, 0) \ hidden) \ found : NoRoomFor(ix, q, size, found, c)
  BY <1>2, <1>4, <1>5, ExactOnCompleteLevel
<1> HIDE DEF found
<1>9. IsFiniteSet(found) /\ Comparable(ix.data, q, found) /\ Cardinality(found) \in Nat
  <2>1. found \in SUBSET Ids(ix)
    BY <1>3, <1>7
  <2> QED BY <2>1, IndexFacts, FS_CardinalityType
<1>10. /\ answer \subseteq found
       /\ Cardinality(answer) = IF k < Cardinality(found) THEN k ELSE Cardinality(found)
       /\ IsFiniteSet(answer)
       /\ \A a \in answer, b \in found \ answer : Closer(ix.data, q, a, b)
  BY <1>9, ClosestFacts
<1> HIDE DEF answer
<1>11. ASSUME Complete(ix, 0), NEW c \in rest
       PROVE  Cardinality(answer) = k /\ \A a \in answer : From(ix, q, a) <= From(ix, q, c)
  <2>1. CASE c \in found
    <3>1. Cardinality(answer) = k
      <4> SUFFICES ASSUME Cardinality(answer) = Cardinality(found) PROVE FALSE
        BY <1>10
      <4>1. answer = found
        BY <1>9, <1>10, FS_Subset
      <4> QED BY <4>1, <2>1
    <3>2. \A a \in answer : From(ix, q, a) <= From(ix, q, c)
      <4> SUFFICES ASSUME NEW a \in answer PROVE From(ix, q, a) <= From(ix, q, c)
        OBVIOUS
      <4>1. Closer(ix.data, q, a, c) /\ a \in found
        BY <2>1, <1>10
      <4> QED BY <4>1, <2>1, <1>9, CloserIsOrder DEF From
    <3> QED BY <3>1, <3>2
  <2>2. CASE c \notin found
    <3>1. NoRoomFor(ix, q, size, found, c)
      BY <2>2, <1>6, <1>8, <1>11
    <3>2. Cardinality(answer) = k
      BY <3>1, <1>5, <1>10 DEF NoRoomFor
    <3> QED BY <3>1, <3>2, <1>10 DEF NoRoomFor
  <2> QED BY <2>1, <2>2
<1>12. Cardinality(answer) <= k
  BY <1>9, <1>10
<1>13. answer \subseteq Answerable(ix, num_deleted_)
  BY <1>6, <1>7, <1>10
<1> QED BY <1>1, <1>11, <1>12, <1>13

\* From every element of the level all others can be reached: no set of some
\* of them is without an edge that leads out of it.
StronglyConnected(ix, l) ==
  \A S \in SUBSET OnLevel(ix, l) :
    S # {} /\ S # OnLevel(ix, l) => \E a \in S : ~ (ix.links[l][a] \subseteq S)

\* A search for as many elements as there are finds all of a connected level,
\* wherever it starts.
THEOREM WideSearchFindsAll ==
  ASSUME NEW ix, NEW M, WellFormed(ix, M), NEW q \in Int, NEW l \in 0 .. ix.maxlevel_,
         NEW start \in OnLevel(ix, l), NEW ef \in Nat, ef >= ix.count, NEW early, StronglyConnected(ix, l)
  PROVE  Beam(ix, q, start, l, ef, {}, early) = OnLevel(ix, l)
<1> DEFINE top == Beam(ix, q, start, l, ef, {}, early)
           On == OnLevel(ix, l)
<1>1. ef \in Nat \ {0} /\ ix.count \in Nat
  BY DEF WellFormed
<1>2. top \subseteq On /\ \E V : Explored(ix, q, start, l, ef, {}, top, V)
  BY <1>1, BeamExplores
<1>3. PICK V : Explored(ix, q, start, l, ef, {}, top, V)
  BY <1>2
<1> HIDE DEF top
<1>4. IsFiniteSet(On) /\ Cardinality(On) \in Nat /\ Cardinality(On) <= ix.count
  <2>1. IsFiniteSet(Ids(ix)) /\ Cardinality(Ids(ix)) = ix.count /\ On \subseteq Ids(ix)
    BY IndexFacts DEF OnLevel
  <2> QED BY <2>1, FS_Subset, FS_CardinalityType
<1>5. Cardinality(top) = ef => top = On
  BY <1>1, <1>2, <1>4, FS_Subset, FS_CardinalityType
<1> SUFFICES ASSUME Cardinality(top) # ef PROVE top = On
  BY <1>5 DEF top
<1>6. \A e : ~ NoRoomFor(ix, q, ef, top, e)
  BY DEF NoRoomFor
<1>7. V = On
  BY <1>3, <1>6 DEF Explored, StronglyConnected
<1> QED BY <1>3, <1>6, <1>7 DEF Explored

\* A query for the vector of an element finds the element in an index that is
\* connected on level 0, if no other one has the same vector and ef_ is not
\* below the number of elements.
THEOREM QueryFindsElement ==
  ASSUME NEW ix, NEW M, WellFormed(ix, M), StronglyConnected(ix, 0), NEW n \in Ids(ix),
         \A x, y \in Ids(ix) : ix.data[x] = ix.data[y] => x = y
  PROVE  searchKnn(ix, 0, ix.data[n], 1, ix.count) = {n}
<1> DEFINE q == ix.data[n]
           start == DescendFrom(ix, q, ix.enterpoint_node_, ix.maxlevel_, 0)
           size == IF ix.count > 1 THEN ix.count ELSE 1
           found == Beam(ix, q, start, 0, size, {}, TRUE)
<1>1. /\ ix.maxlevel_ \in Nat /\ ix.enterpoint_node_ \in Ids(ix) /\ ix.count \in Nat
      /\ 0 \in 0 .. ix.maxlevel_ /\ ix.maxlevel_ \in 0 .. ix.maxlevel_
      /\ \A x \in Ids(ix) : ix.data[x] \in Int
  BY DEF WellFormed
<1>2. searchKnn(ix, 0, q, 1, ix.count) = Closest(ix.data, q, found, 1)
  BY DEF searchKnn
<1>3. OnLevel(ix, 0) = Ids(ix)
  BY IndexFacts DEF OnLevel
<1>4. q \in Int /\ Comparable(ix.data, q, Ids(ix)) /\ IsFiniteSet(Ids(ix))
  BY <1>1, IndexFacts
<1> HIDE DEF q
<1>5. start \in OnLevel(ix, 0)
  <2>1. start \in Ids(ix)
    BY <1>1, <1>4, DescentFacts
  <2> QED BY <1>3, <2>1
<1>6. size \in Nat /\ size >= ix.count
  BY <1>1
<1> HIDE DEF start, size
<1>7. found = Ids(ix)
  <2> PICK early : early = TRUE
    OBVIOUS
  <2>1. found = Beam(ix, q, start, 0, size, {}, early)
    OBVIOUS
  <2> HIDE DEF found
  <2>2. found = OnLevel(ix, 0)
    <3>1. Beam(ix, q, start, 0, size, {}, early) = OnLevel(ix, 0)
      <4>1. q \in Int /\ 0 \in 0 .. ix.maxlevel_
        BY <1>1, <1>4
      <4> QED BY <1>5, <1>6, <4>1, WideSearchFindsAll, ZenonT(30)
    <3> QED BY <2>1, <3>1
  <2> QED BY <1>3, <2>2
<1> HIDE DEF found
<1>8. ASSUME NEW x \in Ids(ix), x # n
      PROVE  Closer(ix.data, q, n, x) /\ ~ Closer(ix.data, q, x, n)
  <2>1. \A u, v \in Int : Dist(u, u) = 0 /\ (u # v => Dist(u, v) > 0)
    <3>1. \A z \in Int : z # 0 => z * z > 0
      BY SMTT(30)
    <3>2. ASSUME NEW u \in Int, NEW v \in Int, u # v PROVE Dist(u, v) > 0
      <4>1. u - v \in Int /\ u - v # 0
        BY <3>2
      <4> QED BY <3>1, <4>1 DEF Dist
    <3> QED BY <3>2 DEF Dist
  <2>2. ix.data[x] # q /\ ix.data[x] \in Int /\ q = ix.data[n]
    BY <1>1, <1>8 DEF q
  <2>3. Dist(q, ix.data[n]) < Dist(q, ix.data[x])
    BY <1>4, <2>1, <2>2
  <2>4. Closer(ix.data, q, n, x)
    BY <2>3 DEF Closer
  <2> QED BY <1>4, <2>4, CloserIsOrder
<1>9. /\ {d \in Ids(ix) : Closer(ix.data, q, d, n)} = {}
      /\ \A x \in Ids(ix) : x # n => n \in {d \in Ids(ix) : Closer(ix.data, q, d, x)}
  BY <1>4, <1>8, CloserIsOrder
<1>10. ASSUME NEW x \in Ids(ix)
       PROVE  Cardinality({d \in Ids(ix) : Closer(ix.data, q, d, x)}) < 1 <=> x = n
  <2> DEFINE A == {d \in Ids(ix) : Closer(ix.data, q, d, x)}
  <2>1. IsFiniteSet(A)
    BY <1>4, FS_Subset
  <2>2. A = {} <=> x = n
    BY <1>9
  <2> HIDE DEF A
  <2>3. Cardinality(A) \in Nat /\ (Cardinality(A) = 0 <=> A = {})
    BY <2>1, FS_CardinalityType, FS_EmptySet
  <2>4. Cardinality(A) < 1 <=> x = n
    BY <2>2, <2>3
  <2> QED BY <2>4 DEF A
<1>11. Closest(ix.data, q, Ids(ix), 1) = {n}
  BY <1>10 DEF Closest
<1> QED BY <1>2, <1>7, <1>11 DEF q
=============================================================================
