------------------------------ MODULE DiskProofs ------------------------------
(***************************************************************************)
(* What the proofs about both disk merges need (DiskMergeMEProofs,         *)
(* DiskMerge2GProofs): lists and their selection, the merged file, the     *)
(* searches, the merge in memory of the same inputs, and the steps that    *)
(* keep the file the same as what that merge makes.                        *)
(***************************************************************************)
EXTENDS DiskMerge, Recency, HNSWAlgorithmsProofs

-------------------------------------------------------------------------------
(* Lists *)

\* The lists of elements of S, with what stands beside each entry
Lists(S) == UNION {[T -> Int] : T \in SUBSET S}

\* A list of vectors V that holds true distances to q
IsTrue(list, V, q) ==
  /\ list = [c \in DOMAIN list |-> list[c]]
  /\ \A c \in DOMAIN list : c \in Int /\ V[c] \in Int /\ list[c] = Dist(q, V[c])

\* A list is a function on a set of elements.
LEMMA ListFacts ==
  ASSUME NEW S
  PROVE  /\ \A f \in Lists(S) : DOMAIN f \subseteq S /\ f \in [DOMAIN f -> Int]
         /\ \A f, T : T \subseteq S /\ f \in [T -> Int] => f \in Lists(S)
BY DEF Lists

\* Squares are ordered as what is squared.
LEMMA SquaresGrow == \A x, y \in Nat : x < y => x * x < y * y
<1> SUFFICES ASSUME NEW x \in Nat, NEW y \in Nat, x < y PROVE x * x < y * y
  OBVIOUS
<1>1. x * x <= x * y
  BY SMTT(30)
<1>2. x * y < y * y
  BY SMTT(30)
<1>3. x * x \in Nat /\ x * y \in Nat /\ y * y \in Nat
  OBVIOUS
<1> QED BY <1>1, <1>2, <1>3

\* The order of a heap of true distances is the order by distance.
LEMMA KthOfList ==
  ASSUME NEW V, NEW q \in Int, NEW list, IsTrue(list, V, q), IsFiniteSet(DOMAIN list),
         NEW k \in 1 .. Cardinality(DOMAIN list)
  PROVE  Kth(list, k) = KthClosest(V, q, DOMAIN list, k)
<1> DEFINE C == DOMAIN list
<1>1. Comparable(V, q, C)
  BY DEF IsTrue, Comparable
<1>2. \A c \in C : {d \in C : Before(list, d, c)} = Ahead(V, q, C, c)
  BY DEF IsTrue, Before, Ahead, Closer
<1> PICK c : c = KthClosest(V, q, C, k)
  OBVIOUS
<1>3. c \in C /\ Cardinality(Ahead(V, q, C, c)) = k - 1
  BY <1>1, KthFacts
<1>4. \A d \in C : Cardinality(Ahead(V, q, C, d)) = k - 1 => d = c
  BY <1>1, <1>3, AheadFacts
<1>5. \A d \in C : Cardinality({x \in C : Before(list, x, d)}) = k - 1 <=> d = c
  BY <1>2, <1>3, <1>4
<1>6. Kth(list, k) = c
  BY <1>3, <1>5 DEF Kth
<1> QED BY <1>6

\* Selection from a list is selection from its elements; the vectors it reads
\* may be any that are right for them.
LEMMA SelectedFacts ==
  ASSUME NEW V, NEW q \in Int, NEW list, IsTrue(list, V, q), IsFiniteSet(DOMAIN list), NEW m \in Nat,
         NEW W, \A c \in DOMAIN list : W[c] = V[c]
  PROVE  Selected(list, W, m)
           = [c \in getNeighborsByHeuristic2(V, q, DOMAIN list, m, Alpha) |-> list[c]]
<1> DEFINE C == DOMAIN list
           N == Cardinality(C)
           occluded(kept, c) ==
             \E r \in kept : Alpha[1] * Dist(W[r], W[c]) < Alpha[2] * list[c]
           body(g, k) == IF k = 0 THEN {}
                         ELSE IF Cardinality(g[k - 1]) < m /\ ~ occluded(g[k - 1], Kth(list, k))
                              THEN g[k - 1] \cup {Kth(list, k)} ELSE g[k - 1]
           eq(g) == g = [k \in 0 .. N |-> body(g, k)]
           loop(g) == IsLoop(V, q, C, m, Alpha, g)
<1>1. Comparable(V, q, C) /\ N \in Nat
  BY FS_CardinalityType DEF IsTrue, Comparable
<1>2. PICK f : getNeighborsByHeuristic2(V, q, C, m, Alpha) = f[N] /\ loop(f)
  BY <1>1, SelectionLoop
<1>3. ASSUME NEW k \in 1 .. N, NEW S, S \subseteq C
      PROVE  occluded(S, Kth(list, k)) <=>
               ~ \A r \in S : ~ Occludes(V, q, Alpha, r, KthClosest(V, q, C, k))
  <2> PICK c : c = KthClosest(V, q, C, k)
    OBVIOUS
  <2>1. Kth(list, k) = c /\ c \in C
    BY <1>1, KthOfList, KthFacts
  <2>2. c \in DOMAIN list /\ \A d \in DOMAIN list : list[d] = Dist(q, V[d])
    BY <2>1 DEF IsTrue
  <2>3. W[c] = V[c] /\ \A r \in S : W[r] = V[r]
    BY <1>3, <2>1
  <2> QED BY <2>1, <2>2, <2>3 DEF Occludes
<1>4. ASSUME NEW k \in 1 .. N, NEW g, g[k - 1] \subseteq C
      PROVE  body(g, k) = Selecting(V, q, C, m, Alpha, k, g[k - 1]) /\ body(g, k) \subseteq C
  <2>1. Kth(list, k) = KthClosest(V, q, C, k) /\ KthClosest(V, q, C, k) \in C
    BY <1>1, KthOfList, KthFacts
  <2>2. occluded(g[k - 1], Kth(list, k)) <=>
          ~ \A r \in g[k - 1] : ~ Occludes(V, q, Alpha, r, KthClosest(V, q, C, k))
    BY <1>3, <1>4
  <2> HIDE DEF occluded
  <2> QED BY <1>4, <2>1, <2>2 DEF Selecting
<1>5. \A k \in 0 .. N : f[k] \subseteq C
  <2> DEFINE S == {k \in Nat : k <= N => f[k] \subseteq C}
  <2>1. 0 \in S
    BY <1>2 DEF IsLoop
  <2>2. ASSUME NEW k \in Nat, k \in S PROVE k + 1 \in S
    <3>1. SUFFICES ASSUME k + 1 <= N PROVE f[k + 1] \subseteq C
      OBVIOUS
    <3>2. f[k] \subseteq C /\ k + 1 \in 1 .. N /\ (k + 1) - 1 = k
      BY <1>1, <2>2, <3>1
    <3>3. f[k + 1] = Selecting(V, q, C, m, Alpha, k + 1, f[k])
      BY <1>2, <3>2 DEF IsLoop
    <3>4. KthClosest(V, q, C, k + 1) \in C
      BY <1>1, <3>2, KthFacts
    <3> QED BY <3>2, <3>3, <3>4 DEF Selecting
  <2>3. \A k \in Nat : k \in S
    <3> HIDE DEF S
    <3> QED BY <2>1, <2>2, SetInduction
  <2> QED BY <1>1, <2>3
<1> HIDE DEF body
<1>6. PICK h : h = [k \in 0 .. N |-> f[k]]
  OBVIOUS
<1>7. eq(h)
  <2>1. ASSUME NEW k \in 0 .. N PROVE h[k] = body(h, k)
    <3>1. CASE k = 0
      BY <1>1, <1>2, <1>6, <3>1 DEF body, IsLoop
    <3>2. CASE k \in 1 .. N
      <4>1. k - 1 \in 0 .. N /\ h[k] = f[k] /\ h[k - 1] = f[k - 1]
        BY <1>1, <1>6, <3>2
      <4>2. f[k] = Selecting(V, q, C, m, Alpha, k, f[k - 1])
        BY <1>2, <3>2 DEF IsLoop
      <4> QED BY <1>4, <1>5, <3>2, <4>1, <4>2
    <3> QED BY <1>1, <3>1, <3>2
  <2> QED BY <1>6, <2>1
<1>8. PICK g : eq(g) /\ Selected(list, W, m) = [c \in g[N] |-> list[c]]
  <2>1. \E g : eq(g)
    BY <1>7
  <2>2. eq(CHOOSE g : eq(g))
    BY <2>1
  <2>3. Selected(list, W, m) = [c \in (CHOOSE g : eq(g))[N] |-> list[c]]
    BY Zenon DEF Selected, body
  <2> QED BY <2>2, <2>3
<1>9. \A k \in 0 .. N : g[k] = f[k]
  <2> DEFINE S == {k \in Nat : k <= N => g[k] = f[k]}
  <2>1. 0 \in S
    BY <1>1, <1>2, <1>8 DEF IsLoop, body
  <2>2. ASSUME NEW k \in Nat, k \in S PROVE k + 1 \in S
    <3>1. SUFFICES ASSUME k + 1 <= N PROVE g[k + 1] = f[k + 1]
      OBVIOUS
    <3>2. g[k] = f[k] /\ f[k] \subseteq C /\ k + 1 \in 1 .. N /\ (k + 1) - 1 = k
      BY <1>1, <1>5, <2>2, <3>1
    <3>3. f[k + 1] = Selecting(V, q, C, m, Alpha, k + 1, f[k])
      BY <1>2, <3>2 DEF IsLoop
    <3>4. g[k + 1] = body(g, k + 1)
      BY <1>1, <1>8, <3>2
    <3> QED BY <1>4, <3>2, <3>3, <3>4
  <2>3. \A k \in Nat : k \in S
    <3> HIDE DEF S
    <3> QED BY <2>1, <2>2, SetInduction
  <2> QED BY <1>1, <2>3
<1>10. g[N] = f[N]
  BY <1>1, <1>9
<1> QED BY <1>2, <1>8, <1>10

\* The ids of a list, moved by k
LEMMA ShiftFacts ==
  ASSUME NEW S \in SUBSET Int, IsFiniteSet(S), NEW k \in Int
  PROVE  /\ \A x : x \in Shift(S, k) <=> x \in Int /\ x - k \in S
         /\ IsFiniteSet(Shift(S, k)) /\ Cardinality(Shift(S, k)) = Cardinality(S)
         /\ Shift(Shift(S, k), -k) = S
<1>1. \A x : x \in Shift(S, k) <=> x \in Int /\ x - k \in S
  <2>1. ASSUME NEW x, x \in Shift(S, k) PROVE x \in Int /\ x - k \in S
    <3>1. PICK y \in S : x = y + k
      BY <2>1 DEF Shift
    <3>2. y \in Int /\ x - k = y
      BY <3>1
    <3> QED BY <3>1, <3>2
  <2>2. ASSUME NEW x \in Int, x - k \in S PROVE x \in Shift(S, k)
    <3>1. x = (x - k) + k
      OBVIOUS
    <3> QED BY <2>2, <3>1 DEF Shift
  <2> QED BY <2>1, <2>2
<1>2. IsFiniteSet(Shift(S, k)) /\ Cardinality(Shift(S, k)) = Cardinality(S)
  <2> DEFINE f == [x \in S |-> x + k]
  <2>1. f \in Bijection(S, Shift(S, k))
    <3>1. f \in [S -> Shift(S, k)] /\ \A t \in Shift(S, k) : \E x \in S : f[x] = t
      BY DEF Shift
    <3>2. \A x, y \in S : f[x] = f[y] => x = y
      OBVIOUS
    <3> QED BY <3>1, <3>2 DEF Bijection, Injection, IsInjective, Surjection
  <2> HIDE DEF f
  <2>2. ExistsBijection(S, Shift(S, k))
    BY <2>1 DEF ExistsBijection
  <2> QED BY <2>1, <2>2, FS_Bijection
<1>3. Shift(Shift(S, k), -k) = S
  <2>1. \A x \in S : (x + k) + (-k) = x
    OBVIOUS
  <2> QED BY <2>1 DEF Shift
<1> QED BY <1>1, <1>2, <1>3

\* A moved list has the entries it had.
LEMMA MovedFacts ==
  ASSUME NEW list, DOMAIN list \subseteq Int, IsFiniteSet(DOMAIN list), NEW k \in Int
  PROVE  /\ DOMAIN Moved(list, k) = Shift(DOMAIN list, k)
         /\ Moved(list, k) = [c \in DOMAIN Moved(list, k) |-> Moved(list, k)[c]]
         /\ \A c \in DOMAIN Moved(list, k) : c \in Int /\ c - k \in DOMAIN list /\ Moved(list, k)[c] = list[c - k]
BY ShiftFacts DEF Moved

\* list names elements of level l or higher, with true distances, and never
\* its owner n; T has the levels of the elements and V the vectors.
GoodList(V, T, n, l, list) ==
  /\ list \in Lists(DOMAIN V)
  /\ \A c \in DOMAIN list : c # n /\ T[c] >= l /\ list[c] = Dist(V[n], V[c])

\* Two lists of one owner in one
LEMMA JoinedFacts ==
  ASSUME NEW V, NEW T, NEW n, NEW l, NEW A, NEW B, GoodList(V, T, n, l, A), GoodList(V, T, n, l, B)
  PROVE  /\ GoodList(V, T, n, l, Joined(A, B))
         /\ DOMAIN Joined(A, B) = DOMAIN A \cup DOMAIN B
<1>1. /\ DOMAIN A \subseteq DOMAIN V /\ DOMAIN B \subseteq DOMAIN V
      /\ A \in [DOMAIN A -> Int] /\ B \in [DOMAIN B -> Int]
  BY ListFacts DEF GoodList
<1>2. Joined(A, B) \in [DOMAIN A \cup DOMAIN B -> Int]
  BY <1>1 DEF Joined
<1>3. Joined(A, B) \in Lists(DOMAIN V)
  BY <1>1, <1>2, ListFacts
<1> QED BY <1>1, <1>2, <1>3 DEF Joined, GoodList

\* The list an element gets is one of its owner, and fits.
LEMMA ConnectedFacts ==
  ASSUME NEW N \in Nat, NEW V \in [0 .. N - 1 -> Int], NEW T, NEW n \in 0 .. N - 1, NEW l \in Nat,
         NEW A, NEW B, GoodList(V, T, n, l, A), GoodList(V, T, n, l, B)
  PROVE  LET new == Connected(A, B, V, l)
         IN  /\ GoodList(V, T, n, l, new)
             /\ IsFiniteSet(DOMAIN new) /\ Cardinality(DOMAIN new) <= Mcurmax(M, l)
             /\ DOMAIN new =
                  IF Overflows(A, B, l)
                  THEN getNeighborsByHeuristic2(V, V[n], DOMAIN A \cup DOMAIN B, Mcurmax(M, l), Alpha)
                  ELSE DOMAIN A \cup DOMAIN B
<1> DEFINE J == Joined(A, B)
           m == Mcurmax(M, l)
<1>1. m \in Nat
  BY DiskAssumption DEF Mcurmax
<1>2. GoodList(V, T, n, l, J) /\ DOMAIN J = DOMAIN A \cup DOMAIN B
  <2>1. GoodList(V, T, n, l, Joined(A, B))
    BY JoinedFacts
  <2>2. DOMAIN Joined(A, B) = DOMAIN A \cup DOMAIN B
    BY DEF Joined
  <2> QED BY <2>1, <2>2
<1>3. /\ DOMAIN A \subseteq 0 .. N - 1 /\ DOMAIN B \subseteq 0 .. N - 1
      /\ IsFiniteSet(DOMAIN A) /\ IsFiniteSet(DOMAIN B) /\ IsFiniteSet(DOMAIN J)
      /\ Cardinality(DOMAIN A) \in Nat /\ Cardinality(DOMAIN B) \in Nat
  <2>1. DOMAIN A \subseteq 0 .. N - 1 /\ DOMAIN B \subseteq 0 .. N - 1
    BY ListFacts DEF GoodList
  <2>2. IsFiniteSet(0 .. N - 1)
    BY FS_Interval
  <2> QED BY <1>2, <2>1, <2>2, FS_Subset, FS_Union, FS_CardinalityType
<1> HIDE DEF J
<1>4. CASE ~ Overflows(A, B, l)
  <2>1. Connected(A, B, V, l) = J
    BY <1>4 DEF Connected, J
  <2>2. Cardinality(DOMAIN J) <= Cardinality(DOMAIN A) + Cardinality(DOMAIN B)
    <3>1. /\ Cardinality(DOMAIN A \cap DOMAIN B) \in Nat
          /\ Cardinality(DOMAIN J) = Cardinality(DOMAIN A) + Cardinality(DOMAIN B)
               - Cardinality(DOMAIN A \cap DOMAIN B)
      BY <1>2, <1>3, FS_Union, FS_Intersection, FS_CardinalityType
    <3> QED BY <1>3, <3>1
  <2>3. Cardinality(DOMAIN J) <= m
    <3>1. Cardinality(DOMAIN J) \in Nat
      BY <1>3, FS_CardinalityType
    <3> QED BY <1>1, <1>3, <1>4, <2>2, <3>1 DEF Overflows
  <2> QED BY <1>2, <1>3, <1>4, <2>1, <2>3
<1>5. CASE Overflows(A, B, l)
  <2> DEFINE K == getNeighborsByHeuristic2(V, V[n], DOMAIN J, m, Alpha)
  <2>1. V[n] \in Int /\ IsTrue(J, V, V[n]) /\ Comparable(V, V[n], DOMAIN J)
    <3>1. DOMAIN J \subseteq 0 .. N - 1 /\ J \in [DOMAIN J -> Int]
      BY <1>2, ListFacts DEF GoodList
    <3> QED BY <1>2, <3>1 DEF GoodList, IsTrue, Comparable
  <2>2. Connected(A, B, V, l) = [c \in K |-> J[c]]
    <3>1. Connected(A, B, V, l) = Selected(J, V, m)
      BY <1>5 DEF Connected, J
    <3> QED BY <1>1, <1>3, <2>1, <3>1, SelectedFacts
  <2>3. K \subseteq DOMAIN J /\ Cardinality(K) <= m
    BY <1>1, <1>3, <2>1, SelectionIsGreedy DEF IsSelection
  <2> HIDE DEF K
  <2>4. [c \in K |-> J[c]] \in Lists(DOMAIN V)
    <3>1. J \in [DOMAIN J -> Int] /\ DOMAIN J \subseteq DOMAIN V
      BY <1>2, ListFacts DEF GoodList
    <3>2. [c \in K |-> J[c]] \in [K -> Int] /\ K \subseteq DOMAIN V
      BY <2>3, <3>1
    <3> QED BY <3>2, ListFacts
  <2>5. GoodList(V, T, n, l, [c \in K |-> J[c]])
    BY <1>2, <2>3, <2>4 DEF GoodList
  <2>6. IsFiniteSet(K)
    BY <1>3, <2>3, FS_Subset
  <2> QED BY <1>2, <1>5, <2>2, <2>3, <2>5, <2>6 DEF K
<1> QED BY <1>4, <1>5

\* It does not depend on vectors that no entry is compared with.
LEMMA ConnectedAgrees ==
  ASSUME NEW N \in Nat, NEW V \in [0 .. N - 1 -> Int], NEW T, NEW n \in 0 .. N - 1, NEW l \in Nat,
         NEW A, NEW B, GoodList(V, T, n, l, A), GoodList(V, T, n, l, B),
         NEW W, Overflows(A, B, l) => \A c \in DOMAIN A \cup DOMAIN B : W[c] = V[c]
  PROVE  Connected(A, B, W, l) = Connected(A, B, V, l)
<1> PICK J, m : J = Joined(A, B) /\ m = Mcurmax(M, l)
  OBVIOUS
<1>1. m \in Nat
  BY DiskAssumption DEF Mcurmax
<1>2. GoodList(V, T, n, l, J) /\ DOMAIN J = DOMAIN A \cup DOMAIN B
  <2>1. GoodList(V, T, n, l, Joined(A, B))
    BY JoinedFacts
  <2>2. DOMAIN Joined(A, B) = DOMAIN A \cup DOMAIN B
    BY DEF Joined
  <2> QED BY <2>1, <2>2
<1>3. DOMAIN J \subseteq 0 .. N - 1 /\ J \in [DOMAIN J -> Int] /\ IsFiniteSet(DOMAIN J)
  <2>1. DOMAIN J \subseteq 0 .. N - 1 /\ J \in [DOMAIN J -> Int]
    BY <1>2, ListFacts DEF GoodList
  <2>2. IsFiniteSet(0 .. N - 1)
    BY FS_Interval
  <2> QED BY <2>1, <2>2, FS_Subset
<1>4. CASE ~ Overflows(A, B, l)
  BY <1>4 DEF Connected
<1>5. CASE Overflows(A, B, l)
  <2>1. V[n] \in Int /\ IsTrue(J, V, V[n])
    BY <1>2, <1>3 DEF GoodList, IsTrue
  <2>2. \A c \in DOMAIN J : W[c] = V[c] /\ V[c] = V[c]
    BY <1>2, <1>5
  <2> DEFINE K == getNeighborsByHeuristic2(V, V[n], DOMAIN J, m, Alpha)
  <2>3. Selected(J, W, m) = [c \in K |-> J[c]]
    BY <1>1, <1>3, <2>1, <2>2, SelectedFacts
  <2>4. Selected(J, V, m) = [c \in K |-> J[c]]
    BY <1>1, <1>3, <2>1, <2>2, SelectedFacts
  <2> HIDE DEF K
  <2> QED BY <1>5, <2>3, <2>4 DEF Connected
<1> QED BY <1>4, <1>5

\* The order of a heap puts each entry in its place, whatever the distances.
LEMMA KthOfAnyList ==
  ASSUME NEW list, DOMAIN list \subseteq Int, IsFiniteSet(DOMAIN list),
         \A c \in DOMAIN list : list[c] \in Nat, NEW k \in 1 .. Cardinality(DOMAIN list)
  PROVE  Kth(list, k) \in DOMAIN list
<1> DEFINE C == DOMAIN list
<1>1. ASSUME NEW x \in C, NEW y \in C PROVE Before(list, x, y) <=> Closer(list, 0, x, y)
  <2> PICK m, n : m = list[x] /\ n = list[y]
    OBVIOUS
  <2>1. m \in Nat /\ n \in Nat
    OBVIOUS
  <2>2. Dist(0, m) = m * m /\ Dist(0, n) = n * n
    BY <2>1 DEF Dist
  <2>3. m < n => m * m < n * n
    BY <2>1, SquaresGrow
  <2>4. n < m => n * n < m * m
    BY <2>1, SquaresGrow
  <2> PICK s, t : s = m * m /\ t = n * n
    OBVIOUS
  <2>5. s \in Nat /\ t \in Nat /\ (m < n => s < t) /\ (n < m => t < s)
    BY <2>1, <2>3, <2>4
  <2>6. m = n => s = t
    OBVIOUS
  <2>7. (m < n <=> s < t) /\ (m = n <=> s = t)
    BY <2>1, <2>5, <2>6
  <2>8. (m < n <=> Dist(0, m) < Dist(0, n)) /\ (m = n <=> Dist(0, m) = Dist(0, n))
    BY <2>2, <2>7
  <2> QED BY <2>8 DEF Before, Closer
<1>2. Comparable(list, 0, C)
  BY DEF Comparable
<1>3. \A c \in C : {d \in C : Before(list, d, c)} = Ahead(list, 0, C, c)
  BY <1>1 DEF Ahead
<1> PICK c : c = KthClosest(list, 0, C, k)
  OBVIOUS
<1>4. c \in C /\ Cardinality(Ahead(list, 0, C, c)) = k - 1
  BY <1>2, KthFacts
<1>5. Cardinality({d \in C : Before(list, d, c)}) = k - 1
  BY <1>3, <1>4
<1> QED BY <1>4, <1>5 DEF Kth

\* Whatever vectors a selection reads, it keeps some of the entries, at most m.
LEMMA SelectedAny ==
  ASSUME NEW list, DOMAIN list \subseteq Int, IsFiniteSet(DOMAIN list),
         \A c \in DOMAIN list : list[c] \in Nat, NEW W, NEW m \in Nat
  PROVE  \E K \in SUBSET DOMAIN list :
           Cardinality(K) <= m /\ Selected(list, W, m) = [c \in K |-> list[c]]
<1> DEFINE C == DOMAIN list
           N == Cardinality(C)
           occluded(kept, c) ==
             \E r \in kept : Alpha[1] * Dist(W[r], W[c]) < Alpha[2] * list[c]
           next(S, k) == IF Cardinality(S) < m /\ ~ occluded(S, Kth(list, k))
                         THEN S \cup {Kth(list, k)} ELSE S
           F == [p \in (1 .. N) \X SUBSET C |-> next(p[2], p[1])]
           eq(g) == g = [k \in 0 .. N |-> IF k = 0 THEN {} ELSE next(g[k - 1], k)]
<1>1. N \in Nat
  BY FS_CardinalityType
<1> HIDE DEF occluded
<1>2. ASSUME NEW k \in 1 .. N, NEW S \in SUBSET C PROVE next(S, k) \in SUBSET C
  BY KthOfAnyList
<1>3. \E g : eq(g)
  <2>1. IsStep(F, N, SUBSET C) /\ {} \in SUBSET C
    <3> HIDE DEF next, N
    <3> QED BY <1>2 DEF IsStep
  <2>2. PICK g : IsMadeBy(g, F, N, SUBSET C, {})
    <3> HIDE DEF F, N
    <3> QED BY <1>1, <2>1, PrimitiveRecursion
  <2>3. ASSUME NEW k \in 0 .. N PROVE g[k] = IF k = 0 THEN {} ELSE next(g[k - 1], k)
    <3>1. CASE k = 0
      <4> HIDE DEF F, N
      <4> QED BY <2>2, <3>1 DEF IsMadeBy
    <3>2. CASE k # 0
      <4>1. k \in 1 .. N /\ k - 1 \in 0 .. N
        BY <1>1, <3>2
      <4>2. g[k - 1] \in SUBSET C /\ g[k] = F[<<k, g[k - 1]>>]
        <5> HIDE DEF F, N
        <5> QED BY <2>2, <3>2, <4>1 DEF IsMadeBy
      <4>3. F[<<k, g[k - 1]>>] = next(g[k - 1], k)
        <5> HIDE DEF next, N
        <5> QED BY <4>1, <4>2
      <4> HIDE DEF next, F, N
      <4> QED BY <3>2, <4>2, <4>3
    <3> QED BY <3>1, <3>2
  <2>4. g = [k \in 0 .. N |-> g[k]]
    <3> HIDE DEF F, N
    <3> QED BY <2>2 DEF IsMadeBy
  <2> HIDE DEF next, N
  <2> QED BY <2>3, <2>4
<1>4. PICK g : eq(g) /\ Selected(list, W, m) = [c \in g[N] |-> list[c]]
  <2>1. eq(CHOOSE g : eq(g))
    BY <1>3
  <2>2. Selected(list, W, m) = [c \in (CHOOSE g : eq(g))[N] |-> list[c]]
    BY Zenon DEF Selected, next, occluded
  <2> QED BY <2>1, <2>2
<1>5. \A k \in 0 .. N : g[k] \in SUBSET C /\ Cardinality(g[k]) <= m
  <2> DEFINE S == {k \in Nat : k <= N => g[k] \in SUBSET C /\ Cardinality(g[k]) <= m}
  <2>1. 0 \in S
    <3>1. g[0] = {}
      <4>1. 0 \in 0 .. N
        BY <1>1
      <4> HIDE DEF next, N
      <4> QED BY <1>4, <4>1
    <3> QED BY <3>1, FS_EmptySet
  <2>2. ASSUME NEW k \in Nat, k \in S PROVE k + 1 \in S
    <3> SUFFICES ASSUME k + 1 <= N PROVE g[k + 1] \in SUBSET C /\ Cardinality(g[k + 1]) <= m
      OBVIOUS
    <3>1. k + 1 \in 1 .. N /\ k + 1 \in 0 .. N /\ (k + 1) - 1 = k /\ k + 1 # 0 /\ k <= N
      BY <1>1
    <3>2. g[k] \in SUBSET C /\ Cardinality(g[k]) <= m /\ IsFiniteSet(g[k])
      BY <2>2, <3>1, FS_Subset
    <3>3. g[k + 1] = next(g[k], k + 1)
      <4> HIDE DEF next, N
      <4> QED BY <1>4, <3>1
    <3>4. next(g[k], k + 1) \in SUBSET C
      BY <1>2, <3>1, <3>2
    <3>5. Cardinality(next(g[k], k + 1)) <= m
      <4>1. CASE next(g[k], k + 1) = g[k]
        BY <3>2, <4>1
      <4>2. CASE Cardinality(g[k]) < m /\ next(g[k], k + 1) = g[k] \cup {Kth(list, k + 1)}
        <5>1. Cardinality(g[k]) \in Nat
          BY <3>2, FS_CardinalityType
        <5>2. Cardinality(g[k] \cup {Kth(list, k + 1)}) \in {Cardinality(g[k]), Cardinality(g[k]) + 1}
          BY <3>2, FS_AddElement
        <5> HIDE DEF next
        <5> QED BY <4>2, <5>1, <5>2
      <4> QED BY <4>1, <4>2
    <3> QED BY <3>3, <3>4, <3>5
  <2>3. \A k \in Nat : k \in S
    <3> HIDE DEF S
    <3> QED BY <2>1, <2>2, SetInduction
  <2> QED BY <1>1, <2>3
<1>6. g[N] \in SUBSET C /\ Cardinality(g[N]) <= m
  BY <1>1, <1>5
<1> QED BY <1>4, <1>6

\* list names elements of level l or higher, never its owner n, beside some
\* distances; where x holds they are the true ones.
FairList(x, V, T, n, l, list) ==
  /\ list \in Lists(DOMAIN V)
  /\ \A c \in DOMAIN list : c # n /\ T[c] >= l /\ list[c] \in Nat
  /\ x => GoodList(V, T, n, l, list)

\* A good list is fair.
LEMMA GoodIsFair ==
  ASSUME NEW V, DOMAIN V \subseteq Int, \A c \in DOMAIN V : V[c] \in Int, NEW T, NEW n \in DOMAIN V, NEW l,
         NEW list, GoodList(V, T, n, l, list), NEW x
  PROVE  FairList(x, V, T, n, l, list)
<1>1. DOMAIN list \subseteq DOMAIN V
  BY ListFacts DEF GoodList
<1>2. \A c \in DOMAIN list : list[c] = Dist(V[n], V[c]) /\ Dist(V[n], V[c]) \in Nat
  BY <1>1, DistType DEF GoodList
<1> QED BY <1>2 DEF FairList, GoodList

\* The list an element gets is fair and fits, whatever vectors its selection
\* reads.
LEMMA ConnectedFair ==
  ASSUME NEW V, IsFiniteSet(DOMAIN V), DOMAIN V \subseteq Int, NEW T, NEW n, NEW l \in Nat, NEW x,
         NEW A, NEW B, FairList(x, V, T, n, l, A), FairList(x, V, T, n, l, B), NEW W
  PROVE  FairList(x, V, T, n, l, Connected(A, B, W, l))
         /\ Cardinality(DOMAIN Connected(A, B, W, l)) <= Mcurmax(M, l)
<1> PICK J, m : J = Joined(A, B) /\ m = Mcurmax(M, l)
  OBVIOUS
<1>1. m \in Nat
  BY DiskAssumption DEF Mcurmax
<1>2. /\ DOMAIN A \subseteq DOMAIN V /\ DOMAIN B \subseteq DOMAIN V
      /\ A \in [DOMAIN A -> Int] /\ B \in [DOMAIN B -> Int]
      /\ IsFiniteSet(DOMAIN A) /\ IsFiniteSet(DOMAIN B)
  <2>1. /\ DOMAIN A \subseteq DOMAIN V /\ DOMAIN B \subseteq DOMAIN V
        /\ A \in [DOMAIN A -> Int] /\ B \in [DOMAIN B -> Int]
    BY ListFacts DEF FairList
  <2> QED BY <2>1, FS_Subset
<1>3. DOMAIN J = DOMAIN A \cup DOMAIN B /\ J \in [DOMAIN J -> Int]
  BY <1>2 DEF Joined
<1>4. /\ IsFiniteSet(DOMAIN J) /\ DOMAIN J \subseteq DOMAIN V
      /\ \A c \in DOMAIN J : c # n /\ T[c] >= l /\ J[c] \in Nat
  <2>1. IsFiniteSet(DOMAIN A \cup DOMAIN B)
    BY <1>2, FS_Union
  <2>2. IsFiniteSet(DOMAIN J) /\ DOMAIN J \subseteq DOMAIN V
    BY <1>2, <1>3, <2>1
  <2> QED BY <1>2, <2>2 DEF Joined, FairList
<1>5. x => GoodList(V, T, n, l, J)
  BY JoinedFacts DEF FairList
<1>6. ASSUME NEW K \in SUBSET DOMAIN J PROVE FairList(x, V, T, n, l, [c \in K |-> J[c]])
  <2> PICK f : f = [c \in K |-> J[c]]
    OBVIOUS
  <2>1. f \in [K -> Int] /\ K \subseteq DOMAIN V /\ DOMAIN f = K
    BY <1>3, <1>4
  <2>2. f \in Lists(DOMAIN V)
    BY <2>1, ListFacts
  <2>3. \A c \in DOMAIN f : c \in DOMAIN J /\ f[c] = J[c]
    BY <2>1
  <2> QED BY <1>4, <1>5, <2>2, <2>3 DEF FairList, GoodList
<1>7. CASE ~ Overflows(A, B, l)
  <2>1. Connected(A, B, W, l) = J
    BY <1>7 DEF Connected
  <2>2. J = [c \in DOMAIN J |-> J[c]]
    BY <1>3
  <2>3. FairList(x, V, T, n, l, J)
    BY <1>6, <2>2
  <2>4. /\ Cardinality(DOMAIN A \cap DOMAIN B) \in Nat /\ Cardinality(DOMAIN A) \in Nat
        /\ Cardinality(DOMAIN B) \in Nat
        /\ Cardinality(DOMAIN J) = Cardinality(DOMAIN A) + Cardinality(DOMAIN B)
             - Cardinality(DOMAIN A \cap DOMAIN B)
    BY <1>2, <1>3, FS_Union, FS_Intersection, FS_CardinalityType
  <2>5. Cardinality(DOMAIN J) <= m
    BY <1>1, <1>7, <2>4 DEF Overflows
  <2> QED BY <2>1, <2>3, <2>5
<1>8. CASE Overflows(A, B, l)
  <2>1. Connected(A, B, W, l) = Selected(J, W, m)
    BY <1>8 DEF Connected
  <2>2. PICK K \in SUBSET DOMAIN J : Cardinality(K) <= m /\ Selected(J, W, m) = [c \in K |-> J[c]]
    BY <1>1, <1>4, SelectedAny
  <2>3. DOMAIN [c \in K |-> J[c]] = K
    OBVIOUS
  <2> QED BY <1>6, <2>1, <2>2, <2>3
<1> QED BY <1>7, <1>8

-------------------------------------------------------------------------------
(* Indexes and their files *)

\* What WellFormed says of a level and its saved lists
LEMMA LevelFacts ==
  ASSUME NEW ix, WellFormed(ix, M), NEW l \in Levels(ix)
  PROVE  /\ Layer(ix, l) \in SUBSET Ids(ix)
         /\ IsFiniteSet(Ids(ix)) /\ IsFiniteSet(Layer(ix, l)) /\ Cardinality(Layer(ix, l)) \in Nat
         /\ \A n \in Ids(ix) :
              /\ ix.links[l][n] \in SUBSET (Layer(ix, l) \ {n})
              /\ n \notin Layer(ix, l) => ix.links[l][n] = {}
              /\ IsFiniteSet(ix.links[l][n]) /\ Cardinality(ix.links[l][n]) <= Mcurmax(M, l)
<1>1. /\ \A n \in Ids(ix) : ix.element_levels_[n] \in Int /\ ix.links[l][n] \in SUBSET Ids(ix)
      /\ l \in Int /\ ix.count \in Int
  BY DEF WellFormed, Levels
<1>2. IsFiniteSet(Ids(ix))
  BY <1>1, FS_Interval DEF Ids
<1>3. Layer(ix, l) \in SUBSET Ids(ix)
  BY DEF Layer
<1>4. IsFiniteSet(Layer(ix, l)) /\ Cardinality(Layer(ix, l)) \in Nat
  BY <1>2, <1>3, FS_Subset, FS_CardinalityType
<1>5. ASSUME NEW n \in Ids(ix)
      PROVE  /\ ix.links[l][n] \in SUBSET (Layer(ix, l) \ {n})
             /\ n \notin Layer(ix, l) => ix.links[l][n] = {}
             /\ IsFiniteSet(ix.links[l][n]) /\ Cardinality(ix.links[l][n]) <= Mcurmax(M, l)
  <2>1. /\ \A c \in ix.links[l][n] : c # n /\ ix.element_levels_[c] >= l
        /\ ix.element_levels_[n] < l => ix.links[l][n] = {}
        /\ IsFiniteSet(ix.links[l][n]) /\ Cardinality(ix.links[l][n]) <= Mcurmax(M, l)
    BY DEF WellFormed, Levels
  <2> QED BY <1>1, <2>1 DEF Layer
<1> QED BY <1>2, <1>3, <1>4, <1>5

\* A saved list is a true one, and as long as the list.
LEMMA SavedFacts ==
  ASSUME NEW ix, WellFormed(ix, M), NEW l \in Levels(ix), NEW n \in Ids(ix)
  PROVE  /\ DOMAIN SavedList(ix, l, n) = ix.links[l][n]
         /\ SavedList(ix, l, n) \in [ix.links[l][n] -> Int]
         /\ \A c \in ix.links[l][n] : SavedList(ix, l, n)[c] = Dist(ix.data[n], ix.data[c])
<1>1. ix.data \in [Ids(ix) -> Int] /\ ix.links[l][n] \in SUBSET Ids(ix)
  <2>1. ix.links[l][n] \in SUBSET Ids(ix)
    BY LevelFacts
  <2> QED BY <2>1 DEF WellFormed
<1>2. \A c \in Ids(ix) : Dist(ix.data[n], ix.data[c]) \in Int
  BY <1>1, DistType
<1> QED BY <1>1, <1>2 DEF SavedList

\* With all lists of a level in memory a search sees the index, with the
\* vectors it is given.
LEMMA InMemoryIsWhole ==
  ASSUME NEW ix, WellFormed(ix, M), IsRecord(ix), NEW l \in Levels(ix),
         NEW lists, lists = [n \in Layer(ix, l) |-> SavedList(ix, l, n)], NEW vectors
  PROVE  InMemory(ix, l, lists, vectors) = [ix EXCEPT !.data = vectors]
         /\ [ix EXCEPT !.data = ix.data] = ix
<1> DEFINE F == [n \in Ids(ix) |-> IF n \in DOMAIN lists THEN DOMAIN lists[n] ELSE {}]
<1>1. ix.links \in [Levels(ix) -> [Ids(ix) -> SUBSET Ids(ix)]]
  BY DEF WellFormed, Levels
<1>2. ASSUME NEW n \in Ids(ix) PROVE F[n] = ix.links[l][n]
  <2>1. CASE n \in Layer(ix, l)
    <3>1. F[n] = DOMAIN SavedList(ix, l, n)
      BY <2>1
    <3> QED BY <3>1, SavedFacts
  <2>2. CASE n \notin Layer(ix, l)
    <3>1. F[n] = {}
      BY <2>2
    <3> QED BY <2>2, <3>1, LevelFacts
  <2> QED BY <2>1, <2>2
<1>3. F = ix.links[l]
  BY <1>1, <1>2
<1>4. [ix.links EXCEPT ![l] = F] = ix.links
  BY <1>1, <1>3
<1>5. InMemory(ix, l, lists, vectors)
        = [ix EXCEPT !.links = [ix.links EXCEPT ![l] = F], !.data = vectors]
  BY DEF InMemory
<1> HIDE DEF F
<1>6. InMemory(ix, l, lists, vectors) = [ix EXCEPT !.links = ix.links, !.data = vectors]
  BY <1>4, <1>5
<1> PICK r : r = [count |-> ix.count, element_levels_ |-> ix.element_levels_, links |-> ix.links,
                  deleted |-> ix.deleted, data |-> ix.data, maxlevel_ |-> ix.maxlevel_,
                  enterpoint_node_ |-> ix.enterpoint_node_]
  OBVIOUS
<1>7. ix = r
  BY DEF IsRecord
<1>8. [r EXCEPT !.links = r.links, !.data = vectors] = [r EXCEPT !.data = vectors]
      /\ [r EXCEPT !.data = r.data] = r
  OBVIOUS
<1> QED BY <1>6, <1>7, <1>8

\* An index with other vectors is an index.
LEMMA WithVectors ==
  ASSUME NEW ix, WellFormed(ix, M), IsRecord(ix), NEW vectors \in [Ids(ix) -> Int],
         NEW jx, jx = [ix EXCEPT !.data = vectors]
  PROVE  /\ WellFormed(jx, M) /\ jx.data = vectors
         /\ jx.count = ix.count /\ jx.element_levels_ = ix.element_levels_ /\ jx.maxlevel_ = ix.maxlevel_
         /\ Ids(jx) = Ids(ix) /\ Levels(jx) = Levels(ix) /\ \A l : Layer(jx, l) = Layer(ix, l)
<1> PICK r : r = [count |-> ix.count, element_levels_ |-> ix.element_levels_, links |-> ix.links,
                  deleted |-> ix.deleted, data |-> ix.data, maxlevel_ |-> ix.maxlevel_,
                  enterpoint_node_ |-> ix.enterpoint_node_]
  OBVIOUS
<1>1. ix = r
  BY DEF IsRecord
<1>2. /\ jx.data = vectors /\ jx.count = ix.count /\ jx.element_levels_ = ix.element_levels_
      /\ jx.links = ix.links /\ jx.deleted = ix.deleted /\ jx.maxlevel_ = ix.maxlevel_
      /\ jx.enterpoint_node_ = ix.enterpoint_node_
  BY <1>1
<1>3. Ids(jx) = Ids(ix) /\ Levels(jx) = Levels(ix) /\ \A l : Layer(jx, l) = Layer(ix, l)
  BY <1>2 DEF Ids, Levels, Layer
<1>4. WellFormed(jx, M)
  <2>1. /\ jx.count \in Nat \ {0} /\ jx.maxlevel_ \in Nat
        /\ jx.element_levels_ \in [Ids(jx) -> 0 .. jx.maxlevel_]
    BY <1>2, <1>3 DEF WellFormed
  <2>2. jx.data \in [Ids(jx) -> Int]
    BY <1>2, <1>3
  <2>3. /\ jx.deleted \in SUBSET Ids(jx) /\ jx.enterpoint_node_ \in Ids(jx)
        /\ jx.element_levels_[jx.enterpoint_node_] = jx.maxlevel_
    BY <1>2, <1>3 DEF WellFormed
  <2>4. jx.links \in [0 .. jx.maxlevel_ -> [Ids(jx) -> SUBSET Ids(jx)]]
    BY <1>2, <1>3 DEF WellFormed
  <2>5. \A l \in 0 .. jx.maxlevel_, n \in Ids(jx) :
          /\ jx.element_levels_[n] < l => jx.links[l][n] = {}
          /\ \A c \in jx.links[l][n] : c # n /\ jx.element_levels_[c] >= l
          /\ IsFiniteSet(jx.links[l][n])
          /\ Cardinality(jx.links[l][n]) <= Mcurmax(M, l)
    BY <1>2, <1>3 DEF WellFormed
  <2> QED BY <2>1, <2>2, <2>3, <2>4, <2>5 DEF WellFormed
<1> QED BY <1>2, <1>3, <1>4

\* The k-th element of a set of ids, counted from 0
LEMMA RankFacts ==
  ASSUME NEW L, IsFiniteSet(L), L \in SUBSET Nat, NEW k \in 0 .. Cardinality(L) - 1
  PROVE  \E e \in L : /\ Cardinality({m \in L : m < e}) = k
                      /\ \A n \in L : Cardinality({m \in L : m < n}) = k => n = e
<1> DEFINE V == [c \in L |-> -c]
<1>1. ASSUME NEW a \in L, NEW c \in L PROVE Closer(V, 0, a, c) <=> a < c
  <2>1. Dist(0, V[a]) = a * a /\ Dist(0, V[c]) = c * c
    BY DEF Dist
  <2>2. a < c => a * a < c * c
    BY SquaresGrow
  <2>3. c < a => c * c < a * a
    BY SquaresGrow
  <2> QED BY <2>1, <2>2, <2>3 DEF Closer
<1>2. Comparable(V, 0, L) /\ Cardinality(L) \in Nat
  BY FS_CardinalityType DEF Comparable
<1>3. \A n \in L : {m \in L : m < n} = Ahead(V, 0, L, n)
  BY <1>1 DEF Ahead
<1> HIDE DEF V
<1> PICK f : f = KthClosest(V, 0, L, k + 1)
  OBVIOUS
<1>4. f \in L /\ Cardinality(Ahead(V, 0, L, f)) = k
  <2>1. k + 1 \in 1 .. Cardinality(L) /\ (k + 1) - 1 = k
    BY <1>2
  <2> QED BY <1>2, <2>1, KthFacts
<1>5. \A n \in L : Cardinality(Ahead(V, 0, L, n)) = k => n = f
  BY <1>2, <1>4, AheadFacts
<1> QED BY <1>3, <1>4, <1>5

-------------------------------------------------------------------------------
(* Slots and positions *)

\* The top levels of the elements of the merged index
MergedTops(ix1, ix2) ==
  [m \in 0 .. ix1.count + ix2.count - 1 |->
     IF m < ix1.count THEN ix1.element_levels_[m] ELSE ix2.element_levels_[m - ix1.count]]
Tops == MergedTops(index1, index2)

\* A slot that is whole: a list of its owner under its count, within the bound
IsGoodSlot(V, T, l, n, slot) ==
  /\ GoodList(V, T, n, l, slot.list)
  /\ slot.count = Cardinality(DOMAIN slot.list)
  /\ slot.count <= Mcurmax(M, l)

GoodSlot(l, n) == IsGoodSlot(data, Tops, l, n, file[l][n])
AnySlot == [count : Nat, list : Lists(DOMAIN data)]

\* How many elements of the level come before n
Rank(n) == Cardinality({m \in Layer(index2, level) : m < n})
Position2 == IF pc = "backward" THEN i ELSE b

InputsOK == \A ix \in {index1, index2} : WellFormed(ix, M) /\ IsRecord(ix)

-------------------------------------------------------------------------------
(* What the invariant says of the merged index *)

\* The merged data and levels are those of the inputs, one after the other.
LEMMA PairFacts ==
  ASSUME NEW ix1, NEW ix2, WellFormed(ix1, M), WellFormed(ix2, M),
         NEW V, V = MergedData(ix1, ix2), NEW T, T = MergedTops(ix1, ix2), NEW o, o = ix1.count
  PROVE  /\ o \in Nat \ {0} /\ ix2.count \in Nat \ {0}
         /\ DOMAIN V = 0 .. (o + ix2.count) - 1 /\ V \in [DOMAIN V -> Int]
         /\ IsFiniteSet(DOMAIN V)
         /\ \A n \in Ids(ix1) : /\ n \in DOMAIN V /\ n \in Nat /\ n < o
                                /\ V[n] = ix1.data[n] /\ T[n] = ix1.element_levels_[n]
         /\ \A j \in Ids(ix2) : /\ j + o \in DOMAIN V /\ j \in Nat /\ (j + o) - o = j
                                /\ j + o \notin Ids(ix1)
                                /\ V[j + o] = ix2.data[j] /\ T[j + o] = ix2.element_levels_[j]
         /\ \A n \in DOMAIN V : n \in Int /\ (n \in Ids(ix1) \/ n - o \in Ids(ix2))
<1>1. /\ o \in Nat \ {0} /\ ix2.count \in Nat \ {0}
      /\ \A n \in Ids(ix1) : ix1.data[n] \in Int
      /\ \A n \in Ids(ix2) : ix2.data[n] \in Int
  BY DEF WellFormed
<1>2. DOMAIN V = 0 .. (o + ix2.count) - 1
  BY <1>1 DEF MergedData
<1>3. \A n \in DOMAIN V : n \in Int /\ (n \in Ids(ix1) \/ n - o \in Ids(ix2))
  BY <1>1, <1>2 DEF Ids
<1>4. ASSUME NEW n \in Ids(ix1)
      PROVE  /\ n \in DOMAIN V /\ n \in Nat /\ n < o
             /\ V[n] = ix1.data[n] /\ T[n] = ix1.element_levels_[n]
  <2>1. n \in DOMAIN V /\ n \in Nat /\ n < o
    BY <1>1, <1>2 DEF Ids
  <2> QED BY <1>1, <1>2, <2>1 DEF MergedData, MergedTops
<1>5. ASSUME NEW j \in Ids(ix2)
      PROVE  /\ j + o \in DOMAIN V /\ j \in Nat /\ (j + o) - o = j /\ j + o \notin Ids(ix1)
             /\ V[j + o] = ix2.data[j] /\ T[j + o] = ix2.element_levels_[j]
  <2>1. /\ j + o \in DOMAIN V /\ j \in Nat /\ (j + o) - o = j /\ ~ j + o < o
        /\ j + o \notin Ids(ix1)
    BY <1>1, <1>2 DEF Ids
  <2> QED BY <1>1, <1>2, <2>1 DEF MergedData, MergedTops
<1>6. \A n \in DOMAIN V : V[n] \in Int
  BY <1>1, <1>2 DEF MergedData, Ids
<1>7. V \in [DOMAIN V -> Int]
  BY <1>6 DEF MergedData
<1>8. IsFiniteSet(DOMAIN V)
  <2>1. 0 \in Int /\ (o + ix2.count) - 1 \in Int
    BY <1>1
  <2> QED BY <1>2, <2>1, FS_Interval
<1> QED BY <1>1, <1>2, <1>3, <1>4, <1>5, <1>7, <1>8

\* The same of the two inputs
LEMMA MergedFacts ==
  ASSUME InputsOK
  PROVE  /\ off \in Nat \ {0} /\ index2.count \in Nat \ {0}
         /\ DOMAIN data = 0 .. (off + index2.count) - 1 /\ data \in [DOMAIN data -> Int]
         /\ IsFiniteSet(DOMAIN data)
         /\ \A n \in Ids(index1) : /\ n \in DOMAIN data /\ n \in Nat /\ n < off
                                   /\ data[n] = index1.data[n]
                                   /\ Tops[n] = index1.element_levels_[n]
         /\ \A j \in Ids(index2) : /\ j + off \in DOMAIN data /\ j \in Nat /\ (j + off) - off = j
                                   /\ j + off \notin Ids(index1)
                                   /\ data[j + off] = index2.data[j]
                                   /\ Tops[j + off] = index2.element_levels_[j]
         /\ \A n \in DOMAIN data : n \in Int /\ (n \in Ids(index1) \/ n - off \in Ids(index2))
<1>1. WellFormed(index1, M) /\ WellFormed(index2, M)
  BY DEF InputsOK
<1>2. data = MergedData(index1, index2) /\ Tops = MergedTops(index1, index2) /\ off = index1.count
  BY DEF data, Tops, off
<1> HIDE DEF data, Tops, off
<1> QED BY <1>1, <1>2, PairFacts

\* Nothing about the merged index changes while the inputs stay.
LEMMA SameInputs ==
  ASSUME UNCHANGED <<index1, index2>>
  PROVE  off' = off /\ data' = data /\ Tops' = Tops
BY DEF off, data, Tops

\* A saved list of index1 is a good list of its element.
LEMMA SavedList1Good ==
  ASSUME InputsOK, NEW l \in Levels(index1), NEW n \in Ids(index1)
  PROVE  /\ GoodList(data, Tops, n, l, SavedList(index1, l, n))
         /\ DOMAIN SavedList(index1, l, n) \subseteq Ids(index1)
         /\ DOMAIN SavedList(index1, l, n) = index1.links[l][n]
         /\ IsFiniteSet(DOMAIN SavedList(index1, l, n))
         /\ Cardinality(DOMAIN SavedList(index1, l, n)) <= Mcurmax(M, l)
<1> PICK s : s = SavedList(index1, l, n)
  OBVIOUS
<1>1. WellFormed(index1, M)
  BY DEF InputsOK
<1>2. /\ DOMAIN s = index1.links[l][n] /\ s \in [DOMAIN s -> Int]
      /\ \A c \in DOMAIN s : s[c] = Dist(index1.data[n], index1.data[c])
  BY <1>1, SavedFacts
<1>3. /\ DOMAIN s \subseteq Layer(index1, l) \ {n} /\ Layer(index1, l) \subseteq Ids(index1)
      /\ IsFiniteSet(DOMAIN s) /\ Cardinality(DOMAIN s) <= Mcurmax(M, l)
  BY <1>1, <1>2, LevelFacts
<1>4. s \in Lists(DOMAIN data)
  <2>1. DOMAIN s \subseteq DOMAIN data
    BY <1>3, MergedFacts
  <2> QED BY <1>2, <2>1, ListFacts
<1>5. \A c \in DOMAIN s : c # n /\ Tops[c] >= l /\ s[c] = Dist(data[n], data[c])
  BY <1>2, <1>3, MergedFacts DEF Layer
<1> QED BY <1>2, <1>3, <1>4, <1>5 DEF GoodList

\* A saved list of index2, moved, is a good list of its element.
LEMMA SavedList2Good ==
  ASSUME InputsOK, NEW l \in Levels(index2), NEW j \in Ids(index2),
         NEW s, s = Moved(SavedList(index2, l, j), off)
  PROVE  /\ GoodList(data, Tops, j + off, l, s)
         /\ DOMAIN s = Shift(index2.links[l][j], off)
         /\ IsFiniteSet(DOMAIN s) /\ Cardinality(DOMAIN s) <= Mcurmax(M, l)
<1> PICK r : r = SavedList(index2, l, j)
  OBVIOUS
<1>1. WellFormed(index2, M)
  BY DEF InputsOK
<1>2. /\ DOMAIN r = index2.links[l][j] /\ r \in [DOMAIN r -> Int]
      /\ \A c \in DOMAIN r : r[c] = Dist(index2.data[j], index2.data[c])
  BY <1>1, SavedFacts
<1>3. /\ DOMAIN r \subseteq Layer(index2, l) \ {j} /\ Layer(index2, l) \subseteq Ids(index2)
      /\ IsFiniteSet(DOMAIN r) /\ Cardinality(DOMAIN r) <= Mcurmax(M, l)
  BY <1>1, <1>2, LevelFacts
<1>4. off \in Int /\ DOMAIN r \subseteq Int
  BY <1>3, MergedFacts
<1>5. /\ DOMAIN s = Shift(DOMAIN r, off) /\ s = [c \in DOMAIN s |-> s[c]]
      /\ \A c \in DOMAIN s : c \in Int /\ c - off \in DOMAIN r /\ s[c] = r[c - off]
  BY <1>3, <1>4, MovedFacts
<1>6. IsFiniteSet(DOMAIN s) /\ Cardinality(DOMAIN s) = Cardinality(DOMAIN r)
  BY <1>3, <1>4, <1>5, ShiftFacts
<1>7. ASSUME NEW c \in DOMAIN s
      PROVE  c \in DOMAIN data /\ c # j + off /\ Tops[c] >= l /\ s[c] = Dist(data[j + off], data[c])
             /\ s[c] \in Int
  <2>1. c \in Int /\ c - off \in Layer(index2, l) \ {j} /\ (c - off) + off = c
        /\ s[c] = Dist(index2.data[j], index2.data[c - off]) /\ s[c] \in Int
    BY <1>2, <1>3, <1>4, <1>5
  <2> QED BY <1>3, <2>1, MergedFacts DEF Layer
<1>8. s \in Lists(DOMAIN data)
  <2>1. s \in [DOMAIN s -> Int] /\ DOMAIN s \subseteq DOMAIN data
    BY <1>5, <1>7
  <2> QED BY <2>1, ListFacts
<1> QED BY <1>2, <1>3, <1>5, <1>6, <1>7, <1>8 DEF GoodList

\* Where a search of a level begins
LEMMA StartFacts ==
  ASSUME NEW ix, WellFormed(ix, M), NEW l \in Levels(ix), NEW e \in {NoEntry} \cup Layer(ix, l)
  PROVE  Start(ix, e) \in OnLevel(ix, l) /\ Start(ix, e) \in Ids(ix)
<1>1. ix.enterpoint_node_ \in OnLevel(ix, l)
  BY DEF WellFormed, Levels, OnLevel
<1> QED BY <1>1 DEF Start, Layer, OnLevel

\* A search finds elements of the level, and at least one.
LEMMA FoundFacts ==
  ASSUME NEW ix, WellFormed(ix, M), NEW q \in Int, NEW l \in Levels(ix),
         NEW e \in {NoEntry} \cup Layer(ix, l), NEW F, F = Found(ix, q, e, l)
  PROVE  /\ DOMAIN F \in SUBSET Layer(ix, l) /\ IsFiniteSet(DOMAIN F) /\ DOMAIN F # {}
         /\ F \in [DOMAIN F -> Int]
         /\ \A c \in DOMAIN F : F[c] = Dist(q, ix.data[c])
<1> PICK top : top = Beam(ix, q, Start(ix, e), l, Lambda, {}, FALSE)
  OBVIOUS
<1>1. l \in 0 .. ix.maxlevel_ /\ Start(ix, e) \in OnLevel(ix, l) /\ Lambda \in Nat \ {0}
  BY StartFacts, DiskAssumption DEF Levels
<1>2. /\ top \subseteq OnLevel(ix, l) \ {}
      /\ \E W : Explored(ix, q, Start(ix, e), l, Lambda, {}, top, W)
  <2> PICK s, early, hidden : s = Start(ix, e) /\ early = FALSE /\ hidden = {}
    OBVIOUS
  <2>1. top = Beam(ix, q, s, l, Lambda, hidden, early)
    OBVIOUS
  <2>2. s \in OnLevel(ix, l) /\ (early => hidden = {})
    BY <1>1
  <2>3. top \subseteq OnLevel(ix, l) \ hidden
    BY <1>1, <2>1, <2>2, BeamExplores
  <2>4. \E W : Explored(ix, q, s, l, Lambda, hidden, top, W)
    <3>1. \E V : Explored(ix, q, s, l, Lambda, hidden, Beam(ix, q, s, l, Lambda, hidden, early), V)
      BY <1>1, <2>2, BeamExplores
    <3> QED BY <2>1, <3>1
  <2> QED BY <2>3, <2>4
<1>3. top \in SUBSET Layer(ix, l) /\ Layer(ix, l) \in SUBSET Ids(ix) /\ IsFiniteSet(top)
  <2>1. IsFiniteSet(Layer(ix, l)) /\ Layer(ix, l) \in SUBSET Ids(ix)
    BY LevelFacts
  <2> QED BY <1>2, <2>1, FS_Subset DEF OnLevel, Layer
<1>4. top # {}
  <2> SUFFICES ASSUME top = {} PROVE FALSE
    OBVIOUS
  <2>1. NoRoomFor(ix, q, Lambda, top, Start(ix, e))
    BY <1>2 DEF Explored
  <2>2. Cardinality(top) = Lambda
    BY <2>1 DEF NoRoomFor
  <2> QED BY <1>1, <2>2, FS_EmptySet
<1>5. \A c \in top : Dist(q, ix.data[c]) \in Int
  <2>1. \A c \in top : ix.data[c] \in Int
    BY <1>3 DEF WellFormed
  <2>2. \A y \in Int : Dist(q, y) \in Int
    BY DistType
  <2> QED BY <2>1, <2>2
<1>6. F = [c \in top |-> Dist(q, ix.data[c])]
  BY DEF Found
<1> QED BY <1>3, <1>4, <1>5, <1>6

\* Going down a level leads to an element of it.
LEMMA NextEntryFacts ==
  ASSUME NEW ix, WellFormed(ix, M), NEW q \in Int, NEW l \in Levels(ix),
         NEW e \in {NoEntry} \cup Layer(ix, l)
  PROVE  NextEntry(ix, q, e, l) \in Layer(ix, l)
<1>1. l \in 0 .. ix.maxlevel_ /\ Start(ix, e) \in OnLevel(ix, l) /\ Start(ix, e) \in Ids(ix)
  BY StartFacts DEF Levels
<1> PICK d : d = Descend(ix, q, Start(ix, e), l)
  OBVIOUS
<1>2. d \in Ids(ix) /\ (d = Start(ix, e) \/ ix.element_levels_[d] >= l)
  BY <1>1, DescentEndsLocally
<1> QED BY <1>1, <1>2 DEF NextEntry, Layer, OnLevel

\* On level 0 the level has all elements.
LEMMA Level0Facts ==
  ASSUME InputsOK, level = 0
  PROVE  Size2 = index2.count /\ Layer(index2, level) = Ids(index2)
<1>1. Layer(index2, 0) = 0 .. index2.count - 1 /\ index2.count \in Nat
  <2>1. index2.element_levels_ \in [Ids(index2) -> 0 .. index2.maxlevel_] /\ index2.count \in Nat
    BY DEF InputsOK, WellFormed
  <2>2. \A n \in Ids(index2) : index2.element_levels_[n] >= 0
    BY <2>1
  <2> QED BY <2>1, <2>2 DEF Layer, Ids
<1>2. 0 \in Int /\ index2.count - 1 \in Int /\ ~ (0 > index2.count - 1)
  BY DEF InputsOK, WellFormed
<1>3. Cardinality(0 .. index2.count - 1) = (index2.count - 1) - 0 + 1
  BY <1>2, FS_Interval
<1> QED BY <1>1, <1>3 DEF Size2, Ids

\* The elements of index2 on the level, in the order of the loop; on level 0
\* they are all there are.
LEMMA Element2Facts ==
  ASSUME InputsOK, level \in Levels(index2), NEW k \in 0 .. Size2 - 1
  PROVE  /\ Size2 \in Nat
         /\ Element2(k) \in Layer(index2, level) /\ Rank(Element2(k)) = k
         /\ \A j \in Layer(index2, level) : Rank(j) = k => j = Element2(k)
         /\ level = 0 => Size2 = index2.count /\ Element2(k) = k
<1>1. /\ IsFiniteSet(Layer(index2, level)) /\ Layer(index2, level) \in SUBSET Ids(index2)
      /\ Size2 \in Nat
  BY LevelFacts DEF InputsOK, Size2
<1>2. Layer(index2, level) \in SUBSET Nat
  BY <1>1 DEF InputsOK, WellFormed, Ids
<1>3. /\ Element2(k) \in Layer(index2, level) /\ Rank(Element2(k)) = k
      /\ \A j \in Layer(index2, level) : Rank(j) = k => j = Element2(k)
  <2> PICK L : L = Layer(index2, level)
    OBVIOUS
  <2>1. IsFiniteSet(L) /\ L \in SUBSET Nat /\ k \in 0 .. Cardinality(L) - 1
    BY <1>1, <1>2 DEF Size2
  <2>2. PICK e \in L : /\ Cardinality({m \in L : m < e}) = k
                       /\ \A n \in L : Cardinality({m \in L : m < n}) = k => n = e
    BY <2>1, RankFacts
  <2>3. e = Element2(k)
    BY <2>2 DEF Element2
  <2> QED BY <2>2, <2>3 DEF Rank
<1>4. ASSUME level = 0 PROVE Size2 = index2.count /\ Element2(k) = k
  <2>1. Size2 = index2.count /\ Layer(index2, level) = 0 .. index2.count - 1
    BY <1>4, Level0Facts DEF Ids
  <2>2. index2.count \in Nat
    BY DEF InputsOK, WellFormed
  <2>3. k \in Layer(index2, level)
    BY <1>4, <2>1, <2>2
  <2>4. Rank(k) = k
    <3>1. {m \in Layer(index2, level) : m < k} = 0 .. k - 1
      BY <1>4, <2>1, <2>2
    <3>2. Cardinality(0 .. k - 1) = k
      <4>1. k \in Nat /\ 0 \in Int /\ k - 1 \in Int
        BY <1>1
      <4> QED BY <4>1, FS_Interval
    <3> QED BY <3>1, <3>2 DEF Rank
  <2> QED BY <1>3, <2>1, <2>3, <2>4
<1> QED BY <1>1, <1>3, <1>4

-------------------------------------------------------------------------------
(* The merged file *)

\* A list as long as its count
LEMMA SlotFacts ==
  ASSUME InputsOK, NEW l \in Nat, NEW n, NEW list, GoodList(data, Tops, n, l, list),
         Cardinality(DOMAIN list) <= Mcurmax(M, l)
  PROVE  Slot(list) \in AnySlot /\ IsGoodSlot(data, Tops, l, n, Slot(list))
<1>1. IsFiniteSet(DOMAIN list) /\ list \in Lists(DOMAIN data)
  BY MergedFacts, ListFacts, FS_Subset DEF GoodList
<1>2. Cardinality(DOMAIN list) \in Nat
  BY <1>1, FS_CardinalityType
<1> QED BY <1>1, <1>2 DEF Slot, AnySlot, IsGoodSlot

\* A slot is as whole as it was when it is not written.
LEMMA SameSlot ==
  ASSUME UNCHANGED <<index1, index2>>, NEW l, NEW n, file'[l][n] = file[l][n], GoodSlot(l, n)
  PROVE  GoodSlot(l, n)'
BY SameInputs DEF GoodSlot

\* The same of a slot of index2
LEMMA SameSlot2 ==
  ASSUME UNCHANGED <<index1, index2>>, NEW l, NEW j, file'[l][j + off] = file[l][j + off],
         GoodSlot(l, j + off)
  PROVE  GoodSlot(l, j + off)'
BY SameInputs DEF GoodSlot

\* A write changes one slot.
LEMMA WriteFacts ==
  ASSUME level \in Levels(index2), file \in [Levels(index2) -> [DOMAIN data -> AnySlot]],
         NEW n \in DOMAIN data, NEW slot \in AnySlot, file' = [file EXCEPT ![level][n] = slot]
  PROVE  /\ file' \in [Levels(index2) -> [DOMAIN data -> AnySlot]]
         /\ file'[level][n] = slot
         /\ \A l \in Levels(index2), m \in DOMAIN data :
              l # level \/ m # n => file'[l][m] = file[l][m]
<1> HIDE DEF AnySlot, data
<1> QED OBVIOUS

\* One level down, an entry point is still on the level.
LEMMA LevelDown ==
  ASSUME InputsOK, level \in Levels(index2), level' = level - 1,
         pc' = IF level = 0 THEN "done" ELSE "level", UNCHANGED <<index1, index2, ep>>,
         ep \in [Ids(index1) -> {NoEntry} \cup Layer(index2, level)]
  PROVE  /\ level' \in IF pc' = "done" THEN {-1} ELSE Levels(index2)
         /\ ep' \in [Ids(index1) -> {NoEntry} \cup Layer(index2, level')]
<1>1. level \in Nat /\ level' \in Int /\ index2.maxlevel_ \in Nat
  BY DEF Levels, InputsOK, WellFormed
<1>2. Layer(index2, level) \subseteq Layer(index2, level')
  <2>1. \A n \in Ids(index2) : index2.element_levels_[n] \in Nat
    BY DEF InputsOK, WellFormed
  <2> QED BY <1>1, <2>1 DEF Layer
<1>3. level' \in IF pc' = "done" THEN {-1} ELSE Levels(index2)
  BY <1>1 DEF Levels
<1> QED BY <1>2, <1>3

\* The copied file: slots of index1, and of elements that are not on a level,
\* are whole.
LEMMA CopiedFacts ==
  ASSUME InputsOK, index1.maxlevel_ <= index2.maxlevel_,
         NEW F, F = CopiedFile(index1, index2)
  PROVE  /\ F \in [Levels(index2) -> [DOMAIN data -> AnySlot]]
         /\ \A l \in Levels(index2) :
              /\ \A n \in Ids(index1) : IsGoodSlot(data, Tops, l, n, F[l][n])
              /\ \A j \in Ids(index2) \ Layer(index2, l) :
                   IsGoodSlot(data, Tops, l, j + off, F[l][j + off])
<1>1. WellFormed(index1, M) /\ WellFormed(index2, M) /\ Levels(index1) \subseteq Levels(index2)
      /\ \A l \in Levels(index2) : l \in Nat /\ Mcurmax(M, l) \in Nat
  BY DiskAssumption, SMTT(30) DEF InputsOK, WellFormed, Levels, Mcurmax
<1>2. /\ F = [l \in Levels(index2) |-> F[l]]
      /\ \A l \in Levels(index2) :
           /\ F[l] = [n \in DOMAIN data |-> F[l][n]]
           /\ \A n \in Ids(index1) :
                F[l][n] = IF l \in Levels(index1) THEN Slot(SavedList(index1, l, n)) ELSE Slot(<<>>)
           /\ \A j \in Ids(index2) : F[l][j + off] = Slot(SavedList(index2, l, j))
  <2>1. off = index1.count /\ DOMAIN data = 0 .. index1.count + index2.count - 1
    BY MergedFacts DEF off
  <2>2. \A n \in Ids(index1) : n \in DOMAIN data /\ ~ n >= index1.count
    BY <2>1, MergedFacts
  <2>3. \A j \in Ids(index2) : /\ j + off \in DOMAIN data /\ j + off >= index1.count
                               /\ (j + off) - index1.count = j
    BY <2>1, MergedFacts
  <2> HIDE DEF off, data
  <2> QED BY <2>1, <2>2, <2>3 DEF CopiedFile
<1>3. ASSUME NEW l \in Levels(index2), NEW n
      PROVE  Slot(<<>>) \in AnySlot /\ IsGoodSlot(data, Tops, l, n, Slot(<<>>))
  <2>1. DOMAIN <<>> = {} /\ <<>> \in [{} -> Int]
    OBVIOUS
  <2>2. GoodList(data, Tops, n, l, <<>>)
    BY <2>1, ListFacts DEF GoodList
  <2>3. Cardinality(DOMAIN <<>>) <= Mcurmax(M, l)
    BY <1>1, <2>1, FS_EmptySet
  <2> QED BY <1>1, <2>2, <2>3, SlotFacts
<1>4. ASSUME NEW l \in Levels(index2), NEW n \in Ids(index1)
      PROVE  F[l][n] \in AnySlot /\ IsGoodSlot(data, Tops, l, n, F[l][n])
  <2>1. CASE l \in Levels(index1)
    <3> PICK s : s = SavedList(index1, l, n)
      OBVIOUS
    <3>1. GoodList(data, Tops, n, l, s) /\ Cardinality(DOMAIN s) <= Mcurmax(M, l)
      BY <2>1, SavedList1Good
    <3>2. Slot(s) \in AnySlot /\ IsGoodSlot(data, Tops, l, n, Slot(s))
      BY <1>1, <3>1, SlotFacts
    <3>3. F[l][n] = Slot(s)
      BY <1>2, <2>1
    <3> QED BY <3>2, <3>3
  <2>2. CASE l \notin Levels(index1)
    BY <1>2, <1>3, <2>2
  <2> QED BY <2>1, <2>2
<1>5. ASSUME NEW l \in Levels(index2), NEW j \in Ids(index2)
      PROVE  F[l][j + off] \in AnySlot
  <2> PICK s : s = SavedList(index2, l, j)
    OBVIOUS
  <2>1. DOMAIN s = index2.links[l][j] /\ s \in [DOMAIN s -> Int] /\ DOMAIN s \subseteq Ids(index2)
        /\ IsFiniteSet(DOMAIN s)
    <3>1. DOMAIN s = index2.links[l][j] /\ s \in [index2.links[l][j] -> Int]
      BY <1>1, SavedFacts
    <3>2. index2.links[l][j] \subseteq Ids(index2) /\ IsFiniteSet(index2.links[l][j])
      BY <1>1, LevelFacts
    <3> QED BY <3>1, <3>2
  <2>2. Ids(index2) \subseteq DOMAIN data
    BY MergedFacts, SMTT(30) DEF Ids
  <2>3. s \in Lists(DOMAIN data) /\ Cardinality(DOMAIN s) \in Nat
    BY <2>1, <2>2, ListFacts, FS_CardinalityType
  <2>4. Slot(s) \in AnySlot
    BY <2>3 DEF Slot, AnySlot
  <2> QED BY <1>2, <2>4
<1>6. ASSUME NEW l \in Levels(index2), NEW j \in Ids(index2) \ Layer(index2, l)
      PROVE  IsGoodSlot(data, Tops, l, j + off, F[l][j + off])
  <2>1. SavedList(index2, l, j) = <<>>
    <3>1. index2.links[l][j] = {}
      BY <1>1, LevelFacts
    <3> QED BY <3>1 DEF SavedList
  <2> QED BY <1>2, <1>3, <2>1
<1>7. \A l \in Levels(index2), n \in DOMAIN data : F[l][n] \in AnySlot
  <2> SUFFICES ASSUME NEW l \in Levels(index2), NEW n \in DOMAIN data PROVE F[l][n] \in AnySlot
    OBVIOUS
  <2>1. CASE n \in Ids(index1)
    BY <1>4, <2>1
  <2>2. CASE n - off \in Ids(index2)
    <3>1. (n - off) + off = n
      BY MergedFacts
    <3> QED BY <1>5, <2>2, <3>1
  <2> QED BY <2>1, <2>2, MergedFacts
<1>8. F \in [Levels(index2) -> [DOMAIN data -> AnySlot]]
  <2> HIDE DEF AnySlot, data
  <2>1. \A l \in Levels(index2) : F[l] \in [DOMAIN data -> AnySlot]
    BY <1>2, <1>7
  <2> QED BY <1>2, <2>1
<1> QED BY <1>4, <1>6, <1>8

-------------------------------------------------------------------------------
(* Batches and searches *)

\* No entry is a good list.
LEMMA EmptyListGood == \A V, T, n, l : GoodList(V, T, n, l, <<>>)
<1>1. DOMAIN <<>> = {} /\ <<>> \in [{} -> Int]
  OBVIOUS
<1> QED BY <1>1, ListFacts DEF GoodList

\* The range of a batch
LEMMA WindowFacts ==
  ASSUME b \in Nat, NEW size \in Nat \ {0}, NEW n \in Nat
  PROVE  /\ Lower(b + size, n) \in Nat /\ Lower(b + size, n) <= n
         /\ b < n => b \in b .. Lower(b + size, n)
         /\ \A k \in Window(size, n) : /\ k \in Nat /\ b <= k /\ k < n
                                       /\ k + 1 \in b .. Lower(b + size, n)
         /\ \A k \in b .. Lower(b + size, n) :
              /\ k \notin Window(size, n) => k = Lower(b + size, n)
              /\ k \in Nat
BY DEF Lower, Window

\* How many elements come before one of the level
LEMMA RankType ==
  ASSUME InputsOK, level \in Levels(index2), NEW j \in Layer(index2, level)
  PROVE  Rank(j) \in Nat /\ Rank(j) < Size2 /\ Size2 \in Nat
<1> PICK L, B : L = Layer(index2, level) /\ B = {m \in L : m < j}
  OBVIOUS
<1>1. IsFiniteSet(L) /\ L \in SUBSET Ids(index2) /\ Cardinality(L) \in Nat
  BY LevelFacts DEF InputsOK
<1>2. j \in L /\ B \subseteq L /\ ~ j \in B
  BY <1>1 DEF Ids
<1>3. IsFiniteSet(B) /\ Cardinality(B) \in Nat /\ Cardinality(B) < Cardinality(L)
  BY <1>1, <1>2, FS_Subset, FS_CardinalityType
<1> QED BY <1>1, <1>3 DEF Rank, Size2

\* Slots before the position stay whole while nothing is written.
LEMMA SameRanks ==
  ASSUME UNCHANGED <<index1, index2, file, level>>,
         \A j \in Layer(index2, level) : Rank(j) < Position2' => GoodSlot(level, j + off)
  PROVE  \A j \in Layer(index2, level)' : Rank(j)' < Position2' => GoodSlot(level, j + off)'
<1> SUFFICES ASSUME NEW j \in Layer(index2, level), Rank(j) < Position2'
             PROVE  GoodSlot(level, j + off)'
  BY DEF Rank
<1>1. GoodSlot(level, j + off)
  OBVIOUS
<1> QED BY <1>1, SameInputs DEF GoodSlot

\* Distances are the same both ways.
LEMMA DistSymmetric == \A x, y \in Int : Dist(x, y) = Dist(y, x)
<1> SUFFICES ASSUME NEW x \in Int, NEW y \in Int PROVE Dist(x, y) = Dist(y, x)
  OBVIOUS
<1>1. PICK d \in Int : d = x - y
  OBVIOUS
<1>2. y - x = -d /\ (-d) * (-d) = d * d
  BY <1>1, SMTT(30)
<1> QED BY <1>1, <1>2 DEF Dist

\* F is what a search for element n of ix1 finds on level l of ix2.
Searched(ix1, ix2, n, l, F) ==
  /\ l \in Levels(ix2) /\ n \in Layer(ix1, l)
  /\ \E e \in {NoEntry} \cup Layer(ix2, l) : F = Found(ix2, ix1.data[n], e, l)

IsSearch(n, l, F) ==
  /\ l \in Levels(index2) /\ n \in Layer(index1, l)
  /\ \E e \in {NoEntry} \cup Layer(index2, l) : F = Found(index2, index1.data[n], e, l)

\* One more candidate, with its distance
Candidate(n, d) == [k \in {n} |-> d]

\* The elements a forward search finds, as they stand on the list of element
\* n of ix1 and among the candidates of the elements found
LEMMA PairSearchFacts ==
  ASSUME NEW ix1, NEW ix2, WellFormed(ix1, M), WellFormed(ix2, M),
         NEW V, V = MergedData(ix1, ix2), NEW T, T = MergedTops(ix1, ix2), NEW o, o = ix1.count,
         NEW n, NEW l, NEW F, Searched(ix1, ix2, n, l, F), NEW found, found = Moved(F, o)
  PROVE  /\ GoodList(V, T, n, l, found) /\ DOMAIN found # {}
         /\ Nearest(V, ix1.data[n], DOMAIN found) - o \in Layer(ix2, l)
         /\ DOMAIN found = Shift(DOMAIN F, o) /\ DOMAIN F \subseteq Layer(ix2, l)
         /\ Moved(found, -o) = F
         /\ \A j \in DOMAIN F :
              /\ GoodList(V, T, j + o, l, Candidate(n, F[j]))
              /\ Candidate(n, F[j]) \in Lists(Ids(ix1))
<1> PICK q : q = ix1.data[n]
  OBVIOUS
<1> l \in Levels(ix2) /\ n \in Layer(ix1, l)
  BY DEF Searched
<1> PICK e \in {NoEntry} \cup Layer(ix2, l) : F = Found(ix2, q, e, l)
  BY DEF Searched
<1>1. /\ q \in Int /\ n \in Ids(ix1) /\ ix1.element_levels_[n] >= l /\ WellFormed(ix2, M)
      /\ o \in Int
  <2>1. n \in Ids(ix1) /\ ix1.element_levels_[n] >= l
    BY DEF Layer
  <2>2. WellFormed(ix2, M) /\ ix1.data \in [Ids(ix1) -> Int]
    BY DEF WellFormed
  <2>3. o \in Int
    BY PairFacts
  <2> QED BY <2>1, <2>2, <2>3
<1>2. /\ DOMAIN F \in SUBSET Layer(ix2, l) /\ IsFiniteSet(DOMAIN F) /\ DOMAIN F # {}
      /\ F \in [DOMAIN F -> Int]
      /\ \A c \in DOMAIN F : F[c] = Dist(q, ix2.data[c])
  <2>1. F = Found(ix2, q, e, l)
    OBVIOUS
  <2> QED BY <1>1, <2>1, FoundFacts
<1>3. DOMAIN F \subseteq Int /\ Layer(ix2, l) \subseteq Ids(ix2)
  BY <1>2, PairFacts DEF Layer
<1>4. /\ DOMAIN found = Shift(DOMAIN F, o) /\ found = [c \in DOMAIN found |-> found[c]]
      /\ \A c \in DOMAIN found : c \in Int /\ c - o \in DOMAIN F /\ found[c] = F[c - o]
  BY <1>1, <1>2, <1>3, MovedFacts
<1>5. ASSUME NEW c \in DOMAIN found
      PROVE  /\ c \in DOMAIN V /\ c # n /\ T[c] >= l /\ found[c] \in Int
             /\ found[c] = Dist(V[n], V[c]) /\ V[c] \in Int
  <2>1. PICK j \in DOMAIN F : j = c - o /\ c = j + o /\ found[c] = F[j]
    BY <1>1, <1>4
  <2>2. j \in Ids(ix2) /\ ix2.element_levels_[j] >= l
    BY <1>2 DEF Layer
  <2>3. /\ c \in DOMAIN V /\ V[c] = ix2.data[j] /\ T[c] = ix2.element_levels_[j]
        /\ c \notin Ids(ix1) /\ V[n] = q /\ V[c] \in Int
    BY <1>1, <2>1, <2>2, PairFacts
  <2> QED BY <1>1, <1>2, <2>1, <2>2, <2>3
<1>6. GoodList(V, T, n, l, found)
  <2>1. found \in [DOMAIN found -> Int] /\ DOMAIN found \subseteq DOMAIN V
    BY <1>4, <1>5
  <2> QED BY <1>5, <2>1, ListFacts DEF GoodList
<1>7. IsFiniteSet(DOMAIN found) /\ DOMAIN found # {}
  <2>1. IsFiniteSet(DOMAIN found)
    BY <1>1, <1>2, <1>3, <1>4, ShiftFacts
  <2> PICK c \in DOMAIN F : TRUE
    BY <1>2
  <2>2. c + o \in Shift(DOMAIN F, o)
    BY DEF Shift
  <2> QED BY <1>4, <2>1, <2>2
<1>8. Nearest(V, q, DOMAIN found) - o \in Layer(ix2, l)
  <2>1. Comparable(V, q, DOMAIN found)
    BY <1>1, <1>4, <1>5 DEF Comparable
  <2>2. Nearest(V, q, DOMAIN found) \in DOMAIN found
    BY <1>7, <2>1, NearestFacts
  <2> QED BY <1>2, <1>4, <2>2
<1>9. Moved(found, -o) = F
  <2>1. Shift(DOMAIN found, -o) = DOMAIN F
    BY <1>1, <1>2, <1>3, <1>4, ShiftFacts
  <2>2. ASSUME NEW c \in DOMAIN F PROVE found[c - (-o)] = F[c]
    <3>1. c \in Int /\ c - (-o) = c + o /\ (c + o) - o = c
      BY <1>1, <1>3
    <3>2. c + o \in DOMAIN found
      BY <1>4 DEF Shift
    <3> QED BY <1>4, <3>1, <3>2
  <2>3. F = [c \in DOMAIN F |-> F[c]]
    BY <1>2
  <2> QED BY <2>1, <2>2, <2>3 DEF Moved
<1>10. ASSUME NEW j \in DOMAIN F
       PROVE  /\ GoodList(V, T, j + o, l, Candidate(n, F[j]))
              /\ Candidate(n, F[j]) \in Lists(Ids(ix1))
  <2>1. /\ j + o \in DOMAIN V /\ V[j + o] = ix2.data[j] /\ j + o # n
        /\ n \in DOMAIN V /\ V[n] = q /\ T[n] = ix1.element_levels_[n]
        /\ ix2.data[j] \in Int
    <3>1. j \in Ids(ix2) /\ ix2.data[j] \in Int
      BY <1>2, <1>3 DEF WellFormed
    <3>2. /\ j + o \in DOMAIN V /\ V[j + o] = ix2.data[j] /\ j + o \notin Ids(ix1)
      BY <3>1, PairFacts
    <3>3. n \in DOMAIN V /\ V[n] = q /\ T[n] = ix1.element_levels_[n]
      BY <1>1, PairFacts
    <3> QED BY <1>1, <3>1, <3>2, <3>3
  <2>2. F[j] = Dist(V[j + o], V[n]) /\ F[j] \in Int
    BY <1>1, <1>2, <2>1, DistSymmetric
  <2> PICK f : f = Candidate(n, F[j])
    OBVIOUS
  <2>3. f \in [{n} -> Int] /\ DOMAIN f = {n} /\ f[n] = F[j]
    BY <2>2 DEF Candidate
  <2>4. f \in Lists(DOMAIN V) /\ f \in Lists(Ids(ix1))
    BY <1>1, <2>1, <2>3, ListFacts
  <2>5. GoodList(V, T, j + o, l, f)
    BY <1>1, <2>1, <2>2, <2>3, <2>4 DEF GoodList
  <2> QED BY <2>4, <2>5
<1> QED BY <1>2, <1>4, <1>6, <1>7, <1>8, <1>9, <1>10

\* The same of the two inputs
LEMMA SearchFacts ==
  ASSUME InputsOK, NEW n, NEW l, NEW F, IsSearch(n, l, F), NEW found, found = Moved(F, off)
  PROVE  /\ GoodList(data, Tops, n, l, found) /\ DOMAIN found # {}
         /\ Nearest(data, index1.data[n], DOMAIN found) - off \in Layer(index2, l)
         /\ DOMAIN found = Shift(DOMAIN F, off) /\ DOMAIN F \subseteq Layer(index2, l)
         /\ Moved(found, -off) = F
         /\ \A j \in DOMAIN F :
              /\ GoodList(data, Tops, j + off, l, Candidate(n, F[j]))
              /\ Candidate(n, F[j]) \in Lists(Ids(index1))
<1> PICK V, T, o : V = data /\ T = Tops /\ o = off
  OBVIOUS
<1>1. /\ WellFormed(index1, M) /\ WellFormed(index2, M)
      /\ V = MergedData(index1, index2) /\ T = MergedTops(index1, index2) /\ o = index1.count
      /\ Searched(index1, index2, n, l, F) /\ found = Moved(F, o)
  BY DEF InputsOK, data, Tops, off, IsSearch, Searched
<1> HIDE DEF data, Tops, off
<1>2. /\ GoodList(V, T, n, l, found) /\ DOMAIN found # {}
      /\ Nearest(V, index1.data[n], DOMAIN found) - o \in Layer(index2, l)
  BY <1>1, PairSearchFacts
<1>3. /\ DOMAIN found = Shift(DOMAIN F, o) /\ DOMAIN F \subseteq Layer(index2, l)
      /\ Moved(found, -o) = F
  BY <1>1, PairSearchFacts
<1>4. \A j \in DOMAIN F :
        /\ GoodList(V, T, j + o, l, Candidate(n, F[j]))
        /\ Candidate(n, F[j]) \in Lists(Ids(index1))
  BY <1>1, PairSearchFacts
<1> QED BY <1>2, <1>3, <1>4

\* Connected, for the merged index
LEMMA MergedConnected ==
  ASSUME InputsOK, NEW l \in Levels(index2), NEW n \in DOMAIN data, NEW A, NEW B,
         GoodList(data, Tops, n, l, A), GoodList(data, Tops, n, l, B),
         NEW new, new = Connected(A, B, data, l)
  PROVE  GoodList(data, Tops, n, l, new) /\ Cardinality(DOMAIN new) <= Mcurmax(M, l)
<1> PICK N : N = off + index2.count
  OBVIOUS
<1>1. /\ N \in Nat /\ DOMAIN data = 0 .. N - 1 /\ data \in [0 .. N - 1 -> Int]
      /\ n \in 0 .. N - 1 /\ l \in Nat
  <2>1. l \in Nat
    BY DEF Levels, InputsOK, WellFormed
  <2> HIDE DEF data, off
  <2> QED BY <2>1, MergedFacts
<1> HIDE DEF data, Tops
<1>2. GoodList(data, Tops, n, l, Connected(A, B, data, l))
  BY <1>1, ConnectedFacts
<1>3. Cardinality(DOMAIN Connected(A, B, data, l)) <= Mcurmax(M, l)
  BY <1>1, ConnectedFacts
<1> QED BY <1>2, <1>3

-------------------------------------------------------------------------------
(* The merge in memory of the same inputs *)

\* Two inputs in the order of the merge, nothing of them marked deleted
Mergeable(ix1, ix2) ==
  /\ WellFormed(ix1, M) /\ WellFormed(ix2, M) /\ ix1.maxlevel_ <= ix2.maxlevel_
  /\ ix1.deleted = {} /\ ix2.deleted = {}

Entry(ix1, ix2, l, n) == Entries(ix1, ix2)[l][n]

\* Where the search in memory for element n of ix1 enters level l of ix2
Begin(ix1, ix2, l, n) ==
  DescendFrom(ix2, ix1.data[n], Start(ix2, Entry(ix1, ix2, l, n)),
              Memory!HigherLevel(ix2, Entry(ix1, ix2, l, n), l), l)

\* What it finds there
MemoryTop(ix1, ix2, l, n) == Memory!Forward(ix1, ix2, Entry(ix1, ix2, l, n), l, n).top

\* The elements of ix1 whose search on level l finds element j of ix2
Finders(ix1, ix2, l, j) == {n \in Layer(ix1, l) : j \in MemoryTop(ix1, ix2, l, n)}

\* A search of the merge in memory is a search2Layer of index2.
LEMMA MemoryForward ==
  ASSUME NEW ix1, NEW ix2, NEW e, NEW l, NEW n
  PROVE  Memory!Forward(ix1, ix2, e, l, n)
           = search2Layer(ix2, ix1.data[n], e, Memory!HigherLevel(ix2, e, l), l, Lambda)
BY DEF Memory!Forward, Layerwise

\* Whether a descent comes before it depends on the entry point.
LEMMA MemoryHigherLevel ==
  ASSUME NEW ix2, NEW e, NEW l
  PROVE  Memory!HigherLevel(ix2, e, l) = IF e = NoEntry THEN ix2.maxlevel_ ELSE l
BY DEF Memory!HigherLevel, Memory!NoEntry, NoEntry

\* The vectors of the merged index, under the ids of the merge
LEMMA MemoryData ==
  ASSUME NEW ix1, NEW ix2
  PROVE  Memory!MergedData(ix1, ix2) = MergedData(ix1, ix2)
BY DEF Memory!MergedData, Memory!MergedIds, Memory!Offset, MergedData

\* With nothing deleted a layer has all elements of the level.
LEMMA MemoryLayer ==
  ASSUME NEW ix, ix.deleted = {}, NEW l
  PROVE  LayerNodes(ix, l) = Layer(ix, l)
BY DEF LayerNodes, Layer

\* An element no search has found keeps its list.
LEMMA MemoryConnectBackward ==
  ASSUME NEW V, NEW l, NEW n, NEW C, NEW O
  PROVE  Memory!ConnectBackward(V, l, n, C, O) = IF C = {} THEN O ELSE Memory!Connect(V, l, n, C, O)
BY DEF Memory!ConnectBackward

\* A descent that begins on its last level stays where it is.
LEMMA DescendNowhere ==
  ASSUME NEW ix, NEW MM, WellFormed(ix, MM), NEW q \in Int, NEW start \in Ids(ix),
         NEW l \in 0 .. ix.maxlevel_
  PROVE  DescendFrom(ix, q, start, l, l) = start
<1>1. l \in 0 .. l
  BY DEF WellFormed
<1>2. PICK at : DescendFrom(ix, q, start, l, l) = at[l] /\ Stations(ix, q, start, l, l, at)
  BY <1>1, LevelLoop
<1> QED BY <1>2 DEF Stations

\* A descent goes one level further by a step of the loop.
LEMMA DescendFurther ==
  ASSUME NEW ix, NEW MM, WellFormed(ix, MM), NEW q \in Int, NEW start \in Ids(ix),
         NEW hi \in 0 .. ix.maxlevel_, NEW lo \in 1 .. hi
  PROVE  DescendFrom(ix, q, start, hi, lo - 1) = Descend(ix, q, DescendFrom(ix, q, start, hi, lo), lo)
<1>1. hi \in Nat /\ lo \in Nat /\ lo \in 0 .. hi /\ lo - 1 \in 0 .. hi /\ (lo - 1) + 1 = lo
  BY DEF WellFormed
<1>2. PICK f : DescendFrom(ix, q, start, hi, lo) = f[lo] /\ Stations(ix, q, start, hi, lo, f)
  BY <1>1, LevelLoop
<1>3. PICK g : DescendFrom(ix, q, start, hi, lo - 1) = g[lo - 1] /\ Stations(ix, q, start, hi, lo - 1, g)
  BY <1>1, LevelLoop
<1> DEFINE S == {k \in Nat : k <= hi - lo => f[hi - k] = g[hi - k]}
<1>4. 0 \in S
  BY <1>1, <1>2, <1>3 DEF Stations
<1>5. ASSUME NEW k \in Nat, k \in S PROVE k + 1 \in S
  <2> SUFFICES ASSUME k + 1 <= hi - lo PROVE f[hi - (k + 1)] = g[hi - (k + 1)]
    OBVIOUS
  <2> PICK m : m = hi - (k + 1)
    OBVIOUS
  <2>1. /\ m \in lo .. hi - 1 /\ m \in lo - 1 .. hi - 1 /\ m + 1 = hi - k /\ k <= hi - lo
    BY <1>1
  <2>2. f[m] = Descend(ix, q, f[m + 1], m + 1) /\ g[m] = Descend(ix, q, g[m + 1], m + 1)
    BY <1>2, <1>3, <2>1 DEF Stations
  <2>3. f[m + 1] = g[m + 1]
    BY <1>5, <2>1
  <2> QED BY <2>2, <2>3
<1>6. \A k \in Nat : k \in S
  <2> HIDE DEF S
  <2> QED BY <1>4, <1>5, SetInduction
<1>7. f[lo] = g[lo]
  <2>1. hi - lo \in Nat /\ hi - lo <= hi - lo /\ hi - (hi - lo) = lo
    BY <1>1
  <2> QED BY <1>6, <2>1
<1>8. g[lo - 1] = Descend(ix, q, g[lo], lo)
  BY <1>1, <1>3 DEF Stations
<1> QED BY <1>2, <1>3, <1>7, <1>8

\* The entry point one level down
EntryBelow(ix1, ix2, l, e, n) ==
  IF n \in LayerNodes(ix1, l + 1) THEN Memory!Forward(ix1, ix2, e, l + 1, n).ep ELSE NoEntry

\* A search leaves an element of its level behind, or the entry point it had.
LEMMA EntryBelowType ==
  ASSUME NEW ix1, NEW ix2, Mergeable(ix1, ix2), NEW n \in Ids(ix1),
         NEW l \in 0 .. ix2.maxlevel_ - 1, NEW e \in {NoEntry} \cup Layer(ix2, l + 1)
  PROVE  EntryBelow(ix1, ix2, l, e, n) \in {NoEntry} \cup Layer(ix2, l)
<1>1. WellFormed(ix2, M) /\ l + 1 \in 0 .. ix2.maxlevel_ /\ l \in Nat /\ ix1.data[n] \in Int
  <2>1. WellFormed(ix1, M) /\ WellFormed(ix2, M)
    BY DEF Mergeable
  <2>2. ix2.maxlevel_ \in Nat
    BY <2>1 DEF WellFormed
  <2>3. ix1.data \in [Ids(ix1) -> Int]
    BY <2>1 DEF WellFormed
  <2> QED BY <2>1, <2>2, <2>3
<1>2. e \in {NoEntry} \cup OnLevel(ix2, l + 1) /\ Lambda \in Nat \ {0}
  BY DiskAssumption DEF Layer, OnLevel
<1>3. search2Layer(ix2, ix1.data[n], e, IF e = NoEntry THEN ix2.maxlevel_ ELSE l + 1, l + 1, Lambda).ep
        \in {e} \cup LayerNodes(ix2, l + 1)
  <2> HIDE DEF NoEntry
  <2> QED BY <1>1, <1>2, search2LayerFacts
<1>4. Memory!Forward(ix1, ix2, e, l + 1, n).ep \in {e} \cup LayerNodes(ix2, l + 1)
  BY <1>3, MemoryForward, MemoryHigherLevel
<1>5. LayerNodes(ix2, l + 1) \subseteq Layer(ix2, l) /\ Layer(ix2, l + 1) \subseteq Layer(ix2, l)
  <2>1. \A k \in Ids(ix2) : ix2.element_levels_[k] \in Nat
    BY <1>1 DEF WellFormed
  <2> QED BY <1>1, <2>1 DEF LayerNodes, Layer
<1> QED BY <1>4, <1>5 DEF EntryBelow

\* at has the entry points of all levels.
IsEntries(ix1, ix2, at) ==
  at = [l \in 0 .. ix2.maxlevel_ |->
          IF l = ix2.maxlevel_ THEN [n \in Ids(ix1) |-> NoEntry]
          ELSE [n \in Ids(ix1) |-> EntryBelow(ix1, ix2, l, at[l + 1][n], n)]]

\* The equation of the entry points has a solution.
LEMMA EntriesExist ==
  ASSUME NEW ix1, NEW ix2, Mergeable(ix1, ix2)
  PROVE  \E at : IsEntries(ix1, ix2, at)
<1> DEFINE N == ix2.maxlevel_
           W == {NoEntry} \cup Ids(ix2)
           V == [Ids(ix1) -> W]
           below(k, g, n) == EntryBelow(ix1, ix2, N - k, g[n], n)
           F == [p \in (1 .. N) \X V |->
                   [n \in Ids(ix1) |-> IF below(p[1], p[2], n) \in W THEN below(p[1], p[2], n) ELSE NoEntry]]
           none == [n \in Ids(ix1) |-> NoEntry]
<1>1. N \in Nat /\ none \in V
  BY DEF Mergeable, WellFormed
<1>2. IsStep(F, N, V)
  <2> NoEntry \in W
    OBVIOUS
  <2> HIDE DEF W, N, below, NoEntry
  <2>1. \A p \in (1 .. N) \X V : F[p] \in V
    OBVIOUS
  <2> QED BY <2>1 DEF IsStep
<1>3. PICK g : IsMadeBy(g, F, N, V, none)
  <2> HIDE DEF F, V, N, none
  <2> QED BY <1>1, <1>2, PrimitiveRecursion
<1>4. g[0] = none /\ g \in [0 .. N -> V]
  <2>1. 0 \in 0 .. N
    BY <1>1
  <2> HIDE DEF F, V, N, none
  <2> QED BY <1>3, <2>1 DEF IsMadeBy
<1>5. ASSUME NEW k \in 1 .. N, NEW n \in Ids(ix1), below(k, g[k - 1], n) \in W
      PROVE  g[k][n] = below(k, g[k - 1], n)
  <2>1. k \in 0 .. N /\ k # 0 /\ k - 1 \in 0 .. N
    BY <1>1
  <2>2. g[k] = F[<<k, g[k - 1]>>] /\ g[k - 1] \in V
    <3> HIDE DEF F, V, N, none
    <3> QED BY <1>3, <1>4, <2>1 DEF IsMadeBy
  <2>3. <<k, g[k - 1]>> \in (1 .. N) \X V
    BY <2>2
  <2> HIDE DEF V, W, N, below
  <2> QED BY <1>5, <2>2, <2>3
<1> DEFINE S == {k \in Nat : k <= N => \A n \in Ids(ix1) : g[k][n] \in {NoEntry} \cup Layer(ix2, N - k)}
<1>6. 0 \in S
  BY <1>4
<1>7. ASSUME NEW k \in Nat, k \in S PROVE k + 1 \in S
  <2> SUFFICES ASSUME k + 1 <= N, NEW n \in Ids(ix1)
               PROVE  g[k + 1][n] \in {NoEntry} \cup Layer(ix2, N - (k + 1))
    OBVIOUS
  <2> PICK l : l = N - (k + 1)
    OBVIOUS
  <2>1. /\ l \in 0 .. ix2.maxlevel_ - 1 /\ l + 1 = N - k /\ k + 1 \in 1 .. N /\ (k + 1) - 1 = k
        /\ k <= N
    BY <1>1
  <2>2. g[k][n] \in {NoEntry} \cup Layer(ix2, l + 1)
    BY <1>7, <2>1
  <2>3. EntryBelow(ix1, ix2, l, g[k][n], n) \in {NoEntry} \cup Layer(ix2, l)
    BY <2>1, <2>2, EntryBelowType
  <2>4. below(k + 1, g[k], n) \in W /\ below(k + 1, g[k], n) \in {NoEntry} \cup Layer(ix2, l)
    BY <2>3 DEF Layer
  <2>5. g[k + 1][n] = below(k + 1, g[k], n)
    <3> HIDE DEF W, N, below
    <3> QED BY <1>5, <2>1, <2>4
  <2> QED BY <2>4, <2>5
<1>8. \A k \in Nat : k \in S
  <2> HIDE DEF S
  <2> QED BY <1>6, <1>7, SetInduction
<1> DEFINE at == [l \in 0 .. N |-> g[N - l]]
           value(l) == IF l = N THEN none ELSE [n \in Ids(ix1) |-> EntryBelow(ix1, ix2, l, at[l + 1][n], n)]
<1>9. ASSUME NEW l \in 0 .. N PROVE at[l] = value(l)
  <2>1. CASE l = N
    <3> N - l = 0
      BY <1>1, <2>1
    <3>1. at[l] = g[0]
      <4> HIDE DEF N
      <4> QED OBVIOUS
    <3> HIDE DEF none, N, at
    <3> QED BY <1>4, <2>1, <3>1
  <2>2. CASE l # N
    <3> PICK k : k = N - l
      OBVIOUS
    <3>1. /\ k \in 1 .. N /\ k - 1 \in Nat /\ k - 1 <= N /\ N - k = l /\ N - (k - 1) = l + 1
          /\ N - (l + 1) = k - 1 /\ l + 1 \in 0 .. N /\ l \in 0 .. ix2.maxlevel_ - 1 /\ k \in 0 .. N
      BY <1>1, <2>2
    <3>2. at[l] = g[k] /\ at[l + 1] = g[k - 1]
      BY <3>1
    <3>3. ASSUME NEW n \in Ids(ix1) PROVE g[k][n] = EntryBelow(ix1, ix2, l, g[k - 1][n], n)
      <4>1. g[k - 1][n] \in {NoEntry} \cup Layer(ix2, l + 1)
        BY <1>8, <3>1
      <4>2. EntryBelow(ix1, ix2, l, g[k - 1][n], n) \in {NoEntry} \cup Layer(ix2, l)
        BY <3>1, <4>1, EntryBelowType
      <4>3. below(k, g[k - 1], n) = EntryBelow(ix1, ix2, l, g[k - 1][n], n) /\ below(k, g[k - 1], n) \in W
        BY <3>1, <4>2 DEF Layer
      <4> HIDE DEF W, N, below
      <4> QED BY <1>5, <3>1, <4>3
    <3>4. g[k] = [n \in Ids(ix1) |-> g[k][n]]
      <4> HIDE DEF W, N
      <4> QED BY <1>4, <3>1
    <3> HIDE DEF at, N, none
    <3> QED BY <2>2, <3>2, <3>3, <3>4
  <2> QED BY <2>1, <2>2
<1>10. at = [l \in 0 .. N |-> value(l)]
  <2>1. at = [l \in 0 .. N |-> at[l]]
    OBVIOUS
  <2> HIDE DEF at, value, N
  <2> QED BY <1>9, <2>1
<1>11. IsEntries(ix1, ix2, at)
  <2> HIDE DEF at
  <2> QED BY <1>10 DEF IsEntries
<1> QED BY <1>11

\* No entry point is known on the top level; further down it is what the
\* search one level up left behind, if there was one.
LEMMA EntriesFacts ==
  ASSUME NEW ix1, NEW ix2, Mergeable(ix1, ix2), NEW n \in Ids(ix1)
  PROVE  /\ Entry(ix1, ix2, ix2.maxlevel_, n) = NoEntry
         /\ \A l \in 0 .. ix2.maxlevel_ - 1 :
              Entry(ix1, ix2, l, n) = EntryBelow(ix1, ix2, l, Entry(ix1, ix2, l + 1, n), n)
         /\ \A l \in Levels(ix2) : Entry(ix1, ix2, l, n) \in {NoEntry} \cup Layer(ix2, l)
<1> PICK E : E = Entries(ix1, ix2)
  OBVIOUS
<1>1. IsEntries(ix1, ix2, E)
  <2>1. \E at : IsEntries(ix1, ix2, at)
    BY EntriesExist
  <2> QED BY <2>1, Zenon DEF Entries, IsEntries, EntryBelow
<1>2. ix2.maxlevel_ \in Nat
  BY DEF Mergeable, WellFormed
<1>3. \A l \in 0 .. ix2.maxlevel_ : E[l] =
          IF l = ix2.maxlevel_ THEN [k \in Ids(ix1) |-> NoEntry]
          ELSE [k \in Ids(ix1) |-> EntryBelow(ix1, ix2, l, E[l + 1][k], k)]
  BY <1>1 DEF IsEntries
<1>4. E[ix2.maxlevel_][n] = NoEntry
  <2>1. ix2.maxlevel_ \in 0 .. ix2.maxlevel_
    BY <1>2
  <2>2. E[ix2.maxlevel_] = [k \in Ids(ix1) |-> NoEntry]
    BY <1>3, <2>1, Zenon
  <2> QED BY <2>2
<1>5. ASSUME NEW l \in 0 .. ix2.maxlevel_ - 1
      PROVE  E[l][n] = EntryBelow(ix1, ix2, l, E[l + 1][n], n)
  <2>1. l \in 0 .. ix2.maxlevel_ /\ l # ix2.maxlevel_
    BY <1>2
  <2>2. E[l] = [k \in Ids(ix1) |-> EntryBelow(ix1, ix2, l, E[l + 1][k], k)]
    BY <1>3, <2>1
  <2> QED BY <2>2
<1> DEFINE S == {k \in Nat : k <= ix2.maxlevel_ =>
                   E[ix2.maxlevel_ - k][n] \in {NoEntry} \cup Layer(ix2, ix2.maxlevel_ - k)}
<1>6. 0 \in S
  BY <1>2, <1>4
<1>7. ASSUME NEW k \in Nat, k \in S PROVE k + 1 \in S
  <2> SUFFICES ASSUME k + 1 <= ix2.maxlevel_
               PROVE  E[ix2.maxlevel_ - (k + 1)][n] \in {NoEntry} \cup Layer(ix2, ix2.maxlevel_ - (k + 1))
    OBVIOUS
  <2> PICK l : l = ix2.maxlevel_ - (k + 1)
    OBVIOUS
  <2>1. l \in 0 .. ix2.maxlevel_ - 1 /\ l + 1 = ix2.maxlevel_ - k /\ k <= ix2.maxlevel_
    BY <1>2
  <2>2. E[l + 1][n] \in {NoEntry} \cup Layer(ix2, l + 1)
    BY <1>7, <2>1
  <2>3. EntryBelow(ix1, ix2, l, E[l + 1][n], n) \in {NoEntry} \cup Layer(ix2, l)
    BY <2>1, <2>2, EntryBelowType
  <2> QED BY <1>5, <2>1, <2>3
<1>8. \A k \in Nat : k \in S
  <2> HIDE DEF S
  <2> QED BY <1>6, <1>7, SetInduction
<1>9. ASSUME NEW l \in Levels(ix2) PROVE E[l][n] \in {NoEntry} \cup Layer(ix2, l)
  <2>1. ix2.maxlevel_ - l \in Nat /\ ix2.maxlevel_ - l <= ix2.maxlevel_ /\ ix2.maxlevel_ - (ix2.maxlevel_ - l) = l
    BY <1>2 DEF Levels
  <2> QED BY <1>8, <2>1
<1> QED BY <1>4, <1>5, <1>9 DEF Entry

\* What the definitions say of two inputs
LEMMA MergeableFacts ==
  ASSUME NEW ix1, NEW ix2, Mergeable(ix1, ix2)
  PROVE  /\ WellFormed(ix1, M) /\ WellFormed(ix2, M)
         /\ ix2.maxlevel_ \in Nat /\ ix2.enterpoint_node_ \in Ids(ix2)
         /\ ix1.data \in [Ids(ix1) -> Int]
         /\ ix1.element_levels_ \in [Ids(ix1) -> Nat]
         /\ \A l : LayerNodes(ix1, l) = Layer(ix1, l) /\ LayerNodes(ix2, l) = Layer(ix2, l)
         /\ \A k \in Ids(ix2) : k # NoEntry
<1>1. WellFormed(ix1, M) /\ WellFormed(ix2, M) /\ ix1.deleted = {} /\ ix2.deleted = {}
  BY DEF Mergeable
<1>2. \A l : LayerNodes(ix1, l) = Layer(ix1, l) /\ LayerNodes(ix2, l) = Layer(ix2, l)
  BY <1>1, MemoryLayer
<1>3. ix2.maxlevel_ \in Nat /\ ix2.enterpoint_node_ \in Ids(ix2)
  BY <1>1 DEF WellFormed
<1>4. ix1.data \in [Ids(ix1) -> Int]
  BY <1>1 DEF WellFormed
<1>5. ix1.element_levels_ \in [Ids(ix1) -> 0 .. ix1.maxlevel_] /\ ix1.maxlevel_ \in Nat
  BY <1>1 DEF WellFormed
<1>6. ix1.element_levels_ \in [Ids(ix1) -> Nat]
  BY <1>5
<1>7. \A k \in Ids(ix2) : k # NoEntry
  BY DEF NoEntry, Ids
<1> QED BY <1>1, <1>2, <1>3, <1>4, <1>6, <1>7

\* On the top level a search begins at the entry point of ix2.
LEMMA BeginOnTop ==
  ASSUME NEW ix1, NEW ix2, Mergeable(ix1, ix2), NEW n \in Ids(ix1)
  PROVE  Begin(ix1, ix2, ix2.maxlevel_, n) = Start(ix2, NoEntry)
<1>1. Entry(ix1, ix2, ix2.maxlevel_, n) = NoEntry
  BY EntriesFacts
<1>2. /\ WellFormed(ix2, M) /\ ix2.maxlevel_ \in 0 .. ix2.maxlevel_ /\ ix2.enterpoint_node_ \in Ids(ix2)
      /\ ix1.data[n] \in Int
  BY MergeableFacts
<1>3. Memory!HigherLevel(ix2, NoEntry, ix2.maxlevel_) = ix2.maxlevel_
  BY MemoryHigherLevel
<1>4. Start(ix2, NoEntry) = ix2.enterpoint_node_
  BY DEF Start
<1>5. DescendFrom(ix2, ix1.data[n], ix2.enterpoint_node_, ix2.maxlevel_, ix2.maxlevel_) = ix2.enterpoint_node_
  BY <1>2, DescendNowhere
<1> QED BY <1>1, <1>3, <1>4, <1>5 DEF Begin

\* For an element that is not on level l the descent just goes on.
LEMMA BeginPassedBy ==
  ASSUME NEW ix1, NEW ix2, Mergeable(ix1, ix2), NEW l \in 1 .. ix2.maxlevel_,
         NEW n \in Ids(ix1) \ Layer(ix1, l)
  PROVE  Begin(ix1, ix2, l - 1, n) = Descend(ix2, ix1.data[n], Begin(ix1, ix2, l, n), l)
<1>1. /\ WellFormed(ix2, M) /\ ix2.maxlevel_ \in Nat /\ ix2.enterpoint_node_ \in Ids(ix2)
      /\ ix1.data[n] \in Int /\ ix2.maxlevel_ \in 0 .. ix2.maxlevel_
      /\ \A k : LayerNodes(ix1, k) = Layer(ix1, k)
  BY MergeableFacts
<1>2. l \in Nat /\ l - 1 \in 0 .. ix2.maxlevel_ - 1 /\ (l - 1) + 1 = l
  BY <1>1
<1>3. n \notin Layer(ix1, l) /\ n \notin Layer(ix1, l + 1)
  <2>1. ix1.element_levels_[n] \in Nat
    BY MergeableFacts
  <2> QED BY <1>2, <2>1 DEF Layer
<1>4. Entry(ix1, ix2, l, n) = NoEntry
  <2>1. CASE l = ix2.maxlevel_
    BY <2>1, EntriesFacts
  <2>2. CASE l # ix2.maxlevel_
    <3>1. l \in 0 .. ix2.maxlevel_ - 1
      BY <1>1, <1>2, <2>2
    <3> QED BY <1>1, <1>3, <3>1, EntriesFacts DEF EntryBelow
  <2> QED BY <2>1, <2>2
<1>5. Entry(ix1, ix2, l - 1, n) = NoEntry
  <2>1. Entry(ix1, ix2, l - 1, n) = EntryBelow(ix1, ix2, l - 1, Entry(ix1, ix2, (l - 1) + 1, n), n)
    BY <1>2, EntriesFacts
  <2> QED BY <1>1, <1>2, <1>3, <2>1 DEF EntryBelow
<1>6. \A k : Memory!HigherLevel(ix2, NoEntry, k) = ix2.maxlevel_
  BY MemoryHigherLevel
<1>7. DescendFrom(ix2, ix1.data[n], ix2.enterpoint_node_, ix2.maxlevel_, l - 1)
        = Descend(ix2, ix1.data[n], DescendFrom(ix2, ix1.data[n], ix2.enterpoint_node_, ix2.maxlevel_, l), l)
  BY <1>1, DescendFurther
<1>8. Start(ix2, NoEntry) = ix2.enterpoint_node_
  BY DEF Start
<1> QED BY <1>4, <1>5, <1>6, <1>7, <1>8 DEF Begin

\* From the same start a search on disk finds what the one in memory does.
LEMMA TopIsFound ==
  ASSUME NEW ix1, NEW ix2, Mergeable(ix1, ix2), NEW l, NEW n, NEW e,
         Start(ix2, e) = Begin(ix1, ix2, l, n)
  PROVE  /\ MemoryTop(ix1, ix2, l, n) = DOMAIN Found(ix2, ix1.data[n], e, l)
         /\ Memory!Forward(ix1, ix2, Entry(ix1, ix2, l, n), l, n).ep =
              IF MemoryTop(ix1, ix2, l, n) = {} THEN Entry(ix1, ix2, l, n)
              ELSE Nearest(ix2.data, ix1.data[n], MemoryTop(ix1, ix2, l, n))
<1> PICK E : E = Entry(ix1, ix2, l, n)
  OBVIOUS
<1> PICK hi : hi = Memory!HigherLevel(ix2, E, l)
  OBVIOUS
<1> PICK q : q = ix1.data[n]
  OBVIOUS
<1> PICK top : top = Beam(ix2, q, DescendFrom(ix2, q, Start(ix2, E), hi, l), l, Lambda, {}, FALSE)
  OBVIOUS
<1>1. search2Layer(ix2, q, E, hi, l, Lambda)
        = [top |-> top, ep |-> IF top = {} THEN E ELSE Nearest(ix2.data, q, top)]
  BY DEF Mergeable, search2Layer, Start
<1>2. Memory!Forward(ix1, ix2, E, l, n) = search2Layer(ix2, q, E, hi, l, Lambda)
  BY MemoryForward
<1>3. MemoryTop(ix1, ix2, l, n) = top
  BY <1>1, <1>2 DEF MemoryTop
<1>4. DOMAIN Found(ix2, q, e, l) = top
  BY DEF Found, Begin
<1> QED BY <1>1, <1>2, <1>3, <1>4

\* For an element whose search found something the next one begins at the
\* nearest of what was found.
LEMMA BeginSearched ==
  ASSUME NEW ix1, NEW ix2, Mergeable(ix1, ix2), NEW l \in 1 .. ix2.maxlevel_, NEW n \in Layer(ix1, l),
         NEW e \in {NoEntry} \cup Layer(ix2, l), Start(ix2, e) = Begin(ix1, ix2, l, n)
  PROVE  Begin(ix1, ix2, l - 1, n) = Nearest(ix2.data, ix1.data[n], MemoryTop(ix1, ix2, l, n))
<1> PICK q : q = ix1.data[n]
  OBVIOUS
<1> PICK top : top = MemoryTop(ix1, ix2, l, n)
  OBVIOUS
<1>1. /\ WellFormed(ix2, M) /\ ix2.maxlevel_ \in Nat /\ n \in Ids(ix1) /\ q \in Int
      /\ \A k : LayerNodes(ix1, k) = Layer(ix1, k)
      /\ \A k \in Ids(ix2) : k # NoEntry
  BY MergeableFacts DEF Layer
<1>2. l \in Levels(ix2) /\ l - 1 \in 0 .. ix2.maxlevel_ - 1 /\ (l - 1) + 1 = l /\ l - 1 \in 0 .. ix2.maxlevel_
  BY <1>1 DEF Levels
<1>3. top = DOMAIN Found(ix2, q, e, l)
  BY TopIsFound
<1>4. top \in SUBSET Layer(ix2, l) /\ IsFiniteSet(top) /\ top # {}
  BY <1>1, <1>2, <1>3, FoundFacts
<1>5. Nearest(ix2.data, q, top) \in Ids(ix2)
  <2>1. top \subseteq Ids(ix2)
    BY <1>4 DEF Layer
  <2>2. Comparable(ix2.data, q, top)
    BY <1>1, <2>1, IndexFacts
  <2> QED BY <1>4, <2>1, <2>2, NearestFacts
<1>6. Entry(ix1, ix2, l - 1, n) = Nearest(ix2.data, q, top)
  <2>1. Entry(ix1, ix2, l - 1, n) = EntryBelow(ix1, ix2, l - 1, Entry(ix1, ix2, (l - 1) + 1, n), n)
    BY <1>1, <1>2, EntriesFacts
  <2>2. Entry(ix1, ix2, l - 1, n) = Memory!Forward(ix1, ix2, Entry(ix1, ix2, l, n), l, n).ep
    BY <1>1, <1>2, <2>1 DEF EntryBelow
  <2> QED BY <1>4, <2>2, TopIsFound
<1> PICK s : s = Nearest(ix2.data, q, top)
  OBVIOUS
<1>7. Start(ix2, s) = s /\ Memory!HigherLevel(ix2, s, l - 1) = l - 1
  BY <1>1, <1>5, MemoryHigherLevel DEF Start
<1>8. DescendFrom(ix2, q, s, l - 1, l - 1) = s
  BY <1>1, <1>2, <1>5, DescendNowhere
<1> QED BY <1>6, <1>7, <1>8 DEF Begin

\* The lists of the merge in memory, element by element
LEMMA MergedLists ==
  ASSUME NEW ix1, NEW ix2, Mergeable(ix1, ix2), NEW l \in Levels(ix2),
         NEW V, V = MergedData(ix1, ix2), NEW o, o = ix1.count,
         NEW L, L = MergedInMemory(ix1, ix2)[l]
  PROVE  /\ \A n \in Layer(ix1, l) :
              L[n] = Memory!Connect(V, l, n, Shift(MemoryTop(ix1, ix2, l, n), o), ix1.links[l][n])
         /\ \A n \in Ids(ix1) \ Layer(ix1, l) : L[n] = {}
         /\ \A j \in Layer(ix2, l) :
              L[j + o] = Memory!ConnectBackward(V, l, j + o, Finders(ix1, ix2, l, j),
                                                Shift(ix2.links[l][j], o))
         /\ \A j \in Ids(ix2) \ Layer(ix2, l) : L[j + o] = {}
<1> DEFINE found == [k \in Levels(ix2) |-> [n \in LayerNodes(ix1, k) |->
                       Memory!Forward(ix1, ix2, Entries(ix1, ix2)[k][n], k, n).top]]
           finders(k, j) == {n \in LayerNodes(ix1, k) : j \in found[k][n]}
           list(n) ==
             IF n \in LayerNodes(ix1, l)
             THEN Memory!Connect(V, l, n, Shift(found[l][n], o), Memory!OldLinks1(ix1, l, n))
             ELSE IF n - o \in LayerNodes(ix2, l)
             THEN Memory!ConnectBackward(V, l, n, finders(l, n - o), Memory!OldLinks2(ix1, ix2, l, n - o))
             ELSE {}
<1>1. L = [n \in DOMAIN V |-> list(n)]
  BY MemoryData DEF MergedInMemory
<1>2. /\ \A n \in Ids(ix1) : n \in DOMAIN V /\ n \in Nat /\ n < o
      /\ \A j \in Ids(ix2) : j + o \in DOMAIN V /\ (j + o) - o = j /\ j + o \notin Ids(ix1)
      /\ \A k \in Ids(ix2) : k \in Nat
      /\ o \in Nat
  <2>1. WellFormed(ix1, M) /\ WellFormed(ix2, M)
    BY DEF Mergeable
  <2> PICK T : T = MergedTops(ix1, ix2)
    OBVIOUS
  <2> QED BY <2>1, PairFacts
<1>3. \A k : LayerNodes(ix1, k) = Layer(ix1, k) /\ LayerNodes(ix2, k) = Layer(ix2, k)
  BY MergeableFacts
<1>4. \A n \in Layer(ix1, l) : found[l][n] = MemoryTop(ix1, ix2, l, n)
  BY <1>3 DEF MemoryTop, Entry
<1>5. \A j : finders(l, j) = Finders(ix1, ix2, l, j)
  <2> HIDE DEF found
  <2> QED BY <1>3, <1>4 DEF Finders
<1>6. Layer(ix1, l) \subseteq Ids(ix1) /\ Layer(ix2, l) \subseteq Ids(ix2)
  BY DEF Layer
<1>7. ASSUME NEW n \in Layer(ix1, l)
      PROVE  L[n] = Memory!Connect(V, l, n, Shift(MemoryTop(ix1, ix2, l, n), o), ix1.links[l][n])
  <2>1. L[n] = list(n)
    <3> HIDE DEF list
    <3> QED BY <1>1, <1>2, <1>6
  <2>2. Memory!OldLinks1(ix1, l, n) = ix1.links[l][n]
    BY DEF Memory!OldLinks1
  <2> HIDE DEF found, finders
  <2> QED BY <1>3, <1>4, <2>1, <2>2
<1>8. ASSUME NEW n \in Ids(ix1) \ Layer(ix1, l) PROVE L[n] = {}
  <2>1. L[n] = list(n)
    <3> HIDE DEF list
    <3> QED BY <1>1, <1>2, <1>6
  <2>2. n - o \notin LayerNodes(ix2, l)
    <3>1. n - o \notin Nat
      BY <1>2
    <3> QED BY <1>2, <1>3, <1>6, <3>1
  <2> HIDE DEF found, finders
  <2> QED BY <1>3, <2>1, <2>2
<1>9. ASSUME NEW j \in Ids(ix2)
      PROVE  /\ L[j + o] = list(j + o) /\ j + o \notin LayerNodes(ix1, l) /\ (j + o) - o = j
  <2>1. L[j + o] = list(j + o)
    <3> HIDE DEF list
    <3> QED BY <1>1, <1>2
  <2> HIDE DEF list
  <2> QED BY <1>2, <1>3, <1>6, <2>1
<1>10. ASSUME NEW j \in Layer(ix2, l)
       PROVE  L[j + o] = Memory!ConnectBackward(V, l, j + o, Finders(ix1, ix2, l, j),
                                                Shift(ix2.links[l][j], o))
  <2>1. Memory!OldLinks2(ix1, ix2, l, j) = Shift(ix2.links[l][j], o)
    BY DEF Memory!OldLinks2, Memory!Shift, Memory!Offset, Shift
  <2>2. j \in Ids(ix2) /\ j \in LayerNodes(ix2, l)
    BY <1>3, <1>6
  <2> HIDE DEF found, finders
  <2> QED BY <1>5, <1>9, <2>1, <2>2
<1>11. ASSUME NEW j \in Ids(ix2) \ Layer(ix2, l) PROVE L[j + o] = {}
  <2> HIDE DEF found, finders
  <2> QED BY <1>3, <1>9
<1> QED BY <1>7, <1>8, <1>10, <1>11

-------------------------------------------------------------------------------
(* The file so far is what the merge in memory makes *)

\* The search for element n of index1 has been made on the level.
Processed(n) ==
  \/ pc = "batch1" /\ n < b
  \/ pc = "forward" /\ n < i
  \/ pc \in {"batch2", "backward"}

\* Element j of index2 has got its list on the way back.
Behind(j) == pc \in {"batch2", "backward"} /\ Rank(j) < Position2

SameList(l, n) == DOMAIN file[l][n].list = MergedInMemory(index1, index2)[l][n]

\* Searches begin where those in memory do: on this level as long as they are
\* to be made, on the next one down when they have been.
EntriesSame ==
  level >= 0 => \A n \in Ids(index1) :
    /\ Processed(n) /\ level > 0 => Start(index2, ep[n]) = Begin(index1, index2, level - 1, n)
    /\ ~ Processed(n) => Start(index2, ep[n]) = Begin(index1, index2, level, n)

\* The candidates of an element of index2 are those whose search in memory
\* finds it, as far as they had their turn.
CandidatesSame ==
  pc \in {"batch1", "forward", "batch2", "backward"} =>
    \A j \in Ids(index2) :
      DOMAIN cands[j] = {n \in Layer(index1, level) :
                           Processed(n) /\ j \in MemoryTop(index1, index2, level, n)}

\* What has been written is what the merge in memory makes, and what is not
\* written is empty in both.
FileSame ==
  \A l \in Levels(index2) :
    /\ \A n \in Ids(index1) :
         n \notin Layer(index1, l) \/ level < l \/ (level = l /\ Processed(n)) => SameList(l, n)
    /\ \A j \in Ids(index2) :
         j \notin Layer(index2, l) \/ level < l \/ (level = l /\ Behind(j)) => SameList(l, j + off)

SameSoFar == EntriesSame /\ CandidatesSame /\ FileSame

\* An element has no saved list above its top level.
LEMMA SavedEmpty ==
  ASSUME NEW ix, WellFormed(ix, M), NEW l \in Levels(ix), NEW n \in Ids(ix) \ Layer(ix, l)
  PROVE  DOMAIN SavedList(ix, l, n) = {}
<1>1. ix.links[l][n] = {}
  BY LevelFacts
<1>2. DOMAIN SavedList(ix, l, n) = ix.links[l][n]
  BY SavedFacts
<1> QED BY <1>1, <1>2

\* Before the first level
Fresh ==
  /\ InputsOK /\ Mergeable(index1, index2) /\ file = CopiedFile(index1, index2)
  /\ level = index2.maxlevel_ /\ pc = "level" /\ ep = [n \in Ids(index1) |-> NoEntry]

\* Nothing is written yet: an element has no list on a level above its own.
LEMMA FreshSame == Fresh => SameSoFar
<1> SUFFICES ASSUME Fresh PROVE SameSoFar
  OBVIOUS
<1> USE DEF Fresh
<1>1. WellFormed(index1, M) /\ WellFormed(index2, M)
  BY DEF InputsOK
<1>2. \A n : ~ Processed(n) /\ ~ Behind(n)
  BY DEF Processed, Behind
<1>3. EntriesSame
  <2>1. \A n \in Ids(index1) : Start(index2, ep[n]) = Begin(index1, index2, level, n)
    BY BeginOnTop
  <2> QED BY <1>2, <2>1 DEF EntriesSame
<1>4. CandidatesSame
  BY DEF CandidatesSame
<1>5. ASSUME NEW l \in Levels(index2) PROVE ~ level < l /\ l \in Nat
  BY <1>1 DEF Levels, WellFormed
<1> PICK V, o : V = MergedData(index1, index2) /\ o = index1.count
  OBVIOUS
<1>6. /\ \A n \in Ids(index1) : n \in 0 .. index1.count + index2.count - 1 /\ ~ n >= index1.count
      /\ \A j \in Ids(index2) : /\ j + o \in 0 .. index1.count + index2.count - 1
                                /\ j + o >= index1.count /\ (j + o) - index1.count = j
  <2>1. index1.count \in Nat /\ index2.count \in Nat
    BY <1>1 DEF WellFormed
  <2>2. ASSUME NEW n \in Ids(index1)
        PROVE  n \in 0 .. index1.count + index2.count - 1 /\ ~ n >= index1.count
    BY <2>1 DEF Ids
  <2>3. ASSUME NEW j \in Ids(index2)
        PROVE  /\ j + o \in 0 .. index1.count + index2.count - 1
               /\ j + o >= index1.count /\ (j + o) - index1.count = j
    BY <2>1 DEF Ids
  <2> QED BY <2>2, <2>3, Zenon
<1>7. ASSUME NEW l \in Levels(index2), NEW n \in Ids(index1) \ Layer(index1, l)
      PROVE  SameList(l, n)
  <2> PICK L : L = MergedInMemory(index1, index2)[l]
    OBVIOUS
  <2>1. L[n] = {}
    BY MergedLists
  <2>2. file[l][n] = IF l \in Levels(index1) THEN Slot(SavedList(index1, l, n)) ELSE Slot(<<>>)
    BY <1>6 DEF CopiedFile
  <2>3. l \in Levels(index1) => DOMAIN SavedList(index1, l, n) = {}
    BY <1>1, SavedEmpty
  <2>4. DOMAIN file[l][n].list = {}
    <3>1. DOMAIN <<>> = {}
      OBVIOUS
    <3> QED BY <2>2, <2>3, <3>1 DEF Slot
  <2> QED BY <2>1, <2>4 DEF SameList
<1>8. ASSUME NEW l \in Levels(index2), NEW j \in Ids(index2) \ Layer(index2, l)
      PROVE  SameList(l, j + off)
  <2> PICK L : L = MergedInMemory(index1, index2)[l]
    OBVIOUS
  <2>1. L[j + o] = {}
    BY MergedLists
  <2>2. file[l][j + o] = Slot(SavedList(index2, l, j))
    BY <1>6 DEF CopiedFile
  <2>3. DOMAIN SavedList(index2, l, j) = {}
    BY <1>1, SavedEmpty
  <2>4. DOMAIN file[l][j + o].list = {}
    BY <2>2, <2>3 DEF Slot
  <2>5. off = o
    BY DEF off
  <2> QED BY <2>1, <2>4, <2>5 DEF SameList
<1>9. FileSame
  BY <1>2, <1>5, <1>7, <1>8 DEF FileSame
<1> QED BY <1>3, <1>4, <1>9 DEF SameSoFar

\* The list an element gets on disk has the members of the one in memory.
LEMMA ConnectedMembers ==
  ASSUME NEW N \in Nat, NEW V \in [0 .. N - 1 -> Int], NEW T, NEW n \in 0 .. N - 1, NEW l \in Nat,
         NEW A, NEW B, GoodList(V, T, n, l, A), GoodList(V, T, n, l, B)
  PROVE  DOMAIN Connected(A, B, V, l) = Memory!Connect(V, l, n, DOMAIN A, DOMAIN B)
<1> PICK J, C, O, m : J = Joined(A, B) /\ C = DOMAIN A /\ O = DOMAIN B /\ m = Mcurmax(M, l)
  OBVIOUS
<1>1. m \in Nat
  BY DiskAssumption DEF Mcurmax
<1>2. GoodList(V, T, n, l, J) /\ DOMAIN J = C \cup O
  <2>1. GoodList(V, T, n, l, Joined(A, B))
    BY JoinedFacts
  <2>2. DOMAIN Joined(A, B) = C \cup O
    BY DEF Joined
  <2> QED BY <2>1, <2>2
<1>3. DOMAIN J \subseteq 0 .. N - 1 /\ J \in [DOMAIN J -> Int] /\ IsFiniteSet(DOMAIN J)
  <2>1. DOMAIN J \subseteq 0 .. N - 1 /\ J \in [DOMAIN J -> Int]
    BY <1>2, ListFacts DEF GoodList
  <2>2. IsFiniteSet(0 .. N - 1)
    BY FS_Interval
  <2> QED BY <2>1, <2>2, FS_Subset
<1>4. Memory!Connect(V, l, n, C, O) =
        IF Overflows(A, B, l) THEN getNeighborsByHeuristic2(V, V[n], C \cup O, m, Alpha) ELSE C \cup O
  BY DEF Memory!Connect, Select, Overflows, Memory!Mcurmax, Mcurmax, Memory!Cardinality, Cardinality,
         Memory!IsFiniteSet, IsFiniteSet
<1>5. CASE ~ Overflows(A, B, l)
  <2>1. Connected(A, B, V, l) = J
    BY <1>5 DEF Connected
  <2> QED BY <1>2, <1>4, <1>5, <2>1
<1>6. CASE Overflows(A, B, l)
  <2>1. V[n] \in Int /\ IsTrue(J, V, V[n])
    BY <1>2, <1>3 DEF GoodList, IsTrue
  <2>2. Connected(A, B, V, l) = Selected(J, V, m)
    BY <1>6 DEF Connected
  <2> DEFINE K == getNeighborsByHeuristic2(V, V[n], DOMAIN J, m, Alpha)
  <2>3. Selected(J, V, m) = [c \in K |-> J[c]]
    BY <1>1, <1>3, <2>1, SelectedFacts
  <2>4. Memory!Connect(V, l, n, C, O) = K
    BY <1>2, <1>4, <1>6
  <2> HIDE DEF K
  <2> QED BY <2>2, <2>3, <2>4
<1> QED BY <1>5, <1>6

\* The same of the merged index
LEMMA SameConnected ==
  ASSUME InputsOK, NEW l \in Levels(index2), NEW n \in DOMAIN data, NEW A, NEW B,
         GoodList(data, Tops, n, l, A), GoodList(data, Tops, n, l, B)
  PROVE  DOMAIN Connected(A, B, data, l) = Memory!Connect(data, l, n, DOMAIN A, DOMAIN B)
<1> PICK N, V, T : N = off + index2.count /\ V = data /\ T = Tops
  OBVIOUS
<1>1. /\ N \in Nat /\ V \in [0 .. N - 1 -> Int] /\ n \in 0 .. N - 1 /\ l \in Nat
  <2>1. l \in Nat
    BY DEF Levels, InputsOK, WellFormed
  <2> HIDE DEF data, off
  <2> QED BY <2>1, MergedFacts
<1>2. GoodList(V, T, n, l, A) /\ GoodList(V, T, n, l, B)
  OBVIOUS
<1>3. DOMAIN Connected(A, B, V, l) = Memory!Connect(V, l, n, DOMAIN A, DOMAIN B)
  BY <1>1, <1>2, ConnectedMembers
<1> QED BY <1>3

\* The nearest element is the nearest under its new id as well.
LEMMA NearestShifted ==
  ASSUME NEW V, NEW U, NEW q, NEW S, NEW o \in Int, Comparable(V, q, S), IsFiniteSet(S), S # {},
         \A j \in S : U[j + o] = V[j], NEW R, R = Shift(S, o)
  PROVE  Nearest(U, q, R) = Nearest(V, q, S) + o
<1>1. S \subseteq Int /\ q \in Int /\ \A j \in S : V[j] \in Int
  BY DEF Comparable
<1>2. /\ \A x : x \in R <=> x \in Int /\ x - o \in S
      /\ IsFiniteSet(R) /\ Cardinality(R) = Cardinality(S)
  BY <1>1, ShiftFacts
<1>3. Cardinality(S) \in Nat \ {0} /\ 1 \in 1 .. Cardinality(S) /\ 1 \in 1 .. Cardinality(R)
  <2>1. Cardinality(S) \in Nat /\ Cardinality(S) # 0
    BY FS_CardinalityType, FS_EmptySet
  <2> QED BY <1>2, <2>1
<1>4. Comparable(U, q, R)
  BY <1>1, <1>2 DEF Comparable
<1> PICK s, r : s = Nearest(V, q, S) /\ r = Nearest(U, q, R)
  OBVIOUS
<1>5. s \in S /\ Cardinality(Ahead(V, q, S, s)) = 0
  BY <1>3, KthFacts DEF Nearest
<1>6. r \in R /\ Cardinality(Ahead(U, q, R, r)) = 0
  BY <1>2, <1>3, <1>4, KthFacts DEF Nearest
<1>7. r \in Int /\ r - o \in S /\ (r - o) + o = r
  BY <1>2, <1>6
<1>8. Ahead(V, q, S, r - o) = {}
  <2> SUFFICES ASSUME NEW c \in S, Closer(V, q, c, r - o) PROVE FALSE
    BY DEF Ahead
  <2>1. c + o \in R /\ c \in Int
    <3>1. c \in Int /\ c + o \in Int /\ (c + o) - o = c
      BY <1>1
    <3> QED BY <1>2, <3>1
  <2>2. Closer(U, q, c + o, r)
    <3>1. U[c + o] = V[c] /\ U[r] = V[r - o]
      BY <1>7
    <3>2. c > r - o => c + o > r
      BY <1>7, <2>1
    <3> QED BY <3>1, <3>2 DEF Closer
  <2>3. Ahead(U, q, R, r) # {}
    BY <2>1, <2>2 DEF Ahead
  <2>4. IsFiniteSet(Ahead(U, q, R, r))
    BY <1>2, FS_Subset DEF Ahead
  <2> QED BY <1>6, <2>3, <2>4, FS_EmptySet
<1>9. Cardinality(Ahead(V, q, S, r - o)) = 0
  BY <1>8, FS_EmptySet
<1>10. r - o = s
  BY <1>5, <1>7, <1>9, AheadFacts
<1> QED BY <1>7, <1>10

-------------------------------------------------------------------------------
(* The steps that both merges take keep it so *)

\* The two inputs of a merge on one of its levels, which leaves out no level,
\* with the file and the entry points typed
AtLevel ==
  /\ InputsOK /\ Mergeable(index1, index2)
  /\ level \in Levels(index2) /\ level \in Nat /\ b \in Nat
  /\ file \in [Levels(index2) -> [DOMAIN data -> AnySlot]]
  /\ ep \in [Ids(index1) -> {NoEntry} \cup Layer(index2, level)]

\* What a step that only reads or starts something leaves alone
Reading == UNCHANGED <<index1, index2, level, file, ep, cands>>

\* What a step of a merged level has to show
LEMMA SameAfterStep ==
  ASSUME UNCHANGED <<index1, index2, level>>,
         \A n \in Ids(index1) :
           /\ Processed(n)' /\ level > 0 => Start(index2, ep'[n]) = Begin(index1, index2, level - 1, n)
           /\ ~ Processed(n)' => Start(index2, ep'[n]) = Begin(index1, index2, level, n),
         \A j \in Ids(index2) :
           DOMAIN cands'[j] = {n \in Layer(index1, level) :
                                 Processed(n)' /\ j \in MemoryTop(index1, index2, level, n)},
         \A l \in Levels(index2), n \in Ids(index1) :
           n \notin Layer(index1, l) \/ level < l \/ (level = l /\ Processed(n)')
             => DOMAIN file'[l][n].list = MergedInMemory(index1, index2)[l][n],
         \A l \in Levels(index2), j \in Ids(index2) :
           j \notin Layer(index2, l) \/ level < l
             \/ (level = l /\ pc' \in {"batch2", "backward"} /\ Rank(j) < Position2')
             => DOMAIN file'[l][j + off].list = MergedInMemory(index1, index2)[l][j + off]
  PROVE  SameSoFar'
<1>1. EntriesSame'
  BY DEF EntriesSame
<1>2. CandidatesSame'
  BY DEF CandidatesSame
<1>3. FileSame'
  <2>1. off' = off
    BY SameInputs
  <2>2. \A j : Behind(j)' <=> pc' \in {"batch2", "backward"} /\ Rank(j) < Position2'
    BY DEF Behind, Rank
  <2>3. ASSUME NEW l \in Levels(index2), NEW n \in Ids(index1),
               n \notin Layer(index1, l) \/ level < l \/ (level = l /\ Processed(n)')
        PROVE  SameList(l, n)'
    BY <2>3 DEF SameList
  <2>4. ASSUME NEW l \in Levels(index2), NEW j \in Ids(index2),
               j \notin Layer(index2, l) \/ level < l \/ (level = l /\ Behind(j)')
        PROVE  SameList(l, j + off)'
    <3> DOMAIN file'[l][j + off].list = MergedInMemory(index1, index2)[l][j + off]
      BY <2>2, <2>4
    <3> HIDE DEF off
    <3> QED BY <2>1 DEF SameList
  <2> HIDE DEF off
  <2> QED BY <2>3, <2>4 DEF FileSame
<1> QED BY <1>1, <1>2, <1>3 DEF SameSoFar

\* A step that writes and finds nothing, and gives nobody a turn
LEMMA SameAfterReading ==
  ASSUME AtLevel, SameSoFar, Reading,
         pc \in {"batch1", "forward", "batch2", "backward"},
         \A n \in Ids(index1) : Processed(n)' <=> Processed(n),
         \A j \in Layer(index2, level) :
           pc' \in {"batch2", "backward"} /\ Rank(j) < Position2' => Behind(j)
  PROVE  SameSoFar'
<1> USE DEF Reading
<1>1. EntriesSame /\ CandidatesSame /\ FileSame
  BY DEF SameSoFar
<1>2. level \in Nat
  BY DEF AtLevel
<1>3. \A n \in Ids(index1) :
        /\ Processed(n)' /\ level > 0 => Start(index2, ep'[n]) = Begin(index1, index2, level - 1, n)
        /\ ~ Processed(n)' => Start(index2, ep'[n]) = Begin(index1, index2, level, n)
  BY <1>1, <1>2 DEF EntriesSame
<1>4. ASSUME NEW j \in Ids(index2)
      PROVE  DOMAIN cands'[j] = {n \in Layer(index1, level) :
                                   Processed(n)' /\ j \in MemoryTop(index1, index2, level, n)}
  BY <1>1 DEF CandidatesSame, Layer
<1>5. ASSUME NEW l \in Levels(index2), NEW n \in Ids(index1),
             n \notin Layer(index1, l) \/ level < l \/ (level = l /\ Processed(n)')
      PROVE  DOMAIN file'[l][n].list = MergedInMemory(index1, index2)[l][n]
  BY <1>1, <1>5 DEF FileSame, SameList
<1>6. ASSUME NEW l \in Levels(index2), NEW j \in Ids(index2),
             j \notin Layer(index2, l) \/ level < l
               \/ (level = l /\ pc' \in {"batch2", "backward"} /\ Rank(j) < Position2')
      PROVE  DOMAIN file'[l][j + off].list = MergedInMemory(index1, index2)[l][j + off]
  <2>1. j \notin Layer(index2, l) \/ level < l \/ (level = l /\ Behind(j))
    BY <1>6
  <2> QED BY <1>1, <2>1 DEF FileSame, SameList
<1> QED BY <1>3, <1>4, <1>5, <1>6, SameAfterStep

LEMMA LoadingBatch1 ==
  ASSUME AtLevel, SameSoFar, Reading, pc = "batch1", pc' = "forward", i' = b
  PROVE  SameSoFar'
<1>1. \A n \in Ids(index1) : Processed(n)' <=> Processed(n)
  BY DEF Processed
<1>2. \A j : ~ (pc' \in {"batch2", "backward"})
  OBVIOUS
<1> QED BY <1>1, <1>2, SameAfterReading

\* The last element of a batch is its last position.
LEMMA EndingBatch1 ==
  ASSUME AtLevel, SameSoFar, Reading, pc = "forward", pc' = "batch1", NEW size \in Nat \ {0},
         b' = b + size, i \in b .. Lower(b + size, index1.count), i \notin Window(size, index1.count)
  PROVE  SameSoFar'
<1>1. index1.count \in Nat /\ b \in Nat
  BY DEF AtLevel, InputsOK, WellFormed
<1>2. i = Lower(b + size, index1.count)
  BY <1>1, WindowFacts
<1>3. \A n \in Ids(index1) : Processed(n)' <=> Processed(n)
  <2> SUFFICES ASSUME NEW n \in Ids(index1) PROVE n < b + size <=> n < i
    BY DEF Processed
  <2> QED BY <1>1, <1>2 DEF Lower, Ids
<1> QED BY <1>3, SameAfterReading

\* All searches have been made when the last batch has had its turn.
LEMMA TurningBack ==
  ASSUME AtLevel, SameSoFar, Reading, pc = "batch1", b >= index1.count, pc' = "batch2", b' = 0
  PROVE  SameSoFar'
<1>1. index1.count \in Nat /\ b \in Nat
  BY DEF AtLevel, InputsOK, WellFormed
<1>2. \A n \in Ids(index1) : Processed(n)' <=> Processed(n)
  BY <1>1 DEF Processed, Ids
<1>3. \A j \in Layer(index2, level) : ~ Rank(j) < Position2'
  <2> SUFFICES ASSUME NEW j \in Layer(index2, level) PROVE ~ Rank(j) < 0
    BY DEF Position2
  <2>1. Rank(j) \in Nat
    BY RankType DEF AtLevel
  <2> QED BY <2>1
<1> QED BY <1>2, <1>3, SameAfterReading

LEMMA LoadingBatch2 ==
  ASSUME AtLevel, SameSoFar, Reading, pc = "batch2", pc' = "backward", i' = b
  PROVE  SameSoFar'
<1>1. \A n \in Ids(index1) : Processed(n)' <=> Processed(n)
  BY DEF Processed
<1>2. \A j \in Layer(index2, level) : Rank(j) < Position2' => Behind(j)
  BY DEF Position2, Behind
<1> QED BY <1>1, <1>2, SameAfterReading

LEMMA EndingBatch2 ==
  ASSUME AtLevel, SameSoFar, Reading, pc = "backward", pc' = "batch2", NEW size \in Nat \ {0},
         b' = b + size, i \in b .. Lower(b + size, Size2), i \notin Window(size, Size2)
  PROVE  SameSoFar'
<1>1. \A n \in Ids(index1) : Processed(n)' <=> Processed(n)
  BY DEF Processed
<1>2. ASSUME NEW j \in Layer(index2, level), Rank(j) < Position2' PROVE Behind(j)
  <2>1. Rank(j) \in Nat /\ Rank(j) < Size2 /\ Size2 \in Nat /\ b \in Nat
    BY RankType DEF AtLevel
  <2>2. i = Lower(b + size, Size2)
    BY <2>1, WindowFacts
  <2>3. Rank(j) < b + size
    BY <1>2 DEF Position2
  <2>4. Rank(j) < i
    BY <2>1, <2>2, <2>3 DEF Lower
  <2> QED BY <2>4 DEF Behind, Position2
<1> QED BY <1>1, <1>2, SameAfterReading

\* A level begins without candidates.
LEMMA StartingLevel ==
  ASSUME AtLevel, SameSoFar, pc = "level", pc' = "batch1", b' = 0,
         cands' = [n \in Ids(index2) |-> <<>>], UNCHANGED <<index1, index2, file, level, ep>>
  PROVE  SameSoFar'
<1>1. EntriesSame /\ FileSame /\ level \in Nat
  BY DEF AtLevel, SameSoFar
<1>2. \A n \in Ids(index1) : ~ Processed(n)' /\ ~ Processed(n)
  BY DEF Processed, Ids
<1>3. \A n \in Ids(index1) : Start(index2, ep'[n]) = Begin(index1, index2, level, n)
  BY <1>1, <1>2 DEF EntriesSame
<1>4. ASSUME NEW j \in Ids(index2)
      PROVE  DOMAIN cands'[j] = {n \in Layer(index1, level) :
                                   Processed(n)' /\ j \in MemoryTop(index1, index2, level, n)}
  <2>1. cands'[j] = <<>>
    OBVIOUS
  <2> QED BY <1>2, <2>1 DEF Layer
<1>5. \A l \in Levels(index2), n \in Ids(index1) :
        n \notin Layer(index1, l) \/ level < l \/ (level = l /\ Processed(n)')
          => DOMAIN file'[l][n].list = MergedInMemory(index1, index2)[l][n]
  BY <1>1, <1>2 DEF FileSame, SameList
<1>6. \A l \in Levels(index2), j \in Ids(index2) :
        j \notin Layer(index2, l) \/ level < l
          \/ (level = l /\ pc' \in {"batch2", "backward"} /\ Rank(j) < Position2')
          => DOMAIN file'[l][j + off].list = MergedInMemory(index1, index2)[l][j + off]
  BY <1>1 DEF FileSame, SameList
<1> QED BY <1>2, <1>3, <1>4, <1>5, <1>6, SameAfterStep

\* On the next level down all elements are to have their turn again.
LEMMA EndingLevel ==
  ASSUME AtLevel, SameSoFar, pc = "batch2", b >= Size2, level' = level - 1, pc' \in {"level", "done"},
         UNCHANGED <<index1, index2, file, b, i, ep, cands>>
  PROVE  SameSoFar'
<1>1. EntriesSame /\ FileSame /\ level \in Nat /\ InputsOK /\ level \in Levels(index2) /\ b \in Nat
  BY DEF AtLevel, SameSoFar
<1>2. \A n : Processed(n) /\ ~ Processed(n)'
  BY DEF Processed
<1>3. EntriesSame'
  <2> SUFFICES ASSUME level > 0, NEW n \in Ids(index1)
               PROVE  Start(index2, ep[n]) = Begin(index1, index2, level - 1, n)
    BY <1>1, <1>2 DEF EntriesSame
  <2> QED BY <1>1, <1>2 DEF EntriesSame
<1>4. CandidatesSame'
  BY DEF CandidatesSame
<1>5. ASSUME NEW l \in Levels(index2) PROVE l \in Nat /\ (level - 1 < l <=> level < l \/ level = l)
  BY <1>1 DEF Levels, InputsOK, WellFormed
<1>6. ASSUME NEW l \in Levels(index2), NEW n \in Ids(index1),
             n \notin Layer(index1, l) \/ level' < l
      PROVE  DOMAIN file[l][n].list = MergedInMemory(index1, index2)[l][n]
  <2>1. n \notin Layer(index1, l) \/ level < l \/ (level = l /\ Processed(n))
    BY <1>2, <1>5, <1>6
  <2> QED BY <1>1, <2>1 DEF FileSame, SameList
<1>7. ASSUME NEW l \in Levels(index2), NEW j \in Ids(index2),
             j \notin Layer(index2, l) \/ level' < l
      PROVE  DOMAIN file[l][j + off].list = MergedInMemory(index1, index2)[l][j + off]
  <2>1. j \in Layer(index2, level) => Behind(j)
    <3>1. j \in Layer(index2, level) => Rank(j) \in Nat /\ Rank(j) < Size2 /\ Size2 \in Nat
      BY <1>1, RankType
    <3> QED BY <1>1, <3>1 DEF Behind, Position2
  <2>2. j \notin Layer(index2, l) \/ level < l \/ (level = l /\ Behind(j))
    BY <1>5, <1>7, <2>1
  <2> QED BY <1>1, <2>2 DEF FileSame, SameList
<1>8. FileSame'
  <2>1. off' = off /\ \A j : ~ Behind(j)'
    BY SameInputs DEF Behind
  <2>2. ASSUME NEW l \in Levels(index2), NEW n \in Ids(index1), n \notin Layer(index1, l) \/ level' < l
        PROVE  SameList(l, n)'
    BY <1>6, <2>2 DEF SameList
  <2>3. ASSUME NEW l \in Levels(index2), NEW j \in Ids(index2), j \notin Layer(index2, l) \/ level' < l
        PROVE  SameList(l, j + off)'
    <3> DOMAIN file[l][j + off].list = MergedInMemory(index1, index2)[l][j + off]
      BY <1>7, <2>3
    <3> HIDE DEF off
    <3> QED BY <2>1 DEF SameList
  <2> HIDE DEF off
  <2> QED BY <1>2, <2>1, <2>2, <2>3 DEF FileSame
<1> QED BY <1>3, <1>4, <1>8 DEF SameSoFar

\* An element that is not on the level goes on with its descent.
LEMMA PassingBy ==
  ASSUME AtLevel, SameSoFar, pc = "forward", i \in Ids(index1), index1.element_levels_[i] < level,
         ep' = [ep EXCEPT ![i] = NextEntry(index2, index1.data[i], ep[i], level)], i' = i + 1,
         UNCHANGED <<index1, index2, file, pc, level, b, cands>>
  PROVE  SameSoFar'
<1>1. /\ InputsOK /\ level \in Levels(index2) /\ level \in Nat /\ Mergeable(index1, index2)
      /\ EntriesSame /\ CandidatesSame /\ FileSame
  BY DEF AtLevel, SameSoFar
<1>2. /\ i \in Nat /\ index1.data[i] \in Int /\ ep[i] \in {NoEntry} \cup Layer(index2, level)
  <2>1. ep[i] \in {NoEntry} \cup Layer(index2, level)
    BY DEF AtLevel
  <2>2. index1.data[i] \in Int /\ index1.count \in Nat
    BY <1>1 DEF InputsOK, WellFormed
  <2> QED BY <2>1, <2>2 DEF Ids
<1>3. index1.element_levels_ \in [Ids(index1) -> Nat] /\ \A k \in Ids(index2) : k # NoEntry
  BY <1>1, MergeableFacts
<1>4. i \in Ids(index1) \ Layer(index1, level)
  BY <1>1, <1>2, <1>3 DEF Layer
<1>5. \A n \in Ids(index1) :
        /\ Processed(n) <=> n < i
        /\ Processed(n)' <=> n < i \/ n = i
  BY <1>2 DEF Processed, Ids
<1> PICK e : e = NextEntry(index2, index1.data[i], ep[i], level)
  OBVIOUS
<1>6. e \in Layer(index2, level) /\ Start(index2, e) = e
  <2>1. e \in Layer(index2, level)
    BY <1>1, <1>2, NextEntryFacts DEF InputsOK
  <2> QED BY <1>3, <2>1 DEF Start, Layer
<1>7. e = Descend(index2, index1.data[i], Begin(index1, index2, level, i), level)
  <2>1. Start(index2, ep[i]) = Begin(index1, index2, level, i)
    BY <1>1, <1>2, <1>5 DEF EntriesSame
  <2> QED BY <2>1 DEF NextEntry
<1>8. level > 0 => Start(index2, e) = Begin(index1, index2, level - 1, i)
  <2> SUFFICES ASSUME level > 0 PROVE e = Begin(index1, index2, level - 1, i)
    BY <1>6
  <2>1. level \in 1 .. index2.maxlevel_
    BY <1>1 DEF Levels
  <2> QED BY <1>1, <1>4, <1>7, <2>1, BeginPassedBy
<1>9. ASSUME NEW n \in Ids(index1)
       PROVE  /\ Processed(n)' /\ level > 0 => Start(index2, ep'[n]) = Begin(index1, index2, level - 1, n)
              /\ ~ Processed(n)' => Start(index2, ep'[n]) = Begin(index1, index2, level, n)
  <2>1. ep'[n] = IF n = i THEN e ELSE ep[n]
    BY DEF AtLevel
  <2> QED BY <1>1, <1>5, <1>8, <2>1 DEF EntriesSame
<1>10. ASSUME NEW n \in Layer(index1, level) PROVE Processed(n)' <=> Processed(n)
  BY <1>4, <1>5 DEF Layer
<1>11. ASSUME NEW j \in Ids(index2)
       PROVE  DOMAIN cands'[j] = {n \in Layer(index1, level) :
                                    Processed(n)' /\ j \in MemoryTop(index1, index2, level, n)}
  BY <1>1, <1>10 DEF CandidatesSame
<1>12. ASSUME NEW l \in Levels(index2), NEW n \in Ids(index1),
              n \notin Layer(index1, l) \/ level < l \/ (level = l /\ Processed(n)')
       PROVE  DOMAIN file'[l][n].list = MergedInMemory(index1, index2)[l][n]
  <2>1. n \notin Layer(index1, l) \/ level < l \/ (level = l /\ Processed(n))
    BY <1>4, <1>5, <1>12
  <2> QED BY <1>1, <2>1 DEF FileSame, SameList
<1>13. \A l \in Levels(index2), j \in Ids(index2) :
         j \notin Layer(index2, l) \/ level < l
           \/ (level = l /\ pc' \in {"batch2", "backward"} /\ Rank(j) < Position2')
           => DOMAIN file'[l][j + off].list = MergedInMemory(index1, index2)[l][j + off]
  BY <1>1 DEF FileSame, SameList
<1> QED BY <1>9, <1>11, <1>12, <1>13, SameAfterStep

\* An element of index1 is searched for and gets its list.
ConnectsFirst(F, e, list) ==
  /\ pc = "forward" /\ i \in Layer(index1, level) /\ level \in Levels(index1)
  /\ DOMAIN cands = Ids(index2)
  /\ F = Found(index2, index1.data[i], ep[i], level)
  /\ e = Nearest(data, index1.data[i], Shift(DOMAIN F, off)) - off
  /\ DOMAIN list = Memory!Connect(data, level, i, Shift(DOMAIN F, off), index1.links[level][i])
  /\ ep' = [ep EXCEPT ![i] = e]
  /\ cands' = AddCandidates(cands, F, i)
  /\ file' = [file EXCEPT ![level][i] = Slot(list)]
  /\ i' = i + 1 /\ UNCHANGED <<index1, index2, pc, level, b>>

\* A write changes the members of one list.
LEMMA Rewritten ==
  ASSUME level \in Levels(index2), file \in [Levels(index2) -> [DOMAIN data -> AnySlot]],
         NEW n \in DOMAIN data, NEW list, file' = [file EXCEPT ![level][n] = Slot(list)]
  PROVE  /\ DOMAIN file'[level][n].list = DOMAIN list
         /\ \A l \in Levels(index2), m \in DOMAIN data : l # level \/ m # n => file'[l][m] = file[l][m]
<1>1. Slot(list).list = list
  BY DEF Slot
<1> HIDE DEF AnySlot, data
<1> QED BY <1>1

LEMMA Connecting1 ==
  ASSUME AtLevel, SameSoFar, NEW F, NEW e, NEW list, ConnectsFirst(F, e, list)
  PROVE  SameSoFar'
<1>1. /\ pc = "forward" /\ i' = i + 1 /\ UNCHANGED <<index1, index2, pc, level, b>>
      /\ ep' = [ep EXCEPT ![i] = e] /\ cands' = AddCandidates(cands, F, i)
      /\ file' = [file EXCEPT ![level][i] = Slot(list)] /\ DOMAIN cands = Ids(index2)
  BY DEF ConnectsFirst
<1>2. /\ InputsOK /\ level \in Levels(index2) /\ level \in Nat
      /\ Mergeable(index1, index2) /\ EntriesSame /\ CandidatesSame /\ FileSame
      /\ file \in [Levels(index2) -> [DOMAIN data -> AnySlot]]
  BY DEF AtLevel, SameSoFar
<1>3. /\ i \in Layer(index1, level) /\ level \in Levels(index1)
      /\ F = Found(index2, index1.data[i], ep[i], level)
      /\ e = Nearest(data, index1.data[i], Shift(DOMAIN F, off)) - off
      /\ DOMAIN list = Memory!Connect(data, level, i, Shift(DOMAIN F, off), index1.links[level][i])
  BY DEF ConnectsFirst
<1>4. /\ i \in Ids(index1) /\ i \in Nat /\ i \in DOMAIN data
      /\ index1.data[i] \in Int /\ ep[i] \in {NoEntry} \cup Layer(index2, level)
  <2>1. i \in Ids(index1)
    BY <1>3 DEF Layer
  <2>2. index1.data[i] \in Int /\ ep[i] \in {NoEntry} \cup Layer(index2, level)
    BY <1>2, <2>1 DEF AtLevel, InputsOK, WellFormed
  <2> QED BY <1>2, <2>1, <2>2, MergedFacts
<1>5. IsSearch(i, level, F)
  BY <1>2, <1>3, <1>4 DEF IsSearch
<1>6. /\ DOMAIN F \subseteq Layer(index2, level) /\ e \in Layer(index2, level)
  <2> PICK found : found = Moved(F, off)
    OBVIOUS
  <2>1. /\ DOMAIN F \subseteq Layer(index2, level) /\ DOMAIN found = Shift(DOMAIN F, off)
        /\ Nearest(data, index1.data[i], DOMAIN found) - off \in Layer(index2, level)
    BY <1>2, <1>5, SearchFacts
  <2> HIDE DEF data, off
  <2> QED BY <1>3, <2>1
<1>7. \A n \in Ids(index1) :
         /\ Processed(n) <=> n < i
         /\ Processed(n)' <=> n < i \/ n = i
  BY <1>1, <1>4 DEF Processed, Ids
<1> PICK top : top = MemoryTop(index1, index2, level, i)
  OBVIOUS
<1>8. Start(index2, ep[i]) = Begin(index1, index2, level, i)
  BY <1>2, <1>4, <1>7 DEF EntriesSame
<1>9. top = DOMAIN F
  BY <1>2, <1>3, <1>8, TopIsFound
<1>10. e \in Layer(index2, level) /\ Start(index2, e) = e
  <2>1. \A k \in Ids(index2) : k # NoEntry
    BY <1>2, MergeableFacts
  <2> QED BY <1>6, <2>1 DEF Start, Layer
<1>11. e = Nearest(index2.data, index1.data[i], top)
  <2> PICK V, U, q, o : V = index2.data /\ U = data /\ q = index1.data[i] /\ o = off
    OBVIOUS
  <2>1. IsFiniteSet(top) /\ top # {}
    <3> PICK a, l, ix : a = ep[i] /\ l = level /\ ix = index2
      OBVIOUS
    <3>1. /\ F = Found(ix, q, a, l) /\ q \in Int /\ WellFormed(ix, M) /\ l \in Levels(ix)
          /\ a \in {NoEntry} \cup Layer(ix, l)
      BY <1>2, <1>4, <1>3 DEF InputsOK
    <3>2. IsFiniteSet(DOMAIN F) /\ DOMAIN F # {}
      BY <3>1, FoundFacts
    <3> QED BY <1>9, <3>2
  <2>2. top \subseteq Ids(index2)
    BY <1>6, <1>9 DEF Layer
  <2>3. /\ o \in Int /\ \A j \in top : U[j + o] = V[j]
    <3> HIDE DEF data
    <3> QED BY <1>2, <2>2, MergedFacts
  <2>4. Comparable(V, q, top)
    BY <1>2, <1>4, <2>2, IndexFacts DEF InputsOK
  <2>5. Nearest(U, q, Shift(top, o)) = Nearest(V, q, top) + o
    BY <2>1, <2>3, <2>4, NearestShifted
  <2>6. Nearest(V, q, top) \in Int
    <3>1. Nearest(V, q, top) \in top
      BY <2>1, <2>4, NearestFacts
    <3> QED BY <2>2, <3>1 DEF Ids
  <2>7. e = Nearest(U, q, Shift(top, o)) - o
    <3> HIDE DEF data, off
    <3> QED BY <1>3, <1>9
  <2> QED BY <2>3, <2>5, <2>6, <2>7
<1>12. level > 0 => Start(index2, e) = Begin(index1, index2, level - 1, i)
  <2> SUFFICES ASSUME level > 0 PROVE e = Begin(index1, index2, level - 1, i)
    BY <1>10
  <2>1. level \in 1 .. index2.maxlevel_
    BY <1>2 DEF Levels
  <2>2. Begin(index1, index2, level - 1, i) = Nearest(index2.data, index1.data[i], MemoryTop(index1, index2, level, i))
    BY <1>2, <1>4, <1>3, <1>8, <2>1, BeginSearched
  <2> QED BY <1>11, <2>2
<1>13. ASSUME NEW n \in Ids(index1)
       PROVE  /\ Processed(n)' /\ level > 0 => Start(index2, ep'[n]) = Begin(index1, index2, level - 1, n)
              /\ ~ Processed(n)' => Start(index2, ep'[n]) = Begin(index1, index2, level, n)
  <2>1. ep'[n] = IF n = i THEN e ELSE ep[n]
    BY <1>1 DEF AtLevel
  <2> QED BY <1>2, <1>7, <1>12, <2>1 DEF EntriesSame
<1>14. ASSUME NEW j \in Ids(index2)
       PROVE  DOMAIN cands'[j] = {n \in Layer(index1, level) :
                                    Processed(n)' /\ j \in MemoryTop(index1, index2, level, n)}
  <2>1. DOMAIN cands[j] = {n \in Layer(index1, level) :
                             Processed(n) /\ j \in MemoryTop(index1, index2, level, n)}
    BY <1>1, <1>2 DEF CandidatesSame
  <2>2. cands'[j] = IF j \in DOMAIN F THEN Joined(cands[j], Candidate(i, F[j])) ELSE cands[j]
    <3>1. DOMAIN cands = Ids(index2)
      BY <1>1
    <3> QED BY <1>1, <1>6, <3>1 DEF AddCandidates, Candidate
  <2>3. DOMAIN cands'[j] = IF j \in DOMAIN F THEN DOMAIN cands[j] \cup {i} ELSE DOMAIN cands[j]
    BY <2>2 DEF Joined, Candidate
  <2>4. Layer(index1, level) \subseteq Ids(index1)
    BY DEF Layer
  <2> QED BY <1>4, <1>3, <1>7, <1>9, <2>1, <2>3, <2>4
<1>15. DOMAIN file'[level][i].list = MergedInMemory(index1, index2)[level][i]
  <2> PICK V, L, o : V = data /\ L = MergedInMemory(index1, index2)[level] /\ o = off
    OBVIOUS
  <2>1. DOMAIN file'[level][i].list = DOMAIN list
    BY <1>1, <1>2, <1>4, Rewritten
  <2>2. V = MergedData(index1, index2) /\ o = index1.count
    BY DEF data, off
  <2>3. L[i] = Memory!Connect(V, level, i, Shift(MemoryTop(index1, index2, level, i), o), index1.links[level][i])
    BY <1>2, <1>3, <2>2, MergedLists
  <2> HIDE DEF data, off
  <2> QED BY <1>3, <1>9, <2>1, <2>3
<1>16. \A l \in Levels(index2), m \in DOMAIN data : l # level \/ m # i => file'[l][m] = file[l][m]
  BY <1>1, <1>2, <1>4, Rewritten
<1>17. ASSUME NEW l \in Levels(index2), NEW n \in Ids(index1),
              n \notin Layer(index1, l) \/ level < l \/ (level = l /\ Processed(n)')
       PROVE  DOMAIN file'[l][n].list = MergedInMemory(index1, index2)[l][n]
  <2>1. CASE l = level /\ n = i
    BY <1>15, <2>1
  <2>2. CASE l # level \/ n # i
    <3>1. n \notin Layer(index1, l) \/ level < l \/ (level = l /\ Processed(n))
      BY <1>7, <1>17, <2>2
    <3>2. n \in DOMAIN data
      BY <1>2, MergedFacts
    <3> HIDE DEF data
    <3> QED BY <1>2, <1>16, <2>2, <3>1, <3>2, ZenonT(60) DEF FileSame, SameList
  <2> QED BY <2>1, <2>2
<1>18. ASSUME NEW l \in Levels(index2), NEW j \in Ids(index2),
              j \notin Layer(index2, l) \/ level < l
                \/ (level = l /\ pc' \in {"batch2", "backward"} /\ Rank(j) < Position2')
       PROVE  DOMAIN file'[l][j + off].list = MergedInMemory(index1, index2)[l][j + off]
  <2>1. j \notin Layer(index2, l) \/ level < l
    BY <1>1, <1>18
  <2>2. j + off \in DOMAIN data /\ j + off # i
    BY <1>2, <1>4, MergedFacts
  <2> HIDE DEF data, off
  <2> QED BY <1>2, <1>16, <2>1, <2>2, ZenonT(60) DEF FileSame, SameList
<1> QED BY <1>1, <1>13, <1>14, <1>17, <1>18, SameAfterStep

\* An element of index2 gets its list; its old one stays where no search found
\* the element.
ConnectsSecond(n, list) ==
  /\ pc = "backward" /\ n \in Layer(index2, level) /\ i \in Nat /\ Rank(n) = i
  /\ DOMAIN list = Memory!ConnectBackward(data, level, n + off, DOMAIN cands[n],
                                          Shift(index2.links[level][n], off))
  /\ file' = [file EXCEPT ![level][n + off] = Slot(list)]
  /\ i' = i + 1 /\ UNCHANGED <<index1, index2, pc, level, b, ep, cands>>

LEMMA Connecting2 ==
  ASSUME AtLevel, SameSoFar, NEW n, NEW list, ConnectsSecond(n, list),
         \A j \in Layer(index2, level) : Rank(j) = i => j = n
  PROVE  SameSoFar'
<1>1. /\ pc = "backward" /\ i' = i + 1 /\ UNCHANGED <<index1, index2, pc, level, b, ep, cands>>
      /\ file' = [file EXCEPT ![level][n + off] = Slot(list)]
  BY DEF ConnectsSecond
<1>2. /\ InputsOK /\ level \in Levels(index2) /\ level \in Nat
      /\ Mergeable(index1, index2) /\ EntriesSame /\ CandidatesSame /\ FileSame
      /\ file \in [Levels(index2) -> [DOMAIN data -> AnySlot]]
  BY DEF AtLevel, SameSoFar
<1>3. /\ n \in Layer(index2, level) /\ n \in Ids(index2) /\ i \in Nat /\ Rank(n) = i
      /\ DOMAIN list = Memory!ConnectBackward(data, level, n + off, DOMAIN cands[n],
                                              Shift(index2.links[level][n], off))
  BY DEF ConnectsSecond, Layer
<1>4. n + off \in DOMAIN data
  BY <1>2, <1>3, MergedFacts
<1>5. \A k \in Ids(index1) : Processed(k) /\ Processed(k)'
  BY <1>1 DEF Processed
<1>6. DOMAIN cands[n] = Finders(index1, index2, level, n)
  <2>1. DOMAIN cands[n] = {k \in Layer(index1, level) : Processed(k) /\ n \in MemoryTop(index1, index2, level, k)}
    BY <1>1, <1>2, <1>3 DEF CandidatesSame
  <2> QED BY <1>5, <2>1 DEF Finders, Layer
<1>7. DOMAIN file'[level][n + off].list = MergedInMemory(index1, index2)[level][n + off]
  <2> PICK V, L, o : V = data /\ L = MergedInMemory(index1, index2)[level] /\ o = off
    OBVIOUS
  <2>1. DOMAIN file'[level][n + off].list = DOMAIN list
    <3> PICK at : at = n + off
      OBVIOUS
    <3>1. at \in DOMAIN data /\ file' = [file EXCEPT ![level][at] = Slot(list)]
      BY <1>1, <1>4
    <3> HIDE DEF off
    <3> QED BY <1>2, <3>1, Rewritten
  <2>2. V = MergedData(index1, index2) /\ o = index1.count
    BY DEF data, off
  <2>3. L[n + o] = Memory!ConnectBackward(V, level, n + o, Finders(index1, index2, level, n),
                                          Shift(index2.links[level][n], o))
    BY <1>2, <1>3, <2>2, MergedLists
  <2> HIDE DEF data, off
  <2> QED BY <1>3, <1>6, <2>1, <2>3
<1>8. \A l \in Levels(index2), m \in DOMAIN data : l # level \/ m # n + off => file'[l][m] = file[l][m]
  <2> PICK at : at = n + off
    OBVIOUS
  <2>1. at \in DOMAIN data /\ file' = [file EXCEPT ![level][at] = Slot(list)]
    BY <1>1, <1>4
  <2>2. \A l \in Levels(index2), m \in DOMAIN data : l # level \/ m # at => file'[l][m] = file[l][m]
    BY <1>2, <2>1, Rewritten
  <2> QED BY <2>2
<1>9. ASSUME NEW k \in Ids(index1)
      PROVE  /\ Processed(k)' /\ level > 0 => Start(index2, ep'[k]) = Begin(index1, index2, level - 1, k)
             /\ ~ Processed(k)' => Start(index2, ep'[k]) = Begin(index1, index2, level, k)
  BY <1>1, <1>2, <1>5 DEF EntriesSame
<1>10. ASSUME NEW j \in Ids(index2)
       PROVE  DOMAIN cands'[j] = {k \in Layer(index1, level) :
                                    Processed(k)' /\ j \in MemoryTop(index1, index2, level, k)}
  BY <1>1, <1>2, <1>5 DEF CandidatesSame, Layer
<1>11. ASSUME NEW l \in Levels(index2), NEW k \in Ids(index1),
              k \notin Layer(index1, l) \/ level < l \/ (level = l /\ Processed(k)')
       PROVE  DOMAIN file'[l][k].list = MergedInMemory(index1, index2)[l][k]
  <2>1. k \in DOMAIN data /\ k # n + off
    BY <1>2, <1>3, MergedFacts
  <2>2. DOMAIN file[l][k].list = MergedInMemory(index1, index2)[l][k]
    BY <1>2, <1>5, <1>11 DEF FileSame, SameList
  <2> HIDE DEF data, off
  <2> QED BY <1>8, <2>1, <2>2
<1>12. ASSUME NEW l \in Levels(index2), NEW j \in Ids(index2),
              j \notin Layer(index2, l) \/ level < l
                \/ (level = l /\ pc' \in {"batch2", "backward"} /\ Rank(j) < Position2')
       PROVE  DOMAIN file'[l][j + off].list = MergedInMemory(index1, index2)[l][j + off]
  <2>1. CASE l = level /\ j = n
    BY <1>7, <2>1
  <2>2. CASE l # level \/ j # n
    <3>1. j \notin Layer(index2, l) \/ level < l \/ (level = l /\ Behind(j))
      <4> SUFFICES ASSUME j \in Layer(index2, level), l = level, Rank(j) < i + 1, j # n
                   PROVE  Rank(j) < i
        BY <1>1, <1>12, <2>2 DEF Behind, Position2
      <4>1. Rank(j) \in Nat /\ Rank(j) # i
        BY <1>2, RankType
      <4> QED BY <1>3, <4>1
    <3>2. DOMAIN file[l][j + off].list = MergedInMemory(index1, index2)[l][j + off]
      BY <1>2, <3>1 DEF FileSame, SameList
    <3>3. j + off \in DOMAIN data /\ (l # level \/ j + off # n + off)
      <4> (j + off) - off = j /\ (n + off) - off = n /\ j + off \in DOMAIN data
        BY <1>2, <1>3, MergedFacts
      <4> QED BY <2>2
    <3> HIDE DEF data, off
    <3> QED BY <1>8, <3>2, <3>3
  <2> QED BY <2>1, <2>2
<1> QED BY <1>1, <1>9, <1>10, <1>11, <1>12, SameAfterStep

\* A step that leaves everything as it is
LEMMA StandingStill ==
  ASSUME SameSoFar, UNCHANGED <<index1, index2, file, pc, level, b, i, ep, cands>>
  PROVE  SameSoFar'
<1>1. EntriesSame' <=> EntriesSame
  BY DEF EntriesSame, Processed
<1>2. CandidatesSame' <=> CandidatesSame
  BY DEF CandidatesSame, Processed
<1>3. FileSame' <=> FileSame
  BY SameInputs DEF FileSame, SameList, Processed, Behind, Rank, Position2
<1> QED BY <1>1, <1>2, <1>3 DEF SameSoFar

\* At the end every list is the one in memory.
LEMMA SameAtTheEnd ==
  ASSUME InputsOK, SameSoFar, level = -1
  PROVE  \A l \in Levels(index2), n \in DOMAIN data :
           DOMAIN file[l][n].list = MergedInMemory(index1, index2)[l][n]
<1> SUFFICES ASSUME NEW l \in Levels(index2), NEW n \in DOMAIN data
             PROVE  DOMAIN file[l][n].list = MergedInMemory(index1, index2)[l][n]
  OBVIOUS
<1>1. FileSame /\ level < l
  BY DEF SameSoFar, Levels, InputsOK, WellFormed
<1>2. n \in Ids(index1) \/ (n - off \in Ids(index2) /\ (n - off) + off = n)
  <2>1. n \in Int /\ off \in Int /\ (n \in Ids(index1) \/ n - off \in Ids(index2))
    BY MergedFacts
  <2> QED BY <2>1
<1> HIDE DEF off, data
<1> QED BY <1>1, <1>2 DEF FileSame, SameList

-------------------------------------------------------------------------------
(* Recency lists *)

\* A key that is moved to the front or entered there leaves the others in their
\* order: every key that was named is still named once, and so is this one.
LEMMA ToFrontFacts ==
  ASSUME NEW S, NEW s \in Seq(S), NEW k \in S,
         \A x, y \in DOMAIN s : s[x] = s[y] => x = y
  PROVE  /\ ToFront(s, k) \in Seq(S)
         /\ Len(ToFront(s, k)) = IF k \in Named(s) THEN Len(s) ELSE Len(s) + 1
         /\ Named(ToFront(s, k)) = Named(s) \cup {k}
         /\ \A x, y \in DOMAIN ToFront(s, k) : ToFront(s, k)[x] = ToFront(s, k)[y] => x = y
<1> DEFINE n == Len(s)
           at == Place(s, k)
           m == IF k \in Named(s) THEN n ELSE n + 1
           t == ToFront(s, k)
           old(x) == IF x <= at THEN x - 1 ELSE x
           new(x) == IF x < at THEN x + 1 ELSE x
<1>1. n \in Nat /\ DOMAIN s = 1 .. n /\ \A x \in 1 .. n : s[x] \in S
  OBVIOUS
<1>2. /\ m \in Nat /\ at \in 1 .. m /\ DOMAIN s \cup {at} = 1 .. m
      /\ \A x \in 1 .. n : s[x] = k => x = at
      /\ \A x \in 1 .. n : x # at <=> s[x] # k
      /\ m = n \/ (m = n + 1 /\ at = m)
  <2>1. CASE k \in Named(s)
    <3>1. \E x \in DOMAIN s : s[x] = k
      BY <2>1 DEF Named
    <3>2. at \in DOMAIN s /\ s[at] = k
      BY <2>1, <3>1 DEF Place
    <3> QED BY <1>1, <2>1, <3>2
  <2>2. CASE k \notin Named(s)
    <3>1. at = n + 1 /\ m = n + 1 /\ \A x \in 1 .. n : s[x] # k
      BY <1>1, <2>2 DEF Place, Named
    <3> HIDE DEF at, m
    <3> QED BY <1>1, <3>1
  <2> QED BY <2>1, <2>2
<1>3. t = [x \in 1 .. m |-> IF x = 1 THEN k ELSE IF x <= at THEN s[x - 1] ELSE s[x]]
  BY <1>2 DEF ToFront
<1>4. Named(s) = {s[x] : x \in 1 .. n}
  BY <1>1 DEF Named
<1> HIDE DEF n, at, m, t
<1>5. \A x \in 1 .. m : x # 1 => /\ old(x) \in 1 .. n /\ old(x) # at
                                 /\ t[x] = s[old(x)]
  BY <1>1, <1>2, <1>3
<1>6. \A x \in 1 .. n : x # at => new(x) \in 1 .. m /\ t[new(x)] = s[x]
  BY <1>1, <1>2, <1>3
<1>7. \A x, y \in 1 .. m : x # 1 /\ y # 1 /\ old(x) = old(y) => x = y
  BY <1>2
<1>8. DOMAIN t = 1 .. m /\ 1 \in 1 .. m /\ t[1] = k
  BY <1>2, <1>3
<1> HIDE DEF old, new
<1>9. t \in [1 .. m -> S]
  BY <1>1, <1>3, <1>5, <1>8
<1>10. t \in Seq(S) /\ Len(t) = m
  BY <1>2, <1>9
<1>11. Named(t) = Named(s) \cup {k}
  <2>1. \A x \in 1 .. m : t[x] \in Named(s) \cup {k}
    BY <1>4, <1>5, <1>8
  <2>2. \A x \in 1 .. n : \E y \in 1 .. m : t[y] = s[x]
    BY <1>1, <1>2, <1>6, <1>8
  <2> QED BY <1>4, <1>8, <2>1, <2>2 DEF Named
<1>12. \A x, y \in DOMAIN t : t[x] = t[y] => x = y
  <2> SUFFICES ASSUME NEW x \in 1 .. m, NEW y \in 1 .. m, t[x] = t[y] PROVE x = y
    BY <1>8
  <2>1. \A z \in 1 .. m : z # 1 => t[z] # k
    BY <1>2, <1>5
  <2>2. CASE x # 1 /\ y # 1
    BY <1>1, <1>5, <1>7, <2>2
  <2> QED BY <1>8, <2>1, <2>2
<1> QED BY <1>10, <1>11, <1>12 DEF m, n, t

\* A list without its oldest key names the others, once each, in their order.
LEMMA WithoutOldestFacts ==
  ASSUME NEW S, NEW s \in Seq(S), s # <<>>,
         \A x, y \in DOMAIN s : s[x] = s[y] => x = y
  PROVE  /\ Oldest(s) \in Named(s) /\ Oldest(s) \in S
         /\ WithoutOldest(s) \in Seq(S)
         /\ Len(WithoutOldest(s)) = Len(s) - 1
         /\ Named(WithoutOldest(s)) = Named(s) \ {Oldest(s)}
         /\ \A x, y \in DOMAIN WithoutOldest(s) :
              WithoutOldest(s)[x] = WithoutOldest(s)[y] => x = y
<1> DEFINE n == Len(s)
           t == WithoutOldest(s)
<1>1. n \in Nat /\ n # 0 /\ DOMAIN s = 1 .. n /\ \A x \in 1 .. n : s[x] \in S
  OBVIOUS
<1>2. t \in Seq(S) /\ Len(t) = n - 1 /\ DOMAIN t = 1 .. n - 1 /\ \A x \in 1 .. n - 1 : t[x] = s[x]
  BY <1>1 DEF WithoutOldest
<1>3. Oldest(s) = s[n] /\ n \in 1 .. n
  BY <1>1 DEF Oldest
<1> HIDE DEF n, t
<1>4. \A x \in 1 .. n : x # n <=> x \in 1 .. n - 1
  BY <1>1
<1>5. Named(t) = Named(s) \ {Oldest(s)}
  BY <1>1, <1>2, <1>3, <1>4 DEF Named
<1>6. \A x, y \in DOMAIN t : t[x] = t[y] => x = y
  BY <1>1, <1>2, <1>4
<1> QED BY <1>1, <1>2, <1>3, <1>5, <1>6 DEF Named, n, t

\* The length of a list without repetitions is the number of keys it names.
LEMMA NamedCount ==
  ASSUME NEW S, NEW s \in Seq(S),
         \A x, y \in DOMAIN s : s[x] = s[y] => x = y
  PROVE  IsFiniteSet(Named(s)) /\ Cardinality(Named(s)) = Len(s)
<1>1. Len(s) \in Nat /\ DOMAIN s = 1 .. Len(s)
  OBVIOUS
<1>2. s \in Bijection(1 .. Len(s), Named(s))
  BY <1>1 DEF Bijection, Injection, Surjection, IsInjective, Named
<1>3. ExistsBijection(1 .. Len(s), Named(s))
  BY <1>2 DEF ExistsBijection
<1> QED BY <1>1, <1>3, FS_NatBijection, FS_CountingElements
===============================================================================
