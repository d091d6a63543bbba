---------------------------- MODULE QueriesProofs ----------------------------
(***************************************************************************)
(* Proofs about concurrent queries: the lists of tags, what the threads'   *)
(* searches hold at every step, and what they answer.                      *)
(***************************************************************************)
EXTENDS Queries, HNSWAlgorithmsProofs, SequenceTheorems

(***************************************************************************)
(* Searches of an index i for x, the distances of whose elements from x    *)
(* all differ; E is ef, H the hidden elements                              *)
(***************************************************************************)

\* No two elements are equally far from x.
Distinct(i, x) == \A m, n \in Ids(i) : From(i, x, m) = From(i, x, n) => m = n

\* The last of top by distance
FarthestOf(i, x, top) == CHOOSE n \in top : \A m \in top : ~ Closer(i.data, x, n, m)

\* It is there, and nothing is farther.
LEMMA FarthestFacts ==
  ASSUME NEW i, WellFormed(i, M), NEW x \in Int, NEW top \in SUBSET Ids(i), top # {}
  PROVE  /\ FarthestOf(i, x, top) \in top
         /\ \A m \in top : From(i, x, m) <= From(i, x, FarthestOf(i, x, top))
<1> DEFINE N == Cardinality(top)
           f == KthClosest(i.data, x, top, N)
<1>1. IsFiniteSet(top) /\ Comparable(i.data, x, top) /\ N \in Nat /\ N # 0
  BY IndexFacts, FS_EmptySet, FS_CardinalityType
<1>2. f \in top /\ Cardinality(Ahead(i.data, x, top, f)) = N - 1
  BY <1>1, KthFacts, N \in 1 .. N
<1>3. Ahead(i.data, x, top, f) = top \ {f}
  <2>1. Ahead(i.data, x, top, f) \subseteq top \ {f}
    BY <1>1, <1>2, CloserIsOrder DEF Ahead
  <2>2. IsFiniteSet(top \ {f}) /\ Cardinality(top \ {f}) = N - 1
    BY <1>1, <1>2, FS_RemoveElement
  <2> QED BY <2>1, <2>2, <1>2, FS_Subset
<1>4. \A m \in top : ~ Closer(i.data, x, f, m)
  BY <1>1, <1>2, <1>3, CloserIsOrder DEF Ahead
<1>5. /\ FarthestOf(i, x, top) \in top
      /\ \A m \in top : ~ Closer(i.data, x, FarthestOf(i, x, top), m)
  <2> HIDE DEF f
  <2> QED BY <1>2, <1>4 DEF FarthestOf
<1>6. \A n \in top : From(i, x, n) \in Nat
  BY IndexFacts DEF From
<1> QED BY <1>5, <1>6 DEF Closer, From

\* Elements K of A that leave no room for the others are the closest of A.
LEMMA ClosestIsUnique ==
  ASSUME NEW i, WellFormed(i, M), NEW x \in Int, Distinct(i, x), NEW E \in Nat,
         NEW A \in SUBSET Ids(i), NEW K \in SUBSET A, Cardinality(K) <= E,
         \A a \in A \ K : NoRoomFor(i, x, E, K, a)
  PROVE  K = Closest(i.data, x, A, E)
<1>1. IsFiniteSet(A) /\ IsFiniteSet(K) /\ Cardinality(K) \in Nat
  BY IndexFacts, FS_CardinalityType
<1>2. \A n \in A : From(i, x, n) \in Nat
  BY IndexFacts DEF From
<1>3. ASSUME NEW c \in K PROVE Cardinality(Ahead(i.data, x, A, c)) < E
  <2>1. Ahead(i.data, x, A, c) \subseteq K \ {c}
    <3> SUFFICES ASSUME NEW d \in A, Closer(i.data, x, d, c) PROVE d \in K \ {c}
      BY DEF Ahead
    <3>1. From(i, x, d) <= From(i, x, c) /\ d # c
      BY <1>2, IndexFacts DEF Closer, From
    <3>2. From(i, x, d) < From(i, x, c)
      BY <3>1, <1>2 DEF Distinct
    <3> QED BY <3>1, <3>2, <1>2 DEF NoRoomFor
  <2>2. IsFiniteSet(K \ {c}) /\ Cardinality(K \ {c}) = Cardinality(K) - 1
    BY <1>1, FS_RemoveElement
  <2>3. /\ Cardinality(Ahead(i.data, x, A, c)) \in Nat
        /\ Cardinality(Ahead(i.data, x, A, c)) <= Cardinality(K \ {c})
    BY <2>1, <2>2, FS_Subset, FS_CardinalityType
  <2> QED BY <2>2, <2>3, <1>1
<1>4. ASSUME NEW c \in A \ K PROVE ~ Cardinality(Ahead(i.data, x, A, c)) < E
  <2>1. K \subseteq Ahead(i.data, x, A, c)
    <3> SUFFICES ASSUME NEW d \in K PROVE Closer(i.data, x, d, c)
      BY DEF Ahead
    <3>1. From(i, x, d) <= From(i, x, c) /\ d # c
      BY <1>4 DEF NoRoomFor
    <3> QED BY <3>1, <1>2 DEF Distinct, Closer, From
  <2>2. IsFiniteSet(Ahead(i.data, x, A, c))
    <3>1. Ahead(i.data, x, A, c) \subseteq A
      BY DEF Ahead
    <3> QED BY <3>1, <1>1, FS_Subset
  <2>3. Cardinality(K) <= Cardinality(Ahead(i.data, x, A, c))
    BY <2>1, <2>2, FS_Subset
  <2>4. Cardinality(Ahead(i.data, x, A, c)) \in Nat /\ Cardinality(K) = E
    BY <2>2, <1>4, FS_CardinalityType DEF NoRoomFor
  <2> QED BY <2>3, <2>4
<1> QED BY <1>3, <1>4 DEF Closest, Ahead

\* One more element, and without the farthest of all: there is still no room
\* for those there was none for before.
LEMMA InsertKeepsFull ==
  ASSUME NEW i, WellFormed(i, M), NEW x \in Int, NEW E \in Nat, NEW K \in SUBSET Ids(i),
         NEW n \in Ids(i) \ K, NEW F \in K \cup {n},
         \A k \in K \cup {n} : From(i, x, k) <= From(i, x, F),
         NEW a \in Ids(i), NoRoomFor(i, x, E, K, a)
  PROVE  NoRoomFor(i, x, E, (K \cup {n}) \ {F}, a)
<1> DEFINE R == (K \cup {n}) \ {F}
<1>1. Cardinality(R) = E
  <2>1. IsFiniteSet(K) /\ Cardinality(K) = E
    BY IndexFacts DEF NoRoomFor
  <2>2. IsFiniteSet(K \cup {n}) /\ Cardinality(K \cup {n}) = E + 1
    BY <2>1, FS_AddElement
  <2> QED BY <2>2, FS_RemoveElement, SMTT(30)
<1>2. \A k \in Ids(i) : From(i, x, k) \in Nat
  BY IndexFacts DEF From
<1>3. \A k \in K : From(i, x, k) <= From(i, x, a)
  BY DEF NoRoomFor
<1>4. n \in R => From(i, x, n) <= From(i, x, a)
  BY <1>2, <1>3
<1> QED BY <1>1, <1>3, <1>4 DEF NoRoomFor

\* Every beam of the pure search holds BeamInv, and one that stops is the last.
LEMMA BeamTrace ==
  ASSUME NEW i, WellFormed(i, M), NEW x \in Int, NEW start \in Ids(i), NEW E \in Nat \ {0},
         NEW H, NEW early, NEW f, f = BeamAfter(i, x, start, 0, E, H, early),
         NEW k \in 0 .. i.count
  PROVE  /\ f[0] = BeamStart(start, H)
         /\ BeamInv(i, x, start, 0, E, H, f[k])
         /\ BeamStops(i, x, E, early, f[k]) => Beam(i, x, start, 0, E, H, early) = f[k].top
         /\ ~ BeamStops(i, x, E, early, f[k]) =>
              k + 1 \in 0 .. i.count /\ f[k + 1] = BeamExpand(i, x, 0, E, H, f[k])
<1> DEFINE inv(r) == BeamInv(i, x, start, 0, E, H, r)
           stops(r) == BeamStops(i, x, E, early, r)
           S == {n \in Nat : n <= i.count => inv(f[n])}
           T == {n \in Nat : k + n <= i.count /\ stops(f[k]) => f[k + n] = f[k]}
<1>1. i.count \in Nat \ {0} /\ 0 \in 0 .. i.maxlevel_ /\ start \in OnLevel(i, 0)
  BY DEF WellFormed, OnLevel
<1>2. IsBeam(i, x, start, 0, E, H, early, f)
  BY <1>1, BeamLoop
<1>3. \A n \in Nat : n + 1 <= i.count => f[n + 1] = BeamTurn(i, x, 0, E, H, early, f[n])
  <2>1. \A n \in Nat : n + 1 <= i.count => n + 1 \in 1 .. i.count /\ (n + 1) - 1 = n
    BY <1>1
  <2> QED BY <1>2, <2>1 DEF IsBeam
<1>4. \A n \in Nat : n \in S
  <2>1. 0 \in S
    BY <1>1, <1>2, BeamBegins DEF IsBeam
  <2>2. ASSUME NEW n \in Nat, n \in S PROVE n + 1 \in S
    <3> SUFFICES ASSUME n + 1 <= i.count PROVE inv(f[n + 1])
      OBVIOUS
    <3>1. inv(f[n])
      BY <1>1, <2>2
    <3> QED BY <1>1, <1>3, <3>1, BeamTurns
  <2> HIDE DEF S
  <2> QED BY <2>1, <2>2, SetInduction
<1>5. \A n \in Nat : n \in T
  <2>1. 0 \in T
    OBVIOUS
  <2>2. ASSUME NEW n \in Nat, n \in T PROVE n + 1 \in T
    <3> SUFFICES ASSUME k + (n + 1) <= i.count, stops(f[k]) PROVE f[k + (n + 1)] = f[k]
      OBVIOUS
    <3>1. f[k + n] = f[k]
      BY <1>1, <2>2
    <3>2. f[(k + n) + 1] = BeamTurn(i, x, 0, E, H, early, f[k + n])
      BY <1>1, <1>3
    <3> QED BY <3>1, <3>2 DEF BeamTurn
  <2> HIDE DEF T
  <2> QED BY <2>1, <2>2, SetInduction
<1>6. inv(f[k])
  BY <1>1, <1>4
<1>7. stops(f[k]) => f[i.count] = f[k]
  <2>1. i.count - k \in Nat /\ k + (i.count - k) = i.count
    BY <1>1
  <2>2. i.count - k \in T
    <3> HIDE DEF T
    <3> QED BY <2>1, <1>5
  <2> HIDE DEF stops
  <2> QED BY <2>1, <2>2, <1>1
<1>8. Beam(i, x, start, 0, E, H, early) = f[i.count].top
  BY DEF Beam
<1>9. stops(f[i.count])
  BY <1>1, BeamEnds
<1>10. ASSUME ~ stops(f[k]) PROVE k + 1 \in 0 .. i.count /\ f[k + 1] = BeamExpand(i, x, 0, E, H, f[k])
  <2>1. k # i.count
    BY <1>9, <1>10
  <2> QED BY <2>1, <1>1, <1>3, <1>10 DEF BeamTurn
<1>11. f[0] = BeamStart(start, H)
  BY <1>2 DEF IsBeam
<1> QED BY <1>6, <1>7, <1>8, <1>10, <1>11

-------------------------------------------------------------------------------
(* One turn of the loop, neighbour by neighbour, beside the turn of the pure  *)
(* search: s is the beam of the pure search as the turn begins, V, C and top  *)
(* are what the code has marked, its candidates and its results.              *)

\* Neither a result nor closer than one while these are E
LeftOut(i, x, E, top, c) == c \notin top /\ NoRoomFor(i, x, E, top, c)

\* Between two turns.  The code has not taken some candidates of the pure
\* search, as results that came later on the same list left no room for them.
AtTurn(i, x, E, V, C, top, s) ==
  /\ V = s.visited /\ top = s.top /\ C \subseteq s.cand
  /\ \A c \in s.cand \ C : LeftOut(i, x, E, top, c)

\* What remains of top when it is cut to E elements
Kept(i, x, E, top) ==
  IF Cardinality(top) <= E THEN top ELSE top \ {FarthestOf(i, x, top)}

Current(i, x, s) == Nearest(i.data, x, s.cand)

\* The neighbours looked at so far
Seen(i, x, todo, s) == (i.links[0][Current(i, x, s)] \ todo) \ s.visited

\* The pure search takes them for candidates.
Wanted(i, x, E, todo, s) ==
  {c \in Seen(i, x, todo, s) : Cardinality(s.top) < E \/ BelowBound(i, x, s.top, c)}

\* Inside a turn: the results are the closest of the earlier ones and of the
\* wanted neighbours seen so far, but for one result too many.
InTurn(i, x, E, H, V, C, top, todo, s) ==
  LET all == s.top \cup (Wanted(i, x, E, todo, s) \ H)
      cand == (s.cand \ {Current(i, x, s)}) \cup Wanted(i, x, E, todo, s)
      kept == Kept(i, x, E, top)
  IN /\ s.cand # {}
     /\ todo \subseteq i.links[0][Current(i, x, s)]
     /\ V = s.visited \cup Seen(i, x, todo, s)
     /\ top \subseteq all /\ Cardinality(top) <= E + 1
     /\ \A a \in all \ kept : NoRoomFor(i, x, E, kept, a)
     /\ C \subseteq cand
     /\ \A c \in cand \ C : c \notin top /\ NoRoomFor(i, x, E, kept, c)

\* Of the beam only this is needed.
IsState(i, E, s) ==
  /\ s.cand \in SUBSET Ids(i) /\ s.visited \in SUBSET Ids(i) /\ s.top \in SUBSET s.visited
  /\ s.cand \subseteq s.visited /\ Cardinality(s.top) <= E
  /\ s = [cand |-> s.cand, visited |-> s.visited, top |-> s.top]

\* The code is inside a turn on an index i.
Turning(i, x, E, H, V, C, top, todo, s) ==
  /\ WellFormed(i, M) /\ x \in Int /\ E \in Nat /\ IsState(i, E, s)
  /\ InTurn(i, x, E, H, V, C, top, todo, s)

\* BeamInv gives it.
LEMMA BeamIsState ==
  ASSUME NEW i, NEW x, NEW start, NEW E, NEW H, NEW s, BeamInv(i, x, start, 0, E, H, s)
  PROVE  IsState(i, E, s)
BY DEF BeamInv, IsState, OnLevel

\* What is looked at and found are ids.
LEMMA TurnTypes ==
  ASSUME NEW i, NEW x, NEW E, NEW H, NEW V, NEW C, NEW top, NEW todo, NEW s,
         Turning(i, x, E, H, V, C, top, todo, s)
  PROVE  /\ Current(i, x, s) \in s.cand
         /\ todo \in SUBSET Ids(i) /\ V \in SUBSET Ids(i)
         /\ top \in SUBSET Ids(i) /\ top \subseteq V /\ IsFiniteSet(top) /\ Cardinality(top) \in Nat
         /\ Kept(i, x, E, top) \subseteq top
<1>1. Current(i, x, s) \in s.cand
  <2>1. IsFiniteSet(s.cand) /\ Comparable(i.data, x, s.cand) /\ s.cand # {}
    BY IndexFacts DEF IsState, InTurn, Turning
  <2> QED BY <2>1, NearestFacts DEF Current
<1>2. i.links[0][Current(i, x, s)] \in SUBSET Ids(i)
  BY <1>1, IndexFacts DEF IsState, WellFormed, Turning
<1>3. Seen(i, x, todo, s) \subseteq Ids(i) /\ Wanted(i, x, E, todo, s) \subseteq Seen(i, x, todo, s)
  BY <1>2 DEF Seen, Wanted
<1>4. todo \in SUBSET Ids(i) /\ V \in SUBSET Ids(i) /\ top \subseteq V /\ s.visited \in SUBSET Ids(i)
  BY <1>2, <1>3 DEF InTurn, IsState, Turning
<1>5. IsFiniteSet(top) /\ Cardinality(top) \in Nat
  BY <1>4, IndexFacts, FS_CardinalityType DEF Turning
<1>6. Kept(i, x, E, top) \subseteq top
  BY DEF Kept
<1> QED BY <1>1, <1>4, <1>5, <1>6

\* A turn begins with nothing seen.
LEMMA TurnBegins ==
  ASSUME NEW i, WellFormed(i, M), NEW x \in Int, NEW E \in Nat, NEW H,
         NEW V, NEW C, NEW top, NEW s, IsState(i, E, s), AtTurn(i, x, E, V, C, top, s),
         s.cand # {}
  PROVE  Turning(i, x, E, H, V, C \ {Current(i, x, s)}, top, i.links[0][Current(i, x, s)], s)
<1> DEFINE n == Current(i, x, s)
           todo == i.links[0][n]
<1>1. Seen(i, x, todo, s) = {} /\ Wanted(i, x, E, todo, s) = {}
  BY DEF Seen, Wanted
<1>2. Cardinality(top) <= E /\ Kept(i, x, E, top) = top
  BY DEF AtTurn, IsState, Kept
<1>3. Cardinality(top) <= E + 1
  <2>1. Cardinality(top) \in Nat
    <3>1. top \in SUBSET Ids(i)
      BY DEF AtTurn, IsState
    <3> QED BY <3>1, IndexFacts, FS_CardinalityType
  <2> QED BY <1>2, <2>1
<1> HIDE DEF todo
<1>4. \A c \in (s.cand \ {n}) \ (C \ {n}) : c \notin top /\ NoRoomFor(i, x, E, top, c)
  BY DEF AtTurn, LeftOut
<1>5. V = s.visited /\ top = s.top /\ C \subseteq s.cand
  BY DEF AtTurn
<1>6. todo \subseteq i.links[0][n]
  BY DEF todo
<1> HIDE DEF n
<1> QED BY <1>1, <1>2, <1>3, <1>4, <1>5, <1>6 DEF InTurn, Turning, n, todo

\* A neighbour that is marked has been seen on an earlier list.
LEMMA MarkedIsPassed ==
  ASSUME NEW i, NEW x, NEW E, NEW H, NEW V, NEW C, NEW top, NEW todo, NEW s,
         Turning(i, x, E, H, V, C, top, todo, s), NEW m \in todo, m \in V
  PROVE  Turning(i, x, E, H, V, C, top, todo \ {m}, s)
<1>1. Seen(i, x, todo \ {m}, s) = Seen(i, x, todo, s)
  BY DEF Seen, InTurn, Turning
<1>2. Wanted(i, x, E, todo \ {m}, s) = Wanted(i, x, E, todo, s)
  BY <1>1 DEF Wanted
<1> QED BY <1>1, <1>2 DEF InTurn, Turning

\* One that is not, is new to what has been seen and to the results.
LEMMA UnmarkedIsNew ==
  ASSUME NEW i, NEW x, NEW E, NEW H, NEW V, NEW C, NEW top, NEW todo, NEW s,
         Turning(i, x, E, H, V, C, top, todo, s), NEW m \in todo, m \notin V
  PROVE  /\ m \in Ids(i) /\ m \notin top /\ m \notin s.top
         /\ Seen(i, x, todo \ {m}, s) = Seen(i, x, todo, s) \cup {m}
         /\ Wanted(i, x, E, todo \ {m}, s) = Wanted(i, x, E, todo, s) \cup
              (IF Cardinality(s.top) < E \/ BelowBound(i, x, s.top, m) THEN {m} ELSE {})
<1>1. m \in Ids(i) /\ m \notin top
  BY TurnTypes
<1>2. m \in i.links[0][Current(i, x, s)] /\ m \notin s.visited /\ m \notin s.top
  BY DEF InTurn, IsState, Turning
<1>3. Seen(i, x, todo \ {m}, s) = Seen(i, x, todo, s) \cup {m}
  BY <1>2 DEF Seen
<1> QED BY <1>1, <1>2, <1>3 DEF Wanted

\* A neighbour is passed over when there are E results, none of them farther.
LEMMA FarIsPassed ==
  ASSUME NEW i, NEW x, NEW E, NEW H, NEW V, NEW C, NEW top, NEW todo, NEW s,
         Turning(i, x, E, H, V, C, top, todo, s), NEW m \in todo, m \notin V,
         NoRoomFor(i, x, E, top, m)
  PROVE  Turning(i, x, E, H, V \cup {m}, C, top, todo \ {m}, s)
<1>1. /\ m \in Ids(i) /\ m \notin top /\ m \notin s.top
      /\ Seen(i, x, todo \ {m}, s) = Seen(i, x, todo, s) \cup {m}
      /\ Wanted(i, x, E, todo \ {m}, s) = Wanted(i, x, E, todo, s) \cup
           (IF Cardinality(s.top) < E \/ BelowBound(i, x, s.top, m) THEN {m} ELSE {})
  BY UnmarkedIsNew
<1>2. Seen(i, x, todo \ {m}, s) = Seen(i, x, todo, s) \cup {m}
  BY <1>1
<1>3. /\ Wanted(i, x, E, todo, s) \subseteq Wanted(i, x, E, todo \ {m}, s)
      /\ Wanted(i, x, E, todo \ {m}, s) \subseteq Wanted(i, x, E, todo, s) \cup {m}
  BY <1>1
<1>4. Kept(i, x, E, top) = top
  BY TurnTypes DEF NoRoomFor, Kept
<1> QED BY <1>1, <1>2, <1>3, <1>4 DEF InTurn, Turning

\* A closer one, or one there is room for, becomes a candidate; it is wanted by
\* the pure search, too, whose results were not closer when the turn began.
LEMMA CloserIsWanted ==
  ASSUME NEW i, NEW x, NEW E, NEW H, NEW V, NEW C, NEW top, NEW todo, NEW s,
         Turning(i, x, E, H, V, C, top, todo, s), NEW m \in todo, m \notin V,
         Cardinality(top) <= E,
         Cardinality(top) < E \/ \E t \in top : From(i, x, m) < From(i, x, t)
  PROVE  Cardinality(s.top) < E \/ BelowBound(i, x, s.top, m)
<1> DEFINE all == s.top \cup (Wanted(i, x, E, todo, s) \ H)
<1>1. top \in SUBSET Ids(i) /\ IsFiniteSet(top) /\ Cardinality(top) \in Nat
  BY TurnTypes
<1>2. E \in Nat /\ s.top \in SUBSET Ids(i) /\ IsFiniteSet(s.top) /\ Cardinality(s.top) \in Nat
  <2>1. WellFormed(i, M) /\ x \in Int /\ E \in Nat /\ s.top \in SUBSET Ids(i)
    BY DEF Turning, IsState
  <2> QED BY <2>1, IndexFacts, FS_CardinalityType
<1>3. top \subseteq all /\ \A a \in all \ top : NoRoomFor(i, x, E, top, a)
  <2>1. Kept(i, x, E, top) = top
    BY DEF Kept
  <2> QED BY <2>1 DEF Turning, InTurn
<1>4. \A n \in Ids(i) : From(i, x, n) \in Nat
  BY IndexFacts DEF From, Turning
<1>5. m \in Ids(i)
  BY UnmarkedIsNew
<1>6. CASE \E a \in s.top : a \notin top
  <2> PICK a \in s.top : a \notin top
    BY <1>6
  <2>1. NoRoomFor(i, x, E, top, a)
    BY <1>3
  <2>2. PICK t \in top : From(i, x, m) < From(i, x, t)
    BY <2>1, <1>2 DEF NoRoomFor
  <2>3. From(i, x, m) < From(i, x, a)
    BY <2>1, <2>2, <1>1, <1>2, <1>4, <1>5 DEF NoRoomFor
  <2> QED BY <2>3 DEF BelowBound, From
<1>7. CASE s.top \subseteq top
  <2>1. Cardinality(s.top) <= Cardinality(top)
    BY <1>1, <1>7, FS_Subset
  <2>2. CASE Cardinality(top) < E
    BY <2>1, <2>2, <1>1, <1>2
  <2>3. CASE ~ Cardinality(top) < E
    <3>1. PICK t \in top : From(i, x, m) < From(i, x, t)
      BY <2>3
    <3>2. CASE t \in s.top
      BY <3>1, <3>2 DEF BelowBound, From
    <3>3. CASE t \notin s.top
      <4>1. Cardinality(s.top) # Cardinality(top)
        BY <3>3, <1>1, <1>7, FS_Subset
      <4> QED BY <4>1, <2>1, <1>1, <1>2
    <3> QED BY <3>2, <3>3
  <2> QED BY <2>2, <2>3
<1> QED BY <1>6, <1>7

\* A hidden one is only a candidate.
LEMMA HiddenIsCandidate ==
  ASSUME NEW i, NEW x, NEW E, NEW H, NEW V, NEW C, NEW top, NEW todo, NEW s,
         Turning(i, x, E, H, V, C, top, todo, s), NEW m \in todo, m \notin V,
         Cardinality(s.top) < E \/ BelowBound(i, x, s.top, m), m \in H
  PROVE  Turning(i, x, E, H, V \cup {m}, C \cup {m}, top, todo \ {m}, s)
<1>1. /\ m \notin top
      /\ Seen(i, x, todo \ {m}, s) = Seen(i, x, todo, s) \cup {m}
      /\ Wanted(i, x, E, todo \ {m}, s) = Wanted(i, x, E, todo, s) \cup {m}
  BY UnmarkedIsNew
<1>2. Wanted(i, x, E, todo \ {m}, s) \ H = Wanted(i, x, E, todo, s) \ H
  BY <1>1
<1> QED BY <1>1, <1>2 DEF InTurn, Turning

\* One more result, perhaps too many, and what is kept of them: all there was
\* no room for there is still no room for.
LEMMA KeptFull ==
  ASSUME NEW i, WellFormed(i, M), NEW x \in Int, NEW E \in Nat, NEW top \in SUBSET Ids(i),
         Cardinality(top) <= E, NEW m \in Ids(i) \ top, NEW R, R = top \cup {m}
  PROVE  /\ R \in SUBSET Ids(i) /\ Cardinality(R) = Cardinality(top) + 1
         /\ \A a \in Ids(i) : NoRoomFor(i, x, E, top, a) => NoRoomFor(i, x, E, Kept(i, x, E, R), a)
         /\ \A a \in R \ Kept(i, x, E, R) : NoRoomFor(i, x, E, Kept(i, x, E, R), a)
<1> DEFINE F == FarthestOf(i, x, R)
<1>1. IsFiniteSet(top) /\ Cardinality(top) \in Nat
  BY IndexFacts, FS_CardinalityType
<1>2. R \in SUBSET Ids(i) /\ R # {} /\ IsFiniteSet(R) /\ Cardinality(R) = Cardinality(top) + 1
  BY <1>1, FS_AddElement
<1>3. F \in R /\ \A k \in R : From(i, x, k) <= From(i, x, F)
  BY <1>2, FarthestFacts
<1> HIDE DEF F
<1>4. ASSUME NEW a \in Ids(i), NoRoomFor(i, x, E, top, a)
      PROVE  NoRoomFor(i, x, E, Kept(i, x, E, R), a)
  <2>1. Cardinality(top) = E
    BY <1>4 DEF NoRoomFor
  <2>2. Kept(i, x, E, R) = (top \cup {m}) \ {F}
    BY <2>1, <1>2 DEF Kept, F
  <2>3. F \in top \cup {m} /\ \A k \in top \cup {m} : From(i, x, k) <= From(i, x, F)
    BY <1>3
  <2>4. NoRoomFor(i, x, E, (top \cup {m}) \ {F}, a)
    BY <2>3, <1>4, InsertKeepsFull
  <2> QED BY <2>2, <2>4
<1>5. ASSUME NEW a \in R \ Kept(i, x, E, R)
      PROVE  NoRoomFor(i, x, E, Kept(i, x, E, R), a)
  <2>1. Kept(i, x, E, R) = R \ {F} /\ ~ Cardinality(R) <= E
    BY <1>5 DEF Kept, F
  <2>2. a = F /\ Cardinality(R) = E + 1
    BY <2>1, <1>1, <1>2, <1>5
  <2>3. Cardinality(R \ {F}) = E
    <3>1. Cardinality(R \ {F}) = Cardinality(R) - 1
      BY <1>2, <1>3, FS_RemoveElement
    <3> QED BY <3>1, <2>2
  <2> QED BY <2>1, <2>2, <2>3, <1>3 DEF NoRoomFor
<1> QED BY <1>2, <1>4, <1>5

\* Any other one is a result, too.
LEMMA CloserIsResult ==
  ASSUME NEW i, NEW x, NEW E, NEW H, NEW V, NEW C, NEW top, NEW todo, NEW s,
         Turning(i, x, E, H, V, C, top, todo, s), NEW m \in todo, m \notin V,
         Cardinality(top) <= E,
         Cardinality(s.top) < E \/ BelowBound(i, x, s.top, m), m \notin H
  PROVE  Turning(i, x, E, H, V \cup {m}, C \cup {m}, top \cup {m}, todo \ {m}, s)
<1> DEFINE R == top \cup {m}
           all == s.top \cup (Wanted(i, x, E, todo, s) \ H)
           cand == (s.cand \ {Current(i, x, s)}) \cup Wanted(i, x, E, todo, s)
           allNow == s.top \cup (Wanted(i, x, E, todo \ {m}, s) \ H)
           candNow == (s.cand \ {Current(i, x, s)}) \cup Wanted(i, x, E, todo \ {m}, s)
           kept == Kept(i, x, E, R)
<1>1. /\ m \in Ids(i) /\ m \notin top
      /\ Seen(i, x, todo \ {m}, s) = Seen(i, x, todo, s) \cup {m}
      /\ Wanted(i, x, E, todo \ {m}, s) = Wanted(i, x, E, todo, s) \cup {m}
  BY UnmarkedIsNew
<1>2. allNow = all \cup {m} /\ candNow = cand \cup {m}
  BY <1>1
<1>3. /\ WellFormed(i, M) /\ x \in Int /\ E \in Nat /\ IsState(i, E, s)
      /\ s.cand # {} /\ todo \subseteq i.links[0][Current(i, x, s)]
      /\ V = s.visited \cup Seen(i, x, todo, s) /\ top \subseteq all /\ C \subseteq cand
      /\ \A a \in all \ top : NoRoomFor(i, x, E, top, a)
      /\ \A c \in cand \ C : c \notin top /\ NoRoomFor(i, x, E, top, c)
  <2>1. Kept(i, x, E, top) = top
    BY DEF Kept
  <2> QED BY <2>1 DEF Turning, InTurn
<1>4. /\ top \in SUBSET Ids(i) /\ Cardinality(top) \in Nat
      /\ all \subseteq Ids(i) /\ cand \subseteq Ids(i) /\ cand \ {m} = cand
  <2>1. V \in SUBSET Ids(i) /\ top \in SUBSET Ids(i) /\ Cardinality(top) \in Nat
    BY TurnTypes
  <2>2. Wanted(i, x, E, todo, s) \subseteq V
    BY <1>3 DEF Wanted
  <2>3. s.top \subseteq V /\ s.cand \subseteq V
    BY <1>3 DEF IsState
  <2> QED BY <2>1, <2>2, <2>3
<1> HIDE DEF all, cand
<1>5. /\ Cardinality(R) = Cardinality(top) + 1
      /\ \A a \in Ids(i) : NoRoomFor(i, x, E, top, a) => NoRoomFor(i, x, E, kept, a)
      /\ \A a \in R \ kept : NoRoomFor(i, x, E, kept, a)
  BY <1>1, <1>3, <1>4, KeptFull
<1>6. kept \subseteq R
  BY DEF Kept
<1> HIDE DEF kept
<1>7. \A a \in allNow \ kept : NoRoomFor(i, x, E, kept, a)
  BY <1>2, <1>3, <1>4, <1>5
<1>8. \A c \in candNow \ (C \cup {m}) : c \notin R /\ NoRoomFor(i, x, E, kept, c)
  BY <1>2, <1>3, <1>4, <1>5
<1>9. Cardinality(R) <= E + 1 /\ R \subseteq allNow /\ C \cup {m} \subseteq candNow
  <2>1. R \subseteq allNow /\ C \cup {m} \subseteq candNow
    BY <1>2, <1>3
  <2>2. Cardinality(R) <= E + 1
    BY <1>3, <1>4, <1>5
  <2> QED BY <2>1, <2>2
<1>10. V \cup {m} = s.visited \cup Seen(i, x, todo \ {m}, s) /\ todo \ {m} \subseteq i.links[0][Current(i, x, s)]
  BY <1>1, <1>3
<1> HIDE DEF R
<1> QED
  BY <1>3, <1>7, <1>8, <1>9, <1>10 DEF Turning, InTurn, kept, R

\* The result too many goes.
LEMMA ExtraGoes ==
  ASSUME NEW i, NEW x, NEW E, NEW H, NEW V, NEW C, NEW top, NEW todo, NEW s,
         Turning(i, x, E, H, V, C, top, todo, s), Cardinality(top) > E
  PROVE  Turning(i, x, E, H, V, C, top \ {FarthestOf(i, x, top)}, todo, s)
<1> DEFINE R == top \ {FarthestOf(i, x, top)}
<1>1. top \in SUBSET Ids(i) /\ IsFiniteSet(top) /\ Cardinality(top) \in Nat /\ E \in Nat
  BY TurnTypes DEF Turning
<1>2. top # {}
  BY <1>1, FS_EmptySet
<1>3. FarthestOf(i, x, top) \in top
  BY <1>1, <1>2, FarthestFacts DEF Turning
<1>4. Cardinality(R) = Cardinality(top) - 1 /\ Cardinality(top) <= E + 1
  BY <1>1, <1>3, FS_RemoveElement DEF Turning, InTurn
<1>5. Cardinality(R) <= E /\ Cardinality(R) <= E + 1
  BY <1>1, <1>4
<1>6. Kept(i, x, E, top) = R /\ Kept(i, x, E, R) = R
  <2>1. ~ Cardinality(top) <= E
    BY <1>1
  <2> QED BY <1>5, <2>1 DEF Kept
<1>7. R \subseteq top
  OBVIOUS
<1> HIDE DEF R
<1> QED BY <1>5, <1>6, <1>7 DEF Turning, InTurn, R

\* When all neighbours have been seen, the results are those of the pure search.
LEMMA TurnEnds ==
  ASSUME NEW i, NEW x, NEW E, NEW H, NEW V, NEW C, NEW top, NEW todo, NEW s,
         Turning(i, x, E, H, V, C, top, todo, s), Distinct(i, x), todo = {}, Cardinality(top) <= E
  PROVE  AtTurn(i, x, E, V, C, top, BeamExpand(i, x, 0, E, H, s))
<1> DEFINE r == BeamExpand(i, x, 0, E, H, s)
           all == s.top \cup (Wanted(i, x, E, todo, s) \ H)
<1>1. /\ WellFormed(i, M) /\ x \in Int /\ E \in Nat
      /\ V = s.visited \cup Seen(i, x, todo, s) /\ top \subseteq all
      /\ \A a \in all \ top : NoRoomFor(i, x, E, top, a)
  <2>1. Kept(i, x, E, top) = top
    BY DEF Kept
  <2> QED BY <2>1 DEF Turning, InTurn
<1>2. all \in SUBSET Ids(i)
  <2>1. V \in SUBSET Ids(i)
    BY TurnTypes
  <2>2. Wanted(i, x, E, todo, s) \subseteq V /\ s.top \subseteq V
    BY <1>1 DEF Wanted, Turning, IsState
  <2> QED BY <2>1, <2>2
<1>3. top = Closest(i.data, x, all, E)
  <2> HIDE DEF all
  <2> QED BY <1>1, <1>2, ClosestIsUnique
<1>4. /\ r.top = top /\ r.visited = V
      /\ r.cand = (s.cand \ {Current(i, x, s)}) \cup Wanted(i, x, E, todo, s)
  BY <1>1, <1>3 DEF BeamExpand, Current, Seen, Wanted
<1>5. /\ C \subseteq r.cand
      /\ \A c \in r.cand \ C : LeftOut(i, x, E, top, c)
  <2>1. Kept(i, x, E, top) = top
    BY DEF Kept
  <2> HIDE DEF r
  <2> QED BY <1>4, <2>1 DEF Turning, InTurn, LeftOut
<1> HIDE DEF r
<1> QED BY <1>4, <1>5 DEF AtTurn, r

\* The rule that ends a search, of a candidate c
Beyond(i, x, E, early, top, c) ==
  /\ top # {} /\ \A t \in top : From(i, x, t) < From(i, x, c)
  /\ early \/ Cardinality(top) = E

\* A candidate not taken is beyond the results.
LEMMA LeftIsBeyond ==
  ASSUME NEW i, WellFormed(i, M), NEW x \in Int, Distinct(i, x), NEW E \in Nat \ {0}, NEW early,
         NEW top \in SUBSET Ids(i), NEW c \in Ids(i), LeftOut(i, x, E, top, c)
  PROVE  Beyond(i, x, E, early, top, c)
<1>1. \A n \in Ids(i) : From(i, x, n) \in Nat
  BY IndexFacts DEF From
<1>2. \A t \in top : From(i, x, t) < From(i, x, c)
  BY <1>1 DEF LeftOut, NoRoomFor, Distinct
<1>3. top # {}
  BY FS_EmptySet DEF LeftOut, NoRoomFor
<1> QED BY <1>2, <1>3 DEF Beyond, LeftOut, NoRoomFor

\* Between two turns the current candidate is the nearest there is.
LEMMA CurrentFacts ==
  ASSUME NEW i, WellFormed(i, M), NEW x \in Int, NEW E \in Nat, NEW s, IsState(i, E, s), s.cand # {}
  PROVE  /\ Current(i, x, s) \in s.cand
         /\ \A d \in s.cand : From(i, x, Current(i, x, s)) <= From(i, x, d)
<1>1. IsFiniteSet(s.cand) /\ Comparable(i.data, x, s.cand)
  BY IndexFacts DEF IsState
<1> QED BY <1>1, NearestFacts DEF Current, From

\* Where the code goes on with its nearest candidate, the pure search does so
\* with the same one.
LEMMA GoesAlike ==
  ASSUME NEW i, WellFormed(i, M), NEW x \in Int, Distinct(i, x), NEW E \in Nat \ {0}, NEW early,
         NEW V, NEW C, NEW top, NEW s, IsState(i, E, s), AtTurn(i, x, E, V, C, top, s),
         NEW c \in C, \A d \in C : From(i, x, c) <= From(i, x, d),
         ~ Beyond(i, x, E, early, top, c)
  PROVE  s.cand # {} /\ c = Current(i, x, s) /\ ~ BeamStops(i, x, E, early, s)
<1> DEFINE n == Current(i, x, s)
<1>1. \A m \in Ids(i) : From(i, x, m) \in Nat
  BY IndexFacts DEF From
<1>2. /\ C \subseteq s.cand /\ s.cand \subseteq Ids(i) /\ top = s.top /\ top \in SUBSET Ids(i)
      /\ \A d \in s.cand \ C : LeftOut(i, x, E, top, d)
  BY DEF AtTurn, IsState
<1>3. n \in s.cand /\ \A d \in s.cand : From(i, x, n) <= From(i, x, d)
  BY <1>2, CurrentFacts
<1> HIDE DEF n
<1>4. n \in C
  <2> SUFFICES ASSUME n \notin C PROVE FALSE
    OBVIOUS
  <2>1. LeftOut(i, x, E, top, n) /\ From(i, x, n) <= From(i, x, c)
    BY <1>2, <1>3
  <2>2. Beyond(i, x, E, early, top, n)
    BY <1>2, <1>3, <2>1, LeftIsBeyond
  <2>3. \A t \in top : From(i, x, t) < From(i, x, c)
    BY <2>1, <2>2, <1>1, <1>2, <1>3 DEF Beyond
  <2> QED BY <2>2, <2>3 DEF Beyond
<1>5. From(i, x, c) = From(i, x, n)
  BY <1>1, <1>2, <1>3, <1>4
<1>6. c = n
  BY <1>2, <1>3, <1>5 DEF Distinct
<1>7. s.cand # {} /\ \A t \in top : ~ (From(i, x, n) <= From(i, x, t)) => From(i, x, t) < From(i, x, n)
  BY <1>1, <1>2, <1>3
<1>8. ~ BeamStops(i, x, E, early, s)
  <2> SUFFICES ASSUME BeamStops(i, x, E, early, s) PROVE FALSE
    OBVIOUS
  <2>1. /\ top # {} /\ ~ (\E t \in top : From(i, x, n) <= From(i, x, t))
        /\ early \/ Cardinality(top) = E
    BY <1>2, <1>7 DEF BeamStops, From, Current, n
  <2> QED BY <2>1, <1>6, <1>7 DEF Beyond
<1> QED BY <1>6, <1>7, <1>8 DEF n

\* Where it ends, so does the pure search.
LEMMA StopsAlike ==
  ASSUME NEW i, WellFormed(i, M), NEW x \in Int, Distinct(i, x), NEW E \in Nat \ {0}, NEW early,
         NEW V, NEW C, NEW top, NEW s, IsState(i, E, s), AtTurn(i, x, E, V, C, top, s),
         C = {} \/ \E c \in C : /\ \A d \in C : From(i, x, c) <= From(i, x, d)
                                /\ Beyond(i, x, E, early, top, c)
  PROVE  BeamStops(i, x, E, early, s)
<1> DEFINE n == Current(i, x, s)
<1> SUFFICES ASSUME s.cand # {} PROVE BeamStops(i, x, E, early, s)
  BY DEF BeamStops
<1>1. \A m \in Ids(i) : From(i, x, m) \in Nat
  BY IndexFacts DEF From
<1>2. /\ C \subseteq s.cand /\ s.cand \subseteq Ids(i) /\ top = s.top /\ top \in SUBSET Ids(i)
      /\ \A d \in s.cand \ C : LeftOut(i, x, E, top, d)
  BY DEF AtTurn, IsState
<1>3. n \in s.cand /\ \A d \in s.cand : From(i, x, n) <= From(i, x, d)
  BY CurrentFacts
<1> HIDE DEF n
<1>4. Beyond(i, x, E, early, top, n)
  <2>1. CASE n \notin C
    <3>1. LeftOut(i, x, E, top, n) /\ n \in Ids(i)
      BY <2>1, <1>2, <1>3
    <3> QED BY <3>1, <1>2, LeftIsBeyond
  <2>2. CASE n \in C
    <3> PICK c \in C : /\ \A d \in C : From(i, x, c) <= From(i, x, d)
                       /\ Beyond(i, x, E, early, top, c)
      BY <2>2
    <3> QED BY <2>2, <1>1, <1>2 DEF Beyond
  <2> QED BY <2>1, <2>2
<1>5. ~ (\E t \in top : From(i, x, n) <= From(i, x, t))
  BY <1>1, <1>2, <1>3, <1>4 DEF Beyond
<1> QED BY <1>2, <1>4, <1>5 DEF BeamStops, Beyond, From, Current, n

(***************************************************************************)
(* Types and lists                                                         *)
(***************************************************************************)

Asked == UNION {Questions(ix, t) : t \in Threads}
AllDocuments == {Document(n) : n \in Ids(ix)}

Conditions ==
  [curr_num_items_ : Int, curr_num_docs_ : Int, doc_counter_ : [AllDocuments -> Int],
   search_results_ : SUBSET Ids(ix)]

Locals ==
  [pc : {"idle", "take", "begin", "search", "answer", "undefined"}, ask : {NoQuestion} \cup Asked,
   at : {NoEntry} \cup Ids(ix), vl : Nat, tag : Tags, lowerBound : Int,
   candidate_set : SUBSET (Nat \X Ids(ix)), top : SUBSET Ids(ix), todo : SUBSET Ids(ix),
   condition : Conditions, answer : SUBSET (Ids(ix) \cup {Label(n) : n \in Ids(ix)})]

\* The descent of the query
Start(q) == DescendFrom(ix, q.ask.vector, ix.enterpoint_node_, ix.maxlevel_, 0)

Asking(q) == q.ask \in Asked /\ q.at = Start(q)

\* Every variable has its type, and a thread that is not idle has a question.
QueriesTypeOK ==
  /\ ix \in Queried
  /\ my \in [Threads -> Locals]
  /\ \A t \in Threads : my[t].pc \notin {"idle", "undefined"} => Asking(my[t])
  /\ mass \in Seq([Ids(ix) -> Tags]) /\ curV \in Seq(Tags) /\ Len(curV) = Len(mass)
  /\ pool \in Seq(1 .. Len(mass))

Uses(t) == my[t].pc \in {"begin", "search"}

\* A list is on the pool once or used by one thread.  No tag is above the
\* counter of its list until that has its last value; the counter is the tag
\* of the search that uses the list.
ListsOwned ==
  /\ \A a, b \in 1 .. Len(pool) : pool[a] = pool[b] => a = b
  /\ \A t \in Threads : Uses(t) => /\ my[t].vl \in 1 .. Len(mass)
                                   /\ \A a \in 1 .. Len(pool) : pool[a] # my[t].vl
  /\ \A t, u \in Threads : Uses(t) /\ Uses(u) /\ my[t].vl = my[u].vl => t = u
  /\ \A v \in 1 .. Len(mass) :
       curV[v] = TagCount - 1 \/ \A n \in Ids(ix) : mass[v][n] <= curV[v]
  /\ \A t \in Threads : my[t].pc = "search" => my[t].tag = curV[my[t].vl]

(***************************************************************************)
(* What a query q holds that has marked the elements V                     *)
(***************************************************************************)

\* Elements, or documents, the results count for, and how many these may be
Size(q) ==
  CASE Kind(q) = "none" -> Cardinality(q.top)
    [] Kind(q) = "epsilon" -> q.condition.curr_num_items_
    [] OTHER -> q.condition.curr_num_docs_
Limit(q) ==
  CASE Kind(q) = "none" -> ef(q)
    [] Kind(q) = "epsilon" -> q.ask.stop.max
    [] OTHER -> q.ask.stop.ef_collection

Fresh(q) ==
  /\ q.candidate_set = {} /\ q.top = {} /\ q.todo = {}
  /\ q.condition = NewCondition /\ q.lowerBound = FarAway

OfDocument(top, d) == {n \in top : Document(n) = d}

\* The counters of the condition follow the results.
Counts(c, top) ==
  /\ c.curr_num_items_ = Cardinality(top)
  /\ \A d \in AllDocuments : c.doc_counter_[d] = Cardinality(OfDocument(top, d))
  /\ c.curr_num_docs_ = Cardinality(Documents(top))

\* The elements of S at distance d
AtDistance(q, S, d) == {n \in S : Distance(q, n) = d}

\* The condition's heap holds eligible elements of V, as many of each distance
\* as there are results at that distance.
Heaped(q, V) ==
  LET heap == q.condition.search_results_
  IN /\ heap \subseteq V \ Hidden(q)
     /\ \A n \in Ids(ix) : Cardinality(AtDistance(q, heap, Distance(q, n)))
                              = Cardinality(AtDistance(q, q.top, Distance(q, n)))

Candidates(q) == {c[2] : c \in q.candidate_set}

\* The only candidate is the start, the only result, too, unless it is hidden.
Starting(q) ==
  /\ q.todo = {} /\ q.top = {q.at} \ Hidden(q)
  /\ q.candidate_set = {<<IF q.at \in Hidden(q) THEN FarAway ELSE Distance(q, q.at), q.at>>}

\* No element of V but the results is closer than one of these.
NoneCloser(q, V) ==
  \A m \in (V \ Hidden(q)) \ q.top : \A n \in q.top : Distance(q, n) <= Distance(q, m)

\* If there is any, there are as many results as may be.
NothingCloser(q, V, size, limit) ==
  NoneCloser(q, V) /\ \A m \in (V \ Hidden(q)) \ q.top : size >= limit

BeamOf(q) == BeamAfter(ix, q.ask.vector, q.at, 0, ef(q), Hidden(q), BareBone(q))

\* The search for nearest elements is where the pure search is after some turn,
\* or inside its next one.
Follows(q, V, s) ==
  \/ /\ q.todo = {}
     /\ AtTurn(ix, q.ask.vector, ef(q), V, Candidates(q), q.top, s)
  \/ /\ InTurn(ix, q.ask.vector, ef(q), Hidden(q), V, Candidates(q), q.top, q.todo, s)
     /\ ~ BeamStops(ix, q.ask.vector, ef(q), BareBone(q), s)

Searching(q, V) ==
  /\ Counts(q.condition, q.top) /\ Heaped(q, V)
  /\ q.at \in V /\ q.top \subseteq V \ Hidden(q)
  /\ q.top = {} => q.lowerBound = FarAway
  /\ q.top # {} /\ ~ TooMany(q) => q.lowerBound = Distance(q, Farthest(q))
  /\ Starting(q) \/ \A c \in q.candidate_set : c[1] = Distance(q, c[2])
  /\ NothingCloser(q, V, Size(q), Limit(q))
  /\ (Starting(q) /\ V = {q.at}) \/ (FullyLinked => Ids(ix) \subseteq V \cup q.todo)
  /\ Kind(q) = "none" /\ Apart(q) => \E k \in 0 .. ix.count : Follows(q, V, BeamOf(q)[k])

\* The search is over.  In the filter for documents the counters follow the
\* results only if elements equally far belong to the same document.
Found(q) ==
  LET s == q.ask.stop
      counted == Kind(q) = "documents" => TiesWithinDocuments(q)
  IN /\ counted => Counts(q.condition, q.top)
     /\ Heaped(q, Ids(ix))
     /\ q.top \subseteq Ids(ix) \ Hidden(q)
     /\ Kind(q) = "none" /\ Apart(q) =>
          q.top = Beam(ix, q.ask.vector, q.at, 0, ef(q), Hidden(q), BareBone(q))
     /\ Kind(q) = "epsilon" =>
          /\ Cardinality(q.top) <= s.max
          /\ FullyLinked /\ s.min >= 2 =>
               NothingCloser(q, Ids(ix), Cardinality(q.top), s.max)
     /\ Kind(q) = "documents" /\ FullyLinked =>
          /\ NoneCloser(q, Ids(ix))
          /\ counted =>
               NothingCloser(q, Ids(ix), Cardinality(Documents(q.top)), s.num_docs_to_search)

\* AnswersAsAlone and StopConditionMet, of one thread
AnswerAsAlone(q) ==
  LET found == Beam(ix, q.ask.vector, Start(q), 0, ef(q), Hidden(q), BareBone(q))
  IN Answered(q, "none") /\ Apart(q) =>
       q.answer = {Label(n) : n \in Closest(ix.data, q.ask.vector, found, q.ask.k)}

DocumentsMet(q) ==
  LET s == q.ask.stop
      closer(n) == {m \in Eligible(q) : Distance(q, m) < Distance(q, n)}
      wanted == {s.num_docs_to_search, Cardinality(Documents(Eligible(q)))}
  IN Answered(q, "documents") =>
       /\ q.answer \subseteq Eligible(q)
       /\ FullyLinked => \A n \in q.answer : closer(n) \subseteq q.answer
       /\ TiesWithinDocuments(q) =>
            /\ Cardinality(Documents(q.answer)) <= s.num_docs_to_search
            /\ FullyLinked =>
                 /\ \A w \in wanted : Cardinality(Documents(q.answer)) <= w
                 /\ \E w \in wanted : Cardinality(Documents(q.answer)) = w

EpsilonMet(q) ==
  LET s == q.ask.stop
      closer(n) == {m \in Eligible(q) : Distance(q, m) < Distance(q, n)}
      within == {n \in Eligible(q) : Distance(q, n) <= s.epsilon}
      few == {s.max, Cardinality(within)}
  IN Answered(q, "epsilon") =>
       /\ q.answer \subseteq within /\ Cardinality(q.answer) <= s.max
       /\ FullyLinked /\ s.min >= 2 =>
            /\ \A n \in q.answer : closer(n) \subseteq q.answer
            /\ \E w \in few : Cardinality(q.answer) = w

Marks(t) == {n \in Ids(ix) : mass[my[t].vl][n] = my[t].tag}

QueryOK(q, V) ==
  /\ q.pc \in {"take", "begin"} => Fresh(q)
  /\ q.pc = "search" => Searching(q, V)
  /\ q.pc = "answer" => Found(q)
  /\ AnswerAsAlone(q) /\ DocumentsMet(q) /\ EpsilonMet(q)

QueriesOK == \A t \in Threads : QueryOK(my[t], Marks(t))

-------------------------------------------------------------------------------

\* A query that has been asked is a question about a well-formed index, and has
\* descended to an element.
LEMMA AskedFacts ==
  ASSUME ix \in Queried, NEW q, Asking(q)
  PROVE  /\ WellFormed(ix, M) /\ IsQuestion(q.ask) /\ q.ask.vector \in Int /\ q.ask.k \in Nat
         /\ ef(q) \in Nat /\ q.at \in Ids(ix)
         /\ \A n \in Ids(ix) : Distance(q, n) \in Nat /\ Distance(q, n) = From(ix, q.ask.vector, n)
         /\ \A n \in Ids(ix) : Distance(q, n) <= FarAway
<1>1. /\ WellFormed(ix, M) /\ IsQuestion(q.ask)
      /\ \A n \in Ids(ix) : Dist(q.ask.vector, ix.data[n]) <= FarAway
  BY QueriesAssumption, QuestionsAssumption DEF Asking, Asked
<1>2. q.ask.vector \in Int /\ q.ask.k \in Nat
  BY <1>1 DEF IsQuestion
<1>3. ef(q) \in Nat
  BY <1>2, QueriesAssumption DEF ef
<1>4. q.at \in Ids(ix)
  <2>1. ix.enterpoint_node_ \in Ids(ix) /\ ix.maxlevel_ \in 0 .. ix.maxlevel_ /\ 0 \in 0 .. ix.maxlevel_
    BY <1>1 DEF WellFormed
  <2> QED BY <1>1, <1>2, <2>1, DescentFacts DEF Asking, Start
<1>5. \A n \in Ids(ix) : Distance(q, n) \in Nat /\ Distance(q, n) = From(ix, q.ask.vector, n)
  BY <1>1, <1>2, IndexFacts DEF Distance, From
<1> QED BY <1>1, <1>2, <1>3, <1>4, <1>5 DEF Distance

\* The last result is one of them.
LEMMA FarthestType ==
  ASSUME ix \in Queried, NEW q \in Locals, Asking(q), q.top # {}
  PROVE  /\ Farthest(q) \in q.top /\ Farthest(q) \in Ids(ix)
         /\ \A n \in q.top : Distance(q, n) <= Distance(q, Farthest(q))
<1>1. q.top \in SUBSET Ids(ix)
  BY DEF Locals
<1>2. Farthest(q) = FarthestOf(ix, q.ask.vector, q.top)
  BY DEF Farthest, FarthestOf
<1>3. /\ Farthest(q) \in q.top
      /\ \A n \in q.top : From(ix, q.ask.vector, n) <= From(ix, q.ask.vector, Farthest(q))
  BY <1>1, <1>2, AskedFacts, FarthestFacts
<1> QED BY <1>1, <1>3, AskedFacts

\* Bounded changes the bound only.
LEMMA BoundedFacts ==
  ASSUME ix \in Queried, NEW q \in Locals, Asking(q)
  PROVE  /\ Bounded(q) \in Locals
         /\ Bounded(q).pc = q.pc /\ Bounded(q).ask = q.ask /\ Bounded(q).at = q.at
         /\ Bounded(q).vl = q.vl /\ Bounded(q).tag = q.tag
         /\ Bounded(q).candidate_set = q.candidate_set /\ Bounded(q).top = q.top
         /\ Bounded(q).todo = q.todo /\ Bounded(q).condition = q.condition
         /\ q.top = {} => Bounded(q).lowerBound = q.lowerBound
         /\ q.top # {} /\ ~ TooMany(q) => Bounded(q).lowerBound = Distance(q, Farthest(q))
<1> DEFINE b == IF q.top = {} \/ TooMany(q) THEN q.lowerBound ELSE Distance(q, Farthest(q))
<1>1. b \in Int
  <2>1. q.lowerBound \in Int
    BY DEF Locals
  <2> QED BY <2>1, FarthestType, AskedFacts
<1>2. Bounded(q) = [q EXCEPT !.lowerBound = b]
  BY DEF Bounded
<1>3. /\ q.top # {} /\ ~ TooMany(q) => b = Distance(q, Farthest(q))
      /\ q.top = {} => b = q.lowerBound
  OBVIOUS
<1> HIDE DEF b
<1> QED BY <1>1, <1>2, <1>3 DEF Locals

\* The condition with one result more
Added(c, n) ==
  [curr_num_items_ |-> c.curr_num_items_ + 1,
   curr_num_docs_ |-> c.curr_num_docs_ + (IF c.doc_counter_[Document(n)] = 0 THEN 1 ELSE 0),
   doc_counter_ |-> [c.doc_counter_ EXCEPT ![Document(n)] = @ + 1],
   search_results_ |-> c.search_results_ \cup {n}]

\* The condition with one element less of document d, and with the top h of its
\* heap gone
Removed(c, d, h) ==
  [curr_num_items_ |-> c.curr_num_items_ - 1,
   curr_num_docs_ |-> c.curr_num_docs_ - (IF OneLess(c.doc_counter_[d]) = 0 THEN 1 ELSE 0),
   doc_counter_ |-> [c.doc_counter_ EXCEPT ![d] = OneLess(@)],
   search_results_ |-> c.search_results_ \ {h}]

\* The condition keeps its type.
LEMMA ConditionTypes ==
  ASSUME ix \in Queried, NEW c \in Conditions
  PROVE  /\ \A n \in Ids(ix) : Added(c, n) \in Conditions
         /\ \A d, h : Removed(c, d, h) \in Conditions
<1>1. /\ c.curr_num_items_ \in Int /\ c.curr_num_docs_ \in Int
      /\ c.doc_counter_ \in [AllDocuments -> Int] /\ c.search_results_ \in SUBSET Ids(ix)
  BY DEF Conditions
<1>2. ASSUME NEW n \in Ids(ix) PROVE Added(c, n) \in Conditions
  <2>1. Document(n) \in AllDocuments
    BY DEF AllDocuments
  <2>2. c.doc_counter_[Document(n)] + 1 \in Int
    BY <1>1, <2>1
  <2> QED BY <1>1, <2>1, <2>2 DEF Added, Conditions
<1>3. ASSUME NEW d, NEW h PROVE Removed(c, d, h) \in Conditions
  <2> DEFINE g == [c.doc_counter_ EXCEPT ![d] = OneLess(@)]
             r == c.search_results_ \ {h}
  <2>1. g \in [AllDocuments -> Int]
    <3>1. CASE d \in AllDocuments
      <4>1. OneLess(c.doc_counter_[d]) \in Int
        BY <1>1, <3>1, QueriesAssumption DEF OneLess
      <4> QED BY <1>1, <3>1, <4>1
    <3>2. CASE d \notin AllDocuments
      <4>1. g = c.doc_counter_
        BY <1>1, <3>2
      <4> QED BY <4>1, <1>1
    <3> QED BY <3>1, <3>2
  <2>2. r \in SUBSET Ids(ix)
    BY <1>1
  <2> HIDE DEF g, r
  <2>3. Removed(c, d, h) =
          [curr_num_items_ |-> c.curr_num_items_ - 1,
           curr_num_docs_ |-> c.curr_num_docs_ - (IF OneLess(c.doc_counter_[d]) = 0 THEN 1 ELSE 0),
           doc_counter_ |-> g, search_results_ |-> r]
    BY DEF Removed, g, r
  <2> QED BY <1>1, <2>1, <2>2, <2>3 DEF Conditions
<1> QED BY <1>2, <1>3

\* A result is added to a query.
LEMMA AddFacts ==
  ASSUME ix \in Queried, NEW q \in Locals, Asking(q), NEW n \in Ids(ix)
  PROVE  add_point_to_result(q, n) = [q EXCEPT !.condition = Added(q.condition, n)]
BY DEF add_point_to_result, Added, Locals, Conditions

\* A result n goes, and one element of document d.
LEMMA WithoutFacts ==
  ASSUME ix \in Queried, NEW q \in Locals, Asking(q), NEW n, NEW d, NEW r, r = Without(q, n, d)
  PROVE  /\ r \in Locals /\ Asking(r)
         /\ r = [q EXCEPT !.condition = Removed(q.condition, d, HeapTop(q)), !.top = @ \ {n}]
<1>1. r = [q EXCEPT !.condition = Removed(q.condition, d, HeapTop(q)), !.top = @ \ {n}]
  BY DEF Without, remove_point_from_result, Removed, Locals, Conditions
<1>2. Removed(q.condition, d, HeapTop(q)) \in Conditions /\ q.top \ {n} \in SUBSET Ids(ix)
  <2>1. q.condition \in Conditions /\ q.top \in SUBSET Ids(ix)
    BY DEF Locals
  <2> QED BY <2>1, ConditionTypes
<1>3. r \in Locals
  BY <1>1, <1>2 DEF Locals
<1>4. r.ask = q.ask /\ r.at = q.at
  BY <1>1 DEF Locals
<1> QED BY <1>1, <1>3, <1>4 DEF Asking, Start

\* r is q with its search begun.
BegunAs(q, tag, r) ==
  /\ r \in Locals /\ Asking(r) /\ r.pc = "search" /\ r.tag = tag /\ r.ask = q.ask
  /\ r.at = q.at /\ r.vl = q.vl /\ r.todo = q.todo
  /\ r.candidate_set = {<<IF q.at \in Hidden(q) THEN FarAway ELSE Distance(q, q.at), q.at>>}
  /\ r.top = IF q.at \in Hidden(q) THEN q.top ELSE {q.at}
  /\ r.condition = IF q.at \in Hidden(q) THEN q.condition ELSE Added(q.condition, q.at)
  /\ q.at \in Hidden(q) => r.lowerBound = q.lowerBound
  /\ q.at \notin Hidden(q) /\ ~ TooMany(r) => r.lowerBound = Distance(r, Farthest(r))

\* What a search begins with
LEMMA BegunFacts ==
  ASSUME ix \in Queried, NEW q \in Locals, Asking(q), NEW tag \in Tags, NEW r, r = Begun(q, tag)
  PROVE  BegunAs(q, tag, r)
<1> USE DEF BegunAs
<1> DEFINE b == [q EXCEPT !.pc = "search", !.tag = tag]
           s == [b EXCEPT !.condition = Added(b.condition, b.at),
                          !.candidate_set = {<<Distance(q, q.at), q.at>>}, !.top = {q.at}]
<1>1. q.at \in Ids(ix) /\ Distance(q, q.at) \in Nat /\ FarAway \in Nat
  BY AskedFacts, QueriesAssumption
<1>2. /\ b \in Locals /\ b.ask = q.ask /\ b.at = q.at /\ b.condition = q.condition /\ b.pc = "search"
      /\ b.tag = tag /\ b.vl = q.vl /\ b.todo = q.todo /\ b.top = q.top
      /\ b.lowerBound = q.lowerBound
  BY DEF Locals
<1>3. Asking(b)
  BY <1>2 DEF Asking, Start
<1>4. Added(b.condition, b.at) = Added(q.condition, q.at)
  BY <1>2 DEF Added
<1> HIDE DEF b
<1>5. CASE q.at \in Hidden(q)
  <2>1. r = [b EXCEPT !.candidate_set = {<<FarAway, q.at>>}]
    BY <1>5 DEF Begun, b
  <2>2. {<<FarAway, q.at>>} \in SUBSET (Nat \X Ids(ix))
    BY <1>1
  <2>3. r \in Locals /\ r.ask = q.ask /\ r.at = q.at /\ r.lowerBound = q.lowerBound
    BY <1>2, <2>1, <2>2 DEF Locals
  <2>4. Asking(r)
    BY <2>3 DEF Asking, Start
  <2> QED BY <1>2, <1>5, <2>1, <2>3, <2>4 DEF Locals
<1>6. CASE q.at \notin Hidden(q)
  <2>1. Added(b.condition, b.at) \in Conditions
    <3>1. b.condition \in Conditions
      BY <1>2 DEF Locals
    <3> QED BY <1>1, <1>2, <1>3, <3>1, ConditionTypes
  <2>2. {<<Distance(q, q.at), q.at>>} \in SUBSET (Nat \X Ids(ix)) /\ {q.at} \in SUBSET Ids(ix)
    BY <1>1
  <2>3. /\ s \in Locals /\ s.ask = q.ask /\ s.at = q.at /\ s.pc = "search" /\ s.tag = tag
        /\ s.vl = q.vl /\ s.todo = q.todo /\ s.top = {q.at}
        /\ s.candidate_set = {<<Distance(q, q.at), q.at>>}
        /\ s.condition = Added(b.condition, b.at)
    BY <1>2, <2>1, <2>2 DEF Locals
  <2>4. Asking(s)
    BY <2>3 DEF Asking, Start
  <2>5. r = Bounded(s)
    <3>1. add_point_to_result(b, q.at) = [b EXCEPT !.condition = Added(b.condition, b.at)]
      BY <1>1, <1>2, <1>3, AddFacts
    <3>2. s = [add_point_to_result(b, q.at) EXCEPT !.candidate_set = {<<Distance(q, q.at), q.at>>},
                                                   !.top = {q.at}]
      BY <3>1, <1>2 DEF Locals
    <3> HIDE DEF s
    <3> QED BY <1>6, <3>2 DEF Begun, b
  <2> HIDE DEF s
  <2>6. /\ r \in Locals /\ r.ask = q.ask /\ r.at = q.at /\ r.pc = "search" /\ r.tag = tag
        /\ r.vl = q.vl /\ r.todo = q.todo /\ r.top = {q.at}
        /\ r.candidate_set = {<<Distance(q, q.at), q.at>>}
        /\ r.condition = Added(q.condition, q.at)
        /\ ~ TooMany(s) => r.lowerBound = Distance(s, Farthest(s))
    BY <1>4, <2>3, <2>4, <2>5, BoundedFacts
  <2>7. Asking(r)
    BY <2>6 DEF Asking, Start
  <2>8. TooMany(r) <=> TooMany(s)
    BY <1>4, <2>3, <2>6 DEF TooMany, Kind, ef
  <2>9. Farthest(r) = Farthest(s) /\ \A n : Distance(r, n) = Distance(s, n)
    BY <2>3, <2>6 DEF Farthest, Distance
  <2> QED BY <1>6, <2>6, <2>7, <2>8, <2>9
<1> QED BY <1>5, <1>6

\* r is q after a look at n.
LookedAs(q, n, r) ==
  /\ r \in Locals /\ Asking(r) /\ r.pc = q.pc /\ r.tag = q.tag /\ r.ask = q.ask
  /\ r.at = q.at /\ r.vl = q.vl /\ r.todo = q.todo \ {n}
  /\ ~ Considered(q, n) => /\ r.candidate_set = q.candidate_set /\ r.top = q.top
                           /\ r.condition = q.condition /\ r.lowerBound = q.lowerBound
  /\ Considered(q, n) =>
       /\ r.candidate_set = q.candidate_set \cup {<<Distance(q, n), n>>}
       /\ r.top = q.top \cup ({n} \ Hidden(q))
       /\ r.condition = IF n \in Hidden(q) THEN q.condition ELSE Added(q.condition, n)
       /\ r.top = {} => r.lowerBound = q.lowerBound
       /\ r.top # {} /\ ~ TooMany(r) => r.lowerBound = Distance(r, Farthest(r))

\* What a search makes of a neighbour that is not marked
LEMMA LookedFacts ==
  ASSUME ix \in Queried, NEW q \in Locals, Asking(q), NEW n \in Ids(ix), NEW r, r = Looked(q, n)
  PROVE  LookedAs(q, n, r)
<1> USE DEF LookedAs
<1> DEFINE p == Passed(q, n)
           b == [p EXCEPT !.candidate_set = @ \cup {<<Distance(q, n), n>>}]
           a == [b EXCEPT !.condition = Added(b.condition, n), !.top = @ \cup {n}]
           s == IF n \in Hidden(q) THEN b ELSE a
<1>1. p \in Locals /\ p = [q EXCEPT !.todo = q.todo \ {n}]
  BY DEF Passed, Locals
<1>2. Distance(q, n) \in Nat
  BY AskedFacts
<1>3. /\ p.pc = q.pc /\ p.tag = q.tag /\ p.ask = q.ask /\ p.at = q.at /\ p.vl = q.vl
      /\ p.todo = q.todo \ {n} /\ p.candidate_set = q.candidate_set /\ p.top = q.top
      /\ p.condition = q.condition /\ p.lowerBound = q.lowerBound
  BY <1>1 DEF Locals
<1> HIDE DEF p
<1>4. CASE ~ Considered(q, n)
  <2>1. r = p
    BY <1>4 DEF Looked, p
  <2> QED BY <1>1, <1>3, <1>4, <2>1 DEF Asking, Start
<1>5. CASE Considered(q, n)
  <2>1. p.candidate_set \cup {<<Distance(q, n), n>>} \in SUBSET (Nat \X Ids(ix))
    BY <1>1, <1>2 DEF Locals
  <2>2. /\ b \in Locals /\ b.pc = q.pc /\ b.tag = q.tag /\ b.ask = q.ask /\ b.at = q.at /\ b.vl = q.vl
        /\ b.todo = q.todo \ {n} /\ b.top = q.top /\ b.condition = q.condition
        /\ b.candidate_set = q.candidate_set \cup {<<Distance(q, n), n>>}
        /\ b.lowerBound = q.lowerBound
    BY <1>1, <1>3, <2>1, ZenonT(30) DEF Locals
  <2>3. Asking(b)
    BY <2>2 DEF Asking, Start
  <2>4. Added(b.condition, n) = Added(q.condition, n) /\ Added(b.condition, n) \in Conditions
    <3>1. Added(b.condition, n) = Added(q.condition, n)
      BY <2>2 DEF Added
    <3>2. b.condition \in Conditions
      BY <2>2 DEF Locals
    <3> QED BY <2>3, <3>1, <3>2, ConditionTypes
  <2>5. add_point_to_result(b, n) = [b EXCEPT !.condition = Added(b.condition, n)]
    BY <2>2, <2>3, AddFacts
  <2>6. r = Bounded(s)
    <3>1. a = [add_point_to_result(b, n) EXCEPT !.top = @ \cup {n}]
      BY <2>2, <2>5 DEF Locals
    <3> HIDE DEF a
    <3> QED BY <1>5, <3>1 DEF Looked, p
  <2> HIDE DEF b
  <2>7. /\ s \in Locals /\ s.pc = q.pc /\ s.tag = q.tag /\ s.ask = q.ask /\ s.at = q.at /\ s.vl = q.vl
        /\ s.todo = q.todo \ {n} /\ s.top = q.top \cup ({n} \ Hidden(q))
        /\ s.condition = IF n \in Hidden(q) THEN q.condition ELSE Added(q.condition, n)
        /\ s.candidate_set = q.candidate_set \cup {<<Distance(q, n), n>>}
      /\ s.lowerBound = q.lowerBound
    <3>1. CASE n \in Hidden(q)
      BY <2>2, <3>1
    <3>2. CASE n \notin Hidden(q)
      BY <2>2, <2>4, <3>2 DEF Locals
    <3> QED BY <3>1, <3>2
  <2>8. Asking(s)
    BY <2>7 DEF Asking, Start
  <2> HIDE DEF s
  <2>9. /\ r \in Locals /\ r.pc = s.pc /\ r.tag = s.tag /\ r.ask = s.ask /\ r.at = s.at /\ r.vl = s.vl
        /\ r.todo = s.todo /\ r.top = s.top /\ r.condition = s.condition /\ r.candidate_set = s.candidate_set
        /\ s.top = {} => r.lowerBound = s.lowerBound
        /\ s.top # {} /\ ~ TooMany(s) => r.lowerBound = Distance(s, Farthest(s))
    BY <2>6, <2>7, <2>8, BoundedFacts
  <2>10. Asking(r)
    BY <2>8, <2>9 DEF Asking, Start
  <2>11. TooMany(r) <=> TooMany(s)
    BY <2>9 DEF TooMany, Kind, ef
  <2>12. Farthest(r) = Farthest(s) /\ \A m : Distance(r, m) = Distance(s, m)
    BY <2>9 DEF Farthest, Distance
  <2> QED BY <1>5, <2>7, <2>9, <2>10, <2>11, <2>12
<1> QED BY <1>4, <1>5

\* r is q without the result n, which the condition takes for one of document d.
LighterBy(q, n, d, r) ==
  /\ r \in Locals /\ Asking(r) /\ r.pc = q.pc /\ r.tag = q.tag /\ r.ask = q.ask
  /\ r.at = q.at /\ r.vl = q.vl /\ r.todo = q.todo /\ r.candidate_set = q.candidate_set
  /\ r.top = q.top \ {n} /\ r.condition = Removed(q.condition, d, HeapTop(q))
  /\ r.top # {} /\ ~ TooMany(r) => r.lowerBound = Distance(r, Farthest(r))

\* The result too many goes, and the bound follows.
LEMMA ExtraFacts ==
  ASSUME ix \in Queried, NEW q \in Locals, Asking(q), NEW n, NEW d, NEW r,
         r = Bounded(Without(q, n, d))
  PROVE  LighterBy(q, n, d, r)
<1> USE DEF LighterBy
<1> DEFINE s == Without(q, n, d)
<1>1. /\ s \in Locals /\ Asking(s)
      /\ s = [q EXCEPT !.condition = Removed(q.condition, d, HeapTop(q)), !.top = @ \ {n}]
  BY WithoutFacts
<1> HIDE DEF s
<1>2. /\ s.pc = q.pc /\ s.tag = q.tag /\ s.ask = q.ask /\ s.at = q.at /\ s.vl = q.vl
      /\ s.todo = q.todo /\ s.candidate_set = q.candidate_set
      /\ s.top = q.top \ {n} /\ s.condition = Removed(q.condition, d, HeapTop(q))
  BY <1>1 DEF Locals
<1>3. /\ r \in Locals /\ r.pc = s.pc /\ r.tag = s.tag /\ r.ask = s.ask /\ r.at = s.at /\ r.vl = s.vl
      /\ r.todo = s.todo /\ r.top = s.top /\ r.condition = s.condition /\ r.candidate_set = s.candidate_set
      /\ s.top # {} /\ ~ TooMany(s) => r.lowerBound = Distance(s, Farthest(s))
  BY <1>1, BoundedFacts DEF s
<1>4. Asking(r)
  BY <1>1, <1>3 DEF Asking, Start
<1>5. TooMany(r) <=> TooMany(s)
  BY <1>3 DEF TooMany, Kind, ef
<1>6. Farthest(r) = Farthest(s) /\ \A m : Distance(r, m) = Distance(s, m)
  BY <1>3 DEF Farthest, Distance
<1> QED BY <1>2, <1>3, <1>4, <1>5, <1>6

\* There is a closest candidate; the search goes on with one if it does with
\* any of them.
LEMMA ClosestCandidateFacts ==
  ASSUME NEW q \in Locals
  PROVE  /\ q.candidate_set # {} => ClosestCandidates(q) # {}
         /\ \A c \in ClosestCandidates(q) :
              /\ c \in q.candidate_set /\ c[2] \in Ids(ix)
              /\ \A d \in q.candidate_set : c[1] <= d[1]
              /\ GoesOn(q) <=> ~ ShouldStop(q, c[1])
<1> DEFINE T == {c[1] : c \in q.candidate_set}
<1>1. q.candidate_set \subseteq Nat \X Ids(ix)
  BY DEF Locals
<1>2. ASSUME q.candidate_set # {} PROVE ClosestCandidates(q) # {}
  <2>1. T \subseteq Nat /\ T # {}
    BY <1>1, <1>2
  <2>2. PICK d \in T : \A e \in T : d <= e
    <3> HIDE DEF T
    <3> QED BY <2>1, Minimum
  <2>3. \E c \in q.candidate_set : \A d1 \in q.candidate_set : c[1] <= d1[1]
    BY <2>2
  <2> QED BY <2>3 DEF ClosestCandidates
<1>3. ASSUME NEW c \in ClosestCandidates(q)
      PROVE  /\ c \in q.candidate_set /\ c[2] \in Ids(ix)
             /\ \A d \in q.candidate_set : c[1] <= d[1]
             /\ GoesOn(q) <=> ~ ShouldStop(q, c[1])
  <2>1. \A d \in ClosestCandidates(q) : d[1] = c[1]
    BY <1>1 DEF ClosestCandidates
  <2>2. GoesOn(q) <=> ~ ShouldStop(q, c[1])
    BY <2>1 DEF GoesOn
  <2> QED BY <1>1, <2>2 DEF ClosestCandidates
<1> QED BY <1>2, <1>3

\* Only one thread's locals change, and they keep their type.
LEMMA TypesKept ==
  ASSUME QueriesTypeOK, UNCHANGED ix, NEW t \in Threads, NEW r, r \in Locals,
         r.pc \notin {"idle", "undefined"} => Asking(r), my' = [my EXCEPT ![t] = r]
  PROVE  /\ (ix \in Queried)' /\ (my \in [Threads -> Locals])'
         /\ (\A u \in Threads : my[u].pc \notin {"idle", "undefined"} => Asking(my[u]))'
<1>1. Locals' = Locals
  BY DEF Locals, Asked, AllDocuments, Conditions, Ids
<1>2. my' \in [Threads -> Locals] /\ ix' \in Queried
  BY DEF QueriesTypeOK
<1>3. \A u \in Threads : my'[u].pc \notin {"idle", "undefined"} => Asking(my'[u])
  BY DEF QueriesTypeOK
<1>4. ASSUME NEW q, Asking(q) PROVE Asking(q)'
  BY <1>4 DEF Asking, Asked, Start
<1>5. ASSUME NEW u \in Threads, my'[u].pc \notin {"idle", "undefined"} PROVE Asking(my[u])'
  <2> PICK q : q = my'[u]
    OBVIOUS
  <2>1. Asking(q)'
    BY <1>3, <1>4, <1>5
  <2> QED BY <2>1 DEF Asking, Start
<1> QED BY <1>1, <1>2, <1>5

\* What every step of a search starts from
LEMMA SearcherFacts ==
  ASSUME QueriesTypeOK, NEW t \in Threads, my[t].pc \notin {"idle", "undefined"}
  PROVE  ix \in Queried /\ my[t] \in Locals /\ Asking(my[t]) /\ WellFormed(ix, M)
BY AskedFacts DEF QueriesTypeOK

\* With the locals of one thread only, the lists stay owned if that thread
\* keeps its list, or gives up using one.
LEMMA StaysOwned ==
  ASSUME QueriesTypeOK, ListsOwned, NEW t \in Threads, NEW r,
         my' = [my EXCEPT ![t] = r], UNCHANGED <<ix, pool, mass, curV>>,
         r.pc \in {"begin", "search"} => /\ r.pc = my[t].pc /\ r.vl = my[t].vl /\ r.tag = my[t].tag
  PROVE  ListsOwned'
<1>1. \A u \in Threads : my'[u].pc \in {"begin", "search"} =>
        my'[u].pc = my[u].pc /\ my'[u].vl = my[u].vl /\ my'[u].tag = my[u].tag
  BY DEF QueriesTypeOK
<1>2. (\A u \in Threads : Uses(u) => /\ my[u].vl \in 1 .. Len(mass)
                                     /\ \A a \in 1 .. Len(pool) : pool[a] # my[u].vl)'
  BY <1>1 DEF ListsOwned, Uses
<1>3. (\A u, v \in Threads : Uses(u) /\ Uses(v) /\ my[u].vl = my[v].vl => u = v)'
  BY <1>1 DEF ListsOwned, Uses
<1>4. (\A u \in Threads : my[u].pc = "search" => my[u].tag = curV[my[u].vl])'
  BY <1>1 DEF ListsOwned
<1> QED BY <1>2, <1>3, <1>4 DEF ListsOwned

\* Types alone, where no list is touched
LEMMA NoListTypes ==
  ASSUME QueriesTypeOK, UNCHANGED <<ix, pool, mass, curV>>, NEW t \in Threads, NEW r, r \in Locals,
         r.pc \notin {"idle", "undefined"} => Asking(r), my' = [my EXCEPT ![t] = r]
  PROVE  QueriesTypeOK'
<1>1. /\ (ix \in Queried)' /\ (my \in [Threads -> Locals])'
      /\ (\A u \in Threads : my[u].pc \notin {"idle", "undefined"} => Asking(my[u]))'
  BY TypesKept
<1>2. /\ (mass \in Seq([Ids(ix) -> Tags]))' /\ (curV \in Seq(Tags) /\ Len(curV) = Len(mass))'
      /\ (pool \in Seq(1 .. Len(mass)))'
  BY DEF QueriesTypeOK
<1> QED BY <1>1, <1>2 DEF QueriesTypeOK

\* A thread that has not asked
LEMMA IdleType ==
  ASSUME NEW a \in {NoQuestion} \cup Asked, NEW S \in SUBSET (Ids(ix) \cup {Label(n) : n \in Ids(ix)})
  PROVE  [Idle EXCEPT !.ask = a, !.answer = S] \in Locals /\ Idle \in Locals
<1>1. NewCondition \in Conditions
  BY DEF NewCondition, Conditions, AllDocuments
<1>2. FarAway \in Int /\ 0 \in Tags
  BY QueriesAssumption DEF Tags
<1>3. Idle \in Locals
  BY <1>1, <1>2 DEF Idle, Locals
<1> QED BY <1>3 DEF Locals

\* Asking
LEMMA AskTypes ==
  ASSUME QueriesTypeOK, ListsOwned, NEW t \in Threads, Ask(t)
  PROVE  /\ QueriesTypeOK' /\ ListsOwned'
         /\ \E r \in Locals : my' = [my EXCEPT ![t] = r] /\ r.pc = "take" /\ Asking(r) /\ Fresh(r)
                              /\ r.answer = {}
<1>1. PICK a \in Questions(ix, t) :
        my' = [my EXCEPT ![t] = [Idle EXCEPT !.pc = "take", !.ask = a,
                 !.at = DescendFrom(ix, a.vector, ix.enterpoint_node_, ix.maxlevel_, 0)]]
  BY DEF Ask
<1> DEFINE e == DescendFrom(ix, a.vector, ix.enterpoint_node_, ix.maxlevel_, 0)
           r == [Idle EXCEPT !.pc = "take", !.ask = a, !.at = e]
           b == [Idle EXCEPT !.ask = a, !.at = e]
<1>2. a \in Asked /\ ix \in Queried
  BY DEF Asked, QueriesTypeOK
<1>3. Idle \in Locals
  BY <1>2, IdleType
<1>4. Idle.candidate_set = {} /\ Idle.top = {} /\ Idle.todo = {} /\ Idle.answer = {}
      /\ Idle.condition = NewCondition /\ Idle.lowerBound = FarAway
  BY DEF Idle
<1>5. b.ask = a /\ b.at = e
  BY <1>3 DEF Locals
<1>6. Asking(b)
  BY <1>2, <1>5 DEF Asking, Start
<1>7. e \in Ids(ix)
  BY <1>2, <1>5, <1>6, AskedFacts
<1>8. r \in Locals /\ r.pc = "take" /\ r.ask = a /\ r.at = e
  BY <1>2, <1>3, <1>7 DEF Locals
<1>9. Asking(r)
  BY <1>2, <1>8 DEF Asking, Start
<1>10. Fresh(r) /\ r.answer = {}
  BY <1>3, <1>4 DEF Fresh, Locals
<1> HIDE DEF r
<1>11. my' = [my EXCEPT ![t] = r] /\ UNCHANGED <<ix, pool, mass, curV>>
  BY <1>1 DEF Ask, r
<1>12. QueriesTypeOK'
  BY <1>8, <1>9, <1>11, NoListTypes
<1>13. ListsOwned'
  BY <1>8, <1>11, StaysOwned
<1> QED BY <1>8, <1>9, <1>10, <1>11, <1>12, <1>13

\* Taking a list: from the pool, or a new one
LEMMA TakeTypes ==
  ASSUME QueriesTypeOK, ListsOwned, NEW t \in Threads, TakeList(t)
  PROVE  /\ QueriesTypeOK' /\ ListsOwned'
         /\ \E v \in Nat : my' = [my EXCEPT ![t] = [my[t] EXCEPT !.pc = "begin", !.vl = v]]
         /\ \A v \in 1 .. Len(mass) : mass'[v] = mass[v] /\ v \in 1 .. Len(mass')
<1> DEFINE q == my[t]
           rec(v) == [q EXCEPT !.pc = "begin", !.vl = v]
<1>1. q \in Locals /\ Asking(q) /\ q.pc = "take" /\ UNCHANGED ix
  BY SearcherFacts DEF TakeList
<1>2. ASSUME NEW v \in Nat, my' = [my EXCEPT ![t] = rec(v)]
      PROVE  /\ (ix \in Queried)' /\ (my \in [Threads -> Locals])'
             /\ (\A u \in Threads : my[u].pc \notin {"idle", "undefined"} => Asking(my[u]))'
             /\ my'[t].pc = "begin" /\ my'[t].vl = v
             /\ \A u \in Threads \ {t} : my'[u] = my[u]
  <2> DEFINE r == rec(v)
  <2>1. r \in Locals /\ r.ask = q.ask /\ r.at = q.at /\ r.pc = "begin" /\ r.vl = v
    BY <1>1 DEF Locals
  <2>2. Asking(r)
    BY <1>1, <2>1 DEF Asking, Start
  <2>3. my' = [my EXCEPT ![t] = r]
    BY <1>2
  <2> HIDE DEF r
  <2>4. /\ (ix \in Queried)' /\ (my \in [Threads -> Locals])'
        /\ (\A u \in Threads : my[u].pc \notin {"idle", "undefined"} => Asking(my[u]))'
    BY <1>1, <2>1, <2>2, <2>3, TypesKept
  <2> QED BY <2>1, <2>3, <2>4 DEF QueriesTypeOK
<1>3. CASE pool # <<>>
  <2>1. /\ my' = [my EXCEPT ![t] = rec(Head(pool))] /\ pool' = Tail(pool)
        /\ UNCHANGED <<mass, curV>>
    BY <1>3 DEF TakeList
  <2>2. Len(pool) \in Nat /\ Len(pool) >= 1 /\ Head(pool) = pool[1] /\ pool[1] \in 1 .. Len(mass)
    BY <1>3 DEF QueriesTypeOK
  <2>3. /\ pool' \in Seq(1 .. Len(mass)) /\ Len(pool') = Len(pool) - 1
        /\ \A a \in 1 .. Len(pool') : pool'[a] = pool[a + 1]
    BY <1>3, <2>1 DEF QueriesTypeOK
  <2>4. Head(pool) \in Nat /\ Head(pool) \in 1 .. Len(mass)
    <3>1. Len(mass) \in Nat
      BY DEF QueriesTypeOK
    <3> QED BY <2>2, <3>1
  <2>5. QueriesTypeOK'
    <3>1. /\ (ix \in Queried)' /\ (my \in [Threads -> Locals])'
          /\ (\A u \in Threads : my[u].pc \notin {"idle", "undefined"} => Asking(my[u]))'
      BY <1>2, <2>1, <2>4
    <3>2. (mass \in Seq([Ids(ix) -> Tags]))' /\ (curV \in Seq(Tags) /\ Len(curV) = Len(mass))'
      BY <1>1, <2>1 DEF QueriesTypeOK, Ids
    <3>3. (pool \in Seq(1 .. Len(mass)))'
      BY <2>1, <2>3
    <3> QED BY <3>1, <3>2, <3>3 DEF QueriesTypeOK
  <2>6. ListsOwned'
    <3>1. /\ my'[t].pc = "begin" /\ my'[t].vl = pool[1]
          /\ \A u \in Threads \ {t} : my'[u] = my[u]
      BY <1>2, <2>1, <2>2, <2>4
    <3>2. \A a, b \in 1 .. Len(pool') : pool'[a] = pool'[b] => a = b
      <4> SUFFICES ASSUME NEW a \in 1 .. Len(pool'), NEW b \in 1 .. Len(pool'), pool'[a] = pool'[b]
                   PROVE  a = b
        OBVIOUS
      <4>1. a + 1 \in 1 .. Len(pool) /\ b + 1 \in 1 .. Len(pool) /\ pool[a + 1] = pool[b + 1]
        BY <2>2, <2>3
      <4>2. a + 1 = b + 1
        BY <4>1 DEF ListsOwned
      <4> QED BY <4>2, <2>2, <2>3
    <3>3. \A a \in 1 .. Len(pool') : pool'[a] # pool[1]
      <4> SUFFICES ASSUME NEW a \in 1 .. Len(pool'), pool'[a] = pool[1] PROVE FALSE
        OBVIOUS
      <4>1. a + 1 \in 1 .. Len(pool) /\ 1 \in 1 .. Len(pool) /\ pool[a + 1] = pool[1]
        BY <2>2, <2>3
      <4>2. a + 1 = 1
        BY <4>1 DEF ListsOwned
      <4> QED BY <4>2, <2>2, <2>3
    <3>4. ASSUME NEW u \in Threads, Uses(u)'
          PROVE  my'[u].vl \in 1 .. Len(mass) /\ \A a \in 1 .. Len(pool') : pool'[a] # my'[u].vl
      <4>1. CASE u = t
        BY <3>1, <3>3, <4>1, <2>2
      <4>2. CASE u # t
        <5>1. Uses(u) /\ my'[u].vl = my[u].vl
          BY <3>1, <3>4, <4>2 DEF Uses
        <5>2. my[u].vl \in 1 .. Len(mass) /\ \A a \in 1 .. Len(pool) : pool[a] # my[u].vl
          BY <5>1 DEF ListsOwned
        <5>3. \A a \in 1 .. Len(pool') : a + 1 \in 1 .. Len(pool)
          BY <2>2, <2>3
        <5> QED BY <5>1, <5>2, <5>3, <2>3
      <4> QED BY <4>1, <4>2
    <3>5. ASSUME NEW u \in Threads, NEW w \in Threads, Uses(u)', Uses(w)', my'[u].vl = my'[w].vl
          PROVE  u = w
      <4>1. \A z \in Threads \ {t} : Uses(z)' => Uses(z) /\ my'[z].vl = my[z].vl /\ my[z].vl # pool[1]
        <5>1. 1 \in 1 .. Len(pool)
          BY <2>2
        <5> QED BY <3>1, <5>1 DEF Uses, ListsOwned
      <4>2. CASE u = t \/ w = t
        BY <3>1, <3>5, <4>1, <4>2
      <4>3. CASE u # t /\ w # t
        <5>1. Uses(u) /\ Uses(w) /\ my[u].vl = my[w].vl
          BY <3>5, <4>1, <4>3
        <5> QED BY <5>1 DEF ListsOwned
      <4> QED BY <4>2, <4>3
    <3>6. \A v \in 1 .. Len(mass) : curV[v] = TagCount - 1 \/ \A n \in Ids(ix) : mass[v][n] <= curV[v]
      BY DEF ListsOwned
    <3>7. \A u \in Threads : my'[u].pc = "search" => my'[u].tag = curV[my'[u].vl]
      BY <3>1 DEF ListsOwned
    <3> QED BY <1>1, <2>1, <3>2, <3>4, <3>5, <3>6, <3>7 DEF ListsOwned, Ids
  <2> QED BY <2>1, <2>4, <2>5, <2>6
<1>4. CASE pool = <<>>
  <2>1. PICK g \in Garbage :
          /\ my' = [my EXCEPT ![t] = rec(Len(mass) + 1)] /\ mass' = Append(mass, [n \in Ids(ix) |-> g])
          /\ curV' = Append(curV, TagCount - 1) /\ UNCHANGED pool
    BY <1>4 DEF TakeList
  <2>2. Len(mass) \in Nat /\ Len(curV) = Len(mass) /\ Len(mass) + 1 \in Nat
    BY DEF QueriesTypeOK
  <2>3. /\ mass' \in Seq([Ids(ix) -> Tags]) /\ Len(mass') = Len(mass) + 1
        /\ \A v \in 1 .. Len(mass) : mass'[v] = mass[v]
    <3>1. [n \in Ids(ix) |-> g] \in [Ids(ix) -> Tags]
      BY QueriesAssumption
    <3> QED BY <2>1, <3>1 DEF QueriesTypeOK
  <2>4. /\ curV' \in Seq(Tags) /\ Len(curV') = Len(mass) + 1
        /\ \A v \in 1 .. Len(mass) : curV'[v] = curV[v]
        /\ curV'[Len(mass) + 1] = TagCount - 1
    <3>1. TagCount - 1 \in Tags
      BY QueriesAssumption DEF Tags
    <3> QED BY <2>1, <2>2, <3>1 DEF QueriesTypeOK
  <2>5. QueriesTypeOK'
    <3>1. /\ (ix \in Queried)' /\ (my \in [Threads -> Locals])'
          /\ (\A u \in Threads : my[u].pc \notin {"idle", "undefined"} => Asking(my[u]))'
      BY <1>2, <2>1, <2>2
    <3>2. (mass \in Seq([Ids(ix) -> Tags]))' /\ (curV \in Seq(Tags) /\ Len(curV) = Len(mass))'
      BY <1>1, <2>3, <2>4 DEF Ids
    <3>3. (pool \in Seq(1 .. Len(mass)))'
      BY <1>4, <2>1
    <3> QED BY <3>1, <3>2, <3>3 DEF QueriesTypeOK
  <2>6. ListsOwned'
    <3>1. /\ my'[t].pc = "begin" /\ my'[t].vl = Len(mass) + 1
          /\ \A u \in Threads \ {t} : my'[u] = my[u]
      BY <1>2, <2>1, <2>2
    <3>2. pool' = <<>> /\ Len(pool') = 0
      BY <1>4, <2>1
    <3>3. ASSUME NEW u \in Threads \ {t}, Uses(u)'
          PROVE  Uses(u) /\ my'[u] = my[u] /\ my[u].vl \in 1 .. Len(mass)
      BY <3>1, <3>3 DEF Uses, ListsOwned
    <3>4. \A u \in Threads : Uses(u)' => my'[u].vl \in 1 .. Len(mass')
      BY <2>2, <2>3, <3>1, <3>3
    <3>5. ASSUME NEW u \in Threads, NEW w \in Threads, Uses(u)', Uses(w)', my'[u].vl = my'[w].vl
          PROVE  u = w
      <4>1. CASE u = t \/ w = t
        BY <2>2, <3>1, <3>3, <3>5, <4>1
      <4>2. CASE u # t /\ w # t
        <5>1. Uses(u) /\ Uses(w) /\ my[u].vl = my[w].vl
          BY <3>3, <3>5, <4>2
        <5> QED BY <5>1 DEF ListsOwned
      <4> QED BY <4>1, <4>2
    <3>6. ASSUME NEW v \in 1 .. Len(mass')
          PROVE  curV'[v] = TagCount - 1 \/ \A n \in Ids(ix) : mass'[v][n] <= curV'[v]
      <4>1. CASE v = Len(mass) + 1
        BY <2>4, <4>1
      <4>2. CASE v \in 1 .. Len(mass)
        BY <2>3, <2>4, <4>2 DEF ListsOwned
      <4> QED BY <2>2, <2>3, <4>1, <4>2
    <3>7. \A u \in Threads : my'[u].pc = "search" => my'[u].tag = curV'[my'[u].vl]
      <4>1. \A u \in Threads \ {t} : my'[u].pc = "search" => Uses(u)'
        BY DEF Uses
      <4> QED BY <2>4, <3>1, <3>3, <4>1 DEF ListsOwned
    <3>8. \A a \in 1 .. Len(pool') : FALSE
      BY <3>2
    <3> QED BY <1>1, <3>4, <3>5, <3>6, <3>7, <3>8 DEF ListsOwned, Ids
  <2>7. \E v \in Nat : my' = [my EXCEPT ![t] = [my[t] EXCEPT !.pc = "begin", !.vl = v]]
    BY <2>1, <2>2
  <2>8. \A v \in 1 .. Len(mass) : mass'[v] = mass[v] /\ v \in 1 .. Len(mass')
    BY <2>2, <2>3
  <2> QED BY <2>5, <2>6, <2>7, <2>8
<1> QED BY <1>3, <1>4

\* Remainders of small numbers
LEMMA SmallRemainder ==
  ASSUME NEW n \in Nat \ {0}, NEW k \in 0 .. n - 1
  PROVE  k % n = k
BY Z3

\* The tag of a new search is on no element of its list.
LEMMA ResetFacts ==
  ASSUME QueriesTypeOK, ListsOwned, NEW v \in 1 .. Len(mass)
  PROVE  /\ reset(v).tag \in Tags /\ reset(v).marks \in [Ids(ix) -> Tags]
         /\ \A n \in Ids(ix) : reset(v).marks[n] < reset(v).tag
<1>1. /\ curV[v] \in Tags /\ mass[v] \in [Ids(ix) -> Tags] /\ TagCount \in Nat /\ TagCount >= 2
  BY QueriesAssumption DEF QueriesTypeOK
<1>2. CASE curV[v] = TagCount - 1
  <2>1. (curV[v] + 1) % TagCount = 0
    BY <1>1, <1>2
  <2>2. reset(v) = [tag |-> 1, marks |-> [n \in Ids(ix) |-> 0]]
    BY <2>1 DEF reset
  <2> QED BY <1>1, <2>2 DEF Tags
<1>3. CASE curV[v] # TagCount - 1
  <2>1. curV[v] + 1 \in Tags /\ (curV[v] + 1) % TagCount = curV[v] + 1
    <3>1. curV[v] + 1 \in Tags
      BY <1>1, <1>3 DEF Tags
    <3> QED BY <1>1, <3>1, SmallRemainder DEF Tags
  <2>2. reset(v) = [tag |-> curV[v] + 1, marks |-> mass[v]]
    BY <1>1, <2>1 DEF reset, Tags
  <2>3. \A n \in Ids(ix) : mass[v][n] <= curV[v] /\ mass[v][n] \in Int
    BY <1>1, <1>3 DEF ListsOwned, Tags
  <2> QED BY <1>1, <2>1, <2>2, <2>3 DEF Tags
<1> QED BY <1>2, <1>3

\* A search begins with nothing marked but its start.
LEMMA BeginTypes ==
  ASSUME QueriesTypeOK, ListsOwned, NEW t \in Threads, Begin(t)
  PROVE  /\ QueriesTypeOK' /\ ListsOwned'
         /\ \E tag \in Tags : my' = [my EXCEPT ![t] = Begun(my[t], tag)]
         /\ Marks(t)' = {my[t].at}
         /\ \A v \in 1 .. Len(mass) : v # my[t].vl => mass'[v] = mass[v]
<1> DEFINE q == my[t]
           v == q.vl
           tag == reset(v).tag
           r == Begun(q, tag)
           row == [reset(v).marks EXCEPT ![q.at] = tag]
<1>1. /\ q \in Locals /\ Asking(q) /\ q.pc = "begin" /\ ix \in Queried /\ q.at \in Ids(ix)
      /\ UNCHANGED <<ix, pool>>
  BY SearcherFacts, AskedFacts DEF Begin
<1>2. v \in 1 .. Len(mass) /\ \A a \in 1 .. Len(pool) : pool[a] # v
  BY <1>1 DEF ListsOwned, Uses
<1>3. /\ tag \in Tags /\ reset(v).marks \in [Ids(ix) -> Tags]
      /\ \A n \in Ids(ix) : reset(v).marks[n] < tag
  BY <1>2, ResetFacts
<1>4. /\ my' = [my EXCEPT ![t] = r] /\ curV' = [curV EXCEPT ![v] = tag] /\ mass' = [mass EXCEPT ![v] = row]
  BY DEF Begin
<1> HIDE DEF tag
<1>5. /\ r \in Locals /\ Asking(r) /\ r.pc = "search" /\ r.tag = tag /\ r.vl = v
  <2>1. r = Begun(q, tag)
    OBVIOUS
  <2> HIDE DEF r, q
  <2>2. BegunAs(q, tag, r)
    BY <1>1, <1>3, <2>1, BegunFacts
  <2> QED BY <2>2 DEF BegunAs
<1>6. /\ row \in [Ids(ix) -> Tags]
      /\ \A n \in Ids(ix) : row[n] <= tag /\ (row[n] = tag <=> n = q.at)
  BY <1>1, <1>3 DEF Tags
<1> HIDE DEF r, row, v
<1>7. /\ Len(mass) \in Nat /\ Len(curV) = Len(mass) /\ Len(mass') = Len(mass) /\ Len(curV') = Len(mass)
      /\ mass' \in Seq([Ids(ix) -> Tags]) /\ curV' \in Seq(Tags)
      /\ mass'[v] = row /\ curV'[v] = tag
      /\ \A w \in 1 .. Len(mass) : w # v => mass'[w] = mass[w] /\ curV'[w] = curV[w]
  <2>1. mass \in Seq([Ids(ix) -> Tags]) /\ curV \in Seq(Tags) /\ Len(curV) = Len(mass)
    BY DEF QueriesTypeOK
  <2> QED BY <2>1, <1>2, <1>3, <1>4, <1>6
<1>8. QueriesTypeOK'
  <2>1. /\ (ix \in Queried)' /\ (my \in [Threads -> Locals])'
        /\ (\A u \in Threads : my[u].pc \notin {"idle", "undefined"} => Asking(my[u]))'
    BY <1>1, <1>4, <1>5, TypesKept
  <2>2. (mass \in Seq([Ids(ix) -> Tags]))' /\ (curV \in Seq(Tags) /\ Len(curV) = Len(mass))'
    BY <1>1, <1>7 DEF Ids
  <2>3. (pool \in Seq(1 .. Len(mass)))'
    BY <1>1, <1>7 DEF QueriesTypeOK
  <2> QED BY <2>1, <2>2, <2>3 DEF QueriesTypeOK
<1>9. ListsOwned'
  <2>1. my'[t] = r /\ \A u \in Threads \ {t} : my'[u] = my[u]
    BY <1>4 DEF QueriesTypeOK
  <2>2. \A u \in Threads : Uses(u)' => Uses(u) /\ my'[u].vl = my[u].vl
    BY <1>1, <1>5, <2>1 DEF Uses, v
  <2>3. \A u \in Threads : Uses(u)' => /\ my'[u].vl \in 1 .. Len(mass')
                                      /\ \A a \in 1 .. Len(pool') : pool'[a] # my'[u].vl
    BY <1>1, <1>7, <2>2 DEF ListsOwned
  <2>4. \A u, w \in Threads : Uses(u)' /\ Uses(w)' /\ my'[u].vl = my'[w].vl => u = w
    BY <2>2 DEF ListsOwned
  <2>5. \A w \in 1 .. Len(mass') : curV'[w] = TagCount - 1 \/ \A n \in Ids(ix) : mass'[w][n] <= curV'[w]
    <3> SUFFICES ASSUME NEW w \in 1 .. Len(mass)
                 PROVE  curV'[w] = TagCount - 1 \/ \A n \in Ids(ix) : mass'[w][n] <= curV'[w]
      BY <1>7
    <3>1. CASE w = v
      BY <1>6, <1>7, <3>1
    <3>2. CASE w # v
      BY <1>7, <3>2 DEF ListsOwned
    <3> QED BY <3>1, <3>2
  <2>6. ASSUME NEW u \in Threads, my'[u].pc = "search" PROVE my'[u].tag = curV'[my'[u].vl]
    <3>1. CASE u = t
      BY <1>5, <1>7, <2>1, <3>1
    <3>2. CASE u # t
      <4>1. my'[u] = my[u] /\ Uses(u) /\ Uses(t) /\ my[u].pc = "search"
        BY <1>1, <2>1, <2>6, <3>2 DEF Uses
      <4>2. my[u].vl # v /\ my[u].vl \in 1 .. Len(mass) /\ my[u].tag = curV[my[u].vl]
        BY <3>2, <4>1 DEF ListsOwned, v
      <4> QED BY <4>1, <4>2, <1>7
    <3> QED BY <3>1, <3>2
  <2>7. \A a, b \in 1 .. Len(pool) : pool[a] = pool[b] => a = b
    BY DEF ListsOwned
  <2> QED BY <1>1, <2>3, <2>4, <2>5, <2>6, <2>7 DEF ListsOwned, Ids
<1>10. Marks(t)' = {q.at}
  <2>1. my'[t] = r
    BY <1>4 DEF QueriesTypeOK
  <2>2. Marks(t)' = {n \in Ids(ix) : row[n] = tag}
    BY <1>1, <1>5, <1>7, <2>1 DEF Marks, Ids
  <2> QED BY <1>1, <1>6, <2>2
<1> QED BY <1>3, <1>4, <1>7, <1>8, <1>9, <1>10 DEF r, v

\* r is q with its candidate c expanded.
ExpandedAs(q, c, r) ==
  /\ r \in Locals /\ Asking(r) /\ r.pc = q.pc /\ r.tag = q.tag /\ r.ask = q.ask
  /\ r.at = q.at /\ r.vl = q.vl /\ r.top = q.top /\ r.condition = q.condition
  /\ r.lowerBound = q.lowerBound
  /\ r.candidate_set = q.candidate_set \ {c}
  /\ r.todo = ix.links[0][c[2]]

\* Marks of a thread whose list and tag stay as they are
LEMMA MarksKept ==
  ASSUME UNCHANGED ix, NEW u, my'[u].vl = my[u].vl, my'[u].tag = my[u].tag,
         mass'[my[u].vl] = mass[my[u].vl]
  PROVE  Marks(u)' = Marks(u)
BY DEF Marks, Ids

\* Expanding a candidate
LEMMA ExpandTypes ==
  ASSUME QueriesTypeOK, ListsOwned, NEW t \in Threads, Expand(t)
  PROVE  /\ QueriesTypeOK' /\ ListsOwned'
         /\ \E c \in ClosestCandidates(my[t]) : \E r :
              my' = [my EXCEPT ![t] = r] /\ ExpandedAs(my[t], c, r)
         /\ Marks(t)' = Marks(t)
<1> DEFINE q == my[t]
<1>1. PICK c \in ClosestCandidates(q) :
        my' = [my EXCEPT ![t] = [q EXCEPT !.candidate_set = @ \ {c}, !.todo = ix.links[0][c[2]]]]
  BY DEF Expand
<1> DEFINE r == [q EXCEPT !.candidate_set = @ \ {c}, !.todo = ix.links[0][c[2]]]
<1>2. /\ q.pc = "search" /\ my' = [my EXCEPT ![t] = r] /\ UNCHANGED <<ix, pool, mass, curV>>
  BY <1>1 DEF Expand, Between
<1>3. ix \in Queried /\ q \in Locals /\ Asking(q) /\ WellFormed(ix, M)
  BY <1>2, SearcherFacts
<1>4. c[2] \in Ids(ix)
  <2> HIDE DEF q
  <2> QED BY <1>1, <1>3, ClosestCandidateFacts
<1>5. ix.links[0][c[2]] \in SUBSET Ids(ix)
  BY <1>3, <1>4, IndexFacts, SMTT(30) DEF WellFormed
<1> HIDE DEF q
<1>6. /\ r \in Locals /\ r.pc = q.pc /\ r.tag = q.tag /\ r.ask = q.ask /\ r.at = q.at /\ r.vl = q.vl
      /\ r.top = q.top /\ r.condition = q.condition /\ r.lowerBound = q.lowerBound
      /\ r.candidate_set = q.candidate_set \ {c} /\ r.todo = ix.links[0][c[2]]
  BY <1>3, <1>5 DEF Locals
<1>7. Asking(r)
  BY <1>3, <1>6 DEF Asking, Start
<1> HIDE DEF r
<1>8. ExpandedAs(q, c, r)
  BY <1>6, <1>7 DEF ExpandedAs
<1>9. QueriesTypeOK' /\ ListsOwned'
  BY <1>2, <1>6, <1>7, NoListTypes, StaysOwned DEF q
<1>10. Marks(t)' = Marks(t)
  <2>1. my'[t] = r
    BY <1>2 DEF QueriesTypeOK
  <2> QED BY <1>2, <1>6, <2>1, MarksKept DEF q
<1> QED BY <1>1, <1>2, <1>8, <1>9, <1>10 DEF q

\* Passed over, when n is marked, or looked at
VisitedAs(q, n, marked, r) ==
  IF marked THEN r = Passed(q, n) /\ r \in Locals /\ Asking(r) ELSE LookedAs(q, n, r)

\* Visiting a neighbour marks it.
LEMMA VisitTypes ==
  ASSUME QueriesTypeOK, ListsOwned, NEW t \in Threads, Visit(t)
  PROVE  /\ QueriesTypeOK' /\ ListsOwned'
         /\ \E n \in my[t].todo : \E r :
              /\ my' = [my EXCEPT ![t] = r]
              /\ VisitedAs(my[t], n, n \in Marks(t), r)
              /\ Marks(t)' = Marks(t) \cup {n}
              /\ mass'[my[t].vl][n] = my[t].tag
         /\ \A v \in 1 .. Len(mass) : v # my[t].vl => mass'[v] = mass[v]
<1> DEFINE q == my[t]
           v == q.vl
<1>1. q.pc = "search" /\ ix \in Queried /\ q \in Locals /\ Asking(q) /\ UNCHANGED <<ix, pool, curV>>
  BY SearcherFacts DEF Visit
<1>2. PICK n \in q.todo :
        /\ my' = [my EXCEPT ![t] = IF mass[q.vl][n] = q.tag THEN Passed(q, n) ELSE Looked(q, n)]
        /\ mass' = [mass EXCEPT ![q.vl][n] = q.tag]
  BY DEF Visit
<1> DEFINE r == IF mass[q.vl][n] = q.tag THEN Passed(q, n) ELSE Looked(q, n)
<1>3. n \in Ids(ix) /\ q.tag \in Tags /\ q.tag = curV[v]
  BY <1>1 DEF Locals, ListsOwned
<1>4. v \in 1 .. Len(mass) /\ Len(mass) \in Nat /\ mass[v] \in [Ids(ix) -> Tags]
  BY <1>1 DEF ListsOwned, Uses, QueriesTypeOK
<1>5. n \in Marks(t) <=> mass[v][n] = q.tag
  BY <1>3 DEF Marks
<1> HIDE DEF q, v
<1>6. VisitedAs(q, n, n \in Marks(t), r)
  <2>1. CASE mass[q.vl][n] = q.tag
    <3>1. r \in Locals /\ r.ask = q.ask /\ r.at = q.at
      BY <1>1, <2>1 DEF Passed, Locals
    <3> QED BY <1>1, <1>5, <2>1, <3>1 DEF VisitedAs, Asking, Start, v
  <2>2. CASE mass[q.vl][n] # q.tag
    <3>1. r = Looked(q, n)
      BY <2>2
    <3> HIDE DEF r
    <3>2. LookedAs(q, n, r)
      BY <1>1, <1>3, <3>1, LookedFacts
    <3> QED BY <1>5, <2>2, <3>2 DEF VisitedAs, v
  <2> QED BY <2>1, <2>2
<1> HIDE DEF r
<1>7. r \in Locals /\ Asking(r) /\ r.pc = q.pc /\ r.tag = q.tag /\ r.vl = q.vl
  <2>1. CASE n \in Marks(t)
    BY <1>1, <1>6, <2>1 DEF VisitedAs, Passed, Locals
  <2>2. CASE n \notin Marks(t)
    BY <1>6, <2>2 DEF VisitedAs, LookedAs
  <2> QED BY <2>1, <2>2
<1>8. my' = [my EXCEPT ![t] = r] /\ my'[t] = r /\ \A u \in Threads \ {t} : my'[u] = my[u]
  BY <1>2 DEF QueriesTypeOK, r
<1>9. /\ mass' \in Seq([Ids(ix) -> Tags]) /\ Len(mass') = Len(mass)
      /\ mass'[v] = [mass[v] EXCEPT ![n] = q.tag]
      /\ \A w \in 1 .. Len(mass) : w # v => mass'[w] = mass[w]
  <2>1. [mass[v] EXCEPT ![n] = q.tag] \in [Ids(ix) -> Tags]
    BY <1>3, <1>4
  <2>2. mass' = [mass EXCEPT ![v] = [mass[v] EXCEPT ![n] = q.tag]] /\ mass \in Seq([Ids(ix) -> Tags])
    BY <1>2 DEF QueriesTypeOK, v
  <2> QED BY <1>4, <2>1, <2>2
<1>10. QueriesTypeOK'
  <2>1. /\ (ix \in Queried)' /\ (my \in [Threads -> Locals])'
        /\ (\A u \in Threads : my[u].pc \notin {"idle", "undefined"} => Asking(my[u]))'
    BY <1>1, <1>7, <1>8, TypesKept
  <2>2. (mass \in Seq([Ids(ix) -> Tags]))' /\ (curV \in Seq(Tags) /\ Len(curV) = Len(mass))'
    BY <1>1, <1>9 DEF Ids, QueriesTypeOK
  <2>3. (pool \in Seq(1 .. Len(mass)))'
    BY <1>1, <1>9 DEF QueriesTypeOK
  <2> QED BY <2>1, <2>2, <2>3 DEF QueriesTypeOK
<1>11. ListsOwned'
  <2>1. \A u \in Threads : my'[u].pc = my[u].pc /\ my'[u].vl = my[u].vl /\ my'[u].tag = my[u].tag
    BY <1>7, <1>8 DEF q
  <2>2. \A w \in 1 .. Len(mass) : curV[w] = TagCount - 1 \/ \A m \in Ids(ix) : mass'[w][m] <= curV[w]
    <3> SUFFICES ASSUME NEW w \in 1 .. Len(mass), curV[w] # TagCount - 1, NEW m \in Ids(ix)
                 PROVE  mass'[w][m] <= curV[w]
      OBVIOUS
    <3>1. mass[w][m] <= curV[w]
      BY DEF ListsOwned
    <3>2. CASE w = v /\ m = n
      BY <1>3, <1>4, <1>9, <3>2 DEF Tags
    <3>3. CASE ~ (w = v /\ m = n)
      BY <1>4, <1>9, <3>1, <3>3
    <3> QED BY <3>2, <3>3
  <2> QED BY <1>1, <1>9, <2>1, <2>2, SMTT(30) DEF ListsOwned, Uses, Ids
<1>12. Marks(t)' = Marks(t) \cup {n}
  <2>1. Marks(t)' = {m \in Ids(ix) : mass'[v][m] = q.tag}
    BY <1>1, <1>7, <1>8 DEF Marks, v, Ids
  <2>2. Marks(t) = {m \in Ids(ix) : mass[v][m] = q.tag}
    BY DEF Marks, v, q
  <2> QED BY <2>1, <2>2, <1>3, <1>4, <1>9
<1>13. mass'[v][n] = q.tag
  BY <1>3, <1>4, <1>9
<1> QED BY <1>2, <1>6, <1>8, <1>9, <1>10, <1>11, <1>12, <1>13 DEF q, v

\* The result too many goes.
LEMMA RemoveTypes ==
  ASSUME QueriesTypeOK, ListsOwned, NEW t \in Threads, RemoveExtra(t)
  PROVE  /\ QueriesTypeOK' /\ ListsOwned'
         /\ \E n \in Last(my[t]) : \E r :
              my' = [my EXCEPT ![t] = r] /\ LighterBy(my[t], n, Document(n), r)
         /\ Marks(t)' = Marks(t)
<1> DEFINE q == my[t]
<1>1. PICK n \in Last(q) : my' = [my EXCEPT ![t] = Bounded(Without(q, n, Document(n)))]
  BY DEF RemoveExtra
<1> DEFINE r == Bounded(Without(q, n, Document(n)))
<1>2. q.pc = "search" /\ my' = [my EXCEPT ![t] = r] /\ UNCHANGED <<ix, pool, mass, curV>>
  BY <1>1 DEF RemoveExtra
<1>3. ix \in Queried /\ q \in Locals /\ Asking(q)
  BY <1>2, SearcherFacts
<1>4. LighterBy(q, n, Document(n), r)
  <2>1. r = Bounded(Without(q, n, Document(n)))
    OBVIOUS
  <2> HIDE DEF q, r
  <2> QED BY <1>3, <2>1, ExtraFacts
<1> HIDE DEF r
<1>5. r \in Locals /\ Asking(r) /\ r.pc = q.pc /\ r.vl = q.vl /\ r.tag = q.tag
  BY <1>4 DEF LighterBy
<1>6. QueriesTypeOK' /\ ListsOwned'
  BY <1>2, <1>5, NoListTypes, StaysOwned
<1>7. Marks(t)' = Marks(t)
  <2>1. my'[t] = r
    BY <1>2 DEF QueriesTypeOK
  <2> QED BY <1>2, <1>5, <2>1, MarksKept
<1> QED BY <1>1, <1>2, <1>4, <1>6, <1>7

\* The list goes back to the pool, where it was not.
LEMMA ReleaseTypes ==
  ASSUME QueriesTypeOK, ListsOwned, NEW t \in Threads, ReleaseList(t)
  PROVE  /\ QueriesTypeOK' /\ ListsOwned'
         /\ my' = [my EXCEPT ![t] = [my[t] EXCEPT !.pc = "answer"]]
         /\ Marks(t)' = Marks(t)
<1> DEFINE q == my[t]
           v == q.vl
           r == [q EXCEPT !.pc = "answer"]
<1>1. q.pc = "search" /\ my' = [my EXCEPT ![t] = r] /\ pool' = <<v>> \o pool /\ UNCHANGED <<ix, mass, curV>>
  BY DEF ReleaseList, Between
<1>2. ix \in Queried /\ q \in Locals /\ Asking(q)
  BY <1>1, SearcherFacts
<1>3. v \in 1 .. Len(mass) /\ \A a \in 1 .. Len(pool) : pool[a] # v
  BY <1>1 DEF ListsOwned, Uses
<1> HIDE DEF q
<1>4. r \in Locals /\ r.pc = "answer" /\ r.ask = q.ask /\ r.at = q.at /\ r.vl = q.vl /\ r.tag = q.tag
  BY <1>2 DEF Locals
<1>5. Asking(r)
  BY <1>2, <1>4 DEF Asking, Start
<1> HIDE DEF r, v
<1>6. Len(pool) \in Nat /\ pool \in Seq(1 .. Len(mass))
  BY DEF QueriesTypeOK
<1>7. /\ pool' \in Seq(1 .. Len(mass)) /\ Len(pool') = Len(pool) + 1 /\ pool'[1] = v
      /\ \A a \in 1 .. Len(pool') : a # 1 => a - 1 \in 1 .. Len(pool) /\ pool'[a] = pool[a - 1]
  BY <1>1, <1>3, <1>6
<1>8. QueriesTypeOK'
  <2>1. /\ (ix \in Queried)' /\ (my \in [Threads -> Locals])'
        /\ (\A u \in Threads : my[u].pc \notin {"idle", "undefined"} => Asking(my[u]))'
    BY <1>1, <1>4, <1>5, TypesKept
  <2>2. (mass \in Seq([Ids(ix) -> Tags]))' /\ (curV \in Seq(Tags) /\ Len(curV) = Len(mass))'
    BY <1>1 DEF Ids, QueriesTypeOK
  <2>3. (pool \in Seq(1 .. Len(mass)))'
    BY <1>1, <1>7
  <2> QED BY <2>1, <2>2, <2>3 DEF QueriesTypeOK
<1>9. my'[t] = r /\ \A u \in Threads \ {t} : my'[u] = my[u]
  BY <1>1 DEF QueriesTypeOK
<1>10. ListsOwned'
  <2>1. \A a, b \in 1 .. Len(pool') : pool'[a] = pool'[b] => a = b
    <3> SUFFICES ASSUME NEW a \in 1 .. Len(pool'), NEW b \in 1 .. Len(pool'), pool'[a] = pool'[b]
                 PROVE  a = b
      OBVIOUS
    <3>1. CASE a = 1 \/ b = 1
      BY <1>3, <1>7, <3>1
    <3>2. CASE a # 1 /\ b # 1
      <4>1. a - 1 \in 1 .. Len(pool) /\ b - 1 \in 1 .. Len(pool) /\ pool[a - 1] = pool[b - 1]
        BY <1>7, <3>2
      <4>2. a - 1 = b - 1
        BY <4>1 DEF ListsOwned
      <4> QED BY <4>2, <1>6, <1>7
    <3> QED BY <3>1, <3>2
  <2>2. ASSUME NEW u \in Threads, Uses(u)'
        PROVE  /\ u # t /\ Uses(u) /\ my'[u] = my[u]
               /\ my'[u].vl \in 1 .. Len(mass) /\ \A a \in 1 .. Len(pool') : pool'[a] # my'[u].vl
    <3>1. u # t /\ Uses(u) /\ my'[u] = my[u] /\ Uses(t)
      BY <1>1, <1>4, <1>9, <2>2 DEF Uses, q
    <3>2. my[u].vl # v /\ my[u].vl \in 1 .. Len(mass) /\ \A a \in 1 .. Len(pool) : pool[a] # my[u].vl
      BY <3>1 DEF ListsOwned, v, q
    <3> QED BY <3>1, <3>2, <1>7
  <2>3. \A u, w \in Threads : Uses(u)' /\ Uses(w)' /\ my'[u].vl = my'[w].vl => u = w
    BY <2>2 DEF ListsOwned
  <2>4. \A w \in 1 .. Len(mass) : curV[w] = TagCount - 1 \/ \A n \in Ids(ix) : mass[w][n] <= curV[w]
    BY DEF ListsOwned
  <2>5. \A u \in Threads : my'[u].pc = "search" => my'[u].tag = curV[my'[u].vl]
    BY <1>4, <1>9 DEF ListsOwned
  <2> QED BY <1>1, <2>1, <2>2, <2>3, <2>4, <2>5 DEF ListsOwned, Ids
<1>11. Marks(t)' = Marks(t)
  BY <1>1, <1>4, <1>9, MarksKept DEF q
<1> QED BY <1>1, <1>8, <1>10, <1>11 DEF r, q

\* A result goes, and an element of the document on top of the condition's
\* heap.
LEMMA FilterTypes ==
  ASSUME QueriesTypeOK, ListsOwned, NEW t \in Threads, FilterDocuments(t)
  PROVE  /\ QueriesTypeOK' /\ ListsOwned'
         /\ \E n \in Last(my[t]) :
              my' = [my EXCEPT ![t] = Without(my[t], n, Document(HeapTop(my[t])))]
         /\ Marks(t)' = Marks(t)
<1> DEFINE q == my[t]
           d == Document(HeapTop(q))
<1>1. PICK n \in Last(q) : my' = [my EXCEPT ![t] = Without(q, n, d)]
  BY DEF FilterDocuments
<1> DEFINE r == Without(q, n, d)
<1>2. q.pc = "answer" /\ my' = [my EXCEPT ![t] = r] /\ UNCHANGED <<ix, pool, mass, curV>>
  BY <1>1 DEF FilterDocuments, TooManyDocuments
<1>3. ix \in Queried /\ q \in Locals /\ Asking(q)
  BY <1>2, SearcherFacts
<1>4. /\ r \in Locals /\ Asking(r)
      /\ r = [q EXCEPT !.condition = Removed(q.condition, d, HeapTop(q)), !.top = @ \ {n}]
  <2>1. r = Without(q, n, d)
    OBVIOUS
  <2> HIDE DEF q, d, r
  <2> QED BY <1>3, <2>1, WithoutFacts
<1> HIDE DEF r, d, q
<1>5. r.pc = q.pc /\ r.vl = q.vl /\ r.tag = q.tag
  BY <1>3, <1>4 DEF Locals
<1>6. QueriesTypeOK' /\ ListsOwned'
  BY <1>2, <1>4, <1>5, NoListTypes, StaysOwned DEF q
<1>7. Marks(t)' = Marks(t)
  <2>1. my'[t] = r
    BY <1>2 DEF QueriesTypeOK
  <2> QED BY <1>2, <1>5, <2>1, MarksKept DEF q
<1> QED BY <1>1, <1>2, <1>6, <1>7 DEF r, d, q

\* Nothing is said of the locals of a query that has read past its results.
LEMMA RunsOutTypes ==
  ASSUME QueriesTypeOK, ListsOwned, NEW t \in Threads, FilterRunsOut(t)
  PROVE  /\ QueriesTypeOK' /\ ListsOwned'
         /\ \E r : my' = [my EXCEPT ![t] = r] /\ r.pc = "undefined"
<1> DEFINE q == my[t]
           r == [Idle EXCEPT !.pc = "undefined", !.ask = q.ask]
<1>1. q.pc = "answer" /\ my' = [my EXCEPT ![t] = r] /\ UNCHANGED <<ix, pool, mass, curV>>
  BY DEF FilterRunsOut, TooManyDocuments
<1>2. ix \in Queried /\ q \in Locals /\ Asking(q)
  BY <1>1, SearcherFacts
<1> HIDE DEF q
<1>3. Idle \in Locals
  BY <1>2, IdleType, {} \in SUBSET (Ids(ix) \cup {Label(n) : n \in Ids(ix)}) DEF Asking
<1>4. r \in Locals /\ r.pc = "undefined"
  BY <1>2, <1>3 DEF Locals
<1> HIDE DEF r
<1>5. QueriesTypeOK' /\ ListsOwned'
  BY <1>1, <1>4, NoListTypes, StaysOwned
<1> QED BY <1>1, <1>4, <1>5

\* An answer is ids or labels.
LEMMA AnswerTypes ==
  ASSUME QueriesTypeOK, ListsOwned, NEW t \in Threads, Answer(t)
  PROVE  /\ QueriesTypeOK' /\ ListsOwned'
         /\ \E answer \in Results(my[t]) :
              my' = [my EXCEPT ![t] = [Idle EXCEPT !.ask = my[t].ask, !.answer = answer]]
<1> DEFINE q == my[t]
<1>1. PICK answer \in Results(q) : my' = [my EXCEPT ![t] = [Idle EXCEPT !.ask = q.ask, !.answer = answer]]
  BY DEF Answer
<1> DEFINE r == [Idle EXCEPT !.ask = q.ask, !.answer = answer]
<1>2. q.pc = "answer" /\ my' = [my EXCEPT ![t] = r] /\ UNCHANGED <<ix, pool, mass, curV>>
  BY <1>1 DEF Answer
<1>3. ix \in Queried /\ q \in Locals /\ Asking(q)
  BY <1>2, SearcherFacts
<1> HIDE DEF q
<1>4. q.top \in SUBSET Ids(ix)
  BY <1>3 DEF Locals
<1>5. answer \in SUBSET (Ids(ix) \cup {Label(n) : n \in Ids(ix)})
  <2>1. IsQuestion(q.ask)
    BY <1>3, AskedFacts
  <2>2. \A S, k : \A F \in Firsts(q, S, k) : F \subseteq S
    BY DEF Firsts
  <2>3. CASE Kind(q) = "none"
    <3>1. PICK F \in Firsts(q, q.top, q.ask.k) : answer = {Label(n) : n \in F}
      BY <1>1, <2>3 DEF Results
    <3>2. F \subseteq Ids(ix)
      BY <1>4, <2>2
    <3> QED BY <3>1, <3>2
  <2>4. CASE Kind(q) = "epsilon"
    <3>1. answer \in Firsts(q, {n \in q.top : Distance(q, n) <= q.ask.stop.epsilon}, q.ask.stop.max)
      BY <1>1, <2>4 DEF Results, WithinEpsilon
    <3>2. answer \subseteq {n \in q.top : Distance(q, n) <= q.ask.stop.epsilon}
      BY <2>2, <3>1
    <3> QED BY <1>4, <3>2
  <2>5. CASE Kind(q) = "documents"
    BY <1>1, <1>4, <2>5 DEF Results
  <2> QED BY <2>1, <2>3, <2>4, <2>5 DEF IsQuestion, Kind
<1>6. r \in Locals
  BY <1>3, <1>5, IdleType DEF Asking
<1>7. r.pc = "idle"
  BY DEF Idle
<1> HIDE DEF r
<1>8. QueriesTypeOK' /\ ListsOwned'
  BY <1>2, <1>6, <1>7, NoListTypes, StaysOwned
<1> QED BY <1>1, <1>8 DEF q

\* At first one list is on the pool, and nobody asks.
LEMMA InitTypes ==
  ASSUME Init
  PROVE  QueriesTypeOK /\ ListsOwned
<1>1. PICK g \in Garbage : mass = <<[n \in Ids(ix) |-> g]>>
  BY DEF Init
<1>2. [n \in Ids(ix) |-> g] \in [Ids(ix) -> Tags] /\ TagCount - 1 \in Tags
  BY QueriesAssumption DEF Tags
<1>3. mass \in Seq([Ids(ix) -> Tags]) /\ Len(mass) = 1
  BY <1>1, <1>2
<1>4. curV \in Seq(Tags) /\ Len(curV) = 1 /\ curV[1] = TagCount - 1
  BY <1>2 DEF Init
<1>5. pool \in Seq(1 .. Len(mass)) /\ Len(pool) = 1
  BY <1>3 DEF Init
<1>6. my \in [Threads -> Locals] /\ \A t \in Threads : my[t].pc = "idle"
  <2>1. Idle \in Locals
    BY IdleType
  <2>2. Idle.pc = "idle"
    BY DEF Idle
  <2> QED BY <2>1, <2>2 DEF Init
<1>7. QueriesTypeOK
  BY <1>3, <1>4, <1>5, <1>6 DEF QueriesTypeOK, Init
<1> QED BY <1>3, <1>4, <1>5, <1>6, <1>7 DEF ListsOwned, Uses

\* Every step keeps the types and the lists.
LEMMA NextTypes ==
  ASSUME QueriesTypeOK, ListsOwned, [Next]_vars
  PROVE  QueriesTypeOK' /\ ListsOwned'
<1>1. ASSUME NEW t \in Threads, Ask(t) PROVE QueriesTypeOK' /\ ListsOwned'
  BY <1>1, AskTypes
<1>2. ASSUME NEW t \in Threads, TakeList(t) PROVE QueriesTypeOK' /\ ListsOwned'
  BY <1>2, TakeTypes
<1>3. ASSUME NEW t \in Threads, Begin(t) PROVE QueriesTypeOK' /\ ListsOwned'
  BY <1>3, BeginTypes
<1>4. ASSUME NEW t \in Threads, Expand(t) PROVE QueriesTypeOK' /\ ListsOwned'
  BY <1>4, ExpandTypes
<1>5. ASSUME NEW t \in Threads, Visit(t) PROVE QueriesTypeOK' /\ ListsOwned'
  BY <1>5, VisitTypes
<1>6. ASSUME NEW t \in Threads, RemoveExtra(t) PROVE QueriesTypeOK' /\ ListsOwned'
  BY <1>6, RemoveTypes
<1>7. ASSUME NEW t \in Threads, ReleaseList(t) PROVE QueriesTypeOK' /\ ListsOwned'
  BY <1>7, ReleaseTypes
<1>8. ASSUME NEW t \in Threads, FilterDocuments(t) PROVE QueriesTypeOK' /\ ListsOwned'
  BY <1>8, FilterTypes
<1>9. ASSUME NEW t \in Threads, Answer(t) PROVE QueriesTypeOK' /\ ListsOwned'
  BY <1>9, AnswerTypes
<1>10. ASSUME NEW t \in Threads, FilterRunsOut(t) PROVE QueriesTypeOK' /\ ListsOwned'
  BY <1>10, RunsOutTypes
<1>11. ASSUME UNCHANGED vars PROVE QueriesTypeOK' /\ ListsOwned'
  <2>1. UNCHANGED <<ix, pool, mass, curV, my>>
    BY <1>11 DEF vars
  <2>2. (my \in [Threads -> Locals])'
    <3>1. Locals' = Locals
      BY <2>1 DEF Locals, Asked, AllDocuments, Conditions, Ids
    <3> QED BY <2>1, <3>1 DEF QueriesTypeOK
  <2>3. ASSUME NEW t \in Threads, my'[t].pc \notin {"idle", "undefined"} PROVE Asking(my[t])'
    BY <2>1, <2>3 DEF QueriesTypeOK, Asking, Asked, Start
  <2>4. QueriesTypeOK'
    BY <2>1, <2>2, <2>3 DEF QueriesTypeOK, Ids
  <2> QED BY <2>1, <2>4 DEF ListsOwned, Uses, Ids
<1> QED BY <1>1, <1>2, <1>3, <1>4, <1>5, <1>6, <1>7, <1>8, <1>9, <1>11, <1>10 DEF Next, Search

\* Whatever the threads ask and however their searches interleave, every
\* variable keeps its type: a list of tags is on the pool once or is used by
\* one thread, and its counter is the tag of that thread's search.
THEOREM ListsStayOwned == Spec => [](QueriesTypeOK /\ ListsOwned)
<1>1. Init => QueriesTypeOK /\ ListsOwned
  BY InitTypes
<1>2. QueriesTypeOK /\ ListsOwned /\ [Next]_vars => (QueriesTypeOK /\ ListsOwned)'
  BY NextTypes
<1> QED BY <1>1, <1>2, PTL DEF Spec

\* A step is one thread's, and touches no list but the one that thread uses.
LEMMA StepShape ==
  ASSUME QueriesTypeOK, ListsOwned, NEW t \in Threads, Ask(t) \/ Search(t)
  PROVE  /\ UNCHANGED ix /\ \E r : my' = [my EXCEPT ![t] = r]
         /\ \A v \in 1 .. Len(mass) : (Uses(t) /\ v = my[t].vl) \/ mass'[v] = mass[v]
<1>1. CASE Ask(t)
  BY <1>1 DEF Ask
<1>2. CASE TakeList(t)
  <2>1. \A v \in 1 .. Len(mass) : mass'[v] = mass[v]
    BY <1>2, TakeTypes
  <2> QED BY <1>2, <2>1 DEF TakeList
<1>3. CASE Begin(t)
  <2>1. Uses(t) /\ \A v \in 1 .. Len(mass) : v # my[t].vl => mass'[v] = mass[v]
    BY <1>3, BeginTypes DEF Begin, Uses
  <2> QED BY <1>3, <2>1 DEF Begin
<1>4. CASE Expand(t)
  BY <1>4 DEF Expand
<1>5. CASE Visit(t)
  <2>1. Uses(t) /\ \A v \in 1 .. Len(mass) : v # my[t].vl => mass'[v] = mass[v]
    BY <1>5, VisitTypes DEF Visit, Uses
  <2> QED BY <1>5, <2>1 DEF Visit
<1>6. CASE RemoveExtra(t)
  BY <1>6 DEF RemoveExtra
<1>7. CASE ReleaseList(t)
  BY <1>7 DEF ReleaseList
<1>8. CASE FilterDocuments(t)
  BY <1>8 DEF FilterDocuments
<1>9. CASE FilterRunsOut(t)
  BY <1>9 DEF FilterRunsOut
<1>10. CASE Answer(t)
  BY <1>10 DEF Answer
<1> QED BY <1>1, <1>2, <1>3, <1>4, <1>5, <1>6, <1>7, <1>8, <1>9, <1>10 DEF Search

\* A step marks an element for the thread's own search only, the one it has
\* come past.
LEMMA OwnMarks ==
  ASSUME QueriesTypeOK, ListsOwned, NEW t \in Threads, Ask(t) \/ Search(t), my'[t].pc = "search"
  PROVE  \/ my[t].pc = "begin" /\ Marks(t)' = {my[t].at}
         \/ my[t].pc = "search" /\ Marks(t)' = Marks(t) \cup (my[t].todo \ my'[t].todo)
<1>1. my \in [Threads -> Locals] /\ my[t] \in Locals
  BY DEF QueriesTypeOK
<1>2. CASE Ask(t)
  BY <1>1, <1>2, AskTypes
<1>3. CASE TakeList(t)
  <2>1. PICK v \in Nat : my' = [my EXCEPT ![t] = [my[t] EXCEPT !.pc = "begin", !.vl = v]]
    BY <1>3, TakeTypes
  <2>2. my'[t].pc = "begin"
    BY <1>1, <2>1 DEF Locals
  <2> QED BY <2>2
<1>4. CASE Begin(t)
  BY <1>4, BeginTypes DEF Begin
<1>5. CASE Expand(t)
  <2>1. my[t].pc = "search" /\ my[t].todo = {}
    BY <1>5 DEF Expand, Between
  <2> QED BY <1>5, <2>1, ExpandTypes
<1>6. CASE Visit(t)
  <2>1. my[t].pc = "search"
    BY <1>6 DEF Visit
  <2>2. PICK n \in my[t].todo : \E r : /\ my' = [my EXCEPT ![t] = r]
                                       /\ VisitedAs(my[t], n, n \in Marks(t), r)
                                       /\ Marks(t)' = Marks(t) \cup {n}
    BY <1>6, VisitTypes
  <2>3. PICK r : /\ my' = [my EXCEPT ![t] = r]
                 /\ VisitedAs(my[t], n, n \in Marks(t), r)
                 /\ Marks(t)' = Marks(t) \cup {n}
    BY <2>2
  <2>4. r.todo = my[t].todo \ {n}
    <3>1. CASE n \in Marks(t)
      BY <1>1, <2>3, <3>1 DEF VisitedAs, Passed, Locals
    <3>2. CASE n \notin Marks(t)
      BY <2>3, <3>2 DEF VisitedAs, LookedAs
    <3> QED BY <3>1, <3>2
  <2>5. my'[t] = r
    BY <1>1, <2>3
  <2> QED BY <2>1, <2>2, <2>3, <2>4, <2>5
<1>7. CASE RemoveExtra(t)
  <2>1. PICK n \in Last(my[t]) : \E r :
          my' = [my EXCEPT ![t] = r] /\ LighterBy(my[t], n, Document(n), r)
    BY <1>7, RemoveTypes
  <2>2. my'[t].todo = my[t].todo
    BY <1>1, <2>1 DEF LighterBy
  <2>3. my[t].pc = "search"
    BY <1>7 DEF RemoveExtra
  <2> QED BY <1>7, <2>2, <2>3, RemoveTypes
<1>8. CASE ReleaseList(t)
  <2>1. my' = [my EXCEPT ![t] = [my[t] EXCEPT !.pc = "answer"]]
    BY <1>8, ReleaseTypes
  <2>2. my'[t].pc = "answer"
    BY <1>1, <2>1 DEF Locals
  <2> QED BY <2>2
<1>9. CASE FilterDocuments(t)
  <2>1. PICK n \in Last(my[t]) :
          my' = [my EXCEPT ![t] = Without(my[t], n, Document(HeapTop(my[t])))]
    BY <1>9, FilterTypes
  <2>2. my[t].pc = "answer" /\ ix \in Queried /\ Asking(my[t])
    BY <1>9, SearcherFacts DEF FilterDocuments, TooManyDocuments
  <2>3. my'[t] = Without(my[t], n, Document(HeapTop(my[t])))
    BY <1>1, <2>1
  <2> PICK r : r = my'[t]
    OBVIOUS
  <2>4. r.pc = "answer"
    <3> PICK q, d : q = my[t] /\ d = Document(HeapTop(my[t]))
      OBVIOUS
    <3>1. q \in Locals /\ q.pc = "answer" /\ Asking(q) /\ r = Without(q, n, d)
      BY <1>1, <2>2, <2>3
    <3> QED BY <3>1 DEF Without, remove_point_from_result, Locals
  <2> QED BY <2>4
<1>10. CASE FilterRunsOut(t)
  BY <1>1, <1>10, RunsOutTypes
<1>11. CASE Answer(t)
  <2>1. PICK answer \in Results(my[t]) :
          my' = [my EXCEPT ![t] = [Idle EXCEPT !.ask = my[t].ask, !.answer = answer]]
    BY <1>11, AnswerTypes
  <2>2. [Idle EXCEPT !.ask = my[t].ask, !.answer = answer].pc = "idle"
    BY DEF Idle
  <2> QED BY <1>1, <2>1, <2>2
<1> QED BY <1>2, <1>3, <1>4, <1>5, <1>6, <1>7, <1>8, <1>9, <1>10, <1>11 DEF Search

\* The marks of a search stay as they are in every other thread's steps.
LEMMA MarksAreKept ==
  ASSUME QueriesTypeOK, ListsOwned, NEW t \in Threads, NEW u \in Threads \ {t},
         Ask(u) \/ Search(u), my'[t].pc = "search"
  PROVE  my'[t] = my[t] /\ Marks(t)' = Marks(t)
<1>1. /\ UNCHANGED ix /\ \E r : my' = [my EXCEPT ![u] = r]
      /\ \A v \in 1 .. Len(mass) : (Uses(u) /\ v = my[u].vl) \/ mass'[v] = mass[v]
  BY StepShape
<1>2. my'[t] = my[t] /\ Uses(t)
  BY <1>1 DEF QueriesTypeOK, Uses
<1>3. my[t].vl \in 1 .. Len(mass) /\ ~ (Uses(u) /\ my[t].vl = my[u].vl)
  BY <1>2 DEF ListsOwned
<1>4. mass'[my[t].vl] = mass[my[t].vl]
  BY <1>1, <1>3
<1> QED BY <1>1, <1>2, <1>4, MarksKept

\* A search marks its start and what it has come past, in a list that holds no
\* other mark of its tag, and no other search touches its marks: whatever the
\* indexes, the questions, the threads and the number of tags.
THEOREM MarksAreOwn == Spec => MarkedByItself
<1>1. ASSUME QueriesTypeOK, ListsOwned, Next, NEW t \in Threads, my'[t].pc = "search"
      PROVE  \/ my[t].pc = "begin" /\ Marks(t)' = {my[t].at}
             \/ my[t].pc = "search" /\ Marks(t)' = Marks(t) \cup (my[t].todo \ my'[t].todo)
  <2>1. PICK u \in Threads : Ask(u) \/ Search(u)
    BY <1>1 DEF Next
  <2>2. CASE u = t
    BY <1>1, <2>1, <2>2, OwnMarks
  <2>3. CASE u # t
    <3>1. my'[t] = my[t] /\ Marks(t)' = Marks(t)
      BY <1>1, <2>1, <2>3, MarksAreKept
    <3> QED BY <1>1, <3>1
  <2> QED BY <2>2, <2>3
<1>2. ASSUME QueriesTypeOK, ListsOwned, Next, NEW t \in Threads, my'[t].pc = "search"
      PROVE  LET q == my[t]
                 r == my'[t]
                 before == {n \in Ids(ix) : mass[q.vl][n] = q.tag}
                 after == {n \in Ids(ix) : mass'[r.vl][n] = r.tag}
             IN \/ q.pc = "begin" /\ after = {q.at}
                \/ q.pc = "search" /\ after = before \cup (q.todo \ r.todo)
  <2>1. UNCHANGED ix
    BY <1>2, StepShape DEF Next
  <2>2. Marks(t)' = {n \in Ids(ix) : mass'[my'[t].vl][n] = my'[t].tag}
    BY <2>1 DEF Marks, Ids
  <2> QED BY <1>1, <1>2, <2>2 DEF Marks
<1>3. QueriesTypeOK /\ ListsOwned /\ [Next]_vars =>
        [\A t \in Threads :
           LET q == my[t]
               r == my'[t]
               before == {n \in Ids(ix) : mass[q.vl][n] = q.tag}
               after == {n \in Ids(ix) : mass'[r.vl][n] = r.tag}
           IN r.pc = "search" =>
                \/ q.pc = "begin" /\ after = {q.at}
                \/ q.pc = "search" /\ after = before \cup (q.todo \ r.todo)]_vars
  BY <1>2
<1> QED BY <1>3, ListsStayOwned, PTL DEF Spec, MarkedByItself

(***************************************************************************)
(* What is counted                                                         *)
(***************************************************************************)

\* Questions that say the same
LEMMA SameQuestion ==
  ASSUME NEW q, NEW r, r.ask = q.ask
  PROVE  /\ \A n : Distance(r, n) = Distance(q, n)
         /\ Hidden(r) = Hidden(q) /\ ef(r) = ef(q) /\ Kind(r) = Kind(q) /\ Limit(r) = Limit(q)
         /\ (BareBone(r) <=> BareBone(q)) /\ Start(r) = Start(q) /\ Eligible(r) = Eligible(q)
         /\ (Apart(r) <=> Apart(q)) /\ (TiesWithinDocuments(r) <=> TiesWithinDocuments(q))
<1>1. \A n : Distance(r, n) = Distance(q, n)
  BY DEF Distance
<1>2. Kind(r) = Kind(q) /\ ef(r) = ef(q) /\ (BareBone(r) <=> BareBone(q))
  BY DEF Kind, ef, BareBone
<1>3. Hidden(r) = Hidden(q)
  BY <1>2 DEF Hidden
<1>4. Limit(r) = Limit(q)
  BY <1>2 DEF Limit
<1>5. Start(r) = Start(q) /\ Eligible(r) = Eligible(q)
  BY <1>3 DEF Start, Eligible
<1>6. (Apart(r) <=> Apart(q)) /\ (TiesWithinDocuments(r) <=> TiesWithinDocuments(q))
  BY <1>1, <1>5 DEF Apart, TiesWithinDocuments
<1> QED BY <1>1, <1>2, <1>3, <1>4, <1>5, <1>6

\* Nothing is counted at first.
LEMMA NothingCounted == Counts(NewCondition, {})
<1>1. \A d : OfDocument({}, d) = {}
  BY DEF OfDocument
<1>2. Documents({}) = {}
  BY DEF Documents
<1>3. Cardinality({}) = 0
  BY FS_EmptySet
<1> QED BY <1>1, <1>2, <1>3 DEF Counts, NewCondition, AllDocuments

\* The documents of finitely many elements
LEMMA DocumentsFacts ==
  ASSUME ix \in Queried, NEW top \in SUBSET Ids(ix)
  PROVE  /\ IsFiniteSet(top) /\ Cardinality(top) \in Nat
         /\ IsFiniteSet(Documents(top)) /\ Cardinality(Documents(top)) \in Nat
         /\ Documents(top) \subseteq AllDocuments
         /\ \A d : /\ OfDocument(top, d) \subseteq top /\ IsFiniteSet(OfDocument(top, d))
                   /\ Cardinality(OfDocument(top, d)) \in Nat
                   /\ Cardinality(OfDocument(top, d)) = 0 <=> d \notin Documents(top)
<1>1. IsFiniteSet(top) /\ Cardinality(top) \in Nat
  BY QueriesAssumption, IndexFacts, FS_CardinalityType
<1>2. IsFiniteSet(Documents(top))
  <2> DEFINE f == [n \in top |-> Document(n)]
  <2>1. f \in [top -> Documents(top)] /\ \A d \in Documents(top) : \E n \in top : f[n] = d
    BY DEF Documents
  <2>2. f \in Surjection(top, Documents(top))
    <3> HIDE DEF f
    <3> QED BY <2>1 DEF Surjection
  <2> HIDE DEF f
  <2> QED BY <1>1, <2>2, FS_Surjection
<1>3. Cardinality(Documents(top)) \in Nat /\ Documents(top) \subseteq AllDocuments
  BY <1>2, FS_CardinalityType DEF Documents, AllDocuments
<1>4. ASSUME NEW d
      PROVE  /\ OfDocument(top, d) \subseteq top /\ IsFiniteSet(OfDocument(top, d))
             /\ Cardinality(OfDocument(top, d)) \in Nat
             /\ Cardinality(OfDocument(top, d)) = 0 <=> d \notin Documents(top)
  <2>1. OfDocument(top, d) \subseteq top
    BY DEF OfDocument
  <2>2. IsFiniteSet(OfDocument(top, d))
    BY <1>1, <2>1, FS_Subset
  <2>3. Cardinality(OfDocument(top, d)) = 0 <=> OfDocument(top, d) = {}
    BY <2>2, FS_EmptySet
  <2>4. OfDocument(top, d) = {} <=> d \notin Documents(top)
    BY DEF OfDocument, Documents
  <2> QED BY <2>1, <2>2, <2>3, <2>4, FS_CardinalityType
<1> QED BY <1>1, <1>2, <1>3, <1>4

\* One result more
LEMMA CountsAdded ==
  ASSUME ix \in Queried, NEW c \in Conditions, NEW top \in SUBSET Ids(ix),
         NEW n \in Ids(ix) \ top, Counts(c, top)
  PROVE  /\ Counts(Added(c, n), top \cup {n})
         /\ Cardinality(Documents(top)) <= Cardinality(Documents(top \cup {n}))
<1> DEFINE d == Document(n)
           new == top \cup {n}
           a == Added(c, n)
<1>1. /\ IsFiniteSet(top) /\ Cardinality(top) \in Nat
      /\ IsFiniteSet(Documents(top)) /\ Cardinality(Documents(top)) \in Nat
      /\ \A e : /\ OfDocument(top, e) \subseteq top /\ IsFiniteSet(OfDocument(top, e))
                /\ Cardinality(OfDocument(top, e)) \in Nat
                /\ Cardinality(OfDocument(top, e)) = 0 <=> e \notin Documents(top)
  BY DocumentsFacts
<1>2. Cardinality(new) = Cardinality(top) + 1
  BY <1>1, FS_AddElement
<1>3. /\ OfDocument(new, d) = OfDocument(top, d) \cup {n}
      /\ \A e : e # d => OfDocument(new, e) = OfDocument(top, e)
  BY DEF OfDocument
<1>4. Cardinality(OfDocument(new, d)) = Cardinality(OfDocument(top, d)) + 1
  <2>1. n \notin OfDocument(top, d)
    BY <1>1
  <2> QED BY <1>1, <1>3, <2>1, FS_AddElement
<1>5. d \in AllDocuments /\ c.doc_counter_ \in [AllDocuments -> Int]
  BY DEF AllDocuments, Conditions
<1>6. c.doc_counter_[d] = Cardinality(OfDocument(top, d))
  BY <1>5 DEF Counts
<1>7. Documents(new) = Documents(top) \cup {d}
  BY DEF Documents
<1>8. Cardinality(Documents(new)) =
        Cardinality(Documents(top)) + (IF c.doc_counter_[d] = 0 THEN 1 ELSE 0)
  <2>1. CASE d \in Documents(top)
    <3>1. Documents(new) = Documents(top) /\ c.doc_counter_[d] # 0
      BY <1>1, <1>6, <1>7, <2>1
    <3> QED BY <1>1, <3>1
  <2>2. CASE d \notin Documents(top)
    <3>1. Cardinality(Documents(new)) = Cardinality(Documents(top)) + 1
      BY <1>1, <1>7, <2>2, FS_AddElement
    <3>2. c.doc_counter_[d] = 0
      BY <1>1, <1>6, <2>2
    <3> QED BY <3>1, <3>2
  <2> QED BY <2>1, <2>2
<1> HIDE DEF d, new
<1>9. /\ a.curr_num_items_ = c.curr_num_items_ + 1
      /\ a.curr_num_docs_ = c.curr_num_docs_ + (IF c.doc_counter_[d] = 0 THEN 1 ELSE 0)
      /\ a.doc_counter_ = [c.doc_counter_ EXCEPT ![d] = @ + 1]
  BY DEF Added, d
<1> HIDE DEF a
<1>10. \A e \in AllDocuments : a.doc_counter_[e] = Cardinality(OfDocument(new, e))
  <2> SUFFICES ASSUME NEW e \in AllDocuments PROVE a.doc_counter_[e] = Cardinality(OfDocument(new, e))
    OBVIOUS
  <2>1. CASE e = d
    BY <1>4, <1>5, <1>6, <1>9, <2>1
  <2>2. CASE e # d
    BY <1>3, <1>5, <1>9, <2>2 DEF Counts
  <2> QED BY <2>1, <2>2
<1>11. a.curr_num_items_ = Cardinality(new) /\ a.curr_num_docs_ = Cardinality(Documents(new))
  BY <1>2, <1>8, <1>9 DEF Counts
<1>12. Cardinality(Documents(top)) <= Cardinality(Documents(new))
  BY <1>1, <1>8
<1> QED BY <1>10, <1>11, <1>12 DEF Counts, a, new

\* The distances of elements that are apart
LEMMA AskedApart ==
  ASSUME ix \in Queried, NEW q, Asking(q), Apart(q)
  PROVE  Distinct(ix, q.ask.vector)
BY DEF Apart, Distinct, From, Distance

\* A last result is as far as the one the searches agree on, and is that one
\* where no two elements are equally far.
LEMMA LastFacts ==
  ASSUME ix \in Queried, NEW q \in Locals, Asking(q), NEW n \in Last(q)
  PROVE  /\ n \in q.top /\ n \in Ids(ix) /\ \A m \in q.top : Distance(q, m) <= Distance(q, n)
         /\ Apart(q) => n = Farthest(q)
<1>1. n \in q.top /\ n \in Ids(ix) /\ \A m \in q.top : Distance(q, m) <= Distance(q, n)
  BY DEF Last, Locals
<1>2. /\ Farthest(q) \in q.top /\ Farthest(q) \in Ids(ix)
      /\ Distance(q, n) <= Distance(q, Farthest(q))
  BY <1>1, FarthestType
<1>3. Distance(q, n) = Distance(q, Farthest(q))
  BY <1>1, <1>2, AskedFacts
<1> QED BY <1>1, <1>2, <1>3 DEF Apart

\* The condition's heap has a top, and no pair on it is farther.
LEMMA HeapTopFacts ==
  ASSUME ix \in Queried, NEW q \in Locals, Asking(q), q.condition.search_results_ # {}
  PROVE  /\ HeapTop(q) \in q.condition.search_results_ /\ HeapTop(q) \in Ids(ix)
         /\ \A m \in q.condition.search_results_ : Distance(q, m) <= Distance(q, HeapTop(q))
<1> DEFINE heap == q.condition.search_results_
           f == FarthestOf(ix, q.ask.vector, heap)
           E == {n \in heap : Distance(q, n) = Distance(q, f)}
           T == {SizeMax - Document(n) : n \in E}
           tops(n) == \A m \in heap : \/ Distance(q, m) < Distance(q, n)
                                      \/ Distance(q, m) = Distance(q, n) /\ Document(m) <= Document(n)
<1>1. heap \in SUBSET Ids(ix)
  BY DEF Locals, Conditions
<1>2. /\ WellFormed(ix, M) /\ q.ask.vector \in Int
      /\ \A n \in Ids(ix) : Distance(q, n) \in Nat /\ Distance(q, n) = From(ix, q.ask.vector, n)
  BY AskedFacts
<1>3. f \in heap /\ \A m \in heap : From(ix, q.ask.vector, m) <= From(ix, q.ask.vector, f)
  BY <1>1, <1>2, FarthestFacts
<1>4. \A m \in heap : Distance(q, m) <= Distance(q, f)
  BY <1>1, <1>2, <1>3
<1>5. SizeMax \in Nat /\ \A n \in Ids(ix) : Document(n) \in 0 .. SizeMax
  BY QueriesAssumption
<1> HIDE DEF heap, f
<1>6. f \in E /\ E \subseteq Ids(ix)
  BY <1>1, <1>3
<1>7. T \subseteq Nat /\ T # {}
  BY <1>5, <1>6
<1>8. PICK d \in T : \A e \in T : d <= e
  <2> HIDE DEF T
  <2> QED BY <1>7, Minimum
<1>9. PICK n \in E : \A m \in E : SizeMax - Document(n) <= SizeMax - Document(m)
  BY <1>8
<1>10. \A m \in E : Document(m) <= Document(n)
  BY <1>5, <1>6, <1>9
<1>11. n \in heap /\ tops(n)
  BY <1>1, <1>2, <1>3, <1>4, <1>10
<1>12. HeapTop(q) \in heap /\ tops(HeapTop(q))
  <2> HIDE DEF E, T
  <2> QED BY <1>11 DEF HeapTop, heap
<1>13. \A m \in heap : Distance(q, m) <= Distance(q, HeapTop(q))
  BY <1>1, <1>2, <1>12
<1> QED BY <1>1, <1>12, <1>13 DEF heap

\* Elements at one distance are finitely many.
LEMMA AtDistanceFacts ==
  ASSUME ix \in Queried, NEW q, NEW S \in SUBSET Ids(ix), NEW d
  PROVE  /\ IsFiniteSet(AtDistance(q, S, d)) /\ Cardinality(AtDistance(q, S, d)) \in Nat
         /\ Cardinality(AtDistance(q, S, d)) = 0 <=> AtDistance(q, S, d) = {}
<1>1. AtDistance(q, S, d) \in SUBSET Ids(ix)
  BY DEF AtDistance
<1>2. IsFiniteSet(AtDistance(q, S, d))
  BY <1>1, DocumentsFacts
<1> QED BY <1>2, FS_EmptySet, FS_CardinalityType

\* The top of the condition's heap is as far as a last result.
LEMMA HeapLikeResults ==
  ASSUME ix \in Queried, NEW q \in Locals, Asking(q), NEW V, Heaped(q, V), NEW n \in Last(q)
  PROVE  /\ HeapTop(q) \in q.condition.search_results_ /\ HeapTop(q) \in Ids(ix)
         /\ Distance(q, HeapTop(q)) = Distance(q, n)
<1> DEFINE heap == q.condition.search_results_
           at(S, m) == AtDistance(q, S, Distance(q, m))
<1>1. heap \in SUBSET Ids(ix) /\ q.top \in SUBSET Ids(ix)
  BY DEF Locals, Conditions
<1>2. n \in q.top /\ n \in Ids(ix) /\ \A m \in q.top : Distance(q, m) <= Distance(q, n)
  BY LastFacts
<1>3. \A m \in Ids(ix) : Cardinality(at(heap, m)) = Cardinality(at(q.top, m))
  BY DEF Heaped
<1>4. \A m \in Ids(ix) : at(heap, m) = {} <=> at(q.top, m) = {}
  <2> SUFFICES ASSUME NEW m \in Ids(ix) PROVE at(heap, m) = {} <=> at(q.top, m) = {}
    OBVIOUS
  <2>1. Cardinality(at(heap, m)) = 0 <=> at(heap, m) = {}
    BY <1>1, AtDistanceFacts
  <2>2. Cardinality(at(q.top, m)) = 0 <=> at(q.top, m) = {}
    BY <1>1, AtDistanceFacts
  <2> QED BY <1>3, <2>1, <2>2
<1>5. \A m \in Ids(ix) : Distance(q, m) \in Nat
  BY AskedFacts
<1>6. PICK h \in heap : Distance(q, h) = Distance(q, n)
  <2>1. n \in at(q.top, n)
    BY <1>2 DEF AtDistance
  <2>2. at(heap, n) # {}
    BY <1>2, <1>4, <2>1
  <2> QED BY <2>2 DEF AtDistance
<1>7. /\ HeapTop(q) \in heap /\ HeapTop(q) \in Ids(ix)
      /\ Distance(q, n) <= Distance(q, HeapTop(q))
  BY <1>6, HeapTopFacts
<1>8. PICK m \in q.top : Distance(q, m) = Distance(q, HeapTop(q))
  <2> PICK h1 : h1 = HeapTop(q)
    OBVIOUS
  <2>1. h1 \in at(heap, h1)
    BY <1>7 DEF AtDistance
  <2>2. at(q.top, h1) # {}
    BY <1>4, <1>7, <2>1
  <2> QED BY <2>2 DEF AtDistance
<1>9. Distance(q, HeapTop(q)) <= Distance(q, n)
  BY <1>2, <1>8
<1> QED BY <1>2, <1>5, <1>7, <1>9

\* The heap stays like the results when an element is added to both,
LEMMA HeapAdded ==
  ASSUME ix \in Queried, NEW q \in Locals, NEW V, Heaped(q, V), q.top \subseteq V,
         NEW n \in Ids(ix), n \notin V, n \notin Hidden(q), NEW r, r.ask = q.ask,
         r.top = q.top \cup {n},
         r.condition.search_results_ = q.condition.search_results_ \cup {n}
  PROVE  Heaped(r, V \cup {n})
<1> DEFINE heap == q.condition.search_results_
           at(S, m) == AtDistance(q, S, Distance(q, m))
<1>1. heap \in SUBSET Ids(ix) /\ q.top \in SUBSET Ids(ix)
  BY DEF Locals, Conditions
<1>2. (\A m : Distance(r, m) = Distance(q, m)) /\ Hidden(r) = Hidden(q)
  BY SameQuestion
<1>3. heap \subseteq V \ Hidden(q) /\ \A m \in Ids(ix) : Cardinality(at(heap, m)) = Cardinality(at(q.top, m))
  BY DEF Heaped
<1>4. ASSUME NEW S \in {heap, q.top}, NEW m \in Ids(ix)
      PROVE  Cardinality(at(S \cup {n}, m)) =
               Cardinality(at(S, m)) + (IF Distance(q, n) = Distance(q, m) THEN 1 ELSE 0)
  <2>1. S \in SUBSET Ids(ix) /\ n \notin S
    BY <1>1, <1>3
  <2>2. IsFiniteSet(at(S, m)) /\ Cardinality(at(S, m)) \in Nat
    BY <2>1, AtDistanceFacts
  <2>3. at(S \cup {n}, m) = IF Distance(q, n) = Distance(q, m) THEN at(S, m) \cup {n} ELSE at(S, m)
    BY DEF AtDistance
  <2>4. n \notin at(S, m)
    BY <2>1 DEF AtDistance
  <2>5. Cardinality(at(S, m) \cup {n}) = Cardinality(at(S, m)) + 1
    BY <2>2, <2>4, FS_AddElement
  <2> QED BY <2>2, <2>3, <2>5
<1>5. ASSUME NEW m \in Ids(ix)
      PROVE  Cardinality(AtDistance(r, r.condition.search_results_, Distance(r, m)))
               = Cardinality(AtDistance(r, r.top, Distance(r, m)))
  <2>1. \A S : AtDistance(r, S, Distance(r, m)) = at(S, m)
    BY <1>2 DEF AtDistance
  <2>2. Cardinality(at(heap \cup {n}, m)) = Cardinality(at(q.top \cup {n}, m))
    BY <1>3, <1>4
  <2> QED BY <2>1, <2>2
<1>6. r.condition.search_results_ \subseteq (V \cup {n}) \ Hidden(r)
  BY <1>2, <1>3
<1> QED BY <1>5, <1>6 DEF Heaped

\* and when an element of each goes that are equally far.
LEMMA HeapRemoved ==
  ASSUME ix \in Queried, NEW q \in Locals, NEW V, Heaped(q, V),
         NEW n \in q.top, NEW h \in q.condition.search_results_, Distance(q, h) = Distance(q, n),
         NEW r, r.ask = q.ask, r.top = q.top \ {n},
         r.condition.search_results_ = q.condition.search_results_ \ {h}
  PROVE  Heaped(r, V)
<1> DEFINE heap == q.condition.search_results_
           at(S, m) == AtDistance(q, S, Distance(q, m))
<1>1. heap \in SUBSET Ids(ix) /\ q.top \in SUBSET Ids(ix)
  BY DEF Locals, Conditions
<1>2. (\A m : Distance(r, m) = Distance(q, m)) /\ Hidden(r) = Hidden(q)
  BY SameQuestion
<1>3. heap \subseteq V \ Hidden(q) /\ \A m \in Ids(ix) : Cardinality(at(heap, m)) = Cardinality(at(q.top, m))
  BY DEF Heaped
<1>4. ASSUME NEW S \in SUBSET Ids(ix), NEW e \in S, NEW m \in Ids(ix)
      PROVE  Cardinality(at(S \ {e}, m)) =
               Cardinality(at(S, m)) - (IF Distance(q, e) = Distance(q, m) THEN 1 ELSE 0)
  <2>1. IsFiniteSet(at(S, m)) /\ Cardinality(at(S, m)) \in Nat
    BY AtDistanceFacts
  <2>2. at(S \ {e}, m) = IF Distance(q, e) = Distance(q, m) THEN at(S, m) \ {e} ELSE at(S, m)
    BY DEF AtDistance
  <2>3. Distance(q, e) = Distance(q, m) => e \in at(S, m)
    BY DEF AtDistance
  <2>4. e \in at(S, m) => Cardinality(at(S, m) \ {e}) = Cardinality(at(S, m)) - 1
    BY <2>1, FS_RemoveElement
  <2> QED BY <2>1, <2>2, <2>3, <2>4
<1>5. ASSUME NEW m \in Ids(ix)
      PROVE  Cardinality(AtDistance(r, r.condition.search_results_, Distance(r, m)))
               = Cardinality(AtDistance(r, r.top, Distance(r, m)))
  <2>1. \A S : AtDistance(r, S, Distance(r, m)) = at(S, m)
    BY <1>2 DEF AtDistance
  <2>2. Cardinality(at(heap \ {h}, m)) = Cardinality(at(q.top \ {n}, m))
    BY <1>1, <1>3, <1>4
  <2> QED BY <2>1, <2>2
<1>6. r.condition.search_results_ \subseteq V \ Hidden(r)
  BY <1>2, <1>3
<1> QED BY <1>5, <1>6 DEF Heaped

\* A heap that is the results is like them.
LEMMA HeapIsResults ==
  ASSUME NEW q, NEW V, q.condition.search_results_ = q.top, q.top \subseteq V \ Hidden(q)
  PROVE  Heaped(q, V)
BY DEF Heaped

\* A result goes, and its document with it if it has no other.
LEMMA CountsRemoved ==
  ASSUME ix \in Queried, NEW c \in Conditions, NEW top \in SUBSET Ids(ix), Counts(c, top),
         NEW f \in top, NEW h, NEW new, new = top \ {f}, NEW a, a = Removed(c, Document(f), h)
  PROVE  /\ Counts(a, new)
         /\ Cardinality(new) = Cardinality(top) - 1
         /\ Cardinality(Documents(new)) >= Cardinality(Documents(top)) - 1
<1> DEFINE d == Document(f)
<1>1. f \in top /\ f \in Ids(ix)
  OBVIOUS
<1>2. /\ a.curr_num_items_ = c.curr_num_items_ - 1
      /\ a.curr_num_docs_ = c.curr_num_docs_ - (IF OneLess(c.doc_counter_[d]) = 0 THEN 1 ELSE 0)
      /\ a.doc_counter_ = [c.doc_counter_ EXCEPT ![d] = OneLess(@)]
  BY DEF Removed
<1>3. new = top \ {f} /\ Counts(c, top)
  OBVIOUS
<1>4. /\ IsFiniteSet(top) /\ Cardinality(top) \in Nat
      /\ IsFiniteSet(Documents(top)) /\ Cardinality(Documents(top)) \in Nat
      /\ \A e : /\ OfDocument(top, e) \subseteq top /\ IsFiniteSet(OfDocument(top, e))
                /\ Cardinality(OfDocument(top, e)) \in Nat
                /\ Cardinality(OfDocument(top, e)) = 0 <=> e \notin Documents(top)
  BY <1>1, DocumentsFacts
<1>5. new \in SUBSET Ids(ix)
  BY <1>1, <1>3
<1>6. \A e : Cardinality(OfDocument(new, e)) = 0 <=> e \notin Documents(new)
  BY <1>5, DocumentsFacts
<1>7. Cardinality(new) = Cardinality(top) - 1
  BY <1>1, <1>3, <1>4, FS_RemoveElement
<1>8. /\ OfDocument(new, d) = OfDocument(top, d) \ {f} /\ f \in OfDocument(top, d)
       /\ \A e : e # d => OfDocument(new, e) = OfDocument(top, e)
  BY <1>1, <1>3 DEF OfDocument
<1>9. Cardinality(OfDocument(new, d)) = Cardinality(OfDocument(top, d)) - 1
  <2>1. PICK S : S = OfDocument(top, d)
    OBVIOUS
  <2>2. IsFiniteSet(S) /\ f \in S /\ OfDocument(new, d) = S \ {f}
    BY <1>4, <1>8, <2>1
  <2>3. Cardinality(S \ {f}) = Cardinality(S) - 1
    BY <2>2, FS_RemoveElement
  <2> QED BY <2>1, <2>2, <2>3
<1>10. d \in AllDocuments /\ c.doc_counter_ \in [AllDocuments -> Int]
  BY <1>1 DEF AllDocuments, Conditions
<1>11. c.doc_counter_[d] = Cardinality(OfDocument(top, d))
  BY <1>3, <1>10 DEF Counts
<1>12. OneLess(c.doc_counter_[d]) = c.doc_counter_[d] - 1 /\ d \in Documents(top)
  <2>1. d \in Documents(top)
    BY <1>1 DEF Documents
  <2>2. c.doc_counter_[d] # 0
    BY <1>4, <1>11, <2>1
  <2> QED BY <2>1, <2>2 DEF OneLess
<1>13. Documents(new) = IF c.doc_counter_[d] = 1 THEN Documents(top) \ {d} ELSE Documents(top)
  <2>1. Documents(new) \subseteq Documents(top) /\ Documents(top) \ {d} \subseteq Documents(new)
    BY <1>1, <1>3 DEF Documents
  <2>2. d \notin Documents(new) <=> c.doc_counter_[d] = 1
    <3>1. Cardinality(OfDocument(top, d)) \in Nat
      BY <1>4
    <3>2. d \notin Documents(new) <=> Cardinality(OfDocument(new, d)) = 0
      BY <1>6
    <3>3. Cardinality(OfDocument(new, d)) = 0 <=> Cardinality(OfDocument(top, d)) = 1
      BY <1>9, <3>1
    <3> QED BY <3>2, <3>3, <1>11
  <2> QED BY <1>12, <2>1, <2>2
<1>14. Cardinality(Documents(new)) =
         Cardinality(Documents(top)) - (IF c.doc_counter_[d] = 1 THEN 1 ELSE 0)
  <2>1. Cardinality(Documents(top) \ {d}) = Cardinality(Documents(top)) - 1
    BY <1>4, <1>12, FS_RemoveElement
  <2> QED BY <1>4, <1>13, <2>1
<1> HIDE DEF d
<1>15. \A e \in AllDocuments : a.doc_counter_[e] = Cardinality(OfDocument(new, e))
  <2> SUFFICES ASSUME NEW e \in AllDocuments PROVE a.doc_counter_[e] = Cardinality(OfDocument(new, e))
    OBVIOUS
  <2>1. CASE e = d
    BY <1>2, <1>9, <1>10, <1>11, <1>12, <2>1
  <2>2. CASE e # d
    BY <1>2, <1>3, <1>8, <1>10, <2>2 DEF Counts
  <2> QED BY <2>1, <2>2
<1>16. a.curr_num_items_ = Cardinality(new) /\ a.curr_num_docs_ = Cardinality(Documents(new))
  <2>1. OneLess(c.doc_counter_[d]) = 0 <=> c.doc_counter_[d] = 1
    BY <1>4, <1>11, <1>12
  <2> QED BY <1>2, <1>3, <1>7, <1>14, <2>1 DEF Counts
<1>17. Counts(a, new)
  BY <1>15, <1>16 DEF Counts
<1>18. Cardinality(Documents(new)) >= Cardinality(Documents(top)) - 1
  BY <1>4, <1>14
<1> QED BY <1>7, <1>17, <1>18

\* Sizes and limits, and what the conditions make of them
LEMMA SizeFacts ==
  ASSUME ix \in Queried, NEW q \in Locals, Asking(q), Counts(q.condition, q.top)
  PROVE  /\ Size(q) \in Nat /\ Limit(q) \in Nat \ {0}
         /\ TooMany(q) <=> Size(q) > Limit(q)
         /\ \A n : Considered(q, n) <=> q.lowerBound > Distance(q, n) \/ Size(q) < Limit(q)
         /\ Kind(q) \in {"none", "epsilon", "documents"}
         /\ Kind(q) # "documents" => Size(q) = Cardinality(q.top)
         /\ Kind(q) = "documents" => Size(q) = Cardinality(Documents(q.top))
         /\ q.top = {} => Size(q) = 0
<1>1. /\ IsQuestion(q.ask) /\ ef(q) \in Nat /\ q.ask.k \in Nat
  BY AskedFacts
<1>2. q.top \in SUBSET Ids(ix)
  BY DEF Locals
<1>3. /\ Cardinality(q.top) \in Nat /\ Cardinality(Documents(q.top)) \in Nat
      /\ q.condition.curr_num_items_ = Cardinality(q.top)
      /\ q.condition.curr_num_docs_ = Cardinality(Documents(q.top))
  BY <1>2, DocumentsFacts DEF Counts
<1>4. Documents({}) = {} /\ Cardinality({}) = 0
  BY FS_EmptySet DEF Documents
<1>5. CASE Kind(q) = "none"
  <2>1. ef(q) >= 1
    BY <1>1, <1>5, QueriesAssumption DEF ef, IsQuestion, Kind
  <2> QED BY <1>1, <1>3, <1>4, <1>5, <2>1 DEF Size, Limit, TooMany, Considered
<1>6. CASE Kind(q) = "epsilon"
  <2>1. q.ask.stop.max \in Nat \ {0}
    BY <1>1, <1>6 DEF IsQuestion, Kind
  <2> QED BY <1>3, <1>4, <1>6, <2>1 DEF Size, Limit, TooMany, Considered
<1>7. CASE Kind(q) = "documents"
  <2>1. q.ask.stop.ef_collection \in Nat \ {0}
    BY <1>1, <1>7 DEF IsQuestion, Kind
  <2> QED BY <1>3, <1>4, <1>7, <2>1 DEF Size, Limit, TooMany, Considered
<1> QED BY <1>1, <1>5, <1>6, <1>7 DEF IsQuestion, Kind

(***************************************************************************)
(* Every step of a search keeps what the query holds.                      *)
(***************************************************************************)

\* Two queries that ask the same and start alike follow the same pure search.
LEMMA SameBeam ==
  ASSUME NEW q, NEW r, r.ask = q.ask, r.at = q.at
  PROVE  BeamOf(r) = BeamOf(q)
<1>1. Hidden(r) = Hidden(q) /\ ef(r) = ef(q) /\ (BareBone(r) <=> BareBone(q))
  BY SameQuestion
<1>2. BareBone(r) = BareBone(q)
  BY <1>1 DEF BareBone, Kind
<1> QED BY <1>1, <1>2 DEF BeamOf

\* The beams of the pure search that a search for nearest elements follows
LEMMA BeamOfFacts ==
  ASSUME ix \in Queried, NEW q \in Locals, Asking(q), Kind(q) = "none", NEW k \in 0 .. ix.count
  PROVE  /\ ef(q) \in Nat \ {0} /\ q.ask.vector \in Int /\ WellFormed(ix, M)
         /\ BeamOf(q)[0] = BeamStart(q.at, Hidden(q))
         /\ IsState(ix, ef(q), BeamOf(q)[k])
         /\ BeamStops(ix, q.ask.vector, ef(q), BareBone(q), BeamOf(q)[k]) =>
              Beam(ix, q.ask.vector, q.at, 0, ef(q), Hidden(q), BareBone(q)) = BeamOf(q)[k].top
         /\ ~ BeamStops(ix, q.ask.vector, ef(q), BareBone(q), BeamOf(q)[k]) =>
              /\ k + 1 \in 0 .. ix.count
              /\ BeamOf(q)[k + 1] = BeamExpand(ix, q.ask.vector, 0, ef(q), Hidden(q), BeamOf(q)[k])
<1>1. /\ WellFormed(ix, M) /\ IsQuestion(q.ask) /\ q.ask.vector \in Int /\ q.ask.k \in Nat
      /\ ef(q) \in Nat /\ q.at \in Ids(ix)
  BY AskedFacts
<1>2. ef(q) \in Nat \ {0}
  BY <1>1, QueriesAssumption DEF ef, IsQuestion, Kind
<1> DEFINE x == q.ask.vector
           E == ef(q)
           H == Hidden(q)
           early == BareBone(q)
           f == BeamAfter(ix, x, q.at, 0, E, H, early)
<1>3. BeamOf(q) = f
  BY DEF BeamOf
<1>4. x \in Int /\ E \in Nat \ {0} /\ q.at \in Ids(ix) /\ WellFormed(ix, M)
  BY <1>1, <1>2
<1>5. f = BeamAfter(ix, x, q.at, 0, E, H, early)
  OBVIOUS
<1> HIDE DEF x, E, H, early, f
<1>6. /\ f[0] = BeamStart(q.at, H)
      /\ BeamInv(ix, x, q.at, 0, E, H, f[k])
      /\ BeamStops(ix, x, E, early, f[k]) => Beam(ix, x, q.at, 0, E, H, early) = f[k].top
      /\ ~ BeamStops(ix, x, E, early, f[k]) =>
           k + 1 \in 0 .. ix.count /\ f[k + 1] = BeamExpand(ix, x, 0, E, H, f[k])
  BY <1>4, <1>5, BeamTrace
<1>7. IsState(ix, E, f[k])
  BY <1>6, BeamIsState
<1> QED BY <1>3, <1>4, <1>6, <1>7 DEF x, E, H, early

\* A search begins.
LEMMA BegunOK ==
  ASSUME ix \in Queried, NEW q \in Locals, Asking(q), Fresh(q), NEW tag, NEW r, BegunAs(q, tag, r)
  PROVE  Searching(r, {r.at})
<1>1. /\ r \in Locals /\ Asking(r) /\ r.ask = q.ask /\ r.at = q.at /\ r.todo = {}
      /\ r.candidate_set = {<<IF q.at \in Hidden(q) THEN FarAway ELSE Distance(q, q.at), q.at>>}
      /\ r.top = IF q.at \in Hidden(q) THEN {} ELSE {q.at}
      /\ r.condition = IF q.at \in Hidden(q) THEN NewCondition ELSE Added(NewCondition, q.at)
      /\ q.at \in Hidden(q) => r.lowerBound = FarAway
      /\ q.at \notin Hidden(q) /\ ~ TooMany(r) => r.lowerBound = Distance(r, Farthest(r))
  BY DEF BegunAs, Fresh
<1>2. /\ \A n : Distance(r, n) = Distance(q, n)
      /\ Hidden(r) = Hidden(q)
  BY <1>1, SameQuestion
<1>3. q.at \in Ids(ix) /\ q.condition \in Conditions /\ q.condition = NewCondition
  BY AskedFacts DEF Locals, Fresh
<1>4. Counts(r.condition, r.top) /\ r.condition.search_results_ = r.top
  <2>1. Counts(NewCondition, {})
    BY NothingCounted
  <2>2. CASE q.at \in Hidden(q)
    BY <1>1, <2>2, NothingCounted DEF NewCondition
  <2>3. CASE q.at \notin Hidden(q)
    <3>1. Counts(Added(NewCondition, q.at), {} \cup {q.at})
      BY <1>3, <2>1, CountsAdded, {} \in SUBSET Ids(ix)
    <3>2. Added(NewCondition, q.at).search_results_ = {q.at}
      BY DEF Added, NewCondition
    <3> QED BY <1>1, <2>3, <3>1, <3>2
  <2> QED BY <2>2, <2>3
<1>5. r.top = {r.at} \ Hidden(r) /\ r.top \subseteq {r.at} \ Hidden(r)
  BY <1>1, <1>2
<1>6. Starting(r)
  BY <1>1, <1>2, <1>5 DEF Starting
<1>7. NothingCloser(r, {r.at}, Size(r), Limit(r))
  BY <1>5 DEF NothingCloser, NoneCloser
<1>8. ASSUME Kind(r) = "none"
      PROVE  0 \in 0 .. ix.count /\ Follows(r, {r.at}, BeamOf(r)[0])
  <2>1. 0 \in 0 .. ix.count
    BY QueriesAssumption DEF WellFormed
  <2>2. BeamOf(r)[0] = BeamStart(r.at, Hidden(r))
    BY <1>1, <1>8, <2>1, BeamOfFacts
  <2>3. Candidates(r) = {r.at}
    BY <1>1 DEF Candidates
  <2>4. AtTurn(ix, r.ask.vector, ef(r), {r.at}, Candidates(r), r.top, BeamStart(r.at, Hidden(r)))
    BY <1>5, <2>3 DEF AtTurn, BeamStart
  <2> QED BY <1>1, <2>1, <2>2, <2>4 DEF Follows
<1>9. /\ r.top = {} => r.lowerBound = FarAway
      /\ r.top # {} /\ ~ TooMany(r) => r.lowerBound = Distance(r, Farthest(r))
  BY <1>1
<1>10. Heaped(r, {r.at})
  BY <1>4, <1>5, HeapIsResults
<1> QED BY <1>4, <1>10, <1>5, <1>6, <1>7, <1>8, <1>9 DEF Searching

\* The search for nearest elements between two turns
LEMMA BetweenFollows ==
  ASSUME ix \in Queried, NEW q \in Locals, Asking(q), NEW V, Searching(q, V), Between(q),
         Kind(q) = "none", Apart(q)
  PROVE  \E k \in 0 .. ix.count :
           AtTurn(ix, q.ask.vector, ef(q), V, Candidates(q), q.top, BeamOf(q)[k])
<1> DEFINE x == q.ask.vector
           E == ef(q)
           H == Hidden(q)
           C == Candidates(q)
           f == BeamOf(q)
<1>1. PICK k \in 0 .. ix.count : Follows(q, V, f[k])
  BY DEF Searching
<1>2. q.todo = {} /\ Cardinality(q.top) <= E
  <2>1. Counts(q.condition, q.top) /\ ~ TooMany(q) /\ q.todo = {}
    BY DEF Searching, Between
  <2>2. ~ Size(q) > Limit(q) /\ Size(q) \in Nat /\ Limit(q) \in Nat /\ Size(q) = Cardinality(q.top)
    BY <2>1, SizeFacts
  <2>3. Limit(q) = E
    BY DEF Limit
  <2> QED BY <2>1, <2>2, <2>3
<1>3. CASE AtTurn(ix, x, E, V, C, q.top, f[k])
  BY <1>3
<1>4. CASE /\ InTurn(ix, x, E, H, V, C, q.top, q.todo, f[k])
           /\ ~ BeamStops(ix, x, E, BareBone(q), f[k])
  <2>1. /\ E \in Nat \ {0} /\ x \in Int /\ WellFormed(ix, M) /\ IsState(ix, E, f[k])
        /\ k + 1 \in 0 .. ix.count /\ f[k + 1] = BeamExpand(ix, x, 0, E, H, f[k])
    BY <1>4, BeamOfFacts
  <2>2. Distinct(ix, x)
    BY AskedApart
  <2>3. Turning(ix, x, E, H, V, C, q.top, q.todo, f[k])
    BY <1>4, <2>1 DEF Turning
  <2> HIDE DEF x, E, H, C, f
  <2>4. AtTurn(ix, x, E, V, C, q.top, BeamExpand(ix, x, 0, E, H, f[k]))
    BY <1>2, <2>2, <2>3, TurnEnds
  <2> QED BY <2>1, <2>4 DEF x, E, C, f
<1> QED BY <1>1, <1>3, <1>4 DEF Follows

\* The first candidate in the eyes of the code and of the pure search; when
\* there are results, its distance is what the code keeps with it.
LEMMA FirstCandidate ==
  ASSUME ix \in Queried, NEW q \in Locals, Asking(q), NEW V, Searching(q, V), Between(q),
         NEW c \in ClosestCandidates(q)
  PROVE  /\ c \in q.candidate_set /\ c[2] \in Candidates(q) /\ c[1] \in Nat
         /\ c[2] \in Ids(ix) /\ Candidates(q) \subseteq Ids(ix)
         /\ \A d \in Candidates(q) :
              From(ix, q.ask.vector, c[2]) <= From(ix, q.ask.vector, d)
         /\ q.top # {} => c[1] = Distance(q, c[2]) /\ q.lowerBound = Distance(q, Farthest(q))
         /\ c[1] <= FarAway
         /\ {d[2] : d \in q.candidate_set \ {c}} = Candidates(q) \ {c[2]}
<1>1. /\ c \in q.candidate_set /\ c[2] \in Ids(ix) /\ \A d \in q.candidate_set : c[1] <= d[1]
  BY ClosestCandidateFacts
<1>2. q.candidate_set \in SUBSET (Nat \X Ids(ix)) /\ FarAway \in Nat
  BY QueriesAssumption DEF Locals
<1>3. c[2] \in Candidates(q) /\ Candidates(q) \subseteq Ids(ix) /\ c[1] \in Nat
  BY <1>1, <1>2 DEF Candidates
<1>4. \A n \in Ids(ix) : /\ Distance(q, n) \in Nat /\ Distance(q, n) = From(ix, q.ask.vector, n)
                         /\ Distance(q, n) <= FarAway
  BY AskedFacts
<1>5. q.top # {} => q.lowerBound = Distance(q, Farthest(q))
  BY DEF Searching, Between
<1>6. CASE Starting(q)
  <2>1. q.candidate_set = {c} /\ c[2] = q.at
        /\ (c[1] = IF q.at \in Hidden(q) THEN FarAway ELSE Distance(q, q.at))
    BY <1>1, <1>6 DEF Starting
  <2>2. Candidates(q) = {c[2]} /\ {d[2] : d \in q.candidate_set \ {c}} = {}
    BY <2>1 DEF Candidates
  <2>3. q.top # {} => q.at \notin Hidden(q)
    BY <1>6 DEF Starting
  <2>4. c[1] <= FarAway
    BY <1>1, <1>2, <1>4, <2>1
  <2>5. From(ix, q.ask.vector, c[2]) <= From(ix, q.ask.vector, c[2])
    <3>1. From(ix, q.ask.vector, c[2]) \in Nat
      BY <1>1, <1>4
    <3> QED BY <3>1
  <2> QED BY <1>1, <1>3, <1>5, <2>1, <2>2, <2>3, <2>4, <2>5
<1>7. CASE \A d \in q.candidate_set : d[1] = Distance(q, d[2])
  <2>1. \A d \in q.candidate_set : d[2] \in Ids(ix)
    BY <1>2
  <2>2. ASSUME NEW d \in Candidates(q)
        PROVE  From(ix, q.ask.vector, c[2]) <= From(ix, q.ask.vector, d)
    <3>1. PICK e \in q.candidate_set : d = e[2]
      BY DEF Candidates
    <3>2. Distance(q, c[2]) <= Distance(q, d)
      BY <1>1, <1>7, <3>1
    <3> QED BY <1>1, <1>4, <2>1, <3>1, <3>2
  <2>3. c[1] = Distance(q, c[2]) /\ c[1] <= FarAway
    BY <1>1, <1>4, <1>7
  <2>4. \A d \in q.candidate_set : d[2] = c[2] => d = c
    BY <1>1, <1>2, <1>7
  <2>5. {d[2] : d \in q.candidate_set \ {c}} = Candidates(q) \ {c[2]}
    BY <1>1, <2>4 DEF Candidates
  <2> QED BY <1>1, <1>3, <1>5, <2>2, <2>3, <2>5
<1> QED BY <1>6, <1>7 DEF Searching

\* For nearest elements the code's rule to stop is the one of the pure search.
LEMMA StopRule ==
  ASSUME ix \in Queried, NEW q \in Locals, Asking(q), NEW V, Searching(q, V), Between(q),
         NEW c \in ClosestCandidates(q), Kind(q) = "none"
  PROVE  ShouldStop(q, c[1]) <=> Beyond(ix, q.ask.vector, ef(q), BareBone(q), q.top, c[2])
<1>1. /\ c[1] \in Nat /\ c[2] \in Ids(ix) /\ c[1] <= FarAway
      /\ q.top # {} => c[1] = Distance(q, c[2]) /\ q.lowerBound = Distance(q, Farthest(q))
  BY FirstCandidate
<1>2. ShouldStop(q, c[1]) <=> c[1] > q.lowerBound /\ (BareBone(q) \/ Cardinality(q.top) = ef(q))
  BY DEF ShouldStop
<1>3. CASE q.top = {}
  <2>1. q.lowerBound = FarAway /\ FarAway \in Nat
    BY <1>3, QueriesAssumption DEF Searching
  <2> QED BY <1>1, <1>2, <1>3, <2>1 DEF Beyond
<1>4. CASE q.top # {}
  <2>1. /\ Farthest(q) \in q.top /\ Farthest(q) \in Ids(ix) /\ q.top \subseteq Ids(ix)
        /\ \A n \in q.top : Distance(q, n) <= Distance(q, Farthest(q))
    BY <1>4, FarthestType DEF Locals
  <2>2. \A n \in Ids(ix) : Distance(q, n) \in Nat /\ Distance(q, n) = From(ix, q.ask.vector, n)
    BY AskedFacts
  <2>3. c[1] > q.lowerBound <=> \A n \in q.top : From(ix, q.ask.vector, n) < From(ix, q.ask.vector, c[2])
    BY <1>1, <1>4, <2>1, <2>2
  <2> QED BY <1>2, <1>4, <2>3 DEF Beyond
<1> QED BY <1>3, <1>4

\* Where the results and their counts stay, so do the size and the rules.
LEMMA SameResults ==
  ASSUME NEW q, NEW r, r.ask = q.ask, r.top = q.top, r.condition = q.condition
  PROVE  /\ Size(r) = Size(q) /\ (TooMany(r) <=> TooMany(q)) /\ Farthest(r) = Farthest(q)
         /\ \A V : Heaped(q, V) => Heaped(r, V)
         /\ \A V : NoneCloser(q, V) => NoneCloser(r, V)
         /\ \A V, size, limit : NothingCloser(q, V, size, limit) => NothingCloser(r, V, size, limit)
<1>1. /\ \A n : Distance(r, n) = Distance(q, n)
      /\ Hidden(r) = Hidden(q) /\ ef(r) = ef(q) /\ Kind(r) = Kind(q)
  BY SameQuestion
<1>2. Size(r) = Size(q) /\ (TooMany(r) <=> TooMany(q))
  BY <1>1 DEF Size, TooMany
<1>3. Farthest(r) = Farthest(q)
  BY DEF Farthest
<1>4. \A V : Heaped(q, V) => Heaped(r, V)
  BY <1>1 DEF Heaped, AtDistance
<1>5. \A V : NoneCloser(q, V) => NoneCloser(r, V)
  BY <1>1 DEF NoneCloser
<1>6. \A V, size, limit : NothingCloser(q, V, size, limit) => NothingCloser(r, V, size, limit)
  BY <1>1, <1>5 DEF NothingCloser
<1> QED BY <1>2, <1>3, <1>4, <1>5, <1>6

\* A candidate is expanded.
LEMMA ExpandedOK ==
  ASSUME ix \in Queried, NEW q \in Locals, Asking(q), NEW V, Searching(q, V), Between(q),
         GoesOn(q), NEW c \in ClosestCandidates(q), NEW r, ExpandedAs(q, c, r)
  PROVE  Searching(r, V)
<1>1. /\ r \in Locals /\ Asking(r) /\ r.ask = q.ask /\ r.at = q.at /\ r.top = q.top
      /\ r.condition = q.condition /\ r.lowerBound = q.lowerBound
      /\ r.candidate_set = q.candidate_set \ {c} /\ r.todo = ix.links[0][c[2]]
  BY DEF ExpandedAs
<1>2. /\ \A n : Distance(r, n) = Distance(q, n)
      /\ Hidden(r) = Hidden(q) /\ ef(r) = ef(q) /\ Kind(r) = Kind(q) /\ Limit(r) = Limit(q)
      /\ (BareBone(r) <=> BareBone(q)) /\ (Apart(r) <=> Apart(q))
  BY <1>1, SameQuestion
<1>3. /\ Size(r) = Size(q) /\ (TooMany(r) <=> TooMany(q)) /\ Farthest(r) = Farthest(q)
      /\ \A W : Heaped(q, W) => Heaped(r, W)
      /\ \A W, size, limit : NothingCloser(q, W, size, limit) => NothingCloser(r, W, size, limit)
  BY <1>1, SameResults
<1>4. /\ Counts(q.condition, q.top) /\ Heaped(q, V) /\ q.at \in V /\ q.top \subseteq V \ Hidden(q)
      /\ q.top = {} => q.lowerBound = FarAway
      /\ q.top # {} /\ ~ TooMany(q) => q.lowerBound = Distance(q, Farthest(q))
      /\ Starting(q) \/ \A d \in q.candidate_set : d[1] = Distance(q, d[2])
      /\ NothingCloser(q, V, Size(q), Limit(q))
      /\ (Starting(q) /\ V = {q.at}) \/ (FullyLinked => Ids(ix) \subseteq V \cup q.todo)
  BY DEF Searching
<1>5. q.todo = {} /\ ~ ShouldStop(q, c[1])
  BY ClosestCandidateFacts DEF Between
<1>6. /\ c \in q.candidate_set /\ c[2] \in Candidates(q)
      /\ c[2] \in Ids(ix) /\ Candidates(q) \subseteq Ids(ix)
      /\ \A d \in Candidates(q) : From(ix, q.ask.vector, c[2]) <= From(ix, q.ask.vector, d)
      /\ {d[2] : d \in q.candidate_set \ {c}} = Candidates(q) \ {c[2]}
  BY FirstCandidate
<1>7. \A d \in r.candidate_set : d[1] = Distance(r, d[2])
  <2>1. CASE Starting(q)
    <3>1. r.candidate_set = {}
      BY <1>1, <1>6, <2>1 DEF Starting
    <3> QED BY <3>1
  <2>2. CASE \A d \in q.candidate_set : d[1] = Distance(q, d[2])
    BY <1>1, <1>2, <2>2
  <2> QED BY <1>4, <2>1, <2>2
<1>8. FullyLinked => Ids(ix) \subseteq V \cup r.todo
  <2>1. CASE Starting(q) /\ V = {q.at}
    <3>1. c[2] = q.at
      BY <1>6, <2>1 DEF Starting
    <3>2. FullyLinked => r.todo = Ids(ix) \ {q.at}
      BY <1>1, <1>6, <3>1 DEF FullyLinked
    <3> QED BY <2>1, <3>2
  <2>2. CASE FullyLinked => Ids(ix) \subseteq V \cup q.todo
    BY <1>5, <2>2
  <2> QED BY <1>4, <2>1, <2>2
<1>9. ASSUME Kind(r) = "none", Apart(r)
      PROVE  \E k \in 0 .. ix.count : Follows(r, V, BeamOf(r)[k])
  <2> DEFINE x == q.ask.vector
             E == ef(q)
             H == Hidden(q)
             C == Candidates(q)
             f == BeamOf(q)
             early == BareBone(q)
  <2>1. Kind(q) = "none" /\ Apart(q)
    BY <1>2, <1>9
  <2>2. PICK k \in 0 .. ix.count : AtTurn(ix, x, E, V, C, q.top, f[k])
    BY <2>1, BetweenFollows
  <2>3. E \in Nat \ {0} /\ x \in Int /\ WellFormed(ix, M) /\ IsState(ix, E, f[k])
    BY <2>1, BeamOfFacts
  <2>4. Distinct(ix, x)
    BY <2>1, AskedApart
  <2>5. ~ Beyond(ix, x, E, early, q.top, c[2])
    BY <1>5, <2>1, StopRule
  <2> DEFINE s == f[k]
             n == c[2]
  <2>6. n \in C /\ \A d \in C : From(ix, x, n) <= From(ix, x, d)
    BY <1>6
  <2>7. /\ AtTurn(ix, x, E, V, C, q.top, s) /\ IsState(ix, E, s)
        /\ ~ Beyond(ix, x, E, early, q.top, n)
    BY <2>2, <2>3, <2>5
  <2>8. r.candidate_set = q.candidate_set \ {c} /\ r.todo = ix.links[0][n]
        /\ {d[2] : d \in q.candidate_set \ {c}} = C \ {n}
    BY <1>1, <1>6
  <2> HIDE DEF x, E, H, C, f, s, n, early
  <2>9. s.cand # {} /\ n = Current(ix, x, s) /\ ~ BeamStops(ix, x, E, early, s)
    BY <2>3, <2>4, <2>6, <2>7, GoesAlike
  <2>10. Turning(ix, x, E, H, V, C \ {Current(ix, x, s)}, q.top, ix.links[0][Current(ix, x, s)], s)
    BY <2>3, <2>7, <2>9, TurnBegins
  <2>11. InTurn(ix, x, E, H, V, C \ {n}, q.top, r.todo, s)
    BY <2>8, <2>9, <2>10 DEF Turning
  <2>12. Candidates(r) = C \ {n}
    BY <2>8 DEF Candidates
  <2>13. BeamOf(r) = f
    BY <1>1, SameBeam DEF f
  <2>14. BareBone(r) = early
    BY <1>1 DEF early, BareBone, Kind
  <2>15. Follows(r, V, s)
    BY <1>1, <1>2, <2>9, <2>11, <2>12, <2>14 DEF Follows, x, E, H
  <2> QED BY <2>13, <2>15 DEF s
<1>10. r.top = {} => r.lowerBound = FarAway
  BY <1>1, <1>4
<1>11. r.top # {} /\ ~ TooMany(r) => r.lowerBound = Distance(r, Farthest(r))
  BY <1>1, <1>2, <1>3, <1>4
<1>12. r.at \in V /\ r.top \subseteq V \ Hidden(r)
  BY <1>1, <1>2, <1>4
<1>13. Counts(r.condition, r.top) /\ Heaped(r, V) /\ NothingCloser(r, V, Size(r), Limit(r))
  <2>1. Counts(r.condition, r.top) /\ Heaped(r, V)
    BY <1>1, <1>3, <1>4
  <2>2. NothingCloser(r, V, Size(q), Limit(q))
    BY <1>3, <1>4
  <2> QED BY <1>2, <1>3, <2>1, <2>2
<1> QED BY <1>7, <1>8, <1>9, <1>10, <1>11, <1>12, <1>13 DEF Searching

\* A marked neighbour is passed over.
LEMMA PassedOK ==
  ASSUME ix \in Queried, NEW q \in Locals, Asking(q), NEW V, Searching(q, V),
         NEW n \in q.todo, n \in V, NEW r, r = Passed(q, n)
  PROVE  Searching(r, V)
<1>1. /\ r.ask = q.ask /\ r.at = q.at /\ r.top = q.top /\ r.condition = q.condition
      /\ r.lowerBound = q.lowerBound /\ r.candidate_set = q.candidate_set /\ r.todo = q.todo \ {n}
  BY DEF Passed, Locals
<1>2. /\ \A m : Distance(r, m) = Distance(q, m)
      /\ Hidden(r) = Hidden(q) /\ ef(r) = ef(q) /\ Kind(r) = Kind(q) /\ Limit(r) = Limit(q)
      /\ (Apart(r) <=> Apart(q))
  BY <1>1, SameQuestion
<1>3. /\ Size(r) = Size(q) /\ (TooMany(r) <=> TooMany(q)) /\ Farthest(r) = Farthest(q)
      /\ \A W : Heaped(q, W) => Heaped(r, W)
      /\ \A W, size, limit : NothingCloser(q, W, size, limit) => NothingCloser(r, W, size, limit)
  BY <1>1, SameResults
<1>4. ~ Starting(q)
  BY DEF Starting
<1>5. /\ Counts(q.condition, q.top) /\ Heaped(q, V) /\ q.at \in V /\ q.top \subseteq V \ Hidden(q)
      /\ q.top = {} => q.lowerBound = FarAway
      /\ q.top # {} /\ ~ TooMany(q) => q.lowerBound = Distance(q, Farthest(q))
      /\ \A d \in q.candidate_set : d[1] = Distance(q, d[2])
      /\ NothingCloser(q, V, Size(q), Limit(q))
      /\ FullyLinked => Ids(ix) \subseteq V \cup q.todo
  BY <1>4 DEF Searching
<1>6. ASSUME Kind(r) = "none", Apart(r)
      PROVE  \E k \in 0 .. ix.count : Follows(r, V, BeamOf(r)[k])
  <2> DEFINE x == q.ask.vector
             E == ef(q)
             H == Hidden(q)
             C == Candidates(q)
             f == BeamOf(q)
             early == BareBone(q)
  <2>1. Kind(q) = "none" /\ Apart(q)
    BY <1>2, <1>6
  <2>2. PICK k \in 0 .. ix.count : Follows(q, V, f[k])
    BY <2>1 DEF Searching
  <2> DEFINE s == f[k]
  <2>3. InTurn(ix, x, E, H, V, C, q.top, q.todo, s) /\ ~ BeamStops(ix, x, E, early, s)
    BY <2>2 DEF Follows
  <2>4. E \in Nat \ {0} /\ x \in Int /\ WellFormed(ix, M) /\ IsState(ix, E, s)
    BY <2>1, BeamOfFacts
  <2> HIDE DEF x, E, H, C, f, s, early
  <2>5. Turning(ix, x, E, H, V, C, q.top, q.todo, s)
    BY <2>3, <2>4 DEF Turning
  <2>6. Turning(ix, x, E, H, V, C, q.top, q.todo \ {n}, s)
    BY <2>5, MarkedIsPassed
  <2>7. Candidates(r) = C /\ BeamOf(r) = f /\ BareBone(r) = early
    <3>1. Candidates(r) = C
      BY <1>1 DEF Candidates, C
    <3>2. BareBone(r) = early
      BY <1>1 DEF early, BareBone, Kind
    <3> QED BY <3>1, <3>2, <1>1, SameBeam DEF f
  <2>8. Follows(r, V, s)
    BY <1>1, <1>2, <2>3, <2>6, <2>7 DEF Follows, Turning, x, E, H
  <2> QED BY <2>7, <2>8 DEF s
<1>7. Counts(r.condition, r.top) /\ Heaped(r, V) /\ NothingCloser(r, V, Size(r), Limit(r))
  <2>1. Counts(r.condition, r.top) /\ Heaped(r, V)
    BY <1>1, <1>3, <1>5
  <2>2. NothingCloser(r, V, Size(q), Limit(q))
    BY <1>3, <1>5
  <2> QED BY <1>2, <1>3, <2>1, <2>2
<1>8. /\ r.at \in V /\ r.top \subseteq V \ Hidden(r)
      /\ r.top = {} => r.lowerBound = FarAway
      /\ r.top # {} /\ ~ TooMany(r) => r.lowerBound = Distance(r, Farthest(r))
      /\ \A d \in r.candidate_set : d[1] = Distance(r, d[2])
      /\ FullyLinked => Ids(ix) \subseteq V \cup r.todo
  BY <1>1, <1>2, <1>3, <1>5
<1> QED BY <1>6, <1>7, <1>8 DEF Searching

\* What an element not yet marked is to the results: it is considered unless
\* they are as many as may be and none is farther.
LEMMA ConsideredFacts ==
  ASSUME ix \in Queried, NEW q \in Locals, Asking(q), NEW V, Searching(q, V), ~ TooMany(q),
         NEW n \in Ids(ix)
  PROVE  /\ ~ Considered(q, n) => /\ Size(q) = Limit(q)
                                  /\ \A m \in q.top : Distance(q, m) <= Distance(q, n)
         /\ Considered(q, n) /\ Size(q) >= Limit(q) =>
              \E m \in q.top : Distance(q, n) < Distance(q, m)
<1>1. /\ Counts(q.condition, q.top)
      /\ q.top # {} => q.lowerBound = Distance(q, Farthest(q))
  BY DEF Searching
<1>2. /\ Size(q) \in Nat /\ Limit(q) \in Nat \ {0} /\ ~ Size(q) > Limit(q)
      /\ Considered(q, n) <=> q.lowerBound > Distance(q, n) \/ Size(q) < Limit(q)
      /\ q.top = {} => Size(q) = 0
  BY <1>1, SizeFacts
<1>3. \A m \in Ids(ix) : Distance(q, m) \in Nat
  BY AskedFacts
<1>4. q.top # {} => /\ Farthest(q) \in q.top /\ Farthest(q) \in Ids(ix) /\ q.top \subseteq Ids(ix)
                    /\ \A m \in q.top : Distance(q, m) <= Distance(q, Farthest(q))
  BY FarthestType DEF Locals
<1>5. ASSUME ~ Considered(q, n)
      PROVE  Size(q) = Limit(q) /\ \A m \in q.top : Distance(q, m) <= Distance(q, n)
  <2>1. ~ (q.lowerBound > Distance(q, n)) /\ Size(q) = Limit(q) /\ q.top # {}
    BY <1>2, <1>5
  <2>2. \A m \in q.top : Distance(q, m) <= Distance(q, n)
    BY <1>1, <1>3, <1>4, <2>1
  <2> QED BY <2>1, <2>2
<1>6. ASSUME Considered(q, n), Size(q) >= Limit(q)
      PROVE  \E m \in q.top : Distance(q, n) < Distance(q, m)
  <2>1. q.lowerBound > Distance(q, n) /\ q.top # {}
    BY <1>2, <1>6
  <2>2. Distance(q, n) < Distance(q, Farthest(q))
    BY <1>1, <1>3, <1>4, <2>1
  <2> QED BY <1>4, <2>1, <2>2
<1> QED BY <1>5, <1>6

\* The pure search looks at the neighbour in the same way.
LEMMA LookFollows ==
  ASSUME ix \in Queried, NEW q \in Locals, Asking(q), NEW V, Searching(q, V), ~ TooMany(q),
         Kind(q) = "none", NEW n \in q.todo, n \notin V, NEW r, LookedAs(q, n, r),
         NEW k \in 0 .. ix.count, Follows(q, V, BeamOf(q)[k])
  PROVE  Follows(r, V \cup {n}, BeamOf(r)[k])
<1> DEFINE x == q.ask.vector
           E == ef(q)
           H == Hidden(q)
           C == Candidates(q)
           f == BeamOf(q)
           s == f[k]
           early == BareBone(q)
<1>1. n \in Ids(ix) /\ q.top \in SUBSET Ids(ix) /\ q.candidate_set \in SUBSET (Nat \X Ids(ix))
  BY DEF Locals
<1>2. r.ask = q.ask /\ r.at = q.at /\ r.todo = q.todo \ {n}
  BY DEF LookedAs
<1>3. /\ Size(q) = Cardinality(q.top) /\ Limit(q) = E /\ Size(q) \in Nat /\ E \in Nat
      /\ Cardinality(q.top) <= E
  <2>1. Counts(q.condition, q.top)
    BY DEF Searching
  <2>2. Limit(q) = E
    BY DEF Limit
  <2> QED BY <2>1, <2>2, SizeFacts
<1>4. \A m \in Ids(ix) : Distance(q, m) = From(ix, x, m)
  BY AskedFacts
<1>5. ~ Considered(q, n) => NoRoomFor(ix, x, E, q.top, n)
  BY <1>1, <1>3, <1>4, ConsideredFacts DEF NoRoomFor
<1>6. Considered(q, n) => Cardinality(q.top) < E \/ \E m \in q.top : From(ix, x, n) < From(ix, x, m)
  BY <1>1, <1>3, <1>4, ConsideredFacts
<1>7. InTurn(ix, x, E, H, V, C, q.top, q.todo, s) /\ ~ BeamStops(ix, x, E, early, s)
  BY DEF Follows
<1>8. E \in Nat \ {0} /\ x \in Int /\ WellFormed(ix, M) /\ IsState(ix, E, s)
  BY BeamOfFacts
<1>9. BareBone(r) = early /\ BeamOf(r) = f /\ r.ask.vector = x /\ ef(r) = E /\ Hidden(r) = H
  <2>1. BareBone(r) = early
    BY <1>2 DEF BareBone, Kind
  <2> QED BY <1>2, <2>1, SameBeam, SameQuestion
<1>10. /\ ~ Considered(q, n) => Candidates(r) = C /\ r.top = q.top
       /\ Considered(q, n) => Candidates(r) = C \cup {n} /\ r.top = q.top \cup ({n} \ H)
  <2>1. Considered(q, n) => /\ r.candidate_set = q.candidate_set \cup {<<Distance(q, n), n>>}
                            /\ r.top = q.top \cup ({n} \ H)
    BY DEF LookedAs
  <2>2. <<Distance(q, n), n>>[2] = n
    OBVIOUS
  <2>3. Considered(q, n) => Candidates(r) = C \cup {n}
    BY <2>1, <2>2 DEF Candidates
  <2>4. ~ Considered(q, n) => r.candidate_set = q.candidate_set /\ r.top = q.top
    BY DEF LookedAs
  <2> QED BY <2>1, <2>3, <2>4 DEF Candidates
<1> HIDE DEF x, E, H, C, f, s, early
<1>11. Turning(ix, x, E, H, V, C, q.top, q.todo, s)
  BY <1>7, <1>8 DEF Turning
<1>12. Turning(ix, x, E, H, V \cup {n}, Candidates(r), r.top, q.todo \ {n}, s)
  <2>1. CASE ~ Considered(q, n)
    <3>1. Turning(ix, x, E, H, V \cup {n}, C, q.top, q.todo \ {n}, s)
      BY <1>5, <1>11, <2>1, FarIsPassed
    <3> QED BY <1>10, <2>1, <3>1
  <2>2. CASE Considered(q, n)
    <3>1. Cardinality(s.top) < E \/ BelowBound(ix, x, s.top, n)
      BY <1>3, <1>6, <1>11, <2>2, CloserIsWanted
    <3>2. CASE n \in H
      <4>1. Turning(ix, x, E, H, V \cup {n}, C \cup {n}, q.top, q.todo \ {n}, s)
        BY <1>11, <3>1, <3>2, HiddenIsCandidate
      <4>2. r.top = q.top /\ Candidates(r) = C \cup {n}
        BY <1>10, <2>2, <3>2
      <4> QED BY <4>1, <4>2
    <3>3. CASE n \notin H
      <4>1. Turning(ix, x, E, H, V \cup {n}, C \cup {n}, q.top \cup {n}, q.todo \ {n}, s)
        BY <1>3, <1>11, <3>1, <3>3, CloserIsResult
      <4>2. r.top = q.top \cup {n} /\ Candidates(r) = C \cup {n}
        BY <1>10, <2>2, <3>3
      <4> QED BY <4>1, <4>2
    <3> QED BY <3>2, <3>3
  <2> QED BY <2>1, <2>2
<1> QED BY <1>2, <1>7, <1>9, <1>12 DEF Follows, Turning, s

\* A neighbour that is not marked is looked at, and marked.
LEMMA LookedOK ==
  ASSUME ix \in Queried, NEW q \in Locals, Asking(q), NEW V \in SUBSET Ids(ix), Searching(q, V),
         ~ TooMany(q), NEW n \in q.todo, n \notin V, NEW r, LookedAs(q, n, r)
  PROVE  Searching(r, V \cup {n})
<1>1. /\ r \in Locals /\ Asking(r) /\ r.ask = q.ask /\ r.at = q.at /\ r.todo = q.todo \ {n}
      /\ ~ Considered(q, n) => /\ r.candidate_set = q.candidate_set /\ r.top = q.top
                               /\ r.condition = q.condition /\ r.lowerBound = q.lowerBound
      /\ Considered(q, n) =>
           /\ r.candidate_set = q.candidate_set \cup {<<Distance(q, n), n>>}
           /\ r.top = q.top \cup ({n} \ Hidden(q))
           /\ r.condition = IF n \in Hidden(q) THEN q.condition ELSE Added(q.condition, n)
           /\ r.top = {} => r.lowerBound = q.lowerBound
           /\ r.top # {} /\ ~ TooMany(r) => r.lowerBound = Distance(r, Farthest(r))
  BY DEF LookedAs
<1>2. n \in Ids(ix) /\ q.top \in SUBSET Ids(ix) /\ q.condition \in Conditions
  BY DEF Locals
<1>3. /\ \A m : Distance(r, m) = Distance(q, m)
      /\ Hidden(r) = Hidden(q) /\ ef(r) = ef(q) /\ Kind(r) = Kind(q) /\ Limit(r) = Limit(q)
      /\ (Apart(r) <=> Apart(q))
  BY <1>1, SameQuestion
<1>4. /\ Counts(q.condition, q.top) /\ Heaped(q, V) /\ q.at \in V /\ q.top \subseteq V \ Hidden(q)
      /\ q.top = {} => q.lowerBound = FarAway
      /\ q.top # {} /\ ~ TooMany(q) => q.lowerBound = Distance(q, Farthest(q))
      /\ \A d \in q.candidate_set : d[1] = Distance(q, d[2])
      /\ NothingCloser(q, V, Size(q), Limit(q))
      /\ FullyLinked => Ids(ix) \subseteq V \cup q.todo
  BY DEF Searching, Starting
<1>5. /\ ~ Considered(q, n) => /\ Size(q) = Limit(q)
                               /\ \A m \in q.top : Distance(q, m) <= Distance(q, n)
      /\ Considered(q, n) /\ Size(q) >= Limit(q) =>
           \E m \in q.top : Distance(q, n) < Distance(q, m)
  BY <1>2, ConsideredFacts
<1>6. /\ Size(q) \in Nat /\ Limit(q) \in Nat
      /\ Kind(q) \in {"none", "epsilon", "documents"}
      /\ Kind(q) # "documents" => Size(q) = Cardinality(q.top)
      /\ Kind(q) = "documents" => Size(q) = Cardinality(Documents(q.top))
  BY <1>4, SizeFacts
<1>7. \A m \in Ids(ix) : Distance(q, m) \in Nat
  BY AskedFacts
<1> DEFINE W == V \cup {n}
<1> DEFINE Main ==
      /\ Counts(r.condition, r.top) /\ Heaped(r, W)
      /\ NothingCloser(r, W, Size(r), Limit(r))
      /\ r.top \subseteq W \ Hidden(r)
      /\ r.top = {} => r.lowerBound = FarAway
      /\ r.top # {} /\ ~ TooMany(r) => r.lowerBound = Distance(r, Farthest(r))
<1>8. ASSUME ~ Considered(q, n) \/ n \in Hidden(q) PROVE Main
  <2>1. r.top = q.top /\ r.condition = q.condition
    BY <1>1, <1>8
  <2>2. /\ Size(r) = Size(q) /\ (TooMany(r) <=> TooMany(q)) /\ Farthest(r) = Farthest(q)
    BY <1>1, <2>1, SameResults
  <2>3. NothingCloser(q, W, Size(q), Limit(q))
    BY <1>2, <1>4, <1>5, <1>6, <1>8 DEF NothingCloser, NoneCloser
  <2>4. NothingCloser(r, W, Size(q), Limit(q))
    BY <1>1, <2>1, <2>3, SameResults
  <2>5. Counts(r.condition, r.top)
    BY <1>4, <2>1
  <2>7. Heaped(r, W)
    <3>1. Heaped(q, W)
      BY <1>4 DEF Heaped
    <3> QED BY <1>1, <2>1, <3>1, SameResults
  <2>6. /\ r.top = {} => r.lowerBound = FarAway
        /\ r.top # {} /\ ~ TooMany(r) => r.lowerBound = Distance(r, Farthest(r))
    <3>1. CASE Considered(q, n)
      BY <1>1, <1>4, <2>1, <3>1
    <3>2. CASE ~ Considered(q, n)
      BY <1>1, <1>3, <1>4, <2>1, <2>2, <3>2
    <3> QED BY <3>1, <3>2
  <2> QED BY <1>3, <1>4, <2>1, <2>2, <2>4, <2>5, <2>6, <2>7
<1>9. ASSUME Considered(q, n), n \notin Hidden(q) PROVE Main
  <2>1. r.top = q.top \cup {n} /\ r.condition = Added(q.condition, n)
    BY <1>1, <1>9
  <2>2. n \in Ids(ix) \ q.top
    BY <1>2, <1>4
  <2>3. /\ Counts(Added(q.condition, n), q.top \cup {n})
        /\ Cardinality(Documents(q.top)) <= Cardinality(Documents(q.top \cup {n}))
    BY <1>2, <1>4, <2>2, CountsAdded
  <2>4. Counts(r.condition, r.top)
    BY <2>1, <2>3
  <2>9. Heaped(r, W)
    <3>1. r.condition.search_results_ = q.condition.search_results_ \cup {n}
      BY <2>1 DEF Added
    <3> QED BY <1>1, <1>2, <1>4, <1>9, <2>1, <3>1, HeapAdded
  <2>5. Size(r) \in Nat /\ Size(r) >= Size(q)
    <3>1. /\ Size(r) \in Nat
          /\ Kind(r) # "documents" => Size(r) = Cardinality(r.top)
          /\ Kind(r) = "documents" => Size(r) = Cardinality(Documents(r.top))
      BY <1>1, <2>4, SizeFacts
    <3>2. IsFiniteSet(q.top) /\ Cardinality(q.top) \in Nat
      BY <1>2, DocumentsFacts
    <3>3. Cardinality(q.top \cup {n}) = Cardinality(q.top) + 1
      BY <2>2, <3>2, FS_AddElement
    <3>4. CASE Kind(q) = "documents"
      BY <1>3, <1>6, <2>1, <2>3, <3>1, <3>4
    <3>5. CASE Kind(q) # "documents"
      BY <1>3, <1>6, <2>1, <3>1, <3>2, <3>3, <3>5
    <3> QED BY <3>4, <3>5
  <2>6. NothingCloser(r, W, Size(r), Limit(r))
    <3> SUFFICES ASSUME NEW m \in (W \ Hidden(r)) \ r.top
                 PROVE  Size(r) >= Limit(r) /\ \A j \in r.top : Distance(r, j) <= Distance(r, m)
      BY DEF NothingCloser, NoneCloser
    <3>1. m \in (V \ Hidden(q)) \ q.top /\ m \in Ids(ix)
      BY <1>2, <1>3, <2>1
    <3>2. Size(q) >= Limit(q) /\ \A j \in q.top : Distance(q, j) <= Distance(q, m)
      BY <1>4, <3>1 DEF NothingCloser, NoneCloser
    <3>3. PICK j \in q.top : Distance(q, n) < Distance(q, j)
      BY <1>5, <1>9, <3>2
    <3>4. Distance(q, n) <= Distance(q, m)
      BY <1>2, <1>7, <3>1, <3>2, <3>3
    <3> QED BY <1>3, <1>6, <2>1, <2>5, <3>2, <3>4
  <2>7. r.top # {} /\ r.top \subseteq W \ Hidden(r)
    BY <1>3, <1>4, <1>9, <2>1
  <2>8. r.top # {} /\ ~ TooMany(r) => r.lowerBound = Distance(r, Farthest(r))
    BY <1>1, <1>9
  <2> QED BY <2>4, <2>6, <2>7, <2>8, <2>9
<1>10. Main
  BY <1>8, <1>9
<1>11. ASSUME Kind(r) = "none", Apart(r)
       PROVE  \E k \in 0 .. ix.count : Follows(r, W, BeamOf(r)[k])
  <2>1. Kind(q) = "none" /\ Apart(q)
    BY <1>3, <1>11
  <2>2. PICK k \in 0 .. ix.count : Follows(q, V, BeamOf(q)[k])
    BY <2>1 DEF Searching
  <2> QED BY <2>1, <2>2, LookFollows
<1>12. \A d \in r.candidate_set : d[1] = Distance(r, d[2])
  BY <1>1, <1>3, <1>4
<1>13. r.at \in W /\ (FullyLinked => Ids(ix) \subseteq W \cup r.todo)
  BY <1>1, <1>4
<1> HIDE DEF W
<1>14. /\ Counts(r.condition, r.top) /\ Heaped(r, W)
       /\ NothingCloser(r, W, Size(r), Limit(r))
       /\ r.top \subseteq W \ Hidden(r)
       /\ r.top = {} => r.lowerBound = FarAway
       /\ r.top # {} /\ ~ TooMany(r) => r.lowerBound = Distance(r, Farthest(r))
  BY <1>10
<1> HIDE DEF Main
<1>15. Searching(r, W)
  BY <1>11, <1>12, <1>13, <1>14 DEF Searching
<1> QED BY <1>15 DEF W

\* Without a last element the results still lack nothing closer.
LEMMA CloserWithoutLast ==
  ASSUME ix \in Queried, NEW q \in Locals, Asking(q), NEW n \in Last(q), NEW V \in SUBSET Ids(ix),
         NoneCloser(q, V), NEW r, r.ask = q.ask, r.top = q.top \ {n}
  PROVE  NoneCloser(r, V)
<1>1. n \in q.top /\ \A m \in q.top : Distance(q, m) <= Distance(q, n)
  BY LastFacts
<1>2. /\ \A m : Distance(r, m) = Distance(q, m)
      /\ Hidden(r) = Hidden(q)
  BY SameQuestion
<1> SUFFICES ASSUME NEW m \in (V \ Hidden(q)) \ r.top
             PROVE  \A j \in r.top : Distance(q, j) <= Distance(q, m)
  BY <1>2 DEF NoneCloser
<1>3. CASE m = n
  BY <1>1, <1>3
<1>4. CASE m # n
  BY <1>4 DEF NoneCloser
<1> QED BY <1>3, <1>4

\* The result too many goes.
LEMMA RemovedOK ==
  ASSUME ix \in Queried, NEW q \in Locals, Asking(q), NEW V \in SUBSET Ids(ix),
         Searching(q, V), TooMany(q), NEW n \in Last(q), NEW r, LighterBy(q, n, Document(n), r)
  PROVE  Searching(r, V)
<1>1. /\ r \in Locals /\ Asking(r) /\ r.ask = q.ask /\ r.at = q.at /\ r.todo = q.todo
      /\ r.candidate_set = q.candidate_set
      /\ r.top = q.top \ {n} /\ r.condition = Removed(q.condition, Document(n), HeapTop(q))
      /\ r.top # {} /\ ~ TooMany(r) => r.lowerBound = Distance(r, Farthest(r))
  BY DEF LighterBy
<1>2. /\ \A m : Distance(r, m) = Distance(q, m)
      /\ Hidden(r) = Hidden(q) /\ ef(r) = ef(q) /\ Kind(r) = Kind(q) /\ Limit(r) = Limit(q)
      /\ (Apart(r) <=> Apart(q))
  BY <1>1, SameQuestion
<1>3. Counts(q.condition, q.top) /\ Heaped(q, V) /\ q.at \in V /\ q.top \subseteq V \ Hidden(q)
      /\ NothingCloser(q, V, Size(q), Limit(q))
  BY DEF Searching
<1>4. /\ Size(q) \in Nat /\ Limit(q) \in Nat \ {0} /\ Size(q) > Limit(q) /\ q.top # {}
      /\ Kind(q) \in {"none", "epsilon", "documents"}
      /\ Kind(q) # "documents" => Size(q) = Cardinality(q.top)
      /\ Kind(q) = "documents" => Size(q) = Cardinality(Documents(q.top))
  BY <1>3, SizeFacts
<1>5. /\ Counts(r.condition, r.top)
      /\ Cardinality(r.top) = Cardinality(q.top) - 1
      /\ Cardinality(Documents(r.top)) >= Cardinality(Documents(q.top)) - 1
  <2>1. n \in q.top /\ q.condition \in Conditions /\ q.top \in SUBSET Ids(ix)
    BY DEF Last, Locals
  <2> QED BY <1>1, <1>3, <2>1, CountsRemoved
<1>6. Heaped(r, V)
  <2>1. /\ HeapTop(q) \in q.condition.search_results_ /\ Distance(q, HeapTop(q)) = Distance(q, n)
        /\ n \in q.top
    BY <1>3, HeapLikeResults, LastFacts
  <2>2. r.condition.search_results_ = q.condition.search_results_ \ {HeapTop(q)}
    BY <1>1 DEF Removed
  <2> QED BY <1>1, <1>3, <2>1, <2>2, HeapRemoved
<1>7. /\ Size(r) \in Nat /\ (r.top = {} => Size(r) = 0)
      /\ Kind(r) # "documents" => Size(r) = Cardinality(r.top)
      /\ Kind(r) = "documents" => Size(r) = Cardinality(Documents(r.top))
  BY <1>1, <1>5, SizeFacts
<1>8. Size(r) >= Limit(q) /\ r.top # {}
  <2>1. CASE Kind(q) = "documents"
    BY <1>2, <1>4, <1>5, <1>7, <2>1
  <2>2. CASE Kind(q) # "documents"
    BY <1>2, <1>4, <1>5, <1>7, <2>2
  <2> QED BY <2>1, <2>2
<1>9. NothingCloser(r, V, Size(r), Limit(r))
  <2>1. NoneCloser(r, V)
    BY <1>1, <1>3, CloserWithoutLast DEF NothingCloser
  <2> QED BY <1>2, <1>8, <2>1 DEF NothingCloser
<1>10. ~ Starting(q)
  <2> SUFFICES ASSUME Starting(q) PROVE FALSE
    OBVIOUS
  <2>1. q.top = {q.at} /\ n \in q.top
    BY <1>4, LastFacts DEF Starting
  <2>2. r.top = {}
    BY <1>1, <2>1
  <2> QED BY <1>8, <2>2
<1>11. /\ \A d \in r.candidate_set : d[1] = Distance(r, d[2])
       /\ FullyLinked => Ids(ix) \subseteq V \cup r.todo
  BY <1>1, <1>2, <1>10 DEF Searching
<1>12. ASSUME Kind(r) = "none", Apart(r)
       PROVE  \E k \in 0 .. ix.count : Follows(r, V, BeamOf(r)[k])
  <2> DEFINE x == q.ask.vector
             E == ef(q)
             H == Hidden(q)
             C == Candidates(q)
             f == BeamOf(q)
             early == BareBone(q)
  <2>1. Kind(q) = "none" /\ Apart(q)
    BY <1>2, <1>12
  <2>2. PICK k \in 0 .. ix.count : Follows(q, V, f[k])
    BY <2>1 DEF Searching
  <2> DEFINE s == f[k]
  <2>3. Cardinality(q.top) > E
    BY <1>4, <2>1 DEF Limit
  <2>4. E \in Nat \ {0} /\ x \in Int /\ WellFormed(ix, M) /\ IsState(ix, E, s)
    BY <2>1, BeamOfFacts
  <2>5. InTurn(ix, x, E, H, V, C, q.top, q.todo, s) /\ ~ BeamStops(ix, x, E, early, s)
    <3>1. ~ AtTurn(ix, x, E, V, C, q.top, s)
      <4> SUFFICES ASSUME AtTurn(ix, x, E, V, C, q.top, s) PROVE FALSE
        OBVIOUS
      <4>1. Cardinality(q.top) <= E
        BY <2>4 DEF AtTurn, IsState
      <4>2. Cardinality(q.top) \in Nat
        BY <1>4, <2>1
      <4> QED BY <2>3, <2>4, <4>1, <4>2
    <3> QED BY <2>2, <3>1 DEF Follows
  <2>6. r.top = q.top \ {FarthestOf(ix, x, q.top)}
    BY <1>1, <2>1, LastFacts DEF Farthest, FarthestOf
  <2> HIDE DEF x, E, H, C, f, s, early
  <2>7. Turning(ix, x, E, H, V, C, q.top, q.todo, s)
    BY <2>4, <2>5 DEF Turning
  <2>8. Turning(ix, x, E, H, V, C, r.top, q.todo, s)
    BY <2>3, <2>6, <2>7, ExtraGoes
  <2>9. Candidates(r) = C /\ BeamOf(r) = f /\ BareBone(r) = early
    <3>1. Candidates(r) = C
      BY <1>1 DEF Candidates, C
    <3>2. BareBone(r) = early
      BY <1>1 DEF early, BareBone, Kind
    <3> QED BY <3>1, <3>2, <1>1, SameBeam DEF f
  <2>10. Follows(r, V, s)
    BY <1>1, <1>2, <2>5, <2>8, <2>9 DEF Follows, Turning, x, E, H
  <2> QED BY <2>9, <2>10 DEF s
<1>13. r.at \in V /\ r.top \subseteq V \ Hidden(r)
  BY <1>1, <1>2, <1>3
<1> QED BY <1>1, <1>5, <1>6, <1>8, <1>9, <1>11, <1>12, <1>13 DEF Searching

\* Found says nothing of the program counter.
LEMMA FoundAlike ==
  ASSUME NEW q, NEW r, r.ask = q.ask, r.at = q.at, r.top = q.top, r.condition = q.condition, Found(q)
  PROVE  Found(r)
<1>1. /\ Hidden(r) = Hidden(q) /\ ef(r) = ef(q) /\ Kind(r) = Kind(q) /\ BareBone(r) = BareBone(q)
      /\ (Apart(r) <=> Apart(q)) /\ (TiesWithinDocuments(r) <=> TiesWithinDocuments(q))
  <2>1. BareBone(r) = BareBone(q)
    BY DEF BareBone, Kind
  <2> QED BY <2>1, SameQuestion
<1>2. /\ \A V : Heaped(q, V) => Heaped(r, V)
      /\ \A V : NoneCloser(q, V) => NoneCloser(r, V)
      /\ \A V, size, limit : NothingCloser(q, V, size, limit) => NothingCloser(r, V, size, limit)
  BY SameResults
<1> DEFINE counted(p) == Kind(p) = "documents" => TiesWithinDocuments(p)
<1>3. (counted(r) => Counts(r.condition, r.top)) /\ Heaped(r, Ids(ix))
  BY <1>1, <1>2 DEF Found
<1>4. r.top \subseteq Ids(ix) \ Hidden(r)
  BY <1>1 DEF Found
<1>5. Kind(r) = "none" /\ Apart(r) =>
        r.top = Beam(ix, r.ask.vector, r.at, 0, ef(r), Hidden(r), BareBone(r))
  BY <1>1 DEF Found
<1>6. Kind(r) = "epsilon" =>
        /\ Cardinality(r.top) <= r.ask.stop.max
        /\ FullyLinked /\ r.ask.stop.min >= 2 =>
             NothingCloser(r, Ids(ix), Cardinality(r.top), r.ask.stop.max)
  BY <1>1, <1>2 DEF Found
<1>7. Kind(r) = "documents" /\ FullyLinked =>
        /\ NoneCloser(r, Ids(ix))
        /\ counted(r) =>
             NothingCloser(r, Ids(ix), Cardinality(Documents(r.top)), r.ask.stop.num_docs_to_search)
  BY <1>1, <1>2 DEF Found
<1> QED BY <1>3, <1>4, <1>5, <1>6, <1>7 DEF Found

\* A search that is over with its start still its candidate has not begun:
\* the conditions do not stop it there, unless they are content with one
\* element.
LEMMA NotAtStart ==
  ASSUME ix \in Queried, NEW q \in Locals, Asking(q), NEW V, Searching(q, V), Between(q),
         ~ GoesOn(q), Kind(q) = "epsilon" => q.ask.stop.min >= 2, Kind(q) # "none"
  PROVE  ~ Starting(q)
<1> SUFFICES ASSUME Starting(q) PROVE FALSE
  OBVIOUS
<1>1. /\ q.candidate_set # {} /\ q.top = {q.at} \ Hidden(q)
      /\ q.candidate_set = {<<IF q.at \in Hidden(q) THEN FarAway ELSE Distance(q, q.at), q.at>>}
  BY DEF Starting
<1> PICK c \in ClosestCandidates(q) : TRUE
  BY <1>1, ClosestCandidateFacts
<1>2. ShouldStop(q, c[1])
  BY ClosestCandidateFacts
<1>3. c \in q.candidate_set
  BY ClosestCandidateFacts
<1>4. c[1] = IF q.at \in Hidden(q) THEN FarAway ELSE Distance(q, q.at)
  BY <1>1, <1>3
<1>5. /\ q.top = {} => q.lowerBound = FarAway
      /\ q.top # {} => q.lowerBound = Distance(q, Farthest(q))
      /\ Counts(q.condition, q.top)
  BY DEF Searching, Between
<1>6. q.lowerBound = c[1] /\ Cardinality(q.top) <= 1 /\ c[1] \in Nat
  <2>1. q.at \in Ids(ix) /\ Distance(q, q.at) \in Nat /\ FarAway \in Nat
    BY AskedFacts, QueriesAssumption
  <2>2. CASE q.at \in Hidden(q)
    <3>1. q.top = {}
      BY <1>1, <2>2
    <3> QED BY <1>4, <1>5, <2>1, <2>2, <3>1, FS_EmptySet
  <2>3. CASE q.at \notin Hidden(q)
    <3>1. q.top = {q.at}
      BY <1>1, <2>3
    <3>2. Farthest(q) = q.at
      BY <3>1, FarthestType
    <3>3. q.lowerBound = Distance(q, q.at) /\ c[1] = Distance(q, q.at)
      BY <1>4, <1>5, <2>3, <3>1, <3>2
    <3>4. Cardinality(q.top) = 1
      BY <3>1, FS_Singleton
    <3> QED BY <2>1, <3>3, <3>4
  <2> QED BY <2>2, <2>3
<1>7. ~ (c[1] > q.lowerBound)
  BY <1>6
<1>8. Kind(q) = "epsilon" /\ q.condition.curr_num_items_ >= q.ask.stop.min
  BY <1>2, <1>7 DEF ShouldStop
<1>9. q.condition.curr_num_items_ = Cardinality(q.top)
  BY <1>5 DEF Counts
<1>10. q.ask.stop.min \in Nat /\ q.ask.stop.min >= 2
  BY <1>8, AskedFacts DEF IsQuestion, Kind
<1>11. Cardinality(q.top) \in Nat
  BY DocumentsFacts DEF Locals
<1> QED BY <1>6, <1>8, <1>9, <1>10, <1>11

\* A search ends with what it is to find.
LEMMA ReleasedOK ==
  ASSUME ix \in Queried, NEW q \in Locals, Asking(q), NEW V \in SUBSET Ids(ix),
         Searching(q, V), Between(q), ~ GoesOn(q)
  PROVE  Found(q)
<1> DEFINE s == q.ask.stop
<1>1. /\ Counts(q.condition, q.top) /\ Heaped(q, V) /\ q.top \subseteq V \ Hidden(q)
      /\ NothingCloser(q, V, Size(q), Limit(q))
      /\ (Starting(q) /\ V = {q.at}) \/ (FullyLinked => Ids(ix) \subseteq V \cup q.todo)
      /\ q.todo = {} /\ ~ TooMany(q)
  BY DEF Searching, Between
<1>2. /\ Size(q) \in Nat /\ Limit(q) \in Nat \ {0} /\ ~ (Size(q) > Limit(q))
      /\ Kind(q) # "documents" => Size(q) = Cardinality(q.top)
      /\ Kind(q) = "documents" => Size(q) = Cardinality(Documents(q.top))
  BY <1>1, SizeFacts
<1>3. IsQuestion(q.ask)
  BY AskedFacts
<1>4. ASSUME FullyLinked, Kind(q) = "epsilon" => s.min >= 2, Kind(q) # "none"
      PROVE  NothingCloser(q, Ids(ix), Size(q), Limit(q))
  <2>1. ~ Starting(q)
    BY <1>4, NotAtStart
  <2>2. V = Ids(ix)
    BY <1>1, <1>4, <2>1
  <2> QED BY <1>1, <2>2
<1>5. ASSUME Kind(q) = "none", Apart(q)
      PROVE  q.top = Beam(ix, q.ask.vector, q.at, 0, ef(q), Hidden(q), BareBone(q))
  <2> DEFINE x == q.ask.vector
             E == ef(q)
             C == Candidates(q)
             f == BeamOf(q)
             early == BareBone(q)
  <2>1. PICK k \in 0 .. ix.count : AtTurn(ix, x, E, V, C, q.top, f[k])
    BY <1>5, BetweenFollows
  <2>2. E \in Nat \ {0} /\ x \in Int /\ WellFormed(ix, M) /\ IsState(ix, E, f[k])
    BY <1>5, BeamOfFacts
  <2>3. Distinct(ix, x)
    BY <1>5, AskedApart
  <2>4. PICK n : C = {} \/ (n \in C /\ (\A d \in C : From(ix, x, n) <= From(ix, x, d))
                          /\ Beyond(ix, x, E, early, q.top, n))
    <3>1. CASE q.candidate_set = {}
      BY <3>1 DEF Candidates
    <3>2. CASE q.candidate_set # {}
      <4> PICK c \in ClosestCandidates(q) : TRUE
        BY <3>2, ClosestCandidateFacts
      <4>1. c[2] \in C /\ \A d \in C : From(ix, x, c[2]) <= From(ix, x, d)
        BY FirstCandidate
      <4>2. Beyond(ix, x, E, early, q.top, c[2])
        <5>1. ShouldStop(q, c[1])
          BY ClosestCandidateFacts
        <5> QED BY <1>5, <5>1, StopRule
      <4> QED BY <4>1, <4>2
    <3> QED BY <3>1, <3>2
  <2> HIDE DEF x, E, C, f, early
  <2> DEFINE g == f[k]
  <2>5. AtTurn(ix, x, E, V, C, q.top, g) /\ IsState(ix, E, g)
    BY <2>1, <2>2
  <2> HIDE DEF g
  <2>6. BeamStops(ix, x, E, early, g)
    BY <2>2, <2>3, <2>4, <2>5, StopsAlike
  <2>7. q.top = g.top
    BY <2>5 DEF AtTurn
  <2> QED BY <1>5, <2>6, <2>7, BeamOfFacts DEF x, E, f, g, early
<1>6. ASSUME Kind(q) = "epsilon"
      PROVE  /\ Cardinality(q.top) <= s.max
             /\ FullyLinked /\ s.min >= 2 => NothingCloser(q, Ids(ix), Cardinality(q.top), s.max)
  <2>1. Limit(q) = s.max /\ Size(q) = Cardinality(q.top)
    BY <1>2, <1>6 DEF Limit
  <2> QED BY <1>2, <1>4, <1>6, <2>1
<1>7. ASSUME Kind(q) = "documents", FullyLinked
      PROVE  NoneCloser(q, Ids(ix)) /\ NothingCloser(q, Ids(ix), Cardinality(Documents(q.top)), s.num_docs_to_search)
  <2>1. Limit(q) = s.ef_collection /\ Size(q) = Cardinality(Documents(q.top))
    BY <1>2, <1>7 DEF Limit
  <2>2. NothingCloser(q, Ids(ix), Size(q), Limit(q))
    BY <1>4, <1>7
  <2>3. s.num_docs_to_search \in Nat /\ s.num_docs_to_search <= s.ef_collection
    BY <1>3, <1>7 DEF IsQuestion, Kind
  <2>4. Size(q) >= Limit(q) => Size(q) >= s.num_docs_to_search
    BY <1>2, <2>1, <2>3
  <2> QED BY <2>1, <2>2, <2>4 DEF NothingCloser
<1>8. Heaped(q, Ids(ix)) /\ q.top \subseteq Ids(ix) \ Hidden(q)
  BY <1>1 DEF Heaped
<1> QED BY <1>1, <1>5, <1>6, <1>7, <1>8 DEF Found

\* The last result goes, and the document on top of the condition's heap loses
\* an element: the same one, if elements equally far belong to one document.
LEMMA FilteredOK ==
  ASSUME ix \in Queried, NEW q \in Locals, Asking(q), Found(q), Kind(q) = "documents",
         q.condition.curr_num_docs_ > q.ask.stop.num_docs_to_search, NEW n \in Last(q),
         NEW r, r = Without(q, n, Document(HeapTop(q)))
  PROVE  r.pc = q.pc /\ Found(r)
<1> DEFINE h == HeapTop(q)
           num == q.ask.stop.num_docs_to_search
<1>1. /\ Heaped(q, Ids(ix)) /\ q.top \subseteq Ids(ix) \ Hidden(q)
      /\ TiesWithinDocuments(q) => Counts(q.condition, q.top)
  BY DEF Found
<1>2. n \in q.top /\ n \in Ids(ix)
  BY LastFacts
<1>3. /\ h \in q.condition.search_results_ /\ h \in Ids(ix) /\ Distance(q, h) = Distance(q, n)
      /\ h \in Eligible(q) /\ n \in Eligible(q)
  <2>1. h \in q.condition.search_results_ /\ h \in Ids(ix) /\ Distance(q, h) = Distance(q, n)
    BY <1>1, HeapLikeResults
  <2> QED BY <1>1, <1>2, <2>1 DEF Heaped, Eligible
<1> HIDE DEF h
<1>4. /\ r \in Locals /\ Asking(r)
      /\ r = [q EXCEPT !.condition = Removed(q.condition, Document(h), h), !.top = @ \ {n}]
  BY WithoutFacts DEF h
<1>5. /\ r.ask = q.ask /\ r.at = q.at /\ r.pc = q.pc /\ r.top = q.top \ {n}
      /\ r.condition = Removed(q.condition, Document(h), h)
  BY <1>4 DEF Locals
<1>6. /\ Hidden(r) = Hidden(q) /\ Kind(r) = "documents" /\ r.ask.stop.num_docs_to_search = num
      /\ (TiesWithinDocuments(r) <=> TiesWithinDocuments(q))
  BY <1>5, SameQuestion
<1>7. Heaped(r, Ids(ix))
  <2>1. r.condition.search_results_ = q.condition.search_results_ \ {h}
    BY <1>5 DEF Removed
  <2> QED BY <1>1, <1>2, <1>3, <1>5, <2>1, HeapRemoved
<1>8. r.top \subseteq Ids(ix) \ Hidden(r)
  BY <1>1, <1>5, <1>6
<1>9. ASSUME FullyLinked PROVE NoneCloser(r, Ids(ix))
  BY <1>5, <1>9, CloserWithoutLast DEF Found
<1>10. ASSUME TiesWithinDocuments(q)
       PROVE  /\ Counts(r.condition, r.top)
              /\ Cardinality(Documents(r.top)) >= num
  <2>1. Document(h) = Document(n)
    BY <1>3, <1>10 DEF TiesWithinDocuments
  <2>2. q.condition \in Conditions /\ q.top \in SUBSET Ids(ix) /\ Counts(q.condition, q.top)
    BY <1>1, <1>10 DEF Locals
  <2>3. /\ Counts(r.condition, r.top)
        /\ Cardinality(Documents(r.top)) >= Cardinality(Documents(q.top)) - 1
    BY <1>2, <1>5, <2>1, <2>2, CountsRemoved
  <2>4. /\ num \in Nat /\ Cardinality(Documents(q.top)) \in Nat
        /\ Cardinality(Documents(q.top)) > num /\ Cardinality(Documents(r.top)) \in Nat
    <3>1. num \in Nat
      BY AskedFacts DEF IsQuestion, Kind
    <3>2. Cardinality(Documents(q.top)) \in Nat /\ Cardinality(Documents(r.top)) \in Nat
      BY <1>5, <2>2, DocumentsFacts
    <3> QED BY <2>2, <3>1, <3>2 DEF Counts
  <2> QED BY <2>3, <2>4
<1>11. Found(r)
  BY <1>6, <1>7, <1>8, <1>9, <1>10 DEF Found, NothingCloser
<1> QED BY <1>5, <1>11

\* As many first elements as there are, or may be
LEMMA FirstsFacts ==
  ASSUME ix \in Queried, NEW q, NEW k \in Nat
  PROVE  \A S \in SUBSET Ids(ix) : \A F \in Firsts(q, S, k) :
           /\ F \subseteq S /\ IsFiniteSet(S) /\ Cardinality(S) \in Nat /\ Cardinality(F) \in Nat
           /\ Cardinality(F) <= k /\ (F # S => Cardinality(F) = k)
           /\ \A n \in F, m \in S \ F : Distance(q, n) <= Distance(q, m)
<1> TAKE S \in SUBSET Ids(ix)
<1> TAKE F \in Firsts(q, S, k)
<1>1. /\ F \subseteq S /\ Cardinality(F) = IF k < Cardinality(S) THEN k ELSE Cardinality(S)
      /\ \A n \in F, m \in S \ F : Distance(q, n) <= Distance(q, m)
  BY DEF Firsts
<1>2. IsFiniteSet(S) /\ Cardinality(S) \in Nat
  BY DocumentsFacts
<1>3. Cardinality(S) = Cardinality(F) => S = F
  BY <1>1, <1>2, FS_Subset
<1> QED BY <1>1, <1>2, <1>3

\* A query is answered.
LEMMA AnsweredOK ==
  ASSUME ix \in Queried, NEW q \in Locals, Asking(q), Found(q),
         Kind(q) = "documents" => ~ (q.condition.curr_num_docs_ > q.ask.stop.num_docs_to_search),
         NEW answer \in Results(q), NEW r, r.pc = "idle", r.ask = q.ask, r.answer = answer
  PROVE  AnswerAsAlone(r) /\ DocumentsMet(r) /\ EpsilonMet(r)
<1> DEFINE x == q.ask.vector
           s == q.ask.stop
           T == q.top
<1>1. T \subseteq Ids(ix) \ Hidden(q) /\ T \in SUBSET Ids(ix)
  BY DEF Found
<1>2. /\ \A m : Distance(r, m) = Distance(q, m)
      /\ Hidden(r) = Hidden(q) /\ ef(r) = ef(q) /\ Kind(r) = Kind(q) /\ Start(r) = Start(q)
      /\ BareBone(r) = BareBone(q) /\ Eligible(r) = Ids(ix) \ Hidden(q) /\ q.at = Start(q)
      /\ (Apart(r) <=> Apart(q)) /\ (TiesWithinDocuments(r) <=> TiesWithinDocuments(q))
  <2>1. BareBone(r) = BareBone(q)
    BY DEF BareBone, Kind
  <2>2. Eligible(q) = Ids(ix) \ Hidden(q)
    BY DEF Eligible
  <2> QED BY <2>1, <2>2, SameQuestion DEF Asking
<1>3. /\ \A m \in Ids(ix) : Distance(q, m) \in Nat /\ Distance(q, m) = From(ix, x, m)
      /\ WellFormed(ix, M) /\ x \in Int /\ IsQuestion(q.ask) /\ q.ask.k \in Nat
  BY AskedFacts
<1>4. /\ IsFiniteSet(T) /\ Cardinality(T) \in Nat
      /\ IsFiniteSet(Documents(T)) /\ Cardinality(Documents(T)) \in Nat
  BY <1>1, DocumentsFacts
<1>5. AnswerAsAlone(r)
  <2> SUFFICES ASSUME Kind(q) = "none", Apart(q)
               PROVE  r.answer = {Label(n) : n \in Closest(ix.data, x,
                        Beam(ix, x, Start(q), 0, ef(q), Hidden(q), BareBone(q)), q.ask.k)}
    BY <1>2 DEF AnswerAsAlone, Answered
  <2>1. T = Beam(ix, x, Start(q), 0, ef(q), Hidden(q), BareBone(q))
    BY <1>2 DEF Found
  <2>2. PICK F \in Firsts(q, T, q.ask.k) : answer = {Label(n) : n \in F}
    BY DEF Results
  <2>3. /\ F \subseteq T /\ Cardinality(F) <= q.ask.k /\ (F # T => Cardinality(F) = q.ask.k)
        /\ \A n \in F, m \in T \ F : Distance(q, n) <= Distance(q, m)
    BY <1>1, <1>3, FirstsFacts
  <2>4. \A a \in T \ F : NoRoomFor(ix, x, q.ask.k, F, a)
    BY <1>1, <1>3, <2>3 DEF NoRoomFor
  <2>5. Distinct(ix, x)
    BY AskedApart
  <2> HIDE DEF x, T
  <2>6. F = Closest(ix.data, x, T, q.ask.k)
    BY <1>1, <1>3, <2>3, <2>4, <2>5, ClosestIsUnique
  <2> QED BY <2>1, <2>2, <2>6
<1>6. DocumentsMet(r)
  <2> DEFINE Can == Ids(ix) \ Hidden(q)
             num == s.num_docs_to_search
             closer(n) == {m \in Can : Distance(q, m) < Distance(q, n)}
             wanted == {num, Cardinality(Documents(Can))}
  <2> SUFFICES ASSUME Kind(q) = "documents"
               PROVE  /\ T \subseteq Can
                      /\ FullyLinked => \A n \in T : closer(n) \subseteq T
                      /\ TiesWithinDocuments(q) =>
                           /\ Cardinality(Documents(T)) <= num
                           /\ FullyLinked =>
                                /\ \A w \in wanted : Cardinality(Documents(T)) <= w
                                /\ \E w \in wanted : Cardinality(Documents(T)) = w
    <3>1. Kind(q) = "documents" => r.answer = T
      BY DEF Results
    <3> QED BY <1>2, <3>1 DEF DocumentsMet, Answered
  <2>1. num \in Nat
    BY <1>3 DEF IsQuestion, Kind
  <2>2. Cardinality(Documents(T)) <= Cardinality(Documents(Can))
    <3>1. Documents(T) \subseteq Documents(Can)
      BY <1>1 DEF Documents
    <3>2. IsFiniteSet(Documents(Can))
      BY DocumentsFacts, Can \in SUBSET Ids(ix)
    <3> QED BY <3>1, <3>2, FS_Subset
  <2>3. ASSUME FullyLinked PROVE NoneCloser(q, Ids(ix))
    BY <2>3 DEF Found
  <2>4. ASSUME FullyLinked, NEW n \in T, NEW m \in closer(n) PROVE m \in T
    <3> SUFFICES ASSUME m \notin T PROVE FALSE
      OBVIOUS
    <3>1. Distance(q, n) <= Distance(q, m) /\ Distance(q, m) < Distance(q, n)
      BY <2>3, <2>4 DEF NoneCloser
    <3> QED BY <1>1, <1>3, <3>1
  <2>5. ASSUME TiesWithinDocuments(q) PROVE Cardinality(Documents(T)) <= num
    <3>1. Counts(q.condition, T)
      BY <2>5 DEF Found
    <3> QED BY <1>4, <2>1, <3>1 DEF Counts
  <2>6. ASSUME FullyLinked, TiesWithinDocuments(q) PROVE \E w \in wanted : Cardinality(Documents(T)) = w
    <3>1. CASE T = Can
      BY <3>1
    <3>2. CASE T # Can
      <4>1. PICK m \in Can : m \notin T
        BY <1>1, <3>2
      <4>2. NothingCloser(q, Ids(ix), Cardinality(Documents(T)), num)
        BY <2>6 DEF Found
      <4>3. Cardinality(Documents(T)) >= num
        BY <4>1, <4>2 DEF NothingCloser
      <4> QED BY <1>4, <2>1, <2>5, <2>6, <4>3
    <3> QED BY <3>1, <3>2
  <2> HIDE DEF num
  <2> QED BY <1>1, <2>2, <2>4, <2>5, <2>6
<1>7. EpsilonMet(r)
  <2> DEFINE A == {n \in T : Distance(q, n) <= s.epsilon}
             within == {n \in Ids(ix) \ Hidden(q) : Distance(q, n) <= s.epsilon}
             closer(n) == {m \in Ids(ix) \ Hidden(q) : Distance(q, m) < Distance(q, n)}
             few == {s.max, Cardinality(within)}
  <2> SUFFICES ASSUME Kind(q) = "epsilon"
               PROVE  /\ answer \subseteq within /\ Cardinality(answer) <= s.max
                      /\ FullyLinked /\ s.min >= 2 =>
                           /\ \A n \in answer : closer(n) \subseteq answer
                           /\ \E w \in few : Cardinality(answer) = w
    BY <1>2 DEF EpsilonMet, Answered
  <2>1. s.max \in Nat /\ Cardinality(T) <= s.max /\ s.epsilon \in Int
    BY <1>3 DEF Found, IsQuestion, Kind
  <2>2. A \subseteq T /\ A \in SUBSET Ids(ix) /\ Cardinality(A) \in Nat /\ Cardinality(A) <= Cardinality(T)
    <3>1. A \subseteq T
      OBVIOUS
    <3> QED BY <1>1, <1>4, <3>1, FS_Subset, FS_CardinalityType
  <2>3. answer \in Firsts(q, A, s.max)
    BY DEF Results, WithinEpsilon
  <2> HIDE DEF A
  <2>4. answer = A
    <3>1. /\ answer \subseteq A /\ IsFiniteSet(A) /\ Cardinality(answer) \in Nat
          /\ answer # A => Cardinality(answer) = s.max
      <4>1. PICK k \in Nat : k = s.max
        BY <2>1
      <4>2. PICK S \in SUBSET Ids(ix) : S = A
        BY <2>2
      <4>3. answer \in Firsts(q, S, k)
        BY <2>3, <4>1, <4>2
      <4>4. /\ answer \subseteq S /\ IsFiniteSet(S) /\ Cardinality(answer) \in Nat
            /\ answer # S => Cardinality(answer) = k
        BY <4>3, FirstsFacts
      <4> QED BY <4>1, <4>2, <4>4
    <3>2. Cardinality(answer) <= Cardinality(A) /\ (Cardinality(A) = Cardinality(answer) => A = answer)
      BY <3>1, FS_Subset
    <3> QED BY <1>4, <2>1, <2>2, <3>1, <3>2
  <2>5. A \subseteq within /\ Cardinality(A) <= s.max
    BY <1>1, <1>4, <2>1, <2>2 DEF A
  <2>6. ASSUME FullyLinked, s.min >= 2
        PROVE  NothingCloser(q, Ids(ix), Cardinality(T), s.max)
    BY <2>6 DEF Found
  <2>7. ASSUME FullyLinked, s.min >= 2, NEW n \in A, NEW m \in closer(n) PROVE m \in A
    <3>1. n \in T /\ Distance(q, n) <= s.epsilon /\ m \in Ids(ix) \ Hidden(q) /\ Distance(q, m) < Distance(q, n)
      BY <2>7 DEF A
    <3>2. m \in T
      <4> SUFFICES ASSUME m \notin T PROVE FALSE
        OBVIOUS
      <4>1. Distance(q, n) <= Distance(q, m)
        BY <2>6, <2>7, <3>1 DEF NothingCloser, NoneCloser
      <4> QED BY <1>1, <1>3, <3>1, <4>1
    <3> QED BY <1>1, <1>3, <2>1, <3>1, <3>2 DEF A
  <2>8. ASSUME FullyLinked, s.min >= 2 PROVE \E w \in few : Cardinality(A) = w
    <3>1. CASE A = within
      BY <3>1
    <3>2. CASE A # within
      <4>1. PICK a \in within : a \notin A
        BY <2>5, <3>2
      <4>2. a \in Ids(ix) \ Hidden(q) /\ a \notin T /\ Distance(q, a) <= s.epsilon
        BY <4>1 DEF A
      <4>3. Cardinality(T) >= s.max /\ \A n \in T : Distance(q, n) <= Distance(q, a)
        BY <2>6, <2>8, <4>2 DEF NothingCloser, NoneCloser
      <4>4. A = T
        BY <1>1, <1>3, <2>1, <4>2, <4>3 DEF A
      <4>5. Cardinality(A) = s.max
        BY <1>4, <2>1, <4>3, <4>4
      <4> QED BY <4>5
    <3> QED BY <3>1, <3>2
  <2> HIDE DEF within
  <2> QED BY <2>4, <2>5, <2>7, <2>8
<1> QED BY <1>5, <1>6, <1>7

(***************************************************************************)
(* All queries                                                             *)
(***************************************************************************)

\* As long as the index is the same, what a query holds means the same.
LEMMA SameIndex ==
  ASSUME UNCHANGED ix, NEW q, NEW V, QueryOK(q, V)
  PROVE  QueryOK(q, V)'
<1>1. Ids(ix)' = Ids(ix) /\ AllDocuments' = AllDocuments /\ NewCondition' = NewCondition
  BY DEF Ids, AllDocuments, NewCondition
<1>2. /\ \A n : Distance(q, n)' = Distance(q, n)
      /\ \A S, d : AtDistance(q, S, d)' = AtDistance(q, S, d)
  BY DEF Distance, AtDistance
<1>3. BareBone(q)' = BareBone(q) /\ ef(q)' = ef(q) /\ Kind(q)' = Kind(q)
  BY DEF BareBone, ef, Kind
<1>4. Hidden(q)' = Hidden(q)
  BY <1>1, <1>3 DEF Hidden
<1>5. Start(q)' = Start(q) /\ Eligible(q)' = Eligible(q) /\ (FullyLinked' <=> FullyLinked)
      /\ Farthest(q)' = Farthest(q) /\ (Apart(q)' <=> Apart(q))
      /\ (TiesWithinDocuments(q)' <=> TiesWithinDocuments(q))
  BY <1>1, <1>2, <1>4 DEF Start, Eligible, FullyLinked, Farthest, Apart, TiesWithinDocuments
<1>6. Size(q)' = Size(q) /\ Limit(q)' = Limit(q) /\ (TooMany(q)' <=> TooMany(q))
  BY <1>3 DEF Size, Limit, TooMany
<1>7. /\ Counts(q.condition, q.top)' <=> Counts(q.condition, q.top)
      /\ \A W : Heaped(q, W)' <=> Heaped(q, W)
  BY <1>1, <1>2, <1>4 DEF Counts, Documents, OfDocument, Heaped
<1>8. Starting(q)' <=> Starting(q)
  BY <1>2, <1>4 DEF Starting
<1>9. /\ \A W, size, limit : NothingCloser(q, W, size, limit)' <=> NothingCloser(q, W, size, limit)
      /\ \A W : NoneCloser(q, W)' <=> NoneCloser(q, W)
  BY <1>2, <1>4 DEF NothingCloser, NoneCloser
<1>10. BeamOf(q)' = BeamOf(q)
  BY <1>3, <1>4 DEF BeamOf
<1>11. \A s : Follows(q, V, s)' <=> Follows(q, V, s)
  BY <1>3, <1>4 DEF Follows, Candidates
<1>12. (q.pc \in {"take", "begin"} => Fresh(q))'
  BY <1>1 DEF QueryOK, Fresh
<1>13. (q.pc = "search" => Searching(q, V))'
  <2> SUFFICES ASSUME Searching(q, V) PROVE Searching(q, V)'
    BY DEF QueryOK
  <2>1. NothingCloser(q, V, Size(q), Limit(q))'
    BY <1>6, <1>9 DEF Searching
  <2>2. (Kind(q) = "none" /\ Apart(q) => \E k \in 0 .. ix.count : Follows(q, V, BeamOf(q)[k]))'
    BY <1>3, <1>5, <1>10, <1>11 DEF Searching
  <2> QED BY <1>1, <1>2, <1>4, <1>5, <1>6, <1>7, <1>8, <2>1, <2>2 DEF Searching
<1>14. (q.pc = "answer" => Found(q))'
  <2> SUFFICES ASSUME Found(q) PROVE Found(q)'
    BY DEF QueryOK
  <2>1. (Kind(q) = "none" /\ Apart(q) =>
           q.top = Beam(ix, q.ask.vector, q.at, 0, ef(q), Hidden(q), BareBone(q)))'
    BY <1>3, <1>4, <1>5 DEF Found
  <2>2. /\ \A size, limit : NothingCloser(q, Ids(ix), size, limit)' <=> NothingCloser(q, Ids(ix), size, limit)
        /\ NoneCloser(q, Ids(ix))' <=> NoneCloser(q, Ids(ix))
    BY <1>1, <1>2, <1>4 DEF NothingCloser, NoneCloser
  <2>3. (Kind(q) = "epsilon" =>
           /\ Cardinality(q.top) <= q.ask.stop.max
           /\ FullyLinked /\ q.ask.stop.min >= 2 =>
                NothingCloser(q, Ids(ix), Cardinality(q.top), q.ask.stop.max))'
    BY <1>3, <1>5, <2>2 DEF Found
  <2>4. (Kind(q) = "documents" /\ FullyLinked =>
           /\ NoneCloser(q, Ids(ix))
           /\ (Kind(q) = "documents" => TiesWithinDocuments(q)) =>
                NothingCloser(q, Ids(ix), Cardinality(Documents(q.top)), q.ask.stop.num_docs_to_search))'
    BY <1>3, <1>5, <2>2 DEF Found, Documents
  <2>5. Heaped(q, Ids(ix))'
    BY <1>1, <1>2, <1>4 DEF Found, Heaped
  <2>6. ((Kind(q) = "documents" => TiesWithinDocuments(q)) => Counts(q.condition, q.top))'
    BY <1>3, <1>5, <1>7 DEF Found
  <2> QED BY <1>1, <1>4, <2>1, <2>3, <2>4, <2>5, <2>6 DEF Found
<1>15. AnswerAsAlone(q)'
  BY <1>3, <1>4, <1>5 DEF QueryOK, AnswerAsAlone, Answered
<1>16. DocumentsMet(q)'
  BY <1>2, <1>3, <1>5 DEF QueryOK, DocumentsMet, Answered, Documents
<1>17. EpsilonMet(q)'
  BY <1>2, <1>3, <1>5 DEF QueryOK, EpsilonMet, Answered
<1> QED BY <1>12, <1>13, <1>14, <1>15, <1>16, <1>17 DEF QueryOK

\* A step of thread t leaves the queries of the others as they are, and the
\* marks on their lists.
LEMMA OthersOK ==
  ASSUME QueriesTypeOK, ListsOwned, QueriesOK, UNCHANGED ix, NEW t \in Threads, NEW r,
         my' = [my EXCEPT ![t] = r], NEW W, W = Marks(t)', QueryOK(r, W)',
         \A v \in 1 .. Len(mass) : (Uses(t) /\ v = my[t].vl) \/ mass'[v] = mass[v]
  PROVE  QueriesOK'
<1> SUFFICES ASSUME NEW u \in Threads PROVE QueryOK(my[u], Marks(u))'
  BY DEF QueriesOK
<1>1. CASE u = t
  <2>1. my'[u] = r /\ Marks(u)' = W
    BY <1>1 DEF QueriesTypeOK
  <2> QED BY <2>1
<1>2. CASE u # t
  <2>1. my'[u] = my[u] /\ QueryOK(my[u], Marks(u))
    BY <1>2 DEF QueriesTypeOK, QueriesOK
  <2>2. ASSUME my[u].pc = "search" PROVE Marks(u)' = Marks(u)
    <3>1. my[u].vl \in 1 .. Len(mass) /\ ~ (Uses(t) /\ my[u].vl = my[t].vl)
      BY <1>2, <2>2 DEF ListsOwned, Uses
    <3>2. mass'[my[u].vl] = mass[my[u].vl]
      BY <3>1
    <3> QED BY <2>1, <3>2, MarksKept
  <2>3. QueryOK(my[u], Marks(u)')
    <3>1. CASE my[u].pc = "search"
      BY <2>1, <2>2, <3>1
    <3>2. CASE my[u].pc # "search"
      BY <2>1, <3>2 DEF QueryOK
    <3> QED BY <3>1, <3>2
  <2> PICK q, V : q = my'[u] /\ V = Marks(u)'
    OBVIOUS
  <2>4. QueryOK(q, V)'
    BY <2>1, <2>3, SameIndex
  <2> QED BY <2>4
<1> QED BY <1>1, <1>2

\* A query that is not answered promises nothing about its answer.
LEMMA BusyOK ==
  ASSUME NEW r, NEW V, r.pc \in {"take", "begin", "search", "answer", "undefined"},
         r.pc \in {"take", "begin"} => Fresh(r), r.pc = "search" => Searching(r, V),
         r.pc = "answer" => Found(r)
  PROVE  QueryOK(r, V)
BY DEF QueryOK, AnswerAsAlone, DocumentsMet, EpsilonMet, Answered

\* It is enough that the query of the thread that takes a step stays sound.
LEMMA StepOK ==
  ASSUME QueriesTypeOK, ListsOwned, QueriesOK, UNCHANGED ix, NEW t \in Threads, NEW r,
         my' = [my EXCEPT ![t] = r], NEW W, W = Marks(t)', QueryOK(r, W),
         \A v \in 1 .. Len(mass) : (Uses(t) /\ v = my[t].vl) \/ mass'[v] = mass[v]
  PROVE  QueriesOK'
<1>1. QueryOK(r, W)'
  BY SameIndex
<1> QED BY <1>1, OthersOK

\* What a thread's query is before a step of its search
LEMMA SearcherOK ==
  ASSUME QueriesTypeOK, QueriesOK, NEW t \in Threads, my[t].pc \notin {"idle", "undefined"}
  PROVE  /\ ix \in Queried /\ my[t] \in Locals /\ Asking(my[t]) /\ Marks(t) \in SUBSET Ids(ix)
         /\ my[t].pc \in {"take", "begin"} => Fresh(my[t])
         /\ my[t].pc = "search" => Searching(my[t], Marks(t))
         /\ my[t].pc = "answer" => Found(my[t])
BY SearcherFacts DEF QueriesOK, QueryOK, Marks

\* Asking
LEMMA AskOK ==
  ASSUME QueriesTypeOK, ListsOwned, QueriesOK, NEW t \in Threads, Ask(t)
  PROVE  QueriesOK'
<1>1. PICK r \in Locals : my' = [my EXCEPT ![t] = r] /\ r.pc = "take" /\ Fresh(r)
  BY AskTypes
<1> PICK W : W = Marks(t)'
  OBVIOUS
<1>2. QueryOK(r, W)
  BY <1>1, BusyOK
<1>3. UNCHANGED <<ix, mass>>
  BY DEF Ask
<1> QED BY <1>1, <1>2, <1>3, StepOK

\* Taking a list
LEMMA TakeOK ==
  ASSUME QueriesTypeOK, ListsOwned, QueriesOK, NEW t \in Threads, TakeList(t)
  PROVE  QueriesOK'
<1>1. my[t].pc = "take" /\ UNCHANGED ix
  BY DEF TakeList
<1>2. my[t] \in Locals /\ Fresh(my[t])
  BY <1>1, SearcherOK
<1>3. PICK v \in Nat : my' = [my EXCEPT ![t] = [my[t] EXCEPT !.pc = "begin", !.vl = v]]
  BY TakeTypes
<1>4. PICK r, W : r = [my[t] EXCEPT !.pc = "begin", !.vl = v] /\ W = Marks(t)'
  OBVIOUS
<1>5. r.pc = "begin" /\ Fresh(r)
  BY <1>2, <1>4 DEF Fresh, Locals
<1>6. QueryOK(r, W)
  BY <1>5, BusyOK
<1>7. \A w \in 1 .. Len(mass) : mass'[w] = mass[w]
  BY TakeTypes
<1> QED BY <1>1, <1>3, <1>4, <1>6, <1>7, StepOK

\* Beginning
LEMMA BeginOK ==
  ASSUME QueriesTypeOK, ListsOwned, QueriesOK, NEW t \in Threads, Begin(t)
  PROVE  QueriesOK'
<1>1. my[t].pc = "begin" /\ UNCHANGED ix
  BY DEF Begin
<1> PICK q : q = my[t]
  OBVIOUS
<1>2. ix \in Queried /\ q \in Locals /\ Asking(q) /\ Fresh(q)
  BY <1>1, SearcherOK
<1>3. /\ \E tag \in Tags : my' = [my EXCEPT ![t] = Begun(q, tag)]
      /\ Marks(t)' = {q.at}
      /\ \A v \in 1 .. Len(mass) : v # q.vl => mass'[v] = mass[v]
  BY BeginTypes
<1>4. PICK tag \in Tags : my' = [my EXCEPT ![t] = Begun(q, tag)]
  BY <1>3
<1> PICK r : r = Begun(q, tag)
  OBVIOUS
<1>5. BegunAs(q, tag, r)
  BY <1>2, BegunFacts
<1>6. Searching(r, {r.at}) /\ r.at = q.at /\ r.pc = "search"
  BY <1>2, <1>5, BegunOK DEF BegunAs
<1>7. QueryOK(r, {q.at})
  BY <1>6, BusyOK
<1>8. \A v \in 1 .. Len(mass) : (Uses(t) /\ v = my[t].vl) \/ mass'[v] = mass[v]
  BY <1>1, <1>3 DEF Uses
<1> QED BY <1>1, <1>3, <1>4, <1>7, <1>8, StepOK

\* Expanding
LEMMA ExpandOK ==
  ASSUME QueriesTypeOK, ListsOwned, QueriesOK, NEW t \in Threads, Expand(t)
  PROVE  QueriesOK'
<1> PICK q, V : q = my[t] /\ V = Marks(t)
  OBVIOUS
<1>1. q.pc = "search" /\ Between(q) /\ GoesOn(q) /\ UNCHANGED <<ix, mass>>
  BY DEF Expand, Between
<1>2. ix \in Queried /\ q \in Locals /\ Asking(q) /\ Searching(q, V)
  BY <1>1, SearcherOK
<1>3. /\ \E c \in ClosestCandidates(q) : \E r : my' = [my EXCEPT ![t] = r] /\ ExpandedAs(q, c, r)
      /\ Marks(t)' = V
  BY ExpandTypes
<1>4. PICK c \in ClosestCandidates(q) : \E r : my' = [my EXCEPT ![t] = r] /\ ExpandedAs(q, c, r)
  BY <1>3
<1>5. PICK r : my' = [my EXCEPT ![t] = r] /\ ExpandedAs(q, c, r)
  BY <1>4
<1>6. Searching(r, V) /\ r.pc = "search"
  BY <1>1, <1>2, <1>5, ExpandedOK DEF ExpandedAs
<1>7. QueryOK(r, V)
  BY <1>6, BusyOK
<1> QED BY <1>1, <1>3, <1>5, <1>7, StepOK

\* Visiting
LEMMA VisitOK ==
  ASSUME QueriesTypeOK, ListsOwned, QueriesOK, NEW t \in Threads, Visit(t)
  PROVE  QueriesOK'
<1> PICK q, V : q = my[t] /\ V = Marks(t)
  OBVIOUS
<1>1. q.pc = "search" /\ ~ TooMany(q) /\ UNCHANGED ix
  BY DEF Visit
<1>2. ix \in Queried /\ q \in Locals /\ Asking(q) /\ Searching(q, V) /\ V \in SUBSET Ids(ix)
  BY <1>1, SearcherOK
<1>3. /\ \E n \in q.todo : \E r :
           my' = [my EXCEPT ![t] = r] /\ VisitedAs(q, n, n \in V, r) /\ Marks(t)' = V \cup {n}
      /\ \A v \in 1 .. Len(mass) : v # q.vl => mass'[v] = mass[v]
  BY VisitTypes
<1>4. PICK n \in q.todo : \E r :
         my' = [my EXCEPT ![t] = r] /\ VisitedAs(q, n, n \in V, r) /\ Marks(t)' = V \cup {n}
  BY <1>3
<1>5. PICK r :
        my' = [my EXCEPT ![t] = r] /\ VisitedAs(q, n, n \in V, r) /\ Marks(t)' = V \cup {n}
  BY <1>4
<1> PICK W : W = V \cup {n}
  OBVIOUS
<1>6. Searching(r, W) /\ r.pc = "search"
  <2>1. CASE n \in V
    <3>1. r = Passed(q, n) /\ W = V
      BY <1>5, <2>1 DEF VisitedAs
    <3>2. r.pc = "search"
      BY <1>1, <1>2, <3>1 DEF Passed, Locals
    <3> QED BY <1>2, <2>1, <3>1, <3>2, PassedOK
  <2>2. CASE n \notin V
    <3>1. LookedAs(q, n, r)
      BY <1>5, <2>2 DEF VisitedAs
    <3>2. r.pc = "search"
      BY <1>1, <3>1 DEF LookedAs
    <3>3. Searching(r, V \cup {n})
      BY <1>1, <1>2, <2>2, <3>1, LookedOK
    <3> QED BY <3>2, <3>3
  <2> QED BY <2>1, <2>2
<1>7. QueryOK(r, W)
  BY <1>6, BusyOK
<1>8. \A v \in 1 .. Len(mass) : (Uses(t) /\ v = my[t].vl) \/ mass'[v] = mass[v]
  BY <1>1, <1>3 DEF Uses
<1> QED BY <1>1, <1>5, <1>7, <1>8, StepOK

\* Removing
LEMMA RemoveOK ==
  ASSUME QueriesTypeOK, ListsOwned, QueriesOK, NEW t \in Threads, RemoveExtra(t)
  PROVE  QueriesOK'
<1> PICK q, V : q = my[t] /\ V = Marks(t)
  OBVIOUS
<1>1. q.pc = "search" /\ TooMany(q) /\ UNCHANGED <<ix, mass>>
  BY DEF RemoveExtra
<1>2. ix \in Queried /\ q \in Locals /\ Asking(q) /\ Searching(q, V) /\ V \in SUBSET Ids(ix)
  BY <1>1, SearcherOK
<1>3. /\ \E n \in Last(q) : \E r : my' = [my EXCEPT ![t] = r] /\ LighterBy(q, n, Document(n), r)
      /\ Marks(t)' = V
  BY RemoveTypes
<1>4. PICK n \in Last(q) : \E r : my' = [my EXCEPT ![t] = r] /\ LighterBy(q, n, Document(n), r)
  BY <1>3
<1>5. PICK r : my' = [my EXCEPT ![t] = r] /\ LighterBy(q, n, Document(n), r)
  BY <1>4
<1>6. Searching(r, V) /\ r.pc = "search"
  BY <1>1, <1>2, <1>5, RemovedOK DEF LighterBy
<1>7. QueryOK(r, V)
  BY <1>6, BusyOK
<1> QED BY <1>1, <1>3, <1>5, <1>7, StepOK

\* Returning the list
LEMMA ReleaseOK ==
  ASSUME QueriesTypeOK, ListsOwned, QueriesOK, NEW t \in Threads, ReleaseList(t)
  PROVE  QueriesOK'
<1> PICK q, V : q = my[t] /\ V = Marks(t)
  OBVIOUS
<1>1. q.pc = "search" /\ Between(q) /\ ~ GoesOn(q) /\ UNCHANGED <<ix, mass>>
  BY DEF ReleaseList, Between
<1>2. ix \in Queried /\ q \in Locals /\ Asking(q) /\ Searching(q, V) /\ V \in SUBSET Ids(ix)
  BY <1>1, SearcherOK
<1>3. my' = [my EXCEPT ![t] = [q EXCEPT !.pc = "answer"]] /\ Marks(t)' = V
  BY ReleaseTypes
<1>4. PICK r : r = [q EXCEPT !.pc = "answer"]
  OBVIOUS
<1>5. r.pc = "answer" /\ r.ask = q.ask /\ r.at = q.at /\ r.top = q.top /\ r.condition = q.condition
  BY <1>2, <1>4 DEF Locals
<1>6. Found(r)
  BY <1>1, <1>2, <1>5, ReleasedOK, FoundAlike
<1>7. QueryOK(r, V)
  BY <1>5, <1>6, BusyOK
<1> QED BY <1>1, <1>3, <1>4, <1>7, StepOK

\* Leaving a document out
LEMMA FilterOK ==
  ASSUME QueriesTypeOK, ListsOwned, QueriesOK, NEW t \in Threads, FilterDocuments(t)
  PROVE  QueriesOK'
<1> PICK q, V : q = my[t] /\ V = Marks(t)
  OBVIOUS
<1>1. /\ q.pc = "answer" /\ Kind(q) = "documents" /\ UNCHANGED <<ix, mass>>
      /\ q.condition.curr_num_docs_ > q.ask.stop.num_docs_to_search
  BY DEF FilterDocuments, TooManyDocuments
<1>2. ix \in Queried /\ q \in Locals /\ Asking(q) /\ Found(q)
  BY <1>1, SearcherOK
<1>3. /\ \E n \in Last(q) : my' = [my EXCEPT ![t] = Without(q, n, Document(HeapTop(q)))]
      /\ Marks(t)' = V
  BY FilterTypes
<1> PICK n \in Last(q) : my' = [my EXCEPT ![t] = Without(q, n, Document(HeapTop(q)))]
  BY <1>3
<1> PICK r : r = Without(q, n, Document(HeapTop(q)))
  OBVIOUS
<1>4. r.pc = "answer" /\ Found(r)
  BY <1>1, <1>2, FilteredOK
<1>5. QueryOK(r, V)
  BY <1>4, BusyOK
<1> QED BY <1>1, <1>3, <1>5, StepOK

\* Reading past the results
LEMMA RunsOutOK ==
  ASSUME QueriesTypeOK, ListsOwned, QueriesOK, NEW t \in Threads, FilterRunsOut(t)
  PROVE  QueriesOK'
<1> PICK W : W = Marks(t)'
  OBVIOUS
<1>1. PICK r : my' = [my EXCEPT ![t] = r] /\ r.pc = "undefined"
  BY RunsOutTypes
<1>2. QueryOK(r, W)
  BY <1>1, BusyOK
<1>3. UNCHANGED <<ix, mass>>
  BY DEF FilterRunsOut
<1> QED BY <1>1, <1>2, <1>3, StepOK

\* Answering
LEMMA AnswerOK ==
  ASSUME QueriesTypeOK, ListsOwned, QueriesOK, NEW t \in Threads, Answer(t)
  PROVE  QueriesOK'
<1> PICK q, W : q = my[t] /\ W = Marks(t)'
  OBVIOUS
<1>1. /\ q.pc = "answer" /\ UNCHANGED <<ix, mass>>
      /\ Kind(q) = "documents" => ~ (q.condition.curr_num_docs_ > q.ask.stop.num_docs_to_search)
  BY DEF Answer, TooManyDocuments
<1>2. ix \in Queried /\ q \in Locals /\ Asking(q) /\ Found(q)
  BY <1>1, SearcherOK
<1>3. PICK answer \in Results(q) : my' = [my EXCEPT ![t] = [Idle EXCEPT !.ask = q.ask, !.answer = answer]]
  BY AnswerTypes
<1> PICK r : r = [Idle EXCEPT !.ask = q.ask, !.answer = answer]
  OBVIOUS
<1>4. r.pc = "idle" /\ r.ask = q.ask /\ r.answer = answer
  BY DEF Idle
<1>5. AnswerAsAlone(r) /\ DocumentsMet(r) /\ EpsilonMet(r)
  BY <1>1, <1>2, <1>4, AnsweredOK
<1>6. QueryOK(r, W)
  BY <1>4, <1>5 DEF QueryOK
<1> QED BY <1>1, <1>3, <1>6, StepOK

\* At first nobody has asked.
LEMMA InitOK ==
  ASSUME Init
  PROVE  QueriesOK
<1> SUFFICES ASSUME NEW t \in Threads PROVE QueryOK(my[t], Marks(t))
  BY DEF QueriesOK
<1>1. my[t].pc = "idle" /\ Kind(my[t]) = "no question"
  BY DEF Init, Idle, Kind, NoQuestion
<1> QED BY <1>1 DEF QueryOK, AnswerAsAlone, DocumentsMet, EpsilonMet, Answered

\* Every step keeps what the queries hold.
LEMMA NextOK ==
  ASSUME QueriesTypeOK, ListsOwned, QueriesOK, [Next]_vars
  PROVE  QueriesOK'
<1>1. ASSUME UNCHANGED vars PROVE QueriesOK'
  <2>1. UNCHANGED <<ix, mass, my>>
    BY <1>1 DEF vars
  <2> SUFFICES ASSUME NEW t \in Threads PROVE QueryOK(my[t], Marks(t))'
    BY DEF QueriesOK
  <2>2. Marks(t)' = Marks(t) /\ my'[t] = my[t]
    BY <2>1, MarksKept
  <2> PICK q, V : q = my[t] /\ V = Marks(t)
    OBVIOUS
  <2>3. QueryOK(q, V)'
    BY <2>1, SameIndex DEF QueriesOK
  <2> QED BY <2>2, <2>3
<1>2. ASSUME NEW t \in Threads, Ask(t) \/ Search(t) PROVE QueriesOK'
  <2>1. CASE Ask(t)
    BY <2>1, AskOK
  <2>2. CASE TakeList(t)
    BY <2>2, TakeOK
  <2>3. CASE Begin(t)
    BY <2>3, BeginOK
  <2>4. CASE Expand(t)
    BY <2>4, ExpandOK
  <2>5. CASE Visit(t)
    BY <2>5, VisitOK
  <2>6. CASE RemoveExtra(t)
    BY <2>6, RemoveOK
  <2>7. CASE ReleaseList(t)
    BY <2>7, ReleaseOK
  <2>8. CASE FilterDocuments(t)
    BY <2>8, FilterOK
  <2>9. CASE FilterRunsOut(t)
    BY <2>9, RunsOutOK
  <2>10. CASE Answer(t)
    BY <2>10, AnswerOK
  <2> QED BY <1>2, <2>1, <2>2, <2>3, <2>4, <2>5, <2>6, <2>7, <2>8, <2>9, <2>10 DEF Search
<1> QED BY <1>1, <1>2 DEF Next

\* The inductive invariant
LEMMA QueriesStayOK == Spec => [](QueriesTypeOK /\ ListsOwned /\ QueriesOK)
<1>1. Init => QueriesTypeOK /\ ListsOwned /\ QueriesOK
  BY InitTypes, InitOK
<1>2. QueriesTypeOK /\ ListsOwned /\ QueriesOK /\ [Next]_vars => (QueriesTypeOK /\ ListsOwned /\ QueriesOK)'
  BY NextTypes, NextOK
<1> QED BY <1>1, <1>2, PTL DEF Spec

\* However the threads' searches share the lists of tags, and however often the
\* tags have wrapped, searchKnn answers with what the pure search finds, for
\* questions with at most one element at each distance.
THEOREM AnswersAreAsAlone == Spec => []AnswersAsAlone
<1>1. QueriesOK => AnswersAsAlone
  BY DEF QueriesOK, QueryOK, AnswerAsAlone, AnswersAsAlone, Start
<1> QED BY <1>1, QueriesStayOK, PTL

\* What a stop condition counts is on the heap of results, at every step of its
\* search, elements equally far or not, and its own heap holds as many pairs of
\* each distance, in the filter for documents, too.
THEOREM ConditionsCount == Spec => []ConditionCountsResults
<1>1. QueriesTypeOK /\ QueriesOK => ConditionCountsResults
  <2> SUFFICES ASSUME QueriesTypeOK, QueriesOK, NEW t \in Threads, my[t].pc \in {"search", "answer"}
               PROVE  LET q == my[t]
                          c == q.condition
                          of(d) == {n \in q.top : Document(n) = d}
                          at(S, x) == {n \in S : Distance(q, n) = x}
                      IN /\ Kind(q) = "epsilon" => c.curr_num_items_ = Cardinality(q.top)
                         /\ Kind(q) = "documents" =>
                              /\ \A n \in Ids(ix) : Cardinality(at(c.search_results_, Distance(q, n)))
                                                      = Cardinality(at(q.top, Distance(q, n)))
                              /\ q.pc = "search" \/ TiesWithinDocuments(q) =>
                                   /\ \A d \in DOMAIN c.doc_counter_ : c.doc_counter_[d] = Cardinality(of(d))
                                   /\ c.curr_num_docs_ = Cardinality(Documents(q.top))
    BY DEF ConditionCountsResults
  <2> PICK q : q = my[t]
    OBVIOUS
  <2>1. /\ Kind(q) = "epsilon" \/ q.pc = "search" \/ TiesWithinDocuments(q) => Counts(q.condition, q.top)
        /\ \E V : Heaped(q, V)
    BY SearcherOK DEF Searching, Found
  <2>2. DOMAIN q.condition.doc_counter_ = AllDocuments
    BY DEF QueriesTypeOK, Locals, Conditions
  <2>3. \A n \in Ids(ix) : Cardinality(AtDistance(q, q.condition.search_results_, Distance(q, n)))
                             = Cardinality(AtDistance(q, q.top, Distance(q, n)))
    BY <2>1 DEF Heaped
  <2> QED BY <2>1, <2>2, <2>3 DEF Counts, OfDocument, AtDistance
<1> QED BY <1>1, QueriesStayOK, PTL

\* A search with a stop condition finds what its tests expect of it, as far as
\* StopConditionMet says.
THEOREM StopConditionsMet == Spec => []StopConditionMet
<1>1. QueriesOK => StopConditionMet
  <2> SUFFICES ASSUME QueriesOK, NEW t \in Threads
               PROVE  DocumentsMet(my[t]) /\ EpsilonMet(my[t])
    BY DEF StopConditionMet, DocumentsMet, EpsilonMet
  <2> QED BY DEF QueriesOK, QueryOK
<1> QED BY <1>1, QueriesStayOK, PTL
===============================================================================
