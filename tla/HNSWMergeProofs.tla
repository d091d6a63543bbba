---------------------------- MODULE HNSWMergeProofs ----------------------------
(***************************************************************************)
(* Proofs about HNSWMerge, for all inputs, all numbers of threads and      *)
(* every search and selection that satisfy the assumptions of MergeLevel,  *)
(* and, at the end, about MergeSetup, which prepares the level loop.       *)
(***************************************************************************)
EXTENDS MergeQuality, MergeSetup, FiniteSetTheorems, TLAPS

-------------------------------------------------------------------------------
(* The operators of MergeLevel: what the assumptions on the inputs, the     *)
(* search and the selection say of one merge, and how large and made of     *)
(* what the new lists are                                                   *)

\* The ids, levels and vectors of the inputs and of the result are numbers in
\* the ranges the merge indexes its arrays with.
LEMMA InputFacts ==
  ASSUME NEW p \in Pairs
  PROVE  /\ Offset(p[1]) \in Nat \ {0}
         /\ Ids(p[1]) = 0 .. Offset(p[1]) - 1
         /\ p[2].count \in Nat \ {0}
         /\ p[1].maxlevel_ \in Nat /\ p[2].maxlevel_ \in Nat
         /\ p[1].maxlevel_ <= p[2].maxlevel_
         /\ p[1].element_levels_ \in [Ids(p[1]) -> 0 .. p[1].maxlevel_]
         /\ p[2].element_levels_ \in [Ids(p[2]) -> 0 .. p[2].maxlevel_]
         /\ WellFormed(p[1], M) /\ WellFormed(p[2], M)
BY PairsAssumption DEF WellFormed, Ids, Offset

\* The elements of index1 keep their ids in the result, those of index2 follow.
LEMMA MergedIdsSplit ==
  ASSUME NEW p \in Pairs
  PROVE  /\ Ids(p[1]) \subseteq MergedIds(p[1], p[2])
         /\ \A j \in Ids(p[2]) : j + Offset(p[1]) \in MergedIds(p[1], p[2])
         /\ \A j \in Ids(p[2]) : j + Offset(p[1]) \notin Ids(p[1])
         /\ \A n \in MergedIds(p[1], p[2]) :
              n \notin Ids(p[1]) => n - Offset(p[1]) \in Ids(p[2])
         /\ IsFiniteSet(MergedIds(p[1], p[2]))
<1>1. /\ p[1].count \in Nat /\ p[2].count \in Nat
  BY InputFacts DEF Offset
<1>2. IsFiniteSet(MergedIds(p[1], p[2]))
  <2> DEFINE last == p[1].count + p[2].count - 1
  <2>1. last \in Int
    BY <1>1
  <2> HIDE DEF last
  <2>2. IsFiniteSet(0 .. last)
    BY <2>1, FS_Interval
  <2> QED BY <2>2 DEF MergedIds, last
<1>3. /\ Ids(p[1]) \subseteq MergedIds(p[1], p[2])
      /\ \A j \in Ids(p[2]) : /\ j + Offset(p[1]) \in MergedIds(p[1], p[2])
                             /\ j + Offset(p[1]) \notin Ids(p[1])
      /\ \A n \in MergedIds(p[1], p[2]) : n \notin Ids(p[1]) => n - Offset(p[1]) \in Ids(p[2])
  BY <1>1, SMT DEF Ids, MergedIds, Offset
<1> QED BY <1>2, <1>3

\* Adding an offset to the ids of a list does not make the list longer.
LEMMA ShiftFinite ==
  ASSUME NEW S \in SUBSET Int, IsFiniteSet(S), NEW k \in Int
  PROVE  /\ IsFiniteSet(Shift(S, k))
         /\ Cardinality(Shift(S, k)) <= Cardinality(S)
<1> DEFINE f == [x \in S |-> x + k]
<1>1. f \in Surjection(S, Shift(S, k))
  BY DEF Surjection, Shift
<1> QED BY <1>1, FS_Surjection

\* A shifted set of ids of index2 is a set of ids of the result.
LEMMA ShiftIds ==
  ASSUME NEW p \in Pairs, NEW S \in SUBSET Ids(p[2])
  PROVE  /\ Shift(S, Offset(p[1])) \in SUBSET MergedIds(p[1], p[2])
         /\ \A n \in Shift(S, Offset(p[1])) : n - Offset(p[1]) \in S
         /\ \A j \in Ids(p[2]) : j + Offset(p[1]) \in Shift(S, Offset(p[1])) <=> j \in S
<1>1. Offset(p[1]) \in Nat /\ p[2].count \in Nat
  BY InputFacts
<1>2. Ids(p[2]) \subseteq Int
  BY <1>1 DEF Ids
<1>3. \A j \in Ids(p[2]) : j + Offset(p[1]) \in MergedIds(p[1], p[2])
  BY MergedIdsSplit
<1> QED BY <1>1, <1>2, <1>3 DEF Shift

\* The lists of the inputs: elements of the result, no more than the list can
\* hold, of the right level, and not the owner.
LEMMA OldLinksFacts ==
  ASSUME NEW p \in Pairs, NEW l \in Nat
  PROVE  /\ \A i \in Ids(p[1]) : p[1].element_levels_[i] >= l =>
              /\ OldLinks1(p[1], l, i) \in SUBSET Ids(p[1])
              /\ IsFiniteSet(OldLinks1(p[1], l, i))
              /\ Cardinality(OldLinks1(p[1], l, i)) \in Nat
              /\ Cardinality(OldLinks1(p[1], l, i)) <= Mcurmax(M, l)
              /\ \A c \in OldLinks1(p[1], l, i) :
                   c # i /\ p[1].element_levels_[c] >= l
         /\ \A j \in Ids(p[2]) : p[2].element_levels_[j] >= l =>
              /\ OldLinks2(p[1], p[2], l, j) \in SUBSET MergedIds(p[1], p[2])
              /\ IsFiniteSet(OldLinks2(p[1], p[2], l, j))
              /\ Cardinality(OldLinks2(p[1], p[2], l, j)) \in Nat
              /\ Cardinality(OldLinks2(p[1], p[2], l, j)) <= Mcurmax(M, l)
              /\ \A c \in OldLinks2(p[1], p[2], l, j) :
                   /\ c # j + Offset(p[1])
                   /\ c - Offset(p[1]) \in Ids(p[2])
                   /\ p[2].element_levels_[c - Offset(p[1])] >= l
<1>0. /\ Offset(p[1]) \in Nat
      /\ p[2].count \in Nat
      /\ p[1].maxlevel_ \in Nat /\ p[2].maxlevel_ \in Nat
      /\ p[1].element_levels_ \in [Ids(p[1]) -> 0 .. p[1].maxlevel_]
      /\ p[2].element_levels_ \in [Ids(p[2]) -> 0 .. p[2].maxlevel_]
  BY InputFacts
<1>1. ASSUME NEW i \in Ids(p[1]), p[1].element_levels_[i] >= l
      PROVE  /\ OldLinks1(p[1], l, i) \in SUBSET Ids(p[1])
             /\ IsFiniteSet(OldLinks1(p[1], l, i))
             /\ Cardinality(OldLinks1(p[1], l, i)) \in Nat
             /\ Cardinality(OldLinks1(p[1], l, i)) <= Mcurmax(M, l)
             /\ \A c \in OldLinks1(p[1], l, i) :
                  c # i /\ p[1].element_levels_[c] >= l
  <2>1. l \in 0 .. p[1].maxlevel_
    BY <1>0, <1>1
  <2>2. WellFormed(p[1], M)
    BY InputFacts
  <2>3. /\ OldLinks1(p[1], l, i) \in SUBSET Ids(p[1])
        /\ IsFiniteSet(OldLinks1(p[1], l, i))
        /\ Cardinality(OldLinks1(p[1], l, i)) <= Mcurmax(M, l)
        /\ \A c \in OldLinks1(p[1], l, i) :
             c # i /\ p[1].element_levels_[c] >= l
    <3>1. /\ p[1].links \in [0 .. p[1].maxlevel_ -> [Ids(p[1]) -> SUBSET Ids(p[1])]]
          /\ IsFiniteSet(p[1].links[l][i]) /\ Cardinality(p[1].links[l][i]) <= Mcurmax(M, l)
          /\ \A c \in p[1].links[l][i] : c # i /\ p[1].element_levels_[c] >= l
      BY <2>1, <2>2 DEF WellFormed
    <3> QED BY <3>1, <2>1 DEF OldLinks1
  <2> QED BY <2>3, FS_CardinalityType
<1>2. ASSUME NEW j \in Ids(p[2]), p[2].element_levels_[j] >= l
      PROVE  /\ OldLinks2(p[1], p[2], l, j) \in SUBSET MergedIds(p[1], p[2])
             /\ IsFiniteSet(OldLinks2(p[1], p[2], l, j))
             /\ Cardinality(OldLinks2(p[1], p[2], l, j)) \in Nat
             /\ Cardinality(OldLinks2(p[1], p[2], l, j)) <= Mcurmax(M, l)
             /\ \A c \in OldLinks2(p[1], p[2], l, j) :
                  /\ c # j + Offset(p[1])
                  /\ c - Offset(p[1]) \in Ids(p[2])
                  /\ p[2].element_levels_[c - Offset(p[1])] >= l
  <2> DEFINE L == p[2].links[l][j]
  <2>1. l \in 0 .. p[2].maxlevel_
    BY <1>0, <1>2
  <2>2. WellFormed(p[2], M)
    BY InputFacts
  <2>3. /\ L \in SUBSET Ids(p[2])
        /\ IsFiniteSet(L)
        /\ Cardinality(L) <= Mcurmax(M, l)
        /\ \A c \in L : c # j /\ p[2].element_levels_[c] >= l
    <3>1. /\ p[2].links \in [0 .. p[2].maxlevel_ -> [Ids(p[2]) -> SUBSET Ids(p[2])]]
          /\ IsFiniteSet(L) /\ Cardinality(L) <= Mcurmax(M, l)
          /\ \A c \in L : c # j /\ p[2].element_levels_[c] >= l
      BY <2>1, <2>2 DEF WellFormed
    <3> QED BY <3>1, <2>1
  <2>4. Ids(p[2]) \subseteq Int /\ j \in Int
    BY <1>0 DEF Ids
  <2>5. OldLinks2(p[1], p[2], l, j) = Shift(L, Offset(p[1]))
    BY DEF OldLinks2
  <2> HIDE DEF L
  <2>6. /\ IsFiniteSet(Shift(L, Offset(p[1])))
        /\ Cardinality(Shift(L, Offset(p[1]))) <= Cardinality(L)
    BY <2>3, <2>4, <1>0, ShiftFinite
  <2>7. Cardinality(L) \in Nat /\ Cardinality(Shift(L, Offset(p[1]))) \in Nat
    BY <2>3, <2>6, FS_CardinalityType
  <2>8. Mcurmax(M, l) \in Nat
    BY MAssumption DEF Mcurmax
  <2>9. Shift(L, Offset(p[1])) \in SUBSET MergedIds(p[1], p[2])
    BY <2>3, ShiftIds
  <2>10. ASSUME NEW c \in Shift(L, Offset(p[1]))
         PROVE  /\ c # j + Offset(p[1])
                /\ c - Offset(p[1]) \in Ids(p[2])
                /\ p[2].element_levels_[c - Offset(p[1])] >= l
    <3>1. PICK x \in L : c = x + Offset(p[1])
      BY DEF Shift
    <3>2. x \in Int /\ c - Offset(p[1]) = x
      BY <3>1, <2>3, <2>4, <1>0
    <3> QED BY <3>1, <3>2, <2>3, <2>4, <1>0
  <2> QED BY <2>3, <2>5, <2>6, <2>7, <2>8, <2>9, <2>10
<1> QED BY <1>1, <1>2

\* What a forward search of the merge returns: live elements of the level of
\* index2, and an entry point that exists on the level or none.
LEMMA ForwardFacts ==
  ASSUME NEW p \in Pairs, NEW l \in Levels(p[2]), NEW i \in Ids(p[1]),
         NEW ep \in {NoEntry} \cup {n \in Ids(p[2]) : p[2].element_levels_[n] >= l}
  PROVE  LET res == Forward(p[1], p[2], ep, l, i)
         IN  /\ res.top \in SUBSET LayerNodes(p[2], l)
             /\ res.ep \in {NoEntry} \cup {n \in Ids(p[2]) : p[2].element_levels_[n] >= l}
<1>1. <<p[2], p[1].data[i]>> \in Searches
  BY DEF Searches
<1> DEFINE s == <<p[2], p[1].data[i]>>
<1>2. s[1] = p[2] /\ s[2] = p[1].data[i]
  OBVIOUS
<1>3. LET res == LayerSearch(s[1], s[2], ep, HigherLevel(s[1], ep, l), l, Lambda)
      IN  /\ res.top \subseteq LayerNodes(s[1], l)
          /\ res.ep \in {ep} \cup LayerNodes(s[1], l)
  BY <1>1, <1>2, SearchAssumption
<1>4. LayerNodes(p[2], l) \subseteq {n \in Ids(p[2]) : p[2].element_levels_[n] >= l}
  BY DEF LayerNodes
<1> QED BY <1>2, <1>3, <1>4 DEF Forward

\* The selection never returns more elements than asked for, and none that
\* was not a candidate.
LEMMA SelectionFacts ==
  ASSUME NEW p \in Pairs, NEW n \in MergedIds(p[1], p[2]), NEW l \in Nat,
         NEW C \in SUBSET MergedIds(p[1], p[2])
  PROVE  LET d == MergedData(p[1], p[2])
             kept == Heuristic(d, d[n], C, Mcurmax(M, l))
         IN  kept \subseteq C /\ Cardinality(kept) <= Mcurmax(M, l)
<1> DEFINE d == MergedData(p[1], p[2])
<1>1. d \in {MergedData(q[1], q[2]) : q \in Pairs}
  OBVIOUS
<1>2. DOMAIN d = MergedIds(p[1], p[2])
  BY DEF MergedData
<1>3. Mcurmax(M, l) \in {M, 2 * M}
  BY DEF Mcurmax
<1> HIDE DEF d
<1>4. LET kept == Heuristic(d, d[n], C, Mcurmax(M, l))
      IN  kept \subseteq C /\ Cardinality(kept) <= Mcurmax(M, l)
  BY <1>1, <1>2, <1>3, HeuristicAssumption
<1> QED BY <1>4 DEF d

\* The new list of an element holds candidates and old neighbours, and fits.
LEMMA ConnectFacts ==
  ASSUME NEW p \in Pairs, NEW n \in MergedIds(p[1], p[2]), NEW l \in Nat,
         NEW C \in SUBSET MergedIds(p[1], p[2]), NEW old \in SUBSET MergedIds(p[1], p[2])
  PROVE  LET new == Connect(MergedData(p[1], p[2]), l, n, C, old)
         IN  new \subseteq C \cup old /\ Cardinality(new) <= Mcurmax(M, l)
<1> DEFINE d == MergedData(p[1], p[2])
<1>1. IsFiniteSet(C) /\ IsFiniteSet(old)
  BY MergedIdsSplit, FS_Subset
<1>2. /\ Cardinality(C) \in Nat /\ Cardinality(old) \in Nat
      /\ Cardinality(C \cup old) \in Nat
      /\ Cardinality(C \cup old) <= Cardinality(C) + Cardinality(old)
  <2>1. /\ IsFiniteSet(C \cup old)
        /\ Cardinality(C \cup old) = Cardinality(C) + Cardinality(old) - Cardinality(C \cap old)
    BY <1>1, FS_Union
  <2>2. IsFiniteSet(C \cap old)
    BY <1>1, FS_Intersection
  <2> QED BY <1>1, <2>1, <2>2, FS_CardinalityType
<1>3. Mcurmax(M, l) \in Nat
  BY MAssumption DEF Mcurmax
<1>4. LET kept == Heuristic(d, d[n], C \cup old, Mcurmax(M, l))
      IN  kept \subseteq C \cup old /\ Cardinality(kept) <= Mcurmax(M, l)
  BY SelectionFacts
<1> HIDE DEF d
<1>5. CASE Cardinality(C) + Cardinality(old) > Mcurmax(M, l)
  BY <1>4, <1>5 DEF Connect, d
<1>6. CASE ~ (Cardinality(C) + Cardinality(old) > Mcurmax(M, l))
  BY <1>2, <1>3, <1>6 DEF Connect
<1> QED BY <1>5, <1>6

-------------------------------------------------------------------------------
(* The states of HNSWMerge *)

TypeInv == input \in Pairs /\ TypeOK /\ Control

\* What is known of the inputs and of the layers of a level.
LEMMA IndexFacts ==
  ASSUME input \in Pairs
  PROVE  /\ off \in Nat \ {0}
         /\ Ids(index1) = 0 .. off - 1
         /\ index2.count \in Nat \ {0}
         /\ index2.maxlevel_ \in Nat
         /\ index1.element_levels_ \in [Ids(index1) -> Nat]
         /\ index2.element_levels_ \in [Ids(index2) -> Nat]
         /\ Layer1 \subseteq Ids(index1)
         /\ Layer2 \subseteq Ids(index2)
         /\ Ids(index2) \subseteq Nat
         /\ Ids(index1) \subseteq Merged
         /\ \A j \in Ids(index2) : j + off \in Merged /\ j + off \notin Ids(index1)
         /\ \A n \in Merged : n \notin Ids(index1) => n - off \in Ids(index2)
<1>1. /\ off \in Nat \ {0}
      /\ Ids(index1) = 0 .. off - 1
      /\ index2.count \in Nat \ {0}
      /\ index2.maxlevel_ \in Nat
      /\ index1.element_levels_ \in [Ids(index1) -> Nat]
      /\ index2.element_levels_ \in [Ids(index2) -> Nat]
  <2>1. /\ index1.maxlevel_ \in Nat /\ index2.maxlevel_ \in Nat
        /\ index1.element_levels_ \in [Ids(index1) -> 0 .. index1.maxlevel_]
        /\ index2.element_levels_ \in [Ids(index2) -> 0 .. index2.maxlevel_]
    BY InputFacts DEF index1, index2
  <2>2. 0 .. index1.maxlevel_ \subseteq Nat /\ 0 .. index2.maxlevel_ \subseteq Nat
    BY <2>1
  <2>3. /\ index1.element_levels_ \in [Ids(index1) -> Nat]
        /\ index2.element_levels_ \in [Ids(index2) -> Nat]
    BY <2>1, <2>2
  <2> QED BY <2>1, <2>3, InputFacts DEF index1, index2, off
<1>2. Layer1 \subseteq Ids(index1) /\ Layer2 \subseteq Ids(index2)
  BY DEF Layer1, Layer2, LayerNodes
<1>3. Ids(index2) \subseteq Nat
  BY <1>1 DEF Ids
<1>4. /\ Ids(index1) \subseteq Merged
      /\ \A j \in Ids(index2) : j + off \in Merged /\ j + off \notin Ids(index1)
      /\ \A n \in Merged : n \notin Ids(index1) => n - off \in Ids(index2)
  BY MergedIdsSplit DEF Merged, index1, index2, off
<1> QED BY <1>1, <1>2, <1>3, <1>4

\* The inputs, and with the level its layers, do not change behind a thread.
LEMMA InputFrame ==
  ASSUME input' = input
  PROVE  /\ index1' = index1 /\ index2' = index2 /\ off' = off /\ data' = data
         /\ Merged' = Merged /\ NoCandidates' = NoCandidates
         /\ level' = level => Layer1' = Layer1 /\ Layer2' = Layer2
BY DEF index1, index2, off, data, Merged, NoCandidates, Layer1, Layer2

\* Before the first level no thread has an element and no list a new member.
LEMMA InitType == Init => TypeInv
<1> SUFFICES ASSUME Init PROVE TypeInv
  OBVIOUS
<1>1. input \in Pairs
  BY DEF Init
<1> USE <1>1, IndexFacts
<1>2. links \in [Levels(index2) -> [Merged -> SUBSET Merged]]
  <2>1. ASSUME NEW l \in Levels(index2), NEW n \in Merged
        PROVE  CopiedLinks(index1, index2)[l][n] \in SUBSET Merged
    <3>1. CASE l > 0
      BY <2>1, <3>1 DEF CopiedLinks, Merged, Levels
    <3>2. CASE l = 0 /\ n \in Ids(index1)
      <4>1. index1.links[0][n] \in SUBSET Ids(index1)
        BY <3>2, OldLinksFacts DEF OldLinks1, index1
      <4> QED BY <2>1, <3>2, <4>1 DEF CopiedLinks, Merged, off, index1
    <3>3. CASE l = 0 /\ n \notin Ids(index1)
      <4>1. n - off \in Ids(index2) /\ 0 \in 0 .. index2.maxlevel_ /\ WellFormed(index2, M)
        BY <2>1, <3>3, InputFacts DEF index2
      <4>2. index2.links \in [0 .. index2.maxlevel_ -> [Ids(index2) -> SUBSET Ids(index2)]]
        BY <4>1 DEF WellFormed
      <4>3. Ids(index2) \subseteq Merged
        BY SMT DEF Ids, Merged, MergedIds, off, Offset
      <4>4. index2.links[0][n - off] \in SUBSET Merged
        BY <4>1, <4>2, <4>3
      <4>5. ~ (n < off)
        BY <2>1, <3>3, SMT DEF Merged, MergedIds
      <4>6. CopiedLinks(index1, index2)[l][n] = index2.links[0][n - off]
        BY <2>1, <3>3, <4>5 DEF CopiedLinks, Merged, off
      <4> QED BY <4>4, <4>6
    <3> QED BY <3>1, <3>2, <3>3 DEF Levels
  <2> QED BY <2>1 DEF Init, CopiedLinks, Merged
<1>3. TypeOK
  BY <1>2 DEF Init, TypeOK, NoCandidates
<1>4. Control
  BY DEF Init, Control, LoopOK, ThreadOK, Apart, OwnersOK, EntriesOK, Entries, NoCandidates
<1> QED BY <1>1, <1>3, <1>4 DEF TypeInv

\* The element a thread of the forward loop works on, and the list it writes.
LEMMA ForwardElement ==
  ASSUME TypeInv, NEW t \in Threads, pc[t] \in {"push", "locked"}
  PROVE  /\ cur[t] \in Ids(index1) /\ cur[t] \in Layer1 /\ cur[t] \in Merged
         /\ level \in Levels(index2)
         /\ Shift(top[t], off) \in SUBSET Merged
         /\ OldLinks1(index1, level, cur[t]) \in SUBSET Merged
         /\ LET new == Connect(data, level, cur[t], Shift(top[t], off),
                               OldLinks1(index1, level, cur[t]))
            IN  /\ new \in SUBSET Merged
                /\ Cardinality(new) <= Mcurmax(M, level)
<1> USE IndexFacts DEF TypeInv
<1>1. cur[t] \in Layer1 /\ level \in Levels(index2)
  BY DEF Control, LoopOK, ThreadOK, TypeOK, Levels
<1>2. cur[t] \in Ids(index1) /\ cur[t] \in Merged /\ level \in Nat
  BY <1>1 DEF Levels
<1>3. Shift(top[t], off) \in SUBSET Merged
  <2>1. top[t] \in SUBSET Ids(index2)
    BY DEF TypeOK
  <2> QED BY <2>1, ShiftIds DEF Merged, index1, index2, off
<1>4. OldLinks1(index1, level, cur[t]) \in SUBSET Merged
  <2>1. index1.element_levels_[cur[t]] >= level
    BY <1>1 DEF Layer1, LayerNodes
  <2> QED BY <2>1, <1>2, OldLinksFacts DEF index1
<1> DEFINE cands == Shift(top[t], off)
           old == OldLinks1(index1, level, cur[t])
<1> HIDE DEF cands, old
<1>5. LET new == Connect(data, level, cur[t], cands, old)
      IN  /\ new \in SUBSET Merged
          /\ Cardinality(new) <= Mcurmax(M, level)
  <2>1. cands \in SUBSET Merged /\ old \in SUBSET Merged
    BY <1>3, <1>4 DEF cands, old
  <2> QED BY <2>1, <1>2, ConnectFacts DEF data, Merged, index1, index2
<1> QED BY <1>1, <1>2, <1>3, <1>4, <1>5 DEF cands, old

\* The same for a thread of the backward loop.
LEMMA BackwardElement ==
  ASSUME TypeInv, NEW t \in Threads, pc[t] = "connect"
  PROVE  /\ cur[t] \in Ids(index2) /\ cur[t] \in Layer2 /\ cur[t] + off \in Merged
         /\ level \in Levels(index2)
         /\ LET new == ConnectBackward(data, level, cur[t] + off, seen[t],
                                       OldLinks2(index1, index2, level, cur[t]))
            IN  /\ new \in SUBSET Merged
                /\ Cardinality(new) <= Mcurmax(M, level)
<1> USE IndexFacts DEF TypeInv
<1>1. cur[t] \in Layer2 /\ level \in Levels(index2)
  BY DEF Control, LoopOK, ThreadOK, TypeOK, Levels
<1>2. cur[t] \in Ids(index2) /\ cur[t] + off \in Merged /\ level \in Nat
  BY <1>1 DEF Levels
<1>3. seen[t] \in SUBSET Merged
  BY DEF TypeOK
<1> DEFINE old == OldLinks2(index1, index2, level, cur[t])
<1>4. old \in SUBSET Merged /\ Cardinality(old) <= Mcurmax(M, level)
  <2>1. index2.element_levels_[cur[t]] >= level
    BY <1>1 DEF Layer2, LayerNodes
  <2> QED BY <2>1, <1>2, OldLinksFacts DEF index1, index2, Merged
<1> HIDE DEF old
<1>5. LET new == Connect(data, level, cur[t] + off, seen[t], old)
      IN  /\ new \in SUBSET Merged
          /\ Cardinality(new) <= Mcurmax(M, level)
  BY <1>2, <1>3, <1>4, ConnectFacts DEF data, Merged, index1, index2
<1>6. LET new == ConnectBackward(data, level, cur[t] + off, seen[t], old)
      IN  /\ new \in SUBSET Merged
          /\ Cardinality(new) <= Mcurmax(M, level)
  BY <1>4, <1>5 DEF ConnectBackward
<1> QED BY <1>1, <1>2, <1>6 DEF old

\* Between two loops every thread waits and no mutex is held.
LEMMA AllIdleAtLevel ==
  ASSUME TypeInv, phase = "level"
  PROVE  /\ \A t \in Threads : pc[t] = "idle"
         /\ \A j \in Ids(index2) : mtx[j] = NoThread
BY DEF TypeInv, TypeOK, Control, ThreadOK, OwnersOK

\* The master thread: copying a level, starting and ending a loop.
LEMMA MasterType == TypeInv /\ Master => TypeInv'
<1> SUFFICES ASSUME TypeInv, Master PROVE TypeInv'
  OBVIOUS
<1> USE IndexFacts DEF TypeInv
<1>0. input' = input
  BY DEF Master, CopyLevel1, CopyLevel2, StartForward, StartBackward, EndLevel
<1> USE <1>0, InputFrame
<1>1. CASE CopyLevel1
  <2>1. ASSUME NEW n \in Layer1
        PROVE  OldLinks1(index1, level, n) \in SUBSET Merged
    <3>1. n \in Ids(index1) /\ index1.element_levels_[n] >= level /\ level \in Nat
      BY <1>1, <2>1 DEF Layer1, LayerNodes, CopyLevel1, TypeOK
    <3> QED BY <3>1, OldLinksFacts DEF index1
  <2> DEFINE new == [n \in Merged |->
                       IF n \in Layer1 THEN OldLinks1(index1, level, n) ELSE links[level][n]]
  <2>2. links' \in [Levels(index2) -> [Merged -> SUBSET Merged]]
    <3>1. links' = [links EXCEPT ![level] = new]
      BY <1>1 DEF CopyLevel1, Merged
    <3>2. links \in [Levels(index2) -> [Merged -> SUBSET Merged]] /\ level \in Levels(index2)
      BY <1>1 DEF TypeOK, Levels, CopyLevel1
    <3>3. new \in [Merged -> SUBSET Merged]
      BY <2>1, <3>2
    <3> HIDE DEF new
    <3> QED BY <3>1, <3>2, <3>3
  <2> HIDE DEF new
  <2>3. level \in Nat /\ level' \in -1 .. index2.maxlevel_ /\ level' = level - 1
    BY <1>1 DEF CopyLevel1, TypeOK
  <2>4. TypeOK'
    BY <1>1, <2>2, <2>3 DEF CopyLevel1, TypeOK, thread
  <2>5. Control'
    <3>1. LoopOK' /\ (\A t \in Threads : ThreadOK(t)') /\ Apart' /\ OwnersOK'
      BY <1>1, AllIdleAtLevel DEF CopyLevel1, Control, LoopOK, ThreadOK, Apart, OwnersOK, thread
    <3>2. Entries(level) \subseteq Entries(level')
      BY <2>3 DEF Entries
    <3>3. EntriesOK'
      BY <1>1, <3>2 DEF CopyLevel1, Control, EntriesOK, Entries
    <3> QED BY <3>1, <3>3 DEF Control
  <2> QED BY <2>4, <2>5
<1>2. CASE CopyLevel2
  <2>1. ASSUME NEW n \in Shift(Layer2, off)
        PROVE  OldLinks2(index1, index2, level, n - off) \in SUBSET Merged
    <3>1. n - off \in Layer2
      BY <2>1, ShiftIds DEF off, index1, index2
    <3>2. n - off \in Ids(index2) /\ index2.element_levels_[n - off] >= level /\ level \in Nat
      BY <1>2, <3>1 DEF Layer2, LayerNodes, CopyLevel2, TypeOK
    <3> QED BY <3>2, OldLinksFacts DEF index1, index2, Merged
  <2> DEFINE new == [n \in Merged |->
                       IF n \in Shift(Layer2, off)
                         THEN OldLinks2(index1, index2, level, n - off) ELSE links[level][n]]
  <2>2. links' \in [Levels(index2) -> [Merged -> SUBSET Merged]]
    <3>1. links' = [links EXCEPT ![level] = new]
      BY <1>2 DEF CopyLevel2, Merged
    <3>2. links \in [Levels(index2) -> [Merged -> SUBSET Merged]] /\ level \in Levels(index2)
      BY <1>2 DEF TypeOK, Levels, CopyLevel2
    <3>3. new \in [Merged -> SUBSET Merged]
      BY <2>1, <3>2
    <3> HIDE DEF new
    <3> QED BY <3>1, <3>2, <3>3
  <2> HIDE DEF new
  <2>3. level \in Nat /\ level' \in -1 .. index2.maxlevel_ /\ level' = level - 1
    BY <1>2 DEF CopyLevel2, TypeOK
  <2>4. TypeOK'
    BY <1>2, <2>2, <2>3 DEF CopyLevel2, TypeOK, thread
  <2>5. Control'
    <3>1. LoopOK' /\ (\A t \in Threads : ThreadOK(t)') /\ Apart' /\ OwnersOK'
      BY <1>2, AllIdleAtLevel DEF CopyLevel2, Control, LoopOK, ThreadOK, Apart, OwnersOK, thread
    <3>2. Entries(level) \subseteq Entries(level')
      BY <2>3 DEF Entries
    <3>3. EntriesOK'
      BY <1>2, <3>2 DEF CopyLevel2, Control, EntriesOK, Entries
    <3> QED BY <3>1, <3>3 DEF Control
  <2> QED BY <2>4, <2>5
<1>3. CASE StartForward
  <2>1. TypeOK'
    BY <1>3 DEF StartForward, TypeOK, thread, NoCandidates
  <2>2. Control'
    <3>1. LoopOK' /\ (\A t \in Threads : ThreadOK(t)') /\ Apart' /\ OwnersOK'
      BY <1>3, AllIdleAtLevel DEF StartForward, LoopOK, ThreadOK, Apart, OwnersOK, thread
    <3>2. EntriesOK'
      BY <1>3 DEF StartForward, Control, EntriesOK, Entries
    <3> QED BY <3>1, <3>2 DEF Control
  <2> QED BY <2>1, <2>2
<1>4. CASE StartBackward
  <2>1. TypeOK'
    BY <1>4 DEF StartBackward, TypeOK, thread
  <2>2. Control'
    <3>1. LoopOK' /\ (\A t \in Threads : ThreadOK(t)') /\ Apart' /\ OwnersOK'
      BY <1>4 DEF StartBackward, AllIdle, Control, LoopOK, ThreadOK, Apart, OwnersOK, thread
    <3>2. EntriesOK'
      BY <1>4 DEF StartBackward, Control, EntriesOK, Entries
    <3> QED BY <3>1, <3>2 DEF Control
  <2> QED BY <2>1, <2>2
<1>5. CASE EndLevel
  <2>1. level \in Nat /\ level' = level - 1 /\ level' \in -1 .. index2.maxlevel_
    BY <1>5 DEF EndLevel, TypeOK, Control, LoopOK
  <2>2. TypeOK'
    BY <1>5, <2>1 DEF EndLevel, TypeOK, thread
  <2>3. Control'
    <3>1. LoopOK' /\ (\A t \in Threads : ThreadOK(t)') /\ Apart' /\ OwnersOK'
      BY <1>5 DEF EndLevel, AllIdle, Control, LoopOK, ThreadOK, Apart, OwnersOK, thread
    <3>2. Entries(level) \subseteq Entries(level')
      BY <2>1 DEF Entries
    <3>3. EntriesOK'
      BY <1>5, <3>2 DEF EndLevel, Control, EntriesOK, Entries
    <3> QED BY <3>1, <3>3 DEF Control
  <2> QED BY <2>2, <2>3
<1> QED BY <1>1, <1>2, <1>3, <1>4, <1>5 DEF Master

\* The threads of the two loops.
LEMMA WorkerType == ASSUME NEW t \in Threads PROVE TypeInv /\ Worker(t) => TypeInv'
<1> SUFFICES ASSUME TypeInv, Worker(t) PROVE TypeInv'
  OBVIOUS
<1> USE IndexFacts, ThreadsAssumption DEF TypeInv
<1>0. input' = input /\ level' = level /\ phase' = phase /\ entryAbove' = entryAbove
  BY DEF Worker, SearchForward, LockCandidates, PushCandidate, WriteForward, TakeBackward,
         WriteBackward
<1> USE <1>0, InputFrame
<1>a. entryPoint' = entryPoint => EntriesOK'
  BY DEF Control, EntriesOK, Entries
<1>b. todo' = todo => LoopOK'
  BY DEF Control, LoopOK
<1>c. mtx' = mtx /\ nbr' = nbr /\ pc[t] # "locked" /\ (\A u \in Threads : u # t => pc'[u] = pc[u])
      => OwnersOK'
  BY DEF TypeOK, Control, OwnersOK
<1>1. CASE SearchForward(t)
  <2>1. PICK i \in todo :
          LET res == Forward(index1, index2, entryPoint[i], level, i)
          IN  /\ todo' = todo \ {i}
              /\ cur' = [cur EXCEPT ![t] = i]
              /\ top' = [top EXCEPT ![t] = res.top]
              /\ rest' = [rest EXCEPT ![t] = res.top]
              /\ entryPoint' = [entryPoint EXCEPT ![i] = res.ep]
    BY <1>1 DEF SearchForward
  <2> DEFINE res == Forward(index1, index2, entryPoint[i], level, i)
  <2>2. /\ i \in Layer1 /\ i \in Ids(index1) /\ level \in Levels(index2)
        /\ entryPoint[i] \in Entries(level)
    BY <1>1 DEF SearchForward, Control, LoopOK, EntriesOK, TypeOK, Levels
  <2>3. res.top \in SUBSET Layer2 /\ res.ep \in Entries(level)
    BY <2>2, ForwardFacts DEF Entries, Layer2, index1, index2
  <2>4. /\ phase = "forward" /\ pc[t] = "idle" /\ pc' = [pc EXCEPT ![t] = "push"]
        /\ UNCHANGED <<links, candidateSetIndex2, mtx, nbr, seen>>
    BY <1>1 DEF SearchForward
  <2>5. /\ todo' = todo \ {i}
        /\ cur' = [cur EXCEPT ![t] = i]
        /\ top' = [top EXCEPT ![t] = res.top]
        /\ rest' = [rest EXCEPT ![t] = res.top]
        /\ entryPoint' = [entryPoint EXCEPT ![i] = res.ep]
    BY <2>1
  <2> HIDE DEF res
  <2>6. TypeOK'
    <3>1. res.ep \in {NoEntry} \cup Ids(index2) /\ res.top \in SUBSET Ids(index2)
      BY <2>3 DEF Entries
    <3> QED BY <2>2, <2>4, <2>5, <3>1 DEF TypeOK
  <2>7. LoopOK' /\ EntriesOK'
    BY <2>3, <2>4, <2>5 DEF Control, LoopOK, EntriesOK, Entries, TypeOK
  <2>8. Apart'
    <3>1. \A u \in Threads : pc[u] # "idle" => cur[u] # i
      BY <2>4 DEF TypeOK, Control, ThreadOK
    <3> QED BY <2>4, <2>5, <3>1 DEF TypeOK, Control, Apart
  <2>9. \A u \in Threads : ThreadOK(u)'
    <3>1. ThreadOK(t)'
      BY <2>2, <2>4, <2>5 DEF TypeOK, ThreadOK
    <3>2. ASSUME NEW u \in Threads, u # t PROVE ThreadOK(u)'
      BY <2>4, <2>5, <3>2 DEF TypeOK, Control, ThreadOK
    <3> QED BY <3>1, <3>2
  <2>10. OwnersOK'
    BY <1>c, <2>4 DEF TypeOK
  <2> QED BY <2>6, <2>7, <2>8, <2>9, <2>10 DEF Control
<1>2. CASE LockCandidates(t)
  <2>1. PICK j \in rest[t] :
          /\ mtx[j] = NoThread
          /\ mtx' = [mtx EXCEPT ![j] = t]
          /\ nbr' = [nbr EXCEPT ![t] = j]
          /\ rest' = [rest EXCEPT ![t] = @ \ {j}]
          /\ seen' = [seen EXCEPT ![t] = candidateSetIndex2[j]]
    BY <1>2 DEF LockCandidates
  <2>2. /\ pc[t] = "push" /\ pc' = [pc EXCEPT ![t] = "locked"] /\ j \in Ids(index2)
        /\ UNCHANGED <<links, entryPoint, candidateSetIndex2, todo, cur, top>>
    BY <1>2 DEF LockCandidates, TypeOK
  <2>3. TypeOK'
    BY <2>1, <2>2 DEF TypeOK
  <2>4. Apart'
    BY <2>2 DEF TypeOK, Control, Apart
  <2>5. \A u \in Threads : ThreadOK(u)'
    <3>1. ThreadOK(t)'
      BY <2>1, <2>2 DEF TypeOK, Control, ThreadOK
    <3>2. ASSUME NEW u \in Threads, u # t PROVE ThreadOK(u)'
      <4>1. pc[u] = "locked" => nbr[u] # j
        BY <2>1, <3>2 DEF Control, ThreadOK
      <4> QED BY <2>1, <2>2, <3>2, <4>1 DEF TypeOK, Control, ThreadOK
    <3> QED BY <3>1, <3>2
  <2>6. OwnersOK'
    BY <2>1, <2>2 DEF TypeOK, Control, OwnersOK
  <2> QED BY <1>a, <1>b, <2>2, <2>3, <2>4, <2>5, <2>6 DEF Control
<1>3. CASE PushCandidate(t)
  <2>1. /\ pc[t] = "locked" /\ pc' = [pc EXCEPT ![t] = "push"]
        /\ candidateSetIndex2' = [candidateSetIndex2 EXCEPT ![nbr[t]] = seen[t] \cup {cur[t]}]
        /\ mtx' = [mtx EXCEPT ![nbr[t]] = NoThread]
        /\ nbr' = [nbr EXCEPT ![t] = NoEntry]
        /\ seen' = [seen EXCEPT ![t] = {}]
        /\ UNCHANGED <<links, entryPoint, todo, cur, top, rest>>
    BY <1>3 DEF PushCandidate
  <2>2. nbr[t] \in Ids(index2) /\ cur[t] \in Ids(index1)
    BY <2>1 DEF TypeOK, Control, ThreadOK
  <2>3. TypeOK'
    BY <2>1, <2>2 DEF TypeOK
  <2>4. Apart'
    BY <2>1 DEF TypeOK, Control, Apart
  <2>5. \A u \in Threads : ThreadOK(u)'
    <3>1. ThreadOK(t)'
      BY <2>1 DEF TypeOK, Control, ThreadOK
    <3>2. ASSUME NEW u \in Threads, u # t PROVE ThreadOK(u)'
      <4>1. pc[u] = "locked" => nbr[u] # nbr[t]
        BY <2>1, <3>2 DEF Control, ThreadOK
      <4>2. pc[u] # "connect"
        BY <2>1 DEF Control, ThreadOK
      <4> QED BY <2>1, <3>2, <4>1, <4>2 DEF TypeOK, Control, ThreadOK
    <3> QED BY <3>1, <3>2
  <2>6. OwnersOK'
    BY <2>1, <2>2 DEF TypeOK, Control, OwnersOK
  <2> QED BY <1>a, <1>b, <2>1, <2>3, <2>4, <2>5, <2>6 DEF Control
<1>4. CASE WriteForward(t)
  <2>1. /\ pc[t] = "push" /\ pc' = [pc EXCEPT ![t] = "idle"]
        /\ cur' = [cur EXCEPT ![t] = NoEntry]
        /\ top' = [top EXCEPT ![t] = {}]
        /\ UNCHANGED <<entryPoint, candidateSetIndex2, mtx, todo, rest, nbr, seen>>
    BY <1>4 DEF WriteForward
  <2>2. links' \in [Levels(index2) -> [Merged -> SUBSET Merged]]
    BY <1>4, ForwardElement DEF WriteForward, TypeOK
  <2>3. TypeOK'
    BY <2>1, <2>2 DEF TypeOK
  <2>4. Apart' /\ \A u \in Threads : ThreadOK(u)'
    BY <2>1 DEF TypeOK, Control, Apart, ThreadOK
  <2> QED BY <1>a, <1>b, <1>c, <2>1, <2>3, <2>4 DEF Control, TypeOK
<1>5. CASE TakeBackward(t)
  <2>1. PICK j \in todo :
          /\ todo' = todo \ {j}
          /\ cur' = [cur EXCEPT ![t] = j]
          /\ seen' = [seen EXCEPT ![t] = candidateSetIndex2[j]]
    BY <1>5 DEF TakeBackward
  <2>2. /\ phase = "backward" /\ pc[t] = "idle" /\ pc' = [pc EXCEPT ![t] = "connect"]
        /\ UNCHANGED <<links, entryPoint, candidateSetIndex2, mtx, top, rest, nbr>>
        /\ j \in Layer2 /\ j \in Ids(index2)
    BY <1>5 DEF TakeBackward, Control, LoopOK
  <2>3. TypeOK'
    BY <2>1, <2>2 DEF TypeOK
  <2>4. LoopOK'
    BY <2>1, <2>2 DEF Control, LoopOK
  <2>5. Apart'
    <3>1. \A u \in Threads : pc[u] # "idle" => cur[u] # j
      BY <2>2 DEF TypeOK, Control, ThreadOK
    <3> QED BY <2>1, <2>2, <3>1 DEF TypeOK, Control, Apart
  <2>6. \A u \in Threads : ThreadOK(u)'
    <3>1. ThreadOK(t)'
      BY <2>1, <2>2 DEF TypeOK, ThreadOK
    <3>2. ASSUME NEW u \in Threads, u # t PROVE ThreadOK(u)'
      <4>1. pc[u] # "idle" => cur[u] # j
        BY <2>2 DEF TypeOK, Control, ThreadOK
      <4> QED BY <2>1, <2>2, <3>2, <4>1 DEF TypeOK, Control, ThreadOK
    <3> QED BY <3>1, <3>2
  <2> QED BY <1>a, <1>c, <2>2, <2>3, <2>4, <2>5, <2>6 DEF Control, TypeOK
<1>6. CASE WriteBackward(t)
  <2>1. /\ pc[t] = "connect" /\ pc' = [pc EXCEPT ![t] = "idle"]
        /\ cur' = [cur EXCEPT ![t] = NoEntry]
        /\ seen' = [seen EXCEPT ![t] = {}]
        /\ UNCHANGED <<entryPoint, candidateSetIndex2, mtx, todo, top, rest, nbr>>
    BY <1>6 DEF WriteBackward
  <2>2. links' \in [Levels(index2) -> [Merged -> SUBSET Merged]]
    BY <1>6, BackwardElement DEF WriteBackward, TypeOK
  <2>3. TypeOK'
    BY <2>1, <2>2 DEF TypeOK
  <2>4. Apart' /\ \A u \in Threads : ThreadOK(u)'
    BY <2>1 DEF TypeOK, Control, Apart, ThreadOK
  <2> QED BY <1>a, <1>b, <1>c, <2>1, <2>3, <2>4 DEF Control, TypeOK
<1> QED BY <1>1, <1>2, <1>3, <1>4, <1>5, <1>6 DEF Worker

\* Master, threads and stuttering together: TypeInv is inductive.
LEMMA TypeStep == TypeInv /\ [Next]_vars => TypeInv'
<1> SUFFICES ASSUME TypeInv, [Next]_vars PROVE TypeInv'
  OBVIOUS
<1>1. CASE Master
  BY <1>1, MasterType
<1>2. CASE \E t \in Threads : Worker(t)
  BY <1>2, WorkerType
<1>3. CASE UNCHANGED vars
  <2> USE <1>3, InputFrame DEF vars, thread
  <2>1. TypeOK'
    BY DEF TypeInv, TypeOK
  <2>2. LoopOK' /\ Apart' /\ OwnersOK' /\ EntriesOK'
    BY DEF TypeInv, Control, LoopOK, Apart, OwnersOK, EntriesOK, Entries
  <2>3. \A t \in Threads : ThreadOK(t)'
    BY DEF TypeInv, Control, ThreadOK
  <2> QED BY <2>1, <2>2, <2>3 DEF TypeInv, Control
<1> QED BY <1>1, <1>2, <1>3 DEF Next, Returned

\* Every variable of the merge keeps its type, and the threads keep apart:
\* an element, a mutex and a candidate set under a mutex have one user.
THEOREM TypeInvariant == Spec => []TypeInv
BY InitType, TypeStep, PTL DEF Spec

\* Type correctness of the parallel merge.
THEOREM TypeCorrect == Spec => []TypeOK
BY TypeInvariant, PTL DEF TypeInv

\* No two threads ever work on one element, and the sets the backward loop
\* reads without a lock are complete and unlocked by then.
THEOREM NoRace == Spec => []NoDataRace
<1>1. TypeInv => NoDataRace
  BY DEF TypeInv, TypeOK, Control, ThreadOK, Apart, OwnersOK, NoDataRace
<1> QED BY <1>1, TypeInvariant, PTL

-------------------------------------------------------------------------------

\* The copied block and the copied levels fit as the lists of the inputs did.
LEMMA CopiedDegree ==
  ASSUME input \in Pairs
  PROVE  \A l \in Levels(index2), n \in Merged :
           Cardinality(CopiedLinks(index1, index2)[l][n]) <= Mcurmax(M, l)
<1> SUFFICES ASSUME NEW l \in Levels(index2), NEW n \in Merged
             PROVE  Cardinality(CopiedLinks(index1, index2)[l][n]) <= Mcurmax(M, l)
  OBVIOUS
<1> USE IndexFacts
<1>0. Mcurmax(M, l) \in Nat /\ Cardinality({}) = 0
  BY MAssumption, FS_EmptySet DEF Mcurmax
<1>1. CASE l > 0
  BY <1>0, <1>1 DEF CopiedLinks, Merged
<1>2. CASE l = 0 /\ n \in Ids(index1)
  <2>1. Cardinality(index1.links[0][n]) <= Mcurmax(M, 0)
    BY <1>2, OldLinksFacts DEF OldLinks1, index1
  <2>2. CopiedLinks(index1, index2)[l][n] = index1.links[0][n]
    BY <1>2 DEF CopiedLinks, Merged, off
  <2> QED BY <1>2, <2>1, <2>2
<1>3. CASE l = 0 /\ n \notin Ids(index1)
  <2>1. n - off \in Ids(index2) /\ 0 \in 0 .. index2.maxlevel_ /\ WellFormed(index2, M)
    BY <1>3, InputFacts DEF index2
  <2>2. Cardinality(index2.links[0][n - off]) <= Mcurmax(M, 0)
    BY <2>1 DEF WellFormed
  <2>3. ~ (n < off)
    BY <1>3, SMT DEF Merged, MergedIds
  <2>4. CopiedLinks(index1, index2)[l][n] = index2.links[0][n - off]
    BY <1>3, <2>3 DEF CopiedLinks, Merged, off
  <2> QED BY <1>3, <2>2, <2>4
<1> QED BY <1>1, <1>2, <1>3 DEF Levels

\* No list ever outgrows its memory, whatever is merged and however the
\* threads interleave.
THEOREM ListsFit == Spec => []DegreeBound
<1>1. Init => DegreeBound
  BY CopiedDegree DEF Init, DegreeBound
<1>2. TypeInv /\ DegreeBound /\ [Next]_vars => DegreeBound'
  <2> SUFFICES ASSUME TypeInv, DegreeBound, [Next]_vars PROVE DegreeBound'
    OBVIOUS
  <2> USE IndexFacts DEF TypeInv
  <2>0. input' = input
    BY DEF Next, Master, Worker, CopyLevel1, CopyLevel2, StartForward, StartBackward, EndLevel,
           SearchForward, LockCandidates, PushCandidate, WriteForward, TakeBackward,
           WriteBackward, Returned, vars
  <2> USE <2>0, InputFrame
  <2>1. CASE CopyLevel1
    <3>1. ASSUME NEW n \in Layer1
          PROVE  Cardinality(OldLinks1(index1, level, n)) <= Mcurmax(M, level)
      <4>1. n \in Ids(index1) /\ index1.element_levels_[n] >= level /\ level \in Nat
        BY <2>1, <3>1 DEF Layer1, LayerNodes, CopyLevel1, TypeOK
      <4> QED BY <4>1, OldLinksFacts DEF index1
    <3> QED BY <2>1, <3>1 DEF CopyLevel1, DegreeBound, TypeOK, Merged
  <2>2. CASE CopyLevel2
    <3>1. ASSUME NEW n \in Shift(Layer2, off)
          PROVE  Cardinality(OldLinks2(index1, index2, level, n - off)) <= Mcurmax(M, level)
      <4>1. n - off \in Layer2
        BY <3>1, ShiftIds DEF off, index1, index2
      <4>2. n - off \in Ids(index2) /\ index2.element_levels_[n - off] >= level /\ level \in Nat
        BY <2>2, <4>1 DEF Layer2, LayerNodes, CopyLevel2, TypeOK
      <4> QED BY <4>2, OldLinksFacts DEF index1, index2
    <3> QED BY <2>2, <3>1 DEF CopyLevel2, DegreeBound, TypeOK, Merged
  <2>3. ASSUME NEW t \in Threads, WriteForward(t) PROVE DegreeBound'
    BY <2>3, ForwardElement DEF WriteForward, DegreeBound, TypeOK
  <2>4. ASSUME NEW t \in Threads, WriteBackward(t) PROVE DegreeBound'
    BY <2>4, BackwardElement DEF WriteBackward, DegreeBound, TypeOK
  <2>5. CASE links' = links
    BY <2>5 DEF DegreeBound
  <2> QED
    BY <2>1, <2>2, <2>3, <2>4, <2>5
    DEF Next, Master, Worker, StartForward, StartBackward, EndLevel, SearchForward,
        LockCandidates, PushCandidate, TakeBackward, Returned, vars
<1> QED BY <1>1, <1>2, TypeInvariant, PTL DEF Spec

-------------------------------------------------------------------------------

\* What a level computes, independent of the schedule of the threads
ResultInv ==
  SearchResults /\ Candidates /\ UntouchedLists /\ ForwardLists /\ BackwardLists

\* The results of a level depend on the entry points left by the level above
\* and on nothing a thread writes.
LEMMA ResultFrame ==
  ASSUME input' = input, level' = level, entryAbove' = entryAbove
  PROVE  /\ \A i \in Ids(index1) : Search(i)' = Search(i) /\ NewLinks1(i)' = NewLinks1(i)
         /\ \A j \in Ids(index2) : Backward(j)' = Backward(j) /\ NewLinks2(j)' = NewLinks2(j)
BY InputFrame DEF Search, NewLinks1, Backward, NewLinks2

\* Before the first level the lists are the copied ones.
LEMMA InitResult == Init => ResultInv
BY DEF Init, ResultInv, SearchResults, Candidates, UntouchedLists, ForwardLists,
       BackwardLists

\* Copying a level, and the barriers: what the threads have pushed is complete
\* when the backward loop starts.
LEMMA MasterResult == TypeInv /\ ResultInv /\ Master => ResultInv'
<1> SUFFICES ASSUME TypeInv, ResultInv, Master PROVE ResultInv'
  OBVIOUS
<1> USE IndexFacts DEF TypeInv, ResultInv
<1>0. input' = input
  BY DEF Master, CopyLevel1, CopyLevel2, StartForward, StartBackward, EndLevel
<1> USE <1>0, InputFrame
<1>1. CASE CopyLevel1 \/ CopyLevel2
  <2>1. phase' = "level" /\ level' = level - 1 /\ level \in Nat
    BY <1>1 DEF CopyLevel1, CopyLevel2, TypeOK
  <2>2. SearchResults' /\ Candidates'
    BY <2>1 DEF SearchResults, Candidates
  <2>3. \A l \in Levels(index2) : l < level => links'[l] = links[l]
    BY <1>1, <2>1 DEF CopyLevel1, CopyLevel2, TypeOK, Levels
  <2>4. UntouchedLists' /\ ForwardLists' /\ BackwardLists'
    BY <2>1, <2>3 DEF UntouchedLists, ForwardLists, BackwardLists, Levels
  <2> QED BY <2>2, <2>4
<1>2. CASE StartForward
  <2>1. \A t \in Threads : pc'[t] = "idle"
    BY <1>2 DEF StartForward, TypeOK, Control, ThreadOK, thread
  <2>2. SearchResults'
    BY <1>2, <2>1 DEF StartForward, SearchResults, thread
  <2>3. Candidates'
    BY <1>2, <2>1 DEF StartForward, Candidates, NoCandidates, thread
  <2>4. UntouchedLists'
    BY <1>2, <2>1 DEF StartForward, UntouchedLists, Levels, TypeOK
  <2>5. ForwardLists'
    BY <1>2, <2>1 DEF StartForward, UntouchedLists, ForwardLists, Done, thread, Levels, TypeOK
  <2>6. BackwardLists'
    BY <1>2, <2>1 DEF StartForward, UntouchedLists, BackwardLists, Done, thread, Levels, TypeOK
  <2> QED BY <2>2, <2>3, <2>4, <2>5, <2>6
<1>3. CASE StartBackward
  <2>1. \A t \in Threads : pc[t] = "idle"
    BY <1>3 DEF StartBackward, AllIdle
  <2>2. SearchResults'
    BY <1>3, <2>1 DEF StartBackward, SearchResults, Search, thread
  <2>3. \A j \in Ids(index2) : candidateSetIndex2[j] = Backward(j)
    BY <1>3, <2>1 DEF StartBackward, Candidates, Backward, TypeOK
  <2>4. Candidates'
    BY <1>3, <2>3 DEF StartBackward, Candidates, Backward, Search
  <2>5. UntouchedLists'
    BY <1>3 DEF StartBackward, UntouchedLists
  <2>6. ForwardLists'
    <3>1. \A i \in Ids(index1) : Done(i)
      BY <1>3, <2>1 DEF StartBackward, Done
    <3>2. \A i \in Ids(index1) : NewLinks1(i)' = NewLinks1(i)
      BY <1>3, ResultFrame DEF StartBackward
    <3> QED BY <1>3, <3>1, <3>2 DEF StartBackward, ForwardLists
  <2>7. BackwardLists'
    <3>1. \A j \in Layer2 : ~ Done(j)'
      BY <1>3 DEF StartBackward, Done
    <3> QED BY <1>3, <3>1 DEF StartBackward, BackwardLists
  <2> QED BY <2>2, <2>4, <2>5, <2>6, <2>7
<1>4. CASE EndLevel
  <2>1. phase' = "level" /\ level' = level - 1 /\ level \in Nat /\ links' = links
    BY <1>4 DEF EndLevel, TypeOK, Control, LoopOK
  <2>2. SearchResults' /\ Candidates'
    BY <2>1 DEF SearchResults, Candidates
  <2>3. UntouchedLists' /\ ForwardLists' /\ BackwardLists'
    BY <2>1 DEF UntouchedLists, ForwardLists, BackwardLists, Levels
  <2> QED BY <2>2, <2>3
<1> QED BY <1>1, <1>2, <1>3, <1>4 DEF Master

\* The forward loop.
LEMMA ForwardResult ==
  ASSUME NEW t \in Threads, TypeInv, ResultInv,
         SearchForward(t) \/ LockCandidates(t) \/ PushCandidate(t) \/ WriteForward(t)
  PROVE  ResultInv'
<1> USE IndexFacts, ThreadsAssumption DEF TypeInv, ResultInv
<1>0. /\ input' = input /\ level' = level /\ phase' = phase /\ entryAbove' = entryAbove
      /\ phase = "forward" /\ level \in Levels(index2)
  BY DEF SearchForward, LockCandidates, PushCandidate, WriteForward, Control, LoopOK, ThreadOK,
         TypeOK, Levels
<1> USE <1>0, InputFrame, ResultFrame
<1>1. CASE SearchForward(t)
  <2>1. PICK i \in todo :
          LET res == Forward(index1, index2, entryPoint[i], level, i)
          IN  /\ todo' = todo \ {i}
              /\ cur' = [cur EXCEPT ![t] = i]
              /\ top' = [top EXCEPT ![t] = res.top]
              /\ rest' = [rest EXCEPT ![t] = res.top]
              /\ entryPoint' = [entryPoint EXCEPT ![i] = res.ep]
    BY <1>1 DEF SearchForward
  <2>2. i \in Layer1 /\ i \in Ids(index1) /\ entryPoint[i] = entryAbove[i]
    BY DEF Control, LoopOK, SearchResults
  <2>3. Forward(index1, index2, entryPoint[i], level, i) = Search(i)
    BY <2>2 DEF Search
  <2>4. /\ pc[t] = "idle" /\ pc' = [pc EXCEPT ![t] = "push"]
        /\ links' = links /\ candidateSetIndex2' = candidateSetIndex2 /\ nbr' = nbr
    BY <1>1 DEF SearchForward
  <2> USE <2>2, <2>4
  <2>5. /\ todo' = todo \ {i}
        /\ cur' = [cur EXCEPT ![t] = i]
        /\ top' = [top EXCEPT ![t] = Search(i).top]
        /\ rest' = [rest EXCEPT ![t] = Search(i).top]
        /\ entryPoint' = [entryPoint EXCEPT ![i] = Search(i).ep]
    BY <2>1, <2>3
  <2>6. SearchResults'
    BY <2>5, SMTT(30) DEF SearchResults, Search, TypeOK, Control, ThreadOK
  <2>7. Candidates'
    <3> SUFFICES ASSUME NEW k \in Ids(index1), NEW j \in Ids(index2)
                 PROVE  k \in candidateSetIndex2[j] <=>
                          /\ k \in Layer1 \ todo' /\ j \in Search(k).top
                          /\ \A u \in Threads : pc'[u] # "idle" /\ cur'[u] = k => ~ Pending(u, j)'
      BY DEF Candidates, Search
    <3>1. k \in candidateSetIndex2[j] <=>
            /\ k \in Layer1 \ todo /\ j \in Search(k).top
            /\ \A u \in Threads : pc[u] # "idle" /\ cur[u] = k => ~ Pending(u, j)
      BY DEF Candidates
    <3>2. CASE k = i
      <4>1. pc'[t] = "push" /\ cur'[t] = i /\ rest'[t] = Search(i).top
        BY <2>5 DEF TypeOK
      <4>2. j \in Search(i).top => Pending(t, j)'
        BY <4>1 DEF Pending
      <4> QED BY <3>1, <3>2, <4>1, <4>2
    <3>3. CASE k # i
      <4>1. \A u \in Threads : pc'[u] # "idle" /\ cur'[u] = k <=> pc[u] # "idle" /\ cur[u] = k
        BY <2>5, <3>3 DEF TypeOK
      <4>2. \A u \in Threads \ {t} : Pending(u, j)' <=> Pending(u, j)
        BY <2>5 DEF Pending, TypeOK
      <4>3. cur'[t] # k
        BY <2>5, <3>3 DEF TypeOK
      <4> QED BY <2>5, <3>1, <3>3, <4>1, <4>2, <4>3
    <3> QED BY <3>2, <3>3
  <2>8. \A n \in Ids(index1) : Done(n)' <=> Done(n)
    BY <2>5 DEF Done, TypeOK
  <2>9. UntouchedLists' /\ ForwardLists' /\ BackwardLists'
    BY <2>8 DEF UntouchedLists, ForwardLists, BackwardLists
  <2> QED BY <2>6, <2>7, <2>9
<1>2. CASE LockCandidates(t)
  <2>1. SearchResults'
    BY <1>2, SMTT(30) DEF LockCandidates, SearchResults, Search, TypeOK
  <2>2. \A u \in Threads, j \in Ids(index2) : Pending(u, j)' <=> Pending(u, j)
    BY <1>2, SMTT(30) DEF LockCandidates, Pending, TypeOK
  <2>3. Candidates'
    BY <1>2, <2>2, SMTT(30) DEF LockCandidates, Candidates, Search, TypeOK
  <2>4. \A n \in Ids(index1) : Done(n)' <=> Done(n)
    BY <1>2 DEF LockCandidates, Done, TypeOK
  <2>5. UntouchedLists' /\ ForwardLists' /\ BackwardLists'
    BY <1>2, <2>4 DEF LockCandidates, UntouchedLists, ForwardLists, BackwardLists
  <2> QED BY <2>1, <2>3, <2>5
<1>3. CASE PushCandidate(t)
  <2>1. SearchResults'
    BY <1>3 DEF PushCandidate, SearchResults, Search, TypeOK
  <2>2. Candidates'
    <3> SUFFICES ASSUME NEW k \in Ids(index1), NEW j \in Ids(index2)
                 PROVE  k \in candidateSetIndex2'[j] <=>
                          /\ k \in Layer1 \ todo' /\ j \in Search(k).top
                          /\ \A u \in Threads : pc'[u] # "idle" /\ cur'[u] = k => ~ Pending(u, j)'
      BY DEF Candidates, Search
    <3>1. k \in candidateSetIndex2[j] <=>
            /\ k \in Layer1 \ todo /\ j \in Search(k).top
            /\ \A u \in Threads : pc[u] # "idle" /\ cur[u] = k => ~ Pending(u, j)
      BY DEF Candidates
    <3>2. /\ todo' = todo
          /\ \A u \in Threads : pc'[u] # "idle" /\ cur'[u] = k <=> pc[u] # "idle" /\ cur[u] = k
      BY <1>3 DEF PushCandidate, TypeOK
    <3>3. \A u \in Threads : u # t => (Pending(u, j)' <=> Pending(u, j))
      BY <1>3 DEF PushCandidate, Pending, TypeOK
    <3>4. /\ pc[t] = "locked" /\ seen[t] = candidateSetIndex2[nbr[t]]
          /\ nbr[t] \in top[t] \ rest[t] /\ cur[t] \in Layer1 \ todo
          /\ top[t] = Search(cur[t]).top
      BY <1>3 DEF PushCandidate, Control, ThreadOK, SearchResults
    <3>5. Pending(t, j)' <=> Pending(t, j) /\ j # nbr[t]
      BY <1>3, <3>4 DEF PushCandidate, Pending, TypeOK
    <3>6. k \in candidateSetIndex2'[j] <=>
            k \in candidateSetIndex2[j] \/ (j = nbr[t] /\ k = cur[t])
      BY <1>3, <3>4 DEF PushCandidate, TypeOK
    <3>7. k = cur[t] => \A u \in Threads : pc[u] # "idle" /\ cur[u] = k => u = t
      BY <3>4 DEF Control, Apart
    <3>8. CASE j = nbr[t] /\ k = cur[t]
      BY <3>2, <3>4, <3>5, <3>6, <3>7, <3>8
    <3>9. CASE ~ (j = nbr[t] /\ k = cur[t])
      BY <3>1, <3>2, <3>3, <3>4, <3>5, <3>6, <3>9
    <3> QED BY <3>8, <3>9
  <2>3. \A n \in Ids(index1) : Done(n)' <=> Done(n)
    BY <1>3 DEF PushCandidate, Done, TypeOK
  <2>4. UntouchedLists' /\ ForwardLists' /\ BackwardLists'
    BY <1>3, <2>3 DEF PushCandidate, UntouchedLists, ForwardLists, BackwardLists
  <2> QED BY <2>1, <2>2, <2>4
<1>4. CASE WriteForward(t)
  <2>1. cur[t] \in Layer1 \ todo /\ cur[t] \in Ids(index1) /\ top[t] = Search(cur[t]).top
    BY <1>4 DEF WriteForward, Control, ThreadOK, SearchResults
  <2>2. SearchResults'
    BY <1>4 DEF WriteForward, SearchResults, Search, TypeOK
  <2>3. Candidates'
    <3> SUFFICES ASSUME NEW k \in Ids(index1), NEW j \in Ids(index2)
                 PROVE  k \in candidateSetIndex2[j] <=>
                          /\ k \in Layer1 \ todo /\ j \in Search(k).top
                          /\ \A u \in Threads : pc'[u] # "idle" /\ cur'[u] = k => ~ Pending(u, j)'
      BY <1>4 DEF WriteForward, Candidates, Search
    <3>1. k \in candidateSetIndex2[j] <=>
            /\ k \in Layer1 \ todo /\ j \in Search(k).top
            /\ \A u \in Threads : pc[u] # "idle" /\ cur[u] = k => ~ Pending(u, j)
      BY DEF Candidates
    <3>2. pc'[t] = "idle" /\ ~ Pending(t, j)
      BY <1>4 DEF WriteForward, Pending, TypeOK
    <3>3. \A u \in Threads : u # t =>
            pc'[u] = pc[u] /\ cur'[u] = cur[u] /\ (Pending(u, j)' <=> Pending(u, j))
      BY <1>4 DEF WriteForward, Pending, TypeOK
    <3> QED BY <3>1, <3>2, <3>3
  <2>4. links' = [links EXCEPT ![level][cur[t]] = NewLinks1(cur[t])]
    BY <1>4, <2>1 DEF WriteForward, NewLinks1
  <2>5. \A n \in Ids(index1) : Done(n)' <=> (Done(n) \/ n = cur[t])
    <3>1. /\ pc[t] # "idle" /\ pc'[t] = "idle" /\ todo' = todo
          /\ \A u \in Threads : u # t => pc'[u] = pc[u] /\ cur'[u] = cur[u]
      BY <1>4 DEF WriteForward, TypeOK
    <3>2. \A u \in Threads : u # t /\ pc[u] # "idle" => cur[u] # cur[t]
      BY <3>1 DEF Control, Apart
    <3> QED BY <2>1, <3>1, <3>2 DEF Done
  <2>6. UntouchedLists'
    BY <2>4 DEF UntouchedLists, TypeOK
  <2>7. ForwardLists'
    BY <2>1, <2>4, <2>5 DEF ForwardLists, TypeOK
  <2>8. BackwardLists'
    BY <2>1, <2>4 DEF BackwardLists, TypeOK
  <2> QED BY <2>2, <2>3, <2>6, <2>7, <2>8
<1> QED BY <1>1, <1>2, <1>3, <1>4

\* The backward loop.
LEMMA BackwardResult ==
  ASSUME NEW t \in Threads, TypeInv, ResultInv, TakeBackward(t) \/ WriteBackward(t)
  PROVE  ResultInv'
<1> USE IndexFacts DEF TypeInv, ResultInv
<1>0. /\ input' = input /\ level' = level /\ phase' = phase /\ entryAbove' = entryAbove
      /\ phase = "backward" /\ level \in Levels(index2)
      /\ candidateSetIndex2' = candidateSetIndex2 /\ entryPoint' = entryPoint
  BY DEF TakeBackward, WriteBackward, Control, LoopOK, ThreadOK, TypeOK, Levels
<1> USE <1>0, InputFrame, ResultFrame
<1>1. SearchResults' /\ Candidates'
  <2>1. \A u \in Threads : pc'[u] \notin {"push", "locked"}
    BY DEF TakeBackward, WriteBackward, TypeOK, Control, ThreadOK
  <2> QED BY <2>1 DEF SearchResults, Candidates
<1>2. CASE TakeBackward(t)
  <2>1. \A j \in Ids(index2) : Done(j)' <=> Done(j)
    BY <1>2 DEF TakeBackward, Done, TypeOK
  <2>2. UntouchedLists' /\ ForwardLists' /\ BackwardLists'
    BY <1>2, <2>1 DEF TakeBackward, UntouchedLists, ForwardLists, BackwardLists
  <2> QED BY <1>1, <2>2
<1>3. CASE WriteBackward(t)
  <2>1. /\ cur[t] \in Layer2 \ todo /\ cur[t] \in Ids(index2) /\ seen[t] = Backward(cur[t])
    BY <1>3 DEF WriteBackward, Control, ThreadOK, Candidates
  <2>2. links' = [links EXCEPT ![level][cur[t] + off] = NewLinks2(cur[t])]
    BY <1>3, <2>1 DEF WriteBackward, NewLinks2
  <2>3. \A j \in Ids(index2) : Done(j)' <=> (Done(j) \/ j = cur[t])
    <3>1. /\ pc[t] # "idle" /\ pc'[t] = "idle" /\ todo' = todo
          /\ \A u \in Threads : u # t => pc'[u] = pc[u] /\ cur'[u] = cur[u]
      BY <1>3 DEF WriteBackward, TypeOK
    <3>2. \A u \in Threads : u # t /\ pc[u] # "idle" => cur[u] # cur[t]
      BY <3>1 DEF Control, Apart
    <3> QED BY <2>1, <3>1, <3>2 DEF Done
  <2>4. UntouchedLists'
    <3>1. \A l \in Levels(index2) : l # level => links'[l] = links[l]
      BY <2>2 DEF TypeOK
    <3> QED BY <3>1 DEF UntouchedLists, Levels
  <2>5. ForwardLists'
    BY <2>1, <2>2 DEF ForwardLists, TypeOK
  <2>6. BackwardLists'
    BY <2>1, <2>2, <2>3 DEF BackwardLists, TypeOK
  <2> QED BY <1>1, <2>4, <2>5, <2>6
<1> QED BY <1>2, <1>3

\* Master, threads and stuttering together: ResultInv is inductive, given
\* TypeInv.
LEMMA ResultStep == TypeInv /\ ResultInv /\ [Next]_vars => ResultInv'
<1> SUFFICES ASSUME TypeInv, ResultInv, [Next]_vars PROVE ResultInv'
  OBVIOUS
<1>1. CASE Master
  BY <1>1, MasterResult
<1>2. ASSUME NEW t \in Threads, Worker(t) PROVE ResultInv'
  BY <1>2, ForwardResult, BackwardResult DEF Worker
<1>3. CASE UNCHANGED vars
  BY <1>3, InputFrame, ResultFrame
  DEF ResultInv, SearchResults, Candidates, UntouchedLists, ForwardLists, BackwardLists, Pending,
      Done, Search, vars, thread, TypeInv, TypeOK, Control, ThreadOK
<1> QED BY <1>1, <1>2, <1>3 DEF Next, Returned

\* At every moment each candidate set and each list holds exactly what the
\* inputs and the entry points of the level above determine.
THEOREM ResultInvariant == Spec => []ResultInv
BY InitResult, ResultStep, TypeInvariant, PTL DEF Spec

-------------------------------------------------------------------------------

(* The parallel merge is the sequential one: every step is a step of MergeSpec
   or does not show there. *)

\* The operators MergeSpec reads from MergeLevel are those HNSWMerge reads.
LEMMA SameOperators ==
  /\ \A a : Sequential!Ids(a) = Ids(a)
  /\ \A a : Sequential!Levels(a) = Levels(a)
  /\ \A a : Sequential!Offset(a) = Offset(a)
  /\ Sequential!NoEntry = NoEntry
  /\ \A a, b : Sequential!MergedIds(a, b) = MergedIds(a, b)
  /\ \A a, b : Sequential!LayerNodes(a, b) = LayerNodes(a, b)
  /\ \A a, b : Sequential!Shift(a, b) = Shift(a, b)
  /\ \A a, b : Sequential!Mcurmax(a, b) = Mcurmax(a, b)
  /\ \A a, b : Sequential!MergedData(a, b) = MergedData(a, b)
  /\ \A a, b : Sequential!CopiedLinks(a, b) = CopiedLinks(a, b)
  /\ \A a, b, c : Sequential!HigherLevel(a, b, c) = HigherLevel(a, b, c)
  /\ \A a, b, c : Sequential!OldLinks1(a, b, c) = OldLinks1(a, b, c)
  /\ \A a, b, c, d : Sequential!OldLinks2(a, b, c, d) = OldLinks2(a, b, c, d)
  /\ \A a, b, c, d, e : Sequential!Forward(a, b, c, d, e) = Forward(a, b, c, d, e)
  /\ \A a : Sequential!Cardinality(a) = Cardinality(a)
  /\ \A a, b, c, d, e : Sequential!Connect(a, b, c, d, e) = Connect(a, b, c, d, e)
  /\ \A a, b, c, d, e : Sequential!ConnectBackward(a, b, c, d, e) = ConnectBackward(a, b, c, d, e)
<1>1. \A a : Sequential!Ids(a) = Ids(a)
  BY Zenon DEF Ids, Sequential!Ids
<1>2. \A a : Sequential!Levels(a) = Levels(a)
  BY Zenon DEF Levels, Sequential!Levels
<1>3. \A a : Sequential!Offset(a) = Offset(a)
  BY Zenon DEF Offset, Sequential!Offset
<1>4. Sequential!NoEntry = NoEntry
  BY Zenon DEF NoEntry, Sequential!NoEntry
<1>5. \A a, b : Sequential!MergedIds(a, b) = MergedIds(a, b)
  BY Zenon DEF MergedIds, Sequential!MergedIds
<1>6. \A a, b : Sequential!LayerNodes(a, b) = LayerNodes(a, b)
  BY Zenon DEF LayerNodes, Sequential!LayerNodes, Ids, Sequential!Ids
<1>7. \A a, b : Sequential!Shift(a, b) = Shift(a, b)
  BY Zenon DEF Shift, Sequential!Shift
<1>8. \A a, b : Sequential!Mcurmax(a, b) = Mcurmax(a, b)
  BY Zenon DEF Mcurmax, Sequential!Mcurmax
<1>9. \A a, b : Sequential!MergedData(a, b) = MergedData(a, b)
  BY Zenon DEF MergedData, Sequential!MergedData, MergedIds, Sequential!MergedIds, Offset, Sequential!Offset
<1>10. \A a, b : Sequential!CopiedLinks(a, b) = CopiedLinks(a, b)
  BY Zenon DEF CopiedLinks, Sequential!CopiedLinks, Levels, Sequential!Levels, MergedIds, Sequential!MergedIds, Offset, Sequential!Offset
<1>11. \A a, b, c : Sequential!HigherLevel(a, b, c) = HigherLevel(a, b, c)
  BY Zenon DEF HigherLevel, Sequential!HigherLevel, NoEntry, Sequential!NoEntry
<1>12. \A a, b, c : Sequential!OldLinks1(a, b, c) = OldLinks1(a, b, c)
  BY Zenon DEF OldLinks1, Sequential!OldLinks1
<1>13. \A a, b, c, d : Sequential!OldLinks2(a, b, c, d) = OldLinks2(a, b, c, d)
  BY Zenon DEF OldLinks2, Sequential!OldLinks2, Offset, Sequential!Offset, Shift, Sequential!Shift
<1>14. \A a, b, c, d, e : Sequential!Forward(a, b, c, d, e) = Forward(a, b, c, d, e)
  BY Zenon DEF Forward, Sequential!Forward, HigherLevel, Sequential!HigherLevel, NoEntry, Sequential!NoEntry
<1>15. \A a : Sequential!Cardinality(a) = Cardinality(a)
  BY Zenon DEF Cardinality, Sequential!Cardinality
<1>16. \A a, b, c, d, e : Sequential!Connect(a, b, c, d, e) = Connect(a, b, c, d, e)
  BY <1>8, <1>15, SMT DEF Connect, Sequential!Connect
<1>17. \A a, b, c, d, e : Sequential!ConnectBackward(a, b, c, d, e) = ConnectBackward(a, b, c, d, e)
  BY <1>16, SMT DEF ConnectBackward, Sequential!ConnectBackward
<1> QED BY <1>1, <1>2, <1>3, <1>4, <1>5, <1>6, <1>7, <1>8, <1>9, <1>10, <1>11, <1>12, <1>13, <1>14, <1>15, <1>16, <1>17

\* What MergeSpec sees of a state of HNSWMerge
seenLinks == [l \in Levels(index2) |->
                IF unmerged /\ l = level THEN CopiedLinks(index1, index2)[l] ELSE links[l]]
seenEntry == IF unmerged THEN entryAbove ELSE entryPoint

\* Inputs, layers and searches of MergeSpec under the mapping are those of
\* HNSWMerge, from the entry points it sees.
LEMMA SameState ==
  /\ Sequential!index1 = index1 /\ Sequential!index2 = index2 /\ Sequential!off = off
  /\ Sequential!Layer1 = Layer1 /\ Sequential!Layer2 = Layer2
  /\ \A i : Sequential!Search(i) = Forward(index1, index2, seenEntry[i], level, i)
  /\ \A j : Sequential!Backward(j) = {i \in Layer1 : j \in Sequential!Search(i).top}
<1>1. Sequential!index1 = index1 /\ Sequential!index2 = index2
  BY DEF Sequential!index1, Sequential!index2, index1, index2
<1>2. Sequential!Layer1 = Layer1 /\ Sequential!Layer2 = Layer2 /\ Sequential!off = off
  BY <1>1, SameOperators
  DEF Sequential!Layer1, Sequential!Layer2, Sequential!off, Layer1, Layer2, off
<1>3. \A i : Sequential!Search(i) = Forward(index1, index2, seenEntry[i], level, i)
  BY <1>1, SameOperators DEF Sequential!Search, seenEntry, unmerged
<1>4. \A j : Sequential!Backward(j) = {i \in Layer1 : j \in Sequential!Search(i).top}
  BY <1>2 DEF Sequential!Backward
<1> QED BY <1>1, <1>2, <1>3, <1>4

\* The refinement mapping takes initial states to initial states.
LEMMA InitRefines == TypeInv /\ Init => Sequential!Init
<1> SUFFICES ASSUME TypeInv, Init PROVE Sequential!Init
  OBVIOUS
<1>1. seenLinks = CopiedLinks(index1, index2)
  BY DEF Init, seenLinks, unmerged, CopiedLinks
<1>2. seenEntry = [i \in Ids(index1) |-> NoEntry]
  BY DEF Init, seenEntry, unmerged
<1> QED
  BY <1>1, <1>2, SameOperators, SameState
  DEF Sequential!Init, Init, seenLinks, seenEntry

\* Between two levels MergeSpec sees the very lists and entry points.
LEMMA SeenAtLevel ==
  ASSUME TypeInv, phase = "level"
  PROVE  seenLinks = links /\ seenEntry = entryPoint
BY DEF TypeInv, TypeOK, seenLinks, seenEntry, unmerged

\* Copying a level is copying it there.
LEMMA CopyRefines ==
  ASSUME TypeInv, TypeInv', CopyLevel1 \/ CopyLevel2
  PROVE  Sequential!CopyLevel
<1> USE InputFrame, IndexFacts DEF TypeInv
<1>1. /\ input' = input /\ level' = level - 1 /\ phase' = "level" /\ phase = "level"
      /\ level >= 0 /\ entryPoint' = entryPoint
      /\ (Layer1 # {} /\ Layer2 = {}) \/ (Layer1 = {} /\ Layer2 # {})
  BY DEF CopyLevel1, CopyLevel2
<1>2. /\ seenLinks = links /\ seenLinks' = links'
      /\ seenEntry = entryPoint /\ seenEntry' = entryPoint'
  BY <1>1, SeenAtLevel DEF TypeOK, seenLinks, seenEntry, unmerged
<1> DEFINE copied == [n \in Merged |->
                        CASE n \in Layer1             -> OldLinks1(index1, level, n)
                          [] n \in Shift(Layer2, off) -> OldLinks2(index1, index2, level, n - off)
                          [] OTHER                    -> links[level][n]]
<1>3. links' = [links EXCEPT ![level] = copied]
  <2>1. CASE CopyLevel1
    <3>1. Shift(Layer2, off) = {}
      BY <2>1 DEF CopyLevel1, Shift
    <3>2. copied = [n \in Merged |-> IF n \in Layer1 THEN OldLinks1(index1, level, n)
                                    ELSE links[level][n]]
      BY <3>1
    <3> HIDE DEF copied
    <3> QED BY <2>1, <3>2 DEF CopyLevel1, Merged
  <2>2. CASE CopyLevel2
    <3>1. copied = [n \in Merged |-> IF n \in Shift(Layer2, off)
                                    THEN OldLinks2(index1, index2, level, n - off)
                                    ELSE links[level][n]]
      BY <2>2 DEF CopyLevel2
    <3> HIDE DEF copied
    <3> QED BY <2>2, <3>1 DEF CopyLevel2, Merged
  <2> QED BY <2>1, <2>2
<1>4. copied = [n \in Sequential!MergedIds(Sequential!index1, Sequential!index2) |->
                  CASE n \in Sequential!Layer1 ->
                         Sequential!OldLinks1(Sequential!index1, level, n)
                    [] n \in Sequential!Shift(Sequential!Layer2, Sequential!off) ->
                         Sequential!OldLinks2(Sequential!index1, Sequential!index2, level,
                                              n - Sequential!off)
                    [] OTHER -> seenLinks[level][n]]
  BY <1>2, SameOperators, SameState DEF Merged
<1> HIDE DEF copied
<1>5. seenLinks' = [seenLinks EXCEPT ![level] = copied]
  BY <1>2, <1>3
<1>6. \/ Sequential!Layer1 # {} /\ Sequential!Layer2 = {}
      \/ Sequential!Layer1 = {} /\ Sequential!Layer2 # {}
  BY <1>1, SameState
<1> QED
  BY <1>1, <1>2, <1>4, <1>5, <1>6 DEF Sequential!CopyLevel, seenLinks, seenEntry

\* The end of the backward loop is the step that merges the level there.
LEMMA EndLevelRefines ==
  ASSUME TypeInv, ResultInv, TypeInv', EndLevel
  PROVE  Sequential!MergeOneLevel
<1> USE InputFrame, IndexFacts DEF TypeInv, ResultInv
<1>1. /\ input' = input /\ level' = level - 1 /\ phase = "backward" /\ phase' = "level"
      /\ level \in Levels(index2) /\ level >= 0 /\ links' = links /\ entryPoint' = entryPoint
      /\ (Layer1 = {}) <=> (Layer2 = {})
  BY SMTT(30) DEF EndLevel, Control, LoopOK, TypeOK, Levels
<1>2. seenLinks' = links /\ seenEntry' = entryPoint /\ seenEntry = entryAbove
  BY <1>1, SeenAtLevel DEF TypeOK, seenLinks, seenEntry, unmerged
<1>3. \A n : Done(n)
  BY DEF EndLevel, AllIdle, Done
<1>4. /\ \A i : Sequential!Search(i) = Search(i)
      /\ \A j : Sequential!Backward(j) = Backward(j)
  BY <1>2, SameState DEF Search, Backward
<1> DEFINE merged == [n \in Merged |->
                        CASE n \in Layer1             -> NewLinks1(n)
                          [] n \in Shift(Layer2, off) -> NewLinks2(n - off)
                          [] OTHER                    -> seenLinks[level][n]]
<1>5. seenLinks' = [seenLinks EXCEPT ![level] = merged]
  <2>1. \A l \in Levels(index2) : l # level => links[l] = seenLinks[l]
    BY DEF seenLinks
  <2>2. seenLinks[level] = CopiedLinks(index1, index2)[level]
    BY <1>1 DEF seenLinks, unmerged
  <2>3. ASSUME NEW n \in Merged PROVE links[level][n] = merged[n]
    <3>1. CASE n \in Ids(index1)
      <4>1. n \notin Shift(Layer2, off)
        BY <3>1 DEF Shift
      <4> QED BY <1>1, <1>3, <2>2, <3>1, <4>1 DEF ForwardLists
    <3>2. CASE n \notin Ids(index1)
      <4>1. n - off \in Ids(index2) /\ n \notin Layer1
        BY <3>2
      <4>2. (n - off) + off = n
        BY SMT DEF Merged, MergedIds
      <4>3. n \in Shift(Layer2, off) <=> n - off \in Layer2
        <5>1. \A j \in Ids(index2) : j + off \in Shift(Layer2, off) <=> j \in Layer2
          BY ShiftIds DEF off, index1, index2
        <5> QED BY <4>1, <4>2, <5>1
      <4> QED BY <1>1, <1>3, <2>2, <4>1, <4>2, <4>3 DEF BackwardLists
    <3> QED BY <3>1, <3>2
  <2>4. links[level] = merged
    BY <1>1, <2>3 DEF TypeOK
  <2> HIDE DEF merged
  <2>5. links = [l \in Levels(index2) |-> links[l]]
    BY DEF TypeOK
  <2> QED BY <1>1, <1>2, <2>1, <2>4, <2>5 DEF seenLinks
<1>6. merged = [n \in Sequential!MergedIds(Sequential!index1, Sequential!index2) |->
                  CASE n \in Sequential!Layer1 ->
                         Sequential!Connect(
                           Sequential!MergedData(Sequential!index1, Sequential!index2), level, n,
                           Sequential!Shift(Sequential!Search(n).top, Sequential!off),
                           Sequential!OldLinks1(Sequential!index1, level, n))
                    [] n \in Sequential!Shift(Sequential!Layer2, Sequential!off) ->
                         Sequential!ConnectBackward(
                           Sequential!MergedData(Sequential!index1, Sequential!index2), level, n,
                           Sequential!Backward(n - Sequential!off),
                           Sequential!OldLinks2(Sequential!index1, Sequential!index2, level,
                                                n - Sequential!off))
                    [] OTHER -> seenLinks[level][n]]
  <2>1. \A n \in Merged : (n - off) + off = n
    BY SMT DEF Merged, MergedIds
  <2> QED BY <1>4, <2>1, SameOperators, SameState DEF Merged, NewLinks1, NewLinks2, data
<1> HIDE DEF merged
<1>7. seenEntry' = [i \in Sequential!Ids(Sequential!index1) |->
                      IF i \in Sequential!Layer1 THEN Sequential!Search(i).ep ELSE seenEntry[i]]
  BY <1>1, <1>2, <1>4, SameOperators, SameState, SMTT(30) DEF SearchResults, TypeOK
<1>8. (Sequential!Layer1 = {}) <=> (Sequential!Layer2 = {})
  BY <1>1, SameState
<1> QED
  BY <1>1, <1>5, <1>6, <1>7, <1>8 DEF Sequential!MergeOneLevel, seenLinks, seenEntry

\* Every other step leaves alone what MergeSpec sees.
LEMMA StepRefines ==
  TypeInv /\ ResultInv /\ TypeInv' /\ [Next]_vars => [Sequential!Next]_(Sequential!vars)
<1> SUFFICES ASSUME TypeInv, ResultInv, TypeInv', [Next]_vars
             PROVE  [Sequential!Next]_(Sequential!vars)
  OBVIOUS
<1>1. CASE CopyLevel1 \/ CopyLevel2
  BY <1>1, CopyRefines DEF Sequential!Next
<1>2. CASE EndLevel
  BY <1>2, EndLevelRefines DEF Sequential!Next
<1>3. ASSUME input' = input, level' = level, seenLinks' = seenLinks, seenEntry' = seenEntry
      PROVE  [Sequential!Next]_(Sequential!vars)
  BY <1>3 DEF Sequential!vars, seenLinks, seenEntry
<1>4. CASE StartForward
  <2>1. seenLinks = links /\ seenEntry = entryPoint
    BY <1>4, SeenAtLevel DEF StartForward
  <2>2. /\ input' = input /\ level' = level /\ phase = "level" /\ phase' = "forward"
        /\ links' = links /\ entryPoint' = entryPoint /\ entryAbove' = entryPoint
        /\ level \in Levels(index2)
    BY <1>4 DEF StartForward, TypeInv, TypeOK, Levels
  <2>3. seenLinks' = seenLinks
    BY <2>1, <2>2, InputFrame
    DEF seenLinks, unmerged, ResultInv, UntouchedLists
  <2>4. seenEntry' = seenEntry
    BY <2>1, <2>2 DEF seenEntry, unmerged
  <2> QED BY <1>3, <2>2, <2>3, <2>4
<1>5. CASE StartBackward
  <2>1. seenLinks' = seenLinks /\ seenEntry' = seenEntry
    BY <1>5, InputFrame DEF StartBackward, seenLinks, seenEntry, unmerged
  <2> QED BY <1>3, <1>5, <2>1 DEF StartBackward
<1>6. ASSUME NEW t \in Threads, Worker(t) PROVE [Sequential!Next]_(Sequential!vars)
  <2>1. /\ input' = input /\ level' = level /\ phase' = phase /\ entryAbove' = entryAbove
    BY <1>6 DEF Worker, SearchForward, LockCandidates, PushCandidate, WriteForward,
                TakeBackward, WriteBackward
  <2>2. phase # "level"
    BY <1>6 DEF Worker, SearchForward, LockCandidates, PushCandidate, WriteForward,
                TakeBackward, WriteBackward, TypeInv, TypeOK, Control, ThreadOK
  <2>3. \A l \in Levels(index2) : l # level => links'[l] = links[l]
    BY <1>6 DEF Worker, SearchForward, LockCandidates, PushCandidate, WriteForward,
                TakeBackward, WriteBackward, TypeInv, TypeOK
  <2>4. seenLinks' = seenLinks /\ seenEntry' = seenEntry
    BY <2>1, <2>2, <2>3, InputFrame DEF seenLinks, seenEntry, unmerged
  <2> QED BY <1>3, <2>1, <2>4
<1>7. CASE UNCHANGED vars
  <2>1. seenLinks' = seenLinks /\ seenEntry' = seenEntry
    BY <1>7, InputFrame DEF vars, seenLinks, seenEntry, unmerged
  <2> QED BY <1>3, <1>7, <2>1 DEF vars
<1> QED BY <1>1, <1>2, <1>4, <1>5, <1>6, <1>7 DEF Next, Master, Returned

\* The schedule of the threads has no influence on the merged lists: the
\* parallel merge implements the sequential one.
THEOREM Refinement == Spec => RefinesMergeSpec
BY InitRefines, StepRefines, InitType, TypeInvariant, ResultInvariant, PTL
DEF RefinesMergeSpec, Spec, Sequential!Spec

-------------------------------------------------------------------------------

\* Every list of index1 that the backward loop can meet has offered its edges.
THEOREM EdgesOffered == Spec => []EveryForwardEdgeOffered
<1>1. TypeInv /\ ResultInv => EveryForwardEdgeOffered
  <2> SUFFICES ASSUME TypeInv, ResultInv, phase = "backward",
                      NEW i \in Layer1, NEW j \in Layer2, j + off \in links[level][i]
               PROVE  i \in candidateSetIndex2[j]
    BY DEF EveryForwardEdgeOffered
  <2> USE IndexFacts DEF TypeInv
  <2>1. /\ level \in Nat /\ i \in Ids(index1) /\ j \in Ids(index2) /\ i \in Merged
        /\ level \in Levels(index2)
    BY DEF TypeOK, Control, LoopOK, Levels
  <2>2. j + off \in NewLinks1(i)
    BY <2>1 DEF ResultInv, ForwardLists
  <2>3. Search(i).top \in SUBSET Ids(index2)
    <3>1. entryAbove[i] \in Entries(level)
      BY <2>1 DEF Control, EntriesOK
    <3> QED BY <2>1, <3>1, ForwardFacts DEF Entries, Search, LayerNodes, index1, index2
  <2> DEFINE cands == Shift(Search(i).top, off)
             old == OldLinks1(index1, level, i)
  <2>4. cands \in SUBSET Merged
    BY <2>3, ShiftIds DEF Merged, index1, index2, off
  <2>5. old \in SUBSET Ids(index1)
    <3>1. index1.element_levels_[i] >= level
      BY DEF Layer1, LayerNodes
    <3> QED BY <2>1, <3>1, OldLinksFacts DEF index1
  <2>6. NewLinks1(i) \subseteq cands \cup old
    <3> HIDE DEF cands, old
    <3>1. Connect(data, level, i, cands, old) \subseteq cands \cup old
      BY <2>1, <2>4, <2>5, ConnectFacts DEF data, Merged, index1, index2
    <3> QED BY <3>1 DEF NewLinks1, cands, old
  <2>7. j + off \in cands
    BY <2>1, <2>2, <2>5, <2>6
  <2>8. j \in Search(i).top
    BY <2>1, <2>3, <2>7, ShiftIds DEF index1, index2, off
  <2> QED BY <2>1, <2>8 DEF ResultInv, Candidates, Backward
<1> QED BY <1>1, TypeInvariant, ResultInvariant, PTL

\* A list of level l is sound for element n
Sound(l, n, list) == \A c \in list : c # n /\ mergedLevels[c] >= l

\* The levels of the result are those of the inputs.
LEMMA LevelFacts ==
  ASSUME input \in Pairs
  PROVE  /\ \A n \in Ids(index1) : mergedLevels[n] = index1.element_levels_[n]
         /\ \A j \in Ids(index2) : mergedLevels[j + off] = index2.element_levels_[j]
<1> USE IndexFacts
<1>1. \A n \in Ids(index1) : mergedLevels[n] = index1.element_levels_[n]
  BY DEF mergedLevels, MergedLevels, Merged, off
<1>2. ASSUME NEW j \in Ids(index2) PROVE mergedLevels[j + off] = index2.element_levels_[j]
  <2>1. j + off \in Merged /\ ~ (j + off < off) /\ (j + off) - off = j
    OBVIOUS
  <2> QED BY <2>1 DEF mergedLevels, MergedLevels, Merged, off
<1> QED BY <1>1, <1>2

\* The old list of an element of index2, under the ids of the result.
LEMMA OldLinks2Facts ==
  ASSUME input \in Pairs, NEW l \in Nat, NEW j \in Ids(index2),
         index2.element_levels_[j] >= l
  PROVE  \A x \in OldLinks2(index1, index2, l, j) :
           /\ x \in Merged /\ x # j + off /\ x - off \in Ids(index2)
           /\ index2.element_levels_[x - off] >= l
<1> DEFINE p == input
<1>1. \A x \in OldLinks2(p[1], p[2], l, j) :
        /\ x \in MergedIds(p[1], p[2])
        /\ x # j + Offset(p[1]) /\ x - Offset(p[1]) \in Ids(p[2])
        /\ p[2].element_levels_[x - Offset(p[1])] >= l
  <2>1. p \in Pairs /\ j \in Ids(p[2]) /\ p[2].element_levels_[j] >= l
    BY DEF index2
  <2> HIDE DEF p
  <2> QED BY <2>1, OldLinksFacts
<1> QED BY <1>1 DEF index1, index2, off, Merged

\* Candidates found by a search, and old neighbours, are sound.
LEMMA SoundLists ==
  ASSUME input \in Pairs, NEW l \in Nat
  PROVE  /\ \A i \in LayerNodes(index1, l), T \in SUBSET LayerNodes(index2, l) :
              Sound(l, i, Shift(T, off) \cup OldLinks1(index1, l, i))
         /\ \A j \in LayerNodes(index2, l), T \in SUBSET LayerNodes(index1, l) :
              Sound(l, j + off, T \cup OldLinks2(index1, index2, l, j))
<1> USE IndexFacts, LevelFacts
<1>1. ASSUME NEW i \in LayerNodes(index1, l), NEW T \in SUBSET LayerNodes(index2, l),
             NEW c \in Shift(T, off) \cup OldLinks1(index1, l, i)
      PROVE  c # i /\ mergedLevels[c] >= l
  <2>1. i \in Ids(index1) /\ index1.element_levels_[i] >= l
    BY DEF LayerNodes
  <2>2. CASE c \in OldLinks1(index1, l, i)
    <3> PICK p : p = input /\ p \in Pairs
      OBVIOUS
    <3>1. OldLinks1(p[1], l, i) \in SUBSET Ids(p[1])
          /\ \A x \in OldLinks1(p[1], l, i) : x # i /\ p[1].element_levels_[x] >= l
      <4>1. i \in Ids(p[1]) /\ p[1].element_levels_[i] >= l
        BY <2>1, Zenon DEF index1
      <4> QED BY <4>1, OldLinksFacts, ZenonT(30)
    <3>2. OldLinks1(index1, l, i) \in SUBSET Ids(index1)
          /\ \A x \in OldLinks1(index1, l, i) : x # i /\ index1.element_levels_[x] >= l
      BY <3>1, Zenon DEF index1
    <3> QED BY <2>2, <3>2
  <2>3. CASE c \in Shift(T, off)
    <3>1. PICK j \in T : c = j + off
      BY <2>3 DEF Shift
    <3>2. j \in Ids(index2) /\ index2.element_levels_[j] >= l
      BY DEF LayerNodes
    <3> QED BY <2>1, <3>1, <3>2
  <2> QED BY <2>2, <2>3
<1>2. ASSUME NEW j \in LayerNodes(index2, l), NEW T \in SUBSET LayerNodes(index1, l),
             NEW c \in T \cup OldLinks2(index1, index2, l, j)
      PROVE  c # j + off /\ mergedLevels[c] >= l
  <2>1. j \in Ids(index2) /\ index2.element_levels_[j] >= l
    BY DEF LayerNodes
  <2>2. CASE c \in T
    <3>1. c \in Ids(index1) /\ index1.element_levels_[c] >= l
      BY <2>2 DEF LayerNodes
    <3> QED BY <2>1, <3>1
  <2>3. CASE c \in OldLinks2(index1, index2, l, j)
    <3>1. /\ c # j + off /\ c - off \in Ids(index2)
          /\ index2.element_levels_[c - off] >= l /\ c \in Merged
      BY <2>1, <2>3, OldLinks2Facts
    <3>2. (c - off) + off = c
      BY <3>1, SMT DEF Merged, MergedIds
    <3>3. mergedLevels[(c - off) + off] = index2.element_levels_[c - off]
      BY <3>1
    <3> QED BY <3>1, <3>2, <3>3
  <2> QED BY <2>2, <2>3
<1> QED BY <1>1, <1>2 DEF Sound

\* A live element below a level has an empty list there.
LEMMA BelowLevel ==
  ASSUME TypeInv, level \in Nat, level \in Levels(index2),
         NEW n \in Merged \ mergedDeleted,
         n \notin Layer1, n \notin Shift(Layer2, off)
  PROVE  CopiedLinks(index1, index2)[level][n] = {}
<1> USE IndexFacts DEF TypeInv
<1>1. level > 0
  <2>1. CASE n \in Ids(index1)
    <3>1. n \notin index1.deleted
      BY DEF mergedDeleted, MergedDeleted
    <3>2. ~ (index1.element_levels_[n] >= level)
      BY <2>1, <3>1 DEF Layer1, LayerNodes
    <3> QED BY <2>1, <3>2
  <2>2. CASE n \notin Ids(index1)
    <3>1. n - off \in Ids(index2) /\ (n - off) + off = n
      BY <2>2, SMT DEF Merged, MergedIds
    <3>2. n - off \notin index2.deleted /\ n - off \notin Layer2
      BY <3>1 DEF mergedDeleted, MergedDeleted, Shift, off
    <3>3. ~ (index2.element_levels_[n - off] >= level)
      BY <3>1, <3>2 DEF Layer2, LayerNodes
    <3> QED BY <3>1, <3>3
  <2> QED BY <2>1, <2>2
<1> QED BY <1>1 DEF CopiedLinks, Merged

\* Once a level is merged or copied, live elements below it have empty lists
\* there.
LEMMA LevelEmpty ==
  ASSUME TypeInv, ResultInv, CopyLevel1 \/ CopyLevel2 \/ EndLevel,
         NEW n \in Merged \ mergedDeleted, n \notin Layer1, n \notin Shift(Layer2, off)
  PROVE  links'[level][n] = {}
<1> USE IndexFacts DEF TypeInv
<1>1. level \in Nat /\ level \in Levels(index2)
  BY DEF CopyLevel1, CopyLevel2, EndLevel, TypeOK, Control, LoopOK, Levels
<1>2. CASE CopyLevel1 \/ CopyLevel2
  <2>1. links'[level][n] = links[level][n]
    BY <1>1, <1>2 DEF CopyLevel1, CopyLevel2, TypeOK, Merged
  <2>2. links[level] = CopiedLinks(index1, index2)[level]
    BY <1>1, <1>2 DEF CopyLevel1, CopyLevel2, ResultInv, UntouchedLists
  <2> QED BY <1>1, <2>1, <2>2, BelowLevel
<1>3. CASE EndLevel
  <2>1. links' = links /\ phase # "level"
    BY <1>3 DEF EndLevel
  <2>2. CASE n \in Ids(index1)
    BY <1>1, <2>1, <2>2, BelowLevel DEF ResultInv, ForwardLists
  <2>3. CASE n \notin Ids(index1)
    <3>1. n - off \in Ids(index2) /\ (n - off) + off = n
      BY <2>3, SMT DEF Merged, MergedIds
    <3>2. n - off \notin Layer2
      BY <3>1 DEF Shift
    <3>3. links[level][(n - off) + off] = CopiedLinks(index1, index2)[level][(n - off) + off]
      BY <2>1, <3>1, <3>2 DEF ResultInv, BackwardLists
    <3> QED BY <1>1, <2>1, <3>1, <3>3, BelowLevel
  <2> QED BY <2>2, <2>3
<1> QED BY <1>2, <1>3

\* The lists of a level are sound once the level is merged or copied.
LEMMA LevelSound ==
  ASSUME TypeInv, ResultInv, CopyLevel1 \/ CopyLevel2 \/ EndLevel,
         NEW n \in Merged \ mergedDeleted
  PROVE  Sound(level, n, links'[level][n])
<1> USE IndexFacts DEF TypeInv
<1>1. level \in Nat /\ level \in Levels(index2)
  BY DEF CopyLevel1, CopyLevel2, EndLevel, TypeOK, Control, LoopOK, Levels
<1>2. CASE n \notin Layer1 /\ n \notin Shift(Layer2, off)
  BY <1>2, LevelEmpty DEF Sound
<1>3. CASE n \in Layer1
  <2>1. n \in Ids(index1) /\ index1.element_levels_[n] >= level
    BY <1>3 DEF Layer1, LayerNodes
  <2>2. OldLinks1(index1, level, n) \in SUBSET Merged
    BY <1>1, <2>1, OldLinksFacts DEF index1
  <2>3. PICK T \in SUBSET Layer2 :
          links'[level][n] \subseteq Shift(T, off) \cup OldLinks1(index1, level, n)
    <3>1. CASE CopyLevel1
      BY <1>1, <1>3, <3>1 DEF CopyLevel1, TypeOK, Merged
    <3>2. CASE CopyLevel2
      BY <1>3, <3>2 DEF CopyLevel2
    <3>3. CASE EndLevel
      <4>1. links'[level][n] = NewLinks1(n)
        BY <1>3, <2>1, <3>3 DEF EndLevel, ResultInv, ForwardLists
      <4>2. Search(n).top \in SUBSET Layer2
        <5>1. entryAbove[n] \in Entries(level)
          BY <2>1, <3>3 DEF EndLevel, Control, EntriesOK
        <5> QED BY <1>1, <2>1, <5>1, ForwardFacts DEF Entries, Search, Layer2, index1, index2
      <4> DEFINE cands == Shift(Search(n).top, off)
                 old == OldLinks1(index1, level, n)
      <4>3. cands \in SUBSET Merged
        BY <4>2, ShiftIds DEF Merged, index1, index2, off
      <4>4. NewLinks1(n) \subseteq cands \cup old
        <5> HIDE DEF cands
        <5>1. Connect(data, level, n, cands, old) \subseteq cands \cup old
          <6> HIDE DEF old
          <6>1. old \in SUBSET Merged
            BY <2>2 DEF old
          <6> QED BY <1>1, <2>1, <4>3, <6>1, ConnectFacts DEF data, Merged, index1, index2
        <5> QED BY <5>1 DEF NewLinks1, cands
      <4> QED BY <4>1, <4>2, <4>4
    <3> QED BY <3>1, <3>2, <3>3
  <2>4. Sound(level, n, Shift(T, off) \cup OldLinks1(index1, level, n))
    BY <1>1, <1>3, SoundLists DEF Layer1, Layer2
  <2> QED BY <2>3, <2>4 DEF Sound
<1>4. CASE n \in Shift(Layer2, off)
  <2>1. PICK j \in Layer2 : n = j + off
    BY <1>4 DEF Shift
  <2>2. j \in Ids(index2) /\ index2.element_levels_[j] >= level /\ n - off = j
    BY <2>1 DEF Layer2, LayerNodes
  <2> DEFINE old == OldLinks2(index1, index2, level, j)
  <2>3. old \in SUBSET Merged
    BY <1>1, <2>2, OldLinksFacts DEF index1, index2, Merged
  <2>4. PICK T \in SUBSET Layer1 : links'[level][n] \subseteq T \cup old
    <3>1. CASE CopyLevel1
      BY <2>1, <3>1 DEF CopyLevel1
    <3>2. CASE CopyLevel2
      BY <1>1, <1>4, <2>2, <3>2, ZenonT(30) DEF CopyLevel2, TypeOK, Merged
    <3>3. CASE EndLevel
      <4>1. links'[level][n] = NewLinks2(j)
        <5>1. phase = "backward" /\ Done(j) /\ links' = links
          BY <3>3 DEF EndLevel, AllIdle, Done
        <5> QED BY <2>1, <2>2, <5>1 DEF ResultInv, BackwardLists
      <4>2. Backward(j) \in SUBSET Layer1 /\ Backward(j) \in SUBSET Merged
        BY DEF Backward
      <4>3. NewLinks2(j) \subseteq Backward(j) \cup old
        <5> HIDE DEF old
        <5>1. Connect(data, level, n, Backward(j), old) \subseteq Backward(j) \cup old
          BY <1>1, <2>3, <4>2, ConnectFacts DEF data, Merged, index1, index2
        <5>2. NewLinks2(j) = ConnectBackward(data, level, n, Backward(j), old)
          BY <2>1 DEF NewLinks2, old
        <5> QED BY <5>1, <5>2 DEF ConnectBackward
      <4> QED BY <4>1, <4>2, <4>3
    <3> QED BY <3>1, <3>2, <3>3
  <2>5. Sound(level, j + off, T \cup old)
    BY <1>1, SoundLists DEF Layer1, Layer2
  <2> QED BY <2>1, <2>4, <2>5 DEF Sound
<1> QED BY <1>2, <1>3, <1>4

\* No list of a merged level names an element that does not exist there.
THEOREM ListsSound == Spec => []LinksExist
<1>1. TypeInv /\ Init => LinksExist
  BY IndexFacts DEF TypeInv, Init, LinksExist
<1>2. TypeInv /\ ResultInv /\ LinksExist /\ [Next]_vars => LinksExist'
  <2> SUFFICES ASSUME TypeInv, ResultInv, LinksExist, [Next]_vars PROVE LinksExist'
    OBVIOUS
  <2> USE IndexFacts DEF TypeInv
  <2>0. input' = input
    BY DEF Next, Master, Worker, CopyLevel1, CopyLevel2, StartForward, StartBackward, EndLevel,
           SearchForward, LockCandidates, PushCandidate, WriteForward, TakeBackward,
           WriteBackward, Returned, vars
  <2> USE <2>0, InputFrame
  <2>1. mergedLevels' = mergedLevels /\ mergedDeleted' = mergedDeleted
    BY DEF mergedLevels, mergedDeleted
  <2>2. CASE CopyLevel1 \/ CopyLevel2 \/ EndLevel
    <3>1. level' = level - 1 /\ level \in Int
      BY <2>2 DEF CopyLevel1, CopyLevel2, EndLevel, TypeOK
    <3>2. \A l \in Levels(index2) : l # level => links'[l] = links[l]
      BY <2>2 DEF CopyLevel1, CopyLevel2, EndLevel, TypeOK
    <3>3. \A n \in Merged \ mergedDeleted : \A c \in links'[level][n] :
            c # n /\ mergedLevels[c] >= level
      BY <2>2, LevelSound DEF Sound
    <3> QED BY <2>1, <3>1, <3>2, <3>3, SMTT(30) DEF LinksExist, Levels, TypeOK
  <2>3. CASE level' = level /\ \A l \in Levels(index2) : l # level => links'[l] = links[l]
    BY <2>1, <2>3 DEF LinksExist, TypeOK, Levels
  <2>4. CASE StartForward \/ StartBackward \/ UNCHANGED vars
    BY <2>3, <2>4 DEF StartForward, StartBackward, vars
  <2>5. ASSUME NEW t \in Threads, Worker(t) PROVE LinksExist'
    BY <2>3, <2>5 DEF Worker, SearchForward, LockCandidates, PushCandidate, WriteForward,
                      TakeBackward, WriteBackward, TypeOK
  <2> QED BY <2>2, <2>4, <2>5 DEF Next, Master, Returned
<1> QED BY <1>1, <1>2, InitType, TypeInvariant, ResultInvariant, PTL DEF Spec

-------------------------------------------------------------------------------
(* The two stages of a level agree *)

Algorithms == INSTANCE HNSWAlgorithmsProofs

\* Selection is that of the code, getNeighborsByHeuristic2 with alpha.
CodeSelection ==
  \A d \in {MergedData(p[1], p[2]) : p \in Pairs} :
    \A C \in SUBSET DOMAIN d, n \in DOMAIN d, m \in {M, 2 * M} :
      Heuristic(d, d[n], C, m) = Code!getNeighborsByHeuristic2(d, d[n], C, m, Alpha)

\* What MergeQuality calls selection and occlusion is what the theorems about
\* them do.
LEMMA SameSelection ==
  /\ \A d, q, C, m, a :
       Code!getNeighborsByHeuristic2(d, q, C, m, a) = Algorithms!getNeighborsByHeuristic2(d, q, C, m, a)
  /\ \A d, q, a, r, c : Algorithms!Occludes(d, q, a, r, c) = Code!Occludes(d, q, a, r, c)
  /\ \A S : Algorithms!Cardinality(S) = Cardinality(S)
  /\ \A S : Algorithms!IsFiniteSet(S) <=> IsFiniteSet(S)
<1>1. \A x, y : Algorithms!Dist(x, y) = Code!Dist(x, y)
  BY Zenon DEF Algorithms!Dist, Code!Dist
<1>2. \A S : Algorithms!Cardinality(S) = Code!Cardinality(S)
  BY Zenon DEF Algorithms!Cardinality, Code!Cardinality, Algorithms!IsFiniteSet, Code!IsFiniteSet
<1>3. \A S : Algorithms!Cardinality(S) = Cardinality(S)
  BY Zenon DEF Algorithms!Cardinality, Cardinality, Algorithms!IsFiniteSet, IsFiniteSet
<1>4. \A S : Algorithms!IsFiniteSet(S) <=> IsFiniteSet(S)
  BY Zenon DEF Algorithms!IsFiniteSet, IsFiniteSet
<1>5. \A d, q, a, r, c : Algorithms!Occludes(d, q, a, r, c) = Code!Occludes(d, q, a, r, c)
  BY <1>1, Zenon DEF Algorithms!Occludes, Code!Occludes
<1>6. \A d, q, a, b : Algorithms!Closer(d, q, a, b) = Code!Closer(d, q, a, b)
  BY <1>1, ZenonT(30) DEF Algorithms!Closer, Code!Closer
<1>7. \A d, q, C, k : Algorithms!KthClosest(d, q, C, k) = Code!KthClosest(d, q, C, k)
  BY <1>2, <1>6, Zenon DEF Algorithms!KthClosest, Code!KthClosest
<1>8. ASSUME NEW d, NEW q, NEW C, NEW m, NEW a
      PROVE  Code!getNeighborsByHeuristic2(d, q, C, m, a) = Algorithms!getNeighborsByHeuristic2(d, q, C, m, a)
  BY <1>2, <1>5, <1>7, ZenonT(30)
  DEF Algorithms!getNeighborsByHeuristic2, Code!getNeighborsByHeuristic2
<1> QED BY <1>3, <1>4, <1>5, <1>8

\* A candidate that selection leaves out: m others are kept, or one that is
\* kept occludes it.
LEMMA LeftOut ==
  ASSUME CodeSelection, NEW p \in Pairs, NEW n \in MergedIds(p[1], p[2]), NEW l \in Nat,
         NEW C \in SUBSET MergedIds(p[1], p[2]), NEW c \in C
  PROVE  LET d == MergedData(p[1], p[2])
             kept == Heuristic(d, d[n], C, Mcurmax(M, l))
         IN  \/ c \in kept
             \/ Cardinality(kept) = Mcurmax(M, l)
             \/ \E r \in kept : Code!Occludes(d, d[n], Alpha, r, c)
<1> DEFINE d == MergedData(p[1], p[2])
           m == Mcurmax(M, l)
           kept == Heuristic(d, d[n], C, m)
<1>1. /\ d \in {MergedData(q[1], q[2]) : q \in Pairs} /\ DOMAIN d = MergedIds(p[1], p[2])
      /\ m \in {M, 2 * M} /\ m \in Nat
  BY MAssumption DEF MergedData, Mcurmax
<1>2. IsFiniteSet(C)
  BY MergedIdsSplit, FS_Subset
<1>3. \A x \in MergedIds(p[1], p[2]) : x \in Int /\ d[x] \in Int
  <2> SUFFICES ASSUME NEW x \in MergedIds(p[1], p[2]) PROVE x \in Int /\ d[x] \in Int
    OBVIOUS
  <2>1. Offset(p[1]) \in Nat /\ Ids(p[1]) = 0 .. Offset(p[1]) - 1 /\ x \in Nat
    BY InputFacts DEF MergedIds
  <2>2. p[1].data \in [Ids(p[1]) -> Int] /\ p[2].data \in [Ids(p[2]) -> Int]
    BY InputFacts DEF WellFormed
  <2>3. CASE x < Offset(p[1])
    BY <2>1, <2>2, <2>3 DEF MergedData
  <2>4. CASE ~ (x < Offset(p[1]))
    <3>1. x - Offset(p[1]) \in Ids(p[2])
      BY <2>1, <2>4, MergedIdsSplit
    <3> QED BY <2>1, <2>2, <2>4, <3>1 DEF MergedData
  <2> QED BY <2>3, <2>4
<1> HIDE DEF d, m
<1>4. Algorithms!Comparable(d, d[n], C)
  BY <1>3 DEF Algorithms!Comparable
<1>5. kept = Algorithms!getNeighborsByHeuristic2(d, d[n], C, m, Alpha)
  BY <1>1, SameSelection DEF CodeSelection
<1> HIDE DEF kept
<1>6. Algorithms!IsSelection(d, d[n], C, m, Alpha, kept)
  BY <1>1, <1>2, <1>4, <1>5, SameSelection, Algorithms!SelectionIsGreedy
<1> DEFINE before == Algorithms!KeptBefore(d, d[n], kept, c)
<1>7. kept \subseteq C /\ Cardinality(kept) <= m
  BY <1>6, SameSelection DEF Algorithms!IsSelection
<1>8. before \subseteq kept
  BY DEF Algorithms!KeptBefore
<1>9. c \in kept \/ ~ (Cardinality(before) < m) \/ \E r \in before : Code!Occludes(d, d[n], Alpha, r, c)
  BY <1>6, SameSelection DEF Algorithms!IsSelection, Algorithms!Deserves
<1> HIDE DEF before
<1>10. IsFiniteSet(kept) /\ Cardinality(kept) \in Nat /\ Cardinality(before) \in Nat
       /\ Cardinality(before) <= Cardinality(kept)
  <2>1. IsFiniteSet(kept) /\ IsFiniteSet(before)
    BY <1>2, <1>7, <1>8, FS_Subset
  <2> QED BY <1>8, <2>1, FS_CardinalityType, FS_Subset
<1>11. c \in kept \/ Cardinality(kept) = m \/ \E r \in kept : Code!Occludes(d, d[n], Alpha, r, c)
  <2>1. CASE ~ (Cardinality(before) < m)
    BY <1>1, <1>7, <1>10, <2>1
  <2> QED BY <1>8, <1>9, <2>1
<1> QED BY <1>11 DEF d, m, kept

\* The backward half of the property for one list: i on the list of j, or a
\* reason for it to be missing.
Mirrored(l, i, j, list) ==
  \/ i \in list
  \/ Cardinality(list) = Mcurmax(M, l)
  \/ \E r \in list : Code!Occludes(data, data[j], Alpha, r, i)

\* When the backward loop has ended, the edges of the forward lists have their
\* inverse, or the reason for missing it.
LEMMA LevelMirrored ==
  ASSUME CodeSelection, TypeInv, ResultInv, EndLevel,
         NEW i \in Layer1, NEW j \in Layer2, j + off \in links[level][i]
  PROVE  Mirrored(level, i, j + off, links[level][j + off])
<1> USE IndexFacts DEF TypeInv
<1>1. /\ level \in Nat /\ i \in Ids(index1) /\ j \in Ids(index2) /\ i \in Merged
      /\ level \in Levels(index2) /\ phase = "backward" /\ Done(j)
  BY DEF EndLevel, AllIdle, Done, TypeOK, Control, LoopOK, Levels
<1>2. links[level][i] = NewLinks1(i) /\ links[level][j + off] = NewLinks2(j)
  BY <1>1 DEF ResultInv, ForwardLists, BackwardLists
<1>3. i \in Backward(j)
  <2>1. Search(i).top \in SUBSET Ids(index2)
    <3>1. entryAbove[i] \in Entries(level)
      BY <1>1 DEF Control, EntriesOK
    <3> QED BY <1>1, <3>1, ForwardFacts DEF Entries, Search, LayerNodes, index1, index2
  <2> DEFINE cands == Shift(Search(i).top, off)
             old == OldLinks1(index1, level, i)
  <2>2. cands \in SUBSET Merged
    BY <2>1, ShiftIds DEF Merged, index1, index2, off
  <2>3. old \in SUBSET Ids(index1)
    <3>1. index1.element_levels_[i] >= level
      BY DEF Layer1, LayerNodes
    <3> QED BY <1>1, <3>1, OldLinksFacts DEF index1
  <2>4. NewLinks1(i) \subseteq cands \cup old
    <3> HIDE DEF cands, old
    <3>1. Connect(data, level, i, cands, old) \subseteq cands \cup old
      BY <1>1, <2>2, <2>3, ConnectFacts DEF data, Merged, index1, index2
    <3> QED BY <3>1 DEF NewLinks1, cands, old
  <2>5. j + off \in cands
    BY <1>1, <1>2, <2>3, <2>4
  <2>6. j \in Search(i).top
    BY <1>1, <2>1, <2>5, ShiftIds DEF index1, index2, off
  <2> QED BY <2>6 DEF Backward
<1> DEFINE old2 == OldLinks2(index1, index2, level, j)
           C == Backward(j) \cup old2
           kept == Heuristic(data, data[j + off], C, Mcurmax(M, level))
<1>4. C \in SUBSET Merged /\ i \in C /\ j + off \in Merged
  <2>1. index2.element_levels_[j] >= level
    BY DEF Layer2, LayerNodes
  <2>2. old2 \in SUBSET Merged
    BY <1>1, <2>1, OldLinksFacts DEF index1, index2, Merged
  <2>3. Backward(j) \in SUBSET Merged
    BY DEF Backward
  <2> QED BY <1>1, <1>3, <2>2, <2>3
<1> HIDE DEF C, old2
<1>5. Mirrored(level, i, j + off, kept)
  BY <1>1, <1>4, LeftOut DEF Mirrored, data, Merged, index1, index2
<1>6. NewLinks2(j) \in {C, kept}
  BY <1>3 DEF NewLinks2, ConnectBackward, Connect, C, old2
<1>7. CASE NewLinks2(j) = C
  BY <1>2, <1>4, <1>7 DEF Mirrored
<1>8. CASE NewLinks2(j) = kept
  BY <1>2, <1>5, <1>8
<1> QED BY <1>6, <1>7, <1>8

\* Lazy backward direct-connect, on every level that is merged and for any
\* inputs, threads, M, lambda and alpha: where the list of an element of index1
\* leads into index2, the element there leads back, unless its list is full or
\* the selection rule has preferred a neighbour that occludes the element.
THEOREM EdgesMirrored ==
  ASSUME CodeSelection
  PROVE  Spec => []BackwardConnected
<1>1. TypeInv /\ Init => BackwardConnected
  BY IndexFacts DEF TypeInv, Init, BackwardConnected
<1>2. TypeInv /\ ResultInv /\ BackwardConnected /\ [Next]_vars => BackwardConnected'
  <2> SUFFICES ASSUME TypeInv, ResultInv, BackwardConnected, [Next]_vars PROVE BackwardConnected'
    OBVIOUS
  <2> USE IndexFacts DEF TypeInv
  <2>0. input' = input
    BY DEF Next, Master, Worker, CopyLevel1, CopyLevel2, StartForward, StartBackward, EndLevel,
           SearchForward, LockCandidates, PushCandidate, WriteForward, TakeBackward,
           WriteBackward, Returned, vars
  <2> USE <2>0, InputFrame
  <2> DEFINE good(l, list) ==
        \A i \in LayerNodes(index1, l), j \in Shift(LayerNodes(index2, l), off) :
          j \in list[i] => Mirrored(l, i, j, list[j])
  <2>1. BackwardConnected <=> \A l \in level + 1 .. index2.maxlevel_ : good(l, links[l])
    BY DEF BackwardConnected, Mirrored
  <2>2. BackwardConnected' <=> \A l \in level' + 1 .. index2.maxlevel_ : good(l, links'[l])
    BY DEF BackwardConnected, Mirrored
  <2>3. CASE CopyLevel1 \/ CopyLevel2 \/ EndLevel
    <3>1. level' = level - 1 /\ level \in Nat
      BY <2>3 DEF CopyLevel1, CopyLevel2, EndLevel, TypeOK, Control, LoopOK
    <3>2. \A l \in Levels(index2) : l # level => links'[l] = links[l]
      BY <2>3 DEF CopyLevel1, CopyLevel2, EndLevel, TypeOK
    <3>3. good(level, links'[level])
      <4>1. CASE EndLevel
        <5>1. links' = links
          BY <4>1 DEF EndLevel
        <5>2. ASSUME NEW i \in Layer1, NEW k \in Shift(Layer2, off), k \in links[level][i]
              PROVE  Mirrored(level, i, k, links[level][k])
          <6>1. PICK j \in Layer2 : k = j + off
            BY DEF Shift
          <6> QED BY <4>1, <5>2, <6>1, LevelMirrored
        <5> QED BY <5>1, <5>2 DEF Layer1, Layer2
      <4>2. CASE CopyLevel1 \/ CopyLevel2
        BY <4>2 DEF CopyLevel1, CopyLevel2, Layer1, Layer2, Shift
      <4> QED BY <2>3, <4>1, <4>2
    <3> HIDE DEF good
    <3>4. ASSUME NEW l \in level' + 1 .. index2.maxlevel_ PROVE good(l, links'[l])
      <4>1. l = level \/ (l \in level + 1 .. index2.maxlevel_ /\ l \in Levels(index2) /\ l # level)
        BY <3>1 DEF Levels
      <4> QED BY <2>1, <3>2, <3>3, <4>1
    <3> QED BY <2>2, <3>4
  <2>4. CASE level' = level /\ \A l \in Levels(index2) : l # level => links'[l] = links[l]
    <3> HIDE DEF good
    <3>1. ASSUME NEW l \in level' + 1 .. index2.maxlevel_ PROVE good(l, links'[l])
      <4>1. l \in level + 1 .. index2.maxlevel_ /\ l \in Levels(index2) /\ l # level
        BY <2>4 DEF Levels, TypeOK
      <4> QED BY <2>1, <2>4, <4>1
    <3> QED BY <2>2, <3>1
  <2> HIDE DEF good
  <2>5. CASE StartForward \/ StartBackward \/ UNCHANGED vars
    BY <2>4, <2>5 DEF StartForward, StartBackward, vars
  <2>6. ASSUME NEW t \in Threads, Worker(t) PROVE BackwardConnected'
    BY <2>4, <2>6 DEF Worker, SearchForward, LockCandidates, PushCandidate, WriteForward,
                      TakeBackward, WriteBackward, TypeOK
  <2> QED BY <2>3, <2>5, <2>6 DEF Next, Master, Returned
<1> QED BY <1>1, <1>2, InitType, TypeInvariant, ResultInvariant, PTL DEF Spec

-------------------------------------------------------------------------------
(* A merged index is an index again, and can be searched *)

\* Without deletion marks an element has no list on a level above its own.
NothingBelow ==
  \A l \in level + 1 .. index2.maxlevel_, n \in Merged \ mergedDeleted :
    mergedLevels[n] < l => links[l][n] = {}

LEMMA NothingBelowInvariant == Spec => []NothingBelow
<1>1. TypeInv /\ Init => NothingBelow
  BY IndexFacts DEF TypeInv, Init, NothingBelow
<1>2. TypeInv /\ ResultInv /\ NothingBelow /\ [Next]_vars => NothingBelow'
  <2> SUFFICES ASSUME TypeInv, ResultInv, NothingBelow, [Next]_vars PROVE NothingBelow'
    OBVIOUS
  <2> USE IndexFacts DEF TypeInv
  <2>0. input' = input
    BY DEF Next, Master, Worker, CopyLevel1, CopyLevel2, StartForward, StartBackward, EndLevel,
           SearchForward, LockCandidates, PushCandidate, WriteForward, TakeBackward,
           WriteBackward, Returned, vars
  <2> USE <2>0, InputFrame
  <2>1. mergedLevels' = mergedLevels /\ mergedDeleted' = mergedDeleted
    BY DEF mergedLevels, mergedDeleted
  <2>2. CASE CopyLevel1 \/ CopyLevel2 \/ EndLevel
    <3>1. level' = level - 1 /\ level \in Int
      BY <2>2 DEF CopyLevel1, CopyLevel2, EndLevel, TypeOK
    <3>2. \A l \in Levels(index2) : l # level => links'[l] = links[l]
      BY <2>2 DEF CopyLevel1, CopyLevel2, EndLevel, TypeOK
    <3>3. ASSUME NEW n \in Merged \ mergedDeleted, mergedLevels[n] < level
          PROVE  links'[level][n] = {}
      <4>1. n \notin Layer1
        <5>1. \A x \in Layer1 : x \in Ids(index1) /\ index1.element_levels_[x] >= level
          BY DEF Layer1, LayerNodes
        <5>2. \A x \in Layer1 : mergedLevels[x] >= level /\ mergedLevels[x] \in Int
          BY <5>1, LevelFacts
        <5> QED BY <3>1, <3>3, <5>2
      <4>2. n \notin Shift(Layer2, off)
        <5>1. \A x \in Layer2 : x \in Ids(index2) /\ index2.element_levels_[x] >= level
          BY DEF Layer2, LayerNodes
        <5>2. \A x \in Layer2 : mergedLevels[x + off] >= level /\ mergedLevels[x + off] \in Int
          BY <5>1, LevelFacts
        <5> QED BY <3>1, <3>3, <5>2 DEF Shift
      <4> QED BY <2>2, <4>1, <4>2, LevelEmpty
    <3>4. ASSUME NEW l \in level' + 1 .. index2.maxlevel_, NEW n \in Merged \ mergedDeleted,
                 mergedLevels[n] < l
          PROVE  links'[l][n] = {}
      <4>1. l = level \/ (l \in level + 1 .. index2.maxlevel_ /\ l \in Levels(index2) /\ l # level)
        BY <2>2, <3>1 DEF Levels, CopyLevel1, CopyLevel2, EndLevel, TypeOK, Control, LoopOK
      <4>2. CASE l = level
        BY <3>3, <3>4, <4>2
      <4>3. CASE l \in level + 1 .. index2.maxlevel_ /\ l \in Levels(index2) /\ l # level
        BY <3>2, <3>4, <4>3 DEF NothingBelow
      <4> QED BY <4>1, <4>2, <4>3
    <3> QED BY <2>1, <3>4 DEF NothingBelow
  <2>3. CASE level' = level /\ \A l \in Levels(index2) : l # level => links'[l] = links[l]
    <3> SUFFICES ASSUME NEW l \in level' + 1 .. index2.maxlevel_, NEW n \in Merged \ mergedDeleted,
                        mergedLevels[n] < l
                 PROVE  links'[l][n] = {}
      BY <2>1, Zenon DEF NothingBelow
    <3>1. l \in level + 1 .. index2.maxlevel_ /\ l \in Levels(index2) /\ l # level
      BY <2>3 DEF Levels, TypeOK
    <3>2. links'[l] = links[l]
      BY <2>3, <3>1, Zenon
    <3> QED BY <3>1, <3>2, Zenon DEF NothingBelow
  <2>4. CASE StartForward \/ StartBackward \/ UNCHANGED vars
    BY <2>3, <2>4 DEF StartForward, StartBackward, vars
  <2>5. ASSUME NEW t \in Threads, Worker(t) PROVE NothingBelow'
    BY <2>3, <2>5 DEF Worker, SearchForward, LockCandidates, PushCandidate, WriteForward,
                      TakeBackward, WriteBackward, TypeOK
  <2> QED BY <2>2, <2>4, <2>5 DEF Next, Master, Returned
<1> QED BY <1>1, <1>2, InitType, TypeInvariant, ResultInvariant, PTL DEF Spec

\* The vectors, levels and entry point of the result are those of an index.
LEMMA MergedIndexFacts ==
  ASSUME input \in Pairs
  PROVE  /\ Ids(mergedIndex) = Merged
         /\ mergedIndex.count \in Nat \ {0} /\ index2.maxlevel_ \in Nat
         /\ mergedLevels \in [Merged -> 0 .. index2.maxlevel_]
         /\ data \in [Merged -> Int]
         /\ index2.enterpoint_node_ + off \in Merged
         /\ mergedLevels[index2.enterpoint_node_ + off] = index2.maxlevel_
         /\ IsFiniteSet(Merged)
<1> USE IndexFacts
<1>1. /\ WellFormed(index1, M) /\ WellFormed(index2, M) /\ index1.maxlevel_ <= index2.maxlevel_
  BY PairsAssumption DEF index1, index2
<1>2. /\ index1.count \in Nat \ {0} /\ index2.count \in Nat \ {0} /\ off = index1.count
      /\ index1.maxlevel_ \in Nat /\ index2.maxlevel_ \in Nat
      /\ index1.data \in [Ids(index1) -> Int] /\ index2.data \in [Ids(index2) -> Int]
      /\ index1.element_levels_ \in [Ids(index1) -> 0 .. index1.maxlevel_]
      /\ index2.element_levels_ \in [Ids(index2) -> 0 .. index2.maxlevel_]
      /\ index2.enterpoint_node_ \in Ids(index2)
      /\ index2.element_levels_[index2.enterpoint_node_] = index2.maxlevel_
  <2> PICK a : a = index1
    OBVIOUS
  <2> PICK e : e = index2
    OBVIOUS
  <2>1. WellFormed(a, M) /\ WellFormed(e, M)
    BY <1>1
  <2>2. /\ a.count \in Nat \ {0} /\ e.count \in Nat \ {0} /\ a.maxlevel_ \in Nat /\ e.maxlevel_ \in Nat
        /\ a.data \in [Ids(a) -> Int] /\ e.data \in [Ids(e) -> Int]
        /\ a.element_levels_ \in [Ids(a) -> 0 .. a.maxlevel_]
        /\ e.element_levels_ \in [Ids(e) -> 0 .. e.maxlevel_]
        /\ e.enterpoint_node_ \in Ids(e) /\ e.element_levels_[e.enterpoint_node_] = e.maxlevel_
    BY <2>1 DEF WellFormed
  <2> QED BY <2>2 DEF off, Offset
<1>3. Ids(mergedIndex) = Merged /\ mergedIndex.count \in Nat \ {0}
  <2> PICK ix : ix = mergedIndex
    OBVIOUS
  <2>1. ix.count = index1.count + index2.count
    BY DEF mergedIndex
  <2>2. Ids(ix) = 0 .. (index1.count + index2.count - 1)
    <3>1. ix.count - 1 = index1.count + index2.count - 1
      BY <1>2, <2>1
    <3>2. Ids(ix) = 0 .. (ix.count - 1)
      BY DEF Ids
    <3> QED BY <3>1, <3>2, Zenon
  <2>3. Merged = 0 .. (index1.count + index2.count - 1)
    BY DEF Merged, MergedIds
  <2>4. ix.count \in Nat \ {0}
    BY <1>2, <2>1
  <2>5. Ids(ix) = Merged
    BY <2>2, <2>3, Zenon
  <2> QED BY <2>4, <2>5
<1>4. ASSUME NEW n \in Merged
      PROVE  /\ n < off => n \in Ids(index1)
             /\ ~ (n < off) => n - off \in Ids(index2)
  <2>1. n \in 0 .. (index1.count + index2.count - 1)
    BY Zenon DEF Merged, MergedIds
  <2>2. n < off => n \in Ids(index1)
    BY <2>1
  <2>3. ~ (n < off) => n - off \in 0 .. (index2.count - 1)
    BY <1>2, <2>1
  <2> QED BY <2>2, <2>3, Zenon DEF Ids
<1>5. data \in [Merged -> Int]
  <2>1. \A n \in Merged : (IF n < off THEN index1.data[n] ELSE index2.data[n - off]) \in Int
    BY <1>2, <1>4
  <2> QED BY <2>1 DEF data, MergedData, Merged, off
<1>6. mergedLevels \in [Merged -> 0 .. index2.maxlevel_]
  <2>1. \A n \in Merged :
          (IF n < off THEN index1.element_levels_[n] ELSE index2.element_levels_[n - off])
            \in 0 .. index2.maxlevel_
    <3> SUFFICES ASSUME NEW n \in Merged
                 PROVE  (IF n < off THEN index1.element_levels_[n]
                         ELSE index2.element_levels_[n - off]) \in 0 .. index2.maxlevel_
      OBVIOUS
    <3>1. CASE n < off
      <4>1. index1.element_levels_[n] \in 0 .. index1.maxlevel_
        BY <1>2, <1>4, <3>1
      <4> QED BY <1>1, <1>2, <3>1, <4>1
    <3>2. CASE ~ (n < off)
      BY <1>2, <1>4, <3>2
    <3> QED BY <3>1, <3>2
  <2> QED BY <2>1 DEF mergedLevels, MergedLevels, Merged, off
<1>7. IsFiniteSet(Merged)
  BY MergedIdsSplit DEF Merged, index1, index2
<1>8. mergedLevels[index2.enterpoint_node_ + off] = index2.maxlevel_
  BY <1>2, LevelFacts
<1> QED BY <1>2, <1>3, <1>5, <1>6, <1>7, <1>8

\* What HNSWMerger returns for inputs without deletion marks is what insertion
\* leaves behind: it may be searched, inserted into and merged again.  (With
\* marks a deleted element may be on its own list.)
THEOREM MergedIndexWellFormed ==
  Spec => [](returned /\ mergedDeleted = {} => WellFormed(mergedIndex, M))
<1> SUFFICES ASSUME TypeInv, LinksExist, DegreeBound, NothingBelow, returned, mergedDeleted = {}
             PROVE  WellFormed(mergedIndex, M)
  BY TypeInvariant, ListsSound, ListsFit, NothingBelowInvariant, PTL
<1> USE IndexFacts, MergedIndexFacts DEF TypeInv
<1>1. level = -1 /\ level + 1 = 0 /\ Levels(index2) = 0 .. index2.maxlevel_
  BY DEF returned, Levels
<1>2. /\ mergedIndex.maxlevel_ = index2.maxlevel_ /\ mergedIndex.element_levels_ = mergedLevels
      /\ mergedIndex.data = data /\ mergedIndex.deleted = {} /\ mergedIndex.links = links
      /\ mergedIndex.enterpoint_node_ = index2.enterpoint_node_ + off
  BY DEF mergedIndex
<1>3. links \in [0 .. index2.maxlevel_ -> [Merged -> SUBSET Merged]]
  BY <1>1 DEF TypeOK
<1>4. ASSUME NEW l \in 0 .. index2.maxlevel_, NEW n \in Merged
      PROVE  /\ mergedLevels[n] < l => links[l][n] = {}
             /\ \A c \in links[l][n] : c # n /\ mergedLevels[c] >= l
             /\ IsFiniteSet(links[l][n])
             /\ Cardinality(links[l][n]) <= Mcurmax(M, l)
  <2>1. l \in level + 1 .. index2.maxlevel_ /\ n \in Merged \ mergedDeleted /\ l \in Levels(index2)
    BY <1>1
  <2>2. mergedLevels[n] < l => links[l][n] = {}
    BY <2>1 DEF NothingBelow
  <2>3. \A c \in links[l][n] : c # n /\ mergedLevels[c] >= l
    BY <2>1 DEF LinksExist
  <2>4. IsFiniteSet(links[l][n])
    <3>1. links[l][n] \in SUBSET Merged
      BY <1>3
    <3> QED BY <3>1, FS_Subset
  <2>5. Cardinality(links[l][n]) <= Mcurmax(M, l)
    BY <2>1 DEF DegreeBound
  <2> QED BY <2>2, <2>3, <2>4, <2>5
<1> QED BY <1>2, <1>3, <1>4 DEF WellFormed

\* A forward search is that of the code, search2Layer.
CodeSearch ==
  \A s \in Searches : \A l \in Levels(s[1]) :
    \A ep \in {NoEntry} \cup {n \in Ids(s[1]) : s[1].element_levels_[n] >= l} :
      LayerSearch(s[1], s[2], ep, HigherLevel(s[1], ep, l), l, Lambda)
        = Code!search2Layer(s[1], s[2], ep, HigherLevel(s[1], ep, l), l, Lambda)

\* What MergeQuality calls a search and a query is what the theorems about them
\* do.
LEMMA SameIndexes ==
  /\ \A ix : Algorithms!Ids(ix) = Ids(ix) /\ Code!Ids(ix) = Ids(ix)
  /\ Algorithms!NoEntry = NoEntry /\ Code!NoEntry = NoEntry
  /\ \A ix, m : Algorithms!WellFormed(ix, m) <=> WellFormed(ix, m)
<1>1. \A ix : Algorithms!Ids(ix) = Ids(ix) /\ Code!Ids(ix) = Ids(ix)
  BY Zenon DEF Algorithms!Ids, Ids, Code!Ids
<1>2. Algorithms!NoEntry = NoEntry /\ Code!NoEntry = NoEntry
  BY Zenon DEF Algorithms!NoEntry, NoEntry, Code!NoEntry
<1>3. \A m, l : Algorithms!Mcurmax(m, l) = Mcurmax(m, l)
  BY Zenon DEF Algorithms!Mcurmax, Mcurmax
<1>4. ASSUME NEW ix, NEW m PROVE Algorithms!WellFormed(ix, m) <=> WellFormed(ix, m)
  BY <1>1, <1>3, SameSelection, ZenonT(30) DEF Algorithms!WellFormed, WellFormed
<1> QED BY <1>1, <1>2, <1>4

\* The same for the searches, operator by operator.
LEMMA SameSearch ==
  /\ \A ix, q, ep, hi, lo, k :
       Code!search2Layer(ix, q, ep, hi, lo, k) = Algorithms!search2Layer(ix, q, ep, hi, lo, k)
  /\ \A ix, d, q, k, ef :
       Code!searchKnn(ix, d, q, k, ef) = Algorithms!searchKnn(ix, d, q, k, ef)
<1>1. \A x, y : Code!Dist(x, y) = Algorithms!Dist(x, y)
  BY Zenon DEF Algorithms!Dist, Code!Dist
<1>2. \A S : Code!Cardinality(S) = Algorithms!Cardinality(S)
  BY Zenon DEF Algorithms!Cardinality, Code!Cardinality, Algorithms!IsFiniteSet, Code!IsFiniteSet
<1>3. \A d, q, a, b : Code!Closer(d, q, a, b) = Algorithms!Closer(d, q, a, b)
  BY <1>1, ZenonT(30) DEF Algorithms!Closer, Code!Closer
<1>4. \A d, q, C, k : Code!KthClosest(d, q, C, k) = Algorithms!KthClosest(d, q, C, k)
  BY <1>2, <1>3, Zenon DEF Algorithms!KthClosest, Code!KthClosest
<1>5. \A d, q, C : Code!Nearest(d, q, C) = Algorithms!Nearest(d, q, C)
  BY <1>4, Zenon DEF Algorithms!Nearest, Code!Nearest
<1>6. \A d, q, C, k : Code!Closest(d, q, C, k) = Algorithms!Closest(d, q, C, k)
  BY <1>2, <1>3, Zenon DEF Algorithms!Closest, Code!Closest
<1>7. ASSUME NEW ix, NEW q, NEW start, NEW l
      PROVE  Code!Descend(ix, q, start, l) = Algorithms!Descend(ix, q, start, l)
  <2>1. Code!Ids(ix) = Algorithms!Ids(ix)
    BY SameIndexes
  <2>2. ASSUME NEW n
        PROVE  {c \in ix.links[l][n] : Code!Dist(q, ix.data[c]) < Code!Dist(q, ix.data[n])}
                 = {c \in ix.links[l][n] : Algorithms!Dist(q, ix.data[c]) < Algorithms!Dist(q, ix.data[n])}
    BY <1>1, Zenon
  <2> QED BY <1>5, <2>1, <2>2, ZenonT(60) DEF Algorithms!Descend, Code!Descend
<1>8. ASSUME NEW ix, NEW q, NEW start, NEW hi, NEW lo
      PROVE  Code!DescendFrom(ix, q, start, hi, lo) = Algorithms!DescendFrom(ix, q, start, hi, lo)
  BY <1>7, ZenonT(30) DEF Algorithms!DescendFrom, Code!DescendFrom
<1>9. ASSUME NEW ix, NEW q, NEW t, NEW n
      PROVE  Code!BelowBound(ix, q, t, n) <=> Algorithms!BelowBound(ix, q, t, n)
  BY <1>1, ZenonT(30) DEF Algorithms!BelowBound, Code!BelowBound
<1>10. ASSUME NEW start, NEW hidden
       PROVE  Code!BeamStart(start, hidden) = Algorithms!BeamStart(start, hidden)
  BY Zenon DEF Algorithms!BeamStart, Code!BeamStart
<1>11. ASSUME NEW ix, NEW q, NEW ef, NEW early, NEW s
       PROVE  Code!BeamStops(ix, q, ef, early, s) <=> Algorithms!BeamStops(ix, q, ef, early, s)
  BY <1>1, <1>2, <1>5, ZenonT(30) DEF Algorithms!BeamStops, Code!BeamStops
<1>12. ASSUME NEW ix, NEW q, NEW l, NEW ef, NEW hidden, NEW s
       PROVE  Code!BeamExpand(ix, q, l, ef, hidden, s) = Algorithms!BeamExpand(ix, q, l, ef, hidden, s)
  BY <1>2, <1>5, <1>6, <1>9, ZenonT(30) DEF Algorithms!BeamExpand, Code!BeamExpand
<1>13. ASSUME NEW ix, NEW q, NEW start, NEW l, NEW ef, NEW hidden, NEW early
       PROVE  Code!BeamAfter(ix, q, start, l, ef, hidden, early)
                = Algorithms!BeamAfter(ix, q, start, l, ef, hidden, early)
  BY <1>10, <1>11, <1>12, ZenonT(30) DEF Algorithms!BeamAfter, Code!BeamAfter
<1>14. ASSUME NEW ix, NEW q, NEW start, NEW l, NEW ef, NEW hidden, NEW early
       PROVE  Code!Beam(ix, q, start, l, ef, hidden, early)
                = Algorithms!Beam(ix, q, start, l, ef, hidden, early)
  BY <1>13, ZenonT(30) DEF Algorithms!Beam, Code!Beam
<1>15. ASSUME NEW ix, NEW q, NEW ep, NEW hi, NEW lo, NEW k
       PROVE  Code!search2Layer(ix, q, ep, hi, lo, k) = Algorithms!search2Layer(ix, q, ep, hi, lo, k)
  BY <1>5, <1>8, <1>14, SameIndexes, ZenonT(30) DEF Algorithms!search2Layer, Code!search2Layer
<1>16. ASSUME NEW ix, NEW d, NEW q, NEW k, NEW ef
       PROVE  Code!searchKnn(ix, d, q, k, ef) = Algorithms!searchKnn(ix, d, q, k, ef)
  BY <1>6, <1>8, <1>14, ZenonT(30) DEF Algorithms!searchKnn, Code!searchKnn
<1> QED BY <1>15, <1>16

\* The elements of index2 that the search of i found on the last level
FoundBy(i) == {j \in Ids(index2) : i \in candidateSetIndex2[j]}

\* What level 0 of a result without deletion marks is made of: every element of
\* index1 has found somebody, and is connected to those it has found, who have
\* been offered the edge back.
Exchanged ==
  returned /\ mergedDeleted = {} =>
    /\ \A j \in Ids(index2) :
         links[0][j + off] = ConnectBackward(data, 0, j + off, candidateSetIndex2[j],
                                             OldLinks2(index1, index2, 0, j))
    /\ \A i \in Ids(index1) :
         /\ FoundBy(i) # {}
         /\ links[0][i] = Connect(data, 0, i, Shift(FoundBy(i), off), OldLinks1(index1, 0, i))

\* Without deletion marks level 0 holds everybody.
LEMMA EverybodyOnLevel0 ==
  ASSUME TypeInv, mergedDeleted = {}
  PROVE  /\ index1.deleted = {} /\ index2.deleted = {}
         /\ LayerNodes(index1, 0) = Ids(index1) /\ LayerNodes(index2, 0) = Ids(index2)
         /\ Ids(index1) # {} /\ Ids(index2) # {}
<1> USE IndexFacts DEF TypeInv
<1>1. index1.deleted = {}
  BY DEF mergedDeleted, MergedDeleted
<1>2. index2.deleted = {}
  <2>1. Shift(index2.deleted, Offset(index1)) = {}
    BY DEF mergedDeleted, MergedDeleted
  <2>2. ASSUME NEW x \in index2.deleted PROVE x + Offset(index1) \in Shift(index2.deleted, Offset(index1))
    BY Zenon DEF Shift
  <2> QED BY <2>1, <2>2
<1>3. LayerNodes(index1, 0) = Ids(index1)
  BY <1>1 DEF LayerNodes
<1>4. LayerNodes(index2, 0) = Ids(index2)
  BY <1>2 DEF LayerNodes
<1>5. 0 \in Ids(index1) /\ 0 \in Ids(index2)
  <2>1. 0 \in Ids(index1)
    OBVIOUS
  <2>2. Ids(index2) = 0 .. (index2.count - 1)
    BY DEF Ids
  <2> QED BY <2>1, <2>2
<1> QED BY <1>1, <1>2, <1>3, <1>4, <1>5

\* A forward search on the last level is a search of the code there.
LEMMA ForwardIsCode ==
  ASSUME CodeSearch, NEW p \in Pairs, NEW i \in Ids(p[1]),
         NEW ep \in {NoEntry} \cup {n \in Ids(p[2]) : p[2].element_levels_[n] >= 0}
  PROVE  Forward(p[1], p[2], ep, 0, i)
           = Code!search2Layer(p[2], p[1].data[i], ep, HigherLevel(p[2], ep, 0), 0, Lambda)
<1> DEFINE s == <<p[2], p[1].data[i]>>
<1>1. s[1] = p[2] /\ s[2] = p[1].data[i]
  OBVIOUS
<1>2. s \in Searches
  <2>1. s \in {<<p[2], p[1].data[k]>> : k \in Ids(p[1])}
    BY Zenon
  <2> HIDE DEF s
  <2> QED BY <2>1, Zenon DEF Searches
<1>3. 0 \in Levels(p[2])
  BY InputFacts DEF Levels
<1> HIDE DEF s
<1>4. 0 \in Levels(s[1]) /\ ep \in {NoEntry} \cup {n \in Ids(s[1]) : s[1].element_levels_[n] >= 0}
  BY <1>1, <1>3, Zenon
<1>5. LayerSearch(s[1], s[2], ep, HigherLevel(s[1], ep, 0), 0, Lambda)
        = Code!search2Layer(s[1], s[2], ep, HigherLevel(s[1], ep, 0), 0, Lambda)
  BY <1>2, <1>4, Zenon DEF CodeSearch
<1>6. LayerSearch(p[2], p[1].data[i], ep, HigherLevel(p[2], ep, 0), 0, Lambda)
        = Code!search2Layer(p[2], p[1].data[i], ep, HigherLevel(p[2], ep, 0), 0, Lambda)
  BY <1>1, <1>5, Zenon
<1> QED BY <1>6, Zenon DEF Forward

\* The search of the code always finds somebody in an index without marks.
LEMMA CodeFinds ==
  ASSUME NEW ix, WellFormed(ix, M), ix.deleted = {}, NEW q \in Int,
         NEW ep \in {NoEntry} \cup {n \in Ids(ix) : ix.element_levels_[n] >= 0}
  PROVE  Code!search2Layer(ix, q, ep, HigherLevel(ix, ep, 0), 0, Lambda).top # {}
<1> DEFINE hi == IF ep = Algorithms!NoEntry THEN ix.maxlevel_ ELSE 0
           res == Algorithms!search2Layer(ix, q, ep, hi, 0, Lambda)
<1>1. Algorithms!WellFormed(ix, M)
  BY SameIndexes, Zenon
<1>2. 0 \in 0 .. ix.maxlevel_
  BY DEF WellFormed
<1>3. ep \in {Algorithms!NoEntry} \cup Algorithms!OnLevel(ix, 0)
  BY SameIndexes, Zenon DEF Algorithms!OnLevel
<1>4. res.top # {}
  <2>1. ix.deleted = {} => res.top # {}
    BY <1>1, <1>2, <1>3, LambdaAssumption, Algorithms!search2LayerFacts, ZenonT(60)
  <2> QED BY <2>1, Zenon
<1>5. HigherLevel(ix, ep, 0) = hi
  BY SameIndexes, Zenon DEF HigherLevel
<1>6. Code!search2Layer(ix, q, ep, hi, 0, Lambda) = res
  BY SameSearch, Zenon
<1> HIDE DEF hi, res
<1> QED BY <1>4, <1>5, <1>6, Zenon

\* So does the search of an element of index1 on the last level.
LEMMA SearchFinds ==
  ASSUME CodeSearch, TypeInv, phase # "level", level = 0, index2.deleted = {},
         NEW i \in Ids(index1)
  PROVE  Search(i).top # {}
<1> PICK p : p = input
  OBVIOUS
<1> PICK ep : ep = entryAbove[i]
  OBVIOUS
<1>1. p \in Pairs /\ i \in Ids(p[1]) /\ p[2].deleted = {}
  BY Zenon DEF TypeInv, index1, index2
<1>2. ep \in {NoEntry} \cup {n \in Ids(p[2]) : p[2].element_levels_[n] >= 0}
  <2>1. ep \in Entries(0)
    BY Zenon DEF TypeInv, Control, EntriesOK
  <2> QED BY <2>1, Zenon DEF Entries, index2
<1>3. WellFormed(p[2], M) /\ p[1].data[i] \in Int
  <2>1. WellFormed(p[1], M) /\ WellFormed(p[2], M)
    BY <1>1, InputFacts
  <2>2. p[1].data \in [Ids(p[1]) -> Int]
    BY <2>1, Zenon DEF WellFormed
  <2> QED BY <1>1, <2>1, <2>2
<1> PICK q : q = p[1].data[i]
  OBVIOUS
<1> PICK ix : ix = p[2]
  OBVIOUS
<1>4. Forward(p[1], p[2], ep, 0, i) = Code!search2Layer(ix, q, ep, HigherLevel(ix, ep, 0), 0, Lambda)
  <2>1. Forward(p[1], p[2], ep, 0, i)
          = Code!search2Layer(p[2], p[1].data[i], ep, HigherLevel(p[2], ep, 0), 0, Lambda)
    BY <1>1, <1>2, ForwardIsCode, ZenonT(30)
  <2> QED BY <2>1, Zenon
<1>5. Code!search2Layer(ix, q, ep, HigherLevel(ix, ep, 0), 0, Lambda).top # {}
  <2>1. WellFormed(ix, M) /\ ix.deleted = {} /\ q \in Int
    BY <1>1, <1>3, Zenon
  <2>2. ep \in {NoEntry} \cup {n \in Ids(ix) : ix.element_levels_[n] >= 0}
    BY <1>2, Zenon
  <2> QED BY <2>1, <2>2, CodeFinds
<1>6. Search(i) = Forward(p[1], p[2], ep, 0, i)
  BY Zenon DEF Search, index1, index2
<1> QED BY <1>4, <1>5, <1>6, Zenon

LEMMA ExchangedInvariant == ASSUME CodeSearch PROVE Spec => []Exchanged
<1>1. TypeInv /\ Init => Exchanged
  BY IndexFacts DEF TypeInv, Init, Exchanged, returned
<1>2. TypeInv /\ ResultInv /\ Exchanged /\ [Next]_vars => Exchanged'
  <2> SUFFICES ASSUME TypeInv, ResultInv, Exchanged, [Next]_vars, returned', mergedDeleted' = {}
               PROVE  /\ \A j \in Ids(index2') :
                           links'[0][j + off'] =
                             ConnectBackward(data', 0, j + off', candidateSetIndex2'[j],
                                             OldLinks2(index1', index2', 0, j))
                      /\ \A i \in Ids(index1') :
                           /\ FoundBy(i)' # {}
                           /\ links'[0][i] = Connect(data', 0, i, Shift(FoundBy(i)', off'),
                                                     OldLinks1(index1', 0, i))
    BY DEF Exchanged
  <2> USE IndexFacts DEF TypeInv
  <2>0. input' = input
    BY DEF Next, Master, Worker, CopyLevel1, CopyLevel2, StartForward, StartBackward, EndLevel,
           SearchForward, LockCandidates, PushCandidate, WriteForward, TakeBackward,
           WriteBackward, Returned, vars
  <2> USE <2>0, InputFrame
  <2>1. mergedDeleted = {}
    BY DEF mergedDeleted
  <2>2. phase' = "level" /\ level' = -1
    BY DEF returned
  <2>3. CASE EndLevel
    <3>1. level = 0 /\ phase = "backward" /\ todo = {} /\ (\A t \in Threads : pc[t] = "idle")
          /\ links' = links /\ candidateSetIndex2' = candidateSetIndex2
      BY <2>2, <2>3 DEF EndLevel, AllIdle, TypeOK
    <3>2. Layer1 = Ids(index1) /\ Layer2 = Ids(index2) /\ index2.deleted = {}
      BY <2>1, <3>1, EverybodyOnLevel0 DEF Layer1, Layer2
    <3>3. ASSUME NEW j \in Ids(index2)
          PROVE  /\ candidateSetIndex2[j] = Backward(j)
                 /\ links[0][j + off] = ConnectBackward(data, 0, j + off, candidateSetIndex2[j],
                                                        OldLinks2(index1, index2, 0, j))
      <4>1. candidateSetIndex2[j] = Backward(j)
        BY <3>1 DEF ResultInv, Candidates
      <4>2. links[level][j + off] = NewLinks2(j)
        BY <3>1, <3>2 DEF ResultInv, BackwardLists, Done
      <4> QED BY <3>1, <4>1, <4>2 DEF NewLinks2
    <3>4. ASSUME NEW i \in Ids(index1)
          PROVE  /\ FoundBy(i) # {}
                 /\ links[0][i] = Connect(data, 0, i, Shift(FoundBy(i), off), OldLinks1(index1, 0, i))
      <4>1. Search(i).top # {}
        BY <3>1, <3>2, SearchFinds
      <4>2. Search(i).top \in SUBSET Ids(index2)
        <5>1. entryAbove[i] \in Entries(level) /\ level \in Levels(index2)
          BY <3>1 DEF Control, EntriesOK, Levels
        <5> QED BY <5>1, ForwardFacts DEF Entries, Search, LayerNodes, index1, index2
      <4>3. FoundBy(i) = Search(i).top
        BY <3>2, <3>3, <4>2 DEF FoundBy, Backward
      <4>4. links[level][i] = NewLinks1(i)
        BY <3>1, <3>2 DEF ResultInv, ForwardLists
      <4> QED BY <3>1, <4>1, <4>3, <4>4 DEF NewLinks1
    <3>5. \A i : FoundBy(i)' = FoundBy(i)
      BY <3>1 DEF FoundBy
    <3> QED BY <3>1, <3>3, <3>4, <3>5
  <2>4. CASE UNCHANGED vars
    <3>1. returned /\ links' = links /\ candidateSetIndex2' = candidateSetIndex2
      BY <2>2, <2>4 DEF vars, returned
    <3>2. \A i : FoundBy(i)' = FoundBy(i)
      BY <3>1 DEF FoundBy
    <3> QED BY <2>1, <3>1, <3>2 DEF Exchanged
  <2>5. ~ CopyLevel1 /\ ~ CopyLevel2
    <3>1. CopyLevel1 \/ CopyLevel2 => level = 0
      BY <2>2 DEF CopyLevel1, CopyLevel2, TypeOK
    <3> QED BY <2>1, <3>1, EverybodyOnLevel0 DEF CopyLevel1, CopyLevel2, Layer1, Layer2
  <2>6. ~ StartForward /\ ~ StartBackward
    BY <2>2 DEF StartForward, StartBackward
  <2>7. \A t \in Threads : ~ Worker(t)
    <3>1. ASSUME NEW t \in Threads, Worker(t) PROVE FALSE
      <4>1. phase = "level"
        BY <2>2, <3>1 DEF Worker, SearchForward, LockCandidates, PushCandidate, WriteForward,
                          TakeBackward, WriteBackward
      <4>2. pc[t] = "idle"
        BY <4>1, AllIdleAtLevel
      <4> QED BY <3>1, <4>1, <4>2 DEF Worker, SearchForward, LockCandidates, PushCandidate,
                                      WriteForward, TakeBackward, WriteBackward
    <3> QED BY <3>1
  <2> QED BY <2>3, <2>4, <2>5, <2>6, <2>7 DEF Next, Master, Returned
<1> QED BY <1>1, <1>2, InitType, TypeInvariant, ResultInvariant, PTL DEF Spec

\* The lists of the inputs on level 0 are lists of their elements.
LEMMA NeighboursOnLevel0 ==
  ASSUME input \in Pairs
  PROVE  /\ \A i \in Ids(index1) : index1.links[0][i] \in SUBSET Ids(index1)
         /\ \A j \in Ids(index2) : index2.links[0][j] \in SUBSET Ids(index2)
<1>1. ASSUME NEW ix, WellFormed(ix, M), NEW n \in Ids(ix) PROVE ix.links[0][n] \in SUBSET Ids(ix)
  <2>1. /\ ix.links \in [0 .. ix.maxlevel_ -> [Ids(ix) -> SUBSET Ids(ix)]]
        /\ ix.maxlevel_ \in Nat
    BY <1>1 DEF WellFormed
  <2>2. 0 \in 0 .. ix.maxlevel_
    BY <2>1
  <2> QED BY <1>1, <2>1, <2>2
<1>2. WellFormed(index1, M) /\ WellFormed(index2, M)
  BY InputFacts DEF index1, index2
<1> QED BY <1>1, <1>2

\* With nothing dropped, the lists of level 0 hold all that was found beside
\* the old neighbours.
LEMMA NothingLost ==
  ASSUME TypeInv, Exchanged, returned, mergedDeleted = {}, NothingDropped
  PROVE  /\ \A j \in Ids(index2) :
              /\ candidateSetIndex2[j] \subseteq links[0][j + off]
              /\ Shift(index2.links[0][j], off) \subseteq links[0][j + off]
         /\ \A i \in Ids(index1) : FoundBy(i) # {} /\ Shift(FoundBy(i), off) \subseteq links[0][i]
<1> USE IndexFacts DEF TypeInv
<1>1. IsFiniteSet(Ids(index1)) /\ IsFiniteSet(Ids(index2))
  <2>1. IsFiniteSet(Ids(index1))
    BY FS_Interval
  <2>2. IsFiniteSet(Ids(index2))
    <3>1. Ids(index2) = 0 .. (index2.count - 1) /\ index2.count \in Nat
      BY DEF Ids
    <3>2. 0 \in Int /\ index2.count - 1 \in Int
      BY <3>1
    <3> QED BY <3>1, <3>2, FS_Interval
  <2> QED BY <2>1, <2>2
<1>2. ASSUME NEW j \in Ids(index2)
      PROVE  /\ candidateSetIndex2[j] \subseteq links[0][j + off]
             /\ Shift(index2.links[0][j], off) \subseteq links[0][j + off]
  <2> DEFINE found == candidateSetIndex2[j]
             old == OldLinks2(index1, index2, 0, j)
             new == links[0][j + off]
  <2>1. old = Shift(index2.links[0][j], off)
    BY DEF OldLinks2, off
  <2>2. new = ConnectBackward(data, 0, j + off, found, old)
    BY DEF Exchanged
  <2>3. Cardinality(found) + Cardinality(index2.links[0][j]) <= Mcurmax(M, 0)
    BY DEF NothingDropped
  <2>4. /\ IsFiniteSet(index2.links[0][j]) /\ index2.links[0][j] \subseteq Ids(index2)
        /\ IsFiniteSet(found)
    <3>1. index2.links[0][j] \in SUBSET Ids(index2)
      BY NeighboursOnLevel0
    <3>2. found \in SUBSET Ids(index1)
      BY DEF TypeOK
    <3> QED BY <1>1, <3>1, <3>2, FS_Subset
  <2>5. Cardinality(old) <= Cardinality(index2.links[0][j]) /\ IsFiniteSet(old)
    <3>1. index2.links[0][j] \in SUBSET Int /\ off \in Int
      BY <2>4
    <3> QED BY <2>1, <2>4, <3>1, ShiftFinite
  <2>6. ~ (Cardinality(found) + Cardinality(old) > Mcurmax(M, 0))
    <3>1. /\ Cardinality(found) \in Nat /\ Cardinality(index2.links[0][j]) \in Nat
          /\ Cardinality(old) \in Nat /\ Mcurmax(M, 0) \in Nat
      BY <2>4, <2>5, FS_CardinalityType, MAssumption DEF Mcurmax
    <3> HIDE DEF found, old
    <3> QED BY <2>3, <2>5, <3>1
  <2> HIDE DEF found, old, new
  <2>7. found = {} => new = old
    BY <2>2 DEF ConnectBackward
  <2>8. found # {} => new = found \cup old
    BY <2>2, <2>6 DEF ConnectBackward, Connect
  <2>9. found \subseteq new /\ old \subseteq new
    BY <2>7, <2>8
  <2> QED BY <2>1, <2>9 DEF found, new
<1>3. ASSUME NEW i \in Ids(index1)
      PROVE  FoundBy(i) # {} /\ Shift(FoundBy(i), off) \subseteq links[0][i]
  <2> DEFINE found == FoundBy(i)
             cands == Shift(found, off)
             old == OldLinks1(index1, 0, i)
             new == links[0][i]
  <2>1. found # {} /\ new = Connect(data, 0, i, cands, old)
    BY DEF Exchanged
  <2>2. Cardinality(found) + Cardinality(old) <= Mcurmax(M, 0)
    BY DEF NothingDropped, FoundBy, OldLinks1
  <2>3. IsFiniteSet(found) /\ found \in SUBSET Int /\ off \in Int
    <3>1. found \subseteq Ids(index2)
      BY DEF FoundBy
    <3> HIDE DEF found
    <3> QED BY <1>1, <3>1, FS_Subset
  <2>4. IsFiniteSet(old)
    <3>1. old \in SUBSET Ids(index1)
      BY NeighboursOnLevel0 DEF OldLinks1
    <3> HIDE DEF old
    <3> QED BY <1>1, <3>1, FS_Subset
  <2> HIDE DEF found, old, new
  <2>5. Cardinality(cands) <= Cardinality(found) /\ IsFiniteSet(cands)
    BY <2>3, ShiftFinite
  <2> HIDE DEF cands
  <2>6. ~ (Cardinality(cands) + Cardinality(old) > Mcurmax(M, 0))
    <3>1. /\ Cardinality(found) \in Nat /\ Cardinality(cands) \in Nat
          /\ Cardinality(old) \in Nat /\ Mcurmax(M, 0) \in Nat
      BY <2>3, <2>4, <2>5, FS_CardinalityType, MAssumption DEF Mcurmax
    <3> QED BY <2>2, <2>5, <3>1
  <2>7. cands \subseteq new
    BY <2>1, <2>6 DEF Connect
  <2> QED BY <2>1, <2>7 DEF found, cands, new
<1> QED BY <1>2, <1>3

\* Whoever is reached in the result leads to an element of index2, from there to
\* all of index2, and from there to all of index1.
LEMMA ResultConnected ==
  ASSUME TypeInv, Exchanged, returned, mergedDeleted = {}, NothingDropped,
         Algorithms!StronglyConnected(index2, 0)
  PROVE  Algorithms!StronglyConnected(mergedIndex, 0)
<1> USE IndexFacts, MergedIndexFacts DEF TypeInv
<1>1. /\ Algorithms!OnLevel(mergedIndex, 0) = Merged
      /\ Algorithms!OnLevel(index2, 0) = Ids(index2)
  <2>1. mergedIndex.element_levels_ = mergedLevels
    BY DEF mergedIndex
  <2>2. \A n \in Merged : mergedLevels[n] >= 0
    BY MergedIndexFacts
  <2>3. \A j \in Ids(index2) : index2.element_levels_[j] >= 0
    OBVIOUS
  <2>4. Algorithms!OnLevel(mergedIndex, 0) = {n \in Merged : mergedLevels[n] >= 0}
    BY <2>1, SameIndexes DEF Algorithms!OnLevel
  <2>5. Algorithms!OnLevel(index2, 0) = {j \in Ids(index2) : index2.element_levels_[j] >= 0}
    BY SameIndexes DEF Algorithms!OnLevel
  <2> QED BY <2>2, <2>3, <2>4, <2>5
<1>2. mergedIndex.links = links
  BY DEF mergedIndex
<1>3. ASSUME NEW S \in SUBSET Merged, S # {}, \A a \in S : links[0][a] \subseteq S
      PROVE  S = Merged
  <2> DEFINE S2 == {j \in Ids(index2) : j + off \in S}
  <2>1. S2 # {}
    <3> PICK a \in S : TRUE
      BY <1>3
    <3>1. CASE a \in Ids(index1)
      <4>1. PICK j \in FoundBy(a) : TRUE
        BY <3>1, NothingLost
      <4>2. j \in Ids(index2) /\ j + off \in Shift(FoundBy(a), off)
        BY <4>1 DEF FoundBy, Shift
      <4> QED BY <1>3, <3>1, <4>2, NothingLost
    <3>2. CASE a \notin Ids(index1)
      <4>1. a - off \in Ids(index2) /\ (a - off) + off = a
        BY <3>2, SMT DEF Merged, MergedIds
      <4> QED BY <4>1
    <3> QED BY <3>1, <3>2
  <2>2. \A j \in S2 : index2.links[0][j] \subseteq S2
    <3> SUFFICES ASSUME NEW j \in S2, NEW k \in index2.links[0][j] PROVE k \in S2
      OBVIOUS
    <3>1. k \in Ids(index2)
      BY NeighboursOnLevel0
    <3>2. k + off \in Shift(index2.links[0][j], off)
      BY DEF Shift
    <3>3. k + off \in S
      BY <1>3, <3>2, NothingLost
    <3> QED BY <3>1, <3>3
  <2>3. S2 = Ids(index2)
    <3>1. S2 \in SUBSET Ids(index2)
      OBVIOUS
    <3> HIDE DEF S2
    <3> QED BY <1>1, <2>1, <2>2, <3>1 DEF Algorithms!StronglyConnected
  <2>4. \A j \in Ids(index2) : j + off \in S
    BY <2>3
  <2>5. ASSUME NEW i \in Ids(index1) PROVE i \in S
    <3>1. PICK j \in FoundBy(i) : TRUE
      BY NothingLost
    <3>2. j \in Ids(index2) /\ i \in candidateSetIndex2[j]
      BY <3>1 DEF FoundBy
    <3> QED BY <1>3, <2>4, <3>2, NothingLost
  <2>6. ASSUME NEW n \in Merged PROVE n \in S
    <3>1. CASE n \in Ids(index1)
      BY <2>5, <3>1
    <3>2. CASE n \notin Ids(index1)
      <4>1. n - off \in Ids(index2) /\ (n - off) + off = n
        BY <3>2, SMT DEF Merged, MergedIds
      <4> QED BY <2>4, <4>1
    <3> QED BY <3>1, <3>2
  <2> QED BY <2>6
<1> QED BY <1>1, <1>2, <1>3 DEF Algorithms!StronglyConnected

\* Where level 0 of index2 is connected, no two elements have the same vector
\* and nothing was dropped there, the merge leaves no element that a query for
\* its vector misses, for any inputs without deletion marks and any schedule.
THEOREM EveryElementFound ==
  ASSUME CodeSearch
  PROVE  Spec => [](/\ Algorithms!StronglyConnected(index2, 0)
                    /\ \A x, y \in Merged : data[x] = data[y] => x = y
                    /\ NothingDropped
                    => FindsEveryElement)
<1> DEFINE Distinct == \A x, y \in Merged : data[x] = data[y] => x = y
<1>1. ASSUME TypeInv, Exchanged, returned /\ mergedDeleted = {} => WellFormed(mergedIndex, M),
             Algorithms!StronglyConnected(index2, 0), Distinct, NothingDropped
      PROVE  FindsEveryElement
  <2> SUFFICES ASSUME returned, mergedDeleted = {}, NEW n \in Merged
               PROVE  Code!searchKnn(mergedIndex, mergedNumDeleted, data[n], 1,
                                     index1.count + index2.count) = {n}
    BY DEF FindsEveryElement
  <2> USE IndexFacts, MergedIndexFacts DEF TypeInv
  <2>1. /\ mergedNumDeleted = 0 /\ mergedIndex.data = data
        /\ mergedIndex.count = index1.count + index2.count
    BY DEF mergedNumDeleted, mergedIndex
  <2>2. Algorithms!StronglyConnected(mergedIndex, 0)
    BY <1>1, ResultConnected
  <2>3. Algorithms!WellFormed(mergedIndex, M) /\ n \in Algorithms!Ids(mergedIndex)
    BY <1>1, SameIndexes
  <2>4. \A x, y \in Algorithms!Ids(mergedIndex) : mergedIndex.data[x] = mergedIndex.data[y] => x = y
    BY <1>1, <2>1, SameIndexes
  <2> PICK ix : ix = mergedIndex
    OBVIOUS
  <2>5. Algorithms!searchKnn(ix, 0, ix.data[n], 1, ix.count) = {n}
    BY <2>2, <2>3, <2>4, Algorithms!QueryFindsElement
  <2> QED BY <2>1, <2>5, SameSearch
<1> QED BY <1>1, TypeInvariant, ExchangedInvariant, MergedIndexWellFormed, PTL

-------------------------------------------------------------------------------
(* What MergeSetup prepares for the level loop, for indexes of any size    *)
(* and height and any M: entry point and levels of the result fit, labels  *)
(* lead where they should, and a pair is refused for two reasons only.     *)

Sides == {1, 2}
Swapped == args[1].count > args[2].count \/ args[1].maxlevel_ > args[2].maxlevel_

\* The argument that index(s) was made from
given(s) == IF Swapped THEN args[3 - s] ELSE args[s]

TooMany == stage = "thrown" /\ Len(newLayer) > M_

\* Elements of side s were promoted, and the promotion is finished.
Linked(s) == upper[s] # <<>> /\ ~ (side = s /\ (stage = "filter" \/ TooMany))
Promoted == {n + offset(1) : n \in IF Linked(1) THEN Range(upper[1]) ELSE {}}
              \cup {n + offset(2) : n \in IF Linked(2) THEN Range(upper[2]) ELSE {}}

Prepared == [maxlevel_ |-> in2.maxlevel_,
             enterpoint_node_ |-> in2.enterpoint_node_ + offset(2),
             label_lookup_ |-> LabelLookup,
             element_levels_ |->
               [n \in ResultIds |-> IF n \in DOMAIN newLinks THEN layer_max_min + 1
                                    ELSE levelOf(n)]]

\* index(s) is its argument, but for a level that promotion put on top.
SideOK(s) ==
  /\ {"maxlevel_", "enterpoint_node_"} \subseteq DOMAIN index(s)
  /\ index(s).count = given(s).count
  /\ index(s).element_levels_ = given(s).element_levels_
  /\ index(s).label = given(s).label
  /\ index(s).deleted = given(s).deleted
  /\ index(s).maxlevel_ = given(s).maxlevel_ + (IF Linked(s) THEN 1 ELSE 0)
  /\ index(s).enterpoint_node_ = IF Linked(s) THEN upper[s][1] ELSE given(s).enterpoint_node_
  /\ upper[s] \in Seq(Ids(given(s)))
  /\ upper[s] # <<>> => LayerNodes(given(s), layer_max_min + 1) = {}
  /\ side < s \/ (side = s /\ stage \in {"crowded", "promote"}) => upper[s] = <<>>

\* filter_and_remove in the middle: as long as nothing is selected, lambda is
\* not behind the number of elements stepped over.
FilterOK ==
  /\ LayerNodes(given(side), layer_max_min + 1) = {}
  /\ Cardinality(LayerNodes(given(side), layer_max_min)) > M_
  /\ pos \in Nat /\ pos <= Cardinality(LayerNodes(given(side), layer_max_min)) + 1
  /\ newLayer = <<>> => pos - 1 <= skipped
  /\ newLayer = <<>> <=> upper[side] = <<>>
  /\ Range(newLayer) = {n + offset(side) : n \in Range(upper[side])}

\* The inductive invariant
SetupInv ==
  /\ args \in Arguments
  /\ stage \in {"order", "crowded", "promote", "filter", "next", "height", "ready", "thrown"}
  /\ side \in Sides /\ skipped \in 0 .. M_
  /\ newLayer \in Seq(Int) /\ Len(newLayer) <= M_ + 1
  /\ DOMAIN upper = Sides
  /\ IF stage = "order"
     THEN /\ in1 = args[1] /\ in2 = args[2] /\ side = 1
          /\ upper = [s \in Sides |-> <<>>] /\ newLinks = <<>>
     ELSE /\ \A s \in Sides : SideOK(s)
          /\ DOMAIN newLinks = Promoted
  /\ stage \notin {"filter", "thrown"} => Len(newLayer) <= M_
  /\ stage = "filter" => FilterOK
  /\ stage = "ready" => in2.maxlevel_ >= in1.maxlevel_ /\ alg = Prepared
  /\ stage = "thrown" /\ Len(newLayer) <= M_ => in2.maxlevel_ < in1.maxlevel_
-------------------------------------------------------------------------------
(***************************************************************************)
(* The arguments                                                           *)
(***************************************************************************)

\* Both arguments are indexes, and the common top level is the lower one's.
LEMMA GivenFacts ==
  ASSUME args \in Arguments
  PROVE  /\ \A s \in Sides : IsArgument(args[s]) /\ IsArgument(given(s))
         /\ \A s \in Sides : layer_max_min <= given(s).maxlevel_
         /\ layer_max_min \in Nat
         /\ given(1) = (IF Swapped THEN args[2] ELSE args[1])
         /\ given(2) = (IF Swapped THEN args[1] ELSE args[2])
<1>1. \A s \in Sides : IsArgument(args[s])
  BY ArgumentsAssumption DEF Sides
<1>2. \A s \in Sides : given(s) = args[1] \/ given(s) = args[2]
  BY DEF given, Sides
<1>3. \A s \in Sides : IsArgument(given(s))
  BY <1>1, <1>2 DEF Sides
<1>4. args[1].maxlevel_ \in Nat /\ args[2].maxlevel_ \in Nat
  BY <1>1 DEF Sides, IsArgument
<1>5. layer_max_min \in Nat /\ layer_max_min <= args[1].maxlevel_ /\ layer_max_min <= args[2].maxlevel_
  BY <1>4 DEF layer_max_min, MinOf
<1>6. \A s \in Sides : layer_max_min <= given(s).maxlevel_
  BY <1>2, <1>5
<1>7. /\ given(1) = (IF Swapped THEN args[2] ELSE args[1])
      /\ given(2) = (IF Swapped THEN args[1] ELSE args[2])
  BY DEF given
<1> QED BY <1>1, <1>3, <1>5, <1>6, <1>7

\* A layer is a finite set of elements.
LEMMA LayerFacts ==
  ASSUME NEW ix, IsArgument(ix), NEW l \in Int
  PROVE  /\ LayerNodes(ix, l) \subseteq Ids(ix) /\ Ids(ix) \subseteq Nat
         /\ IsFiniteSet(LayerNodes(ix, l)) /\ Cardinality(LayerNodes(ix, l)) \in Nat
         /\ Cardinality(LayerNodes(ix, l)) = 0 <=> LayerNodes(ix, l) = {}
<1>1. ix.count \in Nat
  BY DEF IsArgument
<1>2. IsFiniteSet(Ids(ix)) /\ Ids(ix) \subseteq Nat
  <2> PICK last : last = ix.count - 1
    OBVIOUS
  <2>1. last \in Int /\ Ids(ix) = 0 .. last
    BY <1>1 DEF Ids
  <2>2. IsFiniteSet(0 .. last)
    BY <2>1, FS_Interval
  <2> QED BY <2>1, <2>2
<1>3. LayerNodes(ix, l) \subseteq Ids(ix)
  BY DEF LayerNodes
<1>4. IsFiniteSet(LayerNodes(ix, l))
  BY <1>2, <1>3, FS_Subset
<1> QED BY <1>2, <1>3, <1>4, FS_CardinalityType, FS_EmptySet

\* index(s) has the layers of its argument.
LEMMA SameLayers ==
  ASSUME NEW s \in Sides, SideOK(s), NEW l
  PROVE  /\ Ids(index(s)) = Ids(given(s))
         /\ LayerNodes(index(s), l) = LayerNodes(given(s), l)
         /\ Size(s, l) = Cardinality(LayerNodes(given(s), l))
BY DEF SideOK, Ids, LayerNodes, Size

\* What an appended sequence holds
LEMMA AppendRange ==
  ASSUME NEW S, NEW q \in Seq(S), NEW x \in S
  PROVE  /\ Append(q, x) \in Seq(S) /\ Append(q, x) # <<>>
         /\ Len(Append(q, x)) = Len(q) + 1
         /\ Range(Append(q, x)) = Range(q) \cup {x}
<1>1. /\ Append(q, x) \in Seq(S) /\ Len(Append(q, x)) = Len(q) + 1
      /\ \A i \in 1 .. Len(q) : Append(q, x)[i] = q[i]
      /\ Append(q, x)[Len(q) + 1] = x /\ Len(q) \in Nat
      /\ DOMAIN q = 1 .. Len(q) /\ DOMAIN Append(q, x) = 1 .. Len(q) + 1
  OBVIOUS
<1>2. Append(q, x) # <<>>
  BY <1>1
<1>3. 1 .. Len(q) + 1 = 1 .. Len(q) \cup {Len(q) + 1}
  BY <1>1
<1>4. Range(Append(q, x)) = Range(q) \cup {x}
  BY <1>1, <1>3 DEF Range
<1> QED BY <1>1, <1>2, <1>4
-------------------------------------------------------------------------------
(***************************************************************************)
(* The steps                                                               *)
(***************************************************************************)

\* Nothing is promoted at first.
LEMMA InitSetup == SetupInit => SetupInv
<1> SUFFICES ASSUME SetupInit PROVE SetupInv
  OBVIOUS
<1>1. 0 \in 0 .. M_
  BY DrawAssumption
<1> QED BY <1>1, DrawAssumption DEF SetupInit, SetupInv, Sides

\* The indexes get their order.
LEMMA OrderKeeps ==
  ASSUME SetupInv, Order
  PROVE  SetupInv'
<1>1. /\ stage = "order" /\ stage' = "crowded"
      /\ in1' = IF Swapped THEN args[2] ELSE args[1]
      /\ in2' = IF Swapped THEN args[1] ELSE args[2]
      /\ UNCHANGED <<args, side, pos, skipped, newLayer, upper, newLinks, alg>>
      /\ side = 1 /\ upper = [s \in Sides |-> <<>>] /\ newLinks = <<>>
  BY DEF Order, SetupInv, Swapped
<1>2. \A s \in Sides : given(s)' = given(s) /\ index(s)' = given(s) /\ upper'[s] = <<>>
  BY <1>1, GivenFacts DEF given, Swapped, index, Sides, SetupInv
<1>3. \A s \in Sides : ~ Linked(s)'
  BY <1>2 DEF Linked
<1>4. \A s \in Sides : SideOK(s)'
  <2> TAKE s \in Sides
  <2>1. IsArgument(given(s)) /\ given(s).maxlevel_ \in Nat
    BY GivenFacts DEF SetupInv, IsArgument
  <2>2. upper'[s] \in Seq(Ids(given(s))') /\ upper'[s] = <<>>
    <3>1. upper'[s] = <<>>
      BY <1>2
    <3>2. \A S : <<>> \in Seq(S)
      OBVIOUS
    <3> QED BY <3>1, <3>2
  <2>3. /\ {"maxlevel_", "enterpoint_node_"} \subseteq DOMAIN index(s)'
        /\ index(s)'.count = given(s)'.count
        /\ index(s)'.element_levels_ = given(s)'.element_levels_
        /\ index(s)'.label = given(s)'.label
        /\ index(s)'.deleted = given(s)'.deleted
        /\ index(s)'.maxlevel_ = given(s)'.maxlevel_ + 0
        /\ index(s)'.enterpoint_node_ = given(s)'.enterpoint_node_
    BY <1>2, <2>1 DEF IsArgument
  <2> QED BY <1>3, <2>2, <2>3 DEF SideOK
<1>5. DOMAIN newLinks' = Promoted'
  <2>1. Promoted' = {}
    BY <1>3 DEF Promoted, Sides
  <2> QED BY <1>1, <2>1
<1> QED BY <1>1, <1>4, <1>5 DEF SetupInv

\* The arguments and the layers stay what they are.
LEMMA ArgsStay ==
  ASSUME UNCHANGED args, in1'.count = in1.count
  PROVE  /\ layer_max_min' = layer_max_min
         /\ \A s \in Sides : given(s)' = given(s) /\ offset(s)' = offset(s)
BY DEF given, Swapped, offset, layer_max_min

\* A step that leaves the indexes and what was promoted as they are
LEMMA SidesStay ==
  ASSUME SetupInv, stage # "order", UNCHANGED <<args, in1, in2, upper, newLinks>>,
         \A s \in Sides : Linked(s)' <=> Linked(s),
         \A s \in Sides : side' < s \/ (side' = s /\ stage' \in {"crowded", "promote"}) => upper[s] = <<>>
  PROVE  /\ \A s \in Sides : SideOK(s)' /\ index(s)' = index(s)
         /\ DOMAIN newLinks' = Promoted'
<1>1. layer_max_min' = layer_max_min /\ \A s \in Sides : given(s)' = given(s) /\ offset(s)' = offset(s)
  BY ArgsStay
<1>2. \A s \in Sides : index(s)' = index(s)
  BY DEF index
<1>3. \A s \in Sides : SideOK(s)'
  BY <1>1, <1>2 DEF SideOK, SetupInv
<1>4. DOMAIN newLinks' = Promoted'
  BY <1>1 DEF Promoted, SetupInv, Sides
<1> QED BY <1>2, <1>3, <1>4

\* The top level is tested for a crowd.
LEMMA CrowdedKeeps ==
  ASSUME SetupInv, CheckCrowded
  PROVE  SetupInv'
<1>1. /\ stage = "crowded" /\ stage' \in {"promote", "height"}
      /\ UNCHANGED <<args, in1, in2, side, pos, skipped, newLayer, upper, newLinks, alg>>
  BY DEF CheckCrowded
<1>2. \A s \in Sides : /\ (Linked(s)' <=> Linked(s))
                       /\ side < s \/ side = s => upper[s] = <<>>
  BY <1>1 DEF Linked, TooMany, SetupInv, SideOK
<1>3. (\A s \in Sides : SideOK(s)') /\ DOMAIN newLinks' = Promoted'
  BY <1>1, <1>2, SidesStay
<1> QED BY <1>1, <1>3 DEF SetupInv

\* A side with a crowded top level and nothing above it is filtered.
LEMMA CallFilterKeeps ==
  ASSUME SetupInv, CallFilter
  PROVE  SetupInv'
<1>1. /\ stage = "promote" /\ stage' = IF Promotes(side) THEN "filter" ELSE "next"
      /\ pos' = 1 /\ newLayer' = <<>>
      /\ UNCHANGED <<args, in1, in2, side, skipped, upper, newLinks, alg>>
  BY DEF CallFilter
<1>2. side \in Sides /\ SideOK(side) /\ upper[side] = <<>>
  BY <1>1 DEF SetupInv, SideOK
<1>3. \A s \in Sides : /\ (Linked(s)' <=> Linked(s))
                       /\ side < s => upper[s] = <<>>
  BY <1>1, <1>2 DEF Linked, TooMany, SetupInv, SideOK
<1>4. (\A s \in Sides : SideOK(s)') /\ DOMAIN newLinks' = Promoted'
  BY <1>1, <1>3, SidesStay
<1>5. newLayer' \in Seq(Int) /\ Len(newLayer') = 0 /\ Range(newLayer') = {} /\ Range(upper[side]) = {}
  BY <1>1, <1>2 DEF Range
<1>6. stage' = "filter" => FilterOK'
  <2> SUFFICES ASSUME Promotes(side) PROVE FilterOK'
    BY <1>1
  <2> DEFINE above == LayerNodes(given(side), layer_max_min + 1)
  <2>1. IsArgument(given(side)) /\ layer_max_min + 1 \in Int
    BY <1>2, GivenFacts DEF SetupInv
  <2>2. Cardinality(above) = 0 /\ Cardinality(LayerNodes(given(side), layer_max_min)) > M_
    BY <1>2, SameLayers DEF Promotes
  <2>3. above = {}
    BY <2>1, <2>2, LayerFacts
  <2>4. given(side)' = given(side) /\ layer_max_min' = layer_max_min /\ pos' - 1 <= skipped'
    BY <1>1, <1>2, ArgsStay DEF SetupInv
  <2>5. upper'[side'] = <<>> /\ side' = side /\ Range(upper'[side']) = {}
    BY <1>1, <1>2, <1>5
  <2>6. Cardinality(LayerNodes(given(side), layer_max_min)) \in Nat
    BY <2>1, LayerFacts, GivenFacts DEF SetupInv
  <2>7. pos' \in Nat /\ pos' <= Cardinality(LayerNodes(given(side), layer_max_min)) + 1
    BY <1>1, <2>6
  <2> HIDE DEF above
  <2>8. {n + offset(side)' : n \in Range(upper'[side'])} = {}
    BY <2>5
  <2> QED BY <1>1, <1>5, <2>2, <2>3, <2>4, <2>5, <2>7, <2>8 DEF FilterOK, above
<1> QED BY <1>1, <1>4, <1>5, <1>6, DrawAssumption DEF SetupInv

\* A draw selects an element; the iterator stays.
LEMMA SelectKeeps ==
  ASSUME SetupInv, Select
  PROVE  SetupInv'
<1> PICK n \in layer :
      /\ newLayer' = Append(newLayer, n + offset(side))
      /\ upper' = [upper EXCEPT ![side] = Append(upper[side], n)]
  BY DEF Select
<1>1. /\ stage = "filter" /\ Len(newLayer) <= M_ /\ skipped' = 0
      /\ UNCHANGED <<args, in1, in2, stage, side, pos, newLinks, alg>>
      /\ side \in Sides /\ SideOK(side) /\ FilterOK /\ DOMAIN upper = Sides
  BY DEF Select, SetupInv
<1>2. /\ layer_max_min' = layer_max_min
      /\ \A s \in Sides : given(s)' = given(s) /\ offset(s)' = offset(s) /\ index(s)' = index(s)
  BY <1>1, ArgsStay DEF index
<1>3. /\ n \in Ids(given(side)) /\ upper[side] \in Seq(Ids(given(side)))
      /\ n \in Nat /\ offset(side) \in Int /\ newLayer \in Seq(Int)
  <2>1. IsArgument(given(side)) /\ IsArgument(given(1)) /\ layer_max_min \in Int
    BY <1>1, GivenFacts DEF SetupInv, Sides
  <2>2. n \in LayerNodes(given(side), layer_max_min)
    BY <1>1, SameLayers DEF layer
  <2>3. n \in Ids(given(side)) /\ n \in Nat
    BY <2>1, <2>2, LayerFacts
  <2>4. in1.count = given(1).count
    BY <1>1 DEF SetupInv, SideOK, index, Sides
  <2>5. offset(side) \in Int
    BY <2>1, <2>4 DEF offset, IsArgument
  <2> QED BY <1>1, <2>3, <2>5 DEF SetupInv, SideOK
<1>4. /\ newLayer' \in Seq(Int) /\ newLayer' # <<>> /\ Len(newLayer') <= M_ + 1
      /\ Range(newLayer') = Range(newLayer) \cup {n + offset(side)}
  <2> DEFINE x == n + offset(side)
  <2>1. x \in Int
    BY <1>3
  <2>2. newLayer' = Append(newLayer, x) /\ newLayer \in Seq(Int)
    BY <1>3
  <2> HIDE DEF x
  <2>3. /\ newLayer' \in Seq(Int) /\ newLayer' # <<>> /\ Len(newLayer') = Len(newLayer) + 1
        /\ Range(newLayer') = Range(newLayer) \cup {x}
    BY <2>1, <2>2, AppendRange, SMTT(30)
  <2>4. Len(newLayer') <= M_ + 1
    BY <1>1, <2>2, <2>3, DrawAssumption
  <2> QED BY <2>3, <2>4 DEF x
<1>5. /\ DOMAIN upper' = Sides
      /\ upper'[side] \in Seq(Ids(given(side))) /\ upper'[side] # <<>>
      /\ Range(upper'[side]) = Range(upper[side]) \cup {n}
      /\ \A s \in Sides \ {side} : upper'[s] = upper[s]
  <2> DEFINE q == upper[side]
             S == Ids(given(side))
  <2>1. upper' = [upper EXCEPT ![side] = Append(q, n)] /\ q \in Seq(S) /\ n \in S
    BY <1>3
  <2> HIDE DEF q, S
  <2>2. /\ Append(q, n) \in Seq(S) /\ Append(q, n) # <<>>
        /\ Range(Append(q, n)) = Range(q) \cup {n}
    BY <2>1, AppendRange
  <2>3. upper'[side] = Append(q, n) /\ DOMAIN upper' = Sides
        /\ \A s \in Sides \ {side} : upper'[s] = upper[s]
    BY <1>1, <2>1
  <2> QED BY <2>2, <2>3 DEF q, S
<1>6. \A s \in Sides : (Linked(s)' <=> Linked(s)) /\ (Linked(s) => s # side)
  BY <1>1, <1>5 DEF Linked, TooMany
<1>7. ASSUME NEW s \in Sides
      PROVE  SideOK(s)'
  <2>1. SideOK(s)
    BY <1>1 DEF SetupInv
  <2>2. CASE s = side
    BY <1>1, <1>2, <1>5, <1>6, <2>1, <2>2 DEF SideOK, FilterOK, Sides
  <2>3. CASE s # side
    BY <1>1, <1>2, <1>5, <1>6, <2>1, <2>3 DEF SideOK
  <2> QED BY <2>2, <2>3
<1>8. Promoted' = Promoted
  BY <1>2, <1>5, <1>6 DEF Promoted, Sides
<1>9. FilterOK'
  <2>1. given(side)' = given(side) /\ offset(side)' = offset(side) /\ upper'[side'] = upper'[side]
    BY <1>1, <1>2
  <2>2. Range(newLayer') = {k + offset(side) : k \in Range(upper'[side])}
    BY <1>1, <1>4, <1>5 DEF FilterOK
  <2> QED BY <1>1, <1>2, <1>4, <1>5, <2>1, <2>2, SMTT(30) DEF FilterOK
<1>10. skipped' \in 0 .. M_
  BY <1>1, DrawAssumption
<1> QED BY <1>1, <1>4, <1>5, <1>7, <1>8, <1>9, <1>10 DEF SetupInv

\* A draw steps over an element.
LEMMA StepOverKeeps ==
  ASSUME SetupInv, StepOver
  PROVE  SetupInv'
<1>1. /\ stage = "filter" /\ ~ AtEnd /\ skipped # M_ /\ skipped' = skipped + 1 /\ pos' = pos + 1
      /\ UNCHANGED <<args, in1, in2, stage, side, newLayer, upper, newLinks, alg>>
      /\ side \in Sides /\ SideOK(side) /\ FilterOK /\ skipped \in 0 .. M_
  BY DEF StepOver, SetupInv
<1>2. \A s \in Sides : /\ (Linked(s)' <=> Linked(s))
                       /\ side < s => upper[s] = <<>>
  BY <1>1 DEF Linked, TooMany, SetupInv, SideOK
<1>3. (\A s \in Sides : SideOK(s)') /\ DOMAIN newLinks' = Promoted'
  BY <1>1, <1>2, SidesStay
<1>4. layer_max_min' = layer_max_min /\ \A s \in Sides : given(s)' = given(s) /\ offset(s)' = offset(s)
  BY <1>1, ArgsStay
<1>5. pos <= Cardinality(LayerNodes(given(side), layer_max_min)) /\ pos \in Nat
  <2>1. Cardinality(layer) = Cardinality(LayerNodes(given(side), layer_max_min))
    BY <1>1, SameLayers DEF layer
  <2>2. IsArgument(given(side)) /\ layer_max_min \in Int
    BY <1>1, GivenFacts DEF SetupInv
  <2>3. Cardinality(LayerNodes(given(side), layer_max_min)) \in Nat
    BY <2>2, LayerFacts
  <2> QED BY <1>1, <2>1, <2>3 DEF AtEnd, FilterOK
<1>6. FilterOK'
  <2>1. given(side)' = given(side) /\ offset(side)' = offset(side) /\ upper'[side'] = upper[side]
    BY <1>1, <1>4
  <2>2. /\ pos' \in Nat /\ pos' <= Cardinality(LayerNodes(given(side), layer_max_min)) + 1
        /\ newLayer = <<>> => pos' - 1 <= skipped'
    <3>1. IsArgument(given(side)) /\ layer_max_min \in Int
      BY <1>1, GivenFacts DEF SetupInv
    <3>2. Cardinality(LayerNodes(given(side), layer_max_min)) \in Nat
      BY <3>1, LayerFacts
    <3> QED BY <1>1, <1>5, <3>2 DEF FilterOK
  <2> QED BY <1>1, <1>4, <2>1, <2>2 DEF FilterOK
<1>7. skipped' \in 0 .. M_
  BY <1>1, DrawAssumption
<1> QED BY <1>1, <1>3, <1>6, <1>7 DEF SetupInv

\* More than M_ elements are selected.
LEMMA TooManyKeeps ==
  ASSUME SetupInv, ThrowTooMany
  PROVE  SetupInv'
<1>1. /\ stage = "filter" /\ stage' = "thrown" /\ Len(newLayer) > M_
      /\ UNCHANGED <<args, in1, in2, side, pos, skipped, newLayer, upper, newLinks, alg>>
      /\ newLayer \in Seq(Int)
  BY DEF ThrowTooMany, SetupInv
<1>2. \A s \in Sides : /\ (Linked(s)' <=> Linked(s))
                       /\ side < s => upper[s] = <<>>
  BY <1>1 DEF Linked, TooMany, SetupInv, SideOK
<1>3. (\A s \in Sides : SideOK(s)') /\ DOMAIN newLinks' = Promoted'
  BY <1>1, <1>2, SidesStay
<1>4. ~ (Len(newLayer') <= M_)
  BY <1>1, DrawAssumption
<1> QED BY <1>1, <1>3, <1>4 DEF SetupInv

\* The end of the layer is not reached without a selection: after M_ elements
\* stepped over, the next is selected, and the layer has more than M_.
LEMMA SomethingSelected ==
  ASSUME SetupInv, stage = "filter", AtEnd
  PROVE  upper[side] # <<>>
<1>1. /\ side \in Sides /\ SideOK(side) /\ FilterOK /\ skipped \in 0 .. M_
  BY DEF SetupInv
<1>2. IsArgument(given(side)) /\ layer_max_min \in Int
  BY <1>1, GivenFacts DEF SetupInv
<1>3. Cardinality(LayerNodes(given(side), layer_max_min)) \in Nat
  BY <1>2, LayerFacts
<1>4. pos > Cardinality(LayerNodes(given(side), layer_max_min))
  BY <1>1, SameLayers DEF AtEnd, layer
<1>5. pos - 1 > skipped
  BY <1>1, <1>3, <1>4, DrawAssumption DEF FilterOK
<1> QED BY <1>1, <1>5 DEF FilterOK

\* The side gets its new level.
LEMMA LinkKeeps ==
  ASSUME SetupInv, LinkNewLayer
  PROVE  SetupInv'
<1> DEFINE raised(ix) == [ix EXCEPT !.maxlevel_ = @ + 1, !.enterpoint_node_ = upper[side][1]]
<1>1. /\ stage = "filter" /\ AtEnd /\ Len(newLayer) <= M_ /\ stage' = "next"
      /\ DOMAIN newLinks' = DOMAIN newLinks \cup Range(newLayer)
      /\ IF side = 1 THEN in1' = raised(in1) /\ UNCHANGED in2
                     ELSE in2' = raised(in2) /\ UNCHANGED in1
      /\ UNCHANGED <<args, side, pos, skipped, newLayer, upper, alg>>
      /\ side \in Sides /\ FilterOK
      /\ \A s \in Sides : SideOK(s)
  BY DEF LinkNewLayer, SetupInv
<1>2. \A s \in Sides : index(s)' = IF s = side THEN raised(index(s)) ELSE index(s)
  BY <1>1 DEF index, Sides
<1>3. ASSUME NEW s \in Sides
      PROVE  /\ DOMAIN index(s)' = DOMAIN index(s)
             /\ index(s)'.count = index(s).count
             /\ index(s)'.element_levels_ = index(s).element_levels_
             /\ index(s)'.label = index(s).label
             /\ index(s)'.deleted = index(s).deleted
             /\ index(s)'.maxlevel_ = IF s = side THEN index(s).maxlevel_ + 1 ELSE index(s).maxlevel_
             /\ index(s)'.enterpoint_node_ = IF s = side THEN upper[side][1]
                                                         ELSE index(s).enterpoint_node_
  <2>1. CASE s # side
    BY <1>2, <2>1
  <2>2. CASE s = side
    <3>1. {"maxlevel_", "enterpoint_node_"} \subseteq DOMAIN index(s)
      BY <1>1 DEF SideOK
    <3>2. index(s)' = raised(index(s))
      BY <1>2, <2>2
    <3> QED BY <2>2, <3>1, <3>2
  <2> QED BY <2>1, <2>2
<1>4. in1'.count = in1.count
  <2>1. index(1)'.count = index(1).count
    BY <1>3 DEF Sides
  <2> QED BY <2>1 DEF index
<1>5. /\ layer_max_min' = layer_max_min
      /\ \A s \in Sides : given(s)' = given(s) /\ offset(s)' = offset(s)
  BY <1>1, <1>4, ArgsStay
<1>6. upper[side] # <<>>
  BY <1>1, SomethingSelected
<1>7. /\ ~ Linked(side)
      /\ \A s \in Sides : Linked(s)' <=> Linked(s) \/ s = side
  BY <1>1, <1>6 DEF Linked, TooMany
<1>8. ASSUME NEW s \in Sides
      PROVE  SideOK(s)'
  <2>1. SideOK(s) /\ IsArgument(given(s))
    BY <1>1, GivenFacts DEF SetupInv
  <2>2. /\ upper'[s] = upper[s]
        /\ side' < s \/ (side' = s /\ stage' \in {"crowded", "promote"}) => upper[s] = <<>>
    BY <1>1, <2>1 DEF SideOK
  <2>3. index(s)'.maxlevel_ = given(s).maxlevel_ + (IF Linked(s)' THEN 1 ELSE 0)
    <3>1. CASE s = side
      <4>1. index(s).maxlevel_ = given(s).maxlevel_ + 0
        BY <1>7, <2>1, <3>1 DEF SideOK
      <4> QED BY <1>3, <1>7, <2>1, <3>1, <4>1 DEF IsArgument
    <3>2. CASE s # side
      BY <1>3, <1>7, <2>1, <3>2 DEF SideOK
    <3> QED BY <3>1, <3>2
  <2>4. index(s)'.enterpoint_node_ = IF Linked(s)' THEN upper[s][1] ELSE given(s).enterpoint_node_
    BY <1>3, <1>7, <2>1 DEF SideOK
  <2> HIDE DEF raised
  <2>5. /\ {"maxlevel_", "enterpoint_node_"} \subseteq DOMAIN index(s)'
        /\ index(s)'.count = given(s).count
        /\ index(s)'.element_levels_ = given(s).element_levels_
        /\ index(s)'.label = given(s).label
        /\ index(s)'.deleted = given(s).deleted
    BY <1>3, <2>1 DEF SideOK
  <2>6. /\ upper[s] \in Seq(Ids(given(s)))
        /\ upper[s] # <<>> => LayerNodes(given(s), layer_max_min + 1) = {}
    BY <2>1 DEF SideOK
  <2> QED BY <1>5, <2>2, <2>3, <2>4, <2>5, <2>6 DEF SideOK
<1>9. DOMAIN newLinks' = Promoted'
  <2>1. Range(newLayer) = {n + offset(side) : n \in Range(upper[side])} /\ DOMAIN newLinks = Promoted
    BY <1>1 DEF FilterOK, SetupInv
  <2>2. /\ upper' = upper /\ offset(1)' = offset(1) /\ offset(2)' = offset(2)
    BY <1>1, <1>5 DEF Sides
  <2>3. CASE side = 1
    <3>1. Linked(1)' /\ ~ Linked(1) /\ (Linked(2)' <=> Linked(2))
      BY <1>7, <2>3 DEF Sides
    <3> QED BY <1>1, <2>1, <2>2, <2>3, <3>1 DEF Promoted
  <2>4. CASE side = 2
    <3>1. Linked(2)' /\ ~ Linked(2) /\ (Linked(1)' <=> Linked(1))
      BY <1>7, <2>4 DEF Sides
    <3> QED BY <1>1, <2>1, <2>2, <2>4, <3>1 DEF Promoted
  <2> QED BY <1>1, <2>3, <2>4 DEF Sides
<1> HIDE DEF raised
<1> QED BY <1>1, <1>8, <1>9 DEF SetupInv

\* From one side to the other, or to the test of the heights.
LEMMA NextSideKeeps ==
  ASSUME SetupInv, NextSide
  PROVE  SetupInv'
<1>1. /\ stage = "next" /\ side' = 2 /\ stage' = IF side = 1 THEN "promote" ELSE "height"
      /\ UNCHANGED <<args, in1, in2, pos, skipped, newLayer, upper, newLinks, alg>>
      /\ side \in Sides
  BY DEF NextSide, SetupInv
<1>2. \A s \in Sides : /\ (Linked(s)' <=> Linked(s))
                       /\ side < s => upper[s] = <<>>
  BY <1>1 DEF Linked, TooMany, SetupInv, SideOK
<1>3. \A s \in Sides : side' < s \/ (side' = s /\ stage' \in {"crowded", "promote"}) => upper[s] = <<>>
  BY <1>1, <1>2 DEF Sides
<1>4. (\A s \in Sides : SideOK(s)') /\ DOMAIN newLinks' = Promoted'
  BY <1>1, <1>2, <1>3, SidesStay
<1> QED BY <1>1, <1>4 DEF SetupInv, Sides

\* The heights are refused.
LEMMA WrongCaseKeeps ==
  ASSUME SetupInv, ThrowWrongCase
  PROVE  SetupInv'
<1>1. /\ stage = "height" /\ stage' = "thrown" /\ in2.maxlevel_ < in1.maxlevel_
      /\ UNCHANGED <<args, in1, in2, side, pos, skipped, newLayer, upper, newLinks, alg>>
      /\ Len(newLayer) <= M_ /\ newLayer \in Seq(Int)
  BY DEF ThrowWrongCase, SetupInv
<1>2. \A s \in Sides : /\ (Linked(s)' <=> Linked(s))
                       /\ side < s => upper[s] = <<>>
  BY <1>1, DrawAssumption DEF Linked, TooMany, SetupInv, SideOK
<1>3. (\A s \in Sides : SideOK(s)') /\ DOMAIN newLinks' = Promoted'
  BY <1>1, <1>2, SidesStay
<1> QED BY <1>1, <1>3 DEF SetupInv

\* The result is prepared.
LEMMA PrepareKeeps ==
  ASSUME SetupInv, Prepare
  PROVE  SetupInv'
<1>1. /\ stage = "height" /\ stage' = "ready" /\ in2.maxlevel_ >= in1.maxlevel_ /\ alg' = Prepared
      /\ UNCHANGED <<args, in1, in2, side, pos, skipped, newLayer, upper, newLinks>>
  BY DEF Prepare, Prepared
<1>2. \A s \in Sides : /\ (Linked(s)' <=> Linked(s))
                       /\ side < s => upper[s] = <<>>
  BY <1>1 DEF Linked, TooMany, SetupInv, SideOK
<1>3. (\A s \in Sides : SideOK(s)') /\ DOMAIN newLinks' = Promoted'
  BY <1>1, <1>2, SidesStay
<1>4. Prepared' = Prepared
  BY <1>1 DEF Prepared, offset, LabelLookup, ResultIds, labelOf, levelOf, layer_max_min
<1> QED BY <1>1, <1>3, <1>4 DEF SetupInv

\* Every step keeps the invariant.
LEMMA NextSetup == SetupInv /\ [SetupNext]_setupVars => SetupInv'
<1> SUFFICES ASSUME SetupInv, [SetupNext]_setupVars PROVE SetupInv'
  OBVIOUS
<1>1. CASE UNCHANGED setupVars
  <2>1. UNCHANGED <<args, in1, in2, stage, side, pos, skipped, newLayer, upper, newLinks, alg>>
    BY <1>1 DEF setupVars
  <2>2. CASE stage = "order"
    BY <2>1, <2>2 DEF SetupInv
  <2>3. CASE stage # "order"
    <3>1. \A s \in Sides : /\ Linked(s)' <=> Linked(s)
                           /\ side < s \/ (side = s /\ stage \in {"crowded", "promote"}) => upper[s] = <<>>
      BY <2>1, <2>3 DEF Linked, TooMany, SetupInv, SideOK
    <3>2. (\A s \in Sides : SideOK(s)') /\ DOMAIN newLinks' = Promoted'
      BY <2>1, <2>3, <3>1, SidesStay
    <3>3. FilterOK' <=> FilterOK
      BY <2>1 DEF FilterOK, given, Swapped, offset, layer_max_min
    <3>4. Prepared' = Prepared
      BY <2>1 DEF Prepared, offset, LabelLookup, ResultIds, labelOf, levelOf, layer_max_min
    <3> QED BY <2>1, <2>3, <3>2, <3>3, <3>4 DEF SetupInv
  <2> QED BY <2>2, <2>3
<1>2. CASE Stopped
  BY <1>1, <1>2 DEF Stopped
<1> QED BY <1>1, <1>2, OrderKeeps, CrowdedKeeps, CallFilterKeeps, SelectKeeps, StepOverKeeps,
           TooManyKeeps, LinkKeeps, NextSideKeeps, WrongCaseKeeps, PrepareKeeps DEF SetupNext
-------------------------------------------------------------------------------
(***************************************************************************)
(* The result as the preparation leaves it                                 *)
(***************************************************************************)

\* Ids of the result belong to one side, at their offset.
LEMMA MergedFacts ==
  ASSUME SetupInv, stage # "order"
  PROVE  /\ offset(1) = 0 /\ offset(2) = given(1).count /\ offset(2) \in Nat
         /\ \A n \in Ids(given(1)) : /\ n \in ResultIds /\ n < offset(2)
                                     /\ levelOf(n) = given(1).element_levels_[n]
                                     /\ labelOf(n) = given(1).label[n]
         /\ \A n \in Ids(given(2)) : /\ n + offset(2) \in ResultIds /\ ~ (n + offset(2) < offset(2))
                                     /\ levelOf(n + offset(2)) = given(2).element_levels_[n]
                                     /\ labelOf(n + offset(2)) = given(2).label[n]
         /\ \A n \in ResultIds : \/ n \in Ids(given(1))
                                 \/ n - offset(2) \in Ids(given(2)) /\ n = (n - offset(2)) + offset(2)
<1>1. /\ in1.count = given(1).count /\ in2.count = given(2).count
      /\ in1.element_levels_ = given(1).element_levels_
      /\ in2.element_levels_ = given(2).element_levels_
      /\ in1.label = given(1).label /\ in2.label = given(2).label
  BY DEF SetupInv, SideOK, index, Sides
<1>2. given(1).count \in Nat /\ given(2).count \in Nat
  BY GivenFacts DEF SetupInv, IsArgument, Sides
<1>3. offset(1) = 0 /\ offset(2) = given(1).count
  BY <1>1 DEF offset
<1>4. \A n \in Ids(given(1)) : n \in Int /\ n \in ResultIds /\ n < offset(2)
  BY <1>1, <1>2, <1>3 DEF Ids, ResultIds
<1>5. \A n \in Ids(given(2)) : /\ n \in Int /\ n + offset(2) \in ResultIds
                               /\ ~ (n + offset(2) < offset(2)) /\ (n + offset(2)) - offset(2) = n
  BY <1>1, <1>2, <1>3 DEF Ids, ResultIds
<1>6. \A n \in ResultIds : \/ n \in Ids(given(1))
                           \/ n - offset(2) \in Ids(given(2)) /\ n = (n - offset(2)) + offset(2)
  BY <1>1, <1>2, <1>3 DEF Ids, ResultIds
<1> QED BY <1>1, <1>2, <1>3, <1>4, <1>5, <1>6 DEF levelOf, labelOf

\* index(s) is as high as its argument, or one level higher.
LEMMA HeightFacts ==
  ASSUME SetupInv, stage # "order", NEW s \in Sides
  PROVE  /\ given(s).maxlevel_ \in Nat /\ index(s).maxlevel_ \in Nat
         /\ index(s).maxlevel_ >= given(s).maxlevel_
         /\ Linked(s) => index(s).maxlevel_ = given(s).maxlevel_ + 1 /\ upper[s] # <<>>
         /\ ~ Linked(s) => index(s).maxlevel_ = given(s).maxlevel_
<1>1. given(s).maxlevel_ \in Nat
  BY GivenFacts DEF SetupInv, IsArgument
<1>2. index(s).maxlevel_ = given(s).maxlevel_ + (IF Linked(s) THEN 1 ELSE 0)
  BY DEF SetupInv, SideOK
<1>3. CASE Linked(s)
  BY <1>1, <1>2, <1>3 DEF Linked
<1>4. CASE ~ Linked(s)
  BY <1>1, <1>2, <1>4
<1> QED BY <1>3, <1>4

\* Above the common top level only what is promoted is new, so the result is
\* as high as its levels say.
LEMMA LevelsFit ==
  ASSUME SetupInv, stage = "ready", NEW n \in ResultIds
  PROVE  alg.element_levels_[n] <= alg.maxlevel_
<1>1. /\ alg.maxlevel_ = in2.maxlevel_ /\ in2.maxlevel_ >= in1.maxlevel_
      /\ alg.element_levels_[n] = IF n \in DOMAIN newLinks THEN layer_max_min + 1 ELSE levelOf(n)
      /\ DOMAIN newLinks = Promoted
      /\ index(1) = in1 /\ index(2) = in2
  BY DEF SetupInv, Prepared, index
<1>2. \A s \in Sides : /\ index(s).maxlevel_ \in Nat /\ index(s).maxlevel_ <= in2.maxlevel_
                       /\ given(s).maxlevel_ \in Nat /\ given(s).maxlevel_ <= index(s).maxlevel_
                       /\ Linked(s) => given(s).maxlevel_ + 1 = index(s).maxlevel_
  BY <1>1, HeightFacts DEF Sides
<1>3. /\ \A s \in Sides : layer_max_min <= given(s).maxlevel_ /\ layer_max_min \in Nat
      /\ in2.maxlevel_ \in Nat
  BY <1>1, HeightFacts, GivenFacts DEF SetupInv, Sides
<1>4. CASE n \in DOMAIN newLinks
  <2>1. PICK s \in Sides : Linked(s)
    BY <1>1, <1>4 DEF Promoted, Sides
  <2>2. layer_max_min + 1 <= in2.maxlevel_
    BY <1>2, <1>3, <2>1 DEF Sides
  <2> QED BY <1>1, <1>4, <2>2
<1>5. CASE n \notin DOMAIN newLinks
  <2>1. IsArgument(given(1)) /\ IsArgument(given(2))
    BY GivenFacts DEF SetupInv, Sides
  <2>2. levelOf(n) \in 0 .. given(1).maxlevel_ \/ levelOf(n) \in 0 .. given(2).maxlevel_
    <3>1. CASE n \in Ids(given(1))
      BY <2>1, <3>1, MergedFacts DEF IsArgument
    <3>2. CASE n - offset(2) \in Ids(given(2)) /\ n = (n - offset(2)) + offset(2)
      <4> DEFINE k == n - offset(2)
      <4>1. levelOf(k + offset(2)) = given(2).element_levels_[k] /\ k \in Ids(given(2))
        BY <3>2, MergedFacts
      <4>2. given(2).element_levels_[k] \in 0 .. given(2).maxlevel_
        BY <2>1, <4>1 DEF IsArgument
      <4> QED BY <3>2, <4>1, <4>2
    <3> QED BY <3>1, <3>2, MergedFacts
  <2>3. levelOf(n) <= in2.maxlevel_
    BY <1>2, <1>3, <2>2 DEF Sides
  <2> QED BY <1>1, <1>5, <2>3
<1> QED BY <1>4, <1>5

\* The entry point of the result is on the top level, unless all elements on
\* top of an argument are deleted.
LEMMA EntryFits ==
  ASSUME SetupInv, stage = "ready"
  PROVE  /\ alg.enterpoint_node_ >= offset(2)
         /\ \/ alg.element_levels_[alg.enterpoint_node_] = alg.maxlevel_
            \/ Hollow(args[1]) \/ Hollow(args[2])
<1> DEFINE e == in2.enterpoint_node_ + offset(2)
<1>1. /\ alg.maxlevel_ = in2.maxlevel_ /\ alg.enterpoint_node_ = e
      /\ alg.element_levels_ = [n \in ResultIds |-> IF n \in DOMAIN newLinks THEN layer_max_min + 1
                                                    ELSE levelOf(n)]
      /\ DOMAIN newLinks = Promoted
      /\ index(2) = in2 /\ SideOK(1) /\ SideOK(2)
  BY DEF SetupInv, Prepared, index, Sides
<1>2. IsArgument(given(1)) /\ IsArgument(given(2)) /\ 2 \in Sides
  BY GivenFacts DEF SetupInv, Sides
<1>3. CASE Linked(2)
  <2>1. in2.enterpoint_node_ = upper[2][1] /\ upper[2] # <<>> /\ upper[2] \in Seq(Ids(given(2)))
        /\ LayerNodes(given(2), layer_max_min + 1) = {}
    BY <1>1, <1>3 DEF SideOK, Linked
  <2>2. 1 \in DOMAIN upper[2] /\ upper[2][1] \in Ids(given(2)) /\ upper[2][1] \in Range(upper[2])
    BY <2>1 DEF Range
  <2>3. e \in Promoted /\ e \in ResultIds /\ e >= offset(2)
    <3>1. e \in Promoted
      BY <1>3, <2>1, <2>2 DEF Promoted
    <3>2. e \in ResultIds /\ ~ (e < offset(2))
      BY <2>1, <2>2, MergedFacts
    <3>3. e \in Int /\ offset(2) \in Int
      BY <1>2, <2>1, <2>2, MergedFacts DEF Ids
    <3> QED BY <3>1, <3>2, <3>3
  <2>4. alg.element_levels_[e] = layer_max_min + 1
    BY <1>1, <2>3
  <2>5. alg.maxlevel_ = given(2).maxlevel_ + 1
    BY <1>1, <1>2, <1>3, HeightFacts
  <2>6. given(2).maxlevel_ \in Nat /\ layer_max_min \in Nat /\ layer_max_min <= given(2).maxlevel_
    BY <1>2, GivenFacts DEF SetupInv, IsArgument
  <2>7. CASE given(2).maxlevel_ = layer_max_min
    BY <1>1, <2>3, <2>4, <2>5, <2>7
  <2>8. CASE given(2).maxlevel_ >= layer_max_min + 1
    <3>1. \A n \in Ids(given(2)) : given(2).element_levels_[n] \in Int
      BY <1>2 DEF IsArgument
    <3>2. LayerNodes(given(2), given(2).maxlevel_) \subseteq LayerNodes(given(2), layer_max_min + 1)
      BY <2>6, <2>8, <3>1 DEF LayerNodes
    <3>3. given(2) = args[1] \/ given(2) = args[2]
      BY GivenFacts DEF SetupInv
    <3> QED BY <1>1, <2>1, <2>3, <3>2, <3>3 DEF Hollow
  <2> QED BY <2>6, <2>7, <2>8
<1>4. CASE ~ Linked(2)
  <2> DEFINE k == given(2).enterpoint_node_
  <2>1. in2.enterpoint_node_ = k /\ k \in Ids(given(2)) /\ given(2).element_levels_[k] = given(2).maxlevel_
    BY <1>1, <1>2, <1>4 DEF SideOK, IsArgument
  <2>2. /\ e \in ResultIds /\ ~ (e < offset(2)) /\ levelOf(e) = given(2).element_levels_[k]
        /\ e \in Int /\ offset(2) \in Int
    <3>1. k + offset(2) \in ResultIds /\ ~ (k + offset(2) < offset(2))
          /\ levelOf(k + offset(2)) = given(2).element_levels_[k]
      BY <2>1, MergedFacts
    <3>2. k \in Int /\ offset(2) \in Int
      BY <1>2, <2>1, MergedFacts DEF Ids
    <3> QED BY <2>1, <3>1, <3>2
  <2>3. e \notin Promoted
    <3>1. upper[1] \in Seq(Ids(given(1)))
      BY <1>1 DEF SideOK
    <3>2. \A n \in Range(upper[1]) : n \in Ids(given(1))
      BY <3>1 DEF Range
    <3>3. \A n \in Ids(given(1)) : n < offset(2) /\ n + offset(1) = n
      <4>1. \A n \in Ids(given(1)) : n \in Int
        BY <1>2 DEF Ids, IsArgument
      <4> QED BY <4>1, MergedFacts
    <3>4. e \notin Range(upper[1])
      BY <2>2, <3>2, <3>3
    <3> HIDE DEF e
    <3>5. \A n \in Range(upper[1]) : n + offset(1) # e
      BY <3>2, <3>3, <3>4
    <3> QED BY <1>4, <3>5 DEF Promoted
  <2>4. alg.element_levels_[e] = given(2).maxlevel_
    BY <1>1, <2>1, <2>2, <2>3
  <2>5. alg.maxlevel_ = given(2).maxlevel_
    BY <1>1, <1>2, <1>4, HeightFacts
  <2> QED BY <1>1, <2>2, <2>4, <2>5
<1> QED BY <1>3, <1>4

\* A label leads to the element of in2 that carries it, or else to the one
\* of in1.
LEMMA LookupFits ==
  ASSUME SetupInv, stage = "ready", NEW n \in ResultIds
  PROVE  LET found == alg.label_lookup_[labelOf(n)]
         IN  found = n \/ (labelOf(found) = labelOf(n) /\ n < offset(2) /\ found >= offset(2))
<1> DEFINE b == labelOf(n)
           Is(k) == k \in ResultIds /\ labelOf(k) = b /\ \A m \in ResultIds : labelOf(m) = b => m <= k
<1>1. alg.label_lookup_[b] = CHOOSE k \in ResultIds :
                               labelOf(k) = b /\ \A m \in ResultIds : labelOf(m) = b => m <= k
  BY DEF SetupInv, Prepared, LabelLookup
<1>2. offset(2) \in Nat /\ ResultIds \subseteq Int
  BY MergedFacts DEF ResultIds
<1>3. IsArgument(given(1)) /\ IsArgument(given(2))
  BY GivenFacts DEF SetupInv, Sides
<1>4. \A k, m \in ResultIds : labelOf(k) = labelOf(m) /\ k >= offset(2) /\ m >= offset(2) => k = m
  <2> SUFFICES ASSUME NEW k \in ResultIds, NEW m \in ResultIds, labelOf(k) = labelOf(m),
                      k >= offset(2), m >= offset(2)
               PROVE  k = m
    OBVIOUS
  <2>1. /\ k - offset(2) \in Ids(given(2)) /\ m - offset(2) \in Ids(given(2))
        /\ k = (k - offset(2)) + offset(2) /\ m = (m - offset(2)) + offset(2)
    BY <1>2, MergedFacts
  <2>2. /\ labelOf(k) = given(2).label[k - offset(2)]
        /\ labelOf(m) = given(2).label[m - offset(2)]
    BY <2>1, MergedFacts
  <2>3. k - offset(2) = m - offset(2)
    BY <1>3, <2>1, <2>2 DEF IsArgument
  <2> QED BY <1>2, <2>3
<1>5. \A k, m \in ResultIds : labelOf(k) = labelOf(m) /\ k < offset(2) /\ m < offset(2) => k = m
  <2> SUFFICES ASSUME NEW k \in ResultIds, NEW m \in ResultIds, labelOf(k) = labelOf(m),
                      k < offset(2), m < offset(2)
               PROVE  k = m
    OBVIOUS
  <2>1. k \in Ids(given(1)) /\ m \in Ids(given(1))
    <3>1. \A j \in Ids(given(2)) : ~ (j + offset(2) < offset(2))
      BY MergedFacts
    <3> QED BY <3>1, MergedFacts
  <2>2. labelOf(k) = given(1).label[k] /\ labelOf(m) = given(1).label[m]
    BY <2>1, MergedFacts
  <2> QED BY <1>3, <2>1, <2>2 DEF IsArgument
<1>6. \E k : Is(k)
  <2>1. CASE \E k \in ResultIds : k >= offset(2) /\ labelOf(k) = b
    <3> PICK k \in ResultIds : k >= offset(2) /\ labelOf(k) = b
      BY <2>1
    <3>1. \A m \in ResultIds : labelOf(m) = b => m = k \/ m < offset(2)
      BY <1>2, <1>4
    <3>2. Is(k)
      BY <1>2, <3>1
    <3> QED BY <3>2
  <2>2. CASE ~ \E k \in ResultIds : k >= offset(2) /\ labelOf(k) = b
    <3>1. \A m \in ResultIds : labelOf(m) = b => m < offset(2)
      BY <1>2, <2>2
    <3>2. \A m \in ResultIds : labelOf(m) = b => m = n
      BY <1>5, <3>1
    <3>3. Is(n)
      BY <1>2, <3>2
    <3> QED BY <3>3
  <2> QED BY <2>1, <2>2
<1>7. PICK f : f = alg.label_lookup_[b] /\ Is(f)
  BY <1>1, <1>6
<1>8. f \in Int /\ n \in Int /\ n <= f
  BY <1>2, <1>7
<1>9. f = n \/ (n < offset(2) /\ f >= offset(2))
  BY <1>2, <1>4, <1>5, <1>7, <1>8
<1> QED BY <1>7, <1>9

\* A refusal for the heights has one of two reasons.
LEMMA RefusalFits == SetupInv => RefusalReason
<1> SUFFICES ASSUME SetupInv, stage = "thrown", Len(newLayer) <= M_
             PROVE  \/ args[1].count > args[2].count /\ args[1].maxlevel_ < args[2].maxlevel_
                    \/ args[1].maxlevel_ = args[2].maxlevel_ /\ promoted(1) # {} /\ promoted(2) = {}
  BY DEF RefusalReason
<1>1. index(2).maxlevel_ < index(1).maxlevel_
  BY DEF SetupInv, index
<1>2. 1 \in Sides /\ 2 \in Sides /\ ~ TooMany
  <2>1. Len(newLayer) \in Nat
    BY DEF SetupInv
  <2> QED BY <2>1, DrawAssumption DEF Sides, TooMany
<1>3. /\ args[1].maxlevel_ \in Nat /\ args[2].maxlevel_ \in Nat
      /\ args[1].count \in Nat /\ args[2].count \in Nat
      /\ given(1) = (IF Swapped THEN args[2] ELSE args[1])
      /\ given(2) = (IF Swapped THEN args[1] ELSE args[2])
  BY <1>2, GivenFacts DEF SetupInv, IsArgument
<1>4. /\ given(1).maxlevel_ \in Nat /\ given(2).maxlevel_ \in Nat
      /\ index(1).maxlevel_ \in Nat /\ index(2).maxlevel_ \in Nat
      /\ index(2).maxlevel_ >= given(2).maxlevel_
      /\ Linked(1) => index(1).maxlevel_ = given(1).maxlevel_ + 1 /\ upper[1] # <<>>
      /\ ~ Linked(1) => index(1).maxlevel_ = given(1).maxlevel_
      /\ Linked(2) => index(2).maxlevel_ = given(2).maxlevel_ + 1
      /\ ~ Linked(2) => upper[2] = <<>>
  BY <1>2, HeightFacts DEF Linked, TooMany
<1>5. \/ given(1).maxlevel_ > given(2).maxlevel_
      \/ given(1).maxlevel_ = given(2).maxlevel_ /\ Linked(1) /\ ~ Linked(2)
  BY <1>1, <1>4
<1>6. CASE given(1).maxlevel_ > given(2).maxlevel_
  BY <1>3, <1>6 DEF Swapped
<1>7. CASE given(1).maxlevel_ = given(2).maxlevel_ /\ Linked(1) /\ ~ Linked(2)
  <2>1. args[1].maxlevel_ = args[2].maxlevel_
    BY <1>3, <1>7
  <2>2. promoted(2) = {}
    BY <1>4, <1>7 DEF promoted, Range
  <2>3. promoted(1) # {}
    <3>1. upper[1] \in Seq(Ids(given(1))) /\ upper[1] # <<>>
      BY <1>2, <1>4, <1>7 DEF SetupInv, SideOK
    <3>2. 1 \in DOMAIN upper[1]
      BY <3>1
    <3> QED BY <3>2 DEF promoted, Range
  <2> QED BY <2>1, <2>2, <2>3
<1> QED BY <1>5, <1>6, <1>7

\* The invariant that carries the preparation: how far promotion of each side
\* has got determines heights, entry points and the lists of the new level.
THEOREM SetupInvariant == SetupSpec => []SetupInv
BY InitSetup, NextSetup, PTL DEF SetupSpec

\* Control variables keep their types, and only elements of the argument are
\* promoted.
THEOREM SetupTypes == SetupSpec => []SetupTypeOK
<1>1. SetupInv => SetupTypeOK
  <2> SUFFICES ASSUME SetupInv PROVE SetupTypeOK
    OBVIOUS
  <2>1. CASE stage = "order"
    <3>1. \A s \in Sides : Range(upper[s]) = {}
      BY <2>1 DEF SetupInv, Sides, Range
    <3>2. DOMAIN newLinks = {}
      BY <2>1 DEF SetupInv
    <3> QED BY <3>1, <3>2 DEF SetupInv, SetupTypeOK, Sides, promoted
  <2>2. CASE stage # "order"
    <3>1. \A s \in Sides : Range(upper[s]) \subseteq Ids(given(s)) /\ Ids(index(s)) = Ids(given(s))
      <4> SUFFICES ASSUME NEW s \in Sides
                   PROVE  Range(upper[s]) \subseteq Ids(given(s)) /\ Ids(index(s)) = Ids(given(s))
        OBVIOUS
      <4>1. SideOK(s)
        BY <2>2 DEF SetupInv
      <4>2. upper[s] \in Seq(Ids(given(s)))
        BY <4>1 DEF SideOK
      <4>3. Range(upper[s]) \subseteq Ids(given(s))
        BY <4>2 DEF Range
      <4>4. Ids(index(s)) = Ids(given(s))
        BY <4>1, SameLayers
      <4> QED BY <4>3, <4>4
    <3>2. \A s \in Sides : \A n \in Ids(given(s)) : n + offset(s) \in ResultIds
      <4>1. \A n \in Ids(given(1)) : n + offset(1) = n
        BY <2>2, MergedFacts, GivenFacts DEF SetupInv, IsArgument, Ids, Sides
      <4> QED BY <2>2, <4>1, MergedFacts DEF Sides
    <3>3. Promoted \subseteq ResultIds
      BY <3>1, <3>2 DEF Promoted, Sides
    <3> QED BY <2>2, <3>1, <3>3 DEF SetupInv, SetupTypeOK, Sides, promoted
  <2> QED BY <2>1, <2>2
<1> QED BY <1>1, SetupInvariant, PTL

\* The result of the preparation is an index: its entry point is an element of
\* in2 on its top level and no element is higher, unless an argument has only
\* deleted elements on top.  Of in1 and in2 themselves, which promotion raises
\* without lists, nothing is said.
THEOREM SetupEntryPoint == SetupSpec => []EntryPointOnTop
<1>1. SetupInv => EntryPointOnTop
  BY EntryFits, LevelsFit DEF EntryPointOnTop
<1> QED BY <1>1, SetupInvariant, PTL

\* A label of a live element leads to a live element, unless a deleted element
\* of in2 carries it too.
THEOREM SetupLabels == SetupSpec => []LiveLabelsFound
<1>1. SetupInv => LiveLabelsFound
  <2> SUFFICES ASSUME SetupInv, stage = "ready", NEW n \in ResultIds, ~ Deleted(n)
               PROVE  LET found == alg.label_lookup_[labelOf(n)]
                      IN  /\ labelOf(found) = labelOf(n)
                          /\ ~ Deleted(found) \/ (n < offset(2) /\ found >= offset(2))
    BY DEF LiveLabelsFound
  <2> QED BY LookupFits
<1> QED BY <1>1, SetupInvariant, PTL

\* A pair is refused because the larger index came first and is the lower one,
\* or because of two equally high only the first was promoted.
THEOREM SetupRefusal == SetupSpec => []RefusalReason
BY RefusalFits, SetupInvariant, PTL
===============================================================================
