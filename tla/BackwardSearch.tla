---------------------------- MODULE BackwardSearch ----------------------------
(***************************************************************************)
(* HNSWMerger_BS (extension.h), the merge that HNSWMerger is compared      *)
(* with: the backward stage searches index1 for every element of index2    *)
(* instead of using what the forward stage found.  The threads of its      *)
(* loops write nothing that another one reads, so that the result is a     *)
(* function of the inputs and of the elements drawn for a new level.       *)
(*                                                                         *)
(* index1 is not higher than index2, and nothing is deleted: otherwise the *)
(* top level of index2 may have no live element, and the code takes the    *)
(* first one of an empty vector for the entry point.                       *)
(***************************************************************************)
EXTENDS MergeLevel

LOCAL Smallest(S) == CHOOSE n \in S : \A m \in S : n <= m

\* The elements filter_and_remove may promote from a crowded top level: among
\* M + 1 in a row there is always one.
Promotions(ix1, ix2) ==
  LET top == LayerNodes(ix1, ix2.maxlevel_)
             \cup Shift(LayerNodes(ix2, ix2.maxlevel_), Offset(ix1))
      row(n) == {m \in top : n <= m /\ Cardinality({k \in top : n <= k /\ k < m}) <= M}
  IN IF Cardinality(top) <= M THEN {{}}
     ELSE {S \in SUBSET top : \A n \in top : Cardinality(row(n)) > M => row(n) \cap S # {}}

\* The entry point from which n of one index is searched for in the other on
\* level l: what its searches on the levels above left behind
EntryOn(from, to, searched, top, l, n) ==
  LET at[k \in l .. top] ==
        IF k = top THEN NoEntry
        ELSE IF k + 1 \in searched THEN Forward(from, to, at[k + 1], k + 1, n).ep
        ELSE at[k + 1]
  IN at[l]

\* Mutant: what the backward stage finds gets the offset of index2
FoundBackwardShifted(ix1, ix2, ep, l, j) == Shift(Forward(ix2, ix1, ep, l, j).top, Offset(ix1))

\* What the backward stage finds for element j of index2: elements of index1
FoundBackward(ix1, ix2, ep, l, j) == Forward(ix2, ix1, ep, l, j).top

\* The lists of the result.  A promoted element is erased from its layer on
\* the level it leaves, and its list there stays as it was allocated or copied.
LinksBySearch(ix1, ix2, promoted) ==
  LET off == Offset(ix1)
      top == ix2.maxlevel_
      data == MergedData(ix1, ix2)
      layer1(l) == LayerNodes(ix1, l) \ (IF l = top THEN promoted ELSE {})
      layer2(l) == LayerNodes(ix2, l) \ (IF l = top THEN Shift(promoted, - off) ELSE {})
      both(l) == layer1(l) # {} /\ layer2(l) # {}
      searched1(i) == {l \in 0 .. top : both(l) /\ i \in layer1(l)}
      searched2(j) == {l \in 0 .. top : both(l) /\ j \in layer2(l)}
      found1(l, i) == Shift(Forward(ix1, ix2, EntryOn(ix1, ix2, searched1(i), top, l, i), l, i).top, off)
      found2(l, j) == FoundBackward(ix1, ix2, EntryOn(ix2, ix1, searched2(j), top, l, j), l, j)
      list1(l, i) == IF both(l) THEN Connect(data, l, i, found1(l, i), OldLinks1(ix1, l, i))
                     ELSE OldLinks1(ix1, l, i)
      list2(l, j) == IF both(l) THEN Connect(data, l, j + off, found2(l, j), OldLinks2(ix1, ix2, l, j))
                     ELSE OldLinks2(ix1, ix2, l, j)
  IN [l \in 0 .. top + 1 |-> [n \in MergedIds(ix1, ix2) |->
        IF l > top THEN IF n \in promoted THEN promoted \ {n} ELSE {}
        ELSE IF n \in layer1(l) THEN list1(l, n)
        ELSE IF n - off \in layer2(l) THEN list2(l, n - off)
        ELSE CopiedLinks(ix1, ix2)[l][n]]]

\* alg_hnsw as HNSWMerger_BS returns it
MergedBySearch(ix1, ix2, promoted) ==
  [count            |-> ix1.count + ix2.count,
   element_levels_  |-> [n \in MergedIds(ix1, ix2) |->
                           IF n \in promoted THEN ix2.maxlevel_ + 1
                           ELSE MergedLevels(ix1, ix2)[n]],
   links            |-> LinksBySearch(ix1, ix2, promoted),
   deleted          |-> MergedDeleted(ix1, ix2),
   data             |-> MergedData(ix1, ix2),
   maxlevel_        |-> IF promoted = {} THEN ix2.maxlevel_ ELSE ix2.maxlevel_ + 1,
   enterpoint_node_ |-> IF promoted = {}
                        THEN Offset(ix1) + Smallest(LayerNodes(ix2, ix2.maxlevel_))
                        ELSE Smallest(promoted)]
===============================================================================
