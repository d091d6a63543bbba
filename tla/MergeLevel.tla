------------------------------ MODULE MergeLevel ------------------------------
(***************************************************************************)
(* What HNSWMerger (extension.h) does to one element of one level, shared  *)
(* by the one-level-at-a-time specification MergeSpec and the parallel     *)
(* algorithm HNSWMerge.  The two procedures a merge relies on are          *)
(* parameters, so that what is proved holds for every search and every     *)
(* selection rule that respects the assumptions below; the model checker   *)
(* gets the code's own (HNSWAlgorithms).                                   *)
(***************************************************************************)
EXTENDS HNSWIndex

CONSTANTS
  Pairs,      \* the inputs: pairs <<index1, index2>> as they stand after
              \* HNSWMerger has ordered them (index1 is not higher)
  M,          \* M_ of both inputs and of the result
  Lambda,     \* lambda: how many elements a forward search returns
  LayerSearch(_, _, _, _, _, _),
  Heuristic(_, _, _, _)

Offset(ix1) == ix1.count
MergedIds(ix1, ix2) == 0 .. (ix1.count + ix2.count - 1)
Levels(ix2) == 0 .. ix2.maxlevel_
Shift(S, k) == {x + k : x \in S}

\* memcpy of both level-0 blocks: the vectors, one index after the other
MergedData(ix1, ix2) ==
  [n \in MergedIds(ix1, ix2) |->
     IF n < Offset(ix1) THEN ix1.data[n] ELSE ix2.data[n - Offset(ix1)]]

\* allocateMemory (and the raw copy for level 0): the top level of an element
MergedLevels(ix1, ix2) ==
  [n \in MergedIds(ix1, ix2) |->
     IF n < Offset(ix1) THEN ix1.element_levels_[n]
     ELSE ix2.element_levels_[n - Offset(ix1)]]

\* DELETE_MARK is part of the copied level-0 block
MergedDeleted(ix1, ix2) == ix1.deleted \cup Shift(ix2.deleted, Offset(ix1))

\* The copied level-0 block carries the lists of both indexes with the ids
\* they had there; the upper lists are allocated and zeroed.
CopiedLinks(ix1, ix2) ==
  [l \in Levels(ix2) |->
     [n \in MergedIds(ix1, ix2) |->
        IF l > 0 THEN {}
        ELSE IF n < Offset(ix1) THEN ix1.links[0][n]
        ELSE ix2.links[0][n - Offset(ix1)]]]

\* The lists of the two inputs under the ids of the result
OldLinks1(ix1, l, i) == ix1.links[l][i]

\* Mutant: the ids of index2 are not moved behind those of index1
OldLinks2Unshifted(ix1, ix2, l, j) == ix2.links[l][j]

OldLinks2(ix1, ix2, l, j) == Shift(ix2.links[l][j], Offset(ix1))

\* Without an entry point of its own a search starts at the top of index2
HigherLevel(ix2, ep, l) == IF ep = NoEntry THEN ix2.maxlevel_ ELSE l

\* Mutant: the entry point is kept as an id of the result, not of index2
ForwardOffsetEntry(ix1, ix2, ep, l, i) ==
  [LayerSearch(ix2, ix1.data[i], ep, HigherLevel(ix2, ep, l), l, Lambda)
     EXCEPT !.ep = @ + Offset(ix1)]

\* The forward search of element i of index1 on level l of index2, from the
\* entry point its search one level up left behind
Forward(ix1, ix2, ep, l, i) ==
  LayerSearch(ix2, ix1.data[i], ep, HigherLevel(ix2, ep, l), l, Lambda)

\* Mutant: the old neighbours are not counted
ConnectCountingCandidates(data, l, n, cands, old) ==
  IF Cardinality(cands) > Mcurmax(M, l)
  THEN Heuristic(data, data[n], cands \cup old, Mcurmax(M, l))
  ELSE cands \cup old

\* The new list of n: all candidates and all old neighbours when they fit,
\* a selection of them otherwise
Connect(data, l, n, cands, old) ==
  IF Cardinality(cands) + Cardinality(old) > Mcurmax(M, l)
  THEN Heuristic(data, data[n], cands \cup old, Mcurmax(M, l))
  ELSE cands \cup old

\* Mutant: the candidates of the forward searches are ignored
ConnectBackwardKeepingOld(data, l, n, cands, old) == old

\* The list of element j of index2: its old one when no forward search found it
ConnectBackward(data, l, n, cands, old) ==
  IF cands = {} THEN old ELSE Connect(data, l, n, cands, old)

-------------------------------------------------------------------------------

\* memcpy of the level-0 blocks of both inputs uses the element size of the
\* result, so all three have the same M.
ASSUME MAssumption == M \in Nat \ {0}

ASSUME LambdaAssumption == Lambda \in Nat \ {0}

\* The inputs are indexes, and the one HNSWMerger calls index2 is not the
\* lower one (it throws otherwise).  Pairs it promotes elements of are none of
\* them: promotion (extension.h 545-554) raises the index above its lists, and
\* the level loop then reads lists that do not exist (LayersHaveLists of MergeSetup).
ASSUME PairsAssumption ==
  \A p \in Pairs : /\ WellFormed(p[1], M)
                   /\ WellFormed(p[2], M)
                   /\ p[1].maxlevel_ <= p[2].maxlevel_

\* The forward searches of all merges: which index is searched, for what
Searches == UNION {{<<p[2], p[1].data[i]>> : i \in Ids(p[1])} : p \in Pairs}

\* A forward search returns at most Lambda live elements of the level it is
\* asked for, and leaves an element of that level as the next entry point.
ASSUME SearchAssumption ==
  \A s \in Searches : \A l \in Levels(s[1]) :
    \A ep \in {NoEntry} \cup {n \in Ids(s[1]) : s[1].element_levels_[n] >= l} :
      LET res == LayerSearch(s[1], s[2], ep, HigherLevel(s[1], ep, l), l, Lambda)
      IN  /\ res.top \subseteq LayerNodes(s[1], l)
          /\ Cardinality(res.top) <= Lambda
          /\ res.ep \in {ep} \cup LayerNodes(s[1], l)

\* Selection returns some of the candidates, at most m of them.
ASSUME HeuristicAssumption ==
  \A d \in {MergedData(p[1], p[2]) : p \in Pairs} :
    \A C \in SUBSET DOMAIN d, n \in DOMAIN d, m \in {M, 2 * M} :
      LET kept == Heuristic(d, d[n], C, m)
      IN  /\ kept \subseteq C
          /\ Cardinality(kept) <= m
=============================================================================
