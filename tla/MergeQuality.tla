----------------------------- MODULE MergeQuality -----------------------------
(***************************************************************************)
(* What a merged index is worth: statements about the result of HNSWMerge  *)
(* that need the code's own search and selection, those of HNSWAlgorithms. *)
(***************************************************************************)
EXTENDS HNSWMerge, BackwardSearch

CONSTANT Alpha   \* alpha as a fraction <<numerator, denominator>>

Code == INSTANCE HNSWAlgorithms

\* alg_hnsw as HNSWMerger returns it
mergedIndex ==
  [count            |-> index1.count + index2.count,
   element_levels_  |-> mergedLevels,
   links            |-> links,
   deleted          |-> mergedDeleted,
   data             |-> data,
   maxlevel_        |-> index2.maxlevel_,
   enterpoint_node_ |-> index2.enterpoint_node_ + off]

\* num_deleted_ of the result: set by the constructor, not updated by the copy
\* of the level-0 blocks
mergedNumDeleted == 0

returned == phase = "level" /\ level = -1

\* The two stages agree: on a merged level an edge from an element of index1
\* into index2 has its inverse, unless the list of its target is full or a
\* neighbour kept there occludes the element (the selection rule).
BackwardConnected ==
  \A l \in level + 1 .. index2.maxlevel_ :
    \A i \in LayerNodes(index1, l), j \in Shift(LayerNodes(index2, l), off) :
      j \in links[l][i] =>
        \/ i \in links[l][j]
        \/ Cardinality(links[l][j]) = Mcurmax(M, l)
        \/ \E r \in links[l][j] : Code!Occludes(data, data[j], Alpha, r, i)

\* No list on level 0 has reached its bound, so that no selection dropped a
\* neighbour for want of room
ListsHaveRoom ==
  \A n \in Merged : Cardinality(links[0][n]) < Mcurmax(M, 0)

\* On level 0 nothing had to be selected: what the searches found fitted beside
\* the old neighbours, for every element of both indexes
NothingDropped ==
  /\ \A i \in Ids(index1) :
       Cardinality({j \in Ids(index2) : i \in candidateSetIndex2[j]})
         + Cardinality(index1.links[0][i]) <= Mcurmax(M, 0)
  /\ \A j \in Ids(index2) :
       Cardinality(candidateSetIndex2[j]) + Cardinality(index2.links[0][j]) <= Mcurmax(M, 0)

\* Where no list on level 0 is full in the end, or none overflowed, a query for
\* the vector of an element finds the element: the merge has connected every
\* element of index1 to the graph that the entry point, an element of index2,
\* belongs to.  (Inputs with deletions are left to DeletedNeverFound.)
FindsEveryElement ==
  returned /\ mergedDeleted = {} /\ (ListsHaveRoom \/ NothingDropped) =>
    \A n \in Merged :
      Code!searchKnn(mergedIndex, mergedNumDeleted, data[n], 1, index1.count + index2.count) = {n}

\* Some list on level 0 has reached its bound
Full(ix) == \E n \in Ids(ix) : Cardinality(ix.links[0][n]) >= Mcurmax(M, 0)

\* The same of HNSWMerger_BS, whatever it draws for a new level: both stages
\* search with the entry points of their own earlier searches, and the elements
\* of the new level keep their place in the levels below.  (Left out: a draw
\* that overflows the lists of the new level, and one from indexes that have
\* only level 0, where the promoted elements keep the lists they had in their
\* own index.)
BackwardSearchFindsEveryElement ==
  returned /\ mergedDeleted = {} =>
    \A promoted \in Promotions(index1, index2) :
      LET merged == MergedBySearch(index1, index2, promoted)
      IN  \/ Cardinality(promoted) > M + 1
          \/ promoted # {} /\ index2.maxlevel_ = 0
          \/ Full(merged)
          \/ \A n \in Merged : Code!searchKnn(merged, 0, data[n], 1, merged.count) = {n}

\* A query never returns an element that is marked deleted.
DeletedNeverFound ==
  returned =>
    \A n \in Merged :
      Code!searchKnn(mergedIndex, mergedNumDeleted, data[n], 1, 1) \cap mergedDeleted = {}

\* checkIntegrity: no list of the result, of whatever element, holds its owner.
NoSelfLink ==
  returned => \A l \in Levels(index2), n \in Merged : n \notin links[l][n]
=============================================================================
