------------------------------ MODULE HNSWIndex ------------------------------
(***************************************************************************)
(* The data of one HNSW index (hnswalg.h, class HierarchicalNSW) as a      *)
(* record, and the operators that every module of the project shares.      *)
(*                                                                         *)
(* An index is a record with the fields                                    *)
(*   count            cur_element_count; internal ids are 0 .. count-1     *)
(*   element_levels_  id |-> the top level of the element                  *)
(*   links            level |-> id |-> set of ids on its list (the order   *)
(*                    of a list is abstracted; a list of a level the       *)
(*                    element does not have is {})                         *)
(*   deleted          the ids that carry DELETE_MARK                       *)
(*   data             id |-> vector (a point on a line: an integer)        *)
(*   maxlevel_, enterpoint_node_                                           *)
(***************************************************************************)
EXTENDS Integers, FiniteSets

\* tableint -1: no entry point is known yet
NoEntry == -1

Ids(ix) == 0 .. (ix.count - 1)

\* L2Sqr in one dimension: only the order of distances matters to the code
Dist(x, y) == (x - y) * (x - y)

\* searchNodeOnEachLayer(result, combine = true): result[l] after the
\* cumulative pass holds the elements of level l or higher, deleted ones left out
LayerNodes(ix, l) ==
  {n \in Ids(ix) : n \notin ix.deleted /\ ix.element_levels_[n] >= l}

\* level ? maxM_ : maxM0_, with maxM_ = M and maxM0_ = 2 * M
Mcurmax(M, l) == IF l = 0 THEN 2 * M ELSE M

\* What insertion, deletion and loading leave in an index: the entry point
\* sits on the top level, a list holds at most Mcurmax elements of its level
\* and never its owner.
WellFormed(ix, M) ==
  /\ ix.count \in Nat \ {0}
  /\ ix.maxlevel_ \in Nat
  /\ ix.element_levels_ \in [Ids(ix) -> 0 .. ix.maxlevel_]
  /\ ix.data \in [Ids(ix) -> Int]
  /\ ix.deleted \in SUBSET Ids(ix)
  /\ ix.enterpoint_node_ \in Ids(ix)
  /\ ix.element_levels_[ix.enterpoint_node_] = ix.maxlevel_
  /\ ix.links \in [0 .. ix.maxlevel_ -> [Ids(ix) -> SUBSET Ids(ix)]]
  /\ \A l \in 0 .. ix.maxlevel_, n \in Ids(ix) :
       /\ ix.element_levels_[n] < l => ix.links[l][n] = {}
       /\ \A c \in ix.links[l][n] : c # n /\ ix.element_levels_[c] >= l
       /\ IsFiniteSet(ix.links[l][n])
       /\ Cardinality(ix.links[l][n]) <= Mcurmax(M, l)
=============================================================================
