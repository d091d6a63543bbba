----------------------------- MODULE MCMergeSetup -----------------------------
(***************************************************************************)
(* Small arguments for MergeSetup: indexes of one to three elements on one *)
(* or two levels, with and without a deleted element, whose labels are     *)
(* disjoint or overlap.                                                    *)
(***************************************************************************)
EXTENDS MergeSetup

\* All indexes of n elements whose labels count up from first
OfSize(n, first) ==
  LET N == 0 .. n - 1
      highest(lv) == IF \E i \in N : lv[i] = 1 THEN 1 ELSE 0
  IN UNION {
       {[count |-> n, element_levels_ |-> lv, maxlevel_ |-> highest(lv),
         enterpoint_node_ |-> e, deleted |-> del, label |-> [i \in N |-> first + i]] :
           e \in {i \in N : lv[i] = highest(lv)},
           del \in {{}, {n - 1}} \ {N}} :
       lv \in [N -> {0, 1}]}

Sized(sizes, first) == UNION {OfSize(n, first) : n \in sizes}

\* A top level on which everything is deleted, above three live elements
HollowTop == {ix \in OfSize(4, 10) : ix.maxlevel_ = 1 /\ LayerNodes(ix, 1) = {}}

MCArguments == Sized({1, 3}, 0) \X (Sized({2, 3}, 10) \cup OfSize(3, 2))
                \cup Sized({2, 3}, 0) \X OfSize(1, 10)
                \cup Sized({3}, 0) \X HollowTop \cup HollowTop \X Sized({3}, 0)

\* Crowded top levels on both sides
Flat(n, first) == {ix \in OfSize(n, first) : ix.maxlevel_ = 0}
MCCrowded == Flat(3, 0) \X Flat(3, 10)

\* A crowded index2 beside an index1 of one element
MCCrowdedBesideOne == Flat(1, 0) \X Flat(3, 10)
=============================================================================
