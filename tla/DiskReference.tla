---------------------------- MODULE DiskReference ----------------------------
(***************************************************************************)
(* The merge in memory (MergeLevel) run on the inputs of a disk merge: the *)
(* result the disk merges are measured against.  HNSWMerger may first     *)
(* promote elements of a crowded top level (extension.h 501-554), which    *)
(* the disk merges never do and MergeLevel leaves out: the comparison is   *)
(* with HNSWMerger for pairs it does not promote.                          *)
(***************************************************************************)
EXTENDS DiskIndex

Layerwise(ix, q, e, hi, lo, lambda) == search2Layer(ix, q, e, hi, lo, lambda)
Select(d, q, C, m) == getNeighborsByHeuristic2(d, q, C, m, Alpha)

Memory == INSTANCE MergeLevel WITH
  Pairs <- DiskPairs, LayerSearch <- Layerwise, Heuristic <- Select

\* entry_point_collect_index1_on_index2 above level l
Entries(ix1, ix2) ==
  LET at[l \in 0 .. ix2.maxlevel_] ==
        IF l = ix2.maxlevel_ THEN [i \in Ids(ix1) |-> NoEntry]
        ELSE [i \in Ids(ix1) |->
                IF i \in LayerNodes(ix1, l + 1)
                THEN Memory!Forward(ix1, ix2, at[l + 1][i], l + 1, i).ep ELSE NoEntry]
  IN at

\* The lists of the result; the top levels of the inputs are the same
MergedInMemory(ix1, ix2) ==
  LET entries == Entries(ix1, ix2)
      off == ix1.count
      found == [l \in Levels(ix2) |-> [i \in LayerNodes(ix1, l) |->
                  Memory!Forward(ix1, ix2, entries[l][i], l, i).top]]
      finders(l, j) == {i \in LayerNodes(ix1, l) : j \in found[l][i]}
      merged == Memory!MergedData(ix1, ix2)
  IN [l \in Levels(ix2) |-> [n \in DOMAIN merged |->
        IF n \in LayerNodes(ix1, l)
        THEN Memory!Connect(merged, l, n, Shift(found[l][n], off), Memory!OldLinks1(ix1, l, n))
        ELSE IF n - off \in LayerNodes(ix2, l)
        THEN Memory!ConnectBackward(merged, l, n, finders(l, n - off),
                                    Memory!OldLinks2(ix1, ix2, l, n - off))
        ELSE {}]]
===============================================================================
