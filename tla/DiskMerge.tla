------------------------------- MODULE DiskMerge -------------------------------
(***************************************************************************)
(* The state that the two versions of HNSWMerger_ME share                  *)
(* (memory-optimize.h and memory-optimize-limit2G.h), and what both        *)
(* compute from it.  Each works down the levels; on a level it searches    *)
(* index2 for the elements of index1, in batches, and then connects the    *)
(* elements of index2 to those that found them.  Every new list goes       *)
(* straight to the merged file.                                            *)
(***************************************************************************)
EXTENDS DiskReference

VARIABLES
  index1, index2,  \* the input files; index1 is the smaller one once ordered
  file,            \* the lists of the merged file: level -> id -> slot
  pc, level,
  b, i,            \* start of the batch, position of the element
  ep,              \* entry_point_collect_index1_on_index2
  cands,           \* candidateSetIndex2
  lists1, lists2,  \* lists in memory, of index1 with their distances
  dists2,          \* elements of index2 whose distances are in memory
  missed           \* what was read without being in memory

off == index1.count
data == MergedData(index1, index2)

\* The positions of a batch that starts at b, of n in all
Window(size, n) == b .. Lower(b + size, n) - 1

\* layer_node_for_index2[level][k]
Element2(k) ==
  CHOOSE n \in Layer(index2, level) : Cardinality({m \in Layer(index2, level) : m < n}) = k
Size2 == Cardinality(Layer(index2, level))

\* The one with fewer elements comes first, unless the other is not higher.
Swaps == index1.count > index2.count \/ index1.maxlevel_ > index2.maxlevel_
Smaller == IF Swaps THEN index2 ELSE index1
Larger == IF Swaps THEN index1 ELSE index2

\* The lists of some elements, as get_list_at_level_from_disk_batch reads them
ReadLists(ix, ids) == [n \in ids |-> SavedList(ix, level, n)]

Finished(l) == l \in Levels(index2) /\ (level < l \/ pc = "done")
===============================================================================
