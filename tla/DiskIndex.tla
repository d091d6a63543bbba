------------------------------- MODULE DiskIndex -------------------------------
(***************************************************************************)
(* What the two disk-based merges (memory-optimize.h and                   *)
(* memory-optimize-limit2G.h) share: the layout of lists in an index file, *)
(* the search and the selection over lists and vectors that were read from *)
(* a file, and the list an element gets in the merged file.                *)
(*                                                                         *)
(* A list is a function from neighbours to the distances stored beside     *)
(* them.  A slot of a file is a list under a count; the two agree in a     *)
(* file that an index was saved to.                                        *)
(***************************************************************************)
EXTENDS HNSWAlgorithms, Sequences

CONSTANTS
  DiskPairs,  \* the two input files, in the order they are named
  M,          \* M_ of both inputs and of the result
  Lambda,     \* lambda: how many elements a forward search returns
  Alpha       \* alpha as a fraction <<numerator, denominator>>

\* An index has the fields HNSWIndex lists and no other.
IsRecord(ix) ==
  ix = [count |-> ix.count, element_levels_ |-> ix.element_levels_, links |-> ix.links,
        deleted |-> ix.deleted, data |-> ix.data, maxlevel_ |-> ix.maxlevel_,
        enterpoint_node_ |-> ix.enterpoint_node_]

ASSUME DiskAssumption ==
  /\ M \in Nat \ {0} /\ Lambda \in Nat \ {0}
  /\ \A p \in DiskPairs : \A ix \in {p[1], p[2]} : WellFormed(ix, M) /\ IsRecord(ix)

Levels(ix) == 0 .. ix.maxlevel_
Shift(S, k) == {x + k : x \in S}
Lower(m, n) == IF m < n THEN m ELSE n

\* searchNodeOnEachLayer(result, combine = true): deleted elements stay
Layer(ix, l) == {n \in Ids(ix) : ix.element_levels_[n] >= l}

\* The list of n on level l as saveIndex wrote it
SavedList(ix, l, n) == [c \in ix.links[l][n] |-> Dist(ix.data[n], ix.data[c])]

Slot(list) == [count |-> Cardinality(DOMAIN list), list |-> list]

\* A list under the ids of the merged file, and two lists in one
Moved(list, k) == [c \in Shift(DOMAIN list, k) |-> list[c - k]]
Joined(a, b) == [c \in DOMAIN a \cup DOMAIN b |-> IF c \in DOMAIN a THEN a[c] ELSE b[c]]

\* The merged file as copy_file_region leaves it: the lists of one input after
\* those of the other, each with the ids of its own file.
CopiedFile(ix1, ix2) ==
  [l \in Levels(ix2) |->
     [n \in 0 .. ix1.count + ix2.count - 1 |->
        IF n >= ix1.count THEN Slot(SavedList(ix2, l, n - ix1.count))
        ELSE IF l \in Levels(ix1) THEN Slot(SavedList(ix1, l, n))
        ELSE Slot(<<>>)]]

MergedData(ix1, ix2) ==
  [n \in 0 .. ix1.count + ix2.count - 1 |->
     IF n < ix1.count THEN ix1.data[n] ELSE ix2.data[n - ix1.count]]

-------------------------------------------------------------------------------
\* An index as a search sees it: the lists of level l that are in memory, the
\* vectors that are
InMemory(ix, l, lists, vectors) ==
  [ix EXCEPT !.links[l] = [n \in Ids(ix) |-> IF n \in DOMAIN lists THEN DOMAIN lists[n] ELSE {}],
             !.data = vectors]

Start(ix, ep) == IF ep = NoEntry THEN ix.enterpoint_node_ ELSE ep

\* search2Layer without result: one level down
NextEntry(ix, q, ep, l) == Descend(ix, q, Start(ix, ep), l)

\* search2Layer with result: the elements found with their distances;
\* deletion marks are not looked at
Found(ix, q, ep, l) ==
  [c \in Beam(ix, q, Start(ix, ep), l, Lambda, {}, FALSE) |-> Dist(q, ix.data[c])]

\* Heap order of a list: a comes off queue_closest before b
Before(list, a, b) == list[a] < list[b] \/ (list[a] = list[b] /\ a > b)

Kth(list, k) ==
  CHOOSE c \in DOMAIN list :
    Cardinality({d \in DOMAIN list : Before(list, d, c)}) = k - 1

\* getNeighborsByHeuristic2: distances to the owner come from the list, those
\* between neighbours from the cached vectors
Selected(list, vectors, m) ==
  LET n == Cardinality(DOMAIN list)
      occluded(kept, c) ==
        \E r \in kept : Alpha[1] * Dist(vectors[r], vectors[c]) < Alpha[2] * list[c]
      kept[k \in 0 .. n] ==
        IF k = 0 THEN {}
        ELSE LET before == kept[k - 1]
                 c == Kth(list, k)
             IN IF Cardinality(before) < m /\ ~ occluded(before, c) THEN before \cup {c} ELSE before
  IN [c \in kept[n] |-> list[c]]

Overflows(cands, old, l) ==
  Cardinality(DOMAIN cands) + Cardinality(DOMAIN old) > Mcurmax(M, l)

\* The list that setLinkList and setDistList write for an element
Connected(cands, old, vectors, l) ==
  IF Overflows(cands, old, l)
  THEN Selected(Joined(cands, old), vectors, Mcurmax(M, l))
  ELSE Joined(cands, old)

\* Mutant: only the last search that found an element counts
AddLast(cands, found, i) ==
  [j \in DOMAIN cands |-> IF j \in DOMAIN found THEN [n \in {i} |-> found[j]] ELSE cands[j]]

\* What each element of index2 was found by, after one more forward search
AddCandidates(cands, found, i) ==
  [j \in DOMAIN cands |->
     IF j \in DOMAIN found THEN Joined(cands[j], [n \in {i} |-> found[j]]) ELSE cands[j]]

\* The distance beside an entry is the one of its predecessor.
Misaligned == -1

\* deepCopyOneLayerOnIndex hands setLinkList the first entry, not the header
\* word before it: the first neighbour becomes the count (16 bits of it), the
\* others move up.
CopiedSlots(list, k) ==
  IF DOMAIN list = {} THEN {Slot(<<>>)}
  ELSE {[count |-> (first + k) % 2 ^ 16,
         list |-> [c \in Shift(DOMAIN list \ {first}, k) |-> Misaligned]] : first \in DOMAIN list}
===============================================================================
