---------------------------- MODULE HNSWAlgorithms ----------------------------
(***************************************************************************)
(* The pure algorithms of the index: neighbour selection                   *)
(* (getNeighborsByHeuristic2), the greedy descent and beam of search2Layer *)
(* and the query searchKnn.  Heaps are sets ordered by distance.  Pairwise *)
(* distinct distances make the result independent of the order inside a    *)
(* list, which is why lists are sets here; ties between pairs on a heap    *)
(* are broken as std::pair compares them, by id.                           *)
(***************************************************************************)
EXTENDS HNSWIndex

\* Heap order of (distance to q, id): a comes off queue_closest before b
Closer(data, q, a, b) ==
  \/ Dist(q, data[a]) < Dist(q, data[b])
  \/ Dist(q, data[a]) = Dist(q, data[b]) /\ a > b

\* The k-th element, counted from 1, of C by distance to q
KthClosest(data, q, C, k) ==
  CHOOSE c \in C : Cardinality({d \in C : Closer(data, q, d, c)}) = k - 1

Nearest(data, q, C) == KthClosest(data, q, C, 1)

\* The (at most) k elements of C closest to q
Closest(data, q, C, k) ==
  {c \in C : Cardinality({d \in C : Closer(data, q, d, c)}) < k}

\* curdist * alpha < dist_to_query for a kept r, alpha = alpha[1] / alpha[2]
Occludes(data, q, alpha, r, c) ==
  alpha[1] * Dist(data[r], data[c]) < alpha[2] * Dist(q, data[c])

\* getNeighborsByHeuristic2(top_candidates, m, collect_metrics = false, -1, alpha):
\* candidates are taken nearest first, until m are kept; one is kept unless an
\* element kept before occludes it.
getNeighborsByHeuristic2(data, q, C, m, alpha) ==
  LET kept[k \in 0 .. Cardinality(C)] ==
        IF k = 0 THEN {}
        ELSE LET before == kept[k - 1]
                 c == KthClosest(data, q, C, k)
             IN  IF /\ Cardinality(before) < m
                    /\ \A r \in before : ~ Occludes(data, q, alpha, r, c)
                 THEN before \cup {c}
                 ELSE before
  IN kept[Cardinality(C)]

\* while (changed): move to the closest neighbour at level l until none is
\* closer than the current element
Descend(ix, q, start, l) ==
  LET closerThan(n) == {c \in ix.links[l][n] : Dist(q, ix.data[c]) < Dist(q, ix.data[n])}
      walk[n \in Ids(ix)] ==
        IF closerThan(n) = {} THEN n ELSE walk[Nearest(ix.data, q, closerThan(n))]
  IN walk[start]

\* for (level = level_higher; level > level_lower; level--)
DescendFrom(ix, q, start, hi, lo) ==
  LET at[l \in lo .. hi] == IF l = hi THEN start ELSE Descend(ix, q, at[l + 1], l + 1)
  IN at[lo]

\* lowerBound: the distance of the farthest element of top, unbounded while
\* top is empty
BelowBound(ix, q, top, n) ==
  \/ top = {}
  \/ \E t \in top : Dist(q, ix.data[n]) < Dist(q, ix.data[t])

\* The beam at level l: candidates are expanded nearest first, top keeps the
\* ef closest elements found outside `hidden' (the deleted ones, or {} when
\* deletions are ignored).
BeamStart(start, hidden) ==
  [cand |-> {start}, visited |-> {start}, top |-> {start} \ hidden]

\* The loop is left: `early' drops the size test of the rule.
BeamStops(ix, q, ef, early, s) ==
  \/ s.cand = {}
  \/ LET n == Nearest(ix.data, q, s.cand)
     IN  /\ s.top # {}
         /\ ~ (\E t \in s.top : Dist(q, ix.data[n]) <= Dist(q, ix.data[t]))
         /\ early \/ Cardinality(s.top) = ef

BeamExpand(ix, q, l, ef, hidden, s) ==
  LET n == Nearest(ix.data, q, s.cand)
      new == ix.links[l][n] \ s.visited
      considered == {c \in new : Cardinality(s.top) < ef \/ BelowBound(ix, q, s.top, c)}
  IN  [cand    |-> (s.cand \ {n}) \cup considered,
       visited |-> s.visited \cup new,
       top     |-> Closest(ix.data, q, s.top \cup (considered \ hidden), ef)]

\* What the beam holds after so many turns of the loop; as each turn expands
\* another element, it is left within count of them.
BeamAfter(ix, q, start, l, ef, hidden, early) ==
  LET after[k \in 0 .. ix.count] ==
        IF k = 0 THEN BeamStart(start, hidden)
        ELSE IF BeamStops(ix, q, ef, early, after[k - 1]) THEN after[k - 1]
             ELSE BeamExpand(ix, q, l, ef, hidden, after[k - 1])
  IN after

Beam(ix, q, start, l, ef, hidden, early) ==
  BeamAfter(ix, q, start, l, ef, hidden, early)[ix.count].top

\* search2Layer: the lambda closest live elements found on level lo, and the
\* entry point left behind for the next level down: the closest of them, or
\* the old one when only deleted elements were met.
search2Layer(ix, q, ep, hi, lo, lambda) ==
  LET start == DescendFrom(ix, q, IF ep = NoEntry THEN ix.enterpoint_node_ ELSE ep, hi, lo)
      top == Beam(ix, q, start, lo, lambda, ix.deleted, FALSE)
  IN [top |-> top,
      ep  |-> IF top = {} THEN ep ELSE Nearest(ix.data, q, top)]

\* searchKnn without filter: bare_bone_search, which ignores deletion marks,
\* is chosen when num_deleted_ is 0
searchKnn(ix, num_deleted_, q, k, ef) ==
  LET bareBone == num_deleted_ = 0
      start == DescendFrom(ix, q, ix.enterpoint_node_, ix.maxlevel_, 0)
      found == Beam(ix, q, start, 0, IF ef > k THEN ef ELSE k,
                    IF bareBone THEN {} ELSE ix.deleted, bareBone)
  IN Closest(ix.data, q, found, k)
=============================================================================
