----------------------------- MODULE MCHNSWInsert -----------------------------
(***************************************************************************)
(* Small indexes and points for HNSWInsert, with the code's own selection. *)
(* All vectors are marks of one Golomb ruler (0 1 4 10 18 23 25).          *)
(***************************************************************************)
EXTENDS HNSWInsert, TLC

\* alpha has its default, 1
MCHeuristic(d, q, C, m) == Code!getNeighborsByHeuristic2(d, q, C, m, <<1, 1>>)

\* What the constructor leaves
EmptyIndex ==
  [count |-> 0, element_levels_ |-> <<>>, data |-> <<>>, links |-> <<>>, deleted |-> {},
   maxlevel_ |-> -1, enterpoint_node_ |-> NoEntry]

\* A complete graph on each level over the given points
FullGraph(points, levels, ep, del) ==
  LET N == DOMAIN points
  IN [count |-> Cardinality(N), element_levels_ |-> levels, data |-> points,
      links |-> [l \in 0 .. levels[ep] |->
                   [n \in N |-> IF levels[n] >= l THEN {c \in N : levels[c] >= l} \ {n} ELSE {}]],
      deleted |-> del, maxlevel_ |-> levels[ep], enterpoint_node_ |-> ep]

Three(del) == FullGraph((0 :> 4) @@ (1 :> 18) @@ (2 :> 25), (0 :> 1) @@ (1 :> 1) @@ (2 :> 1), 1, del)

\* No element, where three insertions race to be the first, and an index whose
\* entry point is deleted and whose upper lists are full
FromAny == {EmptyIndex, Three({1})}

FromEmpty == {EmptyIndex}

\* Their small levels hang together, as HNSWInsertProofs asks
ASSUME LinkedFrom == LinkedIndexes
=============================================================================
