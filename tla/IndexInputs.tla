------------------------------ MODULE IndexInputs ------------------------------
(***************************************************************************)
(* Small indexes for the model checker.  The vectors of an instance are    *)
(* marks of a Golomb ruler, so all distances between elements differ.      *)
(***************************************************************************)
EXTENDS HNSWIndex, Sequences, TLC

\* The elements reachable from the entry point on level 0
Reachable(ix) ==
  LET grow[k \in 0 .. ix.count] ==
        IF k = 0 THEN {ix.enterpoint_node_}
        ELSE grow[k - 1] \cup UNION {ix.links[0][n] : n \in grow[k - 1]}
  IN grow[ix.count]

\* The directed graphs on n elements, and those in which every link has its
\* inverse (what insertion builds while no list overflows)
Graphs(n) == {g \in [0 .. n - 1 -> SUBSET (0 .. n - 1)] : \A x \in 0 .. n - 1 : x \notin g[x]}
TwoWayGraphs(n) ==
  {g \in Graphs(n) : \A x, y \in 0 .. n - 1 : x \in g[y] <=> y \in g[x]}
Complete(n) == {[x \in 0 .. n - 1 |-> (0 .. n - 1) \ {x}]}

\* All indexes over the given vectors with one of the given graphs on level 0,
\* the given levels and deletions; on a higher level every element is linked
\* to all others of the level
Indexes(m, points, graphs, levelings, deletions) ==
  LET N == 0 .. (Len(points) - 1)
      highest(lv) == CHOOSE h \in 0 .. 3 : (\A n \in N : lv[n] <= h) /\ (\E n \in N : lv[n] = h)
      onLevel(lv, l) == {n \in N : lv[n] >= l}
      index(lv, g, del, e) ==
        [count |-> Len(points),
         element_levels_ |-> lv,
         links |-> [l \in 0 .. highest(lv) |->
                      IF l = 0 THEN g
                      ELSE [n \in N |-> IF lv[n] >= l THEN onLevel(lv, l) \ {n} ELSE {}]],
         deleted |-> del,
         data |-> [n \in N |-> points[n + 1]],
         maxlevel_ |-> highest(lv),
         enterpoint_node_ |-> e]
      all == {index(lv, g, del, e) : lv \in levelings, g \in graphs, del \in deletions, e \in N}
  IN {ix \in all : WellFormed(ix, m) /\ Reachable(ix) = N}

\* Levels of two, three and four elements
Two(a, b) == (0 :> a) @@ (1 :> b)
Three(a, b, c) == (0 :> a) @@ (1 :> b) @@ (2 :> c)
Four(a, b, c, d) == Three(a, b, c) @@ (3 :> d)
===============================================================================
