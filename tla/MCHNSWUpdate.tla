----------------------------- MODULE MCHNSWUpdate -----------------------------
(***************************************************************************)
(* A small index for HNSWUpdate: three elements, all neighbours on level   *)
(* 0, two of them on level 1; the third is deleted or not.  Vectors are    *)
(* marks of a Golomb ruler.                                                *)
(***************************************************************************)
EXTENDS HNSWUpdate, TLC

MCHeuristic(d, q, C, m) == Code!getNeighborsByHeuristic2(d, q, C, m, <<1, 1>>)

Three(del) ==
  [count |-> 3, element_levels_ |-> (0 :> 1) @@ (1 :> 1) @@ (2 :> 0),
   data |-> (0 :> 4) @@ (1 :> 18) @@ (2 :> 25),
   links |-> (0 :> [n \in 0 .. 2 |-> 0 .. 2 \ {n}])
             @@ (1 :> ((0 :> {1}) @@ (1 :> {0}) @@ (2 :> {}))),
   deleted |-> del, maxlevel_ |-> 1, enterpoint_node_ |-> 1]

ThreeElements == {Three({}), Three({2})}
ThreeLive == {Three({})}
=============================================================================
