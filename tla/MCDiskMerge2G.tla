---------------------------- MODULE MCDiskMerge2G ----------------------------
(***************************************************************************)
(* Small input files for DiskMerge2G.                                      *)
(***************************************************************************)
EXTENDS DiskMerge2G, IndexInputs

\* HNSWMerger_ME's default alpha, 1.05
MCAlpha == <<105, 100>>

\* Vectors inside and outside of a byte's range; the larger index with as many
\* or more elements, with levels the smaller one lacks
Wide2 == Indexes(M, <<-3, 300>>, TwoWayGraphs(2), {Two(0, 0), Two(1, 1)}, {{}})
Files2 == Indexes(M, <<1, 10>>, TwoWayGraphs(2), {Two(0, 0), Two(1, 1), Two(0, 1)}, {{}, {0}})
          \cup Wide2
OtherFiles2 == Indexes(M, <<0, 4>>, TwoWayGraphs(2), {Two(0, 0), Two(1, 0)}, {{}})
Files3 == Indexes(M, <<0, 4, 12>>, TwoWayGraphs(3),
                  {Three(0, 0, 0), Three(1, 1, 0), Three(2, 1, 2)}, {{}, {1}})

\* Complete graphs, whose lists overflow, up to level 2
Full3 == Indexes(M, <<1, 10, 23>>, Complete(3),
                 {Three(0, 0, 0), Three(1, 0, 1), Three(2, 2, 2)}, {{}})
OtherFull3 == Indexes(M, <<0, 4, 18>>, Complete(3),
                      {Three(0, 0, 0), Three(1, 1, 1), Three(2, 2, 1), Three(2, 2, 2)}, {{}})
Full4 == {ix \in Indexes(M, <<0, 4, 18, 25>>, Complete(4), {Four(0, 0, 0, 0), Four(1, 1, 1, 0)}, {{}}) :
            ix.enterpoint_node_ \in {0, 1}}

\* All four elements on level 1, linked there as g
Raised(ix, g) ==
  [ix EXCEPT !.element_levels_ = Four(1, 1, 1, 1), !.maxlevel_ = 1,
             !.links = (0 :> ix.links[0]) @@ (1 :> g)]

\* A layer of more elements than the cache holds, linked in a ring
Ring4 == [n \in 0 .. 3 |-> {(n + 1) % 4, (n + 3) % 4}]
Tall4 == {Raised(ix, Ring4) : ix \in {x \in Full4 : x.maxlevel_ = 0}}

\* The first batch has the other one for neighbours: together more than the
\* cache holds
Square4 == [n \in 0 .. 3 |-> IF n < 2 THEN {2, 3} ELSE {0, 1}]
Crossed4 == {Raised(ix, Square4) : ix \in Indexes(M, <<1, 6, 33, 53>>, Complete(4), {Four(0, 0, 0, 0)}, {{}})}

MCPairs ==
  (Files2 \X Files3) \cup (Files3 \X Files2) \cup (Files2 \X OtherFiles2) \cup (OtherFiles2 \X Wide2)
    \cup (Full3 \X OtherFull3) \cup (Full3 \X (Full4 \cup Tall4))
    \cup (Crossed4 \X {ix \in Full4 : ix.maxlevel_ = 1})
===============================================================================
