----------------------------- MODULE MCDiskMerge -----------------------------
(***************************************************************************)
(* Small input files for DiskMergeME and DiskMerge2G.                      *)
(***************************************************************************)
EXTENDS DiskMergeME, IndexInputs

\* HNSWMerger_ME's default alpha, 1.05
MCAlpha == <<105, 100>>

Files2 == Indexes(M, <<1, 10>>, TwoWayGraphs(2),
                  {Two(0, 0), Two(1, 1), Two(0, 1), Two(0, 2)}, {{}, {0}})
Files3 == Indexes(M, <<0, 4, 12>>, TwoWayGraphs(3),
                  {Three(0, 0, 0), Three(0, 1, 0), Three(1, 2, 1)}, {{}, {1}})

\* Complete graphs, whose lists overflow
Full3 == Indexes(M, <<1, 10, 23>>, Complete(3), {Three(0, 0, 0), Three(1, 0, 1)}, {{}})
Full4 == {ix \in Indexes(M, <<0, 4, 18, 25>>, Complete(4), {Four(0, 0, 0, 0), Four(1, 1, 0, 1)}, {{}}) :
            ix.enterpoint_node_ \in {0, 1}}

MCPairs == (Files2 \X Files3) \cup (Files3 \X Files2) \cup (Full3 \X Full4)
===============================================================================
