----------------------------- MODULE MCHNSWMerge -----------------------------
(***************************************************************************)
(* Small inputs for HNSWMerge.  The search and the selection are the ones  *)
(* of the code (HNSWAlgorithms).                                           *)
(***************************************************************************)
EXTENDS MergeQuality, IndexInputs

MCsearch2Layer(ix, q, ep, hi, lo, lambda) == Code!search2Layer(ix, q, ep, hi, lo, lambda)

\* HNSWMerger's default alpha, 1.05
MCAlpha == <<105, 100>>
MCHeuristic(d, q, C, m) == Code!getNeighborsByHeuristic2(d, q, C, m, Alpha)

\* An exhaustive search and a plain cut: the other end of what the assumptions
\* of MergeLevel allow, and cheap enough for ENABLED to be evaluated everywhere
MCExactSearch(ix, q, ep, hi, lo, lambda) ==
  [top |-> Code!Closest(ix.data, q, LayerNodes(ix, lo), lambda),
   ep  |-> Code!Nearest(ix.data, q, LayerNodes(ix, lo))]
MCPlainCut(d, q, C, m) == Code!Closest(d, q, C, m)

ThreadSymmetry == Permutations(Threads)

-------------------------------------------------------------------------------

Ordered(A, B) ==
  UNION {{<<a, b>> : b \in {c \in B : a.maxlevel_ <= c.maxlevel_}} : a \in A}

\* Two elements merged into three, on one and two levels, with every graph on
\* the side of three
TwoIntoThree ==
  Ordered(Indexes(M, <<1, 10>>, TwoWayGraphs(2), {Two(0, 0), Two(0, 1), Two(1, 1)}, {{}}),
          Indexes(M, <<0, 4, 12>>, Graphs(3), {Three(0, 0, 0), Three(1, 0, 0), Three(0, 1, 1)}, {{}}))

\* The same with deletion marks on either side
TwoIntoThreeDeleted ==
  Ordered(Indexes(M, <<1, 10>>, TwoWayGraphs(2), {Two(0, 0), Two(1, 0)}, {{}, {0}, {0, 1}}),
          Indexes(M, <<0, 4, 12>>, TwoWayGraphs(3), {Three(0, 0, 0), Three(1, 1, 0)},
                  {{0}, {1}, {0, 1}}))

\* Complete graphs, whose lists overflow on both sides and both levels when
\* M = 2 and every forward search finds three elements
Crowded ==
  Ordered(Indexes(M, <<1, 10, 23>>, Complete(3), {Three(0, 0, 0), Three(0, 1, 1)}, {{}}),
          {ix \in Indexes(M, <<0, 4, 18, 25>>, Complete(4),
                          {Four(0, 0, 0, 0), Four(1, 1, 1, 0)}, {{}, {2}}) :
             ix.enterpoint_node_ \in {0, 1}})

WithAndWithoutDeletions == TwoIntoThree \cup TwoIntoThreeDeleted \cup Crowded

\* Three elements race for the candidate sets of two
ThreeIntoTwo ==
  Ordered(Indexes(M, <<0, 4, 12>>, TwoWayGraphs(3), {Three(0, 0, 0), Three(0, 1, 0)}, {{}}),
          Indexes(M, <<1, 10>>, TwoWayGraphs(2), {Two(0, 1), Two(1, 1)}, {{}}))
=============================================================================
