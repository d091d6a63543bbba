------------------------------ MODULE MergeSetup ------------------------------
(***************************************************************************)
(* What HNSWMerger (extension.h) does before its level loop: it orders its *)
(* arguments, may promote elements of a crowded top level to a new level,  *)
(* refuses an in2 lower than in1, and prepares entry point, labels   *)
(* and levels of the result.                                               *)
(*                                                                         *)
(* filter_and_remove draws a random number per visit of an element; the    *)
(* draw is a nondeterministic choice here.  A selected element is not      *)
(* stepped over: the iterator stays, and the next draw may select the same *)
(* element again.                                                          *)
(***************************************************************************)
EXTENDS HNSWIndex, Sequences, Functions

CONSTANTS
  Arguments,   \* the pairs of indexes HNSWMerger is called with (records as in
               \* HNSWIndex, without lists, with a field label: id -> label)
  M_           \* M of both

\* What insertion, deletion and loading leave in an index: its entry point is on
\* the top level, and no two elements have one label.
IsArgument(ix) ==
  /\ {"maxlevel_", "enterpoint_node_"} \subseteq DOMAIN ix
  /\ ix.count \in Nat \ {0} /\ ix.maxlevel_ \in Nat
  /\ ix.element_levels_ \in [Ids(ix) -> 0 .. ix.maxlevel_]
  /\ ix.enterpoint_node_ \in Ids(ix)
  /\ ix.element_levels_[ix.enterpoint_node_] = ix.maxlevel_
  /\ \A i, j \in Ids(ix) : ix.label[i] = ix.label[j] => i = j

ASSUME ArgumentsAssumption == \A a \in Arguments : IsArgument(a[1]) /\ IsArgument(a[2])

\* With M_ = 1 every draw selects and the loop never moves on.
ASSUME DrawAssumption == M_ \in Nat \ {0, 1}

VARIABLES
  args,        \* the two indexes as the caller passed them
  in1, in2,    \* index1 and index2 of the code
  stage,       \* where HNSWMerger is
  side,        \* the index filter_and_remove runs on: 1 or 2
  pos,         \* it, as a position in the layer (1 .. Len + 1)
  skipped,     \* the local counter lambda, shared by both filter_and_remove
  newLayer,    \* newLayer of the running filter_and_remove, with repetitions
  upper,       \* per side: the ids pushed to layer_node[layer_max_min + 1]
  newLinks,    \* ids of the result -> its list on the new level
  alg          \* the result: maxLevel, entry point, label_lookup_, levels

setupVars == <<args, in1, in2, stage, side, pos, skipped, newLayer, upper,
               newLinks, alg>>

offset(s) == IF s = 1 THEN 0 ELSE in1.count
index(s) == IF s = 1 THEN in1 ELSE in2
MinOf(a, b) == IF a < b THEN a ELSE b
layer_max_min == MinOf(args[1].maxlevel_, args[2].maxlevel_)

\* Where a node is in layer_node_for_index[l], in the order searchNodeOnEachLayer
\* builds it: ascending within a level, the higher levels after it
Precedes(ix, a, b) ==
  \/ ix.element_levels_[a] < ix.element_levels_[b]
  \/ ix.element_levels_[a] = ix.element_levels_[b] /\ a < b
Position(ix, l, n) == 1 + Cardinality({a \in LayerNodes(ix, l) : Precedes(ix, a, n)})

Size(s, l) == Cardinality(LayerNodes(index(s), l))

SetupInit ==
  /\ args \in Arguments
  /\ in1 = args[1] /\ in2 = args[2]
  /\ stage = "order"
  /\ side = 1
  /\ pos = 1
  /\ skipped = 0
  /\ newLayer = <<>>
  /\ upper = [s \in {1, 2} |-> <<>>]
  /\ newLinks = <<>>
  /\ alg = <<>>

\* Mutant: only the sizes are compared
OrderBySize ==
  /\ stage = "order"
  /\ LET swap == in1.count > in2.count
     IN /\ in1' = IF swap THEN in2 ELSE in1
        /\ in2' = IF swap THEN in1 ELSE in2
  /\ stage' = "crowded"
  /\ UNCHANGED <<args, side, pos, skipped, newLayer, upper, newLinks, alg>>

\* if (in1 has more elements || in1 is higher) std::swap
Order ==
  /\ stage = "order"
  /\ LET swap == \/ in1.count > in2.count
                 \/ in1.maxlevel_ > in2.maxlevel_
     IN /\ in1' = IF swap THEN in2 ELSE in1
        /\ in2' = IF swap THEN in1 ELSE in2
  /\ stage' = "crowded"
  /\ UNCHANGED <<args, side, pos, skipped, newLayer, upper, newLinks, alg>>

\* The test for a new level: the common top level is crowded
Crowded ==
  LET above == Size(1, layer_max_min + 1) + Size(2, layer_max_min + 1)
      bound == IF above = 0 THEN 1 ELSE above
  IN Size(1, layer_max_min) + Size(2, layer_max_min) > M_ * bound

CheckCrowded ==
  /\ stage = "crowded"
  /\ stage' = IF Crowded THEN "promote" ELSE "height"
  /\ UNCHANGED <<args, in1, in2, side, pos, skipped, newLayer, upper,
                 newLinks, alg>>

\* filter_and_remove is called for a side with nothing above its crowded layer
Promotes(s) ==
  /\ Size(s, layer_max_min + 1) = 0
  /\ Size(s, layer_max_min) > M_

CallFilter ==
  /\ stage = "promote"
  /\ stage' = IF Promotes(side) THEN "filter" ELSE "next"
  /\ pos' = 1
  /\ newLayer' = <<>>
  /\ UNCHANGED <<args, in1, in2, side, skipped, upper, newLinks, alg>>

layer == LayerNodes(index(side), layer_max_min)
AtEnd == pos > Cardinality(layer)

\* The draw falls below 1 / M_, or M_ elements were stepped over: the element is
\* promoted and the iterator stays where it is
Select ==
  /\ stage = "filter" /\ ~ AtEnd
  /\ Len(newLayer) <= M_
  /\ \E n \in layer :
       /\ Position(index(side), layer_max_min, n) = pos
       /\ newLayer' = Append(newLayer, n + offset(side))
       /\ upper' = [upper EXCEPT ![side] = Append(@, n)]
  /\ skipped' = 0
  /\ UNCHANGED <<args, in1, in2, stage, side, pos, newLinks, alg>>

StepOver ==
  /\ stage = "filter" /\ ~ AtEnd
  /\ Len(newLayer) <= M_
  /\ skipped # M_
  /\ skipped' = skipped + 1
  /\ pos' = pos + 1
  /\ UNCHANGED <<args, in1, in2, stage, side, newLayer, upper, newLinks, alg>>

\* newLayer.size() > M: std::logic_error("too many points on new-top here ...").
\* What is left of the loop by then only touches local variables.
ThrowTooMany ==
  /\ stage = "filter" /\ Len(newLayer) > M_
  /\ stage' = "thrown"
  /\ UNCHANGED <<args, in1, in2, side, pos, skipped, newLayer, upper,
                 newLinks, alg>>

\* Mutant: the index keeps its maxlevel_
LinkNewLayerKeepingHeight ==
  /\ stage = "filter" /\ AtEnd /\ Len(newLayer) <= M_
  /\ newLinks' = [n \in DOMAIN newLinks \cup Range(newLayer) |-> <<>>]
  /\ LET moved(ix) == [ix EXCEPT !.enterpoint_node_ = upper[side][1]]
     IN IF side = 1 THEN in1' = moved(in1) /\ UNCHANGED in2
                    ELSE in2' = moved(in2) /\ UNCHANGED in1
  /\ stage' = "next"
  /\ UNCHANGED <<args, side, pos, skipped, newLayer, upper, alg>>

\* Every entry of newLayer is linked to all other entries, and the caller
\* raises its index by one level, with the first entry as entry point
LinkNewLayer ==
  /\ stage = "filter" /\ AtEnd /\ Len(newLayer) <= M_
  /\ LET listOf(k) == [x \in 1 .. Len(newLayer) - 1 |-> newLayer[IF x < k THEN x ELSE x + 1]]
         lastOf(n) == CHOOSE k \in DOMAIN newLayer :
                        newLayer[k] = n /\ \A x \in DOMAIN newLayer : newLayer[x] = n => x <= k
     IN newLinks' = [n \in DOMAIN newLinks \cup Range(newLayer) |->
                       IF n \in Range(newLayer) THEN listOf(lastOf(n)) ELSE newLinks[n]]
  /\ LET raised(ix) == [ix EXCEPT !.maxlevel_ = @ + 1, !.enterpoint_node_ = upper[side][1]]
     IN IF side = 1 THEN in1' = raised(in1) /\ UNCHANGED in2
                    ELSE in2' = raised(in2) /\ UNCHANGED in1
  /\ stage' = "next"
  /\ UNCHANGED <<args, side, pos, skipped, newLayer, upper, alg>>

NextSide ==
  /\ stage = "next"
  /\ side' = 2
  /\ stage' = IF side = 1 THEN "promote" ELSE "height"
  /\ UNCHANGED <<args, in1, in2, pos, skipped, newLayer, upper, newLinks, alg>>

\* std::logic_error("in1 is higher than in2, wrong case")
ThrowWrongCase ==
  /\ stage = "height"
  /\ in2.maxlevel_ < in1.maxlevel_
  /\ stage' = "thrown"
  /\ UNCHANGED <<args, in1, in2, side, pos, skipped, newLayer, upper,
                 newLinks, alg>>

ResultIds == 0 .. in1.count + in2.count - 1
labelOf(n) == IF n < offset(2) THEN in1.label[n] ELSE in2.label[n - offset(2)]
levelOf(n) == IF n < offset(2) THEN in1.element_levels_[n]
              ELSE in2.element_levels_[n - offset(2)]

Deleted(n) == IF n < offset(2) THEN n \in in1.deleted
              ELSE n - offset(2) \in in2.deleted

\* Mutant: a label that is known is not replaced
LabelLookupKeepingFirst ==
  [b \in {labelOf(n) : n \in ResultIds} |->
     CHOOSE n \in ResultIds :
       labelOf(n) = b /\ \A m \in ResultIds : labelOf(m) = b => m >= n]

\* label_lookup_: in1 first, then in2, each in the order of its ids
LabelLookup ==
  [b \in {labelOf(n) : n \in ResultIds} |->
     CHOOSE n \in ResultIds :
       labelOf(n) = b /\ \A m \in ResultIds : labelOf(m) = b => m <= n]

\* maxLevel, the entry point, label_lookup_ and the levels of the result
Prepare ==
  /\ stage = "height"
  /\ in2.maxlevel_ >= in1.maxlevel_
  /\ alg' = [maxlevel_ |-> in2.maxlevel_,
             enterpoint_node_ |-> in2.enterpoint_node_ + offset(2),
             label_lookup_ |-> LabelLookup,
             element_levels_ |->
               [n \in ResultIds |-> IF n \in DOMAIN newLinks THEN layer_max_min + 1
                                    ELSE levelOf(n)]]
  /\ stage' = "ready"
  /\ UNCHANGED <<args, in1, in2, side, pos, skipped, newLayer, upper, newLinks>>

Stopped == stage \in {"ready", "thrown"} /\ UNCHANGED setupVars

SetupNext ==
  \/ Order \/ CheckCrowded \/ CallFilter \/ Select \/ StepOver \/ ThrowTooMany
  \/ LinkNewLayer \/ NextSide \/ ThrowWrongCase \/ Prepare \/ Stopped

SetupSpec == SetupInit /\ [][SetupNext]_setupVars

-------------------------------------------------------------------------------

promoted(s) == Range(upper[s])

\* The type of the control variables and of what promotion collects.
SetupTypeOK ==
  /\ stage \in {"order", "crowded", "promote", "filter", "next", "height", "ready", "thrown"}
  /\ side \in {1, 2}
  /\ skipped \in 0 .. M_
  /\ Len(newLayer) <= M_ + 1
  /\ \A s \in {1, 2} : promoted(s) \subseteq Ids(index(s))
  /\ DOMAIN newLinks \subseteq ResultIds

\* All elements of the top level are marked deleted.
Hollow(ix) == LayerNodes(ix, ix.maxlevel_) = {}

\* The result is an index whose entry point exists on its top level, comes from
\* in2, and is not lower than any element.  That is about the result: in1 and in2,
\* which the level loop searches and copies, are raised when they are promoted
\* and get no lists for it (LayersHaveLists).  A top level without a live element is the exception: promotion then raises
\* maxlevel_ further than the elements it promotes (EntryPointEvenOnHollow).
EntryPointOnTop ==
  stage = "ready" =>
    /\ \/ alg.element_levels_[alg.enterpoint_node_] = alg.maxlevel_
       \/ Hollow(args[1]) \/ Hollow(args[2])
    /\ alg.enterpoint_node_ >= offset(2)
    /\ \A n \in ResultIds : alg.element_levels_[n] <= alg.maxlevel_

\* A label that some live element carries leads to a live element, unless the
\* element of in2 that carries it is deleted: it hides the one of in1.
LiveLabelsFound ==
  stage = "ready" =>
    \A n \in ResultIds :
      LET found == alg.label_lookup_[labelOf(n)]
      IN  ~ Deleted(n) =>
            /\ labelOf(found) = labelOf(n)
            /\ ~ Deleted(found) \/ (n < offset(2) /\ found >= offset(2))

\* A pair is refused as "wrong case" for two reasons only: its larger index is
\* passed first and is the lower one (exchanged, the same pair would merge), or
\* both were equally high and only the one that stays in1 was promoted.
RefusalReason ==
  stage = "thrown" /\ Len(newLayer) <= M_ =>
    \/ args[1].count > args[2].count /\ args[1].maxlevel_ < args[2].maxlevel_
    \/ args[1].maxlevel_ = args[2].maxlevel_ /\ promoted(1) # {} /\ promoted(2) = {}

-------------------------------------------------------------------------------

\* layer_node_for_index1 or layer_node_for_index2 at level l, after promotion
layerNodesOf(s, l) ==
  LayerNodes(index(s), l) \cup IF l = layer_max_min + 1 THEN promoted(s) ELSE {}

\* "copy all data for index 1 on this layer to new index" (extension.h 604; 610 for
\* index 2): the data is there.  A node of a layer has a list of that level
\* in the index it comes from, which the loop copies, reads or searches.
LayersHaveLists ==
  stage = "ready" =>
    \A s \in {1, 2}, l \in 0 .. alg.maxlevel_ : \A n \in layerNodesOf(s, l) :
      index(s).element_levels_[n] >= l

\* EntryPointOnTop without the exception
EntryPointEvenOnHollow ==
  stage = "ready" => alg.element_levels_[alg.enterpoint_node_] = alg.maxlevel_

\* checkIntegrity of the promoted elements' lists: the owner is not on its own
\* list, and no element is on a list twice.
NewLayerIntegrity ==
  \A n \in DOMAIN newLinks :
    /\ n \notin Range(newLinks[n])
    /\ IsInjective(newLinks[n])
=============================================================================
