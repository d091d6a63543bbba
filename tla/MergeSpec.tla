------------------------------ MODULE MergeSpec ------------------------------
(***************************************************************************)
(* What HNSWMerger promises, one level at a time and with no threads:      *)
(* the new lists of a level are a function of the two inputs and of the    *)
(* entry points left by the level above.  A forward search from every      *)
(* element of index1 gives its candidates in index2; an element of index2  *)
(* gets as candidates the elements whose search found it (the lazy         *)
(* backward direct-connect of the paper).                                  *)
(***************************************************************************)
EXTENDS MergeLevel

VARIABLES
  input,        \* <<index1, index2>>, never modified here
  level,        \* the level to be merged next; -1 when the merge is over
  links,        \* the lists of the result: level -> id -> set of ids
  entryPoint    \* entry_point_collect_index1_on_index2

vars == <<input, level, links, entryPoint>>

index1 == input[1]
index2 == input[2]
off == Offset(index1)
Layer1 == LayerNodes(index1, level)
Layer2 == LayerNodes(index2, level)
Search(i) == Forward(index1, index2, entryPoint[i], level, i)
Backward(j) == {i \in Layer1 : j \in Search(i).top}

Init ==
  /\ input \in Pairs
  /\ level = index2.maxlevel_
  /\ links = CopiedLinks(index1, index2)
  /\ entryPoint = [i \in Ids(index1) |-> NoEntry]

\* One input has no live element on the level: the lists of the other one
CopyLevel ==
  /\ level >= 0
  /\ \/ Layer1 # {} /\ Layer2 = {}
     \/ Layer1 = {} /\ Layer2 # {}
  /\ links' = [links EXCEPT ![level] =
                 [n \in MergedIds(index1, index2) |->
                    CASE n \in Layer1             -> OldLinks1(index1, level, n)
                      [] n \in Shift(Layer2, off) -> OldLinks2(index1, index2, level, n - off)
                      [] OTHER                    -> @[n]]]
  /\ level' = level - 1
  /\ UNCHANGED <<input, entryPoint>>

MergeOneLevel ==
  /\ level >= 0
  /\ (Layer1 = {}) <=> (Layer2 = {})
  /\ links' = [links EXCEPT ![level] =
                 [n \in MergedIds(index1, index2) |->
                    CASE n \in Layer1 ->
                           Connect(MergedData(index1, index2), level, n,
                                   Shift(Search(n).top, off), OldLinks1(index1, level, n))
                      [] n \in Shift(Layer2, off) ->
                           ConnectBackward(MergedData(index1, index2), level, n,
                                   Backward(n - off), OldLinks2(index1, index2, level, n - off))
                      [] OTHER -> @[n]]]
  /\ entryPoint' = [i \in Ids(index1) |-> IF i \in Layer1 THEN Search(i).ep ELSE entryPoint[i]]
  /\ level' = level - 1
  /\ UNCHANGED input

Next == CopyLevel \/ MergeOneLevel

Spec == Init /\ [][Next]_vars
=============================================================================
