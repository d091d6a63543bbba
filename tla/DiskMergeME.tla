----------------------------- MODULE DiskMergeME -----------------------------
(***************************************************************************)
(* HNSWMerger_ME (memory-optimize.h): the merge of two index files that    *)
(* keeps all vectors but only some lists in memory.  The lists of index2   *)
(* on one level are loaded whole, those of index1 in batches; every new    *)
(* list goes straight to the merged file.                                  *)
(*                                                                         *)
(* One thread; a step handles one element, one batch or one level.  The    *)
(* merged file is all that survives a crash, in any state.                 *)
(***************************************************************************)
EXTENDS DiskMerge

CONSTANTS
  BatchSize,    \* elements of index1 per batch above level 0 (4096 in the code)
  BatchSize0,   \* the same on level 0 (512)
  BatchSize2    \* elements of index2 per batch (4096)

ASSUME BatchAssumption ==
  BatchSize \in Nat \ {0} /\ BatchSize0 \in Nat \ {0} /\ BatchSize2 \in Nat \ {0}

VARIABLES
  marks,   \* the elements whose level-0 slot carries DELETE_MARK in the merged file
  cached,  \* id_data_map_: ids of the result whose vector is cached
  junk     \* ll_new is never initialized: its mark bit

files == <<index1, index2, file, marks>>
memory == <<lists1, lists2, dists2, cached>>
vars == <<files, pc, level, b, i, ep, cands, memory, junk, missed>>

Size1 == IF level = 0 THEN BatchSize0 ELSE BatchSize

\* layer_node_for_index1[level] counts the elements whose top level it is
OnTop1(l) == {n \in Ids(index1) : index1.element_levels_[n] = l}

Init ==
  /\ \E p \in DiskPairs : index1 = p[1] /\ index2 = p[2]
  /\ file = <<>> /\ marks = {}
  /\ pc = "start" /\ level = 0 /\ b = 0 /\ i = 0
  /\ ep = <<>> /\ cands = <<>>
  /\ lists1 = <<>> /\ lists2 = <<>> /\ dists2 = {} /\ cached = {}
  /\ junk = FALSE /\ missed = {}
-------------------------------------------------------------------------------
\* The one with fewer elements may still be the higher one: nothing is written.
ThrowWrongCase ==
  /\ pc = "start"
  /\ Larger.maxlevel_ < Smaller.maxlevel_
  /\ index1' = Smaller /\ index2' = Larger
  /\ pc' = "failed"
  /\ UNCHANGED <<file, marks, level, b, i, ep, cands, memory, junk, missed>>

\* Header and regions are written, and the vectors of both inputs loaded.
Prepare ==
  /\ pc = "start"
  /\ Larger.maxlevel_ >= Smaller.maxlevel_
  /\ index1' = Smaller /\ index2' = Larger
  /\ file' = CopiedFile(Smaller, Larger)
  /\ marks' = Smaller.deleted \cup Shift(Larger.deleted, Smaller.count)
  /\ ep' = [n \in Ids(Smaller) |-> NoEntry]
  /\ level' = Larger.maxlevel_
  /\ pc' = "level"
  /\ UNCHANGED <<b, i, cands, memory, junk, missed>>

\* No element of index1 has its top on the level: deepCopyOneLayerOnIndex
CopyLevel ==
  /\ pc = "level" /\ OnTop1(level) = {}
  /\ LET copies(n) == CopiedSlots(SavedList(index2, level, n), off)
     IN \E slots \in [Layer(index2, level) -> UNION {copies(n) : n \in Layer(index2, level)}] :
          /\ \A n \in Layer(index2, level) : slots[n] \in copies(n)
          /\ file' = [file EXCEPT ![level] =
                        [n \in DOMAIN @ |-> IF n - off \in Layer(index2, level)
                                            THEN slots[n - off] ELSE @[n]]]
  /\ marks' = IF level = 0 THEN {n \in marks : n < off} ELSE marks
  /\ lists2' = <<>> /\ dists2' = {}
  /\ level' = level - 1
  /\ pc' = IF level = 0 THEN "done" ELSE "level"
  /\ UNCHANGED <<index1, index2, b, i, ep, cands, lists1, cached, junk, missed>>

\* All lists of index2 on the level, links only
LoadLevel ==
  /\ pc = "level" /\ OnTop1(level) # {}
  /\ lists2' = ReadLists(index2, Layer(index2, level))
  /\ dists2' = {}
  /\ cands' = [n \in Ids(index2) |-> <<>>]
  /\ junk' \in IF level = 0 THEN BOOLEAN ELSE {FALSE}
  /\ b' = 0 /\ pc' = "batch1"
  /\ UNCHANGED <<files, level, i, ep, lists1, cached, missed>>

\* A batch is read in full length.  One that reaches past the last element
\* reads other regions of the file (and, above level 0, past the end of
\* element_levels_): it may run into the end of the file, and throws then.
MayFail(size, n) ==
  /\ b + size > n
  /\ pc' = "failed"
  /\ UNCHANGED <<files, level, b, i, ep, cands, memory, junk, missed>>

LoadBatch1 ==
  /\ pc = "batch1" /\ b < index1.count
  /\ lists1' = ReadLists(index1, Window(Size1, index1.count) \cap Layer(index1, level))
  /\ i' = b /\ pc' = "forward"
  /\ UNCHANGED <<files, level, b, ep, cands, lists2, dists2, cached, junk, missed>>

LoadBatch1Fails == pc = "batch1" /\ b < index1.count /\ MayFail(Size1, index1.count)

\* What a search of the level may read and does not find in memory
Unloaded2(l) == {<<"list2", n>> : n \in Layer(index2, l) \ DOMAIN lists2}

\* An element below the level only moves its entry point down.
PassBy ==
  /\ pc = "forward" /\ i \in Window(Size1, index1.count)
  /\ index1.element_levels_[i] < level
  /\ ep' = [ep EXCEPT ![i] =
              NextEntry(InMemory(index2, level, lists2, index2.data), index1.data[i], @, level)]
  /\ missed' = missed \cup Unloaded2(level)
  /\ i' = i + 1
  /\ UNCHANGED <<files, pc, level, b, cands, memory, junk>>

\* setLinkList and setDistList; on level 0 the header word holds the mark.
Write(n, list) ==
  /\ file' = [file EXCEPT ![level][n] = Slot(list)]
  /\ marks' = IF level > 0 THEN marks ELSE IF junk THEN marks \cup {n} ELSE marks \ {n}

\* Mutant: the old neighbours are not cached
CacheFound(found, old) == cached \cup DOMAIN found

\* The vectors selection will read
Cache(found, old) ==
  cached \cup DOMAIN found \cup (IF Overflows(found, old, level) THEN DOMAIN old ELSE {})

\* Where the search of the level below begins, as an id of index2
LastEntry(found) == Nearest(data, index1.data[i], DOMAIN found) - off

\* Search, connect and write back one element of index1
Forward ==
  /\ pc = "forward" /\ i \in Window(Size1, index1.count)
  /\ index1.element_levels_[i] >= level
  /\ LET ix == InMemory(index2, level, lists2, index2.data)
         found == Moved(Found(ix, index1.data[i], ep[i], level), off)
         old == IF i \in DOMAIN lists1 THEN lists1[i] ELSE <<>>
     IN /\ ep' = [ep EXCEPT ![i] = LastEntry(found)]
        /\ cands' = AddCandidates(cands, Moved(found, -off), i)
        /\ cached' = Cache(found, old)
        /\ missed' = missed \cup Unloaded2(level)
                       \cup {<<"list1", n>> : n \in {i} \ DOMAIN lists1}
                       \cup {<<"vector", n>> : n \in
                              IF Overflows(found, old, level)
                              THEN (DOMAIN found \cup DOMAIN old) \ cached' ELSE {}}
        /\ Write(i, Connected(found, old, data, level))
  /\ i' = i + 1
  /\ UNCHANGED <<index1, index2, pc, level, b, lists1, lists2, dists2, junk>>

EndBatch1 ==
  /\ pc = "forward" /\ i \notin Window(Size1, index1.count)
  /\ cached' = {} /\ lists1' = <<>>
  /\ b' = b + Size1 /\ pc' = "batch1"
  /\ UNCHANGED <<files, level, i, ep, cands, lists2, dists2, junk, missed>>

\* Level 0 is dropped to be read again in batches; elsewhere the distances join
\* the lists.
TurnBack ==
  /\ pc = "batch1" /\ b >= index1.count
  /\ IF level = 0 THEN lists2' = <<>> /\ dists2' = {}
     ELSE dists2' = Layer(index2, level) /\ UNCHANGED lists2
  /\ b' = 0 /\ pc' = "batch2"
  /\ UNCHANGED <<files, level, i, ep, cands, lists1, cached, junk, missed>>

\* A list and its distances are read for each element of the batch (and, past the
\* last one, for slots that are no element's, which nothing uses).
LoadBatch2 ==
  /\ pc = "batch2" /\ b < Size2
  /\ IF level = 0
     THEN /\ lists2' = ReadLists(index2, Window(BatchSize2, Size2))
          /\ dists2' = Window(BatchSize2, Size2)
     ELSE UNCHANGED <<lists2, dists2>>
  /\ i' = b /\ pc' = "backward"
  /\ UNCHANGED <<files, level, b, ep, cands, lists1, cached, junk, missed>>

LoadBatch2Fails == pc = "batch2" /\ b < Size2 /\ level = 0 /\ MayFail(BatchSize2, Size2)

\* Connect one element of index2 to the elements whose search found it
Backward ==
  /\ pc = "backward" /\ i \in Window(BatchSize2, Size2)
  /\ LET n == Element2(i)
         mine == cands[n]
         old == IF n \in DOMAIN lists2 THEN Moved(lists2[n], off) ELSE <<>>
         selects == mine # <<>> /\ Overflows(mine, old, level)
     IN /\ cached' = IF selects THEN Cache(mine, old) ELSE cached
        /\ missed' = missed
             \cup {<<"list2", m>> : m \in {n} \ (DOMAIN lists2 \cap dists2)}
             \cup {<<"vector", m>> : m \in
                    IF selects THEN (DOMAIN mine \cup DOMAIN old) \ cached' ELSE {}}
        /\ Write(n + off, IF mine = <<>> THEN old ELSE Connected(mine, old, data, level))
  /\ i' = i + 1
  /\ UNCHANGED <<index1, index2, pc, level, b, ep, cands, lists1, lists2, dists2, junk>>

EndBatch2 ==
  /\ pc = "backward" /\ i \notin Window(BatchSize2, Size2)
  /\ cached' = {}
  /\ IF level = 0 THEN lists2' = <<>> /\ dists2' = {} ELSE UNCHANGED <<lists2, dists2>>
  /\ b' = b + BatchSize2 /\ pc' = "batch2"
  /\ UNCHANGED <<files, level, i, ep, cands, lists1, junk, missed>>

NextLevel ==
  /\ pc = "batch2" /\ b >= Size2
  /\ level' = level - 1
  /\ pc' = IF level = 0 THEN "done" ELSE "level"
  /\ UNCHANGED <<files, b, i, ep, cands, memory, junk, missed>>

Stopped == pc \in {"done", "failed"} /\ UNCHANGED vars

Next ==
  \/ ThrowWrongCase \/ Prepare \/ CopyLevel \/ LoadLevel
  \/ LoadBatch1 \/ LoadBatch1Fails \/ PassBy \/ Forward \/ EndBatch1 \/ TurnBack
  \/ LoadBatch2 \/ LoadBatch2Fails \/ Backward \/ EndBatch2 \/ NextLevel
  \/ Stopped

Spec == Init /\ [][Next]_vars
-------------------------------------------------------------------------------
Merges(l) == OnTop1(l) # {}

\* The variables have their types, memory holds lists of the inputs only, and
\* the merged file is a file of both inputs from the moment it exists.
TypeOK ==
  /\ pc \in {"start", "level", "batch1", "forward", "batch2", "backward", "done", "failed"}
  /\ level \in {-1} \cup Levels(index2) /\ b \in Nat /\ i \in Nat
  /\ DOMAIN file \in {{}, Levels(index2)}
  /\ \A l \in DOMAIN file : \A n \in DOMAIN data :
       file[l][n].count \in Nat /\ DOMAIN file[l][n].list \subseteq DOMAIN data
  /\ marks \subseteq DOMAIN data /\ cached \subseteq DOMAIN data
  /\ \A n \in DOMAIN ep : ep[n] \in {NoEntry} \cup Layer(index2, level)
  /\ DOMAIN cands \in {{}, Ids(index2)}
  /\ \A n \in DOMAIN cands : DOMAIN cands[n] \subseteq Ids(index1)
  /\ DOMAIN lists1 \subseteq Ids(index1) /\ DOMAIN lists2 \subseteq Ids(index2)
  /\ dists2 \subseteq Ids(index2) /\ junk \in BOOLEAN

\* Whatever a step reads was loaded before and has not been freed since: the
\* lists a search walks over, the lists and distances of the element at hand,
\* and the vectors selection compares.
ReadsInMemory == missed = {}

\* On a merged level every slot of the file is whole: its count is the length
\* of its list, which respects the bound, names elements of the level, never
\* the owner, each with its true distance.
MergedSlotsWhole ==
  \A l \in {m \in DOMAIN file : Finished(m) /\ Merges(m)} : \A n \in DOMAIN data :
    LET slot == file[l][n]
        top(m) == IF m < off THEN index1.element_levels_[m] ELSE index2.element_levels_[m - off]
    IN /\ slot.count = Cardinality(DOMAIN slot.list)
       /\ slot.count <= Mcurmax(M, l)
       /\ \A c \in DOMAIN slot.list :
            top(c) >= l /\ c # n /\ slot.list[c] = Dist(data[n], data[c])

\* Batches, evictions and reloads make no difference: when no level was merely
\* copied and nothing is marked deleted, the file ends up with the lists that
\* the merge in memory builds from the same two indexes if it promotes none of
\* their elements (DiskReference).
SameAsInMemory ==
  pc = "done" /\ (\A l \in Levels(index2) : Merges(l)) /\ index1.deleted \cup index2.deleted = {} =>
    LET links == MergedInMemory(index1, index2)
    IN \A l \in Levels(index2), n \in DOMAIN data : DOMAIN file[l][n].list = links[l][n]

\* checkIntegrity, run on the merged file, finds as many different ids in each
\* list as its count says; words of a slot that were never written are 0.
ReadIds(slot) ==
  DOMAIN slot.list \cup
    (IF slot.count > Cardinality(DOMAIN slot.list) THEN {0} ELSE {})
CheckIntegrity ==
  pc = "done" =>
    \A l \in DOMAIN file, n \in DOMAIN data :
      file[l][n].count <= Cardinality(ReadIds(file[l][n]))

\* The merged file marks the elements as deleted that an input did.
MarksSurvive ==
  pc = "done" => marks = index1.deleted \cup Shift(index2.deleted, off)
===============================================================================
