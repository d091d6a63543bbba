----------------------------- MODULE DiskMerge2G -----------------------------
(***************************************************************************)
(* HNSWMerger_ME as memory-optimize-limit2G.h has it: nothing is held in   *)
(* memory as a whole but the lists of index2 on one level and, on level 0, *)
(* the vectors of one index, a byte per coordinate.  Other vectors pass    *)
(* through the caches data_ (VarArray).  Those of the inputs are bounded;  *)
(* get_data reloads what they evicted, a search of index2 for an element   *)
(* of the batch of index1 does not: it throws if the element is gone.      *)
(* data_ of the result has no limit.                                       *)
(*                                                                         *)
(* One thread; a step handles one element, one batch or one level.         *)
(***************************************************************************)
EXTENDS DiskMerge, Recency

CONSTANTS
  BatchSize,   \* elements per batch, 4096 in the code
  CacheLimit,  \* set_max_items: 2^19 records above level 0, twice as many on it
  Garbage      \* the vectors read past the end of a buffer

ASSUME BatchAssumption ==
  BatchSize \in Nat \ {0} /\ CacheLimit \in Nat /\ BatchSize <= CacheLimit

VARIABLES
  recent1,  \* lru_list_ of data_ of index1 while index2 is searched
  order2,   \* ids in data_ of index2, by position
  cache,    \* data_ of the result: id -> vector
  bytes     \* indexes whose level-0 vectors are in data_memory_

memory == <<lists1, lists2, dists2, recent1, order2, cache, bytes>>
vars == <<index1, index2, file, pc, level, b, i, ep, cands, memory, missed>>

Window1 == Window(BatchSize, index1.count)
Window2 == Window(BatchSize, Size2)

\* max_items_ of data_ of both inputs
Limit(l) == IF l = 0 THEN 2 * CacheLimit ELSE CacheLimit

\* Mutant: room is made for one record too many
UsedEarly(recent, k) ==
  ToFront(IF k \in Named(recent) \/ Len(recent) + 1 < Limit(level) THEN recent
          ELSE WithoutOldest(recent), k)

\* lru_list_ of data_ of index1 after data_[k] or get_data(k), which enters k
\* and evicts the oldest if there is no room
Used(recent, k) ==
  ToFront(IF k \in Named(recent) \/ Len(recent) < Limit(level) THEN recent
          ELSE WithoutOldest(recent), k)

UsedAll(recent, s) ==
  LET after[k \in 0 .. Len(s)] == IF k = 0 THEN recent ELSE Used(after[k - 1], s[k])
  IN after[Len(s)]

\* The orders in which the loops over a list may meet its elements
Orders(S) == {s \in [1 .. Cardinality(S) -> S] : \A x, y \in DOMAIN s : s[x] = s[y] => x = y}

\* clamp_cast_u8 and back
Byte(v) == IF v < 0 THEN 0 ELSE IF v > 255 THEN 255 ELSE v

\* Mutant: bytes on every level
VectorsInBytes(ix, l) == [n \in Ids(ix) |-> Byte(ix.data[n])]

\* The vectors get_data(id, l) answers with: those of data_memory_ on level 0
Vectors(ix, l) == [n \in Ids(ix) |-> IF l = 0 THEN Byte(ix.data[n]) ELSE ix.data[n]]

Init ==
  /\ \E p \in DiskPairs : index1 = p[1] /\ index2 = p[2]
  /\ file = <<>>
  /\ pc = "start" /\ level = 0 /\ b = 0 /\ i = 0
  /\ ep = <<>> /\ cands = <<>>
  /\ lists1 = <<>> /\ lists2 = <<>> /\ dists2 = {}
  /\ recent1 = <<>> /\ order2 = <<>> /\ cache = <<>> /\ bytes = {}
  /\ missed = {}
-------------------------------------------------------------------------------
ThrowWrongCase ==
  /\ pc = "start"
  /\ Larger.maxlevel_ < Smaller.maxlevel_
  /\ index1' = Smaller /\ index2' = Larger
  /\ pc' = "refused"
  /\ UNCHANGED <<file, level, b, i, ep, cands, memory, missed>>

\* Header and regions are written. Both layer tables are those of index2, so
\* that no level ever counts as one to be merely copied.
Prepare ==
  /\ pc = "start"
  /\ Larger.maxlevel_ >= Smaller.maxlevel_
  /\ index1' = Smaller /\ index2' = Larger
  /\ file' = CopiedFile(Smaller, Larger)
  /\ ep' = [n \in Ids(Smaller) |-> NoEntry]
  /\ level' = Larger.maxlevel_
  /\ pc' = "level"
  /\ UNCHANGED <<b, i, cands, memory, missed>>

\* load_graph_data_filter keeps the records asked for; the cache must hold all.
FilterFails(ix, wanted) ==
  ~ (wanted \subseteq Ids(ix)) \/ Cardinality(wanted) > CacheLimit

StartLevel ==
  /\ lists2' = ReadLists(index2, Layer(index2, level))
  /\ dists2' = {}
  /\ cands' = [n \in Ids(index2) |-> <<>>]
  /\ b' = 0 /\ pc' = "batch1"
  /\ UNCHANGED <<index1, index2, file, level, i, ep, lists1, recent1, order2, cache, missed>>

\* Above level 0 the vectors of the layer are loaded ...
LoadLevel ==
  /\ pc = "level" /\ level > 0
  /\ ~ FilterFails(index2, Layer(index2, level))
  /\ bytes' = {}
  /\ StartLevel

\* ... on level 0 those of all elements, as bytes.
LoadLevel0 ==
  /\ pc = "level" /\ level = 0
  /\ bytes' = {2}
  /\ StartLevel

Fails(reason) ==
  /\ pc' = reason
  /\ UNCHANGED <<index1, index2, file, level, b, i, ep, cands, memory, missed>>

LoadLevelFails ==
  /\ pc = "level" /\ level > 0 /\ FilterFails(index2, Layer(index2, level))
  /\ Fails("too many for the cache")

\* A batch is read and entered in full length; past the last element it may
\* hit the end of the file.
LoadBatch1 ==
  /\ pc = "batch1" /\ b < index1.count
  /\ lists1' = ReadLists(index1, Window1 \cap Layer(index1, level))
  /\ recent1' = UsedAll(recent1, [k \in 1 .. BatchSize |-> b + k - 1])
  /\ i' = b /\ pc' = "forward"
  /\ UNCHANGED <<index1, index2, file, level, b, ep, cands, lists2, dists2, order2, cache,
                 bytes, missed>>

LoadBatch1Fails ==
  /\ pc = "batch1" /\ b < index1.count /\ b + BatchSize > index1.count
  /\ Fails("end of file")

\* What a forward step may read and does not find in memory
Unloaded ==
  {<<"list2", n>> : n \in Layer(index2, level) \ DOMAIN lists2}
    \cup {<<"bytes2", n>> : n \in IF level = 0 /\ 2 \notin bytes THEN {0} ELSE {}}

ix2 == InMemory(index2, level, lists2, Vectors(index2, level))

PassBy ==
  /\ pc = "forward" /\ i \in Window1 /\ i \in Named(recent1)
  /\ index1.element_levels_[i] < level
  /\ ep' = [ep EXCEPT ![i] = NextEntry(ix2, index1.data[i], @, level)]
  /\ recent1' = Used(recent1, i)
  /\ missed' = missed \cup Unloaded
  /\ i' = i + 1
  /\ UNCHANGED <<index1, index2, file, pc, level, b, cands, lists1, lists2, dists2, order2, cache,
                 bytes>>

\* data_[cur_c] throws std::out_of_range for an element that was evicted.
KeyNotFound ==
  /\ pc = "forward" /\ i \in Window1 /\ i \notin Named(recent1)
  /\ Fails("key not found")

\* data_ of the result after the vectors of the ids were offered; one that is
\* held stays as it is
Cached(ids, vectors) ==
  [n \in DOMAIN cache \cup ids |-> IF n \in DOMAIN cache THEN cache[n] ELSE vectors[n]]

\* The vectors of the result that forward steps compare: bytes of index2 on
\* level 0, true vectors of index1
ForwardVectors ==
  [n \in DOMAIN data |-> IF n < off THEN data[n] ELSE Vectors(index2, level)[n - off]]

\* search2Layer, with the ids of the result
Found1 == Moved(Found(ix2, index1.data[i], ep[i], level), off)

\* The cache when selection runs
Held1(found, old) ==
  Cached(DOMAIN found \cup (IF Overflows(found, old, level) THEN DOMAIN old ELSE {}),
         ForwardVectors)

\* Search, connect and write back one element of index1.  When selection runs,
\* get_data is asked for its old neighbours, in the order of its list.
Connect1 ==
  /\ pc = "forward" /\ i \in Window1 /\ i \in Named(recent1)
  /\ LET found == Found1
         old == IF i \in DOMAIN lists1 THEN lists1[i] ELSE <<>>
         held == Held1(found, old)
     IN /\ \E s \in IF Overflows(found, old, level) THEN Orders(DOMAIN old) ELSE {<<>>} :
             recent1' = UsedAll(Used(recent1, i), s)
        /\ ep' = [ep EXCEPT ![i] = Kth(found, 1) - off]
        /\ cands' = AddCandidates(cands, Moved(found, -off), i)
        /\ cache' = IF level = 0 THEN <<>> ELSE held
        /\ missed' = missed \cup Unloaded \cup {<<"list1", n>> : n \in {i} \ DOMAIN lists1}
        /\ file' = [file EXCEPT ![level][i] = Slot(Connected(found, old, held, level))]
  /\ i' = i + 1
  /\ UNCHANGED <<index1, index2, pc, level, b, lists1, lists2, dists2, order2, bytes>>

Forward == level > 0 /\ i \in Layer(index1, level) /\ Connect1

\* The levels are forgotten by now; the caches are released after every element.
Forward0 == level = 0 /\ Connect1

EndBatch1 ==
  /\ pc = "forward" /\ i \notin Window1
  /\ cache' = <<>> /\ lists1' = <<>> /\ recent1' = <<>>
  /\ b' = b + BatchSize /\ pc' = "batch1"
  /\ UNCHANGED <<index1, index2, file, level, i, ep, cands, lists2, dists2, order2, bytes, missed>>

\* Above level 0 the distances of index2 are loaded, and from index1 the
\* vectors of the ids that index2 has on the level: of its own layer table.
TurnBack ==
  /\ pc = "batch1" /\ b >= index1.count
  /\ level > 0 /\ ~ FilterFails(index1, Layer(index2, level))
  /\ dists2' = Layer(index2, level)
  /\ b' = 0 /\ pc' = "batch2"
  /\ UNCHANGED <<index1, index2, file, level, i, ep, cands, lists1, lists2, recent1, order2, cache,
                 bytes, missed>>

\* On level 0 the lists of index2 are dropped and the bytes of index1 loaded.
TurnBack0 ==
  /\ pc = "batch1" /\ b >= index1.count
  /\ level = 0
  /\ lists2' = <<>> /\ dists2' = {} /\ bytes' = {1, 2}
  /\ b' = 0 /\ pc' = "batch2"
  /\ UNCHANGED <<index1, index2, file, level, i, ep, cands, lists1, recent1, order2, cache, missed>>

TurnBackFails ==
  /\ pc = "batch1" /\ b >= index1.count
  /\ level > 0 /\ FilterFails(index1, Layer(index2, level))
  /\ Fails("slice count mismatch")

\* get_data of index2 puts a vector it had to load behind the others.
Loaded(positions, n) ==
  IF \E k \in DOMAIN positions : positions[k] = n THEN positions ELSE Append(positions, n)

\* The loop that asks for the vectors of a batch, one after the other
LoadedAll(positions, s) ==
  LET after[k \in 0 .. Len(s)] == IF k = 0 THEN positions ELSE Loaded(after[k - 1], s[k])
  IN after[Len(s)]

LoadBatch2 ==
  /\ pc = "batch2" /\ b < Size2
  /\ IF level = 0
     THEN /\ lists2' = ReadLists(index2, Window2)
          /\ dists2' = Window2
          /\ UNCHANGED order2
     ELSE /\ order2' = LoadedAll(order2, [k \in 1 .. Cardinality(Window2) |-> Element2(b + k - 1)])
          /\ UNCHANGED <<lists2, dists2>>
  /\ i' = b /\ pc' = "backward"
  /\ UNCHANGED <<index1, index2, file, level, b, ep, cands, lists1, recent1, cache, bytes, missed>>

LoadBatch2Fails ==
  /\ pc = "batch2" /\ b < Size2 /\ level = 0 /\ b + BatchSize > Size2
  /\ Fails("end of file")

\* Mutant: the buffer is read one record further on
PushNext(held, positions, n, g) ==
  LET at == CHOOSE k \in DOMAIN positions : positions[k] = n
  IN [m \in DOMAIN held \cup {n + off} |->
        IF m # n + off THEN held[m]
        ELSE IF at + 1 \in DOMAIN positions THEN index2.data[positions[at + 1]] ELSE g]

\* Above level 0 the third argument of the push is the level, read as a count:
\* that many records are taken from the buffer, under consecutive ids.
Push(held, positions, n, g) ==
  LET at == CHOOSE k \in DOMAIN positions : positions[k] = n
      vectorAt(k) == IF k \in DOMAIN positions THEN index2.data[positions[k]] ELSE g
  IN [m \in DOMAIN held \cup (n + off .. n + off + level - 1) |->
        IF m \in n + off .. n + off + level - 1 THEN vectorAt(at + m - n - off) ELSE held[m]]

\* The old neighbours of an element of index2 enter the cache in the order of
\* its list.
PushOld(held, positions, s, g) ==
  LET after[k \in 0 .. Len(s)] ==
        IF k = 0 THEN <<held, positions>>
        ELSE LET before == after[k - 1]
                 n == s[k] - off
                 loaded == Loaded(before[2], n)
             IN IF s[k] \in DOMAIN before[1] THEN before
                ELSE <<Push(before[1], loaded, n, g), loaded>>
  IN after[Len(s)]

\* On level 0 they do as bytes.
PushBytes(held, old) ==
  [m \in DOMAIN held \cup DOMAIN old |-> IF m \in DOMAIN held THEN held[m] ELSE Byte(data[m])]

\* Connect one element of index2 to the elements whose search found it; held
\* and order are the caches of the result and of index2 when selection runs.
Connect2(n, old, held, order) ==
  LET mine == cands[n]
      selects == mine # <<>> /\ Overflows(mine, old, level)
  IN /\ cache' = IF selects THEN held ELSE cache
     /\ order2' = IF selects THEN order ELSE order2
     /\ missed' = missed
          \cup {<<"list2", m>> : m \in {n} \ (DOMAIN lists2 \cap dists2)}
          \cup {<<"bytes", m>> : m \in IF selects /\ level = 0 THEN {1, 2} \ bytes ELSE {}}
     /\ file' = [file EXCEPT ![level][n + off] =
                   Slot(IF mine = <<>> THEN old ELSE Connected(mine, old, held, level))]
     /\ i' = i + 1
     /\ UNCHANGED <<index1, index2, pc, level, b, ep, cands, lists1, lists2, dists2, recent1, bytes>>

OldList2(n) == IF n \in DOMAIN lists2 THEN Moved(lists2[n], off) ELSE <<>>
WithCandidates(n) == Cached(DOMAIN cands[n], Vectors(index1, level))

Backward ==
  /\ pc = "backward" /\ level > 0 /\ i \in Window2
  /\ LET n == Element2(i)
         old == OldList2(n)
     IN \E s \in Orders(DOMAIN old), g \in Garbage :
          LET pushed == PushOld(WithCandidates(n), order2, s, g)
          IN Connect2(n, old, pushed[1], pushed[2])

Backward0 ==
  /\ pc = "backward" /\ level = 0 /\ i \in Window2
  /\ Connect2(i, OldList2(i), PushBytes(WithCandidates(i), OldList2(i)), order2)

EndBatch2 ==
  /\ pc = "backward" /\ i \notin Window2
  /\ cache' = <<>>
  /\ IF level = 0 THEN lists2' = <<>> /\ dists2' = {} ELSE UNCHANGED <<lists2, dists2>>
  /\ b' = b + BatchSize /\ pc' = "batch2"
  /\ UNCHANGED <<index1, index2, file, level, i, ep, cands, lists1, recent1, order2, bytes, missed>>

NextLevel ==
  /\ pc = "batch2" /\ b >= Size2
  /\ order2' = <<>> /\ lists2' = <<>> /\ dists2' = {}
  /\ level' = level - 1
  /\ pc' = IF level = 0 THEN "done" ELSE "level"
  /\ UNCHANGED <<index1, index2, file, b, i, ep, cands, lists1, recent1, cache, bytes, missed>>

Stopped ==
  /\ pc \in {"done", "refused", "end of file", "too many for the cache", "slice count mismatch",
             "key not found"}
  /\ UNCHANGED vars

Next ==
  \/ ThrowWrongCase \/ Prepare
  \/ LoadLevel \/ LoadLevel0 \/ LoadLevelFails \/ LoadBatch1 \/ LoadBatch1Fails
  \/ PassBy \/ KeyNotFound \/ Forward \/ Forward0 \/ EndBatch1 \/ TurnBack \/ TurnBack0 \/ TurnBackFails
  \/ LoadBatch2 \/ LoadBatch2Fails \/ Backward \/ Backward0 \/ EndBatch2 \/ NextLevel
  \/ Stopped

Spec == Init /\ [][Next]_vars
-------------------------------------------------------------------------------
InBytes == \A n \in DOMAIN data : Byte(data[n]) = data[n]

\* Line 1319 takes the right records: none but the one meant on level 1; above
\* it those that follow in the buffer, which belong to the next ids of the
\* layer when the layer is one batch.  They are stored under consecutive ids,
\* so no element of the layer may come so soon after a gap.
OneBatch(l) ==
  l <= 1 \/ /\ Cardinality(Layer(index2, l)) <= BatchSize
            /\ \A x, y \in Layer(index2, l) : x < y /\ y < x + l => x .. y \subseteq Layer(index2, l)

\* The variables have their types, and memory holds lists of the inputs only.
TypeOK ==
  /\ pc \in {"start", "level", "batch1", "forward", "batch2", "backward", "done", "refused",
             "end of file", "too many for the cache", "slice count mismatch", "key not found"}
  /\ level \in {-1} \cup Levels(index2) /\ b \in Nat /\ i \in Nat
  /\ DOMAIN file \in {{}, Levels(index2)}
  /\ \A l \in DOMAIN file : \A n \in DOMAIN data :
       file[l][n].count \in Nat /\ DOMAIN file[l][n].list \subseteq DOMAIN data
  /\ \A n \in DOMAIN ep : ep[n] = NoEntry \/ index2.element_levels_[ep[n]] >= level
  /\ \A n \in DOMAIN cands : DOMAIN cands[n] \subseteq Ids(index1)
  /\ DOMAIN lists1 \subseteq Ids(index1) /\ DOMAIN lists2 \subseteq Ids(index2)
  /\ dists2 \subseteq Ids(index2) /\ recent1 \in Seq(Nat)
  /\ order2 \in Seq(Ids(index2)) /\ bytes \subseteq {1, 2}

\* Whatever a step reads of lists, distances and bytes was loaded before and
\* has not been freed since; and up to level 1 the cache of the result holds
\* the vector of each id or its bytes, never that of another element, whatever
\* was pushed beside it.
CachesSound ==
  /\ missed = {}
  /\ pc = "backward" /\ level <= 1 =>
       \A n \in DOMAIN cache : cache[n] \in {data[n], Byte(data[n])}

\* What a batch of index1 brings into its data_: its own elements, those past
\* the last one too, and the neighbours its elements have on the level
Needed1 == (b .. b + BatchSize - 1) \cup UNION {DOMAIN lists1[n] : n \in DOMAIN lists1}

\* An element is evicted before its turn, and the merge gives up, only when the
\* batch and its neighbours on the level are more than the cache may hold.
BatchStaysLoaded == pc = "key not found" => Cardinality(Needed1) > Limit(level)

\* On a merged level every slot of the file is whole: its count is the length
\* of its list, within the bound, of elements of the level, never the owner;
\* the distances are the true ones when the vectors are bytes, and on every
\* other level.
MergedSlotsWhole ==
  \A l \in {m \in DOMAIN file : Finished(m)} : \A n \in DOMAIN data :
    LET slot == file[l][n]
        top(m) == IF m < off THEN index1.element_levels_[m] ELSE index2.element_levels_[m - off]
    IN /\ slot.count = Cardinality(DOMAIN slot.list)
       /\ slot.count <= Mcurmax(M, l)
       /\ \A c \in DOMAIN slot.list :
            /\ top(c) >= l /\ c # n
            /\ l > 0 \/ InBytes => slot.list[c] = Dist(data[n], data[c])

\* Caches and batches make no difference: for vectors of bytes, without
\* deletions, and as long as the push of line 1319 is right, a merge that is
\* not given up ends with the lists the merge in memory builds for pairs it does
\* not promote (DiskReference), on the levels index1 does not have, too.
SameAsInMemory ==
  pc = "done" /\ InBytes /\ index1.deleted \cup index2.deleted = {}
    /\ (\A l \in Levels(index2) : OneBatch(l)) =>
    LET links == MergedInMemory(index1, index2)
    IN \A l \in Levels(index2), n \in DOMAIN data : DOMAIN file[l][n].list = links[l][n]
===============================================================================
