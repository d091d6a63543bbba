-------------------------- MODULE DiskMergeMEProofs --------------------------
(***************************************************************************)
(* The disk merge, for any two files, any batch sizes and any M, lambda    *)
(* and alpha, and, at the end, the cache it keeps vectors in (VarArray),   *)
(* for every set of ids and vectors and every limit.                       *)
(***************************************************************************)
EXTENDS DiskMergeME, VarArray, DiskProofs, SequenceTheorems

-------------------------------------------------------------------------------
(* The inductive invariant *)

\* Before the merged file exists
Untouched ==
  /\ pc \in {"start", "failed"} /\ file = <<>> /\ marks = {}
  /\ level = 0 /\ b = 0 /\ i = 0 /\ ep = <<>> /\ cands = <<>>
  /\ lists1 = <<>> /\ lists2 = <<>> /\ dists2 = {} /\ cached = {} /\ junk = FALSE

TypesOK ==
  /\ pc \in {"level", "batch1", "forward", "batch2", "backward", "done", "failed"}
  /\ level \in IF pc = "done" THEN {-1} ELSE Levels(index2)
  /\ b \in Nat /\ i \in Nat
  /\ marks \subseteq DOMAIN data /\ cached \subseteq DOMAIN data
  /\ file \in [Levels(index2) -> [DOMAIN data -> AnySlot]]
  /\ ep \in [Ids(index1) -> {NoEntry} \cup Layer(index2, level)]
  /\ cands = <<>> \/ cands \in [Ids(index2) -> Lists(Ids(index1))]
  /\ DOMAIN lists1 \subseteq Ids(index1) /\ DOMAIN lists2 \subseteq Ids(index2)
  /\ dists2 \subseteq Ids(index2) /\ junk \in BOOLEAN

\* Slots of index1 and slots of elements that are not on the level are whole
\* from the beginning, the others of a merged level when it is finished.
FileOK ==
  \A l \in Levels(index2) :
    /\ \A n \in Ids(index1) : GoodSlot(l, n)
    /\ \A j \in Ids(index2) :
         j \notin Layer(index2, l) \/ (level < l /\ Merges(l)) => GoodSlot(l, j + off)

\* The forward searches find all lists of index2 in memory, and of a batch of
\* index1 those on the level.
ForwardOK ==
  /\ pc \in {"batch1", "forward"} => lists2 = ReadLists(index2, Layer(index2, level))
  /\ pc = "forward" =>
       /\ b < index1.count /\ i \in b .. Lower(b + Size1, index1.count)
       /\ lists1 = ReadLists(index1, Window(Size1, index1.count) \cap Layer(index1, level))

\* An element of index2 has candidates of the level with true distances.
CandidatesOK ==
  pc \in {"batch1", "forward", "batch2", "backward"} =>
    /\ cands \in [Ids(index2) -> Lists(Ids(index1))]
    /\ \A j \in Ids(index2) : GoodList(data, Tops, j + off, level, cands[j])

\* On the way back lists and distances of the batch are in memory, and the
\* slots before the position are whole.
BackwardOK ==
  /\ pc \in {"batch2", "backward"} /\ level > 0 =>
       lists2 = ReadLists(index2, Layer(index2, level)) /\ dists2 = Layer(index2, level)
  /\ pc = "backward" =>
       /\ b < Size2 /\ i \in b .. Lower(b + BatchSize2, Size2)
       /\ level = 0 => /\ lists2 = ReadLists(index2, Window(BatchSize2, Size2))
                       /\ dists2 = Window(BatchSize2, Size2)
  /\ pc \in {"batch2", "backward"} =>
       \A j \in Layer(index2, level) : Rank(j) < Position2 => GoodSlot(level, j + off)

\* While a level is merged there is an element that asked for it.
Underway ==
  /\ index1.maxlevel_ <= index2.maxlevel_
  /\ TypesOK /\ FileOK /\ ForwardOK /\ CandidatesOK /\ BackwardOK
  /\ pc \in {"batch1", "forward", "batch2", "backward"} => Merges(level)

MEInv ==
  /\ missed = {} /\ InputsOK
  /\ Untouched \/ Underway

-------------------------------------------------------------------------------
(* The merged file *)

\* A write changes one slot, which is whole then.
LEMMA WriteIsGood ==
  ASSUME InputsOK, level \in Levels(index2), marks \subseteq DOMAIN data,
         file \in [Levels(index2) -> [DOMAIN data -> AnySlot]],
         NEW n \in DOMAIN data, NEW list, GoodList(data, Tops, n, level, list),
         Cardinality(DOMAIN list) <= Mcurmax(M, level), Write(n, list)
  PROVE  /\ file' \in [Levels(index2) -> [DOMAIN data -> AnySlot]]
         /\ IsGoodSlot(data, Tops, level, n, file'[level][n])
         /\ \A l \in Levels(index2), m \in DOMAIN data :
              l # level \/ m # n => file'[l][m] = file[l][m]
         /\ marks' \subseteq DOMAIN data
<1>1. level \in Nat
  BY DEF Levels, InputsOK, WellFormed
<1>2. Slot(list) \in AnySlot /\ IsGoodSlot(data, Tops, level, n, Slot(list))
  BY <1>1, SlotFacts
<1>3. file' = [file EXCEPT ![level][n] = Slot(list)]
  BY DEF Write
<1>4. marks' \subseteq DOMAIN data
  BY DEF Write
<1> HIDE DEF AnySlot, data
<1> QED BY <1>2, <1>3, <1>4, WriteFacts

\* The file as it was copied holds what the invariant asks of it.
Copied ==
  /\ InputsOK /\ index1.maxlevel_ <= index2.maxlevel_ /\ file = CopiedFile(index1, index2)
  /\ level = index2.maxlevel_
FileThere == file \in [Levels(index2) -> [DOMAIN data -> AnySlot]] /\ FileOK

LEMMA CopiedFileOK == Copied => FileThere
<1> SUFFICES ASSUME Copied PROVE FileThere
  OBVIOUS
<1>1. /\ file \in [Levels(index2) -> [DOMAIN data -> AnySlot]]
      /\ \A l \in Levels(index2) :
           /\ \A n \in Ids(index1) : IsGoodSlot(data, Tops, l, n, file[l][n])
           /\ \A j \in Ids(index2) \ Layer(index2, l) :
                IsGoodSlot(data, Tops, l, j + off, file[l][j + off])
  BY CopiedFacts DEF Copied
<1>2. \A l \in Levels(index2) : ~ level < l
  BY DEF Copied, Levels, InputsOK, WellFormed
<1> QED BY <1>1, <1>2 DEF FileThere, FileOK, GoodSlot

-------------------------------------------------------------------------------
(* The invariant holds *)

LEMMA InitMEInv == Init => MEInv
<1> SUFFICES ASSUME Init PROVE MEInv
  OBVIOUS
<1>1. InputsOK
  BY DiskAssumption DEF Init, InputsOK
<1> QED BY <1>1 DEF Init, MEInv, Untouched

\* Once the merged file exists
LEMMA UnderwayFacts ==
  ASSUME MEInv, pc \notin {"start", "failed"}
  PROVE  /\ Underway /\ InputsOK /\ missed = {} /\ TypesOK
         /\ FileOK /\ ForwardOK /\ CandidatesOK /\ BackwardOK
         /\ pc # "done" => level \in Levels(index2) /\ level \in Nat
         /\ pc \in {"batch1", "forward", "batch2", "backward"} => Merges(level)
<1>1. Underway /\ InputsOK /\ missed = {}
  BY DEF MEInv, Untouched
<1>2. TypesOK /\ FileOK /\ ForwardOK /\ CandidatesOK /\ BackwardOK
  BY <1>1 DEF Underway
<1>3. pc # "done" => level \in Levels(index2)
  BY <1>2 DEF TypesOK
<1>4. Levels(index2) \subseteq Nat
  BY <1>1 DEF InputsOK, WellFormed, Levels
<1> QED BY <1>1, <1>2, <1>3, <1>4 DEF Underway

LEMMA ThrowWrongCaseInv == MEInv /\ ThrowWrongCase => MEInv'
<1> SUFFICES ASSUME MEInv, ThrowWrongCase PROVE MEInv'
  OBVIOUS
<1>1. Untouched
  BY DEF MEInv, Underway, TypesOK, ThrowWrongCase
<1>2. InputsOK'
  BY DEF MEInv, InputsOK, ThrowWrongCase, Smaller, Larger
<1>3. Untouched'
  BY <1>1 DEF Untouched, ThrowWrongCase, memory
<1>4. missed' = {}
  BY DEF MEInv, ThrowWrongCase
<1> QED BY <1>2, <1>3, <1>4 DEF MEInv

LEMMA PrepareInv == MEInv /\ Prepare => MEInv'
<1> SUFFICES ASSUME MEInv, Prepare PROVE MEInv'
  OBVIOUS
<1>1. Untouched
  BY DEF MEInv, Underway, TypesOK, Prepare
<1> PICK ix1, ix2 : ix1 = Smaller /\ ix2 = Larger
  OBVIOUS
<1>2. /\ index1' = ix1 /\ index2' = ix2 /\ pc' = "level" /\ level' = ix2.maxlevel_
      /\ ix2.maxlevel_ >= ix1.maxlevel_ /\ file' = CopiedFile(ix1, ix2)
      /\ marks' = ix1.deleted \cup Shift(ix2.deleted, ix1.count)
      /\ ep' = [n \in Ids(ix1) |-> NoEntry]
      /\ b' = 0 /\ i' = 0 /\ cands' = <<>> /\ missed' = {} /\ junk' = FALSE
      /\ lists1' = <<>> /\ lists2' = <<>> /\ dists2' = {} /\ cached' = {}
  BY <1>1 DEF Prepare, Untouched, memory, MEInv
<1>3. InputsOK' /\ WellFormed(ix1, M) /\ WellFormed(ix2, M)
  BY <1>2 DEF MEInv, InputsOK, Smaller, Larger
<1>4. index1'.maxlevel_ <= index2'.maxlevel_ /\ level' \in Levels(ix2) /\ level' \in Nat
  BY <1>2, <1>3 DEF WellFormed, Levels
<1>5. FileThere'
  <2>1. Copied'
    BY <1>2, <1>3, <1>4 DEF Copied
  <2> QED BY <2>1, CopiedFileOK, PTL
<1>6. marks' \subseteq DOMAIN data'
  <2> PICK V, T : V = MergedData(ix1, ix2) /\ T = MergedTops(ix1, ix2)
    OBVIOUS
  <2>1. data' = V
    BY <1>2 DEF data
  <2>2. /\ \A n \in Ids(ix1) : n \in DOMAIN V
        /\ \A j \in Ids(ix2) : j + ix1.count \in DOMAIN V
    BY <1>3, PairFacts
  <2>3. ix1.deleted \subseteq Ids(ix1) /\ ix2.deleted \subseteq Ids(ix2)
    BY <1>3 DEF WellFormed
  <2> QED BY <1>2, <2>1, <2>2, <2>3 DEF Shift
<1>7. TypesOK'
  <2>1. ep' \in [Ids(ix1) -> {NoEntry} \cup Layer(ix2, level')]
    BY <1>2
  <2>2. DOMAIN lists1' = {} /\ DOMAIN lists2' = {}
    BY <1>2
  <2> QED BY <1>2, <1>4, <1>5, <1>6, <2>1, <2>2 DEF TypesOK, FileThere
<1>8. ForwardOK' /\ CandidatesOK' /\ BackwardOK'
  BY <1>2 DEF ForwardOK, CandidatesOK, BackwardOK
<1>9. Underway'
  BY <1>2, <1>4, <1>5, <1>7, <1>8 DEF Underway, FileThere
<1> QED BY <1>2, <1>3, <1>9 DEF MEInv

\* What a copied level gets has the type of slots.
LEMMA CopiedSlotsType ==
  ASSUME InputsOK, NEW l \in Levels(index2), NEW j \in Ids(index2),
         NEW s \in CopiedSlots(SavedList(index2, l, j), off)
  PROVE  s \in AnySlot
<1> PICK r : r = SavedList(index2, l, j)
  OBVIOUS
<1>1. DOMAIN r \subseteq Ids(index2)
  BY SavedFacts, LevelFacts DEF InputsOK
<1>2. CASE DOMAIN r = {}
  <2>1. DOMAIN <<>> = {} /\ <<>> \in [{} -> Int]
    OBVIOUS
  <2>2. <<>> \in Lists(DOMAIN data)
    BY <2>1, ListFacts
  <2>3. s = [count |-> 0, list |-> <<>>]
    BY <1>2, <2>1, FS_EmptySet DEF CopiedSlots, Slot
  <2> QED BY <2>2, <2>3 DEF AnySlot
<1>3. CASE DOMAIN r # {}
  <2> DEFINE moved(first) == [c \in Shift(DOMAIN r \ {first}, off) |-> Misaligned]
  <2>1. PICK first \in DOMAIN r : s = [count |-> (first + off) % 2 ^ 16, list |-> moved(first)]
    BY <1>3 DEF CopiedSlots
  <2>2. first \in Int /\ off \in Nat
    BY <1>1, MergedFacts
  <2>3. (first + off) % 2 ^ 16 \in Nat
    <3>1. 2 ^ 16 = 65536
      OBVIOUS
    <3>2. first + off \in Int
      BY <2>2
    <3> HIDE DEF moved
    <3> QED BY <3>1, <3>2
  <2>4. moved(first) \in Lists(DOMAIN data)
    <3>1. Shift(DOMAIN r \ {first}, off) \subseteq DOMAIN data
      BY <1>1, MergedFacts DEF Shift
    <3>2. moved(first) \in [Shift(DOMAIN r \ {first}, off) -> Int]
      BY DEF Misaligned
    <3> HIDE DEF moved
    <3> QED BY <3>1, <3>2, ListFacts
  <2> HIDE DEF moved
  <2> QED BY <2>1, <2>3, <2>4 DEF AnySlot
<1> QED BY <1>2, <1>3

LEMMA CopyLevelInv == MEInv /\ CopyLevel => MEInv'
<1> SUFFICES ASSUME MEInv, CopyLevel PROVE MEInv'
  OBVIOUS
<1>1. /\ pc = "level" /\ ~ Merges(level) /\ level' = level - 1
      /\ pc' = IF level = 0 THEN "done" ELSE "level"
      /\ marks' \subseteq marks /\ lists2' = <<>> /\ dists2' = {}
      /\ UNCHANGED <<index1, index2, b, i, ep, cands, lists1, cached, junk, missed>>
  BY DEF CopyLevel, Merges
<1>2. /\ InputsOK /\ missed = {} /\ TypesOK /\ FileOK /\ level \in Levels(index2) /\ level \in Nat
      /\ index1.maxlevel_ <= index2.maxlevel_
  BY <1>1, UnderwayFacts DEF Underway
<1>3. InputsOK'
  BY <1>1, <1>2 DEF InputsOK
<1>4. /\ level' \in IF pc' = "done" THEN {-1} ELSE Levels(index2)
      /\ ep' \in [Ids(index1) -> {NoEntry} \cup Layer(index2, level')]
  BY <1>1, <1>2, LevelDown DEF TypesOK
<1>5. PICK slots :
        /\ \A n \in Layer(index2, level) : slots[n] \in CopiedSlots(SavedList(index2, level, n), off)
        /\ file' = [file EXCEPT ![level] =
                      [n \in DOMAIN @ |-> IF n - off \in Layer(index2, level)
                                          THEN slots[n - off] ELSE @[n]]]
  BY DEF CopyLevel
<1>6. file \in [Levels(index2) -> [DOMAIN data -> AnySlot]]
  BY <1>2 DEF TypesOK
<1>7. \A j \in Layer(index2, level) : slots[j] \in AnySlot
  BY <1>2, <1>5, CopiedSlotsType DEF Layer
<1> HIDE DEF AnySlot, data, off
<1>8. file' \in [Levels(index2) -> [DOMAIN data -> AnySlot]]
  BY <1>2, <1>5, <1>6, <1>7
<1>9. ASSUME NEW l \in Levels(index2), NEW n \in DOMAIN data,
             l # level \/ n - off \notin Layer(index2, level)
      PROVE  file'[l][n] = file[l][n]
  BY <1>2, <1>5, <1>6, <1>9
<1>10. FileOK'
  <2>1. SUFFICES ASSUME NEW l \in Levels(index2)
                 PROVE  /\ \A n \in Ids(index1) : GoodSlot(l, n)'
                        /\ \A j \in Ids(index2) :
                             j \notin Layer(index2, l) \/ (level' < l /\ Merges(l)) =>
                               GoodSlot(l, j + off)'
    BY <1>1, SameInputs DEF FileOK, Merges, OnTop1
  <2>2. ASSUME NEW n \in Ids(index1) PROVE GoodSlot(l, n)'
    <3>1. n \in DOMAIN data /\ n - off \notin Layer(index2, level)
      BY <1>2, MergedFacts DEF Layer, Ids
    <3>2. file'[l][n] = file[l][n] /\ GoodSlot(l, n)
      BY <1>2, <1>9, <3>1 DEF FileOK
    <3> QED BY <1>1, <3>2, SameSlot
  <2>3. ASSUME NEW j \in Ids(index2), j \notin Layer(index2, l) \/ (level' < l /\ Merges(l))
        PROVE  GoodSlot(l, j + off)'
    <3>1. j + off \in DOMAIN data /\ (j + off) - off = j
      BY <1>2, MergedFacts
    <3>2. l \in Nat /\ (level' < l /\ l # level => level < l)
      BY <1>1, <1>2 DEF Levels
    <3>3. (l # level \/ j \notin Layer(index2, level)) /\ GoodSlot(l, j + off)
      BY <1>1, <1>2, <2>3, <3>2 DEF FileOK
    <3>4. file'[l][j + off] = file[l][j + off]
      BY <1>9, <3>1, <3>3
    <3> QED BY <1>1, <3>3, <3>4, SameSlot2
  <2> QED BY <2>2, <2>3
<1>11. TypesOK'
  <2>1. DOMAIN lists2' = {}
    BY <1>1
  <2>2. data' = data
    BY <1>1, SameInputs
  <2>3. AnySlot' = AnySlot
    BY <2>2 DEF AnySlot
  <2> QED BY <1>1, <1>2, <1>4, <1>8, <2>1, <2>2, <2>3 DEF TypesOK
<1>12. ForwardOK' /\ CandidatesOK' /\ BackwardOK'
  BY <1>1 DEF ForwardOK, CandidatesOK, BackwardOK
<1>13. Underway'
  BY <1>1, <1>2, <1>10, <1>11, <1>12 DEF Underway
<1> QED BY <1>1, <1>2, <1>3, <1>13 DEF MEInv

\* The file keeps what it has while its slots and the level stay.
LEMMA SameFile ==
  ASSUME FileOK, UNCHANGED <<index1, index2, file, level>>
  PROVE  FileOK'
<1>1. Layer(index2, level)' = Layer(index2, level)
  OBVIOUS
<1> SUFFICES ASSUME NEW l \in Levels(index2)
             PROVE  /\ \A n \in Ids(index1) : GoodSlot(l, n)'
                    /\ \A j \in Ids(index2) :
                         j \notin Layer(index2, l) \/ (level < l /\ Merges(l)) => GoodSlot(l, j + off)'
  BY SameInputs DEF FileOK, Merges, OnTop1
<1>2. ASSUME NEW n \in Ids(index1) PROVE GoodSlot(l, n)'
  BY SameSlot DEF FileOK
<1>3. ASSUME NEW j \in Ids(index2), j \notin Layer(index2, l) \/ (level < l /\ Merges(l))
      PROVE  GoodSlot(l, j + off)'
  BY <1>3, SameSlot2 DEF FileOK
<1> QED BY <1>2, <1>3

LEMMA LoadLevelInv == MEInv /\ LoadLevel => MEInv'
<1> SUFFICES ASSUME MEInv, LoadLevel PROVE MEInv'
  OBVIOUS
<1>1. /\ pc = "level" /\ Merges(level)
      /\ lists2' = ReadLists(index2, Layer(index2, level)) /\ dists2' = {}
      /\ cands' = [n \in Ids(index2) |-> <<>>] /\ junk' \in BOOLEAN
      /\ b' = 0 /\ pc' = "batch1"
      /\ UNCHANGED <<index1, index2, file, marks, level, i, ep, lists1, cached, missed>>
  BY DEF LoadLevel, Merges, files
<1>2. /\ InputsOK /\ missed = {} /\ TypesOK /\ FileOK /\ level \in Levels(index2) /\ level \in Nat
      /\ index1.maxlevel_ <= index2.maxlevel_
  BY <1>1, UnderwayFacts DEF Underway
<1>3. InputsOK' /\ missed' = {} /\ FileOK'
  BY <1>1, <1>2, SameFile DEF InputsOK
<1>4. \A j \in Ids(index2) : cands'[j] \in Lists(Ids(index1))
  <2>1. <<>> \in Lists(Ids(index1))
    <3>1. <<>> \in [{} -> Int]
      OBVIOUS
    <3> QED BY <3>1, ListFacts
  <2> QED BY <1>1, <2>1
<1>5. TypesOK'
  <2>1. DOMAIN lists2' = Layer(index2, level) /\ Layer(index2, level) \subseteq Ids(index2)
    BY <1>1 DEF ReadLists, Layer
  <2>2. cands' \in [Ids(index2) -> Lists(Ids(index1))]
    BY <1>1, <1>4
  <2>3. data' = data /\ AnySlot' = AnySlot
    BY <1>1, SameInputs DEF AnySlot
  <2> HIDE DEF AnySlot, data
  <2> QED BY <1>1, <1>2, <2>1, <2>2, <2>3 DEF TypesOK
<1>6. ForwardOK' /\ BackwardOK'
  BY <1>1 DEF ForwardOK, BackwardOK, ReadLists
<1>7. CandidatesOK'
  <2>1. \A j \in Ids(index2) : GoodList(data, Tops, j + off, level, cands'[j])
    BY <1>1, EmptyListGood
  <2>2. data' = data /\ Tops' = Tops /\ off' = off
    BY <1>1, SameInputs
  <2>3. cands' \in [Ids(index2) -> Lists(Ids(index1))]
    BY <1>1, <1>4
  <2> HIDE DEF data, Tops, off
  <2> QED BY <1>1, <2>1, <2>2, <2>3 DEF CandidatesOK
<1>8. Merges(level)'
  BY <1>1 DEF Merges, OnTop1
<1>9. Underway'
  BY <1>1, <1>2, <1>3, <1>5, <1>6, <1>7, <1>8 DEF Underway
<1> QED BY <1>3, <1>9 DEF MEInv

\* A level that is merged is one index1 has.
LEMMA MergedLevel ==
  ASSUME InputsOK, NEW l \in Nat, Merges(l)
  PROVE  l \in Levels(index1)
BY DEF InputsOK, WellFormed, Merges, OnTop1, Levels

\* What a step of a merged level has to keep, said of the same merged index
LEMMA StepCore ==
  ASSUME MEInv, pc \in {"batch1", "forward", "batch2", "backward"},
         pc' \in {"batch1", "forward", "batch2", "backward", "failed"},
         UNCHANGED <<index1, index2, level, junk>>, missed' = {},
         file' \in [Levels(index2) -> [DOMAIN data -> AnySlot]],
         \A l \in Levels(index2), n \in DOMAIN data :
           GoodSlot(l, n) => IsGoodSlot(data, Tops, l, n, file'[l][n]),
         marks' \subseteq DOMAIN data,
         ep' \in [Ids(index1) -> {NoEntry} \cup Layer(index2, level)],
         cands' \in [Ids(index2) -> Lists(Ids(index1))],
         \A j \in Ids(index2) : GoodList(data, Tops, j + off, level, cands'[j]),
         b' \in Nat, i' \in Nat, cached' \subseteq DOMAIN data,
         DOMAIN lists1' \subseteq Ids(index1), DOMAIN lists2' \subseteq Ids(index2),
         dists2' \subseteq Ids(index2), ForwardOK', BackwardOK'
  PROVE  MEInv'
<1>1. /\ InputsOK /\ FileOK /\ level \in Levels(index2)
      /\ Merges(level) /\ index1.maxlevel_ <= index2.maxlevel_
  BY UnderwayFacts DEF Underway
<1>2. InputsOK' /\ Merges(level)'
  BY <1>1 DEF InputsOK, Merges, OnTop1
<1>3. data' = data /\ AnySlot' = AnySlot /\ Tops' = Tops /\ off' = off
  BY SameInputs DEF AnySlot
<1>4. FileOK'
  <2>1. ASSUME NEW l \in Levels(index2), NEW n \in DOMAIN data, GoodSlot(l, n)
        PROVE  IsGoodSlot(data', Tops', l, n, file'[l][n])
    BY <1>3, <2>1
  <2> SUFFICES ASSUME NEW l \in Levels(index2)
               PROVE  /\ \A n \in Ids(index1) : IsGoodSlot(data', Tops', l, n, file'[l][n])
                      /\ \A j \in Ids(index2) :
                           j \notin Layer(index2, l) \/ (level < l /\ Merges(l)) =>
                             IsGoodSlot(data', Tops', l, j + off, file'[l][j + off])
    BY <1>3 DEF FileOK, GoodSlot, Merges, OnTop1
  <2>2. \A n \in Ids(index1) : n \in DOMAIN data /\ GoodSlot(l, n)
    BY <1>1, MergedFacts DEF FileOK
  <2>3. ASSUME NEW j \in Ids(index2), j \notin Layer(index2, l) \/ (level < l /\ Merges(l))
        PROVE  j + off \in DOMAIN data /\ GoodSlot(l, j + off)
    BY <1>1, <2>3, MergedFacts DEF FileOK
  <2> QED BY <2>1, <2>2, <2>3
<1> HIDE DEF AnySlot, data, Tops, off
<1>5. TypesOK'
  <2>1. level' \in IF pc' = "done" THEN {-1} ELSE Levels(index2')
    BY <1>1
  <2>2. file' \in [Levels(index2') -> [DOMAIN data' -> AnySlot']] /\ marks' \subseteq DOMAIN data'
        /\ cached' \subseteq DOMAIN data'
    BY <1>3
  <2>3. junk' \in BOOLEAN
    BY UnderwayFacts DEF TypesOK
  <2>4. /\ ep' \in [Ids(index1') -> {NoEntry} \cup Layer(index2', level')]
        /\ cands' \in [Ids(index2') -> Lists(Ids(index1'))]
        /\ DOMAIN lists1' \subseteq Ids(index1') /\ DOMAIN lists2' \subseteq Ids(index2')
        /\ dists2' \subseteq Ids(index2')
    OBVIOUS
  <2> QED BY <2>1, <2>2, <2>3, <2>4 DEF TypesOK
<1>6. CandidatesOK'
  BY <1>1, <1>3 DEF CandidatesOK
<1>7. Underway'
  BY <1>1, <1>2, <1>4, <1>5, <1>6 DEF Underway
<1> QED BY <1>2, <1>7 DEF MEInv

\* A step that only reads or frees
LEMMA SameCore ==
  ASSUME MEInv, pc \in {"batch1", "forward", "batch2", "backward"},
         pc' \in {"batch1", "forward", "batch2", "backward", "failed"},
         UNCHANGED <<index1, index2, file, marks, level, ep, cands, junk, missed>>,
         b' \in Nat, i' \in Nat, cached' \subseteq DOMAIN data,
         DOMAIN lists1' \subseteq Ids(index1), DOMAIN lists2' \subseteq Ids(index2),
         dists2' \subseteq Ids(index2), ForwardOK', BackwardOK'
  PROVE  MEInv'
<1>1. /\ TypesOK /\ CandidatesOK /\ missed = {} /\ level \in Levels(index2)
  BY UnderwayFacts
<1>2. /\ file' \in [Levels(index2) -> [DOMAIN data -> AnySlot]] /\ marks' \subseteq DOMAIN data
      /\ ep' \in [Ids(index1) -> {NoEntry} \cup Layer(index2, level)] /\ missed' = {}
  BY <1>1 DEF TypesOK
<1>3. /\ cands' \in [Ids(index2) -> Lists(Ids(index1))]
      /\ \A j \in Ids(index2) : GoodList(data, Tops, j + off, level, cands'[j])
  BY <1>1 DEF CandidatesOK
<1>4. \A l \in Levels(index2), n \in DOMAIN data :
        GoodSlot(l, n) => IsGoodSlot(data, Tops, l, n, file'[l][n])
  BY DEF GoodSlot
<1> QED BY <1>2, <1>3, <1>4, StepCore

\* The size of a batch
LEMMA SizeType == Size1 \in Nat \ {0} /\ BatchSize2 \in Nat \ {0}
BY BatchAssumption DEF Size1

LEMMA LoadBatch1Inv == MEInv /\ LoadBatch1 => MEInv'
<1> SUFFICES ASSUME MEInv, LoadBatch1 PROVE MEInv'
  OBVIOUS
<1> PICK W : W = Window(Size1, index1.count) \cap Layer(index1, level)
  OBVIOUS
<1>1. /\ pc = "batch1" /\ b < index1.count /\ lists1' = ReadLists(index1, W)
      /\ i' = b /\ pc' = "forward"
      /\ UNCHANGED <<index1, index2, file, marks, level, b, ep, cands, lists2, dists2, cached, junk, missed>>
  BY DEF LoadBatch1, files
<1>2. TypesOK /\ ForwardOK /\ b \in Nat /\ index1.count \in Nat
  BY <1>1, UnderwayFacts DEF TypesOK, InputsOK, WellFormed
<1>3. i' \in b .. Lower(b + Size1, index1.count)
  BY <1>1, <1>2, SizeType, WindowFacts
<1>4. DOMAIN lists1' \subseteq Ids(index1)
  BY <1>1 DEF ReadLists, Layer
<1>5. ForwardOK'
  <2>1. lists1' = ReadLists(index1, Window(Size1, index1.count) \cap Layer(index1, level))'
    BY <1>1 DEF ReadLists, Window, Size1
  <2>2. lists2' = ReadLists(index2, Layer(index2, level))'
    BY <1>1, <1>2 DEF ReadLists, ForwardOK
  <2>3. Size1' = Size1
    BY <1>1 DEF Size1
  <2> QED BY <1>1, <1>3, <2>1, <2>2, <2>3 DEF ForwardOK
<1>6. BackwardOK'
  BY <1>1 DEF BackwardOK
<1>7. /\ i' \in Nat /\ b' \in Nat /\ cached' \subseteq DOMAIN data /\ dists2' \subseteq Ids(index2)
      /\ DOMAIN lists2' \subseteq Ids(index2)
  BY <1>1, <1>2 DEF TypesOK
<1> QED BY <1>1, <1>4, <1>5, <1>6, <1>7, SameCore

\* A read that runs into the end of a file
LEMMA MayFailInv ==
  ASSUME MEInv, pc \in {"batch1", "batch2"}, NEW size, NEW n, MayFail(size, n)
  PROVE  MEInv'
<1>1. /\ pc' = "failed"
      /\ UNCHANGED <<index1, index2, file, marks, level, b, i, ep, cands, lists1, lists2, dists2,
                     cached, junk, missed>>
  BY DEF MayFail, files, memory
<1>2. TypesOK
  BY UnderwayFacts
<1>3. ForwardOK' /\ BackwardOK'
  BY <1>1 DEF ForwardOK, BackwardOK
<1>4. /\ i' \in Nat /\ b' \in Nat /\ cached' \subseteq DOMAIN data /\ dists2' \subseteq Ids(index2)
      /\ DOMAIN lists1' \subseteq Ids(index1) /\ DOMAIN lists2' \subseteq Ids(index2)
  BY <1>1, <1>2 DEF TypesOK
<1> QED BY <1>1, <1>3, <1>4, SameCore

LEMMA LoadFailsInv == MEInv /\ (LoadBatch1Fails \/ LoadBatch2Fails) => MEInv'
BY MayFailInv DEF LoadBatch1Fails, LoadBatch2Fails

LEMMA EndBatch1Inv == MEInv /\ EndBatch1 => MEInv'
<1> SUFFICES ASSUME MEInv, EndBatch1 PROVE MEInv'
  OBVIOUS
<1>1. /\ pc = "forward" /\ pc' = "batch1" /\ cached' = {} /\ lists1' = <<>> /\ b' = b + Size1
      /\ UNCHANGED <<index1, index2, file, marks, level, i, ep, cands, lists2, dists2, junk, missed>>
  BY DEF EndBatch1, files
<1>2. TypesOK /\ ForwardOK
  BY <1>1, UnderwayFacts
<1>3. ForwardOK' /\ BackwardOK'
  BY <1>1, <1>2 DEF ForwardOK, BackwardOK, ReadLists
<1>4. /\ i' \in Nat /\ b' \in Nat /\ cached' \subseteq DOMAIN data /\ dists2' \subseteq Ids(index2)
      /\ DOMAIN lists1' \subseteq Ids(index1) /\ DOMAIN lists2' \subseteq Ids(index2)
  BY <1>1, <1>2, SizeType DEF TypesOK
<1> QED BY <1>1, <1>3, <1>4, SameCore

LEMMA TurnBackInv == MEInv /\ TurnBack => MEInv'
<1> SUFFICES ASSUME MEInv, TurnBack PROVE MEInv'
  OBVIOUS
<1>1. /\ pc = "batch1" /\ pc' = "batch2" /\ b' = 0
      /\ IF level = 0 THEN lists2' = <<>> /\ dists2' = {}
         ELSE dists2' = Layer(index2, level) /\ UNCHANGED lists2
      /\ UNCHANGED <<index1, index2, file, marks, level, i, ep, cands, lists1, cached, junk, missed>>
  BY DEF TurnBack, files
<1>2. TypesOK /\ ForwardOK /\ InputsOK /\ level \in Levels(index2)
  BY <1>1, UnderwayFacts
<1>3. ForwardOK'
  BY <1>1 DEF ForwardOK
<1>4. BackwardOK'
  <2>1. \A j \in Layer(index2, level) : ~ Rank(j) < Position2'
    BY <1>1, <1>2, RankType DEF Position2
  <2>2. \A j \in Layer(index2, level)' : Rank(j)' < Position2' => GoodSlot(level, j + off)'
    BY <1>1, <2>1, SameRanks
  <2>3. level > 0 => lists2' = ReadLists(index2, Layer(index2, level))' /\ dists2' = Layer(index2, level)'
    BY <1>1, <1>2 DEF ForwardOK, ReadLists
  <2> QED BY <1>1, <2>2, <2>3 DEF BackwardOK
<1>5. /\ i' \in Nat /\ b' \in Nat /\ cached' \subseteq DOMAIN data
      /\ dists2' \subseteq Ids(index2) /\ DOMAIN lists2' \subseteq Ids(index2)
      /\ DOMAIN lists1' \subseteq Ids(index1)
  BY <1>1, <1>2 DEF TypesOK, Layer
<1> QED BY <1>1, <1>3, <1>4, <1>5, SameCore

LEMMA LoadBatch2Inv == MEInv /\ LoadBatch2 => MEInv'
<1> SUFFICES ASSUME MEInv, LoadBatch2 PROVE MEInv'
  OBVIOUS
<1>1. /\ pc = "batch2" /\ b < Size2 /\ pc' = "backward" /\ i' = b
      /\ IF level = 0 THEN /\ lists2' = ReadLists(index2, Window(BatchSize2, Size2))
                           /\ dists2' = Window(BatchSize2, Size2)
         ELSE UNCHANGED <<lists2, dists2>>
      /\ UNCHANGED <<index1, index2, file, marks, level, b, ep, cands, lists1, cached, junk, missed>>
  BY DEF LoadBatch2, files
<1>2. /\ TypesOK /\ BackwardOK /\ InputsOK /\ level \in Levels(index2) /\ level \in Nat /\ b \in Nat
      /\ Size2 \in Nat
  BY <1>1, UnderwayFacts, LevelFacts DEF TypesOK, InputsOK, Size2
<1>3. i' \in b .. Lower(b + BatchSize2, Size2)
  BY <1>1, <1>2, SizeType, WindowFacts
<1>4. level = 0 => Window(BatchSize2, Size2) \subseteq Ids(index2)
  <2> SUFFICES ASSUME level = 0, NEW k \in Window(BatchSize2, Size2) PROVE k \in Ids(index2)
    OBVIOUS
  <2>1. k \in Nat /\ k < Size2 /\ Size2 = index2.count
    BY <1>2, SizeType, WindowFacts, Level0Facts
  <2> QED BY <1>2, <2>1 DEF Ids
<1>5. ForwardOK'
  BY <1>1 DEF ForwardOK
<1>6. BackwardOK'
  <2>1. \A j \in Layer(index2, level) : Rank(j) < Position2' => GoodSlot(level, j + off)
    BY <1>1, <1>2 DEF Position2, BackwardOK
  <2>2. \A j \in Layer(index2, level)' : Rank(j)' < Position2' => GoodSlot(level, j + off)'
    BY <1>1, <2>1, SameRanks
  <2>3. level > 0 => lists2' = ReadLists(index2, Layer(index2, level))' /\ dists2' = Layer(index2, level)'
    BY <1>1, <1>2 DEF BackwardOK, ReadLists
  <2>4. Size2' = Size2 /\ Window(BatchSize2, Size2)' = Window(BatchSize2, Size2)
    BY <1>1 DEF Size2, Window
  <2>5. level = 0 => lists2' = ReadLists(index2, Window(BatchSize2, Size2))' /\ dists2' = Window(BatchSize2, Size2)'
    BY <1>1, <2>4 DEF ReadLists
  <2> QED BY <1>1, <1>2, <1>3, <2>2, <2>3, <2>4, <2>5 DEF BackwardOK
<1>7. /\ i' \in Nat /\ b' \in Nat /\ cached' \subseteq DOMAIN data
      /\ dists2' \subseteq Ids(index2) /\ DOMAIN lists2' \subseteq Ids(index2)
      /\ DOMAIN lists1' \subseteq Ids(index1)
  BY <1>1, <1>2, <1>4 DEF TypesOK, ReadLists
<1> QED BY <1>1, <1>5, <1>6, <1>7, SameCore

LEMMA EndBatch2Inv == MEInv /\ EndBatch2 => MEInv'
<1> SUFFICES ASSUME MEInv, EndBatch2 PROVE MEInv'
  OBVIOUS
<1>1. /\ pc = "backward" /\ i \notin Window(BatchSize2, Size2) /\ pc' = "batch2"
      /\ cached' = {} /\ b' = b + BatchSize2
      /\ IF level = 0 THEN lists2' = <<>> /\ dists2' = {} ELSE UNCHANGED <<lists2, dists2>>
      /\ UNCHANGED <<index1, index2, file, marks, level, i, ep, cands, lists1, junk, missed>>
  BY DEF EndBatch2, files
<1>2. /\ TypesOK /\ BackwardOK /\ InputsOK /\ level \in Levels(index2) /\ level \in Nat /\ b \in Nat
      /\ Size2 \in Nat /\ i \in b .. Lower(b + BatchSize2, Size2)
  BY <1>1, UnderwayFacts, LevelFacts DEF TypesOK, InputsOK, Size2, BackwardOK
<1>3. i = Lower(b + BatchSize2, Size2)
  BY <1>1, <1>2, SizeType, WindowFacts
<1>4. ForwardOK'
  BY <1>1 DEF ForwardOK
<1>5. BackwardOK'
  <2>1. ASSUME NEW j \in Layer(index2, level), Rank(j) < Position2'
        PROVE  GoodSlot(level, j + off)
    <3>1. Rank(j) < b + BatchSize2 /\ Rank(j) < Size2
      BY <1>1, <1>2, <2>1, RankType DEF Position2
    <3>2. Rank(j) < i
      BY <1>3, <3>1 DEF Lower
    <3> QED BY <1>1, <1>2, <3>2 DEF BackwardOK, Position2
  <2>2. \A j \in Layer(index2, level)' : Rank(j)' < Position2' => GoodSlot(level, j + off)'
    BY <1>1, <2>1, SameRanks
  <2>3. level > 0 => lists2' = ReadLists(index2, Layer(index2, level))' /\ dists2' = Layer(index2, level)'
    BY <1>1, <1>2 DEF BackwardOK, ReadLists
  <2> QED BY <1>1, <2>2, <2>3 DEF BackwardOK
<1>6. /\ i' \in Nat /\ b' \in Nat /\ cached' \subseteq DOMAIN data
      /\ dists2' \subseteq Ids(index2) /\ DOMAIN lists2' \subseteq Ids(index2)
      /\ DOMAIN lists1' \subseteq Ids(index1)
  BY <1>1, <1>2, SizeType DEF TypesOK
<1> QED BY <1>1, <1>4, <1>5, <1>6, SameCore

LEMMA NextLevelInv == MEInv /\ NextLevel => MEInv'
<1> SUFFICES ASSUME MEInv, NextLevel PROVE MEInv'
  OBVIOUS
<1>1. /\ pc = "batch2" /\ b >= Size2 /\ level' = level - 1
      /\ pc' = IF level = 0 THEN "done" ELSE "level"
      /\ UNCHANGED <<index1, index2, file, marks, b, i, ep, cands, lists1, lists2, dists2, cached,
                     junk, missed>>
  BY DEF NextLevel, files, memory
<1>2. /\ InputsOK /\ missed = {} /\ TypesOK /\ FileOK /\ BackwardOK
      /\ level \in Levels(index2) /\ level \in Nat /\ index1.maxlevel_ <= index2.maxlevel_
  BY <1>1, UnderwayFacts DEF Underway
<1>3. InputsOK' /\ missed' = {}
  BY <1>1, <1>2 DEF InputsOK
<1>4. /\ level' \in IF pc' = "done" THEN {-1} ELSE Levels(index2)
      /\ ep' \in [Ids(index1) -> {NoEntry} \cup Layer(index2, level')]
  BY <1>1, <1>2, LevelDown DEF TypesOK
<1>5. \A j \in Layer(index2, level) : GoodSlot(level, j + off)
  <2> SUFFICES ASSUME NEW j \in Layer(index2, level) PROVE GoodSlot(level, j + off)
    OBVIOUS
  <2>1. Rank(j) < b
    <3>1. Rank(j) \in Nat /\ Rank(j) < Size2 /\ Size2 \in Nat /\ b \in Nat
      BY <1>2, RankType DEF TypesOK
    <3> QED BY <1>1, <3>1
  <2> QED BY <1>1, <1>2, <2>1 DEF BackwardOK, Position2
<1>6. FileOK'
  <2>1. SUFFICES ASSUME NEW l \in Levels(index2)
                 PROVE  /\ \A n \in Ids(index1) : GoodSlot(l, n)'
                        /\ \A j \in Ids(index2) :
                             j \notin Layer(index2, l) \/ (level' < l /\ Merges(l)) =>
                               GoodSlot(l, j + off)'
    BY <1>1, SameInputs DEF FileOK, Merges, OnTop1
  <2>2. ASSUME NEW n \in Ids(index1) PROVE GoodSlot(l, n)'
    BY <1>1, <1>2, SameSlot DEF FileOK
  <2>3. ASSUME NEW j \in Ids(index2), j \notin Layer(index2, l) \/ (level' < l /\ Merges(l))
        PROVE  GoodSlot(l, j + off)'
    <3>1. l \in Nat /\ (level' < l /\ l # level => level < l)
      BY <1>1, <1>2 DEF Levels
    <3>2. GoodSlot(l, j + off)
      BY <1>2, <1>5, <2>3, <3>1 DEF FileOK
    <3> QED BY <1>1, <3>2, SameSlot2
  <2> QED BY <2>2, <2>3
<1>7. TypesOK'
  <2>1. data' = data /\ AnySlot' = AnySlot
    BY <1>1, SameInputs DEF AnySlot
  <2> HIDE DEF AnySlot, data
  <2> QED BY <1>1, <1>2, <1>4, <2>1 DEF TypesOK
<1>8. ForwardOK' /\ CandidatesOK' /\ BackwardOK'
  BY <1>1 DEF ForwardOK, CandidatesOK, BackwardOK
<1>9. Underway'
  BY <1>1, <1>2, <1>6, <1>7, <1>8 DEF Underway
<1> QED BY <1>3, <1>9 DEF MEInv

\* What a forward step finds in memory: all of index2 on the level, and no
\* list of it is missing.
LEMMA ForwardMemory ==
  ASSUME MEInv, pc = "forward", i \in Window(Size1, index1.count)
  PROVE  /\ i \in Ids(index1) /\ i \in Nat /\ i + 1 \in b .. Lower(b + Size1, index1.count)
         /\ InMemory(index2, level, lists2, index2.data) = index2
         /\ Unloaded2(level) = {}
         /\ index1.data[i] \in Int /\ ep[i] \in {NoEntry} \cup Layer(index2, level)
         /\ i \in Layer(index1, level) =>
              i \in DOMAIN lists1 /\ lists1[i] = SavedList(index1, level, i)
<1>1. /\ InputsOK /\ TypesOK /\ ForwardOK /\ level \in Levels(index2)
  BY UnderwayFacts
<1>2. lists2 = [n \in Layer(index2, level) |-> SavedList(index2, level, n)]
  BY <1>1 DEF ForwardOK, ReadLists
<1>3. InMemory(index2, level, lists2, index2.data) = index2
  <2>1. WellFormed(index2, M) /\ IsRecord(index2)
    BY <1>1 DEF InputsOK
  <2> QED BY <1>1, <1>2, <2>1, InMemoryIsWhole
<1>4. Unloaded2(level) = {}
  BY <1>2 DEF Unloaded2
<1>5. i \in Nat /\ i < index1.count /\ i + 1 \in b .. Lower(b + Size1, index1.count) /\ index1.count \in Nat
  <2>1. b \in Nat /\ index1.count \in Nat
    BY <1>1 DEF TypesOK, InputsOK, WellFormed
  <2> QED BY <2>1, SizeType, WindowFacts
<1>6. i \in Ids(index1)
  BY <1>5 DEF Ids
<1>7. index1.data[i] \in Int /\ ep[i] \in {NoEntry} \cup Layer(index2, level)
  BY <1>1, <1>6 DEF InputsOK, WellFormed, TypesOK
<1>8. i \in Layer(index1, level) =>
        i \in DOMAIN lists1 /\ lists1[i] = SavedList(index1, level, i)
  BY <1>1 DEF ForwardOK, ReadLists
<1> QED BY <1>3, <1>4, <1>5, <1>6, <1>7, <1>8

LEMMA PassByInv == MEInv /\ PassBy => MEInv'
<1> SUFFICES ASSUME MEInv, PassBy PROVE MEInv'
  OBVIOUS
<1>1. /\ pc = "forward" /\ i \in Window(Size1, index1.count)
      /\ ep' = [ep EXCEPT ![i] =
                  NextEntry(InMemory(index2, level, lists2, index2.data), index1.data[i], @, level)]
      /\ missed' = missed \cup Unloaded2(level) /\ i' = i + 1
      /\ UNCHANGED <<index1, index2, file, marks, pc, level, b, cands, lists1, lists2, dists2, cached, junk>>
  BY DEF PassBy, files, memory
<1>2. /\ TypesOK /\ ForwardOK /\ CandidatesOK /\ InputsOK /\ level \in Levels(index2) /\ missed = {}
  BY <1>1, UnderwayFacts
<1>3. /\ i \in Ids(index1) /\ i \in Nat /\ i + 1 \in b .. Lower(b + Size1, index1.count)
      /\ InMemory(index2, level, lists2, index2.data) = index2 /\ Unloaded2(level) = {}
      /\ index1.data[i] \in Int /\ ep[i] \in {NoEntry} \cup Layer(index2, level)
  BY <1>1, ForwardMemory
<1>4. NextEntry(index2, index1.data[i], ep[i], level) \in Layer(index2, level)
  BY <1>2, <1>3, NextEntryFacts DEF InputsOK
<1>5. ep' \in [Ids(index1) -> {NoEntry} \cup Layer(index2, level)]
  BY <1>1, <1>2, <1>3, <1>4 DEF TypesOK
<1>6. ForwardOK'
  BY <1>1, <1>2, <1>3 DEF ForwardOK, ReadLists, Window, Size1
<1>7. BackwardOK'
  BY <1>1 DEF BackwardOK
<1>8. /\ file' \in [Levels(index2) -> [DOMAIN data -> AnySlot]] /\ marks' \subseteq DOMAIN data
      /\ missed' = {} /\ b' \in Nat /\ i' \in Nat /\ cached' \subseteq DOMAIN data
      /\ DOMAIN lists1' \subseteq Ids(index1) /\ DOMAIN lists2' \subseteq Ids(index2)
      /\ dists2' \subseteq Ids(index2)
  BY <1>1, <1>2, <1>3 DEF TypesOK
<1>9. /\ cands' \in [Ids(index2) -> Lists(Ids(index1))]
      /\ \A j \in Ids(index2) : GoodList(data, Tops, j + off, level, cands'[j])
  BY <1>1, <1>2 DEF CandidatesOK
<1>10. \A l \in Levels(index2), n \in DOMAIN data :
         GoodSlot(l, n) => IsGoodSlot(data, Tops, l, n, file'[l][n])
  BY <1>1 DEF GoodSlot
<1> QED BY <1>1, <1>5, <1>6, <1>7, <1>8, <1>9, <1>10, StepCore

\* One write leaves the other slots as they were.
LEMMA WriteKeeps ==
  ASSUME InputsOK, level \in Levels(index2), TypesOK,
         NEW n \in DOMAIN data, NEW list, GoodList(data, Tops, n, level, list),
         Cardinality(DOMAIN list) <= Mcurmax(M, level), Write(n, list)
  PROVE  /\ file' \in [Levels(index2) -> [DOMAIN data -> AnySlot]] /\ marks' \subseteq DOMAIN data
         /\ IsGoodSlot(data, Tops, level, n, file'[level][n])
         /\ \A l \in Levels(index2), m \in DOMAIN data :
              GoodSlot(l, m) => IsGoodSlot(data, Tops, l, m, file'[l][m])
<1> HIDE DEF data, Tops, AnySlot
<1>1. /\ file' \in [Levels(index2) -> [DOMAIN data -> AnySlot]] /\ marks' \subseteq DOMAIN data
      /\ IsGoodSlot(data, Tops, level, n, file'[level][n])
      /\ \A l \in Levels(index2), m \in DOMAIN data :
           l # level \/ m # n => file'[l][m] = file[l][m]
  BY WriteIsGood DEF TypesOK
<1>2. ASSUME NEW l \in Levels(index2), NEW m \in DOMAIN data, GoodSlot(l, m)
      PROVE  IsGoodSlot(data, Tops, l, m, file'[l][m])
  <2>1. CASE l = level /\ m = n
    BY <1>1, <2>1
  <2>2. CASE l # level \/ m # n
    <3>1. file'[l][m] = file[l][m]
      BY <1>1, <2>2
    <3> QED BY <1>2, <3>1 DEF GoodSlot
  <2> QED BY <2>1, <2>2
<1> QED BY <1>1, <1>2

LEMMA ForwardInv == MEInv /\ Forward => MEInv'
<1> SUFFICES ASSUME MEInv, Forward PROVE MEInv'
  OBVIOUS
<1> PICK F, found, old :
      /\ F = Found(InMemory(index2, level, lists2, index2.data), index1.data[i], ep[i], level)
      /\ found = Moved(F, off)
      /\ old = IF i \in DOMAIN lists1 THEN lists1[i] ELSE <<>>
  OBVIOUS
<1>1. /\ pc = "forward" /\ i \in Window(Size1, index1.count) /\ index1.element_levels_[i] >= level
      /\ i' = i + 1
      /\ UNCHANGED <<index1, index2, pc, level, b, lists1, lists2, dists2, junk>>
  BY DEF Forward
<1>2. /\ ep' = [ep EXCEPT ![i] = Nearest(data, index1.data[i], DOMAIN found) - off]
      /\ cands' = AddCandidates(cands, Moved(found, -off), i)
      /\ cached' = Cache(found, old)
      /\ missed' = missed \cup Unloaded2(level)
                     \cup {<<"list1", n>> : n \in {i} \ DOMAIN lists1}
                     \cup {<<"vector", n>> : n \in
                            IF Overflows(found, old, level)
                            THEN (DOMAIN found \cup DOMAIN old) \ cached' ELSE {}}
      /\ Write(i, Connected(found, old, data, level))
  BY DEF Forward, LastEntry
<1>3. /\ TypesOK /\ ForwardOK /\ CandidatesOK /\ InputsOK /\ level \in Levels(index2) /\ level \in Nat
      /\ missed = {} /\ Merges(level)
  BY <1>1, UnderwayFacts
<1>4. /\ i \in Ids(index1) /\ i \in Nat /\ i + 1 \in b .. Lower(b + Size1, index1.count)
      /\ InMemory(index2, level, lists2, index2.data) = index2 /\ Unloaded2(level) = {}
      /\ ep[i] \in {NoEntry} \cup Layer(index2, level)
  BY <1>1, ForwardMemory
<1>5. i \in Layer(index1, level) /\ level \in Levels(index1) /\ i \in DOMAIN data
  BY <1>1, <1>3, <1>4, MergedLevel, MergedFacts DEF Layer
<1>6. i \in DOMAIN lists1 /\ old = SavedList(index1, level, i)
  BY <1>1, <1>5, ForwardMemory
<1>7. IsSearch(i, level, F) /\ found = Moved(F, off)
  BY <1>3, <1>4, <1>5 DEF IsSearch
<1>8. /\ GoodList(data, Tops, i, level, found) /\ DOMAIN found # {}
      /\ Nearest(data, index1.data[i], DOMAIN found) - off \in Layer(index2, level)
  BY <1>3, <1>7, SearchFacts
<1>9. /\ Moved(found, -off) = F
      /\ \A j \in DOMAIN F :
           /\ GoodList(data, Tops, j + off, level, Candidate(i, F[j]))
           /\ Candidate(i, F[j]) \in Lists(Ids(index1))
  BY <1>3, <1>7, SearchFacts
<1>10. GoodList(data, Tops, i, level, old)
  BY <1>3, <1>4, <1>5, <1>6, SavedList1Good
<1>11. /\ GoodList(data, Tops, i, level, Connected(found, old, data, level))
       /\ Cardinality(DOMAIN Connected(found, old, data, level)) <= Mcurmax(M, level)
  BY <1>3, <1>5, <1>8, <1>10, MergedConnected
<1>12. /\ file' \in [Levels(index2) -> [DOMAIN data -> AnySlot]] /\ marks' \subseteq DOMAIN data
       /\ \A l \in Levels(index2), n \in DOMAIN data :
            GoodSlot(l, n) => IsGoodSlot(data, Tops, l, n, file'[l][n])
  <2> PICK list : list = Connected(found, old, data, level)
    OBVIOUS
  <2>1. /\ GoodList(data, Tops, i, level, list) /\ Cardinality(DOMAIN list) <= Mcurmax(M, level)
        /\ Write(i, list)
    BY <1>2, <1>11
  <2> QED BY <1>3, <1>5, <2>1, WriteKeeps
<1>13. ep' \in [Ids(index1) -> {NoEntry} \cup Layer(index2, level)]
  BY <1>2, <1>3, <1>4, <1>8 DEF TypesOK
<1>14. /\ cands' \in [Ids(index2) -> Lists(Ids(index1))]
       /\ \A j \in Ids(index2) : GoodList(data, Tops, j + off, level, cands'[j])
  <2>1. /\ cands \in [Ids(index2) -> Lists(Ids(index1))]
        /\ \A j \in Ids(index2) : GoodList(data, Tops, j + off, level, cands[j])
    BY <1>1, <1>3 DEF CandidatesOK
  <2>2. cands' = [j \in Ids(index2) |->
                    IF j \in DOMAIN F THEN Joined(cands[j], Candidate(i, F[j])) ELSE cands[j]]
    BY <1>2, <1>9, <2>1 DEF AddCandidates, Candidate
  <2>3. ASSUME NEW j \in Ids(index2)
        PROVE  cands'[j] \in Lists(Ids(index1)) /\ GoodList(data, Tops, j + off, level, cands'[j])
    <3>1. CASE j \notin DOMAIN F
      BY <2>1, <2>2, <3>1
    <3>2. CASE j \in DOMAIN F
      <4> PICK f, c : f = Candidate(i, F[j]) /\ c = cands[j]
        OBVIOUS
      <4>1. /\ GoodList(data, Tops, j + off, level, f) /\ GoodList(data, Tops, j + off, level, c)
            /\ f \in Lists(Ids(index1)) /\ c \in Lists(Ids(index1)) /\ cands'[j] = Joined(c, f)
        BY <1>9, <2>1, <2>2, <3>2
      <4>2. GoodList(data, Tops, j + off, level, Joined(c, f))
        BY <4>1, JoinedFacts
      <4>3. Joined(c, f) \in Lists(Ids(index1))
        <5>1. /\ c \in [DOMAIN c -> Int] /\ f \in [DOMAIN f -> Int]
              /\ DOMAIN c \cup DOMAIN f \subseteq Ids(index1)
          BY <4>1, ListFacts
        <5>2. Joined(c, f) \in [DOMAIN c \cup DOMAIN f -> Int]
          BY <5>1 DEF Joined
        <5> QED BY <5>1, <5>2, ListFacts
      <4> QED BY <4>1, <4>2, <4>3
    <3> QED BY <3>1, <3>2
  <2> QED BY <2>2, <2>3
<1>15. cached' \subseteq DOMAIN data
  <2>1. DOMAIN found \subseteq DOMAIN data /\ DOMAIN old \subseteq DOMAIN data
    BY <1>8, <1>10, ListFacts DEF GoodList
  <2> QED BY <1>2, <1>3, <2>1 DEF Cache, TypesOK
<1>16. missed' = {}
  BY <1>2, <1>3, <1>4, <1>6 DEF Cache
<1>17. ForwardOK'
  BY <1>1, <1>3, <1>4 DEF ForwardOK, ReadLists, Window, Size1
<1>18. BackwardOK'
  BY <1>1 DEF BackwardOK
<1>19. /\ b' \in Nat /\ i' \in Nat /\ dists2' \subseteq Ids(index2)
       /\ DOMAIN lists1' \subseteq Ids(index1) /\ DOMAIN lists2' \subseteq Ids(index2)
  BY <1>1, <1>3, <1>4 DEF TypesOK
<1> QED BY <1>1, <1>12, <1>13, <1>14, <1>15, <1>16, <1>17, <1>18, <1>19, StepCore

\* What a backward step finds in memory: the list of its element, moved
LEMMA BackwardMemory ==
  ASSUME MEInv, pc = "backward", i \in Window(BatchSize2, Size2), NEW n, n = Element2(i)
  PROVE  /\ n \in Layer(index2, level) /\ n \in Ids(index2) /\ n + off \in DOMAIN data
         /\ i \in Nat /\ i + 1 \in b .. Lower(b + BatchSize2, Size2) /\ Rank(n) = i
         /\ \A j \in Layer(index2, level) : Rank(j) = i => j = n
         /\ n \in DOMAIN lists2 \cap dists2 /\ lists2[n] = SavedList(index2, level, n)
<1>1. /\ InputsOK /\ TypesOK /\ BackwardOK /\ level \in Levels(index2) /\ level \in Nat
  BY UnderwayFacts
<1>2. /\ i \in Nat /\ i < Size2 /\ i + 1 \in b .. Lower(b + BatchSize2, Size2)
      /\ Size2 \in Nat
  <2>1. b \in Nat /\ Size2 \in Nat
    BY <1>1, LevelFacts DEF TypesOK, Size2, InputsOK
  <2> QED BY <2>1, SizeType, WindowFacts
<1>3. i \in 0 .. Size2 - 1
  BY <1>2
<1>4. /\ n \in Layer(index2, level) /\ Rank(n) = i
      /\ \A j \in Layer(index2, level) : Rank(j) = i => j = n
      /\ level = 0 => n = i
  BY <1>1, <1>3, Element2Facts
<1>5. n \in Ids(index2) /\ n + off \in DOMAIN data
  BY <1>1, <1>4, MergedFacts DEF Layer
<1>6. n \in DOMAIN lists2 \cap dists2 /\ lists2[n] = SavedList(index2, level, n)
  <2>1. CASE level > 0
    BY <1>1, <1>4, <2>1 DEF BackwardOK, ReadLists
  <2>2. CASE level = 0
    <3>1. n \in Window(BatchSize2, Size2)
      BY <1>4, <2>2
    <3> QED BY <1>1, <2>2, <3>1 DEF BackwardOK, ReadLists
  <2> QED BY <1>1, <2>1, <2>2
<1> QED BY <1>2, <1>4, <1>5, <1>6

LEMMA BackwardInv == MEInv /\ Backward => MEInv'
<1> SUFFICES ASSUME MEInv, Backward PROVE MEInv'
  OBVIOUS
<1> PICK n, mine, old, list :
      /\ n = Element2(i) /\ mine = cands[n]
      /\ old = IF n \in DOMAIN lists2 THEN Moved(lists2[n], off) ELSE <<>>
      /\ list = IF mine = <<>> THEN old ELSE Connected(mine, old, data, level)
  OBVIOUS
<1>1. /\ pc = "backward" /\ i \in Window(BatchSize2, Size2) /\ i' = i + 1
      /\ UNCHANGED <<index1, index2, pc, level, b, ep, cands, lists1, lists2, dists2, junk>>
  BY DEF Backward
<1> DEFINE selects == mine # <<>> /\ Overflows(mine, old, level)
<1>2. /\ cached' = IF selects THEN Cache(mine, old) ELSE cached
      /\ missed' = missed
           \cup {<<"list2", m>> : m \in {n} \ (DOMAIN lists2 \cap dists2)}
           \cup {<<"vector", m>> : m \in
                  IF selects THEN (DOMAIN mine \cup DOMAIN old) \ cached' ELSE {}}
      /\ Write(n + off, list)
  BY DEF Backward
<1>3. /\ TypesOK /\ BackwardOK /\ CandidatesOK /\ InputsOK /\ level \in Levels(index2) /\ level \in Nat
      /\ missed = {}
  BY <1>1, UnderwayFacts
<1>4. /\ n \in Layer(index2, level) /\ n \in Ids(index2) /\ n + off \in DOMAIN data
      /\ i \in Nat /\ i + 1 \in b .. Lower(b + BatchSize2, Size2) /\ Rank(n) = i
      /\ \A j \in Layer(index2, level) : Rank(j) = i => j = n
      /\ n \in DOMAIN lists2 \cap dists2 /\ lists2[n] = SavedList(index2, level, n)
  BY <1>1, BackwardMemory
<1>5. /\ GoodList(data, Tops, n + off, level, old) /\ Cardinality(DOMAIN old) <= Mcurmax(M, level)
  <2>1. old = Moved(SavedList(index2, level, n), off)
    BY <1>4
  <2> QED BY <1>3, <1>4, <2>1, SavedList2Good
<1>6. GoodList(data, Tops, n + off, level, mine)
  BY <1>1, <1>3, <1>4 DEF CandidatesOK
<1>7. GoodList(data, Tops, n + off, level, list) /\ Cardinality(DOMAIN list) <= Mcurmax(M, level)
  <2>1. CASE mine = <<>>
    BY <1>5, <2>1
  <2>2. CASE mine # <<>>
    <3> PICK o : o = n + off
      OBVIOUS
    <3>1. /\ GoodList(data, Tops, o, level, mine) /\ GoodList(data, Tops, o, level, old)
          /\ o \in DOMAIN data /\ list = Connected(mine, old, data, level)
      BY <1>4, <1>5, <1>6, <2>2
    <3>2. GoodList(data, Tops, o, level, list) /\ Cardinality(DOMAIN list) <= Mcurmax(M, level)
      BY <1>3, <3>1, MergedConnected
    <3> QED BY <3>2
  <2> QED BY <2>1, <2>2
<1>8. /\ file' \in [Levels(index2) -> [DOMAIN data -> AnySlot]] /\ marks' \subseteq DOMAIN data
      /\ \A l \in Levels(index2), m \in DOMAIN data :
           GoodSlot(l, m) => IsGoodSlot(data, Tops, l, m, file'[l][m])
      /\ IsGoodSlot(data, Tops, level, n + off, file'[level][n + off])
  <2> PICK o : o = n + off
    OBVIOUS
  <2>1. /\ GoodList(data, Tops, o, level, list) /\ Cardinality(DOMAIN list) <= Mcurmax(M, level)
        /\ o \in DOMAIN data /\ Write(o, list)
    BY <1>2, <1>4, <1>7
  <2>2. /\ file' \in [Levels(index2) -> [DOMAIN data -> AnySlot]] /\ marks' \subseteq DOMAIN data
        /\ \A l \in Levels(index2), m \in DOMAIN data :
             GoodSlot(l, m) => IsGoodSlot(data, Tops, l, m, file'[l][m])
        /\ IsGoodSlot(data, Tops, level, o, file'[level][o])
    BY <1>3, <2>1, WriteKeeps
  <2> QED BY <2>2
<1>9. /\ cands' \in [Ids(index2) -> Lists(Ids(index1))]
      /\ \A j \in Ids(index2) : GoodList(data, Tops, j + off, level, cands'[j])
  BY <1>1, <1>3 DEF CandidatesOK
<1>10. cached' \subseteq DOMAIN data
  <2>1. DOMAIN mine \subseteq DOMAIN data /\ DOMAIN old \subseteq DOMAIN data
    BY <1>5, <1>6, ListFacts DEF GoodList
  <2> QED BY <1>2, <1>3, <2>1 DEF Cache, TypesOK
<1>11. missed' = {}
  <2>1. {n} \ (DOMAIN lists2 \cap dists2) = {}
    BY <1>4
  <2>2. selects => DOMAIN mine \cup DOMAIN old \subseteq cached'
    BY <1>2 DEF Cache
  <2> HIDE DEF selects
  <2> QED BY <1>2, <1>3, <2>1, <2>2
<1>12. ForwardOK'
  BY <1>1 DEF ForwardOK
<1>13. BackwardOK'
  <2>1. level > 0 => lists2' = ReadLists(index2, Layer(index2, level))' /\ dists2' = Layer(index2, level)'
    BY <1>1, <1>3 DEF BackwardOK, ReadLists
  <2>2. Size2' = Size2 /\ Window(BatchSize2, Size2)' = Window(BatchSize2, Size2)
    BY <1>1 DEF Size2, Window
  <2>3. level = 0 => lists2' = ReadLists(index2, Window(BatchSize2, Size2))' /\ dists2' = Window(BatchSize2, Size2)'
    BY <1>1, <1>3, <2>2 DEF BackwardOK, ReadLists
  <2>4. ASSUME NEW j \in Layer(index2, level), Rank(j) < i + 1
        PROVE  IsGoodSlot(data, Tops, level, j + off, file'[level][j + off])
    <3>1. CASE j = n
      BY <1>8, <3>1
    <3>2. CASE j # n
      <4>1. Rank(j) < i
        <5>1. Rank(j) # i /\ Rank(j) \in Nat
          BY <1>3, <1>4, <3>2, RankType
        <5> QED BY <1>4, <2>4, <5>1
      <4>2. GoodSlot(level, j + off)
        BY <1>1, <1>3, <4>1 DEF BackwardOK, Position2
      <4>3. j + off \in DOMAIN data
        BY <1>3, MergedFacts DEF Layer
      <4> QED BY <1>3, <1>8, <4>2, <4>3
    <3> QED BY <3>1, <3>2
  <2>5. \A j \in Layer(index2, level)' : Rank(j)' < Position2' => GoodSlot(level, j + off)'
    <3> SUFFICES ASSUME NEW j \in Layer(index2, level), Rank(j) < i + 1
                 PROVE  GoodSlot(level, j + off)'
      BY <1>1 DEF Position2, Rank
    <3>1. IsGoodSlot(data, Tops, level, j + off, file'[level][j + off])
      BY <2>4
    <3>2. data' = data /\ Tops' = Tops /\ off' = off /\ level' = level
      BY <1>1, SameInputs
    <3> HIDE DEF data, Tops, off
    <3> QED BY <3>1, <3>2 DEF GoodSlot
  <2>6. b < Size2 /\ i' \in b .. Lower(b + BatchSize2, Size2)
    BY <1>1, <1>3, <1>4 DEF BackwardOK
  <2> QED BY <1>1, <2>1, <2>2, <2>3, <2>5, <2>6 DEF BackwardOK
<1>14. /\ b' \in Nat /\ i' \in Nat /\ dists2' \subseteq Ids(index2)
       /\ DOMAIN lists1' \subseteq Ids(index1) /\ DOMAIN lists2' \subseteq Ids(index2)
       /\ ep' \in [Ids(index1) -> {NoEntry} \cup Layer(index2, level)]
  BY <1>1, <1>3, <1>4 DEF TypesOK
<1> QED BY <1>1, <1>8, <1>9, <1>10, <1>11, <1>12, <1>13, <1>14, StepCore

\* Every step keeps the invariant.
LEMMA NextMEInv == MEInv /\ [Next]_vars => MEInv'
<1> SUFFICES ASSUME MEInv, [Next]_vars PROVE MEInv'
  OBVIOUS
<1>1. CASE UNCHANGED vars
  <2>1. UNCHANGED <<index1, index2, file, marks, pc, level, b, i, ep, cands, lists1, lists2, dists2,
                    cached, junk, missed>>
    BY <1>1 DEF vars, files, memory
  <2> QED BY <2>1
       DEF MEInv, InputsOK, Untouched, Underway, TypesOK, FileOK, ForwardOK, CandidatesOK, BackwardOK,
           GoodSlot, Tops, data, off, AnySlot, Merges, OnTop1, Rank, Position2, Size1, Size2, Window,
           ReadLists
<1>2. CASE Next
  BY <1>1, <1>2, ThrowWrongCaseInv, PrepareInv, CopyLevelInv, LoadLevelInv, LoadBatch1Inv,
     LoadFailsInv, PassByInv, ForwardInv, EndBatch1Inv, TurnBackInv, LoadBatch2Inv, BackwardInv,
     EndBatch2Inv, NextLevelInv
  DEF Next, Stopped
<1> QED BY <1>1, <1>2

-------------------------------------------------------------------------------
(* What the disk merge promises *)

LEMMA MEInvMeansTypeOK == MEInv => TypeOK
<1> SUFFICES ASSUME MEInv PROVE TypeOK
  OBVIOUS
<1>1. CASE Untouched
  <2>1. DOMAIN <<>> = {}
    OBVIOUS
  <2>2. 0 \in Levels(index2)
    BY DEF MEInv, InputsOK, WellFormed, Levels
  <2> QED BY <1>1, <2>1, <2>2 DEF Untouched, TypeOK
<1>2. CASE Underway
  <2>1. TypesOK /\ InputsOK
    BY <1>2 DEF Underway, MEInv
  <2>2. \A l \in DOMAIN file : \A n \in DOMAIN data :
          file[l][n].count \in Nat /\ DOMAIN file[l][n].list \subseteq DOMAIN data
    <3> HIDE DEF data
    <3> SUFFICES ASSUME NEW l \in DOMAIN file, NEW n \in DOMAIN data
                 PROVE  file[l][n].count \in Nat /\ DOMAIN file[l][n].list \subseteq DOMAIN data
      OBVIOUS
    <3>1. file[l][n] \in [count : Nat, list : Lists(DOMAIN data)]
      BY <2>1 DEF TypesOK, AnySlot
    <3> QED BY <3>1, ListFacts
  <2>3. \A n \in DOMAIN ep : ep[n] \in {NoEntry} \cup Layer(index2, level)
    BY <2>1 DEF TypesOK
  <2>4. DOMAIN cands \in {{}, Ids(index2)} /\ \A n \in DOMAIN cands : DOMAIN cands[n] \subseteq Ids(index1)
    <3>1. CASE cands = <<>>
      BY <3>1
    <3>2. CASE cands \in [Ids(index2) -> Lists(Ids(index1))]
      BY <3>2, ListFacts
    <3> QED BY <2>1, <3>1, <3>2 DEF TypesOK
  <2>5. DOMAIN file \in {{}, Levels(index2)}
    BY <2>1 DEF TypesOK
  <2>6. /\ pc \in {"start", "level", "batch1", "forward", "batch2", "backward", "done", "failed"}
        /\ level \in {-1} \cup Levels(index2) /\ b \in Nat /\ i \in Nat
        /\ marks \subseteq DOMAIN data /\ cached \subseteq DOMAIN data
        /\ DOMAIN lists1 \subseteq Ids(index1) /\ DOMAIN lists2 \subseteq Ids(index2)
        /\ dists2 \subseteq Ids(index2) /\ junk \in BOOLEAN
    BY <2>1 DEF TypesOK
  <2> QED BY <2>2, <2>3, <2>4, <2>5, <2>6 DEF TypeOK
<1> QED BY <1>1, <1>2 DEF MEInv

LEMMA MEInvMeansWhole == MEInv => MergedSlotsWhole
<1> SUFFICES ASSUME MEInv, NEW l \in DOMAIN file, Finished(l), Merges(l), NEW n \in DOMAIN data
             PROVE  LET slot == file[l][n]
                        top(m) == IF m < off THEN index1.element_levels_[m]
                                  ELSE index2.element_levels_[m - off]
                    IN /\ slot.count = Cardinality(DOMAIN slot.list)
                       /\ slot.count <= Mcurmax(M, l)
                       /\ \A c \in DOMAIN slot.list :
                            top(c) >= l /\ c # n /\ slot.list[c] = Dist(data[n], data[c])
  BY DEF MergedSlotsWhole
<1>1. Underway /\ InputsOK /\ FileOK /\ TypesOK /\ l \in Levels(index2)
  <2>1. DOMAIN <<>> = {}
    OBVIOUS
  <2> QED BY <2>1 DEF MEInv, Untouched, Underway, Finished
<1>2. level < l
  BY <1>1 DEF Finished, TypesOK, Levels, InputsOK, WellFormed
<1>3. GoodSlot(l, n)
  <2>1. CASE n \in Ids(index1)
    BY <1>1, <2>1 DEF FileOK
  <2>2. CASE n - off \in Ids(index2)
    <3>1. GoodSlot(l, (n - off) + off)
      BY <1>1, <1>2, <2>2 DEF FileOK
    <3>2. (n - off) + off = n
      BY <1>1, MergedFacts
    <3> QED BY <3>1, <3>2
  <2> QED BY <1>1, <2>1, <2>2, MergedFacts
<1> PICK slot : slot = file[l][n]
  OBVIOUS
<1>4. /\ slot.count = Cardinality(DOMAIN slot.list) /\ slot.count <= Mcurmax(M, l)
      /\ DOMAIN slot.list \subseteq DOMAIN data
      /\ \A c \in DOMAIN slot.list : /\ c # n /\ Tops[c] >= l
                                     /\ slot.list[c] = Dist(data[n], data[c])
  BY <1>3, ListFacts DEF GoodSlot, IsGoodSlot, GoodList
<1>5. \A c \in DOMAIN data :
        Tops[c] = IF c < off THEN index1.element_levels_[c] ELSE index2.element_levels_[c - off]
  BY DEF Tops, MergedTops, data, MergedData, off
<1> HIDE DEF data, Tops, off
<1> QED BY <1>4, <1>5

\* The invariant of the disk merge (HNSWMerger_ME, memory-optimize.h:605-846),
\* for any two files, batch sizes, M, lambda and alpha.
THEOREM MergeOnDiskInvariant == Spec => []MEInv
BY InitMEInv, NextMEInv, PTL DEF Spec

\* Memory and the merged file are typed in every state: lists in memory are
\* lists of the inputs, and slots of the file name elements of either.
THEOREM MergeOnDiskTypeOK == Spec => []TypeOK
BY MergeOnDiskInvariant, MEInvMeansTypeOK, PTL

\* However the elements fall into batches, no step reads a list, a distance or
\* a vector that was not loaded before or has been freed since.
THEOREM NothingReadUnloaded == Spec => []ReadsInMemory
<1>1. MEInv => ReadsInMemory
  BY DEF MEInv, ReadsInMemory
<1> QED BY <1>1, MergeOnDiskInvariant, PTL

\* Once a level has been merged, each of its slots has a count that is the
\* length of its list, at most maxM_ or maxM0_ entries, of elements on the
\* level and never the owner, each beside its true distance.
THEOREM MergedLevelsWhole == Spec => []MergedSlotsWhole
BY MergeOnDiskInvariant, MEInvMeansWhole, PTL

-------------------------------------------------------------------------------
(* The file so far is what the merge in memory makes *)

\* Every level is merged, and nothing is marked deleted.
WhollyMerged ==
  index1.deleted \cup index2.deleted = {} /\ \A l \in Levels(index2) : Merges(l)

SameInv == WhollyMerged /\ pc \notin {"start", "failed"} => SameSoFar

\* The two inputs of a merge that leaves out no level
LEMMA WhollyMergeable ==
  ASSUME MEInv, SameInv, WhollyMerged, pc \notin {"start", "failed", "done"}
  PROVE  AtLevel /\ SameSoFar
<1>1. InputsOK /\ TypesOK /\ index1.maxlevel_ <= index2.maxlevel_ /\ level \in Levels(index2) /\ level \in Nat
  BY UnderwayFacts DEF Underway
<1>2. Mergeable(index1, index2)
  BY <1>1 DEF InputsOK, Mergeable, WhollyMerged
<1> QED BY <1>1, <1>2 DEF AtLevel, TypesOK, SameInv

\* Whether every level is merged is a matter of the inputs.
LEMMA WhollySame ==
  ASSUME UNCHANGED <<index1, index2>>
  PROVE  WhollyMerged' <=> WhollyMerged
BY DEF WhollyMerged, Merges, OnTop1

LEMMA LoadBatch1Same == MEInv /\ SameInv /\ LoadBatch1 => SameInv'
<1> SUFFICES ASSUME MEInv, SameInv, LoadBatch1, WhollyMerged PROVE SameSoFar'
  BY WhollySame DEF LoadBatch1, files, SameInv
<1>1. pc = "batch1" /\ pc' = "forward" /\ i' = b /\ Reading
  BY DEF LoadBatch1, files, Reading
<1>2. AtLevel /\ SameSoFar
  BY <1>1, WhollyMergeable
<1> QED BY <1>1, <1>2, LoadingBatch1

LEMMA EndBatch1Same == MEInv /\ SameInv /\ EndBatch1 => SameInv'
<1> SUFFICES ASSUME MEInv, SameInv, EndBatch1, WhollyMerged PROVE SameSoFar'
  BY WhollySame DEF EndBatch1, files, SameInv
<1>1. /\ pc = "forward" /\ pc' = "batch1" /\ b' = b + Size1 /\ i \notin Window(Size1, index1.count)
      /\ Reading
  BY DEF EndBatch1, files, Reading
<1>2. AtLevel /\ SameSoFar
  BY <1>1, WhollyMergeable
<1>3. Size1 \in Nat \ {0} /\ i \in b .. Lower(b + Size1, index1.count)
  BY <1>1, UnderwayFacts, SizeType DEF ForwardOK
<1> QED BY <1>1, <1>2, <1>3, EndingBatch1

LEMMA TurnBackSame == MEInv /\ SameInv /\ TurnBack => SameInv'
<1> SUFFICES ASSUME MEInv, SameInv, TurnBack, WhollyMerged PROVE SameSoFar'
  BY WhollySame DEF TurnBack, files, SameInv
<1>1. pc = "batch1" /\ b >= index1.count /\ pc' = "batch2" /\ b' = 0 /\ Reading
  BY DEF TurnBack, files, Reading
<1>2. AtLevel /\ SameSoFar
  BY <1>1, WhollyMergeable
<1> QED BY <1>1, <1>2, TurningBack

LEMMA LoadBatch2Same == MEInv /\ SameInv /\ LoadBatch2 => SameInv'
<1> SUFFICES ASSUME MEInv, SameInv, LoadBatch2, WhollyMerged PROVE SameSoFar'
  BY WhollySame DEF LoadBatch2, files, SameInv
<1>1. pc = "batch2" /\ pc' = "backward" /\ i' = b /\ Reading
  BY DEF LoadBatch2, files, Reading
<1>2. AtLevel /\ SameSoFar
  BY <1>1, WhollyMergeable
<1> QED BY <1>1, <1>2, LoadingBatch2

LEMMA EndBatch2Same == MEInv /\ SameInv /\ EndBatch2 => SameInv'
<1> SUFFICES ASSUME MEInv, SameInv, EndBatch2, WhollyMerged PROVE SameSoFar'
  BY WhollySame DEF EndBatch2, files, SameInv
<1>1. /\ pc = "backward" /\ pc' = "batch2" /\ b' = b + BatchSize2 /\ i \notin Window(BatchSize2, Size2)
      /\ Reading
  BY DEF EndBatch2, files, Reading
<1>2. AtLevel /\ SameSoFar
  BY <1>1, WhollyMergeable
<1>3. BatchSize2 \in Nat \ {0} /\ i \in b .. Lower(b + BatchSize2, Size2)
  BY <1>1, UnderwayFacts, SizeType DEF BackwardOK
<1> QED BY <1>1, <1>2, <1>3, EndingBatch2

LEMMA LoadLevelSame == MEInv /\ SameInv /\ LoadLevel => SameInv'
<1> SUFFICES ASSUME MEInv, SameInv, LoadLevel, WhollyMerged PROVE SameSoFar'
  BY WhollySame DEF LoadLevel, files, SameInv
<1>1. /\ pc = "level" /\ pc' = "batch1" /\ b' = 0 /\ cands' = [n \in Ids(index2) |-> <<>>]
      /\ UNCHANGED <<index1, index2, file, level, ep>>
  BY DEF LoadLevel, files
<1>2. AtLevel /\ SameSoFar
  BY <1>1, WhollyMergeable
<1> QED BY <1>1, <1>2, StartingLevel

LEMMA NextLevelSame == MEInv /\ SameInv /\ NextLevel => SameInv'
<1> SUFFICES ASSUME MEInv, SameInv, NextLevel, WhollyMerged PROVE SameSoFar'
  BY WhollySame DEF NextLevel, files, SameInv
<1>1. /\ pc = "batch2" /\ b >= Size2 /\ level' = level - 1 /\ pc' \in {"level", "done"}
      /\ UNCHANGED <<index1, index2, file, b, i, ep, cands>>
  BY DEF NextLevel, files
<1>2. AtLevel /\ SameSoFar
  BY <1>1, WhollyMergeable
<1> QED BY <1>1, <1>2, EndingLevel

LEMMA PrepareSame == MEInv /\ MEInv' /\ Prepare => SameInv'
<1> SUFFICES ASSUME MEInv', Prepare, WhollyMerged' PROVE SameSoFar'
  BY DEF SameInv
<1>1. /\ index1' = Smaller /\ index2' = Larger /\ file' = CopiedFile(Smaller, Larger)
      /\ ep' = [n \in Ids(Smaller) |-> NoEntry] /\ level' = Larger.maxlevel_ /\ pc' = "level"
  BY DEF Prepare
<1>2. InputsOK' /\ index1'.maxlevel_ <= index2'.maxlevel_
  BY <1>1 DEF MEInv, Untouched, Underway
<1>3. Mergeable(index1, index2)'
  BY <1>2 DEF InputsOK, Mergeable, WhollyMerged
<1>4. Fresh'
  BY <1>1, <1>2, <1>3 DEF Fresh
<1> QED BY <1>4, FreshSame, PTL

\* No level is copied.
LEMMA CopyLevelSame == MEInv /\ SameInv /\ CopyLevel => SameInv'
<1> SUFFICES ASSUME MEInv, CopyLevel, WhollyMerged PROVE FALSE
  BY WhollySame DEF CopyLevel, SameInv
<1>1. level \in Levels(index2) /\ OnTop1(level) = {}
  BY UnderwayFacts DEF CopyLevel
<1> QED BY <1>1 DEF WhollyMerged, Merges

LEMMA PassBySame == MEInv /\ SameInv /\ PassBy => SameInv'
<1> SUFFICES ASSUME MEInv, SameInv, PassBy, WhollyMerged PROVE SameSoFar'
  BY WhollySame DEF PassBy, files, SameInv
<1>1. /\ pc = "forward" /\ i \in Window(Size1, index1.count) /\ index1.element_levels_[i] < level
      /\ ep' = [ep EXCEPT ![i] =
                  NextEntry(InMemory(index2, level, lists2, index2.data), index1.data[i], ep[i], level)]
      /\ i' = i + 1 /\ UNCHANGED <<index1, index2, file, pc, level, b, cands>>
  BY DEF PassBy, files
<1>2. AtLevel /\ SameSoFar
  BY <1>1, WhollyMergeable
<1>3. i \in Ids(index1) /\ InMemory(index2, level, lists2, index2.data) = index2
  BY <1>1, ForwardMemory
<1>4. ep' = [ep EXCEPT ![i] = NextEntry(index2, index1.data[i], ep[i], level)]
  BY <1>1, <1>3
<1> QED BY <1>1, <1>2, <1>3, <1>4, PassingBy

LEMMA ForwardSame == MEInv /\ SameInv /\ Forward => SameInv'
<1> SUFFICES ASSUME MEInv, SameInv, Forward, WhollyMerged PROVE SameSoFar'
  BY WhollySame DEF Forward, SameInv
<1> PICK F, found, old :
      /\ F = Found(InMemory(index2, level, lists2, index2.data), index1.data[i], ep[i], level)
      /\ found = Moved(F, off)
      /\ old = IF i \in DOMAIN lists1 THEN lists1[i] ELSE <<>>
  OBVIOUS
<1>1. /\ pc = "forward" /\ i \in Window(Size1, index1.count) /\ index1.element_levels_[i] >= level
      /\ i' = i + 1
      /\ UNCHANGED <<index1, index2, pc, level, b>>
  BY DEF Forward
<1>2. /\ ep' = [ep EXCEPT ![i] = Nearest(data, index1.data[i], DOMAIN found) - off]
      /\ cands' = AddCandidates(cands, Moved(found, -off), i)
      /\ Write(i, Connected(found, old, data, level))
  BY DEF Forward, LastEntry
<1>3. /\ TypesOK /\ InputsOK /\ CandidatesOK /\ level \in Levels(index2) /\ level \in Nat
      /\ AtLevel /\ SameSoFar /\ Merges(level)
  BY <1>1, UnderwayFacts, WhollyMergeable
<1>4. /\ i \in Ids(index1) /\ i \in Nat
      /\ InMemory(index2, level, lists2, index2.data) = index2
      /\ index1.data[i] \in Int /\ ep[i] \in {NoEntry} \cup Layer(index2, level)
  BY <1>1, ForwardMemory
<1>5. i \in Layer(index1, level) /\ level \in Levels(index1) /\ i \in DOMAIN data
  BY <1>1, <1>3, <1>4, MergedLevel, MergedFacts DEF Layer
<1>6. old = SavedList(index1, level, i)
  BY <1>1, <1>5, ForwardMemory
<1>7. F = Found(index2, index1.data[i], ep[i], level) /\ IsSearch(i, level, F)
  BY <1>3, <1>4, <1>5 DEF IsSearch
<1>8. /\ GoodList(data, Tops, i, level, found)
      /\ DOMAIN found = Shift(DOMAIN F, off) /\ DOMAIN F \subseteq Layer(index2, level)
      /\ Nearest(data, index1.data[i], DOMAIN found) - off \in Layer(index2, level)
      /\ Moved(found, -off) = F
  BY <1>3, <1>7, SearchFacts
<1>9. /\ GoodList(data, Tops, i, level, old) /\ DOMAIN old = index1.links[level][i]
  BY <1>3, <1>4, <1>5, <1>6, SavedList1Good
<1> PICK e, list : e = Nearest(data, index1.data[i], DOMAIN found) - off /\ list = Connected(found, old, data, level)
  OBVIOUS
<1>10. DOMAIN list = Memory!Connect(data, level, i, Shift(DOMAIN F, off), index1.links[level][i])
  <2> PICK V, C, O : V = data /\ C = DOMAIN found /\ O = DOMAIN old
    OBVIOUS
  <2>1. DOMAIN list = Memory!Connect(V, level, i, C, O)
    BY <1>3, <1>5, <1>8, <1>9, SameConnected
  <2> HIDE DEF data, off
  <2> QED BY <1>8, <1>9, <2>1
<1>11. ConnectsFirst(F, e, list)
  <2>1. DOMAIN cands = Ids(index2)
    BY <1>1, <1>3 DEF CandidatesOK
  <2>2. e = Nearest(data, index1.data[i], Shift(DOMAIN F, off)) - off /\ cands' = AddCandidates(cands, F, i)
    <3> HIDE DEF data, off
    <3> QED BY <1>2, <1>8
  <2>3. file' = [file EXCEPT ![level][i] = Slot(list)]
    BY <1>2 DEF Write
  <2> HIDE DEF data, off
  <2> QED BY <1>1, <1>2, <1>5, <1>7, <1>10, <2>1, <2>2, <2>3 DEF ConnectsFirst
<1> QED BY <1>3, <1>11, Connecting1

LEMMA BackwardSame == MEInv /\ SameInv /\ Backward => SameInv'
<1> SUFFICES ASSUME MEInv, SameInv, Backward, WhollyMerged PROVE SameSoFar'
  BY WhollySame DEF Backward, SameInv
<1> PICK n, mine, old, list :
      /\ n = Element2(i) /\ mine = cands[n]
      /\ old = IF n \in DOMAIN lists2 THEN Moved(lists2[n], off) ELSE <<>>
      /\ list = IF mine = <<>> THEN old ELSE Connected(mine, old, data, level)
  OBVIOUS
<1>1. /\ pc = "backward" /\ i \in Window(BatchSize2, Size2) /\ i' = i + 1
      /\ Write(n + off, list)
      /\ UNCHANGED <<index1, index2, pc, level, b, ep, cands>>
  BY DEF Backward
<1>2. /\ TypesOK /\ InputsOK /\ CandidatesOK /\ level \in Levels(index2) /\ level \in Nat
      /\ AtLevel /\ SameSoFar
  BY <1>1, UnderwayFacts, WhollyMergeable
<1>3. /\ n \in Layer(index2, level) /\ n \in Ids(index2) /\ n + off \in DOMAIN data
      /\ i \in Nat /\ Rank(n) = i
      /\ \A j \in Layer(index2, level) : Rank(j) = i => j = n
      /\ n \in DOMAIN lists2 \cap dists2 /\ lists2[n] = SavedList(index2, level, n)
  BY <1>1, BackwardMemory
<1>4. /\ GoodList(data, Tops, n + off, level, old) /\ DOMAIN old = Shift(index2.links[level][n], off)
      /\ Cardinality(DOMAIN old) <= Mcurmax(M, level)
  <2>1. old = Moved(SavedList(index2, level, n), off)
    BY <1>3
  <2> QED BY <1>2, <1>3, <2>1, SavedList2Good
<1>5. GoodList(data, Tops, n + off, level, mine)
  BY <1>1, <1>2, <1>3 DEF CandidatesOK
<1>6. DOMAIN list = Memory!ConnectBackward(data, level, n + off, DOMAIN mine,
                                              Shift(index2.links[level][n], off))
  <2> PICK V, o, C, O : V = data /\ o = n + off /\ C = DOMAIN mine /\ O = DOMAIN old
    OBVIOUS
  <2>1. Memory!ConnectBackward(V, level, o, C, O) = IF C = {} THEN O ELSE Memory!Connect(V, level, o, C, O)
    BY MemoryConnectBackward
  <2>2. DOMAIN Connected(mine, old, data, level) = Memory!Connect(V, level, o, C, O)
    <3>1. o \in DOMAIN data /\ GoodList(data, Tops, o, level, mine) /\ GoodList(data, Tops, o, level, old)
      BY <1>3, <1>4, <1>5
    <3> QED BY <1>2, <3>1, SameConnected
  <2>3. C = {} => mine = <<>>
    <3>1. mine \in [C -> Int]
      BY <1>5, ListFacts DEF GoodList
    <3> QED BY <3>1
  <2>4. DOMAIN list = IF C = {} THEN O ELSE Memory!Connect(V, level, o, C, O)
    <3>1. DOMAIN <<>> = {}
      OBVIOUS
    <3> QED BY <1>1, <2>2, <2>3, <3>1
  <2> HIDE DEF data, off
  <2> QED BY <1>4, <2>1, <2>4
<1>7. ConnectsSecond(n, list)
  <2>1. file' = [file EXCEPT ![level][n + off] = Slot(list)]
    BY <1>1 DEF Write
  <2> HIDE DEF data, off
  <2> QED BY <1>1, <1>3, <1>6, <2>1 DEF ConnectsSecond
<1> QED BY <1>2, <1>3, <1>7, Connecting2

\* Every step keeps the file the same as in memory.
LEMMA NextSame == MEInv /\ MEInv' /\ SameInv /\ [Next]_vars => SameInv'
<1> SUFFICES ASSUME MEInv, MEInv', SameInv, [Next]_vars PROVE SameInv'
  OBVIOUS
<1>1. CASE Prepare
  BY <1>1, PrepareSame
<1>2. CASE CopyLevel \/ LoadLevel \/ NextLevel
  BY <1>2, CopyLevelSame, LoadLevelSame, NextLevelSame
<1>3. CASE LoadBatch1 \/ PassBy \/ Forward \/ EndBatch1 \/ TurnBack
  BY <1>3, LoadBatch1Same, PassBySame, ForwardSame, EndBatch1Same, TurnBackSame
<1>4. CASE LoadBatch2 \/ Backward \/ EndBatch2
  BY <1>4, LoadBatch2Same, BackwardSame, EndBatch2Same
<1>5. CASE ThrowWrongCase \/ LoadBatch1Fails \/ LoadBatch2Fails
  BY <1>5 DEF ThrowWrongCase, LoadBatch1Fails, LoadBatch2Fails, MayFail, SameInv
<1>6. CASE UNCHANGED vars
  <2>1. WhollyMerged' <=> WhollyMerged
    BY <1>6, WhollySame DEF vars, files
  <2>2. SameSoFar => SameSoFar'
    BY <1>6, StandingStill DEF vars, files
  <2> QED BY <1>6, <2>1, <2>2 DEF SameInv, vars
<1> QED BY <1>1, <1>2, <1>3, <1>4, <1>5, <1>6 DEF Next, Stopped

\* Batches, evictions and reloads make no difference: where every level was
\* merged and nothing is marked deleted, the merged file of HNSWMerger_ME ends
\* up with the lists that HNSWMerger builds in memory (extension.h) from the
\* same two indexes when it promotes none of them, for any files, batch sizes,
\* M, lambda and alpha.
THEOREM SameAsTheMergeInMemory == Spec => []SameAsInMemory
<1>1. Init => SameInv
  BY DEF Init, SameInv
<1>2. MEInv /\ SameInv => SameAsInMemory
  <2> SUFFICES ASSUME MEInv, SameInv, pc = "done", WhollyMerged,
                      NEW l \in Levels(index2), NEW n \in DOMAIN data
               PROVE  DOMAIN file[l][n].list = MergedInMemory(index1, index2)[l][n]
    BY DEF SameAsInMemory, WhollyMerged
  <2>1. InputsOK /\ TypesOK /\ SameSoFar
    BY UnderwayFacts DEF SameInv
  <2> QED BY <2>1, SameAtTheEnd DEF TypesOK
<1> QED BY <1>1, <1>2, MergeOnDiskInvariant, NextSame, PTL DEF Spec

-------------------------------------------------------------------------------
(* The cache of the disk merge (VarArray): whatever was evicted and moved  *)
(* into holes, or stored again, its structures agree and callers see the   *)
(* map of LRUMap                                                           *)

\* What is being pushed; under a limit it is new to the cache and has one
\* record for an id.
PendingNew ==
  /\ doing = "pushing" <=> pending # <<>>
  /\ max_items_ # 0 => /\ \A x \in DOMAIN pending : ~ find(pending[x][1])
                       /\ \A x, j \in DOMAIN pending : pending[x][1] = pending[j][1] => x = j

\* A limit is enforced only where there is one.
Limited == doing = "limiting" => max_items_ # 0

\* The inductive invariant
Inv == CacheTypeOK /\ Consistent /\ PendingNew /\ Limited

\* A buffer that is grown holds what it is grown for, and a buffer that is
\* large enough stays as it is.
LEMMA CapacityFacts ==
  ASSUME CacheTypeOK, NEW n \in Nat, NEW c \in Capacities(n)
  PROVE  c \in Nat /\ n <= c /\ capacity_ <= c
<1>1. capacity_ \in Nat
  BY DEF CacheTypeOK
<1>2. CASE n <= capacity_
  BY <1>1, <1>2 DEF Capacities
<1>3. CASE ~ (n <= capacity_)
  <2>1. c \in n .. 2 * n - 1
    BY <1>1, <1>3 DEF Capacities
  <2> QED BY <1>1, <1>3, <2>1
<1> QED BY <1>2, <1>3

\* Under a limit the recency list is as long as there are records, which is
\* what makes eviction find one whenever there is one.
LEMMA LimitedCount ==
  ASSUME Inv, max_items_ # 0
  PROVE  size_ = Len(lru_list_)
<1> DEFINE f == [p \in Positions(size_) |-> index_to_key_[p]]
<1>1. /\ size_ \in Nat /\ capacity_ \in Nat /\ lru_list_ \in Seq(Keys)
      /\ Positions(size_) = 0 .. size_ - 1
  BY DEF Inv, CacheTypeOK, Positions
<1>2. /\ \A k \in DOMAIN id_data_map_ :
           id_data_map_[k] \in Positions(size_) /\ index_to_key_[id_data_map_[k]] = k
      /\ \A p \in Positions(size_) : /\ index_to_key_[p] \in DOMAIN id_data_map_
                                     /\ id_data_map_[index_to_key_[p]] = p
      /\ Named(lru_list_) = DOMAIN id_data_map_
      /\ \A x, y \in DOMAIN lru_list_ : lru_list_[x] = lru_list_[y] => x = y
  BY DEF Inv, Consistent, MapsInverse, NoCopies, Current, find, RecencyComplete
<1>3. f \in Bijection(Positions(size_), DOMAIN id_data_map_)
  <2>1. f \in [Positions(size_) -> DOMAIN id_data_map_]
    BY <1>2
  <2>2. \A p, q \in Positions(size_) : f[p] = f[q] => p = q
    BY <1>2
  <2>3. \A k \in DOMAIN id_data_map_ : \E p \in Positions(size_) : f[p] = k
    BY <1>2
  <2> HIDE DEF f
  <2> QED BY <2>1, <2>2, <2>3 DEF Bijection, Injection, Surjection, IsInjective
<1>4. ExistsBijection(Positions(size_), DOMAIN id_data_map_)
  BY <1>3 DEF ExistsBijection
<1>5. IsFiniteSet(Positions(size_)) /\ Cardinality(Positions(size_)) = size_
  <2>1. /\ IsFiniteSet(0 .. size_ - 1)
        /\ Cardinality(0 .. size_ - 1) = IF 0 > size_ - 1 THEN 0 ELSE size_ - 1 - 0 + 1
    BY <1>1, FS_Interval
  <2> QED BY <1>1, <2>1
<1>6. Cardinality(DOMAIN id_data_map_) = size_
  BY <1>4, <1>5, FS_Bijection
<1>7. Cardinality(Named(lru_list_)) = Len(lru_list_)
  BY <1>1, <1>2, NamedCount
<1> QED BY <1>2, <1>6, <1>7

\* Under a limit the oldest id on the recency list names a record, which goes;
\* the last record fills its place, with both maps, unless it is the one.
LEMMA EvictionMoves ==
  ASSUME Inv, evict_one_lru, max_items_ # 0
  PROVE  LET victim == Oldest(lru_list_)
             victim_pos == id_data_map_[victim]
             last_pos == size_ - 1
             moved == index_to_key_[last_pos]
         IN /\ victim \in DOMAIN id_data_map_
            /\ last_pos \in Positions(size_) /\ Positions(size_) \subseteq Positions(capacity_)
            /\ victim_pos \in Positions(size_) /\ index_to_key_[victim_pos] = victim
            /\ moved \in DOMAIN id_data_map_ /\ id_data_map_[moved] = last_pos /\ moved \in Keys
            /\ lru_list_' \in Seq(Keys)
            /\ Named(lru_list_') = DOMAIN id_data_map_ \ {victim}
            /\ \A x, y \in DOMAIN lru_list_' : lru_list_'[x] = lru_list_'[y] => x = y
            /\ id_data_map_' = [k \in DOMAIN id_data_map_ \ {victim} |->
                                  IF k = moved THEN victim_pos ELSE id_data_map_[k]]
            /\ data_' = [data_ EXCEPT ![victim_pos] = data_[last_pos]]
            /\ index_to_key_' = [index_to_key_ EXCEPT ![victim_pos] = moved, ![last_pos] = 0]
            /\ size_' = last_pos
<1> DEFINE victim == Oldest(lru_list_)
           victim_pos == id_data_map_[victim]
           last_pos == size_ - 1
           moved == index_to_key_[last_pos]
<1>1. /\ size_ \in Nat /\ capacity_ \in Nat /\ size_ <= capacity_ /\ size_ # 0
      /\ lru_list_ \in Seq(Keys) /\ lru_list_ # <<>>
      /\ data_ \in [Positions(capacity_) -> Vectors]
      /\ index_to_key_ \in [Positions(capacity_) -> Keys]
      /\ DOMAIN id_data_map_ \subseteq Keys /\ id_data_map_ \in [DOMAIN id_data_map_ -> Nat]
  BY DEF Inv, CacheTypeOK, Consistent, WithinBounds, evict_one_lru
<1>2. /\ \A k \in DOMAIN id_data_map_ : /\ id_data_map_[k] \in Positions(size_)
                                        /\ index_to_key_[id_data_map_[k]] = k
      /\ \A p \in Positions(size_) : /\ index_to_key_[p] \in DOMAIN id_data_map_
                                     /\ id_data_map_[index_to_key_[p]] = p
      /\ Named(lru_list_) = DOMAIN id_data_map_
      /\ \A x, y \in DOMAIN lru_list_ : lru_list_[x] = lru_list_[y] => x = y
  BY DEF Inv, Consistent, MapsInverse, NoCopies, Current, find, RecencyComplete
<1>3. /\ victim \in DOMAIN id_data_map_
      /\ lru_list_' \in Seq(Keys)
      /\ Named(lru_list_') = DOMAIN id_data_map_ \ {victim}
      /\ \A x, y \in DOMAIN lru_list_' : lru_list_'[x] = lru_list_'[y] => x = y
  <2> DEFINE t == WithoutOldest(lru_list_)
  <2>1. /\ Oldest(lru_list_) \in Named(lru_list_)
        /\ t \in Seq(Keys)
        /\ Named(t) = Named(lru_list_) \ {Oldest(lru_list_)}
        /\ \A x, y \in DOMAIN t : t[x] = t[y] => x = y
    BY <1>1, <1>2, WithoutOldestFacts
  <2>2. lru_list_' = t
    BY DEF evict_one_lru
  <2> HIDE DEF t
  <2> QED BY <1>2, <2>1, <2>2
<1>4. /\ last_pos \in Positions(size_) /\ Positions(size_) \subseteq Positions(capacity_)
      /\ victim_pos \in Positions(size_) /\ index_to_key_[victim_pos] = victim
      /\ moved \in DOMAIN id_data_map_ /\ id_data_map_[moved] = last_pos /\ moved \in Keys
  <2>1. last_pos \in Positions(size_) /\ Positions(size_) \subseteq Positions(capacity_)
    BY <1>1 DEF Positions
  <2> QED BY <1>1, <1>2, <1>3, <2>1
<1>5. /\ id_data_map_' = [k \in DOMAIN id_data_map_ \ {victim} |->
                            IF k = moved THEN victim_pos ELSE id_data_map_[k]]
      /\ data_' = [data_ EXCEPT ![victim_pos] = data_[last_pos]]
      /\ index_to_key_' = [index_to_key_ EXCEPT ![victim_pos] = moved, ![last_pos] = 0]
      /\ size_' = last_pos
  <2> DEFINE moves == IF victim_pos # last_pos THEN {moved} ELSE {}
  <2>1. /\ id_data_map_' = [k \in (DOMAIN id_data_map_ \ {victim}) \cup moves |->
                              IF k \in moves THEN victim_pos ELSE id_data_map_[k]]
        /\ data_' = [data_ EXCEPT ![victim_pos] = data_[last_pos]]
        /\ index_to_key_' = [index_to_key_ EXCEPT ![victim_pos] = moved, ![last_pos] = 0]
        /\ size_' = last_pos
    BY <1>3 DEF evict_one_lru, find
  <2> HIDE DEF victim, victim_pos, last_pos, moved
  <2>2. CASE victim_pos # last_pos
    <3>1. moved # victim
      BY <1>4, <2>2 DEF victim_pos
    <3>2. (DOMAIN id_data_map_ \ {victim}) \cup moves = DOMAIN id_data_map_ \ {victim}
      BY <1>4, <2>2, <3>1
    <3> QED BY <2>1, <2>2, <3>2
  <2>3. CASE victim_pos = last_pos
    <3>1. moved = victim
      BY <1>4, <2>3 DEF moved
    <3> QED BY <2>1, <2>3, <3>1
  <2> QED BY <2>2, <2>3
<1> QED BY <1>3, <1>4, <1>5

\* Evicting the least recently used record leaves maps and recency list that
\* agree on the records that remain.
LEMMA EvictFacts ==
  ASSUME Inv, evict_one_lru, max_items_ # 0,
         UNCHANGED <<capacity_, max_items_, doing, pending, answer>>
  PROVE  /\ CacheTypeOK' /\ MapsInverse' /\ RecencyComplete' /\ size_' <= capacity_'
         /\ size_' = size_ - 1 /\ DOMAIN id_data_map_' \subseteq DOMAIN id_data_map_
<1> DEFINE victim == Oldest(lru_list_)
           victim_pos == id_data_map_[victim]
           last_pos == size_ - 1
           moved == index_to_key_[last_pos]
<1>1. /\ size_ \in Nat /\ capacity_ \in Nat /\ size_ <= capacity_ /\ size_ # 0
      /\ lru_list_ \in Seq(Keys) /\ lru_list_ # <<>>
      /\ data_ \in [Positions(capacity_) -> Vectors]
      /\ index_to_key_ \in [Positions(capacity_) -> Keys]
      /\ DOMAIN id_data_map_ \subseteq Keys /\ id_data_map_ \in [DOMAIN id_data_map_ -> Nat]
  BY DEF Inv, CacheTypeOK, Consistent, WithinBounds, evict_one_lru
<1>2. /\ \A k \in DOMAIN id_data_map_ : /\ id_data_map_[k] \in Positions(size_)
                                        /\ index_to_key_[id_data_map_[k]] = k
      /\ \A p \in Positions(size_) : /\ index_to_key_[p] \in DOMAIN id_data_map_
                                     /\ id_data_map_[index_to_key_[p]] = p
      /\ Named(lru_list_) = DOMAIN id_data_map_
      /\ \A x, y \in DOMAIN lru_list_ : lru_list_[x] = lru_list_[y] => x = y
  BY DEF Inv, Consistent, MapsInverse, NoCopies, Current, find, RecencyComplete
<1>3. /\ victim \in DOMAIN id_data_map_
      /\ lru_list_' \in Seq(Keys)
      /\ Named(lru_list_') = DOMAIN id_data_map_ \ {victim}
      /\ \A x, y \in DOMAIN lru_list_' : lru_list_'[x] = lru_list_'[y] => x = y
  BY EvictionMoves
<1>4. /\ last_pos \in Positions(size_) /\ Positions(size_) \subseteq Positions(capacity_)
      /\ victim_pos \in Positions(size_) /\ index_to_key_[victim_pos] = victim
      /\ moved \in DOMAIN id_data_map_ /\ id_data_map_[moved] = last_pos /\ moved \in Keys
  BY EvictionMoves
<1>5. /\ id_data_map_' = [k \in DOMAIN id_data_map_ \ {victim} |->
                            IF k = moved THEN victim_pos ELSE id_data_map_[k]]
      /\ data_' = [data_ EXCEPT ![victim_pos] = data_[last_pos]]
      /\ index_to_key_' = [index_to_key_ EXCEPT ![victim_pos] = moved, ![last_pos] = 0]
      /\ size_' = last_pos
  BY EvictionMoves
<1> HIDE DEF victim, victim_pos, last_pos, moved
<1>6. CacheTypeOK'
  <2>1. victim_pos \in Nat
    BY <1>1, <1>4 DEF Positions
  <2>2. size_' \in Nat /\ capacity_' \in Nat /\ max_items_' \in Nat
    BY <1>1, <1>5 DEF Inv, CacheTypeOK, last_pos
  <2>3. data_' \in [Positions(capacity_)' -> Vectors']
    BY <1>1, <1>4, <1>5 DEF Vectors, Positions
  <2>4. DOMAIN id_data_map_' \subseteq Keys /\ id_data_map_' \in [DOMAIN id_data_map_' -> Nat]
    BY <1>1, <1>5, <2>1
  <2>5. index_to_key_' \in [Positions(capacity_)' -> Keys]
    BY <1>1, <1>4, <1>5, VarArrayAssumption DEF Positions
  <2>6. /\ doing' \in {"ready", "pushing", "limiting"}
        /\ pending' \in Seq(Keys \X Values)
        /\ answer' \in Vectors' \cup {NoAnswer}
    BY DEF Inv, CacheTypeOK, Vectors
  <2> QED BY <1>3, <2>2, <2>3, <2>4, <2>5, <2>6 DEF CacheTypeOK
<1>7. MapsInverse'
  <2>1. last_pos = size_ - 1 /\ size_' = last_pos
    BY <1>1, <1>5 DEF last_pos
  <2>2. ASSUME NEW k \in DOMAIN id_data_map_ \ {victim}
        PROVE  id_data_map_'[k] \in Positions(last_pos) /\ index_to_key_'[id_data_map_'[k]] = k
    <3>1. CASE k = moved
      <4>1. victim_pos # last_pos
        BY <1>4, <3>1 DEF moved
      <4> QED BY <1>1, <1>4, <1>5, <2>1, <3>1, <4>1 DEF Positions
    <3>2. CASE k # moved
      <4>1. id_data_map_[k] # victim_pos /\ id_data_map_[k] # last_pos
        BY <1>2, <1>4, <3>2 DEF moved
      <4>2. id_data_map_[k] \in Positions(last_pos) /\ id_data_map_[k] \in Positions(capacity_)
        BY <1>1, <1>2, <1>4, <2>1, <4>1 DEF Positions
      <4> QED BY <1>1, <1>2, <1>5, <3>2, <4>1, <4>2
    <3> QED BY <3>1, <3>2
  <2>3. ASSUME NEW p \in Positions(last_pos)
        PROVE  /\ index_to_key_'[p] \in DOMAIN id_data_map_ \ {victim}
               /\ id_data_map_'[index_to_key_'[p]] = p
    <3>1. p \in Positions(size_) /\ p \in Positions(capacity_) /\ p # last_pos
      BY <1>1, <1>4, <2>1 DEF Positions
    <3>2. CASE p = victim_pos
      <4>1. index_to_key_'[p] = moved
        BY <1>1, <1>4, <1>5, <3>1, <3>2
      <4>2. moved # victim
        BY <1>4, <3>1, <3>2 DEF victim_pos
      <4> QED BY <1>4, <1>5, <3>2, <4>1, <4>2
    <3>3. CASE p # victim_pos
      <4>1. index_to_key_'[p] = index_to_key_[p]
        BY <1>1, <1>5, <3>1, <3>3
      <4>2. index_to_key_[p] # victim /\ index_to_key_[p] # moved
        BY <1>2, <1>4, <3>1, <3>3 DEF victim_pos
      <4> QED BY <1>2, <1>5, <3>1, <4>1, <4>2
    <3> QED BY <3>2, <3>3
  <2>4. DOMAIN id_data_map_' = DOMAIN id_data_map_ \ {victim}
    BY <1>5
  <2> QED BY <2>1, <2>2, <2>3, <2>4 DEF MapsInverse, NoCopies, Current, find, Positions
<1>8. RecencyComplete'
  BY <1>3, <1>5 DEF RecencyComplete, Named
<1> QED BY <1>1, <1>5, <1>6, <1>7, <1>8 DEF last_pos

\* A push starts with records that, under a limit, are new to the cache, and
\* changes nothing else.
LEMMA PushFacts ==
  ASSUME Inv,
         \/ \E k \in Keys, v \in Values : MayPush({k}) /\ push_back(k, v)
         \/ \E k \in Keys, n \in 1 .. MaxBatch :
              /\ k .. k + n - 1 \subseteq Keys /\ MayPush(k .. k + n - 1)
              /\ \E vs \in [1 .. n -> Values] : push_batch(k, vs)
  PROVE  Inv'
<1>1. UNCHANGED <<size_, capacity_, data_, max_items_, id_data_map_, index_to_key_, lru_list_, answer>>
  BY DEF push_back, push_batch, buffer
<1>2. /\ doing' = "pushing" /\ pending' \in Seq(Keys \X Values) /\ pending' # <<>>
      /\ max_items_ # 0 =>
           /\ \A x \in DOMAIN pending' : ~ find(pending'[x][1])
           /\ \A x, j \in DOMAIN pending' : pending'[x][1] = pending'[j][1] => x = j
  <2>1. CASE \E k \in Keys, v \in Values : MayPush({k}) /\ push_back(k, v)
    <3> PICK k \in Keys, v \in Values : MayPush({k}) /\ push_back(k, v)
      BY <2>1
    <3>1. pending' = <<<<k, v>>>> /\ doing' = "pushing"
      BY DEF push_back
    <3>2. DOMAIN pending' = {1} /\ pending'[1][1] = k
      BY <3>1
    <3>3. max_items_ # 0 => ~ find(k)
      BY DEF MayPush
    <3> QED BY <3>1, <3>2, <3>3
  <2>2. CASE \E k \in Keys, n \in 1 .. MaxBatch :
               /\ k .. k + n - 1 \subseteq Keys /\ MayPush(k .. k + n - 1)
               /\ \E vs \in [1 .. n -> Values] : push_batch(k, vs)
    <3> PICK k \in Keys, n \in 1 .. MaxBatch :
               /\ k .. k + n - 1 \subseteq Keys /\ MayPush(k .. k + n - 1)
               /\ \E vs \in [1 .. n -> Values] : push_batch(k, vs)
      BY <2>2
    <3> PICK vs \in [1 .. n -> Values] : push_batch(k, vs)
      OBVIOUS
    <3>1. pending' = [x \in 1 .. n |-> <<k + x - 1, vs[x]>>] /\ doing' = "pushing"
      BY DEF push_batch
    <3>2. k \in Nat /\ n \in Nat /\ 1 <= n
      BY VarArrayAssumption
    <3>3. \A x \in 1 .. n : k + x - 1 \in k .. k + n - 1
      BY <3>2
    <3>4. pending' \in [1 .. n -> Keys \X Values]
      BY <3>1, <3>3
    <3>5. pending' \in Seq(Keys \X Values) /\ Len(pending') = n
      BY <3>2, <3>4
    <3>6. pending' # <<>>
      BY <3>2, <3>5
    <3>7. /\ DOMAIN pending' = 1 .. n
          /\ \A x \in 1 .. n : pending'[x][1] = k + x - 1
      BY <3>1
    <3>8. max_items_ # 0 => \A x \in DOMAIN pending' : ~ find(pending'[x][1])
      BY <3>3, <3>7 DEF MayPush
    <3>9. \A x, j \in DOMAIN pending' : pending'[x][1] = pending'[j][1] => x = j
      BY <3>2, <3>7
    <3> QED BY <3>1, <3>5, <3>6, <3>8, <3>9
  <2> QED BY <2>1, <2>2
<1>3. CacheTypeOK'
  BY <1>1, <1>2 DEF Inv, CacheTypeOK, Vectors, Positions
<1>4. MapsInverse' /\ RecencyComplete'
  BY <1>1 DEF Inv, Consistent, MapsInverse, NoCopies, Current, RecencyComplete, Named, find, Positions
<1>5. doing # "limiting"
  BY DEF push_back, push_batch
<1>6. WithinBounds' /\ Limited'
  BY <1>1, <1>2, <1>5 DEF Inv, Consistent, WithinBounds, Limited
<1>7. PendingNew'
  BY <1>1, <1>2 DEF PendingNew, find
<1> QED BY <1>3, <1>4, <1>6, <1>7 DEF Inv, Consistent

\* The record that is stored takes the place behind the others, and its id
\* names it; under a limit no other record has been stored under the id.
LEMMA StoreFacts ==
  ASSUME Inv, Store
  PROVE  Inv'
<1> DEFINE key == Head(pending)[1]
           value == Head(pending)[2]
<1>1. /\ size_ \in Nat /\ capacity_ \in Nat /\ size_ <= capacity_ /\ max_items_ \in Nat
      /\ lru_list_ \in Seq(Keys)
      /\ data_ \in [Positions(capacity_) -> Vectors]
      /\ index_to_key_ \in [Positions(capacity_) -> Keys]
      /\ DOMAIN id_data_map_ \subseteq Keys /\ id_data_map_ \in [DOMAIN id_data_map_ -> Nat]
      /\ answer \in Vectors \cup {NoAnswer}
  BY DEF Inv, CacheTypeOK, Consistent, WithinBounds, Store
<1>2. /\ pending \in Seq(Keys \X Values) /\ pending # <<>>
      /\ doing = "pushing" /\ Fits
  BY DEF Inv, CacheTypeOK, PendingNew, Store
<1>3. /\ Len(pending) \in Nat /\ Len(pending) # 0 /\ DOMAIN pending = 1 .. Len(pending)
      /\ key = pending[1][1] /\ key \in Keys /\ value \in Values
      /\ Tail(pending) \in Seq(Keys \X Values) /\ Len(Tail(pending)) = Len(pending) - 1
      /\ \A x \in DOMAIN Tail(pending) : x + 1 \in DOMAIN pending /\ Tail(pending)[x] = pending[x + 1]
  <2>1. Head(pending) \in Keys \X Values /\ Head(pending) = pending[1]
    BY <1>2
  <2> QED BY <1>2, <2>1
<1>4. PICK c \in Capacities(size_ + Len(pending)) :
             /\ capacity_' = c
             /\ data_' = [p \in Positions(c) |->
                            IF p = size_ THEN value
                            ELSE IF c = capacity_ \/ p < size_ THEN data_[p] ELSE Blank]
             /\ index_to_key_' = [p \in DOMAIN index_to_key_ \cup Positions(c) |->
                            IF p = size_ THEN key
                            ELSE IF p \in DOMAIN index_to_key_ THEN index_to_key_[p] ELSE 0]
  BY DEF Store
<1>5. /\ id_data_map_' = [k \in DOMAIN id_data_map_ \cup {key} |->
                            IF k = key THEN size_ ELSE id_data_map_[k]]
      /\ lru_list_' = ToFront(lru_list_, key)
      /\ size_' = size_ + 1
      /\ pending' = Tail(pending) /\ doing' = IF Len(pending) = 1 THEN "ready" ELSE "pushing"
      /\ max_items_' = max_items_ /\ answer' = answer
  BY DEF Store, touch_lru
<1>6. c \in Nat /\ size_ + Len(pending) <= c /\ capacity_ <= c
  BY <1>1, <1>3, CapacityFacts DEF Inv
<1>7. /\ Positions(capacity_) \subseteq Positions(c) /\ Positions(size_ + 1) \subseteq Positions(c)
      /\ size_ \in Positions(size_ + 1)
      /\ \A p \in Positions(size_ + 1) : p # size_ => p \in Positions(size_)
      /\ Positions(size_) \subseteq Positions(capacity_) /\ size_ \notin Positions(size_)
      /\ Positions(size_) \subseteq Positions(size_ + 1)
  BY <1>1, <1>3, <1>6 DEF Positions
<1>8. /\ \A k \in DOMAIN id_data_map_ :
           id_data_map_[k] \in Positions(size_) /\ index_to_key_[id_data_map_[k]] = k
      /\ max_items_ # 0 => \A p \in Positions(size_) : /\ index_to_key_[p] \in DOMAIN id_data_map_
                                                       /\ id_data_map_[index_to_key_[p]] = p
      /\ max_items_ # 0 => key \notin DOMAIN id_data_map_
      /\ Named(lru_list_) = DOMAIN id_data_map_
      /\ \A x, y \in DOMAIN lru_list_ : lru_list_[x] = lru_list_[y] => x = y
  <2>1. max_items_ # 0 => key \notin DOMAIN id_data_map_
    BY <1>3 DEF Inv, PendingNew, find
  <2> QED BY <2>1 DEF Inv, Consistent, MapsInverse, NoCopies, Current, find, RecencyComplete
<1> HIDE DEF key, value
<1>9. CacheTypeOK'
  <2>1. size_' \in Nat /\ capacity_' \in Nat /\ max_items_' \in Nat
    BY <1>1, <1>4, <1>5, <1>6
  <2>2. data_' \in [Positions(capacity_)' -> Vectors']
    <3>1. ASSUME NEW p \in Positions(c)
          PROVE  data_'[p] \in Vectors
      <4>1. p < size_ => p \in Positions(capacity_)
        BY <1>1, <1>6 DEF Positions
      <4> QED BY <1>1, <1>3, <1>4, <4>1 DEF Vectors
    <3>2. Positions(capacity_)' = Positions(c) /\ Vectors' = Vectors
      BY <1>4 DEF Positions, Vectors
    <3>3. data_' = [p \in Positions(c) |-> data_'[p]]
      BY <1>4
    <3> QED BY <3>1, <3>2, <3>3
  <2>3. DOMAIN id_data_map_' \subseteq Keys /\ id_data_map_' \in [DOMAIN id_data_map_' -> Nat]
    BY <1>1, <1>3, <1>5
  <2>4. index_to_key_' \in [Positions(capacity_)' -> Keys]
    <3>1. Positions(capacity_)' = Positions(c)
      BY <1>4 DEF Positions
    <3> QED BY <1>1, <1>3, <1>4, <1>7, <3>1, VarArrayAssumption
  <2>5. lru_list_' \in Seq(Keys)
    BY <1>1, <1>3, <1>5, <1>8, ToFrontFacts
  <2>6. /\ doing' \in {"ready", "pushing", "limiting"} /\ pending' \in Seq(Keys \X Values)
        /\ answer' \in Vectors' \cup {NoAnswer}
    BY <1>1, <1>3, <1>5 DEF Vectors
  <2> QED BY <2>1, <2>2, <2>3, <2>4, <2>5, <2>6 DEF CacheTypeOK
<1>10. /\ Positions(size_)' = Positions(size_ + 1)
       /\ DOMAIN id_data_map_' = DOMAIN id_data_map_ \cup {key}
       /\ index_to_key_'[size_] = key
       /\ \A p \in Positions(size_) : index_to_key_'[p] = index_to_key_[p]
       /\ id_data_map_'[key] = size_
       /\ \A k \in DOMAIN id_data_map_ : k # key => id_data_map_'[k] = id_data_map_[k]
  <2>1. Positions(size_)' = Positions(size_ + 1)
    BY <1>5 DEF Positions
  <2>2. index_to_key_'[size_] = key /\ \A p \in Positions(size_) : index_to_key_'[p] = index_to_key_[p]
    BY <1>1, <1>4, <1>7
  <2> QED BY <1>5, <2>1, <2>2
<1>11. MapsInverse'
  <2>1. \A k \in DOMAIN id_data_map_' :
          id_data_map_'[k] \in Positions(size_)' /\ index_to_key_'[id_data_map_'[k]] = k
    BY <1>7, <1>8, <1>10
  <2>2. ASSUME max_items_ # 0, NEW p \in Positions(size_)'
        PROVE  /\ index_to_key_'[p] \in DOMAIN id_data_map_'
               /\ id_data_map_'[index_to_key_'[p]] = p
    <3>1. CASE p = size_
      BY <1>10, <3>1
    <3>2. CASE p # size_
      <4>1. p \in Positions(size_)
        BY <1>7, <1>10, <2>2, <3>2
      <4> QED BY <1>8, <1>10, <2>2, <4>1
    <3> QED BY <3>1, <3>2
  <2> QED BY <1>5, <2>1, <2>2 DEF MapsInverse, NoCopies, Current, find
<1>12. RecencyComplete'
  <2> DEFINE t == ToFront(lru_list_, key)
  <2>1. /\ Named(t) = Named(lru_list_) \cup {key}
        /\ \A x, y \in DOMAIN t : t[x] = t[y] => x = y
    BY <1>1, <1>3, <1>8, ToFrontFacts
  <2>2. lru_list_' = t
    BY <1>5
  <2> HIDE DEF t
  <2>3. /\ Named(lru_list_') = DOMAIN id_data_map_'
        /\ \A x, y \in DOMAIN lru_list_' : lru_list_'[x] = lru_list_'[y] => x = y
    BY <1>8, <1>10, <2>1, <2>2
  <2> QED BY <2>3 DEF RecencyComplete, Named
<1>13. WithinBounds' /\ Limited'
  <2>1. doing' # "limiting"
    BY <1>5
  <2> QED BY <1>1, <1>2, <1>3, <1>4, <1>5, <1>6, <2>1 DEF WithinBounds, Limited, Fits
<1>14. PendingNew'
  <2>1. doing' = "pushing" <=> pending' # <<>>
    <3>1. pending' \in Seq(Keys \X Values) /\ Len(pending') = Len(pending) - 1
      BY <1>3, <1>5
    <3>2. pending' = <<>> <=> Len(pending') = 0
      BY <3>1, EmptySeq
    <3>3. doing' = "pushing" <=> Len(pending) # 1
      BY <1>5
    <3> QED BY <1>3, <3>1, <3>2, <3>3
  <2>2. ASSUME max_items_ # 0
        PROVE  /\ \A x \in DOMAIN pending' : pending'[x][1] \notin DOMAIN id_data_map_'
               /\ \A x, j \in DOMAIN pending' : pending'[x][1] = pending'[j][1] => x = j
    <3>1. /\ \A x \in DOMAIN pending : pending[x][1] \notin DOMAIN id_data_map_
          /\ \A x, j \in DOMAIN pending : pending[x][1] = pending[j][1] => x = j
      BY <2>2 DEF Inv, PendingNew, find
    <3>2. \A x \in DOMAIN pending' : /\ x + 1 \in DOMAIN pending /\ pending'[x] = pending[x + 1]
                                     /\ x + 1 # 1 /\ x \in Nat
      BY <1>3, <1>5
    <3>3. 1 \in DOMAIN pending
      BY <1>3
    <3>4. \A x \in DOMAIN pending' : pending'[x][1] # key
      BY <1>3, <3>1, <3>2, <3>3
    <3>5. ASSUME NEW x \in DOMAIN pending', NEW j \in DOMAIN pending', pending'[x][1] = pending'[j][1]
          PROVE  x = j
      <4>1. x + 1 = j + 1
        BY <3>1, <3>2, <3>5
      <4> QED BY <3>2, <4>1
    <3> QED BY <1>10, <3>1, <3>2, <3>4, <3>5
  <2> QED BY <1>5, <2>1, <2>2 DEF PendingNew, find
<1> QED BY <1>9, <1>11, <1>12, <1>13, <1>14 DEF Inv, Consistent

\* An access only moves the id it found to the front of the recency list.
LEMMA ReadFacts ==
  ASSUME Inv, \/ \E k \in Keys : Read(k)
              \/ \E p \in Positions(size_ + 1) : (p < size_ => Current(p)) /\ ReadAt(p)
  PROVE  Inv'
<1>1. /\ UNCHANGED <<size_, capacity_, data_, max_items_, id_data_map_, index_to_key_, doing, pending>>
      /\ doing = "ready"
  BY DEF Read, ReadAt, buffer
<1>2. /\ answer' \in Vectors \cup {NoAnswer}
      /\ lru_list_' = lru_list_ \/ \E k \in Keys : find(k) /\ lru_list_' = touch_lru(k)
  <2>0. /\ \A k \in DOMAIN id_data_map_ : id_data_map_[k] \in Positions(size_)
        /\ \A p \in Positions(size_) : data_[p] \in Vectors
        /\ DOMAIN id_data_map_ \subseteq Keys
    BY DEF Inv, CacheTypeOK, Consistent, MapsInverse, WithinBounds, Positions
  <2>1. CASE \E k \in Keys : Read(k)
    BY <2>0, <2>1 DEF Read, find
  <2>2. CASE \E p \in Positions(size_ + 1) : (p < size_ => Current(p)) /\ ReadAt(p)
    <3> PICK p \in Positions(size_ + 1) : (p < size_ => Current(p)) /\ ReadAt(p)
      BY <2>2
    <3>1. p < size_ => p \in Positions(size_)
      BY DEF Positions, Inv, CacheTypeOK
    <3> QED BY <2>0, <3>1 DEF ReadAt, Current, find
  <2> QED BY <2>1, <2>2
<1>3. /\ lru_list_' \in Seq(Keys)
      /\ Named(lru_list_') = DOMAIN id_data_map_
      /\ \A x, j \in DOMAIN lru_list_' : lru_list_'[x] = lru_list_'[j] => x = j
  <2>1. CASE lru_list_' = lru_list_
    BY <2>1 DEF Inv, CacheTypeOK, Consistent, RecencyComplete
  <2>2. CASE \E k \in Keys : find(k) /\ lru_list_' = touch_lru(k)
    <3> PICK k \in Keys : find(k) /\ lru_list_' = touch_lru(k)
      BY <2>2
    <3>1. /\ lru_list_ \in Seq(Keys) /\ Named(lru_list_) = DOMAIN id_data_map_
          /\ \A x, y \in DOMAIN lru_list_ : lru_list_[x] = lru_list_[y] => x = y
          /\ k \in DOMAIN id_data_map_
      BY DEF Inv, CacheTypeOK, Consistent, RecencyComplete, find
    <3> DEFINE t == ToFront(lru_list_, k)
    <3>2. /\ t \in Seq(Keys) /\ Named(t) = Named(lru_list_) \cup {k}
          /\ \A x, y \in DOMAIN t : t[x] = t[y] => x = y
      BY <3>1, ToFrontFacts
    <3>3. lru_list_' = t
      BY DEF touch_lru
    <3> HIDE DEF t
    <3> QED BY <3>1, <3>2, <3>3
  <2> QED BY <1>2, <2>1, <2>2
<1>4. CacheTypeOK'
  BY <1>1, <1>2, <1>3 DEF Inv, CacheTypeOK, Vectors, Positions
<1>5. MapsInverse' /\ RecencyComplete'
  <2>1. RecencyComplete'
    BY <1>1, <1>3 DEF RecencyComplete, Named
  <2> QED BY <1>1, <2>1 DEF Inv, Consistent, MapsInverse, NoCopies, Current, find, Positions
<1>6. WithinBounds' /\ Limited'
  BY <1>1 DEF Inv, Consistent, WithinBounds, Limited
<1>7. PendingNew'
  BY <1>1 DEF Inv, PendingNew, find
<1> QED BY <1>4, <1>5, <1>6, <1>7 DEF Inv, Consistent

\* Shrinking the buffer to the limit keeps every position that holds a record.
LEMMA ShrinkFacts ==
  ASSUME Inv, Shrink
  PROVE  Inv'
<1>1. /\ UNCHANGED <<size_, max_items_, id_data_map_, lru_list_, pending, answer>>
      /\ doing = "limiting" /\ doing' = "ready" /\ size_ <= max_items_
      /\ IF capacity_ > max_items_
         THEN /\ capacity_' = max_items_
              /\ data_' = [p \in Positions(max_items_) |-> IF p < size_ THEN data_[p] ELSE Blank]
              /\ index_to_key_' = [p \in DOMAIN index_to_key_ \cap Positions(max_items_) |->
                                     index_to_key_[p]]
         ELSE UNCHANGED <<buffer, index_to_key_>>
  BY DEF Shrink
<1>2. /\ size_ \in Nat /\ capacity_ \in Nat /\ max_items_ \in Nat /\ size_ <= capacity_
      /\ data_ \in [Positions(capacity_) -> Vectors]
      /\ index_to_key_ \in [Positions(capacity_) -> Keys]
  BY DEF Inv, CacheTypeOK, Consistent, WithinBounds
<1>3. /\ size_ <= capacity_' /\ capacity_' \in Nat
      /\ data_' \in [Positions(capacity_') -> Vectors]
      /\ index_to_key_' \in [Positions(capacity_') -> Keys]
      /\ \A p \in Positions(size_) : index_to_key_'[p] = index_to_key_[p]
  <2>1. CASE capacity_ > max_items_
    <3>1. /\ Positions(max_items_) \subseteq Positions(capacity_)
          /\ Positions(size_) \subseteq Positions(max_items_)
      BY <1>1, <1>2, <2>1 DEF Positions
    <3>2. index_to_key_' = [p \in Positions(max_items_) |-> index_to_key_[p]]
      BY <1>1, <1>2, <2>1, <3>1
    <3>3. data_' \in [Positions(max_items_) -> Vectors]
      BY <1>1, <1>2, <2>1, <3>1 DEF Vectors
    <3> QED BY <1>1, <1>2, <2>1, <3>1, <3>2, <3>3
  <2>2. CASE ~ (capacity_ > max_items_)
    BY <1>1, <1>2, <2>2 DEF buffer
  <2> QED BY <2>1, <2>2
<1>4. CacheTypeOK'
  BY <1>1, <1>3 DEF Inv, CacheTypeOK, Vectors, Positions
<1>5. MapsInverse' /\ RecencyComplete'
  <2>1. Positions(size_)' = Positions(size_)
    BY <1>1 DEF Positions
  <2>2. MapsInverse /\ RecencyComplete
    BY DEF Inv, Consistent
  <2>3. MapsInverse'
    BY <1>1, <1>3, <2>1, <2>2 DEF MapsInverse, NoCopies, Current, find
  <2> QED BY <1>1, <2>2, <2>3 DEF RecencyComplete, Named
<1>6. WithinBounds' /\ Limited'
  BY <1>1, <1>3 DEF Inv, Consistent, WithinBounds, Limited
<1>7. PendingNew'
  BY <1>1 DEF Inv, PendingNew, find
<1> QED BY <1>4, <1>5, <1>6, <1>7 DEF Inv, Consistent

\* A cache that is emptied holds no record, no id and no order.
LEMMA EmptyFacts ==
  ASSUME Inv, clear \/ release
  PROVE  Inv'
<1>1. /\ size_' = 0 /\ id_data_map_' = <<>> /\ lru_list_' = <<>>
      /\ UNCHANGED <<max_items_, doing, pending, answer>> /\ doing = "ready"
  BY DEF clear, release
<1>2. /\ capacity_' \in Nat
      /\ data_' \in [Positions(capacity_') -> Vectors]
      /\ index_to_key_' \in [Positions(capacity_') -> Keys]
  <2>1. Positions(0) = {}
    BY DEF Positions
  <2>2. CASE clear
    BY <2>2 DEF Inv, CacheTypeOK, clear, buffer
  <2>3. CASE release
    <3>1. capacity_' = 0 /\ data_' = <<>> /\ index_to_key_' = <<>>
      BY <2>3 DEF release
    <3> QED BY <2>1, <3>1
  <2> QED BY <2>2, <2>3
<1>3. DOMAIN id_data_map_' = {} /\ DOMAIN lru_list_' = {} /\ Positions(size_)' = {}
  BY <1>1 DEF Positions
<1>4. CacheTypeOK'
  <2>1. id_data_map_' \in [DOMAIN id_data_map_' -> Nat]
    BY <1>1, <1>3
  <2>2. lru_list_' \in Seq(Keys)
    BY <1>1
  <2> QED BY <1>1, <1>2, <1>3, <2>1, <2>2 DEF Inv, CacheTypeOK, Vectors, Positions
<1>5. MapsInverse' /\ RecencyComplete'
  BY <1>1, <1>3 DEF MapsInverse, NoCopies, RecencyComplete, Named
<1>6. WithinBounds' /\ Limited'
  BY <1>1, <1>2 DEF Inv, CacheTypeOK, WithinBounds, Limited
<1>7. PendingNew'
  BY <1>1, <1>3 DEF Inv, PendingNew, find
<1> QED BY <1>4, <1>5, <1>6, <1>7 DEF Inv, Consistent

\* An empty cache is consistent.
LEMMA InitInv == CacheInit => Inv
<1> SUFFICES ASSUME CacheInit PROVE Inv
  OBVIOUS
<1>1. /\ size_ = 0 /\ capacity_ = 0 /\ max_items_ = 0
      /\ data_ = <<>> /\ id_data_map_ = <<>> /\ index_to_key_ = <<>> /\ lru_list_ = <<>>
      /\ doing = "ready" /\ pending = <<>> /\ answer = NoAnswer
  BY DEF CacheInit
<1>2. DOMAIN id_data_map_ = {} /\ DOMAIN lru_list_ = {} /\ Positions(0) = {} /\ DOMAIN pending = {}
  BY <1>1 DEF Positions
<1>3. /\ data_ \in [Positions(0) -> Vectors] /\ index_to_key_ \in [Positions(0) -> Keys]
      /\ id_data_map_ \in [DOMAIN id_data_map_ -> Nat]
      /\ lru_list_ \in Seq(Keys) /\ pending \in Seq(Keys \X Values)
  BY <1>1, <1>2
<1>4. CacheTypeOK
  BY <1>1, <1>2, <1>3 DEF CacheTypeOK
<1>5. Consistent
  BY <1>1, <1>2 DEF Consistent, MapsInverse, RecencyComplete, WithinBounds, Named
<1>6. PendingNew /\ Limited
  BY <1>1, <1>2 DEF PendingNew, Limited
<1> QED BY <1>4, <1>5, <1>6 DEF Inv

\* Every step of an operation leaves the cache consistent.
LEMMA NextInv == Inv /\ [CacheNext]_cacheVars => Inv'
<1> SUFFICES ASSUME Inv, [CacheNext]_cacheVars PROVE Inv'
  OBVIOUS
<1>1. ASSUME \/ \E k \in Keys, v \in Values : MayPush({k}) /\ push_back(k, v)
             \/ \E k \in Keys, n \in 1 .. MaxBatch :
                  /\ k .. k + n - 1 \subseteq Keys /\ MayPush(k .. k + n - 1)
                  /\ \E vs \in [1 .. n -> Values] : push_batch(k, vs)
      PROVE  Inv'
  BY <1>1, PushFacts
<1>2. CASE Evict
  <2>1. /\ doing = "pushing" /\ max_items_ # 0 /\ max_items_ < size_ + Len(pending)
        /\ evict_one_lru
        /\ UNCHANGED <<capacity_, max_items_, doing, pending, answer>>
    BY <1>2 DEF Evict, Fits, Inv, CacheTypeOK
  <2>2. /\ CacheTypeOK' /\ MapsInverse' /\ RecencyComplete' /\ size_' <= capacity_'
        /\ size_' = size_ - 1 /\ DOMAIN id_data_map_' \subseteq DOMAIN id_data_map_
    BY <2>1, EvictFacts
  <2>3. WithinBounds' /\ Limited'
    BY <2>1, <2>2 DEF WithinBounds, Limited, Inv, Consistent, CacheTypeOK
  <2>4. PendingNew'
    BY <2>1, <2>2 DEF Inv, PendingNew, find
  <2> QED BY <2>2, <2>3, <2>4 DEF Inv, Consistent
<1>3. CASE EvictExcess
  <2>1. /\ doing = "limiting" /\ max_items_ # 0
        /\ evict_one_lru
        /\ UNCHANGED <<capacity_, max_items_, doing, pending, answer>>
    BY <1>3 DEF EvictExcess, Inv, Limited
  <2>2. /\ CacheTypeOK' /\ MapsInverse' /\ RecencyComplete' /\ size_' <= capacity_'
        /\ DOMAIN id_data_map_' \subseteq DOMAIN id_data_map_
    BY <2>1, EvictFacts
  <2>3. WithinBounds' /\ Limited'
    BY <2>1, <2>2 DEF WithinBounds, Limited
  <2>4. PendingNew'
    BY <2>1, <2>2 DEF Inv, PendingNew, find
  <2> QED BY <2>2, <2>3, <2>4 DEF Inv, Consistent
<1>4. CASE Spin \/ UNCHANGED cacheVars
  <2>1. UNCHANGED <<size_, capacity_, max_items_, data_, id_data_map_, index_to_key_, lru_list_,
                    doing, pending, answer>>
    BY <1>4 DEF Spin, cacheVars
  <2>2. CacheTypeOK'
    BY <2>1 DEF Inv, CacheTypeOK, Vectors, Positions
  <2>3. MapsInverse' /\ RecencyComplete'
    BY <2>1 DEF Inv, Consistent, MapsInverse, NoCopies, Current, RecencyComplete, Named, find, Positions
  <2>4. WithinBounds' /\ Limited'
    BY <2>1 DEF Inv, Consistent, WithinBounds, Limited
  <2>5. PendingNew'
    BY <2>1 DEF Inv, PendingNew, find
  <2> QED BY <2>2, <2>3, <2>4, <2>5 DEF Inv, Consistent
<1>5. CASE Store
  BY <1>5, StoreFacts
<1>6. ASSUME \/ \E k \in Keys : Read(k)
             \/ \E p \in Positions(size_ + 1) : (p < size_ => Current(p)) /\ ReadAt(p)
      PROVE  Inv'
  BY <1>6, ReadFacts
<1>7. CASE \E m \in 0 .. MaxItems : (m = 0 \/ NoCopies) /\ set_max_items(m)
  <2> PICK m \in 0 .. MaxItems : (m = 0 \/ NoCopies) /\ set_max_items(m)
    BY <1>7
  <2>1. /\ UNCHANGED <<size_, capacity_, data_, id_data_map_, index_to_key_, lru_list_, pending, answer>>
        /\ max_items_' = m /\ m \in Nat
        /\ doing = "ready" /\ doing' = IF m = 0 THEN "ready" ELSE "limiting"
    BY VarArrayAssumption DEF set_max_items, buffer
  <2>2. CacheTypeOK'
    BY <2>1 DEF Inv, CacheTypeOK, Vectors, Positions
  <2>3. MapsInverse' /\ RecencyComplete'
    BY <2>1 DEF Inv, Consistent, MapsInverse, NoCopies, Current, RecencyComplete, Named, find, Positions
  <2>4. WithinBounds' /\ Limited'
    BY <2>1 DEF Inv, Consistent, WithinBounds, Limited
  <2>5. PendingNew'
    <3>1. pending = <<>> /\ DOMAIN pending' = {}
      BY <2>1 DEF Inv, PendingNew
    <3> QED BY <2>1, <3>1 DEF PendingNew
  <2> QED BY <2>2, <2>3, <2>4, <2>5 DEF Inv, Consistent
<1>8. CASE Shrink
  BY <1>8, ShrinkFacts
<1>9. CASE clear \/ release
  BY <1>9, EmptyFacts
<1> QED BY <1>1, <1>2, <1>3, <1>4, <1>5, <1>6, <1>7, <1>8, <1>9 DEF CacheNext

\* The invariant holds in every state of the cache.
THEOREM CacheInvariant == CacheSpec => []Inv
BY InitInv, NextInv, PTL DEF CacheSpec

\* The arrays, maps and lists of the cache keep their types and their lengths.
THEOREM CacheTypes == CacheSpec => []CacheTypeOK
<1>1. Inv => CacheTypeOK
  BY DEF Inv
<1> QED BY <1>1, CacheInvariant, PTL

\* Every id that is held names a record that names it, under a limit every
\* record is named, the recency list names the ids that are held, and the
\* records stay within the buffer and the limit, whatever was pushed, pushed
\* again, read, evicted and moved into holes (VarArray.h:31-269).
THEOREM CacheConsistent == CacheSpec => []Consistent
<1>1. Inv => Consistent
  BY DEF Inv
<1> QED BY <1>1, CacheInvariant, PTL

-------------------------------------------------------------------------------
(***************************************************************************)
(* The refinement.  The store a caller sees maps an id to the vector at    *)
(* the id's position.                                                      *)
(***************************************************************************)
held == [k \in DOMAIN id_data_map_ |-> data_[id_data_map_[k]]]

\* An evicted record disappears from the store; the one that is moved into its
\* place keeps its vector.
LEMMA EvictedStore ==
  ASSUME Inv, evict_one_lru, max_items_ # 0
  PROVE  held' = [k \in DOMAIN held \ {Oldest(lru_list_)} |-> held[k]]
<1> DEFINE victim == Oldest(lru_list_)
           victim_pos == id_data_map_[victim]
           last_pos == size_ - 1
           moved == index_to_key_[last_pos]
<1>1. /\ data_ \in [Positions(capacity_) -> Vectors]
      /\ \A k \in DOMAIN id_data_map_ : /\ id_data_map_[k] \in Positions(size_)
                                        /\ index_to_key_[id_data_map_[k]] = k
  BY DEF Inv, CacheTypeOK, Consistent, MapsInverse
<1>2. /\ victim \in DOMAIN id_data_map_
      /\ Positions(size_) \subseteq Positions(capacity_)
      /\ victim_pos \in Positions(size_) /\ index_to_key_[victim_pos] = victim
      /\ moved \in DOMAIN id_data_map_ /\ id_data_map_[moved] = last_pos
      /\ id_data_map_' = [k \in DOMAIN id_data_map_ \ {victim} |->
                            IF k = moved THEN victim_pos ELSE id_data_map_[k]]
      /\ data_' = [data_ EXCEPT ![victim_pos] = data_[last_pos]]
  BY EvictionMoves
<1> HIDE DEF victim, victim_pos, last_pos, moved
<1>3. ASSUME NEW k \in DOMAIN id_data_map_ \ {victim}
      PROVE  data_'[id_data_map_'[k]] = data_[id_data_map_[k]]
  <2>1. victim_pos \in Positions(capacity_) /\ id_data_map_[k] \in Positions(capacity_)
    BY <1>1, <1>2
  <2>2. id_data_map_[k] # victim_pos
    BY <1>1, <1>2
  <2> QED BY <1>1, <1>2, <2>1, <2>2
<1>4. DOMAIN id_data_map_' = DOMAIN id_data_map_ \ {victim} /\ DOMAIN held = DOMAIN id_data_map_
  BY <1>2 DEF held
<1> QED BY <1>3, <1>4 DEF held, victim

\* What is stored is found under its id; the other records keep their vectors,
\* also when the buffer grows.
LEMMA StoredStore ==
  ASSUME Inv, Store
  PROVE  held' = [k \in DOMAIN held \cup {Head(pending)[1]} |->
                    IF k = Head(pending)[1] THEN Head(pending)[2] ELSE held[k]]
<1> DEFINE key == Head(pending)[1]
<1>1. /\ size_ \in Nat /\ capacity_ \in Nat /\ size_ <= capacity_
      /\ Len(pending) \in Nat /\ Len(pending) # 0
      /\ \A k \in DOMAIN id_data_map_ : id_data_map_[k] \in Positions(size_)
  <2>1. pending \in Seq(Keys \X Values) /\ pending # <<>>
    BY DEF Inv, CacheTypeOK, PendingNew, Store
  <2> QED BY <2>1, EmptySeq DEF Inv, CacheTypeOK, Consistent, WithinBounds, MapsInverse, Store
<1>2. PICK c \in Capacities(size_ + Len(pending)) :
             data_' = [p \in Positions(c) |->
                         IF p = size_ THEN Head(pending)[2]
                         ELSE IF c = capacity_ \/ p < size_ THEN data_[p] ELSE Blank]
  BY DEF Store
<1>3. id_data_map_' = [k \in DOMAIN id_data_map_ \cup {key} |->
                         IF k = key THEN size_ ELSE id_data_map_[k]]
  BY DEF Store
<1>4. c \in Nat /\ size_ + Len(pending) <= c
  BY <1>1, CapacityFacts DEF Inv
<1>5. size_ \in Positions(c)
      /\ \A p \in Positions(size_) : p \in Positions(c) /\ p < size_ /\ p # size_
  BY <1>1, <1>4 DEF Positions
<1> HIDE DEF key
<1>6. data_'[id_data_map_'[key]] = Head(pending)[2]
  BY <1>2, <1>3, <1>5
<1>7. ASSUME NEW k \in DOMAIN id_data_map_, k # key
      PROVE  data_'[id_data_map_'[k]] = held[k]
  BY <1>1, <1>2, <1>3, <1>5, <1>7 DEF held
<1>8. held' = [k \in DOMAIN id_data_map_ \cup {key} |-> data_'[id_data_map_'[k]]]
  BY <1>3 DEF held
<1>9. DOMAIN held = DOMAIN id_data_map_
  BY DEF held
<1> QED BY <1>6, <1>7, <1>8, <1>9 DEF key

\* Shrinking drops no record.
LEMMA ShrunkStore ==
  ASSUME Inv, Shrink
  PROVE  held' = held
<1>1. /\ size_ \in Nat /\ capacity_ \in Nat /\ max_items_ \in Nat
      /\ \A k \in DOMAIN id_data_map_ : id_data_map_[k] \in Positions(size_)
  BY DEF Inv, CacheTypeOK, Consistent, MapsInverse
<1>2. ASSUME NEW k \in DOMAIN id_data_map_
      PROVE  data_'[id_data_map_[k]] = data_[id_data_map_[k]]
  <2>1. size_ <= max_items_ => /\ id_data_map_[k] \in Positions(max_items_)
                               /\ id_data_map_[k] < size_
    BY <1>1 DEF Positions
  <2> QED BY <2>1 DEF Shrink, buffer
<1>3. id_data_map_' = id_data_map_
  BY DEF Shrink
<1> QED BY <1>2, <1>3 DEF held

\* Every step of the cache is a step of the map it promises, or changes nothing
\* a caller can see.
LEMMA StepImplements == Inv /\ [CacheNext]_cacheVars => [Promise!Next]_Promise!vars
<1> SUFFICES ASSUME Inv, [CacheNext]_cacheVars PROVE [Promise!Next]_Promise!vars
  OBVIOUS
<1>0. /\ DOMAIN held = DOMAIN id_data_map_
      /\ doing # "pushing" => pending = <<>>
      /\ max_items_ # 0 => size_ = Len(lru_list_)
      /\ Len(pending) \in Nat /\ Len(<<>>) = 0
      /\ lru_list_ \in Seq(Keys) /\ size_ \in Nat /\ max_items_ \in Nat
  BY LimitedCount DEF held, Inv, PendingNew, CacheTypeOK
<1>1. ASSUME \/ \E k \in Keys, v \in Values : MayPush({k}) /\ push_back(k, v)
             \/ \E k \in Keys, n \in 1 .. MaxBatch :
                  /\ k .. k + n - 1 \subseteq Keys /\ MayPush(k .. k + n - 1)
                  /\ \E vs \in [1 .. n -> Values] : push_batch(k, vs)
      PROVE  Promise!Offer
  <2>1. Inv' /\ doing' = "pushing" /\ doing = "ready"
        /\ UNCHANGED <<data_, id_data_map_, lru_list_, max_items_, answer>>
    BY <1>1, PushFacts DEF push_back, push_batch, buffer
  <2>2. /\ pending' \in Seq(Keys \X Values) /\ pending' # <<>>
        /\ max_items_ = 0 \/ \A x \in DOMAIN pending' : pending'[x][1] \notin DOMAIN held
    BY <1>0, <2>1 DEF Inv, CacheTypeOK, PendingNew, find
  <2>3. held' = held
    BY <2>1 DEF held
  <2> QED BY <1>0, <2>1, <2>2, <2>3 DEF Promise!Offer, Promise!Held, held
<1>2. CASE Evict \/ EvictExcess
  <2>1. evict_one_lru /\ UNCHANGED <<max_items_, pending, answer>>
    BY <1>2 DEF Evict, EvictExcess
  <2>2. max_items_ # 0 /\ ~ Promise!RoomFor(Len(pending))
    BY <1>0, <1>2 DEF Evict, EvictExcess, Fits, Promise!RoomFor, Inv, Limited
  <2>3. held' = [k \in DOMAIN held \ {Oldest(lru_list_)} |-> held[k]]
    BY <2>1, <2>2, EvictedStore
  <2>4. Promise!DropOldest
    BY <2>1, <2>2, <2>3 DEF Promise!DropOldest, Promise!Held, Promise!Oldest, Promise!WithoutOldest,
       Oldest, WithoutOldest, evict_one_lru, held
  <2> QED BY <2>4 DEF Promise!Next
<1>3. CASE Store
  <2>1. doing = "pushing" /\ Fits /\ pending' = Tail(pending) /\ UNCHANGED <<max_items_, answer>>
    BY <1>3 DEF Store
  <2>2. lru_list_' = Promise!ToFront(lru_list_, Head(pending)[1])
    BY <1>3 DEF Store, touch_lru, ToFront, Place, Named,
       Promise!ToFront, Promise!Place, Promise!Named
  <2>3. held' = [k \in DOMAIN held \cup {Head(pending)[1]} |->
                   IF k = Head(pending)[1] THEN Head(pending)[2] ELSE held[k]]
    BY <1>3, StoredStore
  <2>4. pending # <<>> /\ Promise!RoomFor(Len(pending))
    BY <1>0, <2>1 DEF Inv, PendingNew, Fits, Promise!RoomFor
  <2>5. Promise!Store
    BY <2>1, <2>2, <2>3, <2>4 DEF Promise!Store, Promise!Held, held
  <2> QED BY <2>5 DEF Promise!Next
<1>4. ASSUME NEW k \in Keys, Read(k)
      PROVE  Promise!Get(k) \/ Promise!Miss
  <2>1. held' = held /\ UNCHANGED <<max_items_, pending>>
    BY <1>4 DEF Read, buffer, held
  <2>2. CASE find(k)
    <3>1. answer' = held[k] /\ k \in DOMAIN held
      BY <1>4, <2>2 DEF Read, find, held
    <3>2. lru_list_' = Promise!ToFront(lru_list_, k)
      BY <1>4, <2>2 DEF Read, touch_lru, ToFront, Place, Named,
         Promise!ToFront, Promise!Place, Promise!Named
    <3> QED BY <2>1, <3>1, <3>2 DEF Promise!Get, Promise!Held, held
  <2>3. CASE ~ find(k)
    BY <1>4, <2>1, <2>3 DEF Read, Promise!Miss, held
  <2> QED BY <2>2, <2>3
<1>5. ASSUME NEW p \in Positions(size_ + 1), p < size_ => Current(p), ReadAt(p)
      PROVE  (\E k \in Keys : Promise!Get(k)) \/ Promise!Miss
  <2>1. held' = held /\ UNCHANGED <<max_items_, pending>>
    BY <1>5 DEF ReadAt, buffer, held
  <2>2. CASE p < size_
    <3> DEFINE k == index_to_key_[p]
    <3>1. k \in DOMAIN id_data_map_ /\ id_data_map_[k] = p /\ k \in Keys
      BY <1>5, <2>2 DEF Current, find, Inv, CacheTypeOK
    <3>2. answer' = held[k] /\ k \in DOMAIN held
      BY <1>5, <2>2, <3>1 DEF ReadAt, held
    <3>3. lru_list_' = Promise!ToFront(lru_list_, k)
      BY <1>5, <2>2 DEF ReadAt, touch_lru, ToFront, Place, Named,
         Promise!ToFront, Promise!Place, Promise!Named
    <3> HIDE DEF k
    <3>4. Promise!Get(k)
      BY <2>1, <3>2, <3>3 DEF Promise!Get, Promise!Held, held
    <3> QED BY <3>1, <3>4
  <2>3. CASE ~ (p < size_)
    BY <1>5, <2>1, <2>3 DEF ReadAt, Promise!Miss, held
  <2> QED BY <2>2, <2>3
<1>6. ASSUME NEW m \in 0 .. MaxItems, set_max_items(m)
      PROVE  Promise!SetLimit
  BY <1>6, VarArrayAssumption DEF set_max_items, buffer, Promise!SetLimit, held
<1>7. CASE clear \/ release
  <2>1. /\ id_data_map_' = <<>> /\ lru_list_' = <<>> /\ UNCHANGED <<max_items_, pending, answer>>
    BY <1>7 DEF clear, release
  <2>2. held' = <<>>
    <3>1. DOMAIN id_data_map_' = {}
      BY <2>1
    <3> QED BY <3>1 DEF held
  <2>3. Promise!Forget
    BY <2>1, <2>2 DEF Promise!Forget, held
  <2> QED BY <2>3 DEF Promise!Next
<1>8. CASE Shrink
  <2>1. held' = held
    BY <1>8, ShrunkStore
  <2>2. UNCHANGED Promise!vars
    BY <1>8, <2>1 DEF Shrink, held, Promise!vars
  <2> QED BY <2>2
<1>9. CASE Spin \/ UNCHANGED cacheVars
  <2>1. held' = held /\ UNCHANGED <<lru_list_, max_items_, pending, answer>>
    BY <1>9 DEF Spin, cacheVars, held
  <2>2. UNCHANGED Promise!vars
    BY <2>1 DEF held, Promise!vars
  <2> QED BY <2>2
<1> QED BY <1>1, <1>2, <1>3, <1>4, <1>5, <1>6, <1>7, <1>8, <1>9 DEF CacheNext, Promise!Next

\* The cache implements the least-recently-used map: every access answers with
\* the vector pushed last under the id, and only the least recently used id is
\* dropped, only for want of room (VarArray.h:31-269).
THEOREM CacheImplements == CacheSpec => Implements
<1>1. CacheInit => Promise!Init
  <2> SUFFICES ASSUME CacheInit PROVE Promise!Init
    OBVIOUS
  <2>1. DOMAIN id_data_map_ = {}
    BY DEF CacheInit
  <2>2. held = <<>>
    BY <2>1 DEF held
  <2> QED BY <2>2 DEF CacheInit, Promise!Init, held
<1> QED BY <1>1, CacheInvariant, StepImplements, PTL DEF CacheSpec, Implements, Promise!Spec
===============================================================================
