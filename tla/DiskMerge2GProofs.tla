---------------------------- MODULE DiskMerge2GProofs ----------------------------
(***************************************************************************)
(* The disk merge within 2 GB, for any two files, batch and cache sizes,   *)
(* any M, lambda and alpha, and whatever lies behind a buffer.             *)
(***************************************************************************)
EXTENDS DiskMerge2G, DiskProofs

-------------------------------------------------------------------------------
(* The inductive invariant *)

\* Distances and vectors are the true ones: on every level but 0, and there
\* when bytes can hold the coordinates.
Exact(l) == l > 0 \/ InBytes

\* The list of element n of the result, and a slot that is whole, on level l
IsFair(l, n, list) == FairList(Exact(l), data, Tops, n, l, list)
IsFairSlot(l, n, slot) ==
  /\ IsFair(l, n, slot.list)
  /\ slot.count = Cardinality(DOMAIN slot.list)
  /\ slot.count <= Mcurmax(M, l)
FairSlot(l, n) == IsFairSlot(l, n, file[l][n])

\* index2 as the forward searches of the level see it
Seen2 == [index2 EXCEPT !.data = Vectors(index2, level)]

\* Before the merged file exists
Untouched ==
  /\ pc \in {"start", "refused"} /\ file = <<>>
  /\ level = 0 /\ b = 0 /\ i = 0 /\ ep = <<>> /\ cands = <<>>
  /\ lists1 = <<>> /\ lists2 = <<>> /\ dists2 = {}
  /\ recent1 = <<>> /\ order2 = <<>> /\ cache = <<>> /\ bytes = {}

TypesOK ==
  /\ pc \in {"level", "batch1", "forward", "batch2", "backward", "done",
             "end of file", "too many for the cache", "slice count mismatch", "key not found"}
  /\ level \in IF pc = "done" THEN {-1} ELSE Levels(index2)
  /\ b \in Nat /\ i \in Nat
  /\ file \in [Levels(index2) -> [DOMAIN data -> AnySlot]]
  /\ ep \in [Ids(index1) -> {NoEntry} \cup Layer(index2, level)]
  /\ cands = <<>> \/ cands \in [Ids(index2) -> Lists(Ids(index1))]

\* Memory holds parts of the inputs only.
MemoryOK ==
  /\ DOMAIN lists1 \subseteq Ids(index1) /\ DOMAIN lists2 \subseteq Ids(index2)
  /\ dists2 \subseteq Ids(index2) /\ bytes \subseteq {1, 2}
  /\ order2 \in Seq(Layer(index2, level))

\* Slots of index1 and slots of elements that are not on the level are whole
\* from the beginning, the others when the level is finished.
FileOK ==
  \A l \in Levels(index2) :
    /\ \A n \in Ids(index1) : FairSlot(l, n)
    /\ \A j \in Ids(index2) :
         j \notin Layer(index2, l) \/ level < l => FairSlot(l, j + off)

\* The forward searches find all lists of index2 in memory, on level 0 its
\* bytes, and of a batch of index1 the lists on the level.
ForwardOK ==
  /\ pc \in {"batch1", "forward"} =>
       /\ lists2 = ReadLists(index2, Layer(index2, level))
       /\ level = 0 => 2 \in bytes
  /\ pc = "forward" =>
       /\ b < index1.count /\ i \in b .. Lower(b + BatchSize, index1.count)
       /\ lists1 = ReadLists(index1, Window1 \cap Layer(index1, level))

\* An element of index2 has candidates of the level, at the distances the
\* searches saw.
CandidatesOK ==
  pc \in {"batch1", "forward", "batch2", "backward"} =>
    /\ cands \in [Ids(index2) -> Lists(Ids(index1))]
    /\ \A j \in Ids(index2) : GoodList(ForwardVectors, Tops, j + off, level, cands[j])

\* On the way back lists and distances of the batch are in memory, on level 0
\* the bytes of both, and the slots before the position are whole.
BackwardOK ==
  /\ pc \in {"batch2", "backward"} =>
       /\ level > 0 => lists2 = ReadLists(index2, Layer(index2, level)) /\ dists2 = Layer(index2, level)
       /\ level = 0 => bytes = {1, 2}
       /\ \A j \in Layer(index2, level) : Rank(j) < Position2 => FairSlot(level, j + off)
  /\ pc = "backward" =>
       /\ b < Size2 /\ i \in b .. Lower(b + BatchSize, Size2)
       /\ level = 0 => lists2 = ReadLists(index2, Window2) /\ dists2 = Window2

\* A level that is loaded fits the cache.
FitsOK ==
  pc \in {"batch1", "forward", "batch2", "backward"} /\ level > 0 =>
    Cardinality(Layer(index2, level)) <= CacheLimit

\* The cache of the result is empty between batches and, on level 0, between
\* elements.  Up to level 1 it holds the true vectors or their bytes.
CacheOK ==
  /\ cache = [m \in DOMAIN cache |-> cache[m]] /\ DOMAIN cache \subseteq Int
  /\ pc \in {"level", "batch1", "batch2"} => cache = <<>>
  /\ pc = "forward" /\ level = 0 => cache = <<>>
  /\ pc = "forward" /\ level > 0 => \A m \in DOMAIN cache : m \in DOMAIN data /\ cache[m] = data[m]
  /\ pc = "backward" /\ level = 0 =>
       \A m \in DOMAIN cache : m \in DOMAIN data /\ cache[m] = Byte(data[m])
  /\ pc = "backward" /\ level = 1 =>
       \A m \in DOMAIN cache : m \in DOMAIN data /\ cache[m] = data[m]

Underway ==
  /\ index1.maxlevel_ <= index2.maxlevel_
  /\ TypesOK /\ MemoryOK /\ FileOK /\ ForwardOK /\ CandidatesOK /\ BackwardOK /\ FitsOK /\ CacheOK

Inv2G ==
  /\ missed = {} /\ InputsOK
  /\ Untouched \/ Underway

-------------------------------------------------------------------------------
(* What the invariant says of lists and vectors *)

\* A vector that went through a byte is a number.
LEMMA ByteType == \A v \in Int : Byte(v) \in Int
BY DEF Byte

\* What the forward searches see is an index of its own, and the vectors of
\* the result are those of index1 and of it.
LEMMA SeenFacts ==
  ASSUME InputsOK, level \in Levels(index2)
  PROVE  /\ WellFormed(Seen2, M) /\ Seen2.data = Vectors(index2, level)
         /\ Levels(Seen2) = Levels(index2) /\ Layer(Seen2, level) = Layer(index2, level)
         /\ Ids(Seen2) = Ids(index2)
         /\ ForwardVectors = MergedData(index1, Seen2) /\ Tops = MergedTops(index1, Seen2)
         /\ DOMAIN ForwardVectors = DOMAIN data /\ ForwardVectors \in [DOMAIN data -> Int]
<1> PICK W : W = Vectors(index2, level)
  OBVIOUS
<1>1. WellFormed(index2, M) /\ IsRecord(index2) /\ WellFormed(index1, M)
  BY DEF InputsOK
<1>2. W \in [Ids(index2) -> Int]
  <2>1. \A n \in Ids(index2) : index2.data[n] \in Int
    BY <1>1 DEF WellFormed
  <2>2. \A n \in Ids(index2) : (IF level = 0 THEN Byte(index2.data[n]) ELSE index2.data[n]) \in Int
    BY <2>1, ByteType
  <2> HIDE DEF Byte
  <2> QED BY <2>2 DEF Vectors
<1>3. /\ WellFormed(Seen2, M) /\ Seen2.data = W
      /\ Seen2.count = index2.count /\ Seen2.element_levels_ = index2.element_levels_
      /\ Seen2.maxlevel_ = index2.maxlevel_
      /\ Ids(Seen2) = Ids(index2) /\ Levels(Seen2) = Levels(index2)
      /\ \A l : Layer(Seen2, l) = Layer(index2, l)
  <2>1. Seen2 = [index2 EXCEPT !.data = W]
    BY DEF Seen2
  <2> QED BY <1>1, <1>2, <2>1, WithVectors
<1>4. ForwardVectors = MergedData(index1, Seen2)
  BY <1>3 DEF ForwardVectors, MergedData, data, off
<1>5. Tops = MergedTops(index1, Seen2)
  BY <1>3 DEF Tops, MergedTops
<1>6. DOMAIN MergedData(index1, Seen2) = DOMAIN data
  BY <1>3 DEF MergedData, data
<1>7. MergedData(index1, Seen2) \in [DOMAIN data -> Int]
  <2> PICK V, T, o : V = MergedData(index1, Seen2) /\ T = MergedTops(index1, Seen2) /\ o = index1.count
    OBVIOUS
  <2>1. V \in [DOMAIN V -> Int]
    BY <1>1, <1>3, PairFacts
  <2> QED BY <1>6, <2>1
<1> QED BY <1>3, <1>4, <1>5, <1>6, <1>7

\* The bytes are the vectors when no coordinate is out of range.
LEMMA ExactVectors ==
  ASSUME InputsOK, level \in Levels(index2), Exact(level)
  PROVE  /\ ForwardVectors = data
         /\ Vectors(index2, level) = index2.data /\ Vectors(index1, level) = index1.data
<1> HIDE DEF data, off, Byte
<1>1. /\ index1.data = [n \in Ids(index1) |-> index1.data[n]]
      /\ index2.data = [n \in Ids(index2) |-> index2.data[n]]
      /\ level \in Nat
  BY DEF InputsOK, WellFormed, Levels
<1>2. /\ \A n \in Ids(index1) : n \in DOMAIN data /\ data[n] = index1.data[n]
      /\ \A j \in Ids(index2) : j + off \in DOMAIN data /\ data[j + off] = index2.data[j] /\ (j + off) - off = j
      /\ data = [n \in DOMAIN data |-> data[n]]
      /\ \A n \in DOMAIN data : n \in Int /\ (n \in Ids(index1) \/ n - off \in Ids(index2))
      /\ off \in Nat
  BY MergedFacts
<1>3. \A n \in Ids(index1) : level = 0 => Byte(index1.data[n]) = index1.data[n]
  BY <1>2 DEF Exact, InBytes
<1>4. \A j \in Ids(index2) : level = 0 => Byte(index2.data[j]) = index2.data[j]
  BY <1>2 DEF Exact, InBytes
<1>5. \A n \in Ids(index2) : (IF level = 0 THEN Byte(index2.data[n]) ELSE index2.data[n]) = index2.data[n]
  BY <1>4
<1>6. \A n \in Ids(index1) : (IF level = 0 THEN Byte(index1.data[n]) ELSE index1.data[n]) = index1.data[n]
  BY <1>3
<1>7. Vectors(index2, level) = index2.data
  BY <1>1, <1>5 DEF Vectors
<1>8. Vectors(index1, level) = index1.data
  BY <1>1, <1>6 DEF Vectors
<1>9. \A n \in DOMAIN data : (IF n < off THEN data[n] ELSE index2.data[n - off]) = data[n]
  <2> SUFFICES ASSUME NEW n \in DOMAIN data, ~ n < off PROVE index2.data[n - off] = data[n]
    OBVIOUS
  <2>1. n \notin Ids(index1)
    BY MergedFacts
  <2>2. n - off \in Ids(index2)
    BY <1>2, <2>1
  <2>3. data[(n - off) + off] = index2.data[n - off] /\ (n - off) + off = n
    BY <1>2, <2>2
  <2> QED BY <2>3
<1>10. ForwardVectors = data
  BY <1>2, <1>7, <1>9 DEF ForwardVectors
<1> QED BY <1>7, <1>8, <1>10

\* A list with the distances a forward search saw is fair.
LEMMA SeenIsFair ==
  ASSUME InputsOK, level \in Levels(index2), NEW n \in DOMAIN data, NEW list,
         GoodList(ForwardVectors, Tops, n, level, list)
  PROVE  IsFair(level, n, list)
<1> PICK V : V = ForwardVectors
  OBVIOUS
<1>1. DOMAIN V = DOMAIN data /\ V \in [DOMAIN data -> Int] /\ DOMAIN data \subseteq Int
  BY SeenFacts, MergedFacts
<1>2. FairList(Exact(level), V, Tops, n, level, list)
  <2>1. DOMAIN V \subseteq Int /\ \A c \in DOMAIN V : V[c] \in Int
    BY <1>1
  <2>2. n \in DOMAIN V /\ GoodList(V, Tops, n, level, list)
    BY <1>1
  <2> HIDE DEF Tops, Exact
  <2> QED BY <2>1, <2>2, GoodIsFair
<1>3. Exact(level) => V = data
  BY ExactVectors
<1> HIDE DEF data, Tops, Exact
<1>4. Exact(level) => GoodList(data, Tops, n, level, list)
  BY <1>2, <1>3 DEF FairList
<1> QED BY <1>1, <1>2, <1>4 DEF FairList, IsFair

\* So is one with true distances.
LEMMA TrueIsFair ==
  ASSUME InputsOK, NEW l, NEW n \in DOMAIN data, NEW list, GoodList(data, Tops, n, l, list)
  PROVE  IsFair(l, n, list)
<1>1. DOMAIN data \subseteq Int /\ \A c \in DOMAIN data : data[c] \in Int
  BY MergedFacts
<1> HIDE DEF data, Tops, Exact
<1> QED BY <1>1, GoodIsFair DEF IsFair

LEMMA GoodSlotIsFair ==
  ASSUME InputsOK, NEW l, NEW n \in DOMAIN data, NEW slot, IsGoodSlot(data, Tops, l, n, slot)
  PROVE  IsFairSlot(l, n, slot)
<1> HIDE DEF data, Tops
<1> QED BY TrueIsFair DEF IsGoodSlot, IsFairSlot

\* Two fair lists in one, whatever vectors selection compared
LEMMA FairlyConnected ==
  ASSUME InputsOK, NEW l \in Nat, NEW n \in DOMAIN data, NEW A, NEW B, IsFair(l, n, A), IsFair(l, n, B),
         NEW W, NEW new, new = Connected(A, B, W, l)
  PROVE  IsFair(l, n, new) /\ Cardinality(DOMAIN new) <= Mcurmax(M, l)
<1>1. IsFiniteSet(DOMAIN data) /\ DOMAIN data \subseteq Int
  BY MergedFacts
<1> HIDE DEF data, Tops, Exact
<1> QED BY <1>1, ConnectedFair DEF IsFair

\* A fair list within the bound makes a slot.
LEMMA FairSlotFacts ==
  ASSUME InputsOK, NEW l \in Nat, NEW n, NEW list, IsFair(l, n, list),
         Cardinality(DOMAIN list) <= Mcurmax(M, l)
  PROVE  Slot(list) \in AnySlot /\ IsFairSlot(l, n, Slot(list))
<1>1. list \in Lists(DOMAIN data) /\ DOMAIN list \subseteq DOMAIN data
  BY ListFacts DEF IsFair, FairList
<1>2. Cardinality(DOMAIN list) \in Nat
  BY <1>1, MergedFacts, FS_Subset, FS_CardinalityType
<1> HIDE DEF data
<1> QED BY <1>1, <1>2 DEF Slot, AnySlot, IsFairSlot

-------------------------------------------------------------------------------
(* The invariant holds *)

LEMMA Init2GInv == Init => Inv2G
<1> SUFFICES ASSUME Init PROVE Inv2G
  OBVIOUS
<1>1. InputsOK
  BY DiskAssumption DEF Init, InputsOK
<1> QED BY <1>1 DEF Init, Inv2G, Untouched

\* Once the merged file exists
LEMMA UnderwayFacts ==
  ASSUME Inv2G, pc \notin {"start", "refused"}
  PROVE  /\ Underway /\ InputsOK /\ missed = {} /\ TypesOK /\ MemoryOK
         /\ FileOK /\ ForwardOK /\ CandidatesOK /\ BackwardOK /\ FitsOK /\ CacheOK
         /\ index1.maxlevel_ <= index2.maxlevel_
         /\ pc # "done" => level \in Levels(index2) /\ level \in Nat
<1>1. Underway /\ InputsOK /\ missed = {}
  BY DEF Inv2G, Untouched
<1>2. /\ TypesOK /\ MemoryOK /\ FileOK /\ ForwardOK /\ CandidatesOK /\ BackwardOK /\ FitsOK /\ CacheOK
      /\ index1.maxlevel_ <= index2.maxlevel_
  BY <1>1 DEF Underway
<1>3. pc # "done" => level \in Levels(index2)
  BY <1>2 DEF TypesOK
<1>4. Levels(index2) \subseteq Nat
  BY <1>1 DEF InputsOK, WellFormed, Levels
<1> QED BY <1>1, <1>2, <1>3, <1>4

LEMMA ThrowWrongCaseInv == Inv2G /\ ThrowWrongCase => Inv2G'
<1> SUFFICES ASSUME Inv2G, ThrowWrongCase PROVE Inv2G'
  OBVIOUS
<1>1. Untouched
  BY DEF Inv2G, Underway, TypesOK, ThrowWrongCase
<1>2. InputsOK'
  BY DEF Inv2G, InputsOK, ThrowWrongCase, Smaller, Larger
<1>3. Untouched'
  BY <1>1 DEF Untouched, ThrowWrongCase, memory
<1>4. missed' = {}
  BY DEF Inv2G, ThrowWrongCase
<1> QED BY <1>2, <1>3, <1>4 DEF Inv2G

\* The file as it was copied holds what the invariant asks of it.
Copied ==
  /\ InputsOK /\ index1.maxlevel_ <= index2.maxlevel_ /\ file = CopiedFile(index1, index2)
  /\ level = index2.maxlevel_
FileThere == file \in [Levels(index2) -> [DOMAIN data -> AnySlot]] /\ FileOK

LEMMA CopiedFileOK == Copied => FileThere
<1> SUFFICES ASSUME Copied PROVE FileThere
  OBVIOUS
<1>1. /\ file \in [Levels(index2) -> [DOMAIN data -> AnySlot]]
      /\ \A l \in Levels(index2) :
           /\ \A n \in Ids(index1) : IsGoodSlot(data, Tops, l, n, file[l][n])
           /\ \A j \in Ids(index2) \ Layer(index2, l) :
                IsGoodSlot(data, Tops, l, j + off, file[l][j + off])
  BY CopiedFacts DEF Copied
<1>2. \A l \in Levels(index2) : ~ level < l
  BY DEF Copied, Levels, InputsOK, WellFormed
<1>3. ASSUME NEW l \in Levels(index2), NEW n \in Ids(index1) PROVE FairSlot(l, n)
  <2>1. n \in DOMAIN data /\ IsGoodSlot(data, Tops, l, n, file[l][n])
    BY <1>1, MergedFacts DEF Copied
  <2> QED BY <2>1, GoodSlotIsFair DEF Copied, FairSlot
<1>4. ASSUME NEW l \in Levels(index2), NEW j \in Ids(index2) \ Layer(index2, l)
      PROVE  FairSlot(l, j + off)
  <2>1. j + off \in DOMAIN data /\ IsGoodSlot(data, Tops, l, j + off, file[l][j + off])
    BY <1>1, MergedFacts DEF Copied
  <2> PICK o : o = j + off
    OBVIOUS
  <2>2. o \in DOMAIN data /\ IsGoodSlot(data, Tops, l, o, file[l][o])
    BY <2>1
  <2>3. FairSlot(l, o)
    BY <2>2, GoodSlotIsFair DEF Copied, FairSlot
  <2> QED BY <2>3
<1> QED BY <1>1, <1>2, <1>3, <1>4 DEF FileThere, FileOK

LEMMA PrepareInv == Inv2G /\ Prepare => Inv2G'
<1> SUFFICES ASSUME Inv2G, Prepare PROVE Inv2G'
  OBVIOUS
<1>1. Untouched
  BY DEF Inv2G, Underway, TypesOK, Prepare
<1> PICK jx1, jx2 : jx1 = Smaller /\ jx2 = Larger
  OBVIOUS
<1>2. /\ index1' = jx1 /\ index2' = jx2 /\ pc' = "level" /\ level' = jx2.maxlevel_
      /\ jx2.maxlevel_ >= jx1.maxlevel_ /\ file' = CopiedFile(jx1, jx2)
      /\ ep' = [n \in Ids(jx1) |-> NoEntry]
      /\ b' = 0 /\ i' = 0 /\ cands' = <<>> /\ missed' = {}
      /\ lists1' = <<>> /\ lists2' = <<>> /\ dists2' = {}
      /\ recent1' = <<>> /\ order2' = <<>> /\ cache' = <<>> /\ bytes' = {}
  BY <1>1 DEF Prepare, Untouched, memory, Inv2G
<1>3. InputsOK' /\ WellFormed(jx1, M) /\ WellFormed(jx2, M)
  BY <1>2 DEF Inv2G, InputsOK, Smaller, Larger
<1>4. index1'.maxlevel_ <= index2'.maxlevel_ /\ level' \in Levels(jx2) /\ level' \in Nat
  BY <1>2, <1>3 DEF WellFormed, Levels
<1>5. FileThere'
  <2>1. Copied'
    BY <1>2, <1>3, <1>4 DEF Copied
  <2> QED BY <2>1, CopiedFileOK, PTL
<1>6. TypesOK'
  <2>1. ep' \in [Ids(jx1) -> {NoEntry} \cup Layer(jx2, level')]
    BY <1>2
  <2> QED BY <1>2, <1>4, <1>5, <2>1 DEF TypesOK, FileThere
<1>7. MemoryOK' /\ FitsOK' /\ CacheOK'
  <2>1. DOMAIN lists1' = {} /\ DOMAIN lists2' = {} /\ DOMAIN cache' = {}
    BY <1>2
  <2>2. cache' = [m \in DOMAIN cache' |-> cache'[m]]
    BY <1>2
  <2> QED BY <1>2, <2>1, <2>2 DEF MemoryOK, FitsOK, CacheOK
<1>8. ForwardOK' /\ CandidatesOK' /\ BackwardOK'
  BY <1>2 DEF ForwardOK, CandidatesOK, BackwardOK
<1>9. Underway'
  BY <1>2, <1>4, <1>5, <1>6, <1>7, <1>8 DEF Underway, FileThere
<1> QED BY <1>2, <1>3, <1>9 DEF Inv2G

\* What is fair stays so.
LEMMA SameVectors ==
  ASSUME UNCHANGED <<index1, index2>>
  PROVE  /\ data' = data /\ Tops' = Tops /\ off' = off /\ AnySlot' = AnySlot
         /\ \A l : Exact(l)' <=> Exact(l)
         /\ \A l, n, slot : IsFairSlot(l, n, slot)' <=> IsFairSlot(l, n, slot)
         /\ UNCHANGED level => ForwardVectors' = ForwardVectors
<1>1. data' = data /\ Tops' = Tops /\ off' = off /\ AnySlot' = AnySlot
  BY SameInputs DEF AnySlot
<1> HIDE DEF data, Tops, off, AnySlot
<1>2. \A l : Exact(l)' <=> Exact(l)
  BY <1>1 DEF Exact, InBytes
<1>3. \A l, n, slot : IsFairSlot(l, n, slot)' <=> IsFairSlot(l, n, slot)
  BY <1>1 DEF Exact, InBytes, IsFairSlot, IsFair
<1>4. UNCHANGED level => ForwardVectors' = ForwardVectors
  BY <1>1 DEF ForwardVectors, Vectors
<1> QED BY <1>1, <1>2, <1>3, <1>4

LEMMA SameFairSlot ==
  ASSUME UNCHANGED <<index1, index2>>, NEW l, NEW n, file'[l][n] = file[l][n], FairSlot(l, n)
  PROVE  FairSlot(l, n)'
<1> PICK slot : slot = file[l][n]
  OBVIOUS
<1>1. IsFairSlot(l, n, slot)' <=> IsFairSlot(l, n, slot)
  BY SameVectors
<1> QED BY <1>1 DEF FairSlot, IsFairSlot

LEMMA SameFairSlot2 ==
  ASSUME UNCHANGED <<index1, index2>>, NEW l, NEW j, file'[l][j + off] = file[l][j + off],
         FairSlot(l, j + off)
  PROVE  FairSlot(l, j + off)'
<1>1. off' = off
  BY SameInputs
<1> PICK o : o = off
  OBVIOUS
<1> PICK n : n = j + o
  OBVIOUS
<1>2. file'[l][n] = file[l][n] /\ FairSlot(l, n)
  OBVIOUS
<1>3. FairSlot(l, n)'
  BY <1>2, SameFairSlot
<1> HIDE DEF off
<1> QED BY <1>1, <1>3 DEF FairSlot

LEMMA SameFairRanks ==
  ASSUME UNCHANGED <<index1, index2, file, level>>,
         \A j \in Layer(index2, level) : Rank(j) < Position2' => FairSlot(level, j + off)
  PROVE  \A j \in Layer(index2, level)' : Rank(j)' < Position2' => FairSlot(level, j + off)'
<1>1. \A j \in Layer(index2, level) : Rank(j)' = Rank(j)
  BY DEF Rank
<1> SUFFICES ASSUME NEW j \in Layer(index2, level), Rank(j) < Position2'
             PROVE  FairSlot(level, j + off)'
  BY <1>1
<1>2. FairSlot(level, j + off)
  OBVIOUS
<1> PICK l : l = level
  OBVIOUS
<1>3. FairSlot(l, j + off)'
  BY <1>2, SameFairSlot2
<1> QED BY <1>3 DEF FairSlot

LEMMA SameFile ==
  ASSUME FileOK, UNCHANGED <<index1, index2, file, level>>
  PROVE  FileOK'
<1>1. Layer(index2, level)' = Layer(index2, level)
  OBVIOUS
<1> SUFFICES ASSUME NEW l \in Levels(index2)
             PROVE  /\ \A n \in Ids(index1) : FairSlot(l, n)'
                    /\ \A j \in Ids(index2) :
                         j \notin Layer(index2, l) \/ level < l => FairSlot(l, j + off)'
  BY SameInputs DEF FileOK
<1>2. ASSUME NEW n \in Ids(index1) PROVE FairSlot(l, n)'
  BY SameFairSlot DEF FileOK
<1>3. ASSUME NEW j \in Ids(index2), j \notin Layer(index2, l) \/ level < l
      PROVE  FairSlot(l, j + off)'
  BY <1>3, SameFairSlot2 DEF FileOK
<1> QED BY <1>2, <1>3

\* What a step of a merged level has to keep, said of the same merged index
LEMMA StepCore ==
  ASSUME Inv2G, pc \in {"batch1", "forward", "batch2", "backward"},
         pc' \in {"batch1", "forward", "batch2", "backward", "end of file", "slice count mismatch",
                 "key not found"},
         UNCHANGED <<index1, index2, level>>, missed' = {},
         file' \in [Levels(index2) -> [DOMAIN data -> AnySlot]],
         \A l \in Levels(index2), n \in DOMAIN data : FairSlot(l, n) => IsFairSlot(l, n, file'[l][n]),
         ep' \in [Ids(index1) -> {NoEntry} \cup Layer(index2, level)],
         cands' \in [Ids(index2) -> Lists(Ids(index1))],
         \A j \in Ids(index2) : GoodList(ForwardVectors, Tops, j + off, level, cands'[j]),
         b' \in Nat, i' \in Nat, MemoryOK', ForwardOK', BackwardOK', FitsOK', CacheOK'
  PROVE  Inv2G'
<1>1. InputsOK /\ FileOK /\ level \in Levels(index2) /\ index1.maxlevel_ <= index2.maxlevel_
  BY UnderwayFacts
<1>2. InputsOK'
  BY <1>1 DEF InputsOK
<1>3. /\ data' = data /\ AnySlot' = AnySlot /\ Tops' = Tops /\ off' = off
      /\ ForwardVectors' = ForwardVectors
      /\ \A l, n, slot : IsFairSlot(l, n, slot)' <=> IsFairSlot(l, n, slot)
  BY SameVectors
<1>4. FileOK'
  <2>1. ASSUME NEW l \in Levels(index2), NEW n \in DOMAIN data, FairSlot(l, n)
        PROVE  FairSlot(l, n)'
    <3> PICK slot : slot = file'[l][n]
      OBVIOUS
    <3>1. IsFairSlot(l, n, slot)
      BY <2>1
    <3>2. IsFairSlot(l, n, slot)'
      BY <1>3, <3>1
    <3> QED BY <3>2 DEF FairSlot, IsFairSlot
  <2> SUFFICES ASSUME NEW l \in Levels(index2)
               PROVE  /\ \A n \in Ids(index1) : FairSlot(l, n)'
                      /\ \A j \in Ids(index2) :
                           j \notin Layer(index2, l) \/ level < l => FairSlot(l, j + off)'
    BY <1>3 DEF FileOK
  <2>2. \A n \in Ids(index1) : n \in DOMAIN data /\ FairSlot(l, n)
    BY <1>1, MergedFacts DEF FileOK
  <2>3. ASSUME NEW j \in Ids(index2), j \notin Layer(index2, l) \/ level < l
        PROVE  FairSlot(l, j + off)'
    <3> PICK o : o = j + off
      OBVIOUS
    <3>1. o \in DOMAIN data /\ FairSlot(l, o)
      BY <1>1, <2>3, MergedFacts DEF FileOK
    <3>2. FairSlot(l, o)'
      BY <2>1, <3>1
    <3> HIDE DEF off, data
    <3> QED BY <1>3, <3>2 DEF FairSlot
  <2> QED BY <2>1, <2>2, <2>3
<1> HIDE DEF AnySlot, data, Tops, off
<1>5. TypesOK'
  <2>1. level' \in IF pc' = "done" THEN {-1} ELSE Levels(index2')
    BY <1>1
  <2>2. file' \in [Levels(index2') -> [DOMAIN data' -> AnySlot']]
    BY <1>3
  <2>3. /\ ep' \in [Ids(index1') -> {NoEntry} \cup Layer(index2', level')]
        /\ cands' \in [Ids(index2') -> Lists(Ids(index1'))]
    OBVIOUS
  <2> QED BY <2>1, <2>2, <2>3 DEF TypesOK
<1>6. CandidatesOK'
  BY <1>1, <1>3 DEF CandidatesOK
<1>7. Underway'
  BY <1>1, <1>2, <1>4, <1>5, <1>6 DEF Underway
<1> QED BY <1>2, <1>7 DEF Inv2G

\* A step that only reads or frees
LEMMA SameCore ==
  ASSUME Inv2G, pc \in {"batch1", "forward", "batch2", "backward"},
         pc' \in {"batch1", "forward", "batch2", "backward", "end of file", "slice count mismatch",
                 "key not found"},
         UNCHANGED <<index1, index2, file, level, ep, cands, missed>>,
         b' \in Nat, i' \in Nat, MemoryOK', ForwardOK', BackwardOK', FitsOK', CacheOK'
  PROVE  Inv2G'
<1>1. TypesOK /\ CandidatesOK /\ missed = {} /\ level \in Levels(index2)
  BY UnderwayFacts
<1>2. /\ file' \in [Levels(index2) -> [DOMAIN data -> AnySlot]]
      /\ ep' \in [Ids(index1) -> {NoEntry} \cup Layer(index2, level)] /\ missed' = {}
  BY <1>1 DEF TypesOK
<1>3. /\ cands' \in [Ids(index2) -> Lists(Ids(index1))]
      /\ \A j \in Ids(index2) : GoodList(ForwardVectors, Tops, j + off, level, cands'[j])
  BY <1>1 DEF CandidatesOK
<1>4. \A l \in Levels(index2), n \in DOMAIN data : FairSlot(l, n) => IsFairSlot(l, n, file'[l][n])
  BY DEF FairSlot
<1> QED BY <1>2, <1>3, <1>4, StepCore

\* A level begins with its candidates empty.
LEMMA StartLevelInv ==
  ASSUME Inv2G, pc = "level", StartLevel, bytes' \subseteq {1, 2}, level = 0 => 2 \in bytes',
         level > 0 => Cardinality(Layer(index2, level)) <= CacheLimit
  PROVE  Inv2G'
<1>1. /\ lists2' = ReadLists(index2, Layer(index2, level)) /\ dists2' = {}
      /\ cands' = [n \in Ids(index2) |-> <<>>] /\ b' = 0 /\ pc' = "batch1"
      /\ UNCHANGED <<index1, index2, file, level, i, ep, lists1, order2, cache, missed>>
  BY DEF StartLevel
<1>2. /\ InputsOK /\ missed = {} /\ TypesOK /\ MemoryOK /\ FileOK /\ CacheOK
      /\ level \in Levels(index2) /\ level \in Nat /\ index1.maxlevel_ <= index2.maxlevel_
  BY UnderwayFacts
<1>3. InputsOK' /\ missed' = {} /\ FileOK'
  BY <1>1, <1>2, SameFile DEF InputsOK
<1>4. \A j \in Ids(index2) : cands'[j] \in Lists(Ids(index1))
  <2>1. <<>> \in Lists(Ids(index1))
    <3>1. <<>> \in [{} -> Int]
      OBVIOUS
    <3> QED BY <3>1, ListFacts
  <2> QED BY <1>1, <2>1
<1>5. data' = data /\ AnySlot' = AnySlot /\ Tops' = Tops /\ off' = off /\ ForwardVectors' = ForwardVectors
  BY <1>1, SameVectors
<1>6. cands' \in [Ids(index2) -> Lists(Ids(index1))]
  BY <1>1, <1>4
<1>7. TypesOK'
  <2> HIDE DEF AnySlot, data
  <2> QED BY <1>1, <1>2, <1>5, <1>6 DEF TypesOK
<1>8. MemoryOK'
  <2>1. DOMAIN lists2' = Layer(index2, level) /\ Layer(index2, level) \subseteq Ids(index2)
    BY <1>1 DEF ReadLists, Layer
  <2> QED BY <1>1, <1>2, <2>1 DEF MemoryOK
<1>9. ForwardOK' /\ BackwardOK' /\ FitsOK' /\ CacheOK'
  BY <1>1, <1>2 DEF ForwardOK, BackwardOK, ReadLists, FitsOK, CacheOK
<1>10. CandidatesOK'
  <2>1. \A j \in Ids(index2) : GoodList(ForwardVectors, Tops, j + off, level, cands'[j])
    BY <1>1, EmptyListGood
  <2> HIDE DEF data, Tops, off, ForwardVectors
  <2> QED BY <1>1, <1>5, <1>6, <2>1 DEF CandidatesOK
<1>11. Underway'
  BY <1>1, <1>2, <1>3, <1>7, <1>8, <1>9, <1>10 DEF Underway
<1> QED BY <1>3, <1>11 DEF Inv2G

LEMMA LoadLevelInv == Inv2G /\ (LoadLevel \/ LoadLevel0) => Inv2G'
<1> SUFFICES ASSUME Inv2G, LoadLevel \/ LoadLevel0 PROVE Inv2G'
  OBVIOUS
<1>1. pc = "level" /\ StartLevel /\ level \in Nat /\ bytes' \subseteq {1, 2}
  BY UnderwayFacts DEF LoadLevel, LoadLevel0
<1>2. level = 0 => 2 \in bytes'
  BY DEF LoadLevel, LoadLevel0
<1>3. level > 0 => Cardinality(Layer(index2, level)) <= CacheLimit
  <2>1. CASE level = 0
    BY <2>1
  <2>2. CASE level > 0 /\ LoadLevel
    <3>1. Cardinality(Layer(index2, level)) \in Nat /\ CacheLimit \in Nat
      BY <1>1, UnderwayFacts, LevelFacts, BatchAssumption DEF InputsOK
    <3> QED BY <2>2, <3>1 DEF LoadLevel, FilterFails
  <2> QED BY <1>1, <2>1, <2>2 DEF LoadLevel, LoadLevel0
<1> QED BY <1>1, <1>2, <1>3, StartLevelInv

LEMMA LoadLevelFailsInv == Inv2G /\ LoadLevelFails => Inv2G'
<1> SUFFICES ASSUME Inv2G, LoadLevelFails PROVE Inv2G'
  OBVIOUS
<1>1. /\ pc = "level" /\ pc' = "too many for the cache"
      /\ UNCHANGED <<index1, index2, file, level, b, i, ep, cands, lists1, lists2, dists2,
                     order2, cache, bytes, missed>>
  BY DEF LoadLevelFails, Fails, memory
<1>2. /\ InputsOK /\ missed = {} /\ TypesOK /\ MemoryOK /\ FileOK /\ CacheOK
      /\ level \in Levels(index2) /\ index1.maxlevel_ <= index2.maxlevel_
  BY <1>1, UnderwayFacts
<1>3. InputsOK' /\ missed' = {} /\ FileOK'
  BY <1>1, <1>2, SameFile DEF InputsOK
<1>4. data' = data /\ AnySlot' = AnySlot
  BY <1>1, SameVectors
<1>5. TypesOK'
  <2> HIDE DEF AnySlot, data
  <2> QED BY <1>1, <1>2, <1>4 DEF TypesOK
<1>6. MemoryOK' /\ ForwardOK' /\ CandidatesOK' /\ BackwardOK' /\ FitsOK' /\ CacheOK'
  BY <1>1, <1>2 DEF MemoryOK, ForwardOK, CandidatesOK, BackwardOK, FitsOK, CacheOK
<1>7. Underway'
  BY <1>1, <1>2, <1>3, <1>5, <1>6 DEF Underway
<1> QED BY <1>3, <1>7 DEF Inv2G

LEMMA LoadBatch1Inv == Inv2G /\ LoadBatch1 => Inv2G'
<1> SUFFICES ASSUME Inv2G, LoadBatch1 PROVE Inv2G'
  OBVIOUS
<1>1. /\ pc = "batch1" /\ b < index1.count
      /\ lists1' = ReadLists(index1, Window1 \cap Layer(index1, level))
      /\ i' = b /\ pc' = "forward"
      /\ UNCHANGED <<index1, index2, file, level, b, ep, cands, lists2, dists2, order2, cache,
                     bytes, missed>>
  BY DEF LoadBatch1
<1>2. /\ TypesOK /\ MemoryOK /\ ForwardOK /\ FitsOK /\ CacheOK /\ b \in Nat /\ index1.count \in Nat
  BY <1>1, UnderwayFacts DEF TypesOK, InputsOK, WellFormed
<1>3. i' \in b .. Lower(b + BatchSize, index1.count) /\ Window1 \subseteq Ids(index1)
  <2>1. i' \in b .. Lower(b + BatchSize, index1.count)
    BY <1>1, <1>2, BatchAssumption, WindowFacts
  <2>2. \A k \in Window1 : k \in Nat /\ k < index1.count
    BY <1>2, BatchAssumption, WindowFacts DEF Window1
  <2> QED BY <1>2, <2>1, <2>2 DEF Ids
<1>4. Window1' = Window1
  BY <1>1 DEF Window1, Window
<1>5. ForwardOK'
  <2>1. lists1' = ReadLists(index1, Window1 \cap Layer(index1, level))'
    BY <1>1, <1>4 DEF ReadLists
  <2>2. lists2' = ReadLists(index2, Layer(index2, level))'
    BY <1>1, <1>2 DEF ReadLists, ForwardOK
  <2> QED BY <1>1, <1>2, <1>3, <1>4, <2>1, <2>2 DEF ForwardOK
<1>6. BackwardOK' /\ FitsOK' /\ CacheOK'
  BY <1>1, <1>2 DEF BackwardOK, FitsOK, CacheOK
<1>7. MemoryOK'
  BY <1>1, <1>2, <1>3 DEF MemoryOK, ReadLists
<1>8. i' \in Nat /\ b' \in Nat
  BY <1>1, <1>2
<1> QED BY <1>1, <1>5, <1>6, <1>7, <1>8, SameCore

\* The steps that give up
LEMMA FailsInv ==
  ASSUME Inv2G, pc \in {"batch1", "forward", "batch2"},
         NEW reason \in {"end of file", "slice count mismatch", "key not found"}, Fails(reason)
  PROVE  Inv2G'
<1>1. /\ pc' = reason
      /\ UNCHANGED <<index1, index2, file, level, b, i, ep, cands, lists1, lists2, dists2,
                     order2, cache, bytes, missed>>
  BY DEF Fails, memory
<1>2. TypesOK /\ MemoryOK /\ CacheOK
  BY UnderwayFacts
<1>3. MemoryOK' /\ ForwardOK' /\ BackwardOK' /\ FitsOK' /\ CacheOK'
  BY <1>1, <1>2 DEF MemoryOK, ForwardOK, BackwardOK, FitsOK, CacheOK
<1>4. i' \in Nat /\ b' \in Nat
  BY <1>1, <1>2 DEF TypesOK
<1> QED BY <1>1, <1>3, <1>4, SameCore

LEMMA GivingUpInv ==
  Inv2G /\ (LoadBatch1Fails \/ LoadBatch2Fails \/ TurnBackFails \/ KeyNotFound) => Inv2G'
BY FailsInv DEF LoadBatch1Fails, LoadBatch2Fails, TurnBackFails, KeyNotFound

LEMMA EndBatch1Inv == Inv2G /\ EndBatch1 => Inv2G'
<1> SUFFICES ASSUME Inv2G, EndBatch1 PROVE Inv2G'
  OBVIOUS
<1>1. /\ pc = "forward" /\ pc' = "batch1" /\ cache' = <<>> /\ lists1' = <<>>
      /\ b' = b + BatchSize
      /\ UNCHANGED <<index1, index2, file, level, i, ep, cands, lists2, dists2, order2, bytes, missed>>
  BY DEF EndBatch1
<1>2. TypesOK /\ MemoryOK /\ ForwardOK /\ FitsOK
  BY <1>1, UnderwayFacts
<1>3. ForwardOK' /\ BackwardOK' /\ FitsOK'
  BY <1>1, <1>2 DEF ForwardOK, BackwardOK, ReadLists, FitsOK
<1>4. DOMAIN cache' = {} /\ cache' = [m \in DOMAIN cache' |-> cache'[m]] /\ DOMAIN lists1' = {}
  BY <1>1
<1>5. CacheOK' /\ MemoryOK'
  BY <1>1, <1>2, <1>4 DEF CacheOK, MemoryOK
<1>6. i' \in Nat /\ b' \in Nat
  BY <1>1, <1>2, BatchAssumption DEF TypesOK
<1> QED BY <1>1, <1>3, <1>5, <1>6, SameCore

LEMMA TurnBackInv == Inv2G /\ (TurnBack \/ TurnBack0) => Inv2G'
<1> SUFFICES ASSUME Inv2G, TurnBack \/ TurnBack0 PROVE Inv2G'
  OBVIOUS
<1>1. /\ pc = "batch1" /\ pc' = "batch2" /\ b' = 0
      /\ level > 0 => dists2' = Layer(index2, level) /\ UNCHANGED <<lists2, bytes>>
      /\ level = 0 => lists2' = <<>> /\ dists2' = {} /\ bytes' = {1, 2}
      /\ UNCHANGED <<index1, index2, file, level, i, ep, cands, lists1, order2, cache, missed>>
  BY DEF TurnBack, TurnBack0
<1>2. /\ TypesOK /\ MemoryOK /\ ForwardOK /\ FitsOK /\ CacheOK /\ InputsOK
      /\ level \in Levels(index2) /\ level \in Nat
  BY <1>1, UnderwayFacts
<1>3. ForwardOK' /\ FitsOK' /\ CacheOK'
  BY <1>1, <1>2 DEF ForwardOK, FitsOK, CacheOK
<1>4. BackwardOK'
  <2>1. \A j \in Layer(index2, level) : ~ Rank(j) < Position2'
    BY <1>1, <1>2, RankType DEF Position2
  <2>2. \A j \in Layer(index2, level)' : Rank(j)' < Position2' => FairSlot(level, j + off)'
    BY <1>1, <2>1, SameFairRanks
  <2>3. level > 0 => lists2' = ReadLists(index2, Layer(index2, level))' /\ dists2' = Layer(index2, level)'
    BY <1>1, <1>2 DEF ForwardOK, ReadLists
  <2> QED BY <1>1, <2>2, <2>3 DEF BackwardOK
<1>5. MemoryOK'
  <2>1. Layer(index2, level) \subseteq Ids(index2) /\ (level = 0 => DOMAIN lists2' = {})
    BY <1>1 DEF Layer
  <2>2. level > 0 \/ level = 0
    BY <1>2
  <2> QED BY <1>1, <1>2, <2>1, <2>2 DEF MemoryOK
<1>6. i' \in Nat /\ b' \in Nat
  BY <1>1, <1>2 DEF TypesOK
<1> QED BY <1>1, <1>3, <1>4, <1>5, <1>6, SameCore

-------------------------------------------------------------------------------
(* The buffer of index2 and the pushes from it *)

\* Functions from the ids of some elements to what lies in a buffer
Caches(R) == UNION {[T -> R] : T \in SUBSET Int}

LEMMA CacheFacts ==
  ASSUME NEW R
  PROVE  /\ \A h \in Caches(R) : DOMAIN h \subseteq Int /\ h \in [DOMAIN h -> R]
         /\ \A h, T : T \subseteq Int /\ h \in [T -> R] => h \in Caches(R)
BY DEF Caches

\* The buffer holds the vector of an element.
Holds(positions, n) == \E k \in DOMAIN positions : positions[k] = n

\* Loading an element leaves the positions of those that are there alone.
LEMMA LoadedFacts ==
  ASSUME NEW S, NEW positions \in Seq(S), NEW n \in S
  PROVE  /\ Loaded(positions, n) \in Seq(S) /\ Holds(Loaded(positions, n), n)
         /\ Holds(positions, n) => Loaded(positions, n) = positions
<1>1. CASE Holds(positions, n)
  BY <1>1 DEF Loaded, Holds
<1>2. CASE ~ Holds(positions, n)
  <2>1. Loaded(positions, n) = Append(positions, n)
    BY <1>2 DEF Loaded, Holds
  <2>2. /\ Append(positions, n) \in Seq(S) /\ Len(positions) + 1 \in DOMAIN Append(positions, n)
        /\ Append(positions, n)[Len(positions) + 1] = n
    OBVIOUS
  <2> QED BY <1>2, <2>1, <2>2 DEF Holds
<1> QED BY <1>1, <1>2

\* A batch is loaded one element after the other.
LEMMA LoadedAllFacts ==
  ASSUME NEW S, NEW positions \in Seq(S), NEW s \in Seq(S)
  PROVE  /\ LoadedAll(positions, s) \in Seq(S)
         /\ positions = <<>> /\ (\A x, y \in DOMAIN s : s[x] = s[y] => x = y) =>
              LoadedAll(positions, s) = s
<1> DEFINE N == Len(s)
           next(p, k) == Loaded(p, s[k])
           F == [p \in (1 .. N) \X Seq(S) |-> next(p[2], p[1])]
           eq(g) == g = [k \in 0 .. N |-> IF k = 0 THEN positions ELSE next(g[k - 1], k)]
<1>1. N \in Nat /\ \A k \in 1 .. N : s[k] \in S
  OBVIOUS
<1> HIDE DEF N
<1>2. ASSUME NEW k \in 1 .. N, NEW p \in Seq(S) PROVE next(p, k) \in Seq(S)
  BY <1>1, LoadedFacts
<1>3. PICK g : g \in [0 .. N -> Seq(S)] /\ eq(g)
  <2>1. IsStep(F, N, Seq(S))
    <3> HIDE DEF next
    <3> QED BY <1>2 DEF IsStep
  <2>2. PICK g : IsMadeBy(g, F, N, Seq(S), positions)
    <3> HIDE DEF F
    <3> QED BY <1>1, <2>1, PrimitiveRecursion
  <2>3. ASSUME NEW k \in 0 .. N PROVE g[k] = IF k = 0 THEN positions ELSE next(g[k - 1], k)
    <3>1. CASE k = 0
      <4> HIDE DEF F
      <4> QED BY <2>2, <3>1 DEF IsMadeBy
    <3>2. CASE k # 0
      <4>1. k \in 1 .. N /\ k - 1 \in 0 .. N
        BY <1>1, <3>2
      <4>2. g[k - 1] \in Seq(S) /\ g[k] = F[<<k, g[k - 1]>>]
        <5> HIDE DEF F
        <5> QED BY <2>2, <3>2, <4>1 DEF IsMadeBy
      <4>3. F[<<k, g[k - 1]>>] = next(g[k - 1], k)
        <5> HIDE DEF next
        <5> QED BY <4>1, <4>2
      <4> HIDE DEF next, F
      <4> QED BY <3>2, <4>2, <4>3
    <3> QED BY <3>1, <3>2
  <2>4. g = [k \in 0 .. N |-> g[k]] /\ g \in [0 .. N -> Seq(S)]
    <3> HIDE DEF F
    <3> QED BY <2>2 DEF IsMadeBy
  <2> HIDE DEF next
  <2> QED BY <2>3, <2>4
<1>4. PICK f : eq(f) /\ LoadedAll(positions, s) = f[N]
  <2>1. eq(CHOOSE g2 : eq(g2))
    BY <1>3
  <2>2. LoadedAll(positions, s) = (CHOOSE g2 : eq(g2))[N]
    BY Zenon DEF LoadedAll, next, N
  <2> QED BY <2>1, <2>2
<1> HIDE DEF next
<1>5. ASSUME NEW k \in 0 .. N PROVE f[k] = IF k = 0 THEN positions ELSE next(f[k - 1], k)
  BY <1>4
<1>6. f[0] = positions /\ \A k \in Nat : k + 1 <= N => f[k + 1] = next(f[k], k + 1)
  <2>1. 0 \in 0 .. N
    BY <1>1
  <2>2. ASSUME NEW k \in Nat, k + 1 <= N PROVE f[k + 1] = next(f[k], k + 1)
    <3>1. k + 1 \in 0 .. N /\ k + 1 # 0 /\ (k + 1) - 1 = k
      BY <1>1, <2>2
    <3> QED BY <1>5, <3>1
  <2> QED BY <1>5, <2>1, <2>2
<1>7. f[N] \in Seq(S)
  <2> DEFINE T == {k \in Nat : k <= N => f[k] \in Seq(S)}
  <2>1. 0 \in T
    BY <1>6
  <2>2. ASSUME NEW k \in Nat, k \in T PROVE k + 1 \in T
    <3> SUFFICES ASSUME k + 1 <= N PROVE f[k + 1] \in Seq(S)
      OBVIOUS
    <3>1. k + 1 \in 1 .. N /\ k <= N
      BY <1>1
    <3> QED BY <1>2, <1>6, <2>2, <3>1
  <2>3. \A k \in Nat : k \in T
    <3> HIDE DEF T
    <3> QED BY <2>1, <2>2, SetInduction
  <2> QED BY <1>1, <2>3
<1>8. ASSUME positions = <<>>, \A x, y \in DOMAIN s : s[x] = s[y] => x = y
      PROVE  f[N] = s
  <2> DEFINE part(k) == [x \in 1 .. k |-> s[x]]
             T == {k \in Nat : k <= N => f[k] = part(k)}
  <2>1. 0 \in T
    BY <1>6, <1>8
  <2>2. ASSUME NEW k \in Nat, k \in T PROVE k + 1 \in T
    <3> SUFFICES ASSUME k + 1 <= N PROVE f[k + 1] = part(k + 1)
      OBVIOUS
    <3>1. k + 1 \in 1 .. N /\ k <= N /\ \A x \in 1 .. k : x \in 1 .. N /\ x # k + 1
      BY <1>1
    <3>2. part(k) \in Seq(S) /\ Len(part(k)) = k /\ DOMAIN part(k) = 1 .. k
      BY <1>1, <3>1
    <3>3. ~ \E x \in DOMAIN part(k) : part(k)[x] = s[k + 1]
      <4>1. \A x \in 1 .. k : s[x] # s[k + 1]
        BY <1>1, <1>8, <3>1 DEF N
      <4> QED BY <3>2, <4>1
    <3>4. f[k + 1] = Append(part(k), s[k + 1])
      <4>1. f[k + 1] = Loaded(part(k), s[k + 1])
        BY <1>6, <2>2, <3>1 DEF next
      <4> HIDE DEF part
      <4> QED BY <3>3, <4>1 DEF Loaded
    <3>5. Append(part(k), s[k + 1]) = part(k + 1)
      <4>1. part(k + 1) \in Seq(S) /\ Len(part(k + 1)) = k + 1
        <5>1. \A x \in 1 .. k + 1 : s[x] \in S
          BY <1>1, <3>1
        <5> QED BY <5>1
      <4>2. \A x \in 1 .. k + 1 : part(k + 1)[x] = Append(part(k), s[k + 1])[x]
        BY <3>2
      <4>3. /\ Append(part(k), s[k + 1]) \in Seq(S) /\ Len(Append(part(k), s[k + 1])) = k + 1
            /\ DOMAIN Append(part(k), s[k + 1]) = 1 .. k + 1
        BY <1>1, <3>1, <3>2
      <4>4. DOMAIN part(k + 1) = 1 .. k + 1
        OBVIOUS
      <4> PICK A, B : A = Append(part(k), s[k + 1]) /\ B = part(k + 1)
        OBVIOUS
      <4>5. /\ A = [x \in 1 .. k + 1 |-> A[x]] /\ B = [x \in 1 .. k + 1 |-> B[x]]
            /\ \A x \in 1 .. k + 1 : A[x] = B[x]
        <5>1. A \in Seq(S) /\ DOMAIN A = 1 .. k + 1
          BY <4>3
        <5>2. A = [x \in DOMAIN A |-> A[x]]
          BY <5>1
        <5> QED BY <4>2, <5>1, <5>2
      <4> QED BY <4>5
    <3> HIDE DEF part
    <3> QED BY <3>4, <3>5
  <2>3. \A k \in Nat : k \in T
    <3> HIDE DEF T
    <3> QED BY <2>1, <2>2, SetInduction
  <2>4. f[N] = part(N)
    BY <1>1, <2>3
  <2>5. s = part(N)
    BY DEF N
  <2> QED BY <2>4, <2>5
<1> QED BY <1>4, <1>7, <1>8

\* Ids of the result whose vectors selection may compare on the level
Mine(m) == m \in Ids(index1) \/ m - off \in Layer(index2, level)

\* All elements of the level in the order of their ids
InOrder == [k \in 1 .. Size2 |-> Element2(k - 1)]

\* A cache of true vectors, and one that has them where selection looks
AllTrue(h) == \A m \in DOMAIN h : m \in DOMAIN data /\ h[m] = data[m]
MineTrue(h) == \A m \in DOMAIN h : Mine(m) => h[m] = data[m]

LEMMA InOrderFacts ==
  ASSUME InputsOK, level \in Levels(index2)
  PROVE  /\ Size2 \in Nat /\ InOrder \in Seq(Layer(index2, level)) /\ Len(InOrder) = Size2
         /\ DOMAIN InOrder = 1 .. Size2
         /\ \A k \in 1 .. Size2 : InOrder[k] \in Layer(index2, level) /\ Rank(InOrder[k]) = k - 1
         /\ \A j \in Layer(index2, level) : Rank(j) + 1 \in 1 .. Size2 /\ InOrder[Rank(j) + 1] = j
         /\ \A x, y \in DOMAIN InOrder : InOrder[x] = InOrder[y] => x = y
<1>1. Size2 \in Nat
  BY LevelFacts DEF Size2, InputsOK
<1>2. ASSUME NEW k \in 1 .. Size2
      PROVE  Element2(k - 1) \in Layer(index2, level) /\ Rank(Element2(k - 1)) = k - 1
  <2>1. k - 1 \in 0 .. Size2 - 1
    BY <1>1
  <2> QED BY <2>1, Element2Facts
<1>3. ASSUME NEW j \in Layer(index2, level)
      PROVE  Rank(j) + 1 \in 1 .. Size2 /\ Element2((Rank(j) + 1) - 1) = j
  <2> PICK r : r = Rank(j)
    OBVIOUS
  <2>1. r \in Nat /\ r < Size2
    BY RankType
  <2>2. r \in 0 .. Size2 - 1 /\ r + 1 \in 1 .. Size2 /\ (r + 1) - 1 = r
    BY <1>1, <2>1
  <2>3. j = Element2(r)
    BY <2>2, Element2Facts
  <2> QED BY <2>2, <2>3
<1>4. InOrder \in Seq(Layer(index2, level)) /\ Len(InOrder) = Size2 /\ DOMAIN InOrder = 1 .. Size2
  <2> HIDE DEF Size2, Element2
  <2> QED BY <1>1, <1>2 DEF InOrder
<1>5. \A k \in 1 .. Size2 : InOrder[k] \in Layer(index2, level) /\ Rank(InOrder[k]) = k - 1
  BY <1>2 DEF InOrder
<1>6. \A j \in Layer(index2, level) : Rank(j) + 1 \in 1 .. Size2 /\ InOrder[Rank(j) + 1] = j
  BY <1>3 DEF InOrder
<1>7. \A x, y \in 1 .. Size2 : InOrder[x] = InOrder[y] => x = y
  <2> SUFFICES ASSUME NEW x \in 1 .. Size2, NEW y \in 1 .. Size2, InOrder[x] = InOrder[y] PROVE x = y
    OBVIOUS
  <2>1. x - 1 = y - 1
    BY <1>5
  <2> QED BY <1>1, <2>1
<1> QED BY <1>1, <1>4, <1>5, <1>6, <1>7

\* Elements that follow without a gap have ranks that do.
LEMMA RanksFollow ==
  ASSUME InputsOK, level \in Levels(index2), NEW n \in Layer(index2, level), NEW j \in Layer(index2, level),
         n <= j, n < j => n .. j \subseteq Layer(index2, level)
  PROVE  Rank(j) = Rank(n) + (j - n)
<1> PICK L : L = Layer(index2, level)
  OBVIOUS
<1>1. L \subseteq Nat /\ IsFiniteSet(L) /\ n \in L /\ j \in L
  BY LevelFacts DEF InputsOK, Ids
<1> DEFINE A == {m \in L : m < n}
           B == n .. j - 1
<1>2. n \in Int /\ j - 1 \in Int
  BY <1>1
<1>3. IsFiniteSet(B) /\ Cardinality(B) = j - n
  <2>1. IsFiniteSet(B) /\ Cardinality(B) = IF n > j - 1 THEN 0 ELSE (j - 1) - n + 1
    BY <1>2, FS_Interval
  <2> HIDE DEF B
  <2> QED BY <1>1, <2>1
<1>4. IsFiniteSet(A)
  BY <1>1, FS_Subset
<1>5. {m \in L : m < j} = A \cup B
  <2>1. ASSUME NEW m \in B PROVE m \in L /\ m < j
    <3>1. m \in n .. j /\ n < j /\ m < j
      BY <1>1
    <3> QED BY <3>1
  <2>2. ASSUME NEW m \in L, m < j, m \notin A PROVE m \in B
    BY <1>1, <2>2
  <2>3. \A m \in A : m < j /\ m \in L
    BY <1>1
  <2> HIDE DEF A, B
  <2> QED BY <2>1, <2>2, <2>3 DEF A
<1>6. A \cap B = {}
  BY <1>1
<1>7. Cardinality(A \cup B) = Cardinality(A) + Cardinality(B)
  <2>1. Cardinality(A \cup B) = Cardinality(A) + Cardinality(B) - Cardinality(A \cap B)
    <3> HIDE DEF A, B
    <3> QED BY <1>3, <1>4, FS_Union
  <2>2. Cardinality(A \cap B) = 0
    BY <1>6, FS_EmptySet
  <2>3. Cardinality(A) \in Nat /\ Cardinality(B) \in Nat
    BY <1>3, <1>4, FS_CardinalityType
  <2> HIDE DEF A, B
  <2> QED BY <2>1, <2>2, <2>3
<1> HIDE DEF A, B
<1>8. Rank(j) = Cardinality(A \cup B) /\ Rank(n) = Cardinality(A)
  BY <1>5 DEF Rank, A
<1> QED BY <1>3, <1>7, <1>8

\* One push: the element meant is in the cache then; on level 1 nothing else
\* is new, and above it what is new is right where selection looks, as long as
\* the buffer holds the level in order.
LEMMA PushFacts ==
  ASSUME InputsOK, level \in Levels(index2), level > 0, NEW R, Int \subseteq R, NEW g \in R,
         NEW h \in Caches(R), NEW p \in Seq(Layer(index2, level)), NEW n \in Layer(index2, level),
         \E k \in DOMAIN p : p[k] = n, NEW new, new = Push(h, p, n, g)
  PROVE  /\ new \in Caches(R) /\ DOMAIN h \cup {n + off} \subseteq DOMAIN new
         /\ level = 1 /\ AllTrue(h) => AllTrue(new)
         /\ level > 1 /\ OneBatch(level) /\ p = InOrder /\ MineTrue(h) => MineTrue(new)
<1> DEFINE at == CHOOSE k \in DOMAIN p : p[k] = n
           vectorAt(k) == IF k \in DOMAIN p THEN index2.data[p[k]] ELSE g
           first == n + off
           new1 == first .. first + level - 1
<1>1. /\ level \in Nat /\ n \in Nat /\ off \in Nat /\ n \in Ids(index2)
      /\ Layer(index2, level) \subseteq Ids(index2)
      /\ \A j \in Ids(index2) : /\ index2.data[j] \in Int /\ data[j + off] = index2.data[j]
                                /\ j + off \in DOMAIN data /\ j \in Nat
  <2>1. level \in Nat
    BY DEF Levels, InputsOK, WellFormed
  <2>2. \A j \in Ids(index2) : index2.data[j] \in Int
    BY DEF InputsOK, WellFormed
  <2>3. n \in Ids(index2) /\ Layer(index2, level) \subseteq Ids(index2)
    BY DEF Layer
  <2> QED BY <2>1, <2>2, <2>3, MergedFacts
<1>2. at \in DOMAIN p /\ p[at] = n /\ at \in Int /\ DOMAIN p \subseteq Int
  BY DEF at
<1>3. DOMAIN h \subseteq Int /\ h \in [DOMAIN h -> R]
  BY CacheFacts
<1>4. new = [m \in DOMAIN h \cup new1 |-> IF m \in new1 THEN vectorAt(at + m - n - off) ELSE h[m]]
  BY DEF Push
<1> HIDE DEF at, off, data
<1>5. first \in new1 /\ new1 \subseteq Int
  BY <1>1
<1>6. \A k : vectorAt(k) \in R
  <2>1. ASSUME NEW k \in DOMAIN p PROVE index2.data[p[k]] \in R
    <3>1. p[k] \in Ids(index2)
      BY <1>1
    <3> QED BY <1>1, <3>1
  <2> QED BY <2>1
<1> HIDE DEF vectorAt, new1
<1>7. new \in [DOMAIN h \cup new1 -> R] /\ DOMAIN new = DOMAIN h \cup new1
  BY <1>3, <1>4, <1>6
<1>8. new \in Caches(R) /\ DOMAIN h \cup {n + off} \subseteq DOMAIN new
  <2>1. DOMAIN h \cup new1 \subseteq Int
    BY <1>3, <1>5
  <2> QED BY <1>5, <1>7, <2>1, CacheFacts
<1>9. vectorAt(at) = data[first]
  BY <1>1, <1>2 DEF vectorAt
<1>10. ASSUME level = 1, AllTrue(h) PROVE AllTrue(new)
  <2>1. new1 = {first}
    <3>1. first \in Int /\ level = 1
      BY <1>1, <1>10
    <3> HIDE DEF first
    <3>2. \A m : m \in new1 <=> m = first
      BY <3>1 DEF new1
    <3> QED BY <3>2
  <2>2. at + first - n - off = at
    BY <1>1, <1>2
  <2>3. new[first] = data[first] /\ first \in DOMAIN data
    BY <1>1, <1>4, <1>5, <1>9, <2>2
  <2>4. \A m \in DOMAIN new : m = first \/ (m \in DOMAIN h /\ new[m] = h[m])
    BY <1>4, <1>7, <2>1
  <2> HIDE DEF first
  <2> QED BY <1>10, <2>3, <2>4 DEF AllTrue
<1>11. ASSUME level > 1, OneBatch(level), p = InOrder, MineTrue(h) PROVE MineTrue(new)
  <2> SUFFICES ASSUME NEW m \in DOMAIN new, Mine(m) PROVE new[m] = data[m]
    BY DEF MineTrue
  <2>1. CASE m \notin new1
    BY <1>4, <1>7, <1>11, <2>1 DEF MineTrue
  <2>2. CASE m \in new1
    <3> PICK j : j = m - off
      OBVIOUS
    <3>1. m \in Int /\ n + off <= m /\ m < n + off + level /\ m = j + off /\ j \in Int
      BY <1>1, <2>2 DEF new1
    <3>2. j \in Layer(index2, level)
      <4>1. m \notin Ids(index1)
        BY <1>1, <3>1, SMTT(30) DEF Ids, off
      <4> QED BY <4>1 DEF Mine
    <3>3. n <= j /\ j < n + level
      BY <1>1, <3>1, SMTT(30)
    <3>4. n < j => n .. j \subseteq Layer(index2, level)
      <4>1. ~ level <= 1
        BY <1>1, <1>11
      <4> QED BY <1>11, <3>2, <3>3, <4>1 DEF OneBatch
    <3>5. Rank(j) = Rank(n) + (j - n)
      BY <3>2, <3>3, <3>4, RanksFollow
    <3>6. Rank(n) = at - 1
      BY <1>2, <1>11, InOrderFacts
    <3>7. at + m - n - off = Rank(j) + 1
      <4>1. /\ at \in Int /\ off \in Int /\ n \in Int /\ j \in Int
            /\ m = j + off
        BY <1>1, <1>2, <3>1
      <4>2. at + m - n - off = ((at - 1) + (j - n)) + 1
        BY <4>1
      <4> QED BY <3>5, <3>6, <4>2
    <3>8. Rank(j) + 1 \in DOMAIN p /\ p[Rank(j) + 1] = j
      BY <1>11, <3>2, InOrderFacts
    <3>9. new[m] = index2.data[j]
      BY <1>4, <2>2, <3>7, <3>8 DEF vectorAt
    <3> QED BY <1>1, <3>1, <3>2, <3>9
  <2> QED BY <2>1, <2>2
<1> QED BY <1>8, <1>10, <1>11

\* What one old neighbour does to the caches of the result and of index2
PushedOnce(v, c, g) ==
  IF c \in DOMAIN v[1] THEN v
  ELSE <<Push(v[1], Loaded(v[2], c - off), c - off, g), Loaded(v[2], c - off)>>

States(R) == Caches(R) \X Seq(Layer(index2, level))

\* What the caches keep, and c among what they hold
Keeps(v, w) ==
  /\ DOMAIN v[1] \subseteq DOMAIN w[1]
  /\ level = 1 /\ AllTrue(v[1]) => AllTrue(w[1])
  /\ level > 1 /\ OneBatch(level) /\ v[2] = InOrder /\ MineTrue(v[1]) =>
       w[2] = InOrder /\ MineTrue(w[1])

LEMMA PushedOnceFacts ==
  ASSUME InputsOK, level \in Levels(index2), level > 0, NEW R, Int \subseteq R, NEW g \in R,
         NEW v \in States(R), NEW c \in Int, c - off \in Layer(index2, level),
         NEW w, w = PushedOnce(v, c, g)
  PROVE  w \in States(R) /\ Keeps(v, w) /\ c \in DOMAIN w[1]
<1> PICK h, p, n, q, new :
      h = v[1] /\ p = v[2] /\ n = c - off /\ q = Loaded(p, n) /\ new = Push(h, q, n, g)
  OBVIOUS
<1>1. /\ h \in Caches(R) /\ p \in Seq(Layer(index2, level)) /\ n \in Layer(index2, level)
      /\ v = <<h, p>> /\ n + off = c /\ off \in Nat
  BY MergedFacts DEF States
<1>2. CASE c \in DOMAIN v[1]
  BY <1>2 DEF PushedOnce, Keeps
<1>3. CASE c \notin DOMAIN v[1]
  <2>1. q \in Seq(Layer(index2, level)) /\ Holds(q, n) /\ (Holds(p, n) => q = p)
    <3> PICK S : S = Layer(index2, level)
      OBVIOUS
    <3>1. p \in Seq(S) /\ n \in S
      BY <1>1
    <3>2. Loaded(p, n) \in Seq(S) /\ Holds(Loaded(p, n), n) /\ (Holds(p, n) => Loaded(p, n) = p)
      BY <3>1, LoadedFacts
    <3> QED BY <3>2
  <2>2. p = InOrder => q = InOrder
    BY <1>1, <2>1, InOrderFacts DEF Holds
  <2>3. /\ new \in Caches(R) /\ DOMAIN h \cup {n + off} \subseteq DOMAIN new
        /\ level = 1 /\ AllTrue(h) => AllTrue(new)
        /\ level > 1 /\ OneBatch(level) /\ q = InOrder /\ MineTrue(h) => MineTrue(new)
    BY <1>1, <2>1, PushFacts, SMTT(30) DEF Holds
  <2>4. w = <<new, q>> /\ w[1] = new /\ w[2] = q
    BY <1>3 DEF PushedOnce
  <2>5. w \in States(R)
    BY <2>1, <2>3, <2>4 DEF States
  <2>6. Keeps(v, w)
    BY <2>2, <2>3, <2>4 DEF Keeps
  <2>7. c \in DOMAIN w[1]
    <3> HIDE DEF off
    <3> QED BY <1>1, <2>3, <2>4
  <2> QED BY <2>5, <2>6, <2>7
<1> QED BY <1>2, <1>3

\* The old neighbours, whatever their order: all are held in the end, and what
\* one push keeps all of them do.
LEMMA PushOldFacts ==
  ASSUME InputsOK, level \in Levels(index2), level > 0, NEW R, Int \subseteq R, NEW g \in R,
         NEW held \in Caches(R), NEW positions \in Seq(Layer(index2, level)),
         NEW K \in Nat, NEW s \in [1 .. K -> Int], \A k \in 1 .. K : s[k] - off \in Layer(index2, level),
         NEW w, w = PushOld(held, positions, s, g)
  PROVE  /\ w \in States(R) /\ Keeps(<<held, positions>>, w)
         /\ \A k \in 1 .. K : s[k] \in DOMAIN w[1]
<1> DEFINE v == <<held, positions>>
           next(u, k) == PushedOnce(u, s[k], g)
           V == States(R)
           F == [p \in (1 .. K) \X V |-> next(p[2], p[1])]
           eq(f) == f = [k \in 0 .. K |-> IF k = 0 THEN v ELSE next(f[k - 1], k)]
<1>1. v \in V
  BY DEF States
<1>2. ASSUME NEW k \in 1 .. K, NEW u \in V
      PROVE  next(u, k) \in V /\ Keeps(u, next(u, k)) /\ s[k] \in DOMAIN next(u, k)[1]
  <2>1. s[k] \in Int /\ s[k] - off \in Layer(index2, level)
    BY <1>2
  <2> HIDE DEF off, PushedOnce
  <2> QED BY <2>1, PushedOnceFacts
<1>3. Len(s) = K
  BY DEF v
<1> HIDE DEF V, v
<1>4. PICK f0 : f0 \in [0 .. K -> V] /\ eq(f0)
  <2>1. IsStep(F, K, V)
    <3> HIDE DEF next
    <3> QED BY <1>2 DEF IsStep
  <2>2. PICK f0 : IsMadeBy(f0, F, K, V, v)
    <3> HIDE DEF F
    <3> QED BY <1>1, <2>1, PrimitiveRecursion
  <2>3. ASSUME NEW k \in 0 .. K PROVE f0[k] = IF k = 0 THEN v ELSE next(f0[k - 1], k)
    <3>1. CASE k = 0
      <4> HIDE DEF F
      <4> QED BY <2>2, <3>1 DEF IsMadeBy
    <3>2. CASE k # 0
      <4>1. k \in 1 .. K /\ k - 1 \in 0 .. K
        BY <3>2
      <4>2. f0[k - 1] \in V /\ f0[k] = F[<<k, f0[k - 1]>>]
        <5> HIDE DEF F
        <5> QED BY <2>2, <3>2, <4>1 DEF IsMadeBy
      <4>3. F[<<k, f0[k - 1]>>] = next(f0[k - 1], k)
        <5> HIDE DEF next
        <5> QED BY <4>1, <4>2
      <4> HIDE DEF next, F
      <4> QED BY <3>2, <4>2, <4>3
    <3> QED BY <3>1, <3>2
  <2>4. f0 = [k \in 0 .. K |-> f0[k]] /\ f0 \in [0 .. K -> V]
    <3> HIDE DEF F
    <3> QED BY <2>2 DEF IsMadeBy
  <2> HIDE DEF next
  <2> QED BY <2>3, <2>4
<1>5. PICK f : eq(f) /\ w = f[K]
  <2>1. eq(CHOOSE f2 : eq(f2))
    BY <1>4
  <2>2. PushOld(held, positions, s, g) = (CHOOSE f2 : eq(f2))[K]
    BY <1>3, Zenon DEF PushOld, next, v, PushedOnce
  <2> QED BY <2>1, <2>2
<1> HIDE DEF next
<1>6. f[0] = v /\ \A k \in Nat : k + 1 <= K => f[k + 1] = next(f[k], k + 1)
  <2>1. 0 \in 0 .. K
    OBVIOUS
  <2>2. ASSUME NEW k \in 0 .. K PROVE f[k] = IF k = 0 THEN v ELSE next(f[k - 1], k)
    BY <1>5
  <2>3. ASSUME NEW k \in Nat, k + 1 <= K PROVE f[k + 1] = next(f[k], k + 1)
    <3>1. k + 1 \in 0 .. K /\ k + 1 # 0 /\ (k + 1) - 1 = k
      BY <2>3
    <3> QED BY <2>2, <3>1
  <2> QED BY <2>1, <2>2, <2>3
<1>7. Keeps(v, v)
  BY DEF Keeps
<1>8. ASSUME NEW u1, NEW u2, NEW u3, Keeps(u1, u2), Keeps(u2, u3) PROVE Keeps(u1, u3)
  BY <1>8 DEF Keeps
<1> DEFINE T == {k \in Nat : k <= K => /\ f[k] \in V /\ Keeps(v, f[k])
                                       /\ \A x \in 1 .. k : s[x] \in DOMAIN f[k][1]}
<1>9. 0 \in T
  BY <1>1, <1>6, <1>7
<1>10. ASSUME NEW k \in Nat, k \in T PROVE k + 1 \in T
  <2> SUFFICES ASSUME k + 1 <= K
               PROVE  /\ f[k + 1] \in V /\ Keeps(v, f[k + 1])
                      /\ \A x \in 1 .. k + 1 : s[x] \in DOMAIN f[k + 1][1]
    OBVIOUS
  <2> PICK u, y : u = f[k] /\ y = f[k + 1]
    OBVIOUS
  <2>1. k + 1 \in 1 .. K /\ k <= K
    OBVIOUS
  <2>2. u \in V /\ Keeps(v, u) /\ \A x \in 1 .. k : s[x] \in DOMAIN u[1]
    BY <1>10, <2>1
  <2>3. y = next(u, k + 1)
    BY <1>6
  <2>4. y \in V /\ Keeps(u, y) /\ s[k + 1] \in DOMAIN y[1]
    BY <1>2, <2>1, <2>2, <2>3
  <2>5. Keeps(v, y)
    BY <1>8, <2>2, <2>4
  <2>6. DOMAIN u[1] \subseteq DOMAIN y[1]
    BY <2>4 DEF Keeps
  <2>7. \A x \in 1 .. k + 1 : x \in 1 .. k \/ x = k + 1
    OBVIOUS
  <2>8. \A x \in 1 .. k + 1 : s[x] \in DOMAIN y[1]
    BY <2>2, <2>4, <2>6, <2>7
  <2> QED BY <2>4, <2>5, <2>8
<1>11. \A k \in Nat : k \in T
  <2> HIDE DEF T
  <2> QED BY <1>9, <1>10, SetInduction
<1>12. f[K] \in V /\ Keeps(v, f[K]) /\ \A x \in 1 .. K : s[x] \in DOMAIN f[K][1]
  BY <1>11, SMTT(30)
<1> QED BY <1>5, <1>12 DEF V, v

\* An order of a finite set names each of its elements.
LEMMA OrdersFacts ==
  ASSUME NEW S, IsFiniteSet(S), NEW s \in Orders(S)
  PROVE  /\ Cardinality(S) \in Nat /\ s \in [1 .. Cardinality(S) -> S]
         /\ \A c \in S : \E k \in 1 .. Cardinality(S) : s[k] = c
<1> PICK K : K = Cardinality(S)
  OBVIOUS
<1>1. K \in Nat /\ s \in [1 .. K -> S] /\ \A x, y \in 1 .. K : s[x] = s[y] => x = y
  BY FS_CardinalityType DEF Orders
<1>2. IsFiniteSet(1 .. K) /\ Cardinality(1 .. K) = K
  <2>1. 1 \in Int /\ K \in Int
    BY <1>1
  <2>2. IsFiniteSet(1 .. K) /\ Cardinality(1 .. K) = IF 1 > K THEN 0 ELSE K - 1 + 1
    BY <2>1, FS_Interval
  <2> QED BY <1>1, <2>2
<1> DEFINE image == {s[k] : k \in 1 .. K}
<1>3. IsFiniteSet(image) /\ Cardinality(image) = K
  <2>1. s \in Bijection(1 .. K, image)
    <3>1. s \in [1 .. K -> image] /\ \A c \in image : \E k \in 1 .. K : s[k] = c
      BY <1>1
    <3> HIDE DEF image
    <3> QED BY <1>1, <3>1 DEF Bijection, Injection, Surjection, IsInjective
  <2> HIDE DEF image
  <2> QED BY <1>2, <2>1, FS_Bijection DEF ExistsBijection
<1>4. image \subseteq S
  BY <1>1
<1>5. image = S
  <2> HIDE DEF image
  <2> QED BY <1>3, <1>4, FS_Subset
<1> QED BY <1>1, <1>5

-------------------------------------------------------------------------------
(* The batches of index2 *)

\* The elements of a batch; one batch can be all of the level.
LEMMA BatchFacts ==
  ASSUME InputsOK, level \in Levels(index2), b \in Nat, b < Size2,
         NEW s, s = [k \in 1 .. Cardinality(Window2) |-> Element2(b + k - 1)]
  PROVE  /\ s \in Seq(Layer(index2, level))
         /\ b = 0 /\ Size2 <= BatchSize => s = InOrder
<1> PICK last : last = Lower(b + BatchSize, Size2)
  OBVIOUS
<1>1. /\ Size2 \in Nat /\ BatchSize \in Nat \ {0} /\ last \in Nat /\ last <= Size2 /\ b < last
  <2>1. Size2 \in Nat /\ BatchSize \in Nat \ {0}
    BY LevelFacts, BatchAssumption DEF Size2, InputsOK
  <2> QED BY <2>1 DEF Lower
<1>2. Cardinality(Window2) = last - b
  <2>1. b \in Int /\ last - 1 \in Int /\ Window2 = b .. last - 1
    BY <1>1 DEF Window2, Window
  <2>2. Cardinality(b .. last - 1) = IF b > last - 1 THEN 0 ELSE (last - 1) - b + 1
    BY <2>1, FS_Interval
  <2> QED BY <1>1, <2>1, <2>2
<1>3. s = [k \in 1 .. last - b |-> Element2(b + k - 1)]
  BY <1>2
<1>4. \A k \in 1 .. last - b : Element2(b + k - 1) \in Layer(index2, level)
  <2> SUFFICES ASSUME NEW k \in 1 .. last - b PROVE Element2(b + k - 1) \in Layer(index2, level)
    OBVIOUS
  <2>1. b + k - 1 \in 0 .. Size2 - 1
    BY <1>1
  <2> QED BY <2>1, Element2Facts
<1>5. s \in Seq(Layer(index2, level))
  <2> PICK L, K : L = Layer(index2, level) /\ K = last - b
    OBVIOUS
  <2> HIDE DEF Element2
  <2>1. /\ s = [k \in 1 .. K |-> Element2(b + k - 1)] /\ K \in Nat
        /\ \A k \in 1 .. K : Element2(b + k - 1) \in L
    BY <1>1, <1>3, <1>4
  <2>2. [k \in 1 .. K |-> Element2(b + k - 1)] \in Seq(L)
    BY <2>1
  <2> QED BY <2>1, <2>2
<1>6. b = 0 /\ Size2 <= BatchSize => s = InOrder
  <2> SUFFICES ASSUME b = 0, Size2 <= BatchSize PROVE s = InOrder
    OBVIOUS
  <2>1. last = Size2
    BY <1>1 DEF Lower
  <2>2. \A k \in 1 .. Size2 : b + k - 1 = k - 1
    BY <1>1
  <2> HIDE DEF Element2, Size2
  <2>3. last - b = Size2
    BY <1>1, <2>1
  <2>4. \A k \in 1 .. Size2 : Element2(b + k - 1) = Element2(k - 1)
    BY <2>2
  <2> QED BY <1>3, <2>3, <2>4, Zenon DEF InOrder
<1> QED BY <1>5, <1>6

LEMMA LoadBatch2Inv == Inv2G /\ LoadBatch2 => Inv2G'
<1> SUFFICES ASSUME Inv2G, LoadBatch2 PROVE Inv2G'
  OBVIOUS
<1> PICK s, all : /\ s = [k \in 1 .. Cardinality(Window2) |-> Element2(b + k - 1)]
                  /\ all = LoadedAll(order2, s)
  OBVIOUS
<1>1. /\ pc = "batch2" /\ b < Size2 /\ pc' = "backward" /\ i' = b
      /\ level = 0 => lists2' = ReadLists(index2, Window2) /\ dists2' = Window2 /\ UNCHANGED order2
      /\ level # 0 => order2' = all /\ UNCHANGED <<lists2, dists2>>
      /\ UNCHANGED <<index1, index2, file, level, b, ep, cands, lists1, cache, bytes, missed>>
  BY DEF LoadBatch2
<1>2. /\ TypesOK /\ MemoryOK /\ BackwardOK /\ FitsOK /\ CacheOK /\ InputsOK
      /\ level \in Levels(index2) /\ level \in Nat
  BY <1>1, UnderwayFacts
<1>3. b \in Nat /\ Size2 \in Nat /\ BatchSize \in Nat \ {0}
  BY <1>2, LevelFacts, BatchAssumption DEF TypesOK, InputsOK, Size2
<1>4. i' \in b .. Lower(b + BatchSize, Size2)
  BY <1>1, <1>3, WindowFacts
<1>5. level = 0 => Window2 \subseteq Ids(index2)
  <2> SUFFICES ASSUME level = 0, NEW k \in Window2 PROVE k \in Ids(index2)
    OBVIOUS
  <2>1. k \in Nat /\ k < Size2 /\ Size2 = index2.count
    BY <1>2, <1>3, WindowFacts, Level0Facts DEF Window2
  <2> QED BY <2>1, MergedFacts, <1>2 DEF Ids
<1>6. all \in Seq(Layer(index2, level))
  <2> PICK L : L = Layer(index2, level)
    OBVIOUS
  <2>1. order2 \in Seq(L)
    BY <1>2 DEF MemoryOK
  <2>2. s \in Seq(L)
    BY <1>1, <1>2, <1>3, BatchFacts
  <2>3. LoadedAll(order2, s) \in Seq(L)
    BY <2>1, <2>2, LoadedAllFacts
  <2> QED BY <2>3
<1>7. ForwardOK' /\ FitsOK'
  BY <1>1, <1>2 DEF ForwardOK, FitsOK
<1>8. BackwardOK'
  <2>1. \A j \in Layer(index2, level) : Rank(j) < Position2' => FairSlot(level, j + off)
    BY <1>1, <1>2 DEF Position2, BackwardOK
  <2>2. \A j \in Layer(index2, level)' : Rank(j)' < Position2' => FairSlot(level, j + off)'
    BY <1>1, <2>1, SameFairRanks
  <2>3. level > 0 => lists2' = ReadLists(index2, Layer(index2, level))' /\ dists2' = Layer(index2, level)'
    BY <1>1, <1>2 DEF BackwardOK, ReadLists
  <2>4. Size2' = Size2 /\ Window2' = Window2
    BY <1>1 DEF Size2, Window2, Window
  <2>5. level = 0 => lists2' = ReadLists(index2, Window2)' /\ dists2' = Window2'
    BY <1>1, <2>4 DEF ReadLists
  <2>6. level = 0 => bytes' = {1, 2}
    BY <1>1, <1>2 DEF BackwardOK
  <2> QED BY <1>1, <1>2, <1>4, <2>2, <2>3, <2>4, <2>5, <2>6 DEF BackwardOK
<1>9. cache = <<>> /\ CacheOK'
  <2>1. cache = <<>> /\ DOMAIN <<>> = {}
    BY <1>1, <1>2 DEF CacheOK
  <2>2. cache' = <<>> /\ DOMAIN cache' = {}
    BY <1>1, <2>1
  <2>3. cache' = [m \in DOMAIN cache' |-> cache'[m]]
    BY <2>2
  <2> QED BY <2>1, <2>2, <2>3, <1>1 DEF CacheOK
<1>10. MemoryOK'
  <2>1. DOMAIN lists2' \subseteq Ids(index2) /\ dists2' \subseteq Ids(index2)
    BY <1>1, <1>2, <1>5 DEF MemoryOK, ReadLists
  <2>2. order2' \in Seq(Layer(index2, level))
    BY <1>1, <1>2, <1>6 DEF MemoryOK
  <2> QED BY <1>1, <1>2, <2>1, <2>2 DEF MemoryOK
<1>11. i' \in Nat /\ b' \in Nat
  BY <1>1, <1>3
<1> QED BY <1>1, <1>7, <1>8, <1>9, <1>10, <1>11, SameCore

LEMMA EndBatch2Inv == Inv2G /\ EndBatch2 => Inv2G'
<1> SUFFICES ASSUME Inv2G, EndBatch2 PROVE Inv2G'
  OBVIOUS
<1>1. /\ pc = "backward" /\ i \notin Window2 /\ pc' = "batch2"
      /\ cache' = <<>> /\ b' = b + BatchSize
      /\ IF level = 0 THEN lists2' = <<>> /\ dists2' = {} ELSE UNCHANGED <<lists2, dists2>>
      /\ UNCHANGED <<index1, index2, file, level, i, ep, cands, lists1, order2, bytes, missed>>
  BY DEF EndBatch2
<1>2. /\ TypesOK /\ MemoryOK /\ BackwardOK /\ FitsOK /\ InputsOK
      /\ level \in Levels(index2) /\ level \in Nat
  BY <1>1, UnderwayFacts
<1>3. /\ b \in Nat /\ Size2 \in Nat /\ BatchSize \in Nat \ {0} /\ i \in b .. Lower(b + BatchSize, Size2)
  BY <1>1, <1>2, LevelFacts, BatchAssumption DEF TypesOK, InputsOK, Size2, BackwardOK
<1>4. i = Lower(b + BatchSize, Size2)
  BY <1>1, <1>3, WindowFacts DEF Window2
<1>5. ForwardOK' /\ FitsOK'
  BY <1>1, <1>2 DEF ForwardOK, FitsOK
<1>6. BackwardOK'
  <2>1. ASSUME NEW j \in Layer(index2, level), Rank(j) < Position2'
        PROVE  FairSlot(level, j + off)
    <3>1. Rank(j) < b + BatchSize /\ Rank(j) < Size2
      BY <1>1, <1>2, <2>1, RankType DEF Position2
    <3>2. Rank(j) < i
      BY <1>4, <3>1 DEF Lower
    <3> QED BY <1>1, <1>2, <3>2 DEF BackwardOK, Position2
  <2>2. \A j \in Layer(index2, level)' : Rank(j)' < Position2' => FairSlot(level, j + off)'
    BY <1>1, <2>1, SameFairRanks
  <2>3. level > 0 => lists2' = ReadLists(index2, Layer(index2, level))' /\ dists2' = Layer(index2, level)'
    BY <1>1, <1>2 DEF BackwardOK, ReadLists
  <2>4. level = 0 => bytes' = {1, 2}
    BY <1>1, <1>2 DEF BackwardOK
  <2> QED BY <1>1, <1>2, <2>2, <2>3, <2>4 DEF BackwardOK
<1>7. CacheOK'
  <2>1. DOMAIN cache' = {} /\ cache' = [m \in DOMAIN cache' |-> cache'[m]]
    BY <1>1
  <2> QED BY <1>1, <2>1 DEF CacheOK
<1>8. MemoryOK'
  <2>1. DOMAIN <<>> = {}
    OBVIOUS
  <2> QED BY <1>1, <1>2, <2>1 DEF MemoryOK
<1>9. i' \in Nat /\ b' \in Nat
  BY <1>1, <1>2, <1>3 DEF TypesOK
<1> QED BY <1>1, <1>5, <1>6, <1>7, <1>8, <1>9, SameCore

LEMMA NextLevelInv == Inv2G /\ NextLevel => Inv2G'
<1> SUFFICES ASSUME Inv2G, NextLevel PROVE Inv2G'
  OBVIOUS
<1>1. /\ pc = "batch2" /\ b >= Size2 /\ level' = level - 1
      /\ order2' = <<>> /\ lists2' = <<>> /\ dists2' = {}
      /\ pc' = IF level = 0 THEN "done" ELSE "level"
      /\ UNCHANGED <<index1, index2, file, b, i, ep, cands, lists1, cache, bytes, missed>>
  BY DEF NextLevel
<1>2. /\ InputsOK /\ missed = {} /\ TypesOK /\ MemoryOK /\ FileOK /\ BackwardOK /\ CacheOK
      /\ level \in Levels(index2) /\ level \in Nat /\ index1.maxlevel_ <= index2.maxlevel_
  BY <1>1, UnderwayFacts
<1>3. InputsOK' /\ missed' = {}
  BY <1>1, <1>2 DEF InputsOK
<1>4. /\ level' \in IF pc' = "done" THEN {-1} ELSE Levels(index2)
      /\ ep' \in [Ids(index1) -> {NoEntry} \cup Layer(index2, level')]
  BY <1>1, <1>2, LevelDown DEF TypesOK
<1>5. \A j \in Layer(index2, level) : FairSlot(level, j + off)
  <2> SUFFICES ASSUME NEW j \in Layer(index2, level) PROVE FairSlot(level, j + off)
    OBVIOUS
  <2>1. Rank(j) < b
    <3>1. Rank(j) \in Nat /\ Rank(j) < Size2 /\ Size2 \in Nat /\ b \in Nat
      BY <1>2, RankType DEF TypesOK
    <3> QED BY <1>1, <3>1
  <2> QED BY <1>1, <1>2, <2>1 DEF BackwardOK, Position2
<1>6. FileOK'
  <2>1. SUFFICES ASSUME NEW l \in Levels(index2)
                 PROVE  /\ \A n \in Ids(index1) : FairSlot(l, n)'
                        /\ \A j \in Ids(index2) :
                             j \notin Layer(index2, l) \/ level' < l => FairSlot(l, j + off)'
    BY <1>1, SameInputs DEF FileOK
  <2>2. ASSUME NEW n \in Ids(index1) PROVE FairSlot(l, n)'
    BY <1>1, <1>2, SameFairSlot DEF FileOK
  <2>3. ASSUME NEW j \in Ids(index2), j \notin Layer(index2, l) \/ level' < l
        PROVE  FairSlot(l, j + off)'
    <3>1. l \in Nat /\ (level' < l /\ l # level => level < l)
      BY <1>1, <1>2 DEF Levels
    <3>2. FairSlot(l, j + off)
      BY <1>2, <1>5, <2>3, <3>1 DEF FileOK
    <3> QED BY <1>1, <3>2, SameFairSlot2
  <2> QED BY <2>2, <2>3
<1>7. TypesOK'
  <2>1. data' = data /\ AnySlot' = AnySlot
    BY <1>1, SameVectors
  <2> HIDE DEF AnySlot, data
  <2> QED BY <1>1, <1>2, <1>4, <2>1 DEF TypesOK
<1>8. ForwardOK' /\ CandidatesOK' /\ BackwardOK' /\ FitsOK'
  BY <1>1 DEF ForwardOK, CandidatesOK, BackwardOK, FitsOK
<1>9. CacheOK'
  <2>1. cache' = <<>> /\ DOMAIN <<>> = {}
    BY <1>1, <1>2 DEF CacheOK
  <2>2. DOMAIN cache' = {} /\ cache' = [m \in DOMAIN cache' |-> cache'[m]]
    BY <2>1
  <2> QED BY <1>1, <2>1, <2>2 DEF CacheOK
<1>10. MemoryOK'
  <2>1. DOMAIN <<>> = {} /\ <<>> \in Seq(Layer(index2, level)')
    OBVIOUS
  <2> QED BY <1>1, <1>2, <2>1 DEF MemoryOK
<1>11. Underway'
  BY <1>1, <1>2, <1>6, <1>7, <1>8, <1>9, <1>10 DEF Underway
<1> QED BY <1>3, <1>11 DEF Inv2G

-------------------------------------------------------------------------------
(* The forward steps *)

\* What a forward step finds in memory: all of index2 on the level, as the
\* level has it, and no list or vector of it is missing.
LEMMA ForwardMemory ==
  ASSUME Inv2G, pc = "forward", i \in Window1
  PROVE  /\ i \in Ids(index1) /\ i \in Nat /\ i + 1 \in b .. Lower(b + BatchSize, index1.count)
         /\ ix2 = Seen2 /\ Unloaded = {}
         /\ index1.data[i] \in Int /\ ep[i] \in {NoEntry} \cup Layer(index2, level)
         /\ i \in Layer(index1, level) =>
              i \in DOMAIN lists1 /\ lists1[i] = SavedList(index1, level, i)
<1>1. /\ InputsOK /\ TypesOK /\ ForwardOK /\ level \in Levels(index2)
  BY UnderwayFacts
<1>2. lists2 = [n \in Layer(index2, level) |-> SavedList(index2, level, n)]
  BY <1>1 DEF ForwardOK, ReadLists
<1>3. ix2 = Seen2
  <2>1. WellFormed(index2, M) /\ IsRecord(index2)
    BY <1>1 DEF InputsOK
  <2> PICK W : W = Vectors(index2, level)
    OBVIOUS
  <2>2. InMemory(index2, level, lists2, W) = [index2 EXCEPT !.data = W]
    BY <1>1, <1>2, <2>1, InMemoryIsWhole
  <2> QED BY <2>2 DEF ix2, Seen2
<1>4. Unloaded = {}
  <2>1. Layer(index2, level) \ DOMAIN lists2 = {}
    BY <1>2
  <2>2. level = 0 => 2 \in bytes
    BY <1>1 DEF ForwardOK
  <2> QED BY <2>1, <2>2 DEF Unloaded
<1>5. i \in Nat /\ i < index1.count /\ i + 1 \in b .. Lower(b + BatchSize, index1.count) /\ index1.count \in Nat
  <2>1. b \in Nat /\ index1.count \in Nat
    BY <1>1 DEF TypesOK, InputsOK, WellFormed
  <2> QED BY <2>1, BatchAssumption, WindowFacts DEF Window1
<1>6. i \in Ids(index1)
  BY <1>5 DEF Ids
<1>7. index1.data[i] \in Int /\ ep[i] \in {NoEntry} \cup Layer(index2, level)
  BY <1>1, <1>6 DEF InputsOK, WellFormed, TypesOK
<1>8. i \in Layer(index1, level) =>
        i \in DOMAIN lists1 /\ lists1[i] = SavedList(index1, level, i)
  BY <1>1 DEF ForwardOK, ReadLists
<1> QED BY <1>3, <1>4, <1>5, <1>6, <1>7, <1>8

\* After a forward step the rest of the batch is as it was.
LEMMA ForwardGoesOn ==
  ASSUME Inv2G, pc = "forward", i \in Window1, i' = i + 1,
         UNCHANGED <<index1, index2, pc, level, b, lists1, lists2, dists2, order2, bytes>>
  PROVE  b' \in Nat /\ i' \in Nat /\ MemoryOK' /\ ForwardOK' /\ BackwardOK' /\ FitsOK'
<1>1. TypesOK /\ MemoryOK /\ ForwardOK /\ FitsOK
  BY UnderwayFacts
<1>2. i \in Nat /\ i + 1 \in b .. Lower(b + BatchSize, index1.count)
  BY ForwardMemory
<1>3. Window1' = Window1
  BY DEF Window1, Window
<1>4. ForwardOK'
  BY <1>1, <1>2, <1>3 DEF ForwardOK, ReadLists
<1> QED BY <1>1, <1>2, <1>4 DEF BackwardOK, MemoryOK, TypesOK, FitsOK

LEMMA PassByInv == Inv2G /\ PassBy => Inv2G'
<1> SUFFICES ASSUME Inv2G, PassBy PROVE Inv2G'
  OBVIOUS
<1>1. /\ pc = "forward" /\ i \in Window1
      /\ ep' = [ep EXCEPT ![i] = NextEntry(ix2, index1.data[i], ep[i], level)]
      /\ missed' = missed \cup Unloaded /\ i' = i + 1
      /\ UNCHANGED <<index1, index2, file, pc, level, b, cands, lists1, lists2, dists2,
                     order2, cache, bytes>>
  BY DEF PassBy
<1>2. /\ TypesOK /\ CandidatesOK /\ CacheOK /\ InputsOK /\ level \in Levels(index2) /\ missed = {}
  BY <1>1, UnderwayFacts
<1>3. /\ i \in Ids(index1) /\ ix2 = Seen2 /\ Unloaded = {}
      /\ index1.data[i] \in Int /\ ep[i] \in {NoEntry} \cup Layer(index2, level)
  BY <1>1, ForwardMemory
<1>4. NextEntry(ix2, index1.data[i], ep[i], level) \in Layer(index2, level)
  <2> PICK jx, q, e : jx = Seen2 /\ q = index1.data[i] /\ e = ep[i]
    OBVIOUS
  <2>1. /\ WellFormed(jx, M) /\ q \in Int /\ level \in Levels(jx) /\ e \in {NoEntry} \cup Layer(jx, level)
        /\ Layer(jx, level) = Layer(index2, level)
    BY <1>2, <1>3, SeenFacts
  <2>2. NextEntry(jx, q, e, level) \in Layer(jx, level)
    BY <2>1, NextEntryFacts
  <2> QED BY <1>3, <2>1, <2>2
<1>5. ep' \in [Ids(index1) -> {NoEntry} \cup Layer(index2, level)]
  BY <1>1, <1>2, <1>3, <1>4 DEF TypesOK
<1>6. b' \in Nat /\ i' \in Nat /\ MemoryOK' /\ ForwardOK' /\ BackwardOK' /\ FitsOK'
  BY <1>1, ForwardGoesOn
<1>7. CacheOK'
  <2>1. data' = data
    BY <1>1, SameInputs
  <2> HIDE DEF data
  <2> QED BY <1>1, <1>2, <2>1 DEF CacheOK
<1>8. file' \in [Levels(index2) -> [DOMAIN data -> AnySlot]] /\ missed' = {}
  BY <1>1, <1>2, <1>3 DEF TypesOK
<1>9. /\ cands' \in [Ids(index2) -> Lists(Ids(index1))]
      /\ \A j \in Ids(index2) : GoodList(ForwardVectors, Tops, j + off, level, cands'[j])
  BY <1>1, <1>2 DEF CandidatesOK
<1>10. \A l \in Levels(index2), n \in DOMAIN data : FairSlot(l, n) => IsFairSlot(l, n, file'[l][n])
  BY <1>1 DEF FairSlot
<1> QED BY <1>1, <1>5, <1>6, <1>7, <1>8, <1>9, <1>10, StepCore

\* One write leaves the other slots as they were.
LEMMA WriteKeeps ==
  ASSUME InputsOK, level \in Levels(index2), level \in Nat, TypesOK,
         NEW n \in DOMAIN data, NEW list, IsFair(level, n, list),
         Cardinality(DOMAIN list) <= Mcurmax(M, level), file' = [file EXCEPT ![level][n] = Slot(list)]
  PROVE  /\ file' \in [Levels(index2) -> [DOMAIN data -> AnySlot]]
         /\ IsFairSlot(level, n, file'[level][n])
         /\ \A l \in Levels(index2), m \in DOMAIN data :
              FairSlot(l, m) => IsFairSlot(l, m, file'[l][m])
<1> PICK slot : slot = Slot(list)
  OBVIOUS
<1>1. slot \in AnySlot /\ IsFairSlot(level, n, slot)
  BY FairSlotFacts
<1> HIDE DEF data, Tops, AnySlot, Exact
<1>2. /\ file' \in [Levels(index2) -> [DOMAIN data -> AnySlot]]
      /\ file'[level][n] = slot
      /\ \A l \in Levels(index2), m \in DOMAIN data :
           l # level \/ m # n => file'[l][m] = file[l][m]
  BY <1>1, WriteFacts DEF TypesOK
<1>3. ASSUME NEW l \in Levels(index2), NEW m \in DOMAIN data, FairSlot(l, m)
      PROVE  IsFairSlot(l, m, file'[l][m])
  <2>1. CASE l = level /\ m = n
    BY <1>1, <1>2, <2>1
  <2>2. CASE l # level \/ m # n
    <3>1. file'[l][m] = file[l][m]
      BY <1>2, <2>2
    <3> QED BY <1>3, <3>1 DEF FairSlot
  <2> QED BY <2>1, <2>2
<1> QED BY <1>1, <1>2, <1>3

\* What the search for the element at hand finds, and the nearest of it
LEMMA SearchedHere ==
  ASSUME InputsOK, level \in Levels(index2), i \in Layer(index1, level),
         ep[i] \in {NoEntry} \cup Layer(index2, level),
         NEW F, F = Found(Seen2, index1.data[i], ep[i], level), NEW found, found = Moved(F, off)
  PROVE  /\ GoodList(ForwardVectors, Tops, i, level, found) /\ DOMAIN found # {}
         /\ DOMAIN found = Shift(DOMAIN F, off) /\ DOMAIN F \subseteq Layer(index2, level)
         /\ Moved(found, -off) = F /\ IsFiniteSet(DOMAIN found)
         /\ Kth(found, 1) \in DOMAIN found /\ Kth(found, 1) - off \in Layer(index2, level)
         /\ \A j \in DOMAIN F :
              /\ GoodList(ForwardVectors, Tops, j + off, level, Candidate(i, F[j]))
              /\ Candidate(i, F[j]) \in Lists(Ids(index1))
<1> PICK jx, V, T, o : jx = Seen2 /\ V = ForwardVectors /\ T = Tops /\ o = off
  OBVIOUS
<1>1. /\ WellFormed(index1, M) /\ WellFormed(jx, M)
      /\ V = MergedData(index1, jx) /\ T = MergedTops(index1, jx) /\ o = index1.count
      /\ Levels(jx) = Levels(index2) /\ Layer(jx, level) = Layer(index2, level)
  BY SeenFacts DEF InputsOK, off
<1>2. DOMAIN V = DOMAIN data /\ V \in [DOMAIN data -> Int]
  BY SeenFacts
<1>3. i \in DOMAIN data /\ DOMAIN data \subseteq Int /\ IsFiniteSet(DOMAIN data) /\ o \in Nat
      /\ \A j \in Ids(index2) : (j + o) - o = j
  BY MergedFacts DEF Layer
<1>4. Searched(index1, jx, i, level, F) /\ found = Moved(F, o)
  BY <1>1 DEF Searched
<1> HIDE DEF data, Tops, off
<1>5. /\ GoodList(V, T, i, level, found) /\ DOMAIN found # {}
      /\ DOMAIN found = Shift(DOMAIN F, o) /\ DOMAIN F \subseteq Layer(jx, level)
      /\ Moved(found, -o) = F
  BY <1>1, <1>4, PairSearchFacts
<1>6. \A j \in DOMAIN F :
        /\ GoodList(V, T, j + o, level, Candidate(i, F[j]))
        /\ Candidate(i, F[j]) \in Lists(Ids(index1))
  BY <1>1, <1>4, PairSearchFacts
<1>7. DOMAIN found \subseteq DOMAIN V /\ \A c \in DOMAIN found : found[c] \in Nat
  <2>1. DOMAIN V \subseteq Int /\ \A c \in DOMAIN V : V[c] \in Int
    BY <1>2, <1>3
  <2>2. FairList(TRUE, V, T, i, level, found)
    BY <1>2, <1>3, <1>5, <2>1, GoodIsFair
  <2> QED BY <2>2, ListFacts DEF FairList
<1>8. IsFiniteSet(DOMAIN found) /\ 1 \in 1 .. Cardinality(DOMAIN found)
  <2>1. IsFiniteSet(DOMAIN found)
    BY <1>2, <1>3, <1>7, FS_Subset
  <2>2. Cardinality(DOMAIN found) \in Nat /\ Cardinality(DOMAIN found) # 0
    BY <1>5, <2>1, FS_CardinalityType, FS_EmptySet
  <2> QED BY <2>1, <2>2
<1>9. Kth(found, 1) \in DOMAIN found
  <2>1. DOMAIN found \subseteq Int
    BY <1>2, <1>3, <1>7
  <2> QED BY <1>7, <1>8, <2>1, KthOfAnyList
<1>10. Kth(found, 1) - o \in Layer(index2, level)
  <2> PICK x : x = Kth(found, 1)
    OBVIOUS
  <2>1. PICK j \in DOMAIN F : x = j + o
    BY <1>5, <1>9 DEF Shift
  <2>2. j \in Layer(index2, level) /\ j \in Ids(index2)
    BY <1>1, <1>5, <2>1 DEF Layer
  <2> QED BY <1>3, <2>1, <2>2
<1> QED BY <1>1, <1>5, <1>6, <1>8, <1>9, <1>10

\* The old list of the element at hand
LEMMA OldHere ==
  ASSUME Inv2G, pc = "forward", i \in Window1, i \in Layer(index1, level)
  PROVE  /\ level \in Levels(index1) /\ i \in DOMAIN lists1 /\ lists1[i] = SavedList(index1, level, i)
         /\ GoodList(data, Tops, i, level, lists1[i])
         /\ DOMAIN lists1[i] = index1.links[level][i]
<1>1. InputsOK /\ level \in Levels(index2) /\ level \in Nat
  BY UnderwayFacts
<1>2. i \in Ids(index1) /\ i \in DOMAIN lists1 /\ lists1[i] = SavedList(index1, level, i)
  BY ForwardMemory
<1>3. level \in Levels(index1)
  <2>1. /\ index1.element_levels_[i] \in 0 .. index1.maxlevel_ /\ index1.element_levels_[i] >= level
        /\ index1.maxlevel_ \in Nat
    BY <1>1, <1>2 DEF InputsOK, WellFormed, Layer
  <2> QED BY <1>1, <2>1 DEF Levels
<1> HIDE DEF data, Tops
<1> QED BY <1>1, <1>2, <1>3, SavedList1Good

\* One more candidate for each element found
LEMMA AddedCandidates ==
  ASSUME InputsOK, cands \in [Ids(index2) -> Lists(Ids(index1))],
         \A j \in Ids(index2) : GoodList(ForwardVectors, Tops, j + off, level, cands[j]),
         NEW F, \A j \in DOMAIN F :
              /\ GoodList(ForwardVectors, Tops, j + off, level, Candidate(i, F[j]))
              /\ Candidate(i, F[j]) \in Lists(Ids(index1)),
         cands' = AddCandidates(cands, F, i)
  PROVE  /\ cands' \in [Ids(index2) -> Lists(Ids(index1))]
         /\ \A j \in Ids(index2) : GoodList(ForwardVectors, Tops, j + off, level, cands'[j])
<1> PICK V, T, o : V = ForwardVectors /\ T = Tops /\ o = off
  OBVIOUS
<1>1. cands' = [j \in Ids(index2) |->
                  IF j \in DOMAIN F THEN Joined(cands[j], Candidate(i, F[j])) ELSE cands[j]]
  BY DEF AddCandidates, Candidate
<1>2. ASSUME NEW j \in Ids(index2)
      PROVE  cands'[j] \in Lists(Ids(index1)) /\ GoodList(V, T, j + o, level, cands'[j])
  <2>1. CASE j \notin DOMAIN F
    BY <1>1, <2>1
  <2>2. CASE j \in DOMAIN F
    <3> PICK f, c : f = Candidate(i, F[j]) /\ c = cands[j]
      OBVIOUS
    <3>1. /\ GoodList(V, T, j + o, level, f) /\ GoodList(V, T, j + o, level, c)
          /\ f \in Lists(Ids(index1)) /\ c \in Lists(Ids(index1)) /\ cands'[j] = Joined(c, f)
      BY <1>1, <2>2
    <3>2. GoodList(V, T, j + o, level, Joined(c, f))
      BY <3>1, JoinedFacts
    <3>3. Joined(c, f) \in Lists(Ids(index1))
      <4>1. /\ c \in [DOMAIN c -> Int] /\ f \in [DOMAIN f -> Int]
            /\ DOMAIN c \cup DOMAIN f \subseteq Ids(index1)
        BY <3>1, ListFacts
      <4>2. Joined(c, f) \in [DOMAIN c \cup DOMAIN f -> Int]
        BY <4>1 DEF Joined
      <4> QED BY <4>1, <4>2, ListFacts
    <3> QED BY <3>1, <3>2, <3>3
  <2> QED BY <2>1, <2>2
<1> QED BY <1>1, <1>2

\* The vectors held when an element of index1 is connected, above level 0
LEMMA HeldTrue ==
  ASSUME InputsOK, level \in Levels(index2), Exact(level), NEW found, NEW old,
         DOMAIN found \subseteq DOMAIN data, DOMAIN old \subseteq DOMAIN data,
         \A m \in DOMAIN cache : m \in DOMAIN data /\ cache[m] = data[m],
         NEW held, held = Held1(found, old)
  PROVE  /\ held = [m \in DOMAIN held |-> held[m]]
         /\ \A m \in DOMAIN held : m \in DOMAIN data /\ held[m] = data[m]
         /\ Overflows(found, old, level) => DOMAIN found \cup DOMAIN old \subseteq DOMAIN held
<1> PICK ids : ids = DOMAIN found \cup (IF Overflows(found, old, level) THEN DOMAIN old ELSE {})
  OBVIOUS
<1>1. ForwardVectors = data
  BY ExactVectors
<1>2. held = [m \in DOMAIN cache \cup ids |-> IF m \in DOMAIN cache THEN cache[m] ELSE data[m]]
  <2> HIDE DEF data
  <2> QED BY <1>1 DEF Held1, Cached
<1>3. ids \subseteq DOMAIN data
  <2> HIDE DEF data, Overflows
  <2> QED OBVIOUS
<1> HIDE DEF data, Overflows
<1> QED BY <1>2, <1>3

LEMMA Connect1Inv ==
  ASSUME Inv2G, Connect1, i \in Layer(index1, level)
  PROVE  Inv2G'
<1> PICK F, found, old, held, e, list :
      /\ F = Found(ix2, index1.data[i], ep[i], level) /\ found = Moved(F, off)
      /\ old = IF i \in DOMAIN lists1 THEN lists1[i] ELSE <<>>
      /\ held = Held1(found, old) /\ e = Kth(found, 1) - off
      /\ list = Connected(found, old, held, level)
  OBVIOUS
<1>1. /\ pc = "forward" /\ i \in Window1 /\ i' = i + 1
      /\ UNCHANGED <<index1, index2, pc, level, b, lists1, lists2, dists2, order2, bytes>>
  BY DEF Connect1
<1>2. /\ ep' = [ep EXCEPT ![i] = e]
      /\ cands' = AddCandidates(cands, Moved(found, -off), i)
      /\ cache' = IF level = 0 THEN <<>> ELSE held
      /\ missed' = missed \cup Unloaded \cup {<<"list1", n>> : n \in {i} \ DOMAIN lists1}
      /\ file' = [file EXCEPT ![level][i] = Slot(list)]
  BY DEF Connect1, Found1
<1>3. /\ TypesOK /\ CandidatesOK /\ CacheOK /\ InputsOK /\ level \in Levels(index2) /\ level \in Nat
      /\ missed = {}
  BY <1>1, UnderwayFacts
<1>4. /\ i \in Ids(index1) /\ i \in DOMAIN data /\ ix2 = Seen2 /\ Unloaded = {}
      /\ ep[i] \in {NoEntry} \cup Layer(index2, level)
  BY <1>1, <1>3, ForwardMemory, MergedFacts
<1>5. i \in DOMAIN lists1 /\ GoodList(data, Tops, i, level, old)
  BY <1>1, OldHere
<1>6. F = Found(Seen2, index1.data[i], ep[i], level)
  BY <1>4
<1>7. /\ GoodList(ForwardVectors, Tops, i, level, found)
      /\ Moved(found, -off) = F /\ e \in Layer(index2, level)
  BY <1>3, <1>4, <1>6, SearchedHere
<1>8. \A j \in DOMAIN F :
        /\ GoodList(ForwardVectors, Tops, j + off, level, Candidate(i, F[j]))
        /\ Candidate(i, F[j]) \in Lists(Ids(index1))
  BY <1>3, <1>4, <1>6, SearchedHere
<1>9. IsFair(level, i, found) /\ IsFair(level, i, old)
  BY <1>3, <1>4, <1>5, <1>7, SeenIsFair, TrueIsFair
<1>10. IsFair(level, i, list) /\ Cardinality(DOMAIN list) <= Mcurmax(M, level)
  BY <1>3, <1>4, <1>9, FairlyConnected
<1>11. /\ file' \in [Levels(index2) -> [DOMAIN data -> AnySlot]]
       /\ \A l \in Levels(index2), n \in DOMAIN data : FairSlot(l, n) => IsFairSlot(l, n, file'[l][n])
  BY <1>2, <1>3, <1>4, <1>10, WriteKeeps
<1>12. ep' \in [Ids(index1) -> {NoEntry} \cup Layer(index2, level)]
  BY <1>2, <1>3, <1>4, <1>7 DEF TypesOK
<1>13. /\ cands' \in [Ids(index2) -> Lists(Ids(index1))]
       /\ \A j \in Ids(index2) : GoodList(ForwardVectors, Tops, j + off, level, cands'[j])
  <2>1. /\ cands \in [Ids(index2) -> Lists(Ids(index1))]
        /\ \A j \in Ids(index2) : GoodList(ForwardVectors, Tops, j + off, level, cands[j])
    BY <1>1, <1>3 DEF CandidatesOK
  <2>2. cands' = AddCandidates(cands, F, i)
    BY <1>2, <1>7
  <2> HIDE DEF off, Tops, ForwardVectors
  <2> QED BY <1>3, <1>8, <2>1, <2>2, AddedCandidates
<1>14. missed' = {}
  BY <1>2, <1>3, <1>4, <1>5
<1>15. b' \in Nat /\ i' \in Nat /\ MemoryOK' /\ ForwardOK' /\ BackwardOK' /\ FitsOK'
  BY <1>1, ForwardGoesOn
<1>16. CacheOK'
  <2>1. data' = data
    BY <1>1, SameInputs
  <2>2. CASE level = 0
    <3>1. DOMAIN cache' = {} /\ cache' = [m \in DOMAIN cache' |-> cache'[m]] /\ cache' = <<>>
      BY <1>2, <2>2
    <3> QED BY <1>1, <3>1 DEF CacheOK
  <2>3. CASE level > 0
    <3>1. Exact(level) /\ \A m \in DOMAIN cache : m \in DOMAIN data /\ cache[m] = data[m]
      BY <1>1, <1>3, <2>3 DEF Exact, CacheOK
    <3>2. DOMAIN found \subseteq DOMAIN data /\ DOMAIN old \subseteq DOMAIN data
      BY <1>9, ListFacts DEF IsFair, FairList
    <3>3. /\ held = [m \in DOMAIN held |-> held[m]]
          /\ \A m \in DOMAIN held : m \in DOMAIN data /\ held[m] = data[m]
      BY <1>3, <3>1, <3>2, HeldTrue
    <3>4. cache' = held /\ level # 0 /\ DOMAIN data \subseteq Int
      BY <1>2, <1>3, <2>3, MergedFacts
    <3> HIDE DEF data
    <3> QED BY <1>1, <2>1, <2>3, <3>3, <3>4 DEF CacheOK
  <2> QED BY <1>3, <2>2, <2>3
<1> QED BY <1>1, <1>11, <1>12, <1>13, <1>14, <1>15, <1>16, StepCore

\* It is an element of the level that is connected; on level 0 all of them are.
LEMMA ConnectedHere ==
  ASSUME Inv2G, Forward \/ Forward0
  PROVE  Connect1 /\ i \in Layer(index1, level)
<1>1. Connect1
  BY DEF Forward, Forward0
<1>2. i \in Layer(index1, level)
  <2>1. CASE Forward
    BY <2>1 DEF Forward
  <2>2. CASE Forward0
    <3>1. InputsOK /\ i \in Ids(index1) /\ level = 0
      BY <1>1, <2>2, UnderwayFacts, ForwardMemory DEF Connect1, Forward0
    <3>2. index1.element_levels_[i] \in Nat
      BY <3>1 DEF InputsOK, WellFormed
    <3> QED BY <3>1, <3>2 DEF Layer
  <2> QED BY <2>1, <2>2
<1> QED BY <1>1, <1>2

LEMMA ForwardInv == Inv2G /\ (Forward \/ Forward0) => Inv2G'
BY ConnectedHere, Connect1Inv

-------------------------------------------------------------------------------
(* The backward steps *)

\* What a backward step finds in memory: the list of its element, moved, and
\* its candidates
LEMMA BackwardMemory ==
  ASSUME Inv2G, pc = "backward", i \in Window2, NEW n, n = Element2(i)
  PROVE  /\ n \in Layer(index2, level) /\ n \in Ids(index2) /\ n + off \in DOMAIN data
         /\ i \in Nat /\ i + 1 \in b .. Lower(b + BatchSize, Size2) /\ Rank(n) = i
         /\ \A j \in Layer(index2, level) : Rank(j) = i => j = n
         /\ level = 0 => n = i
         /\ n \in DOMAIN lists2 \cap dists2 /\ lists2[n] = SavedList(index2, level, n)
         /\ level = 0 => bytes = {1, 2}
<1>1. /\ InputsOK /\ TypesOK /\ BackwardOK /\ level \in Levels(index2) /\ level \in Nat
  BY UnderwayFacts
<1>2. /\ i \in Nat /\ i < Size2 /\ i + 1 \in b .. Lower(b + BatchSize, Size2)
      /\ Size2 \in Nat
  <2>1. b \in Nat /\ Size2 \in Nat
    BY <1>1, LevelFacts DEF TypesOK, Size2, InputsOK
  <2> QED BY <2>1, BatchAssumption, WindowFacts DEF Window2
<1>3. i \in 0 .. Size2 - 1
  BY <1>2
<1>4. /\ n \in Layer(index2, level) /\ Rank(n) = i
      /\ \A j \in Layer(index2, level) : Rank(j) = i => j = n
      /\ level = 0 => n = i
  BY <1>1, <1>3, Element2Facts
<1>5. n \in Ids(index2) /\ n + off \in DOMAIN data
  BY <1>1, <1>4, MergedFacts DEF Layer
<1>6. n \in DOMAIN lists2 \cap dists2 /\ lists2[n] = SavedList(index2, level, n)
  <2>1. CASE level > 0
    BY <1>1, <1>4, <2>1 DEF BackwardOK, ReadLists
  <2>2. CASE level = 0
    <3>1. n \in Window2
      BY <1>4, <2>2
    <3> QED BY <1>1, <2>2, <3>1 DEF BackwardOK, ReadLists
  <2> QED BY <1>1, <2>1, <2>2
<1>7. level = 0 => bytes = {1, 2}
  BY <1>1 DEF BackwardOK
<1> QED BY <1>2, <1>4, <1>5, <1>6, <1>7

\* The two lists an element of index2 is connected from
LEMMA BackwardLists ==
  ASSUME Inv2G, pc = "backward", i \in Window2, NEW n, n = Element2(i),
         NEW old, old = OldList2(n), NEW mine, mine = cands[n]
  PROVE  /\ GoodList(data, Tops, n + off, level, old) /\ DOMAIN old = Shift(index2.links[level][n], off)
         /\ IsFiniteSet(DOMAIN old) /\ Cardinality(DOMAIN old) <= Mcurmax(M, level)
         /\ GoodList(ForwardVectors, Tops, n + off, level, mine)
         /\ DOMAIN mine \subseteq Ids(index1)
         /\ IsFair(level, n + off, old) /\ IsFair(level, n + off, mine)
<1>1. InputsOK /\ CandidatesOK /\ level \in Levels(index2)
  BY UnderwayFacts
<1>2. /\ n \in Ids(index2) /\ n + off \in DOMAIN data
      /\ n \in DOMAIN lists2 /\ lists2[n] = SavedList(index2, level, n)
  BY BackwardMemory
<1>3. old = Moved(SavedList(index2, level, n), off)
  BY <1>2 DEF OldList2
<1>4. /\ GoodList(data, Tops, n + off, level, old) /\ DOMAIN old = Shift(index2.links[level][n], off)
      /\ IsFiniteSet(DOMAIN old) /\ Cardinality(DOMAIN old) <= Mcurmax(M, level)
  BY <1>1, <1>2, <1>3, SavedList2Good
<1>5. GoodList(ForwardVectors, Tops, n + off, level, mine) /\ mine \in Lists(Ids(index1))
  BY <1>1, <1>2 DEF CandidatesOK
<1>6. DOMAIN mine \subseteq Ids(index1)
  BY <1>5, ListFacts
<1>7. IsFair(level, n + off, old) /\ IsFair(level, n + off, mine)
  <2> PICK o, V, T : o = n + off /\ V = ForwardVectors /\ T = Tops
    OBVIOUS
  <2>1. /\ o \in DOMAIN data /\ GoodList(data, Tops, o, level, old)
        /\ GoodList(ForwardVectors, Tops, o, level, mine)
    BY <1>2, <1>4, <1>5
  <2>2. IsFair(level, o, old) /\ IsFair(level, o, mine)
    BY <1>1, <2>1, SeenIsFair, TrueIsFair
  <2> QED BY <2>2
<1> QED BY <1>4, <1>5, <1>6, <1>7

\* What the cache of the result may hold on the way back
IsCache(h) == h = [m \in DOMAIN h |-> h[m]] /\ DOMAIN h \subseteq Int
HeldOK(h) ==
  /\ IsCache(h)
  /\ level = 0 => \A m \in DOMAIN h : m \in DOMAIN data /\ h[m] = Byte(data[m])
  /\ level = 1 => \A m \in DOMAIN h : m \in DOMAIN data /\ h[m] = data[m]

LEMMA Connect2Inv ==
  ASSUME Inv2G, pc = "backward", i \in Window2, NEW n, n = Element2(i),
         NEW old, old = OldList2(n), NEW held, HeldOK(held),
         NEW order \in Seq(Layer(index2, level)), Connect2(n, old, held, order)
  PROVE  Inv2G'
<1> PICK mine, list : /\ mine = cands[n]
                      /\ list = IF mine = <<>> THEN old ELSE Connected(mine, old, held, level)
  OBVIOUS
<1> DEFINE selects == mine # <<>> /\ Overflows(mine, old, level)
<1>1. /\ cache' = IF selects THEN held ELSE cache
      /\ order2' = IF selects THEN order ELSE order2
      /\ missed' = missed
           \cup {<<"list2", m>> : m \in {n} \ (DOMAIN lists2 \cap dists2)}
           \cup {<<"bytes", m>> : m \in IF selects /\ level = 0 THEN {1, 2} \ bytes ELSE {}}
      /\ file' = [file EXCEPT ![level][n + off] = Slot(list)]
      /\ i' = i + 1
      /\ UNCHANGED <<index1, index2, pc, level, b, ep, cands, lists1, lists2, dists2, bytes>>
  BY DEF Connect2
<1> HIDE DEF selects
<1>2. /\ TypesOK /\ MemoryOK /\ BackwardOK /\ CandidatesOK /\ FitsOK /\ CacheOK /\ InputsOK
      /\ level \in Levels(index2) /\ level \in Nat /\ missed = {}
  BY UnderwayFacts
<1>3. /\ n \in Layer(index2, level) /\ n \in Ids(index2) /\ n + off \in DOMAIN data
      /\ i \in Nat /\ i + 1 \in b .. Lower(b + BatchSize, Size2) /\ Rank(n) = i
      /\ \A j \in Layer(index2, level) : Rank(j) = i => j = n
      /\ n \in DOMAIN lists2 \cap dists2 /\ (level = 0 => bytes = {1, 2})
  BY BackwardMemory
<1>4. /\ IsFair(level, n + off, old) /\ IsFair(level, n + off, mine)
      /\ Cardinality(DOMAIN old) <= Mcurmax(M, level)
  BY BackwardLists
<1>5. /\ file' \in [Levels(index2) -> [DOMAIN data -> AnySlot]]
      /\ IsFairSlot(level, n + off, file'[level][n + off])
      /\ \A l \in Levels(index2), m \in DOMAIN data : FairSlot(l, m) => IsFairSlot(l, m, file'[l][m])
  <2> PICK o : o = n + off
    OBVIOUS
  <2>1. /\ o \in DOMAIN data /\ IsFair(level, o, old) /\ IsFair(level, o, mine)
        /\ file' = [file EXCEPT ![level][o] = Slot(list)]
    BY <1>1, <1>3, <1>4
  <2>2. IsFair(level, o, list) /\ Cardinality(DOMAIN list) <= Mcurmax(M, level)
    <3>1. CASE mine = <<>>
      BY <1>4, <2>1, <3>1
    <3>2. CASE mine # <<>>
      <4>1. list = Connected(mine, old, held, level)
        BY <3>2
      <4> QED BY <1>2, <2>1, <4>1, FairlyConnected
    <3> QED BY <3>1, <3>2
  <2>3. /\ file' \in [Levels(index2) -> [DOMAIN data -> AnySlot]]
        /\ IsFairSlot(level, o, file'[level][o])
        /\ \A l \in Levels(index2), m \in DOMAIN data : FairSlot(l, m) => IsFairSlot(l, m, file'[l][m])
    BY <1>2, <2>1, <2>2, WriteKeeps
  <2> QED BY <2>3
<1>6. /\ cands' \in [Ids(index2) -> Lists(Ids(index1))]
      /\ \A j \in Ids(index2) : GoodList(ForwardVectors, Tops, j + off, level, cands'[j])
  BY <1>1, <1>2 DEF CandidatesOK
<1>7. missed' = {}
  <2>1. {n} \ (DOMAIN lists2 \cap dists2) = {}
    BY <1>3
  <2>2. level = 0 => {1, 2} \ bytes = {}
    BY <1>3
  <2> QED BY <1>1, <1>2, <2>1, <2>2
<1>8. ForwardOK' /\ FitsOK'
  BY <1>1, <1>2 DEF ForwardOK, FitsOK
<1>9. MemoryOK'
  BY <1>1, <1>2 DEF MemoryOK
<1>10. CacheOK'
  <2>1. data' = data /\ \A m : Byte(m)' = Byte(m)
    BY <1>1, SameInputs
  <2>2. HeldOK(cache)
    BY <1>2 DEF CacheOK, HeldOK, IsCache
  <2>3. HeldOK(cache')
    BY <1>1, <2>2
  <2> HIDE DEF data
  <2> QED BY <1>1, <2>1, <2>3 DEF CacheOK, HeldOK, IsCache
<1>11. BackwardOK'
  <2>1. level > 0 => lists2' = ReadLists(index2, Layer(index2, level))' /\ dists2' = Layer(index2, level)'
    BY <1>1, <1>2 DEF BackwardOK, ReadLists
  <2>2. Size2' = Size2 /\ Window2' = Window2
    BY <1>1 DEF Size2, Window2, Window
  <2>3. level = 0 => lists2' = ReadLists(index2, Window2)' /\ dists2' = Window2' /\ bytes' = {1, 2}
    BY <1>1, <1>2, <2>2 DEF BackwardOK, ReadLists
  <2>4. ASSUME NEW j \in Layer(index2, level), Rank(j) < i + 1
        PROVE  IsFairSlot(level, j + off, file'[level][j + off])
    <3>1. CASE j = n
      BY <1>5, <3>1
    <3>2. CASE j # n
      <4>1. Rank(j) < i
        <5>1. Rank(j) # i /\ Rank(j) \in Nat
          BY <1>2, <1>3, <3>2, RankType
        <5> QED BY <1>3, <2>4, <5>1
      <4>2. FairSlot(level, j + off)
        BY <1>1, <1>2, <4>1 DEF BackwardOK, Position2
      <4>3. j + off \in DOMAIN data
        BY <1>2, MergedFacts DEF Layer
      <4> HIDE DEF data, off
      <4> QED BY <1>2, <1>5, <4>2, <4>3
    <3> QED BY <3>1, <3>2
  <2>5. \A j \in Layer(index2, level)' : Rank(j)' < Position2' => FairSlot(level, j + off)'
    <3> SUFFICES ASSUME NEW j \in Layer(index2, level), Rank(j) < i + 1
                 PROVE  FairSlot(level, j + off)'
      BY <1>1 DEF Position2, Rank
    <3> PICK o, slot, l : o = j + off /\ slot = file'[level][j + off] /\ l = level
      OBVIOUS
    <3>1. IsFairSlot(l, o, slot)
      BY <2>4
    <3>2. IsFairSlot(l, o, slot)' <=> IsFairSlot(l, o, slot)
      BY <1>1, SameVectors
    <3>3. off' = off /\ level' = level
      BY <1>1, SameInputs
    <3> HIDE DEF off
    <3> QED BY <3>1, <3>2, <3>3 DEF FairSlot, IsFairSlot
  <2>6. b < Size2 /\ i' \in b .. Lower(b + BatchSize, Size2)
    BY <1>1, <1>2, <1>3 DEF BackwardOK
  <2> QED BY <1>1, <2>1, <2>2, <2>3, <2>5, <2>6 DEF BackwardOK
<1>12. /\ b' \in Nat /\ i' \in Nat
       /\ ep' \in [Ids(index1) -> {NoEntry} \cup Layer(index2, level)]
  BY <1>1, <1>2, <1>3 DEF TypesOK
<1> QED BY <1>1, <1>5, <1>6, <1>7, <1>8, <1>9, <1>10, <1>11, <1>12, StepCore

\* The vectors of ids as a batch of the way back has them
Offers(h, ids) ==
  \A m \in ids : /\ m \in DOMAIN data /\ m \in Int
                 /\ h[m] = IF level = 0 THEN Byte(data[m]) ELSE data[m]

\* The cache after the vectors of the candidates were offered
LEMMA CandidatesHeld ==
  ASSUME InputsOK, level \in Levels(index2), NEW n, DOMAIN cands[n] \subseteq Ids(index1),
         NEW h, h = WithCandidates(n)
  PROVE  /\ h = [m \in DOMAIN h |-> h[m]]
         /\ DOMAIN h = DOMAIN cache \cup DOMAIN cands[n]
         /\ \A m \in DOMAIN cache : h[m] = cache[m]
         /\ Offers(h, DOMAIN cands[n] \ DOMAIN cache)
<1> PICK ids, W : ids = DOMAIN cands[n] /\ W = Vectors(index1, level)
  OBVIOUS
<1>1. h = [m \in DOMAIN cache \cup ids |-> IF m \in DOMAIN cache THEN cache[m] ELSE W[m]]
  BY DEF WithCandidates, Cached
<1>2. Offers(W, ids)
  <2> SUFFICES ASSUME NEW m \in ids
               PROVE  /\ m \in DOMAIN data /\ m \in Int
                      /\ W[m] = IF level = 0 THEN Byte(data[m]) ELSE data[m]
    BY DEF Offers
  <2>1. m \in Ids(index1) /\ m \in DOMAIN data /\ m \in Int /\ data[m] = index1.data[m]
    BY MergedFacts
  <2> HIDE DEF data, Byte
  <2> QED BY <2>1 DEF Vectors
<1> HIDE DEF data, Byte
<1>3. Offers(h, ids \ DOMAIN cache)
  BY <1>1, <1>2 DEF Offers
<1> QED BY <1>1, <1>3

\* The old neighbours of the element at hand, in the order of its list
LEMMA OldNeighbours ==
  ASSUME Inv2G, pc = "backward", i \in Window2, NEW n, n = Element2(i),
         NEW old, old = OldList2(n), NEW s \in Orders(DOMAIN old)
  PROVE  \E K \in Nat :
           /\ s \in [1 .. K -> Int] /\ \A k \in 1 .. K : s[k] - off \in Layer(index2, level)
           /\ \A c \in DOMAIN old : \E k \in 1 .. K : s[k] = c
<1> PICK S : S = DOMAIN old
  OBVIOUS
<1>1. /\ InputsOK /\ level \in Levels(index2) /\ n \in Ids(index2)
      /\ S = Shift(index2.links[level][n], off) /\ IsFiniteSet(S) /\ off \in Nat
  BY UnderwayFacts, BackwardMemory, BackwardLists, MergedFacts
<1>2. index2.links[level][n] \subseteq Layer(index2, level)
  BY <1>1, LevelFacts DEF InputsOK
<1>3. \A c \in S : c \in Int /\ c - off \in Layer(index2, level)
  <2> SUFFICES ASSUME NEW x \in index2.links[level][n]
               PROVE  x + off \in Int /\ (x + off) - off \in Layer(index2, level)
    BY <1>1 DEF Shift
  <2>1. x \in Nat /\ x \in Layer(index2, level)
    BY <1>2 DEF Layer, Ids
  <2>2. (x + off) - off = x /\ x + off \in Int
    BY <1>1, <2>1
  <2> QED BY <2>1, <2>2
<1>4. /\ Cardinality(S) \in Nat /\ s \in [1 .. Cardinality(S) -> S]
      /\ \A c \in S : \E k \in 1 .. Cardinality(S) : s[k] = c
  BY <1>1, OrdersFacts
<1> PICK K : K = Cardinality(S)
  OBVIOUS
<1>5. s \in [1 .. K -> Int] /\ \A k \in 1 .. K : s[k] - off \in Layer(index2, level)
  <2> HIDE DEF off
  <2> QED BY <1>3, <1>4
<1> QED BY <1>4, <1>5

\* Pushing them all, whatever the order
LEMMA PushedHere ==
  ASSUME Inv2G, pc = "backward", level > 0, i \in Window2, NEW n, n = Element2(i),
         NEW old, old = OldList2(n), NEW s \in Orders(DOMAIN old), NEW g,
         NEW h, h = WithCandidates(n), NEW w, w = PushOld(h, order2, s, g)
  PROVE  /\ w[2] \in Seq(Layer(index2, level)) /\ Keeps(<<h, order2>>, w)
         /\ IsCache(w[1]) /\ DOMAIN h \cup DOMAIN old \subseteq DOMAIN w[1]
<1>1. /\ InputsOK /\ level \in Levels(index2) /\ MemoryOK /\ CacheOK
      /\ DOMAIN cands[n] \subseteq Ids(index1)
  BY UnderwayFacts, BackwardLists
<1>2. h = [m \in DOMAIN h |-> h[m]] /\ DOMAIN h \subseteq Int
  <2>1. DOMAIN cache \subseteq Int /\ Ids(index1) \subseteq Int
    BY <1>1 DEF CacheOK, Ids
  <2>2. h = [m \in DOMAIN h |-> h[m]] /\ DOMAIN h = DOMAIN cache \cup DOMAIN cands[n]
    BY <1>1, CandidatesHeld, ZenonT(30)
  <2> QED BY <1>1, <2>1, <2>2
<1> PICK R : R = Int \cup {h[m] : m \in DOMAIN h} \cup {g}
  OBVIOUS
<1>3. Int \subseteq R /\ g \in R /\ h \in Caches(R)
  <2>1. h \in [DOMAIN h -> R]
    BY <1>2
  <2> QED BY <1>2, <2>1, CacheFacts
<1> PICK K \in Nat :
       /\ s \in [1 .. K -> Int] /\ \A k \in 1 .. K : s[k] - off \in Layer(index2, level)
       /\ \A c \in DOMAIN old : \E k \in 1 .. K : s[k] = c
  BY OldNeighbours
<1> PICK p : p = order2
  OBVIOUS
<1>4. p \in Seq(Layer(index2, level))
  BY <1>1 DEF MemoryOK
<1>5. /\ w \in States(R) /\ Keeps(<<h, p>>, w) /\ \A k \in 1 .. K : s[k] \in DOMAIN w[1]
  <2> HIDE DEF off
  <2> QED BY <1>1, <1>3, <1>4, PushOldFacts
<1>6. w[1] \in Caches(R) /\ w[2] \in Seq(Layer(index2, level))
  BY <1>5 DEF States
<1>7. w[1] \in [DOMAIN w[1] -> R] /\ DOMAIN w[1] \subseteq Int
  BY <1>6, CacheFacts
<1>8. DOMAIN h \subseteq DOMAIN w[1]
  BY <1>5 DEF Keeps
<1>9. IsCache(w[1])
  BY <1>7 DEF IsCache
<1>10. DOMAIN old \subseteq DOMAIN w[1]
  BY <1>5
<1> QED BY <1>5, <1>6, <1>8, <1>9, <1>10

\* What is held then is true on level 1.
LEMMA PushedTrue ==
  ASSUME Inv2G, pc = "backward", level > 0, i \in Window2, NEW n, n = Element2(i),
         NEW old, old = OldList2(n), NEW s \in Orders(DOMAIN old), NEW g,
         NEW h, h = WithCandidates(n), NEW w, w = PushOld(h, order2, s, g)
  PROVE  w[2] \in Seq(Layer(index2, level)) /\ HeldOK(w[1])
<1>1. w[2] \in Seq(Layer(index2, level)) /\ Keeps(<<h, order2>>, w)
  BY PushedHere
<1>2. IsCache(w[1])
  BY PushedHere
<1>3. level = 1 => AllTrue(h)
  <2> SUFFICES ASSUME level = 1 PROVE AllTrue(h)
    OBVIOUS
  <2>1. /\ InputsOK /\ level \in Levels(index2) /\ DOMAIN cands[n] \subseteq Ids(index1)
        /\ \A m \in DOMAIN cache : m \in DOMAIN data /\ cache[m] = data[m]
    BY UnderwayFacts, BackwardLists DEF CacheOK
  <2>2. DOMAIN h = DOMAIN cache \cup DOMAIN cands[n]
    BY <2>1, CandidatesHeld
  <2>3. \A m \in DOMAIN cache : h[m] = cache[m]
    BY <2>1, CandidatesHeld
  <2>4. Offers(h, DOMAIN cands[n] \ DOMAIN cache)
    BY <2>1, CandidatesHeld
  <2> HIDE DEF data
  <2> QED BY <2>1, <2>2, <2>3, <2>4 DEF AllTrue, Offers
<1>4. level = 1 => AllTrue(w[1])
  <2> PICK v : v = <<h, order2>>
    OBVIOUS
  <2>1. v[1] = h
    OBVIOUS
  <2> QED BY <1>1, <1>3, <2>1 DEF Keeps
<1> QED BY <1>1, <1>2, <1>4 DEF HeldOK, AllTrue

LEMMA BackwardInv == Inv2G /\ Backward => Inv2G'
<1> SUFFICES ASSUME Inv2G, Backward PROVE Inv2G'
  OBVIOUS
<1>1. pc = "backward" /\ level > 0 /\ i \in Window2
  BY DEF Backward
<1> PICK n, old : n = Element2(i) /\ old = OldList2(n)
  OBVIOUS
<1>2. ASSUME NEW s \in Orders(DOMAIN old), NEW g,
             NEW w, w = PushOld(WithCandidates(n), order2, s, g), Connect2(n, old, w[1], w[2])
      PROVE  Inv2G'
  <2> PICK h, held, order : h = WithCandidates(n) /\ held = w[1] /\ order = w[2]
    OBVIOUS
  <2>1. HeldOK(w[1]) /\ w[2] \in Seq(Layer(index2, level))
    BY <1>1, <1>2, PushedTrue
  <2>2. HeldOK(held) /\ order \in Seq(Layer(index2, level)) /\ Connect2(n, old, held, order)
    BY <1>2, <2>1
  <2> QED BY <1>1, <2>2, Connect2Inv
<1>3. \E s \in Orders(DOMAIN old), g \in Garbage :
        LET pushed == PushOld(WithCandidates(n), order2, s, g)
        IN  Connect2(n, old, pushed[1], pushed[2])
  BY DEF Backward
<1> QED BY <1>2, <1>3

\* On level 0 bytes are offered and pushed, and all that selection reads is held.
LEMMA BytesHeld ==
  ASSUME Inv2G, pc = "backward", level = 0, i \in Window2, NEW n, n = Element2(i),
         NEW old, old = OldList2(n), NEW held, held = PushBytes(WithCandidates(n), old)
  PROVE  HeldOK(held) /\ DOMAIN cands[n] \cup DOMAIN old \subseteq DOMAIN held
<1> PICK h : h = WithCandidates(n)
  OBVIOUS
<1>1. /\ InputsOK /\ level \in Levels(index2) /\ CacheOK
  BY UnderwayFacts
<1>2. DOMAIN cands[n] \subseteq Ids(index1) /\ GoodList(data, Tops, n + off, level, old)
  BY BackwardLists
<1>3. \A m \in DOMAIN cache : m \in DOMAIN data /\ cache[m] = Byte(data[m])
  BY <1>1 DEF CacheOK
<1>4. DOMAIN data \subseteq Int /\ DOMAIN old \subseteq DOMAIN data
  BY <1>1, <1>2, MergedFacts, ListFacts DEF GoodList
<1>5. /\ DOMAIN h = DOMAIN cache \cup DOMAIN cands[n]
      /\ \A m \in DOMAIN cache : h[m] = cache[m]
  BY <1>1, <1>2, CandidatesHeld
<1>6. Offers(h, DOMAIN cands[n] \ DOMAIN cache)
  BY <1>1, <1>2, CandidatesHeld
<1> HIDE DEF data, Byte
<1>7. \A m \in DOMAIN h : m \in DOMAIN data /\ h[m] = Byte(data[m])
  <2>1. \A m \in DOMAIN cands[n] \ DOMAIN cache : m \in DOMAIN data /\ h[m] = Byte(data[m])
    BY <1>6 DEF Offers
  <2> QED BY <1>3, <1>5, <2>1
<1>8. held = [m \in DOMAIN h \cup DOMAIN old |-> IF m \in DOMAIN h THEN h[m] ELSE Byte(data[m])]
  BY DEF PushBytes
<1>9. DOMAIN held = DOMAIN h \cup DOMAIN old /\ held = [m \in DOMAIN held |-> held[m]]
  BY <1>8
<1>10. \A m \in DOMAIN held : m \in DOMAIN data /\ held[m] = Byte(data[m])
  BY <1>4, <1>7, <1>8
<1>11. HeldOK(held)
  BY <1>4, <1>9, <1>10 DEF HeldOK, IsCache
<1> QED BY <1>5, <1>9, <1>11

LEMMA Backward0Inv == Inv2G /\ Backward0 => Inv2G'
<1> SUFFICES ASSUME Inv2G, Backward0 PROVE Inv2G'
  OBVIOUS
<1>1. pc = "backward" /\ level = 0 /\ i \in Window2
  BY DEF Backward0
<1> PICK n, old, held, order :
      n = i /\ old = OldList2(n) /\ held = PushBytes(WithCandidates(n), old) /\ order = order2
  OBVIOUS
<1>2. Connect2(n, old, held, order)
  BY DEF Backward0
<1>3. n = Element2(i)
  BY <1>1, BackwardMemory
<1>4. HeldOK(held)
  BY <1>1, <1>3, BytesHeld
<1>5. order \in Seq(Layer(index2, level))
  BY <1>1, UnderwayFacts DEF MemoryOK
<1> QED BY <1>1, <1>2, <1>3, <1>4, <1>5, Connect2Inv

\* Every step keeps the invariant.
LEMMA StayingInv == Inv2G /\ UNCHANGED vars => Inv2G'
<1> SUFFICES ASSUME Inv2G, UNCHANGED vars PROVE Inv2G'
  OBVIOUS
<1>1. UNCHANGED <<index1, index2, file, pc, level, b, i, ep, cands, lists1, lists2, dists2,
                  recent1, order2, cache, bytes, missed>>
  BY DEF vars, memory
<1>2. missed' = {} /\ InputsOK'
  BY <1>1 DEF Inv2G, InputsOK
<1>3. ASSUME Untouched PROVE Untouched'
  BY <1>1, <1>3 DEF Untouched
<1>4. ASSUME Underway PROVE Underway'
  <2>1. /\ InputsOK /\ TypesOK /\ MemoryOK /\ FileOK /\ ForwardOK /\ CandidatesOK /\ BackwardOK
        /\ FitsOK /\ CacheOK /\ index1.maxlevel_ <= index2.maxlevel_
    BY <1>4 DEF Underway, Inv2G
  <2>2. /\ data' = data /\ Tops' = Tops /\ off' = off /\ AnySlot' = AnySlot
        /\ ForwardVectors' = ForwardVectors
    BY <1>1, SameVectors
  <2>3. FileOK'
    BY <1>1, <2>1, SameFile
  <2>4. TypesOK'
    <3> HIDE DEF data, AnySlot
    <3> QED BY <1>1, <2>1, <2>2 DEF TypesOK
  <2>5. MemoryOK' /\ FitsOK'
    BY <1>1, <2>1 DEF MemoryOK, FitsOK
  <2>6. ForwardOK'
    <3>1. Window1' = Window1
      BY <1>1 DEF Window1, Window
    <3> QED BY <1>1, <2>1, <3>1 DEF ForwardOK, ReadLists
  <2>7. CandidatesOK'
    <3> HIDE DEF data, Tops, off, ForwardVectors
    <3> QED BY <1>1, <2>1, <2>2 DEF CandidatesOK
  <2>8. CacheOK'
    <3> HIDE DEF data
    <3> QED BY <1>1, <2>1, <2>2 DEF CacheOK
  <2>9. BackwardOK'
    <3>1. Size2' = Size2 /\ Window2' = Window2 /\ Position2' = Position2
      BY <1>1 DEF Size2, Window2, Window, Position2
    <3>2. pc \in {"batch2", "backward"} /\ level > 0 =>
            lists2' = ReadLists(index2, Layer(index2, level))' /\ dists2' = Layer(index2, level)'
      BY <1>1, <2>1 DEF BackwardOK, ReadLists
    <3>3. pc = "backward" /\ level = 0 => lists2' = ReadLists(index2, Window2)' /\ dists2' = Window2'
      BY <1>1, <2>1, <3>1 DEF BackwardOK, ReadLists
    <3>4. pc \in {"batch2", "backward"} =>
            \A j \in Layer(index2, level)' : Rank(j)' < Position2' => FairSlot(level, j + off)'
      <4> SUFFICES ASSUME pc \in {"batch2", "backward"}
                   PROVE  \A j \in Layer(index2, level)' : Rank(j)' < Position2' => FairSlot(level, j + off)'
        OBVIOUS
      <4>1. \A j \in Layer(index2, level) : Rank(j) < Position2' => FairSlot(level, j + off)
        BY <2>1, <3>1 DEF BackwardOK
      <4> QED BY <1>1, <4>1, SameFairRanks
    <3> QED BY <1>1, <2>1, <3>1, <3>2, <3>3, <3>4 DEF BackwardOK
  <2> QED BY <1>1, <2>1, <2>3, <2>4, <2>5, <2>6, <2>7, <2>8, <2>9 DEF Underway
<1> QED BY <1>2, <1>3, <1>4 DEF Inv2G

LEMMA Next2GInv == Inv2G /\ [Next]_vars => Inv2G'
<1> SUFFICES ASSUME Inv2G, [Next]_vars PROVE Inv2G'
  OBVIOUS
<1>1. CASE UNCHANGED vars
  BY <1>1, StayingInv
<1>2. CASE ThrowWrongCase \/ Prepare \/ LoadLevel \/ LoadLevel0 \/ NextLevel
  BY <1>2, ThrowWrongCaseInv, PrepareInv, LoadLevelInv, NextLevelInv
<1>3. CASE LoadLevelFails \/ LoadBatch1Fails \/ TurnBackFails \/ LoadBatch2Fails \/ KeyNotFound
  BY <1>3, LoadLevelFailsInv, GivingUpInv
<1>4. CASE LoadBatch1 \/ PassBy \/ Forward \/ Forward0 \/ EndBatch1 \/ TurnBack \/ TurnBack0
  BY <1>4, LoadBatch1Inv, PassByInv, ForwardInv, EndBatch1Inv, TurnBackInv
<1>5. CASE LoadBatch2 \/ Backward \/ Backward0 \/ EndBatch2
  BY <1>5, LoadBatch2Inv, BackwardInv, Backward0Inv, EndBatch2Inv
<1> QED BY <1>1, <1>2, <1>3, <1>4, <1>5 DEF Next, Stopped

-------------------------------------------------------------------------------
(* What of a batch of index1 stays in its cache *)

Once(s) == \A x, y \in DOMAIN s : s[x] = s[y] => x = y

\* The elements of a batch are in the cache of index1 until the batch ends,
\* unless they and their neighbours are too many for it.
RecentInv ==
  /\ recent1 \in Seq(Nat) /\ Once(recent1)
  /\ pc \notin {"forward", "key not found"} => recent1 = <<>>
  /\ pc = "forward" /\ Cardinality(Needed1) <= Limit(level) =>
       b .. b + BatchSize - 1 \subseteq Named(recent1) /\ Named(recent1) \subseteq Needed1
  /\ pc = "key not found" => Cardinality(Needed1) > Limit(level)

LEMMA EmptyRecency == <<>> \in Seq(Nat) /\ Once(<<>>) /\ Named(<<>>) = {}
<1>1. DOMAIN <<>> = {}
  OBVIOUS
<1>2. <<>> \in Seq(Nat)
  OBVIOUS
<1>3. Once(<<>>)
  BY <1>1 DEF Once
<1>4. Named(<<>>) = {}
  BY <1>1 DEF Named
<1> QED BY <1>2, <1>3, <1>4

\* Using a key evicts none of a set that fits the cache, if only keys of the
\* set are there.
LEMMA UsedFacts ==
  ASSUME level \in Nat, NEW s \in Seq(Nat), Once(s), NEW k \in Nat
  PROVE  /\ Used(s, k) \in Seq(Nat) /\ Once(Used(s, k))
         /\ \A U \in SUBSET Nat :
              IsFiniteSet(U) /\ Cardinality(U) <= Limit(level) /\ Named(s) \subseteq U /\ k \in U =>
                Named(Used(s, k)) = Named(s) \cup {k}
<1> PICK room \in Nat : room = Limit(level) /\ room # 0
  BY BatchAssumption DEF Limit
<1> DEFINE kept == IF k \in Named(s) \/ Len(s) < room THEN s ELSE WithoutOldest(s)
<1>1. Used(s, k) = ToFront(kept, k)
  BY DEF Used
<1>2. kept \in Seq(Nat) /\ Once(kept)
  <2>1. CASE k \in Named(s) \/ Len(s) < room
    BY <2>1
  <2>2. CASE ~ (k \in Named(s) \/ Len(s) < room)
    <3>1. s # <<>>
      BY <2>2
    <3>2. /\ WithoutOldest(s) \in Seq(Nat)
          /\ \A x, y \in DOMAIN WithoutOldest(s) :
               WithoutOldest(s)[x] = WithoutOldest(s)[y] => x = y
      BY <3>1, WithoutOldestFacts DEF Once
    <3> QED BY <2>2, <3>2 DEF Once
  <2> QED BY <2>1, <2>2
<1> HIDE DEF kept
<1>3. /\ ToFront(kept, k) \in Seq(Nat) /\ Once(ToFront(kept, k))
      /\ Named(ToFront(kept, k)) = Named(kept) \cup {k}
  BY <1>2, ToFrontFacts DEF Once
<1>4. ASSUME NEW U \in SUBSET Nat, IsFiniteSet(U), Cardinality(U) <= room, Named(s) \subseteq U, k \in U
      PROVE  kept = s
  <2>1. CASE k \in Named(s)
    BY <2>1 DEF kept
  <2>2. CASE k \notin Named(s)
    <3>1. IsFiniteSet(Named(s)) /\ Cardinality(Named(s)) = Len(s)
      BY NamedCount DEF Once
    <3>2. Cardinality(Named(s)) < Cardinality(U)
      <4>1. Named(s) # U
        BY <1>4, <2>2
      <4>2. Cardinality(Named(s)) <= Cardinality(U) /\ (Cardinality(Named(s)) = Cardinality(U) => Named(s) = U)
        BY <1>4, FS_Subset
      <4>3. Cardinality(Named(s)) \in Nat /\ Cardinality(U) \in Nat
        BY <1>4, <3>1, FS_CardinalityType
      <4> QED BY <4>1, <4>2, <4>3
    <3>3. Len(s) < room
      <4>1. Cardinality(U) \in Nat /\ Len(s) \in Nat
        BY <1>4, FS_CardinalityType
      <4> QED BY <1>4, <3>1, <3>2, <4>1
    <3> QED BY <3>3 DEF kept
  <2> QED BY <2>1, <2>2
<1> QED BY <1>1, <1>3, <1>4

\* So does using some of them one after the other.
LEMMA UsedAllFacts ==
  ASSUME level \in Nat, NEW recent \in Seq(Nat), Once(recent), NEW s \in Seq(Nat)
  PROVE  /\ UsedAll(recent, s) \in Seq(Nat) /\ Once(UsedAll(recent, s))
         /\ Len(s) = 0 => UsedAll(recent, s) = recent
         /\ \A U \in SUBSET Nat :
              IsFiniteSet(U) /\ Cardinality(U) <= Limit(level) /\ Named(recent) \subseteq U
                /\ Named(s) \subseteq U =>
                Named(UsedAll(recent, s)) = Named(recent) \cup Named(s)
<1> DEFINE N == Len(s)
           S == {r \in Seq(Nat) : Once(r)}
           next(p, k) == Used(p, s[k])
           F == [p \in (1 .. N) \X S |-> next(p[2], p[1])]
           eq(g) == g = [k \in 0 .. N |-> IF k = 0 THEN recent ELSE next(g[k - 1], k)]
<1>1. N \in Nat /\ (\A k \in 1 .. N : s[k] \in Nat) /\ DOMAIN s = 1 .. N /\ recent \in S
  OBVIOUS
<1> HIDE DEF N
<1>2. ASSUME NEW k \in 1 .. N, NEW p \in S PROVE next(p, k) \in S
  BY <1>1, UsedFacts
<1>3. PICK g : g \in [0 .. N -> S] /\ eq(g)
  <2>1. IsStep(F, N, S)
    <3> HIDE DEF next, S
    <3> QED BY <1>2 DEF IsStep
  <2>2. PICK g : IsMadeBy(g, F, N, S, recent)
    <3> HIDE DEF F, S
    <3> QED BY <1>1, <2>1, PrimitiveRecursion
  <2>3. ASSUME NEW k \in 0 .. N PROVE g[k] = IF k = 0 THEN recent ELSE next(g[k - 1], k)
    <3>1. CASE k = 0
      <4> HIDE DEF F, S
      <4> QED BY <2>2, <3>1 DEF IsMadeBy
    <3>2. CASE k # 0
      <4>1. k \in 1 .. N /\ k - 1 \in 0 .. N
        BY <1>1, <3>2
      <4>2. g[k - 1] \in S /\ g[k] = F[<<k, g[k - 1]>>]
        <5> HIDE DEF F, S
        <5> QED BY <2>2, <3>2, <4>1 DEF IsMadeBy
      <4>3. F[<<k, g[k - 1]>>] = next(g[k - 1], k)
        <5> HIDE DEF next, S
        <5> QED BY <4>1, <4>2
      <4> HIDE DEF next, F, S
      <4> QED BY <3>2, <4>2, <4>3
    <3> QED BY <3>1, <3>2
  <2>4. g = [k \in 0 .. N |-> g[k]] /\ g \in [0 .. N -> S]
    <3> HIDE DEF F, S
    <3> QED BY <2>2 DEF IsMadeBy
  <2> HIDE DEF next, S
  <2> QED BY <2>3, <2>4
<1>4. PICK f : eq(f) /\ UsedAll(recent, s) = f[N]
  <2>1. eq(CHOOSE g2 : eq(g2))
    BY <1>3
  <2>2. UsedAll(recent, s) = (CHOOSE g2 : eq(g2))[N]
    BY Zenon DEF UsedAll, next, N
  <2> QED BY <2>1, <2>2
<1> HIDE DEF next, S
<1>5. ASSUME NEW k \in 0 .. N PROVE f[k] = IF k = 0 THEN recent ELSE next(f[k - 1], k)
  BY <1>4
<1>6. f[0] = recent /\ \A k \in Nat : k + 1 <= N => f[k + 1] = next(f[k], k + 1)
  <2>1. 0 \in 0 .. N
    BY <1>1
  <2>2. ASSUME NEW k \in Nat, k + 1 <= N PROVE f[k + 1] = next(f[k], k + 1)
    <3>1. k + 1 \in 0 .. N /\ k + 1 # 0 /\ (k + 1) - 1 = k
      BY <1>1, <2>2
    <3> QED BY <1>5, <3>1
  <2> QED BY <1>5, <2>1, <2>2
<1>7. \A k \in Nat : k <= N => f[k] \in S
  <2> DEFINE T == {k \in Nat : k <= N => f[k] \in S}
  <2>1. 0 \in T
    BY <1>1, <1>6
  <2>2. ASSUME NEW k \in Nat, k \in T PROVE k + 1 \in T
    <3> SUFFICES ASSUME k + 1 <= N PROVE f[k + 1] \in S
      OBVIOUS
    <3>1. k + 1 \in 1 .. N /\ k <= N
      BY <1>1
    <3> QED BY <1>2, <1>6, <2>2, <3>1
  <2>3. \A k \in Nat : k \in T
    <3> HIDE DEF T
    <3> QED BY <2>1, <2>2, SetInduction
  <2> QED BY <2>3
<1>8. ASSUME NEW U \in SUBSET Nat, IsFiniteSet(U), Cardinality(U) <= Limit(level), Named(recent) \subseteq U,
             Named(s) \subseteq U
      PROVE  Named(f[N]) = Named(recent) \cup Named(s)
  <2> DEFINE T == {k \in Nat : k <= N => Named(f[k]) = Named(recent) \cup {s[x] : x \in 1 .. k}}
  <2>1. 0 \in T
    BY <1>6
  <2>2. ASSUME NEW k \in Nat, k \in T PROVE k + 1 \in T
    <3> SUFFICES ASSUME k + 1 <= N
                 PROVE  Named(f[k + 1]) = Named(recent) \cup {s[x] : x \in 1 .. k + 1}
      OBVIOUS
    <3>1. k + 1 \in 1 .. N /\ k <= N /\ \A x \in 1 .. k : x \in 1 .. N
      BY <1>1
    <3>2. \A x \in 1 .. N : s[x] \in U
      BY <1>1, <1>8 DEF Named
    <3>3. f[k] \in Seq(Nat) /\ Once(f[k]) /\ Named(f[k]) = Named(recent) \cup {s[x] : x \in 1 .. k}
      BY <1>7, <2>2, <3>1 DEF S
    <3>4. Named(f[k]) \subseteq U /\ s[k + 1] \in U /\ s[k + 1] \in Nat
      BY <1>1, <1>8, <3>1, <3>2, <3>3
    <3>5. Named(f[k + 1]) = Named(f[k]) \cup {s[k + 1]}
      <4>1. f[k + 1] = Used(f[k], s[k + 1])
        BY <1>6 DEF next
      <4> QED BY <1>8, <3>3, <3>4, <4>1, UsedFacts
    <3>6. {s[x] : x \in 1 .. k + 1} = {s[x] : x \in 1 .. k} \cup {s[k + 1]}
      <4>1. \A x \in 1 .. k + 1 : x \in 1 .. k \/ x = k + 1
        OBVIOUS
      <4>2. \A x \in 1 .. k : x \in 1 .. k + 1
        OBVIOUS
      <4>3. k + 1 \in 1 .. k + 1
        OBVIOUS
      <4> QED BY <4>1, <4>2, <4>3
    <3> QED BY <3>3, <3>5, <3>6
  <2>3. \A k \in Nat : k \in T
    <3> HIDE DEF T
    <3> QED BY <2>1, <2>2, SetInduction
  <2>4. Named(f[N]) = Named(recent) \cup {s[x] : x \in 1 .. N}
    <3>1. N \in T
      <4> HIDE DEF T
      <4> QED BY <1>1, <2>3
    <3>2. N <= N
      BY <1>1
    <3> HIDE DEF eq, next, F, S
    <3> QED BY <3>1, <3>2
  <2>5. Named(s) = {s[x] : x \in 1 .. N}
    BY <1>1 DEF Named
  <2> QED BY <2>4, <2>5
<1>9. f[N] \in Seq(Nat) /\ Once(f[N])
  BY <1>1, <1>7 DEF S
<1>10. Len(s) = 0 => f[N] = recent
  BY <1>6 DEF N
<1> QED BY <1>4, <1>8, <1>9, <1>10

\* A batch needs finitely many vectors of index1.
NeededOK ==
  /\ Needed1 \in SUBSET Nat /\ IsFiniteSet(Needed1) /\ Cardinality(Needed1) \in Nat
  /\ b .. b + BatchSize - 1 \subseteq Needed1 /\ Window1 \subseteq b .. b + BatchSize - 1
  /\ level \in Nat /\ b \in Nat /\ BatchSize \in Nat
  /\ \A n \in DOMAIN lists1 : DOMAIN lists1[n] \subseteq Needed1 /\ IsFiniteSet(DOMAIN lists1[n])

LEMMA NeededFacts == Inv2G /\ pc = "forward" => NeededOK
<1> SUFFICES ASSUME Inv2G, pc = "forward" PROVE NeededOK
  OBVIOUS
<1>1. /\ InputsOK /\ ForwardOK /\ level \in Levels(index2) /\ level \in Nat /\ b \in Nat
      /\ BatchSize \in Nat /\ BatchSize # 0
  BY UnderwayFacts, BatchAssumption DEF TypesOK
<1>2. index1.count \in Nat /\ Ids(index1) = 0 .. index1.count - 1
  BY <1>1 DEF InputsOK, WellFormed, Ids
<1>3. ASSUME NEW n \in DOMAIN lists1
      PROVE  DOMAIN lists1[n] \subseteq Ids(index1) /\ IsFiniteSet(DOMAIN lists1[n])
  <2>1. n \in Layer(index1, level) /\ lists1[n] = SavedList(index1, level, n)
    BY <1>1 DEF ForwardOK, ReadLists
  <2>2. n \in Ids(index1) /\ level \in 0 .. index1.maxlevel_
    BY <1>1, <2>1 DEF InputsOK, WellFormed, Layer
  <2>3. index1.links[level][n] \subseteq Ids(index1) /\ IsFiniteSet(index1.links[level][n])
    BY <1>1, <2>2 DEF InputsOK, WellFormed
  <2> QED BY <2>1, <2>3 DEF SavedList
<1> DEFINE B == b .. b + BatchSize - 1
           near == UNION {DOMAIN lists1[n] : n \in DOMAIN lists1}
<1>4. B \in SUBSET Nat /\ IsFiniteSet(B) /\ Window1 \subseteq B
  <2>1. IsFiniteSet(B)
    <3>1. b \in Int /\ b + BatchSize - 1 \in Int
      BY <1>1
    <3> QED BY <3>1, FS_Interval
  <2>2. Window1 \subseteq B
    BY <1>1, <1>2 DEF Window1, Window, Lower
  <2> QED BY <1>1, <2>1, <2>2
<1>5. near \subseteq Ids(index1)
  BY <1>3
<1>6. Ids(index1) \in SUBSET Nat /\ IsFiniteSet(Ids(index1))
  <2>1. 0 \in Int /\ index1.count - 1 \in Int
    BY <1>2
  <2>2. IsFiniteSet(0 .. index1.count - 1)
    BY <2>1, FS_Interval
  <2> QED BY <1>2, <2>2
<1>7. Needed1 = B \cup near
  BY DEF Needed1
<1>8. IsFiniteSet(near)
  BY <1>5, <1>6, FS_Subset
<1> HIDE DEF B
<1>9. \A n \in DOMAIN lists1 : DOMAIN lists1[n] \subseteq near
  OBVIOUS
<1> HIDE DEF near
<1>10. /\ Needed1 \in SUBSET Nat /\ IsFiniteSet(Needed1) /\ B \subseteq Needed1
       /\ near \subseteq Needed1
  BY <1>4, <1>5, <1>6, <1>7, <1>8, FS_Union
<1>11. Cardinality(Needed1) \in Nat
  BY <1>10, FS_CardinalityType
<1> QED BY <1>1, <1>3, <1>4, <1>9, <1>10, <1>11 DEF NeededOK, B

LEMMA InitRecent == Init => RecentInv
BY EmptyRecency DEF Init, RecentInv

\* A step outside of the searches of a batch
LEMMA ElsewhereRecent ==
  ASSUME pc' \notin {"forward", "key not found"}, recent1' = <<>>
  PROVE  RecentInv'
BY EmptyRecency DEF RecentInv, Once

LEMMA LoadBatch1Recent == Inv2G /\ Inv2G' /\ RecentInv /\ LoadBatch1 => RecentInv'
<1> SUFFICES ASSUME Inv2G, Inv2G', RecentInv, LoadBatch1 PROVE RecentInv'
  OBVIOUS
<1> DEFINE s == [k \in 1 .. BatchSize |-> b + k - 1]
<1>1. /\ pc' = "forward" /\ recent1 = <<>> /\ recent1' = UsedAll(<<>>, s)
      /\ UNCHANGED <<level, b>>
  BY DEF LoadBatch1, RecentInv
<1>2. NeededOK'
  <2>1. (Inv2G /\ pc = "forward")'
    BY <1>1
  <2> QED BY <2>1, NeededFacts, PTL
<1>3. level \in Nat /\ b \in Nat /\ BatchSize \in Nat
  BY <1>1, <1>2 DEF NeededOK
<1>4. s \in Seq(Nat) /\ Named(s) = b .. b + BatchSize - 1
  <2>1. s \in Seq(Nat) /\ DOMAIN s = 1 .. BatchSize /\ \A k \in 1 .. BatchSize : s[k] = b + k - 1
    BY <1>3
  <2>2. \A n \in b .. b + BatchSize - 1 : n - b + 1 \in 1 .. BatchSize /\ s[n - b + 1] = n
    BY <1>3, <2>1
  <2>3. \A k \in 1 .. BatchSize : b + k - 1 \in b .. b + BatchSize - 1
    BY <1>3
  <2>4. Named(s) = {s[k] : k \in 1 .. BatchSize}
    BY <2>1 DEF Named
  <2> HIDE DEF s
  <2> QED BY <2>1, <2>2, <2>3, <2>4
<1> HIDE DEF s
<1>5. <<>> \in Seq(Nat) /\ Once(<<>>) /\ Named(<<>>) = {}
  BY EmptyRecency
<1>6. /\ UsedAll(<<>>, s) \in Seq(Nat) /\ Once(UsedAll(<<>>, s))
      /\ \A U \in SUBSET Nat :
           IsFiniteSet(U) /\ Cardinality(U) <= Limit(level) /\ Named(s) \subseteq U =>
             Named(UsedAll(<<>>, s)) = Named(s)
  <2> PICK e : e = <<>>
    OBVIOUS
  <2>1. e \in Seq(Nat) /\ Once(e) /\ Named(e) = {}
    BY <1>5
  <2>2. /\ UsedAll(e, s) \in Seq(Nat) /\ Once(UsedAll(e, s))
        /\ \A U \in SUBSET Nat :
             IsFiniteSet(U) /\ Cardinality(U) <= Limit(level) /\ Named(e) \subseteq U
               /\ Named(s) \subseteq U => Named(UsedAll(e, s)) = Named(e) \cup Named(s)
    BY <1>3, <1>4, <2>1, UsedAllFacts
  <2> QED BY <2>1, <2>2
<1>7. Limit(level)' = Limit(level)
  BY <1>1 DEF Limit
<1>8. ASSUME (Cardinality(Needed1) <= Limit(level))'
      PROVE  (b .. b + BatchSize - 1 \subseteq Named(recent1) /\ Named(recent1) \subseteq Needed1)'
  <2> PICK U : U = Needed1'
    OBVIOUS
  <2>1. U \in SUBSET Nat /\ IsFiniteSet(U) /\ Cardinality(U) <= Limit(level) /\ b .. b + BatchSize - 1 \subseteq U
    BY <1>1, <1>2, <1>7, <1>8 DEF NeededOK
  <2>2. Named(UsedAll(<<>>, s)) = b .. b + BatchSize - 1
    BY <1>4, <1>6, <2>1
  <2>3. Named(recent1)' = b .. b + BatchSize - 1
    <3> PICK r : r = UsedAll(<<>>, s)
      OBVIOUS
    <3>1. recent1' = r /\ Named(r) = b .. b + BatchSize - 1
      BY <1>1, <2>2
    <3> QED BY <3>1 DEF Named
  <2> QED BY <1>1, <2>1, <2>3
<1>9. recent1' \in Seq(Nat) /\ Once(recent1)'
  BY <1>1, <1>6 DEF Once
<1> QED BY <1>1, <1>8, <1>9 DEF RecentInv

\* What the searches of a batch touch is needed by it.
LEMMA SearchedRecent ==
  ASSUME Inv2G, RecentInv, pc = "forward", i \in Window1, NEW s \in Seq(Nat), Named(s) \subseteq Needed1,
         recent1' = UsedAll(Used(recent1, i), s), UNCHANGED <<pc, level, b, lists1>>
  PROVE  RecentInv'
<1> PICK r : r = Used(recent1, i)
  OBVIOUS
<1> PICK v : v = UsedAll(r, s)
  OBVIOUS
<1>1. NeededOK
  BY NeededFacts
<1>2. i \in Nat /\ i \in Needed1 /\ level \in Nat /\ recent1 \in Seq(Nat) /\ Once(recent1)
  BY <1>1 DEF NeededOK, RecentInv
<1>3. /\ r \in Seq(Nat) /\ Once(r)
      /\ \A U \in SUBSET Nat :
           IsFiniteSet(U) /\ Cardinality(U) <= Limit(level) /\ Named(recent1) \subseteq U /\ i \in U =>
             Named(r) = Named(recent1) \cup {i}
  BY <1>2, UsedFacts
<1>4. /\ v \in Seq(Nat) /\ Once(v)
      /\ \A U \in SUBSET Nat :
           IsFiniteSet(U) /\ Cardinality(U) <= Limit(level) /\ Named(r) \subseteq U
             /\ Named(s) \subseteq U => Named(v) = Named(r) \cup Named(s)
  BY <1>2, <1>3, UsedAllFacts
<1>5. recent1' = v /\ Needed1' = Needed1 /\ Limit(level)' = Limit(level)
  BY DEF Needed1, Limit
<1>6. ASSUME Cardinality(Needed1) <= Limit(level)
      PROVE  b .. b + BatchSize - 1 \subseteq Named(v) /\ Named(v) \subseteq Needed1
  <2> PICK U : U = Needed1
    OBVIOUS
  <2>1. /\ U \in SUBSET Nat /\ IsFiniteSet(U) /\ Cardinality(U) <= Limit(level) /\ i \in U
        /\ Named(s) \subseteq U
    BY <1>1, <1>2, <1>6 DEF NeededOK
  <2>2. b .. b + BatchSize - 1 \subseteq Named(recent1) /\ Named(recent1) \subseteq U
    BY <1>6 DEF RecentInv
  <2>3. Named(r) = Named(recent1) \cup {i}
    BY <1>3, <2>1, <2>2
  <2>4. Named(r) \subseteq U
    BY <2>1, <2>2, <2>3
  <2>5. Named(v) = Named(r) \cup Named(s)
    BY <1>4, <2>1, <2>4
  <2> QED BY <2>1, <2>2, <2>3, <2>4, <2>5
<1>7. Named(recent1)' = Named(v) /\ (Once(recent1)' <=> Once(v))
  BY <1>5 DEF Named, Once
<1> QED BY <1>4, <1>5, <1>6, <1>7 DEF RecentInv

LEMMA PassByRecent == Inv2G /\ RecentInv /\ PassBy => RecentInv'
<1> SUFFICES ASSUME Inv2G, RecentInv, PassBy PROVE RecentInv'
  OBVIOUS
<1> PICK r : r = Used(recent1, i)
  OBVIOUS
<1>1. /\ pc = "forward" /\ i \in Window1 /\ recent1' = r
      /\ UNCHANGED <<pc, level, b, lists1>>
  BY DEF PassBy
<1> PICK s : s = <<>>
  OBVIOUS
<1>2. s \in Seq(Nat) /\ Len(s) = 0 /\ Named(s) \subseteq Needed1
  BY EmptyRecency
<1>3. r \in Seq(Nat) /\ Once(r) /\ level \in Nat
  <2>1. NeededOK
    BY <1>1, NeededFacts
  <2>2. i \in Nat /\ level \in Nat /\ recent1 \in Seq(Nat) /\ Once(recent1)
    BY <1>1, <2>1 DEF NeededOK, RecentInv
  <2> QED BY <2>2, UsedFacts
<1>4. recent1' = UsedAll(Used(recent1, i), s)
  <2>1. UsedAll(r, s) = r
    BY <1>2, <1>3, UsedAllFacts
  <2> QED BY <1>1, <2>1
<1> QED BY <1>1, <1>2, <1>4, SearchedRecent

LEMMA Connect1Recent == Inv2G /\ RecentInv /\ Connect1 => RecentInv'
<1> SUFFICES ASSUME Inv2G, RecentInv, Connect1 PROVE RecentInv'
  OBVIOUS
<1> PICK found, old : found = Found1 /\ old = IF i \in DOMAIN lists1 THEN lists1[i] ELSE <<>>
  OBVIOUS
<1>1. /\ pc = "forward" /\ i \in Window1 /\ UNCHANGED <<pc, level, b, lists1>>
      /\ \E s \in IF Overflows(found, old, level) THEN Orders(DOMAIN old) ELSE {<<>>} :
           recent1' = UsedAll(Used(recent1, i), s)
  BY DEF Connect1
<1>2. PICK s : /\ s \in Orders(DOMAIN old) \/ s = <<>>
               /\ recent1' = UsedAll(Used(recent1, i), s)
  BY <1>1
<1>3. NeededOK
  BY <1>1, NeededFacts
<1>4. DOMAIN old \subseteq Needed1 /\ IsFiniteSet(DOMAIN old)
  <2>1. CASE i \in DOMAIN lists1
    BY <1>3, <2>1 DEF NeededOK
  <2>2. CASE i \notin DOMAIN lists1
    <3>1. DOMAIN old = {}
      BY <2>2
    <3> QED BY <3>1, FS_EmptySet
  <2> QED BY <2>1, <2>2
<1>5. s \in Seq(Nat) /\ Named(s) \subseteq Needed1
  <2>1. CASE s = <<>>
    BY <2>1 DEF Named
  <2>2. CASE s \in Orders(DOMAIN old)
    <3> PICK T, K : T = DOMAIN old /\ K = Cardinality(T)
      OBVIOUS
    <3>1. K \in Nat /\ s \in [1 .. K -> T] /\ T \subseteq Nat
      BY <1>3, <1>4, <2>2, OrdersFacts DEF NeededOK
    <3>2. s \in Seq(Nat) /\ DOMAIN s = 1 .. K /\ \A k \in 1 .. K : s[k] \in T
      BY <3>1
    <3> QED BY <1>4, <3>2 DEF Named
  <2> QED BY <1>2, <2>1, <2>2
<1> QED BY <1>1, <1>2, <1>5, SearchedRecent

LEMMA KeyNotFoundRecent == Inv2G /\ RecentInv /\ KeyNotFound => RecentInv'
<1> SUFFICES ASSUME Inv2G, RecentInv, KeyNotFound PROVE RecentInv'
  OBVIOUS
<1>1. /\ pc = "forward" /\ i \in Window1 /\ i \notin Named(recent1) /\ pc' = "key not found"
      /\ UNCHANGED <<level, b, lists1, recent1>>
  BY DEF KeyNotFound, Fails, memory
<1>2. NeededOK
  BY <1>1, NeededFacts
<1>3. Limit(level) \in Nat
  BY BatchAssumption DEF Limit
<1>4. Cardinality(Needed1) > Limit(level)
  <2>1. ~ (b .. b + BatchSize - 1 \subseteq Named(recent1))
    BY <1>1, <1>2 DEF NeededOK
  <2>2. ~ (Cardinality(Needed1) <= Limit(level))
    BY <1>1, <2>1 DEF RecentInv
  <2>3. Cardinality(Needed1) \in Nat
    BY <1>2 DEF NeededOK
  <2> QED BY <1>3, <2>2, <2>3
<1>5. Needed1' = Needed1 /\ Limit(level)' = Limit(level) /\ (Once(recent1)' <=> Once(recent1))
  BY <1>1 DEF Needed1, Limit, Once
<1> QED BY <1>1, <1>4, <1>5 DEF RecentInv

LEMMA StayingRecent == RecentInv /\ UNCHANGED vars => RecentInv'
<1> SUFFICES ASSUME RecentInv, UNCHANGED vars PROVE RecentInv'
  OBVIOUS
<1>1. UNCHANGED <<pc, level, b, lists1, recent1>>
  BY DEF vars, memory
<1>2. /\ Needed1' = Needed1 /\ Limit(level)' = Limit(level) /\ Named(recent1)' = Named(recent1)
      /\ (Once(recent1)' <=> Once(recent1))
  BY <1>1 DEF Needed1, Limit, Once, Named
<1> QED BY <1>1, <1>2 DEF RecentInv

\* Every step keeps it so.
LEMMA NextRecent == Inv2G /\ RecentInv /\ [Next]_vars => RecentInv'
<1> SUFFICES ASSUME Inv2G, RecentInv, [Next]_vars PROVE RecentInv'
  OBVIOUS
<1>1. CASE LoadBatch1
  BY <1>1, Next2GInv, LoadBatch1Recent
<1>2. CASE PassBy \/ KeyNotFound \/ Forward \/ Forward0
  BY <1>2, PassByRecent, KeyNotFoundRecent, Connect1Recent DEF Forward, Forward0
<1>3. CASE UNCHANGED vars
  BY <1>3, StayingRecent
<1>4. CASE EndBatch1
  BY <1>4, ElsewhereRecent DEF EndBatch1
<1>5. CASE \/ ThrowWrongCase \/ Prepare \/ LoadLevel \/ LoadLevel0 \/ LoadLevelFails
           \/ LoadBatch1Fails \/ TurnBack \/ TurnBack0 \/ TurnBackFails
           \/ LoadBatch2 \/ LoadBatch2Fails \/ EndBatch2 \/ NextLevel
  <2>1. /\ pc \notin {"forward", "key not found"} /\ pc' \notin {"forward", "key not found"}
        /\ UNCHANGED recent1
    BY <1>5 DEF ThrowWrongCase, Prepare, LoadLevel, LoadLevel0, StartLevel, LoadLevelFails,
                LoadBatch1Fails, TurnBack, TurnBack0, TurnBackFails, LoadBatch2, LoadBatch2Fails,
                EndBatch2, NextLevel, Fails, memory
  <2> QED BY <2>1, ElsewhereRecent DEF RecentInv
<1>6. CASE Backward \/ Backward0
  <2>1. pc = "backward" /\ pc' = "backward" /\ UNCHANGED recent1
    BY <1>6 DEF Backward, Backward0, Connect2
  <2> QED BY <2>1, ElsewhereRecent DEF RecentInv
<1> QED BY <1>1, <1>2, <1>3, <1>4, <1>5, <1>6 DEF Next, Stopped

-------------------------------------------------------------------------------
(* What the disk merge within 2 GB promises *)

LEMMA Inv2GMeansTypeOK == Inv2G /\ RecentInv => TypeOK
<1> SUFFICES ASSUME Inv2G, recent1 \in Seq(Nat) PROVE TypeOK
  BY DEF RecentInv
<1>1. CASE Untouched
  <2>1. DOMAIN <<>> = {}
    OBVIOUS
  <2>2. 0 \in Levels(index2)
    BY DEF Inv2G, InputsOK, WellFormed, Levels
  <2>3. <<>> \in Seq(Ids(index2))
    OBVIOUS
  <2>4. pc \in {"start", "refused"} /\ DOMAIN file = {} /\ level = 0 /\ b = 0 /\ i = 0
    BY <1>1, <2>1 DEF Untouched
  <2>5. /\ DOMAIN ep = {} /\ DOMAIN cands = {} /\ DOMAIN lists1 = {} /\ DOMAIN lists2 = {}
        /\ dists2 = {} /\ order2 = <<>> /\ bytes = {}
    BY <1>1, <2>1 DEF Untouched
  <2> QED BY <2>2, <2>3, <2>4, <2>5 DEF TypeOK
<1>2. CASE Underway
  <2>1. TypesOK /\ MemoryOK /\ InputsOK
    BY <1>2 DEF Underway, Inv2G
  <2>2. \A l \in DOMAIN file : \A n \in DOMAIN data :
          file[l][n].count \in Nat /\ DOMAIN file[l][n].list \subseteq DOMAIN data
    <3> HIDE DEF data
    <3> SUFFICES ASSUME NEW l \in DOMAIN file, NEW n \in DOMAIN data
                 PROVE  file[l][n].count \in Nat /\ DOMAIN file[l][n].list \subseteq DOMAIN data
      OBVIOUS
    <3>1. file[l][n] \in [count : Nat, list : Lists(DOMAIN data)]
      BY <2>1 DEF TypesOK, AnySlot
    <3> QED BY <3>1, ListFacts
  <2>3. \A n \in DOMAIN ep : ep[n] = NoEntry \/ index2.element_levels_[ep[n]] >= level
    BY <2>1 DEF TypesOK, Layer
  <2>4. \A n \in DOMAIN cands : DOMAIN cands[n] \subseteq Ids(index1)
    <3>1. CASE cands = <<>>
      BY <3>1
    <3>2. CASE cands \in [Ids(index2) -> Lists(Ids(index1))]
      BY <3>2, ListFacts
    <3> QED BY <2>1, <3>1, <3>2 DEF TypesOK
  <2>5. DOMAIN file \in {{}, Levels(index2)}
    BY <2>1 DEF TypesOK
  <2>6. order2 \in Seq(Ids(index2))
    BY <2>1 DEF MemoryOK, Layer
  <2>7. /\ pc \in {"start", "level", "batch1", "forward", "batch2", "backward", "done", "refused",
                   "end of file", "too many for the cache", "slice count mismatch", "key not found"}
        /\ level \in {-1} \cup Levels(index2) /\ b \in Nat /\ i \in Nat
        /\ DOMAIN lists1 \subseteq Ids(index1) /\ DOMAIN lists2 \subseteq Ids(index2)
        /\ dists2 \subseteq Ids(index2) /\ bytes \subseteq {1, 2}
    BY <2>1 DEF TypesOK, MemoryOK
  <2> QED BY <2>2, <2>3, <2>4, <2>5, <2>6, <2>7 DEF TypeOK
<1> QED BY <1>1, <1>2 DEF Inv2G

LEMMA Inv2GMeansSound == Inv2G => CachesSound
<1> SUFFICES ASSUME Inv2G, pc = "backward", level <= 1, NEW n \in DOMAIN cache
             PROVE  cache[n] \in {data[n], Byte(data[n])}
  BY DEF CachesSound, Inv2G
<1>1. CacheOK /\ level \in Nat
  BY UnderwayFacts
<1>2. level = 0 \/ level = 1
  BY <1>1
<1> HIDE DEF data, Byte
<1> QED BY <1>1, <1>2 DEF CacheOK

LEMMA Inv2GMeansWhole == Inv2G => MergedSlotsWhole
<1> SUFFICES ASSUME Inv2G, NEW l \in DOMAIN file, Finished(l), NEW n \in DOMAIN data
             PROVE  LET slot == file[l][n]
                        top(m) == IF m < off THEN index1.element_levels_[m]
                                  ELSE index2.element_levels_[m - off]
                    IN /\ slot.count = Cardinality(DOMAIN slot.list)
                       /\ slot.count <= Mcurmax(M, l)
                       /\ \A c \in DOMAIN slot.list :
                            /\ top(c) >= l /\ c # n
                            /\ l > 0 \/ InBytes => slot.list[c] = Dist(data[n], data[c])
  BY DEF MergedSlotsWhole
<1>1. Underway /\ InputsOK /\ FileOK /\ TypesOK /\ l \in Levels(index2)
  <2>1. DOMAIN <<>> = {}
    OBVIOUS
  <2> QED BY <2>1 DEF Inv2G, Untouched, Underway, Finished
<1>2. level < l
  <2>1. l \in Nat
    BY <1>1 DEF Levels, InputsOK, WellFormed
  <2>2. pc = "done" => level = -1
    BY <1>1 DEF TypesOK
  <2> QED BY <2>1, <2>2 DEF Finished
<1>3. FairSlot(l, n)
  <2>1. CASE n \in Ids(index1)
    BY <1>1, <2>1 DEF FileOK
  <2>2. CASE n - off \in Ids(index2)
    <3>1. FairSlot(l, (n - off) + off)
      BY <1>1, <1>2, <2>2 DEF FileOK
    <3>2. (n - off) + off = n
      BY <1>1, MergedFacts
    <3> QED BY <3>1, <3>2
  <2> QED BY <1>1, <2>1, <2>2, MergedFacts
<1> PICK slot : slot = file[l][n]
  OBVIOUS
<1>4. /\ slot.count = Cardinality(DOMAIN slot.list) /\ slot.count <= Mcurmax(M, l)
      /\ FairList(Exact(l), data, Tops, n, l, slot.list)
  BY <1>3 DEF FairSlot, IsFairSlot, IsFair
<1>5. /\ DOMAIN slot.list \subseteq DOMAIN data
      /\ \A c \in DOMAIN slot.list : c # n /\ Tops[c] >= l
      /\ Exact(l) => \A c \in DOMAIN slot.list : slot.list[c] = Dist(data[n], data[c])
  BY <1>4, ListFacts DEF FairList, GoodList
<1>6. \A c \in DOMAIN data :
        Tops[c] = IF c < off THEN index1.element_levels_[c] ELSE index2.element_levels_[c - off]
  BY DEF Tops, MergedTops, data, MergedData, off
<1>7. l > 0 \/ InBytes => Exact(l)
  BY DEF Exact
<1> HIDE DEF data, Tops, off, InBytes
<1> QED BY <1>4, <1>5, <1>6, <1>7

\* The invariant of the disk merge within 2 GB (HNSWMerger_ME,
\* memory-optimize-limit2G.h), for any two files, batch and cache sizes, M,
\* lambda and alpha, and whatever is read behind the end of a buffer.
THEOREM MergeWithin2GInvariant == Spec => [](Inv2G /\ RecentInv)
<1>1. Init => Inv2G /\ RecentInv
  BY Init2GInv, InitRecent
<1>2. Inv2G /\ RecentInv /\ [Next]_vars => Inv2G' /\ RecentInv'
  BY Next2GInv, NextRecent
<1> QED BY <1>1, <1>2, PTL DEF Spec

\* What is in memory are lists of the inputs, and slots of the merged file name
\* elements of either, in every state of the merge within 2 GB.
THEOREM MergeWithin2GTypeOK == Spec => []TypeOK
BY MergeWithin2GInvariant, Inv2GMeansTypeOK, PTL

\* No batch reads a list, a distance or a byte that was not loaded before or has
\* been freed since; and although the push of line 1319 may bring in more
\* records than the one meant, the cache of the result never holds up to level
\* 1 anything but the vector of the id or its bytes.
THEOREM CachesOfBatchesSound == Spec => []CachesSound
BY MergeWithin2GInvariant, Inv2GMeansSound, PTL

\* As long as a batch of index1 and the neighbours of its elements on the level
\* are no more than the cache of index1 may hold, no element of the batch is
\* evicted before its turn, whatever the order of the lists: data_[cur_c] throws
\* only when they are more.
THEOREM BatchesStayLoaded == Spec => []BatchStaysLoaded
<1>1. RecentInv => BatchStaysLoaded
  BY DEF RecentInv, BatchStaysLoaded
<1> QED BY <1>1, MergeWithin2GInvariant, PTL

\* Once a level has been merged, each of its slots has a count that is the
\* length of its list, at most maxM_ or maxM0_ entries, of elements of the
\* level and never the owner, at their true distances whenever the level kept
\* the vectors or the vectors are bytes.
THEOREM MergedLevelsWholeWithin2G == Spec => []MergedSlotsWhole
BY MergeWithin2GInvariant, Inv2GMeansWhole, PTL

-------------------------------------------------------------------------------
(* The file so far is what the merge in memory makes *)

\* Where one batch is enough for a level above 1, the buffer of index2 holds
\* the level in its order, and what was pushed beyond the element meant is
\* right or never looked at.
PushedRight ==
  level >= 2 =>
    /\ pc \in {"level", "batch1", "forward"} => order2 = <<>>
    /\ pc = "batch2" => (b = 0 /\ order2 = <<>>) \/ b >= Size2
    /\ pc = "backward" => order2 = InOrder /\ MineTrue(cache)

\* The inputs for which caches and batches make no difference
Undisturbed ==
  InBytes /\ index1.deleted \cup index2.deleted = {} /\ \A l \in Levels(index2) : OneBatch(l)

Moving == {"level", "batch1", "forward", "batch2", "backward", "done"}
SameInv == Undisturbed /\ pc \in Moving => SameSoFar /\ PushedRight

\* Whether they are disturbed is a matter of the inputs.
LEMMA UndisturbedSame ==
  ASSUME UNCHANGED <<index1, index2>>
  PROVE  Undisturbed' <=> Undisturbed
<1>1. data' = data
  BY SameInputs
<1> HIDE DEF data
<1>2. InBytes' <=> InBytes
  BY <1>1 DEF InBytes
<1>3. \A l : OneBatch(l)' <=> OneBatch(l)
  BY DEF OneBatch
<1> QED BY <1>2, <1>3 DEF Undisturbed

\* Vectors are the true ones, then, on every level.
LEMMA UndisturbedFacts ==
  ASSUME Inv2G, SameInv, Undisturbed, pc \in Moving \ {"done"}
  PROVE  /\ AtLevel /\ SameSoFar /\ PushedRight /\ Exact(level) /\ OneBatch(level)
         /\ InputsOK /\ level \in Levels(index2) /\ level \in Nat
         /\ ForwardVectors = data /\ Seen2 = index2 /\ Vectors(index1, level) = index1.data
<1>1. InputsOK /\ TypesOK /\ index1.maxlevel_ <= index2.maxlevel_ /\ level \in Levels(index2) /\ level \in Nat
  BY UnderwayFacts DEF Moving
<1>2. Mergeable(index1, index2)
  BY <1>1 DEF InputsOK, Mergeable, Undisturbed
<1>3. AtLevel
  BY <1>1, <1>2 DEF AtLevel, TypesOK
<1>4. SameSoFar /\ PushedRight
  BY DEF SameInv
<1>5. Exact(level) /\ OneBatch(level)
  BY <1>1 DEF Exact, Undisturbed
<1>6. /\ ForwardVectors = data /\ Vectors(index2, level) = index2.data
      /\ Vectors(index1, level) = index1.data
  BY <1>1, <1>5, ExactVectors
<1>7. Seen2 = index2
  <2> PICK lists : lists = [n \in Layer(index2, level) |-> SavedList(index2, level, n)]
    OBVIOUS
  <2>1. WellFormed(index2, M) /\ IsRecord(index2)
    BY <1>1 DEF InputsOK
  <2>2. [index2 EXCEPT !.data = index2.data] = index2
    BY <1>1, <2>1, InMemoryIsWhole
  <2> QED BY <1>6, <2>2 DEF Seen2
<1> QED BY <1>1, <1>3, <1>4, <1>5, <1>6, <1>7

\* The order of a level does not change while it is merged.
ElementAt(ix, l, k) ==
  CHOOSE n \in Layer(ix, l) : Cardinality({m \in Layer(ix, l) : m < n}) = k
OrderOf(ix, l) == [k \in 1 .. Cardinality(Layer(ix, l)) |-> ElementAt(ix, l, k - 1)]

LEMMA SameOrder ==
  ASSUME UNCHANGED <<index1, index2, level>>
  PROVE  /\ InOrder' = InOrder /\ Size2' = Size2
         /\ \A h : MineTrue(h)' <=> MineTrue(h)
<1>1. InOrder = OrderOf(index2, level)
  BY DEF InOrder, OrderOf, ElementAt, Element2, Size2
<1>2. InOrder' = OrderOf(index2', level')
  BY DEF InOrder, OrderOf, ElementAt, Element2, Size2
<1>3. data' = data /\ off' = off
  BY SameInputs
<1>4. \A h : MineTrue(h)' <=> MineTrue(h)
  <2> HIDE DEF data, off
  <2> QED BY <1>3 DEF MineTrue, Mine
<1> QED BY <1>1, <1>2, <1>4 DEF Size2

\* A step that leaves the caches alone and moves on within the way there or back
LEMMA PushedStays ==
  ASSUME PushedRight, UNCHANGED <<index1, index2, level, order2, cache>>,
         \/ pc \in {"level", "batch1", "forward"} /\ pc' \in {"level", "batch1", "forward"}
         \/ pc \in {"level", "batch1", "forward"} /\ pc' = "batch2" /\ b' = 0
         \/ UNCHANGED <<pc, b>>
  PROVE  PushedRight'
<1>1. /\ InOrder' = InOrder /\ Size2' = Size2
      /\ \A h : MineTrue(h)' <=> MineTrue(h)
  BY SameOrder
<1>2. MineTrue(cache)' <=> MineTrue(cache)
  <2> PICK h : h = cache
    OBVIOUS
  <2>1. MineTrue(h)' <=> MineTrue(h)
    BY <1>1
  <2> QED BY <2>1 DEF MineTrue, Mine
<1> QED BY <1>1, <1>2 DEF PushedRight

LEMMA LoadBatch1Same == Inv2G /\ SameInv /\ LoadBatch1 => SameInv'
<1> SUFFICES ASSUME Inv2G, SameInv, LoadBatch1, Undisturbed PROVE SameSoFar' /\ PushedRight'
  BY UndisturbedSame DEF LoadBatch1, SameInv
<1>1. pc = "batch1" /\ pc' = "forward" /\ i' = b /\ Reading /\ UNCHANGED <<order2, cache>>
  BY DEF LoadBatch1, Reading
<1>2. AtLevel /\ SameSoFar /\ PushedRight
  BY <1>1, UndisturbedFacts DEF Moving
<1>3. SameSoFar'
  BY <1>1, <1>2, LoadingBatch1
<1> QED BY <1>1, <1>2, <1>3, PushedStays DEF Reading

LEMMA EndBatch1Same == Inv2G /\ SameInv /\ EndBatch1 => SameInv'
<1> SUFFICES ASSUME Inv2G, SameInv, EndBatch1, Undisturbed PROVE SameSoFar' /\ PushedRight'
  BY UndisturbedSame DEF EndBatch1, SameInv
<1>1. /\ pc = "forward" /\ pc' = "batch1" /\ b' = b + BatchSize /\ i \notin Window1
      /\ Reading /\ UNCHANGED order2
  BY DEF EndBatch1, Reading
<1>2. AtLevel /\ SameSoFar /\ PushedRight
  BY <1>1, UndisturbedFacts DEF Moving
<1>3. /\ BatchSize \in Nat \ {0} /\ i \in b .. Lower(b + BatchSize, index1.count)
      /\ i \notin Window(BatchSize, index1.count)
  BY <1>1, UnderwayFacts, BatchAssumption DEF ForwardOK, Window1
<1>4. SameSoFar'
  BY <1>1, <1>2, <1>3, EndingBatch1
<1> QED BY <1>1, <1>2, <1>4 DEF PushedRight, Reading

LEMMA TurnBackSame == Inv2G /\ SameInv /\ (TurnBack \/ TurnBack0) => SameInv'
<1> SUFFICES ASSUME Inv2G, SameInv, TurnBack \/ TurnBack0, Undisturbed PROVE SameSoFar' /\ PushedRight'
  BY UndisturbedSame DEF TurnBack, TurnBack0, SameInv
<1>1. /\ pc = "batch1" /\ b >= index1.count /\ pc' = "batch2" /\ b' = 0 /\ Reading
      /\ UNCHANGED <<order2, cache>>
  BY DEF TurnBack, TurnBack0, Reading
<1>2. AtLevel /\ SameSoFar /\ PushedRight
  BY <1>1, UndisturbedFacts DEF Moving
<1>3. SameSoFar'
  BY <1>1, <1>2, TurningBack
<1> QED BY <1>1, <1>2, <1>3, PushedStays DEF Reading

\* The only batch of a level above 1 fills the buffer with the level.
LEMMA LoadBatch2Same == Inv2G /\ SameInv /\ LoadBatch2 => SameInv'
<1> SUFFICES ASSUME Inv2G, SameInv, LoadBatch2, Undisturbed PROVE SameSoFar' /\ PushedRight'
  BY UndisturbedSame DEF LoadBatch2, SameInv
<1> PICK s : s = [k \in 1 .. Cardinality(Window2) |-> Element2(b + k - 1)]
  OBVIOUS
<1>1. /\ pc = "batch2" /\ b < Size2 /\ pc' = "backward" /\ i' = b /\ Reading /\ UNCHANGED cache
      /\ level # 0 => order2' = LoadedAll(order2, s)
  BY DEF LoadBatch2, Reading
<1>2. /\ AtLevel /\ SameSoFar /\ PushedRight /\ OneBatch(level)
      /\ InputsOK /\ level \in Levels(index2) /\ level \in Nat
  BY <1>1, UndisturbedFacts DEF Moving
<1>3. SameSoFar'
  BY <1>1, <1>2, LoadingBatch2
<1>4. ASSUME level >= 2 PROVE order2' = InOrder
  <2>1. b = 0 /\ order2 = <<>> /\ b \in Nat /\ Size2 \in Nat
    <3>1. b \in Nat /\ Size2 \in Nat
      BY <1>2, LevelFacts DEF AtLevel, InputsOK, Size2
    <3> QED BY <1>1, <1>2, <1>4, <3>1 DEF PushedRight
  <2>2. Size2 <= BatchSize
    BY <1>2, <1>4 DEF OneBatch, Size2
  <2>3. s = InOrder
    BY <1>1, <1>2, <2>1, <2>2, BatchFacts
  <2> PICK L, t : L = Layer(index2, level) /\ t = InOrder
    OBVIOUS
  <2>4. t \in Seq(L) /\ \A x, y \in DOMAIN t : t[x] = t[y] => x = y
    BY <1>2, InOrderFacts
  <2>5. <<>> \in Seq(L)
    OBVIOUS
  <2>6. LoadedAll(<<>>, t) = t
    BY <2>4, <2>5, LoadedAllFacts
  <2>7. level # 0
    BY <1>2, <1>4
  <2>8. order2' = LoadedAll(order2, s)
    BY <1>1, <2>7
  <2>9. order2 = <<>> /\ s = t
    BY <2>1, <2>3
  <2>10. order2' = t
    BY <2>6, <2>8, <2>9, Zenon
  <2> QED BY <2>10
<1>5. InOrder' = InOrder
  BY <1>1, SameOrder DEF Reading
<1>6. MineTrue(cache)'
  <2>1. cache = <<>> /\ DOMAIN <<>> = {}
    BY <1>1, UnderwayFacts DEF CacheOK
  <2>2. DOMAIN cache' = {}
    BY <1>1, <2>1
  <2> QED BY <2>2 DEF MineTrue
<1> QED BY <1>1, <1>3, <1>4, <1>5, <1>6 DEF PushedRight, Reading

\* There is no second one.
LEMMA EndBatch2Same == Inv2G /\ SameInv /\ EndBatch2 => SameInv'
<1> SUFFICES ASSUME Inv2G, SameInv, EndBatch2, Undisturbed PROVE SameSoFar' /\ PushedRight'
  BY UndisturbedSame DEF EndBatch2, SameInv
<1>1. /\ pc = "backward" /\ pc' = "batch2" /\ b' = b + BatchSize /\ i \notin Window2 /\ Reading
  BY DEF EndBatch2, Reading
<1>2. AtLevel /\ SameSoFar /\ OneBatch(level) /\ InputsOK /\ level \in Levels(index2) /\ level \in Nat
  BY <1>1, UndisturbedFacts DEF Moving
<1>3. /\ BatchSize \in Nat \ {0} /\ i \in b .. Lower(b + BatchSize, Size2)
      /\ i \notin Window(BatchSize, Size2)
  BY <1>1, UnderwayFacts, BatchAssumption DEF BackwardOK, Window2
<1>4. SameSoFar'
  BY <1>1, <1>2, <1>3, EndingBatch2
<1>5. level >= 2 => b' >= Size2'
  <2>1. b \in Nat /\ Size2 \in Nat /\ Size2' = Size2
    BY <1>1, <1>2, LevelFacts DEF AtLevel, InputsOK, Size2, Reading
  <2>2. level >= 2 => Size2 <= BatchSize
    BY <1>2 DEF OneBatch, Size2
  <2> QED BY <1>1, <1>3, <2>1, <2>2
<1> QED BY <1>1, <1>4, <1>5 DEF PushedRight, Reading

LEMMA LoadLevelSame == Inv2G /\ SameInv /\ (LoadLevel \/ LoadLevel0) => SameInv'
<1> SUFFICES ASSUME Inv2G, SameInv, LoadLevel \/ LoadLevel0, Undisturbed PROVE SameSoFar' /\ PushedRight'
  BY UndisturbedSame DEF LoadLevel, LoadLevel0, StartLevel, SameInv
<1>1. /\ pc = "level" /\ pc' = "batch1" /\ b' = 0 /\ cands' = [n \in Ids(index2) |-> <<>>]
      /\ UNCHANGED <<index1, index2, file, level, ep, order2, cache>>
  BY DEF LoadLevel, LoadLevel0, StartLevel
<1>2. AtLevel /\ SameSoFar /\ PushedRight
  BY <1>1, UndisturbedFacts DEF Moving
<1>3. SameSoFar'
  BY <1>1, <1>2, StartingLevel
<1> QED BY <1>1, <1>2, <1>3, PushedStays

LEMMA NextLevelSame == Inv2G /\ SameInv /\ NextLevel => SameInv'
<1> SUFFICES ASSUME Inv2G, SameInv, NextLevel, Undisturbed PROVE SameSoFar' /\ PushedRight'
  BY UndisturbedSame DEF NextLevel, SameInv
<1>1. /\ pc = "batch2" /\ b >= Size2 /\ level' = level - 1 /\ pc' \in {"level", "done"}
      /\ UNCHANGED <<index1, index2, file, b, i, ep, cands>> /\ order2' = <<>>
  BY DEF NextLevel
<1>2. AtLevel /\ SameSoFar
  BY <1>1, UndisturbedFacts DEF Moving
<1>3. SameSoFar'
  BY <1>1, <1>2, EndingLevel
<1> QED BY <1>1, <1>3 DEF PushedRight

LEMMA PrepareSame == Inv2G /\ Inv2G' /\ Prepare => SameInv'
<1> SUFFICES ASSUME Inv2G, Inv2G', Prepare, Undisturbed' PROVE SameSoFar' /\ PushedRight'
  BY DEF SameInv
<1>1. /\ index1' = Smaller /\ index2' = Larger /\ file' = CopiedFile(Smaller, Larger)
      /\ ep' = [n \in Ids(Smaller) |-> NoEntry] /\ level' = Larger.maxlevel_ /\ pc' = "level"
      /\ pc = "start" /\ UNCHANGED order2
  BY DEF Prepare, memory
<1>2. InputsOK' /\ index1'.maxlevel_ <= index2'.maxlevel_
  BY <1>1 DEF Inv2G, Untouched, Underway
<1>3. Mergeable(index1, index2)'
  BY <1>2 DEF InputsOK, Mergeable, Undisturbed
<1>4. Fresh'
  BY <1>1, <1>2, <1>3 DEF Fresh
<1>5. SameSoFar'
  BY <1>4, FreshSame, PTL
<1>6. order2 = <<>>
  BY <1>1 DEF Inv2G, Untouched, Underway, TypesOK
<1> QED BY <1>1, <1>5, <1>6 DEF PushedRight

LEMMA PassBySame == Inv2G /\ SameInv /\ PassBy => SameInv'
<1> SUFFICES ASSUME Inv2G, SameInv, PassBy, Undisturbed PROVE SameSoFar' /\ PushedRight'
  BY UndisturbedSame DEF PassBy, SameInv
<1>1. /\ pc = "forward" /\ i \in Window1 /\ index1.element_levels_[i] < level
      /\ ep' = [ep EXCEPT ![i] = NextEntry(ix2, index1.data[i], ep[i], level)]
      /\ i' = i + 1 /\ UNCHANGED <<index1, index2, file, pc, level, b, cands, order2, cache>>
  BY DEF PassBy, memory
<1>2. AtLevel /\ SameSoFar /\ PushedRight /\ Seen2 = index2
  BY <1>1, UndisturbedFacts DEF Moving
<1>3. i \in Ids(index1) /\ ix2 = Seen2
  BY <1>1, ForwardMemory
<1>4. ep' = [ep EXCEPT ![i] = NextEntry(index2, index1.data[i], ep[i], level)]
  BY <1>1, <1>2, <1>3
<1>5. SameSoFar'
  BY <1>1, <1>2, <1>3, <1>4, PassingBy
<1> QED BY <1>1, <1>2, <1>5, PushedStays

\* Selection from vectors that are the true ones for all it reads
TrueFor(held, A, B) == \A c \in DOMAIN A \cup DOMAIN B : held[c] = data[c]

LEMMA ConnectedByTheTrue ==
  ASSUME InputsOK, NEW l \in Levels(index2), NEW n \in DOMAIN data, NEW A, NEW B,
         GoodList(data, Tops, n, l, A), GoodList(data, Tops, n, l, B),
         NEW held, Overflows(A, B, l) => TrueFor(held, A, B)
  PROVE  DOMAIN Connected(A, B, held, l) = Memory!Connect(data, l, n, DOMAIN A, DOMAIN B)
<1> PICK N, V, T : N = off + index2.count /\ V = data /\ T = Tops
  OBVIOUS
<1>1. /\ N \in Nat /\ V \in [0 .. N - 1 -> Int] /\ n \in 0 .. N - 1 /\ l \in Nat
  <2>1. l \in Nat
    BY DEF Levels, InputsOK, WellFormed
  <2> HIDE DEF data, off
  <2> QED BY <2>1, MergedFacts
<1>2. GoodList(V, T, n, l, A) /\ GoodList(V, T, n, l, B)
  OBVIOUS
<1>3. Overflows(A, B, l) => \A c \in DOMAIN A \cup DOMAIN B : held[c] = V[c]
  BY DEF TrueFor
<1>4. Connected(A, B, held, l) = Connected(A, B, V, l)
  BY <1>1, <1>2, <1>3, ConnectedAgrees, SMTT(30)
<1>5. DOMAIN Connected(A, B, V, l) = Memory!Connect(V, l, n, DOMAIN A, DOMAIN B)
  BY <1>1, <1>2, ConnectedMembers
<1> QED BY <1>4, <1>5

\* The first of the heap is the nearest.
LEMMA FirstIsNearest ==
  ASSUME InputsOK, NEW n \in DOMAIN data, NEW l, NEW list, GoodList(data, Tops, n, l, list),
         DOMAIN list # {}
  PROVE  Kth(list, 1) = Nearest(data, data[n], DOMAIN list)
<1> PICK V, q : V = data /\ q = data[n]
  OBVIOUS
<1>1. DOMAIN V \subseteq Int /\ V \in [DOMAIN V -> Int] /\ IsFiniteSet(DOMAIN V) /\ q \in Int
  BY MergedFacts
<1>2. DOMAIN list \subseteq DOMAIN V /\ list \in [DOMAIN list -> Int]
      /\ \A c \in DOMAIN list : list[c] = Dist(q, V[c])
  BY ListFacts DEF GoodList
<1>3. IsFiniteSet(DOMAIN list) /\ 1 \in 1 .. Cardinality(DOMAIN list)
  <2>1. IsFiniteSet(DOMAIN list)
    BY <1>1, <1>2, FS_Subset
  <2>2. Cardinality(DOMAIN list) \in Nat /\ Cardinality(DOMAIN list) # 0
    BY <2>1, FS_CardinalityType, FS_EmptySet
  <2> QED BY <2>1, <2>2
<1>4. IsTrue(list, V, q)
  BY <1>1, <1>2 DEF IsTrue
<1>5. Kth(list, 1) = KthClosest(V, q, DOMAIN list, 1)
  BY <1>1, <1>3, <1>4, KthOfList
<1> QED BY <1>5 DEF Nearest

LEMMA Connect1Same ==
  ASSUME Inv2G, SameInv, Undisturbed, Connect1, i \in Layer(index1, level)
  PROVE  SameSoFar' /\ PushedRight'
<1> PICK F, found, old, held :
      /\ F = Found(ix2, index1.data[i], ep[i], level) /\ found = Moved(F, off)
      /\ old = IF i \in DOMAIN lists1 THEN lists1[i] ELSE <<>>
      /\ held = Held1(found, old)
  OBVIOUS
<1> PICK e, list : e = Kth(found, 1) - off /\ list = Connected(found, old, held, level)
  OBVIOUS
<1>1. /\ pc = "forward" /\ i \in Window1 /\ i' = i + 1
      /\ UNCHANGED <<index1, index2, pc, level, b, order2>>
  BY DEF Connect1
<1>2. /\ ep' = [ep EXCEPT ![i] = e]
      /\ cands' = AddCandidates(cands, Moved(found, -off), i)
      /\ file' = [file EXCEPT ![level][i] = Slot(list)]
  BY DEF Connect1, Found1
<1>3. /\ InputsOK /\ CandidatesOK /\ CacheOK /\ level \in Levels(index2) /\ level \in Nat
      /\ AtLevel /\ SameSoFar /\ PushedRight /\ Exact(level)
      /\ ForwardVectors = data /\ Seen2 = index2
  BY <1>1, UnderwayFacts, UndisturbedFacts DEF Moving
<1>4. /\ i \in Ids(index1) /\ i \in DOMAIN data /\ data[i] = index1.data[i] /\ ix2 = Seen2
      /\ ep[i] \in {NoEntry} \cup Layer(index2, level)
  BY <1>1, <1>3, ForwardMemory, MergedFacts
<1>5. /\ i \in DOMAIN lists1 /\ GoodList(data, Tops, i, level, old)
      /\ DOMAIN old = index1.links[level][i] /\ level \in Levels(index1)
  BY <1>1, OldHere
<1>6. F = Found(index2, index1.data[i], ep[i], level)
  BY <1>3, <1>4
<1>7. /\ GoodList(data, Tops, i, level, found) /\ DOMAIN found # {}
      /\ DOMAIN found = Shift(DOMAIN F, off) /\ Moved(found, -off) = F
  <2>1. F = Found(Seen2, index1.data[i], ep[i], level)
    BY <1>4
  <2>2. /\ GoodList(ForwardVectors, Tops, i, level, found) /\ DOMAIN found # {}
        /\ DOMAIN found = Shift(DOMAIN F, off) /\ Moved(found, -off) = F
    BY <1>3, <1>4, <2>1, SearchedHere
  <2> QED BY <1>3, <2>2
<1>8. Kth(found, 1) = Nearest(data, index1.data[i], DOMAIN found)
  <2>1. Kth(found, 1) = Nearest(data, data[i], DOMAIN found)
    BY <1>3, <1>4, <1>7, FirstIsNearest
  <2> QED BY <1>4, <2>1
<1>9. Overflows(found, old, level) => TrueFor(held, found, old)
  <2>1. DOMAIN found \subseteq DOMAIN data /\ DOMAIN old \subseteq DOMAIN data
    BY <1>5, <1>7, ListFacts DEF GoodList
  <2>2. \A m \in DOMAIN cache : m \in DOMAIN data /\ cache[m] = data[m]
    <3>1. CASE level = 0
      <4>1. cache = <<>> /\ DOMAIN <<>> = {}
        BY <1>1, <1>3, <3>1 DEF CacheOK
      <4> QED BY <4>1
    <3>2. CASE level > 0
      BY <1>1, <1>3, <3>2 DEF CacheOK
    <3> QED BY <1>3, <3>1, <3>2
  <2>3. /\ \A m \in DOMAIN held : m \in DOMAIN data /\ held[m] = data[m]
        /\ Overflows(found, old, level) => DOMAIN found \cup DOMAIN old \subseteq DOMAIN held
    BY <1>3, <2>1, <2>2, HeldTrue
  <2> HIDE DEF data, Overflows
  <2> QED BY <2>3 DEF TrueFor
<1>10. DOMAIN list = Memory!Connect(data, level, i, Shift(DOMAIN F, off), index1.links[level][i])
  <2> PICK V, C, O : V = data /\ C = DOMAIN found /\ O = DOMAIN old
    OBVIOUS
  <2>1. DOMAIN list = Memory!Connect(V, level, i, C, O)
    BY <1>3, <1>4, <1>5, <1>7, <1>9, ConnectedByTheTrue
  <2> HIDE DEF data, off
  <2> QED BY <1>5, <1>7, <2>1
<1>11. ConnectsFirst(F, e, list)
  <2>1. DOMAIN cands = Ids(index2)
    BY <1>1, <1>3 DEF CandidatesOK
  <2>2. e = Nearest(data, index1.data[i], Shift(DOMAIN F, off)) - off /\ cands' = AddCandidates(cands, F, i)
    <3> HIDE DEF data, off
    <3> QED BY <1>2, <1>7, <1>8
  <2> HIDE DEF data, off
  <2> QED BY <1>1, <1>2, <1>5, <1>6, <1>10, <2>1, <2>2 DEF ConnectsFirst
<1>12. SameSoFar'
  BY <1>3, <1>11, Connecting1
<1> QED BY <1>1, <1>3, <1>12 DEF PushedRight

LEMMA ForwardSame == Inv2G /\ SameInv /\ (Forward \/ Forward0) => SameInv'
<1> SUFFICES ASSUME Inv2G, SameInv, Forward \/ Forward0, Undisturbed PROVE SameSoFar' /\ PushedRight'
  BY UndisturbedSame DEF Forward, Forward0, Connect1, SameInv
<1>1. Connect1 /\ i \in Layer(index1, level)
  BY ConnectedHere
<1> QED BY <1>1, Connect1Same

\* What is written when selection sees the true vectors
LEMMA Connect2Same ==
  ASSUME Inv2G, SameInv, Undisturbed, pc = "backward", i \in Window2, NEW n, n = Element2(i),
         NEW old, old = OldList2(n), NEW mine, mine = cands[n],
         NEW held, TrueFor(held, mine, old), NEW order, Connect2(n, old, held, order)
  PROVE  SameSoFar'
<1> PICK list : list = IF mine = <<>> THEN old ELSE Connected(mine, old, held, level)
  OBVIOUS
<1>1. /\ file' = [file EXCEPT ![level][n + off] = Slot(list)] /\ i' = i + 1
      /\ UNCHANGED <<index1, index2, pc, level, b, ep, cands>>
  BY DEF Connect2
<1>2. /\ InputsOK /\ level \in Levels(index2) /\ level \in Nat /\ AtLevel /\ SameSoFar
      /\ ForwardVectors = data
  BY UndisturbedFacts DEF Moving
<1>3. /\ n \in Layer(index2, level) /\ n \in Ids(index2) /\ n + off \in DOMAIN data
      /\ i \in Nat /\ Rank(n) = i
      /\ \A j \in Layer(index2, level) : Rank(j) = i => j = n
  BY BackwardMemory
<1>4. /\ GoodList(data, Tops, n + off, level, old) /\ DOMAIN old = Shift(index2.links[level][n], off)
  BY BackwardLists
<1>5. GoodList(data, Tops, n + off, level, mine)
  <2>1. GoodList(ForwardVectors, Tops, n + off, level, mine)
    BY BackwardLists
  <2> QED BY <1>2, <2>1
<1>6. DOMAIN list = Memory!ConnectBackward(data, level, n + off, DOMAIN mine,
                                              Shift(index2.links[level][n], off))
  <2> PICK V, o, C, O : V = data /\ o = n + off /\ C = DOMAIN mine /\ O = DOMAIN old
    OBVIOUS
  <2>1. Memory!ConnectBackward(V, level, o, C, O) = IF C = {} THEN O ELSE Memory!Connect(V, level, o, C, O)
    BY MemoryConnectBackward
  <2>2. DOMAIN Connected(mine, old, held, level) = Memory!Connect(V, level, o, C, O)
    <3>1. o \in DOMAIN data /\ GoodList(data, Tops, o, level, mine) /\ GoodList(data, Tops, o, level, old)
      BY <1>3, <1>4, <1>5
    <3> QED BY <1>2, <3>1, ConnectedByTheTrue
  <2>3. C = {} => mine = <<>>
    <3>1. mine \in [C -> Int]
      BY <1>5, ListFacts DEF GoodList
    <3> QED BY <3>1
  <2>4. DOMAIN list = IF C = {} THEN O ELSE Memory!Connect(V, level, o, C, O)
    <3>1. DOMAIN <<>> = {}
      OBVIOUS
    <3> QED BY <2>2, <2>3, <3>1
  <2> HIDE DEF data, off
  <2> QED BY <1>4, <2>1, <2>4
<1>7. ConnectsSecond(n, list)
  <2> HIDE DEF data, off
  <2> QED BY <1>1, <1>3, <1>6 DEF ConnectsSecond
<1> QED BY <1>2, <1>3, <1>7, Connecting2

\* Above level 0 all that selection reads was pushed right, and the buffer and
\* the cache stay so.
LEMMA PushedForSelection ==
  ASSUME Inv2G, SameInv, Undisturbed, pc = "backward", level > 0, i \in Window2,
         NEW n, n = Element2(i), NEW old, old = OldList2(n), NEW mine, mine = cands[n],
         NEW s \in Orders(DOMAIN old), NEW g,
         NEW h, h = WithCandidates(n), NEW w, w = PushOld(h, order2, s, g)
  PROVE  /\ TrueFor(w[1], mine, old)
         /\ level >= 2 => w[2] = InOrder /\ MineTrue(w[1])
<1>1. /\ InputsOK /\ level \in Levels(index2) /\ level \in Nat /\ PushedRight /\ OneBatch(level)
      /\ DOMAIN mine \subseteq Ids(index1) /\ DOMAIN old = Shift(index2.links[level][n], off)
      /\ n \in Ids(index2)
  BY UndisturbedFacts, BackwardLists, BackwardMemory DEF Moving
<1>2. Keeps(<<h, order2>>, w) /\ DOMAIN h \cup DOMAIN old \subseteq DOMAIN w[1]
  BY PushedHere
<1>3. DOMAIN h = DOMAIN cache \cup DOMAIN mine /\ \A m \in DOMAIN cache : h[m] = cache[m]
  BY <1>1, CandidatesHeld
<1>4. Offers(h, DOMAIN mine \ DOMAIN cache)
  BY <1>1, CandidatesHeld
<1>5. ASSUME level >= 2 PROVE w[2] = InOrder /\ MineTrue(w[1])
  <2>1. order2 = InOrder /\ MineTrue(cache)
    BY <1>1, <1>5 DEF PushedRight
  <2>2. MineTrue(h)
    <3>1. \A m \in DOMAIN mine \ DOMAIN cache : h[m] = data[m]
      <4>1. level # 0
        BY <1>1, <1>5
      <4> HIDE DEF data
      <4> QED BY <1>4, <4>1 DEF Offers
    <3> HIDE DEF data
    <3> QED BY <1>3, <2>1, <3>1 DEF MineTrue
  <2> PICK v : v = <<h, order2>>
    OBVIOUS
  <2>3. v[1] = h /\ v[2] = order2
    OBVIOUS
  <2>4. level > 1
    BY <1>1, <1>5
  <2> QED BY <1>1, <1>2, <2>1, <2>2, <2>3, <2>4 DEF Keeps
<1>6. \A c \in DOMAIN mine \cup DOMAIN old : Mine(c)
  <2>1. index2.links[level][n] \subseteq Layer(index2, level)
    BY <1>1, LevelFacts DEF InputsOK
  <2>2. off \in Nat /\ Layer(index2, level) \subseteq Nat
    BY <1>1, MergedFacts DEF Layer, Ids
  <2>3. ASSUME NEW c \in DOMAIN old PROVE c - off \in Layer(index2, level)
    <3>1. PICK x \in index2.links[level][n] : c = x + off
      BY <1>1 DEF Shift
    <3>2. x \in Nat /\ (x + off) - off = x /\ x \in Layer(index2, level)
      BY <2>1, <2>2
    <3> QED BY <3>1, <3>2
  <2> HIDE DEF off
  <2> QED BY <1>1, <2>3 DEF Mine
<1>7. TrueFor(w[1], mine, old)
  <2>1. DOMAIN mine \cup DOMAIN old \subseteq DOMAIN w[1]
    BY <1>2, <1>3
  <2>2. CASE level = 1
    <3>1. HeldOK(w[1])
      BY PushedTrue
    <3> HIDE DEF data
    <3> QED BY <2>1, <2>2, <3>1 DEF TrueFor, HeldOK
  <2>3. CASE level >= 2
    <3>1. MineTrue(w[1])
      BY <1>5, <2>3
    <3> HIDE DEF data
    <3> QED BY <1>6, <2>1, <3>1 DEF TrueFor, MineTrue
  <2> QED BY <1>1, <2>2, <2>3
<1> QED BY <1>5, <1>7

LEMMA BackwardSame == Inv2G /\ SameInv /\ Backward => SameInv'
<1> SUFFICES ASSUME Inv2G, SameInv, Backward, Undisturbed PROVE SameSoFar' /\ PushedRight'
  BY UndisturbedSame DEF Backward, Connect2, SameInv
<1>1. pc = "backward" /\ level > 0 /\ i \in Window2
  BY DEF Backward
<1> PICK n, old, mine : n = Element2(i) /\ old = OldList2(n) /\ mine = cands[n]
  OBVIOUS
<1>2. ASSUME NEW s \in Orders(DOMAIN old), NEW g,
             NEW w, w = PushOld(WithCandidates(n), order2, s, g), Connect2(n, old, w[1], w[2])
      PROVE  SameSoFar' /\ PushedRight'
  <2> PICK h, held, order : h = WithCandidates(n) /\ held = w[1] /\ order = w[2]
    OBVIOUS
  <2>1. /\ TrueFor(w[1], mine, old)
        /\ level >= 2 => w[2] = InOrder /\ MineTrue(w[1])
    BY <1>1, <1>2, PushedForSelection
  <2>2. Connect2(n, old, held, order) /\ TrueFor(held, mine, old)
    BY <1>2, <2>1
  <2>3. SameSoFar'
    BY <1>1, <2>2, Connect2Same
  <2>4. /\ cache' = held \/ cache' = cache
        /\ order2' = order \/ order2' = order2
        /\ UNCHANGED <<index1, index2, level, pc>>
    BY <2>2 DEF Connect2
  <2>5. level >= 2 => /\ order = InOrder /\ order2 = InOrder
                      /\ MineTrue(held) /\ MineTrue(cache)
    BY <1>1, <2>1, UndisturbedFacts DEF PushedRight, Moving
  <2>6. InOrder' = InOrder /\ \A f : MineTrue(f)' <=> MineTrue(f)
    BY <2>4, SameOrder
  <2>7. level >= 2 => MineTrue(cache)'
    <3> PICK f : f = cache'
      OBVIOUS
    <3>1. level >= 2 => MineTrue(f)
      BY <2>4, <2>5
    <3>2. MineTrue(f)' <=> MineTrue(f)
      BY <2>6
    <3> QED BY <3>1, <3>2 DEF MineTrue, Mine
  <2>8. PushedRight'
    BY <1>1, <2>4, <2>5, <2>6, <2>7 DEF PushedRight
  <2> QED BY <2>3, <2>8
<1>3. \E s \in Orders(DOMAIN old), g \in Garbage :
        LET pushed == PushOld(WithCandidates(n), order2, s, g)
        IN  Connect2(n, old, pushed[1], pushed[2])
  BY DEF Backward
<1> QED BY <1>2, <1>3

LEMMA Backward0Same == Inv2G /\ SameInv /\ Backward0 => SameInv'
<1> SUFFICES ASSUME Inv2G, SameInv, Backward0, Undisturbed PROVE SameSoFar' /\ PushedRight'
  BY UndisturbedSame DEF Backward0, Connect2, SameInv
<1>1. pc = "backward" /\ level = 0 /\ i \in Window2
  BY DEF Backward0
<1> PICK n, old, mine, held, order :
      n = i /\ old = OldList2(n) /\ mine = cands[n]
      /\ held = PushBytes(WithCandidates(n), old) /\ order = order2
  OBVIOUS
<1>2. Connect2(n, old, held, order) /\ level' = level
  BY DEF Backward0, Connect2
<1>3. n = Element2(i)
  BY <1>1, BackwardMemory
<1>4. HeldOK(held) /\ DOMAIN mine \cup DOMAIN old \subseteq DOMAIN held
  BY <1>1, <1>3, BytesHeld
<1>5. TrueFor(held, mine, old)
  <2>1. \A m \in DOMAIN data : Byte(data[m]) = data[m]
    BY DEF Undisturbed, InBytes
  <2> HIDE DEF data, Byte
  <2> QED BY <1>1, <1>4, <2>1 DEF TrueFor, HeldOK
<1>6. SameSoFar'
  BY <1>1, <1>2, <1>3, <1>5, Connect2Same
<1> QED BY <1>1, <1>2, <1>6 DEF PushedRight

\* Every step keeps the file the same as in memory.
LEMMA NextSame == Inv2G /\ Inv2G' /\ SameInv /\ [Next]_vars => SameInv'
<1> SUFFICES ASSUME Inv2G, Inv2G', SameInv, [Next]_vars PROVE SameInv'
  OBVIOUS
<1>1. CASE Prepare
  BY <1>1, PrepareSame
<1>2. CASE LoadLevel \/ LoadLevel0 \/ NextLevel
  BY <1>2, LoadLevelSame, NextLevelSame
<1>3. CASE LoadBatch1 \/ PassBy \/ Forward \/ Forward0 \/ EndBatch1 \/ TurnBack \/ TurnBack0
  BY <1>3, LoadBatch1Same, PassBySame, ForwardSame, EndBatch1Same, TurnBackSame
<1>4. CASE LoadBatch2 \/ Backward \/ Backward0 \/ EndBatch2
  BY <1>4, LoadBatch2Same, BackwardSame, Backward0Same, EndBatch2Same
<1>5. CASE \/ ThrowWrongCase \/ LoadLevelFails \/ LoadBatch1Fails \/ TurnBackFails
          \/ LoadBatch2Fails \/ KeyNotFound
  <2>1. pc' \notin Moving
    BY <1>5 DEF ThrowWrongCase, LoadLevelFails, LoadBatch1Fails, TurnBackFails, LoadBatch2Fails,
                KeyNotFound, Fails, Moving
  <2> QED BY <2>1 DEF SameInv
<1>6. CASE UNCHANGED vars
  <2>1. UNCHANGED <<index1, index2, file, pc, level, b, i, ep, cands, order2, cache>>
    BY <1>6 DEF vars, memory
  <2>2. Undisturbed' <=> Undisturbed
    BY <2>1, UndisturbedSame
  <2>3. SameSoFar => SameSoFar'
    BY <2>1, StandingStill
  <2>4. PushedRight => PushedRight'
    BY <2>1, PushedStays
  <2> QED BY <2>1, <2>2, <2>3, <2>4 DEF SameInv
<1> QED BY <1>1, <1>2, <1>3, <1>4, <1>5, <1>6 DEF Next, Stopped

\* Caches, batches and bytes make no difference: where the vectors fit in bytes,
\* nothing is marked deleted and no push of line 1319 goes wrong, a merge of
\* memory-optimize-limit2G.h that comes to its end leaves the lists that
\* HNSWMerger builds in memory (extension.h) from the same two indexes when it
\* promotes none of them, for any files, batch and cache sizes, M, lambda and
\* alpha.
THEOREM SameAsTheMergeInMemoryWithin2G == Spec => []SameAsInMemory
<1>1. Init => SameInv
  BY DEF Init, SameInv, Moving
<1>2. Inv2G /\ SameInv => SameAsInMemory
  <2> SUFFICES ASSUME Inv2G, SameInv PROVE SameAsInMemory
    OBVIOUS
  <2>1. ASSUME pc = "done", Undisturbed, NEW l \in Levels(index2), NEW n \in DOMAIN data
        PROVE  DOMAIN file[l][n].list = MergedInMemory(index1, index2)[l][n]
    <3>1. InputsOK /\ TypesOK /\ SameSoFar
      BY <2>1, UnderwayFacts DEF SameInv, Moving
    <3> QED BY <2>1, <3>1, SameAtTheEnd DEF TypesOK
  <2> QED BY <2>1 DEF SameAsInMemory, Undisturbed
<1>3. Inv2G /\ Inv2G' /\ SameInv /\ [Next]_vars => SameInv'
  BY NextSame
<1> QED BY <1>1, <1>2, <1>3, MergeWithin2GInvariant, PTL DEF Spec
===============================================================================
