# A verification of HNSW-Merger

TLA+ models of the C++ code under `HNSW-Merger/`, checked with TLC and, for most
components, proved with TLAPS. Paths below are relative to `HNSW-Merger/`.

HNSW-Merger merges two HNSW indexes (layered proximity graphs) into one. A merge
runs in two stages on every level: each element of the smaller index is searched
for in the larger one (forward search), and the elements it found get the edge
back without a search (lazy backward direct-connect). Both stages are OpenMP
loops. The indexes themselves are built by concurrent `addPoint` calls, queried,
updated, saved and loaded; a second form of the merge works on index files that do
not fit into memory.

## 1. The system

| Component | State it keeps | Operations | What makes it correct |
|---|---|---|---|
| Index (`hnswalg.h`, `HierarchicalNSW`) | lists per level, levels, `maxlevel_`, `enterpoint_node_`, a mutex per list, `global` | `addPoint`, `updatePoint`, `searchKnn` | lists fit and name existing elements of their level, the entry point is on top, everything is reachable, no exception, no deadlock |
| Labels of an index (`hnswalg.h`) | label table, deletion marks, `num_deleted_`, `deleted_elements`, label mutexes | `markDelete`, `unmarkDelete`, `addPoint` with replacement, `getDataByLabel`, `saveIndex`, `loadIndex`, `resizeIndex` | marks, counters and tables agree; every call takes effect at once; a crash never leaves a file that is loaded as something else |
| Queries (`hnswalg.h`, `visited_list_pool.h`, `stop_condition.h`) | the pool of visited lists, a tag each; per query two heaps and a stop condition | `searchKnn` with a filter, `searchStopConditionClosest` | queries do not disturb each other, conditions see the counts of the heap |
| Merge (`extension.h`, `HNSWMerger`) | the result's lists, candidate sets with a mutex each, an entry point per element | ordering, promotion, per-level copy or two-stage merge | the threads' schedule does not matter, no edge is lost, lists fit, every element can be found |
| Backward search (`extension.h`, `HNSWMerger_BS`) | as above without candidate sets | the ablation: a search of its own for the way back | every element can be found |
| Disk merge (`memory-optimize.h`, `memory-optimize-limit2G.h`) | the merged file, the lists and vectors in memory | load, filter, search, connect, write back | reads are of what is in memory, the file holds what the merge in memory builds |
| Vector cache (`VarArray.h`) | packed records, two maps, a recency list | push, batch push, access, limit, clear, release | a bounded least-recently-used map |
| Baselines (`baseline.h`, `baseline2.h`) | join set, work lists | ES, NGM, IGTM, CGTM merges | every element is merged once |
| Brute force (`bruteforce.h`) | slots, label map | add, remove, search | the map and the slots agree |
| Drivers (`experiment.cpp`, `build_index.cpp`) | a shared counter | `ParallelFor`, workloads, multi-way merge | every id once, errors reported |
| Bindings, readers, distances | - | glue, I/O, arithmetic | not part of this project |

Interaction: drivers call `addPoint` from `ParallelFor` threads and then a merge;
the merge reads both indexes (`search2Layer`, `get_linklist_at_level`), writes a
third one and, in promotion, the indexes it was given. All threads of an
insertion or update share the lists under one mutex per element; calls on labels
share tables under one mutex each and exclude each other by a mutex their labels
hash to; queries share nothing but the pool; the threads of the forward loop share
the candidate sets under one mutex per element of `index2`; the backward loop reads
these sets without a lock, behind the implicit barrier. The disk merge is one
thread; what its steps share is memory that is loaded and freed per batch and level.

Behaviour that is hard to test: the interleavings of all these; an insertion that
holds the mutex of its own element while it takes others, beside updates that take
them in another order; state read after an unlock (`enterpoint_node_`), read twice
(deletion marks) or written back long after it was read (lists during an update);
list overflow; deletion marks that are copied raw; promotion that modifies its
inputs; eviction from a cache between two uses; tags that wrap; two heaps that
break ties differently; a crash in the
middle of a save. `PROJECT.json` lists every hazard at its line.

## 2. Modules

| Module | Models | Source |
|---|---|---|
| `HNSWIndex` | the data of an index; what insertion and deletion leave in it (`WellFormed`) | `hnswalg.h`, `extension.h` 14-28 |
| `HNSWAlgorithms` | neighbour selection, `search2Layer`, `searchKnn` as operators | `hnswalg.h` 403-574, 1435-1489; `extension.h` 39-152 |
| `MergeLevel` | what a merge does to one element on one level; assumptions on search and selection | `extension.h` 443-793 |
| `MergeSpec` | abstract: one level per step, no threads | `extension.h` 603-799 |
| `HNSWMerge` | the level loop with its threads, mutexes and barriers | `extension.h` 603-799 |
| `BackwardSearch` | the result of `HNSWMerger_BS` | `extension.h` 809-1133 |
| `MergeQuality` | statements about merged indexes that need the real algorithms | |
| `MergeSetup` | everything before the level loop | `extension.h` 435-593 |
| `HNSWInsert` | concurrent `addPoint` with distinct labels | `hnswalg.h` 321-400, 612-744, 1313-1432 |
| `HNSWUpdate` | `addPoint` of known labels beside insertions: `updatePoint`, `repairConnectionsForUpdate` | `hnswalg.h` 1156-1312 |
| `LabelSpec`, `Labels` | abstract: a set of labels, atomic calls, a file; detailed: marks, counters, tables, mutexes, parts of the file | `hnswalg.h` 745-1165, 1313-1375 |
| `Queries` | concurrent queries with the visited lists, filters and stop conditions | `hnswalg.h` 403-528, 1435-1543; `visited_list_pool.h`; `stop_condition.h` 146-272 |
| `Recency` | the order of last use, shared by the next two and by `DiskMerge2G` | `VarArray.h` |
| `LRUMap`, `VarArray` | abstract: a bounded map with recency; detailed: the packed cache | `VarArray.h` |
| `DiskIndex` | index files: slots, search and selection over what was read from them | `memory-optimize*.h` |
| `DiskMerge` | the state both disk merges have, and what both compute alike | `memory-optimize*.h` |
| `DiskMergeME` | the disk merge that keeps all vectors in memory | `memory-optimize.h` |
| `DiskMerge2G` | the disk merge with bounded caches | `memory-optimize-limit2G.h` |
| `DiskReference` | the merge in memory (`MergeLevel`, without promotion) run on the same files | |
| `IndexInputs` | builds small indexes for the instances | |
| `MCHNSWMerge`, `MCMergeSetup`, `MCHNSWInsert`, `MCHNSWUpdate`, `MCLabels`, `MCQueries`, `MCDiskMerge`, `MCDiskMerge2G` | small instances for TLC | |
| `HNSWMergeProofs` | theorems about the merge and its preparation | |
| `HNSWInsertProofs` | theorems about concurrent insertion, and about updates beside it | |
| `LabelsProofs` | theorems about labels, marks, counters and files | |
| `HNSWAlgorithmsProofs` | contracts of the search and the selection themselves | |
| `QueriesProofs` | theorems about concurrent queries | |
| `DiskProofs` | what the proofs about both disk merges share | |
| `DiskMergeMEProofs` | theorems about the disk merge, and about the cache | |
| `DiskMerge2GProofs` | theorems about the disk merge with bounded caches | |

Composition: `HNSWMerge` and `MergeSpec` extend `MergeLevel`, and `HNSWMerge`
instantiates `MergeSpec` under a refinement mapping; `BackwardSearch` extends
`MergeLevel` too; `MergeQuality` joins both with `HNSWAlgorithms`. `HNSWUpdate`
extends `HNSWInsert`, whose threads run beside the updaters on the same lists.
`VarArray` instantiates `LRUMap`, `Labels` instantiates `LabelSpec`, and the disk
merges extend `DiskMerge`, which extends `DiskIndex` and `DiskReference`; the latter
instantiates `MergeLevel`.

### How state and actions correspond to the code

*Lists* are sets of ids: no property depends on the order inside a list, and with
distinct distances neither does any algorithm (`Queries`, where distances may tie,
chooses). That a list can name an element twice is therefore not a state but the
predicate `AppendsTwice`. Memory blocks, timers and prefetches
are left out; the distances cached beside the lists appear in the disk merges only,
where they are loaded apart from the lists. *Vectors* are points on a line; TLC uses
marks of a Golomb ruler so that all distances differ.

`HNSWMerge`. The master's position is `phase`; `CopyLevel1`, `CopyLevel2` are the
two `deepCopyOneLayerOnIndex` branches, `StartForward`, `StartBackward` and
`EndLevel` the edges of the two parallel loops. A thread takes any element nobody
has taken (`SearchForward`), which covers every batch size and schedule; the
search itself is one step because what it reads is written by nobody else. Its
inputs are `WellFormed`, which no pair is that promotion has touched (`LayersHaveLists`). For
each found element it takes the mutex and reads the candidate set
(`LockCandidates`), appends and releases (`PushCandidate`); two steps, so that a
missing mutex would show. `WriteForward` and `WriteBackward` write the new list:
candidates and old neighbours when they fit, a selection otherwise (`Connect`).
`entryAbove` is a history variable used by the refinement mapping only.

`BackwardSearch` is a function, as the threads of `HNSWMerger_BS` write nothing
another one reads: `LinksBySearch` gives every list of the result from the inputs
and the elements drawn for a new level, `Promotions` the draws that can happen.

`MergeSetup`. `in1` and `in2` are the code's `index1` and `index2`, `M_` its `M_`.
`IsArgument` says what an index that is passed in looks like. The
iterator of `filter_and_remove` is a position in the level (`Position`: ascending
within a level, higher levels after it). The random draw of `filter_and_remove` is a choice between `Select`
and `StepOver`; the iterator stays on a selected element as in the code. Its
selection loop is left as soon as more than M elements are selected, since all
the rest of it can do is throw. With M = 1 a draw always selects and the loop
never ends, hence `DrawAssumption`.

`HNSWInsert`. A thread registers (`Register`: id, own mutex, level), takes the
lock `global` and keeps it when its element will be the highest
(`EnterGlobal`), reads the entry point twice without a lock (`ReadEntry`,
`CopyEntry`), descends, and on each level searches (`StartSearch`, `Expand`),
writes its own list (`WriteOwnList`) and the lists of its neighbours
(`ConnectNeighbor`), and publishes itself (`Finish`). The mutex of the own
element is held from `Register` to `Finish`; a visit to another element's list is
one step that requires that mutex to be free, as the visit takes no other lock.
Exceptions lead to `"thrown"`. `"undefined"` stands for `back()` of an empty
vector, `"twice"` for a heap that holds the entry point twice; a thread that got
there is not followed further. `Toggle` is a `markDelete` or `unmarkDelete` by
somebody else.

`HNSWUpdate`. An updater restores a deleted element (`StartUpdate`), collects
neighbourhood and candidates list by list, replaces each neighbour's list, and
then searches and connects like an insertion, one list per step. The point added
again is the one the element has, as in the second loop of `updates_test.cpp`.
An insertion that is about to append its element to a list an update has already
put it on (`AppendsTwice`) is not followed further, as lists are sets.

`Labels`. Every call begins by taking the mutex of its label, which `Free` guards,
and ends by giving it back; the mark, the counter, the set of deleted elements and
the table change in steps of their own (`SetMark`, `Count`, `List`; `ClearMark`,
`Uncount`, `Unlist`; `Register`, `Initialise`; `Vacancy`, `Relabel`, `Retable`).
`StartSave` destroys the old file, `Write` adds one part, `Crash` loses everything
but the file, `Load` checks the size and rebuilds the tables. Links are not in this
module. Callers keep to the contracts of the comments: nobody unmarks when
replacement is allowed (1060), nobody marks an element that may be being replaced
(1142), and only new labels replace.

`Queries`. A query takes a list from the pool (`TakeList`), resets it, expands
candidates neighbour by neighbour (`Expand`, `Visit`), lets the condition remove
results (`RemoveExtra`), returns the list and filters and answers. New lists hold
`Garbage`; a tag takes one of `TagCount` values, 2^16 in the code, few enough in the
run for it to wrap. `FarAway` is the largest number of the distance type, `SizeMax`
the number a counter wraps to. Of elements equally far any may be on top of
`top_candidates`, which `CompareByFirst` orders by distance only; `search_results_` of
the document condition orders pairs, by document next. When the loop of
`filter_results` runs past the last result (`FilterRunsOut`), what follows is
undefined and the query is not followed. `BareBone` reads `num_deleted_`, a field of
its own, as a merged index has marks without it.

`VarArray`. `doing` is where a call is. A push is pending until it is stored; each eviction is a step that moves
the last record into the hole. `Spin` is the loop of a batch that does not fit. No
push looks whether its id is held: a second record is stored behind the others and
the first stays as a copy nobody names (`NoCopies` is then false). Line 1319 of
`memory-optimize-limit2G.h` pushes so, to the cache of the result, which has no limit.
`CacheNext` allows it there, or while no limit is set, and limits a cache only when
it has no copies; under a limit the maps would not survive it (see the defects).

`DiskMergeME`, `DiskMerge2G`. `Prepare` orders the files and copies them;
`LoadLevel`, `Forward`, `TurnBack`, `Backward`, `NextLevel` are the stages of one
level, an element or a batch per step. What is read without being in memory is noted
in `missed`. A slot of the file has a count and a list, which part company when a
header word is lost. In the 2 GB form `cache` is the result's `VarArray` as a map of
records (it is never limited), `recent1` the recency list of the vectors of `index1`, whose
cache is limited while its lists are walked: a use enters an element and may evict
the oldest, and an element of the batch that was evicted before its turn ends the
merge (`KeyNotFound`). `bytes` are the level-0 vectors as bytes, `order2` the positions
in a buffer.

## 3. Runs

| Run | Instance | Shows |
|---|---|---|
| `MergeSafety` | 2 threads; 2 into 3 elements (every graph on three elements), 3 into 4 with complete graphs; M = 2, lambda = 3; up to 2 levels; with and without deletion marks, also on all elements | types, sound lists, lists that fit, no race, no lost push, backward edges mirror forward edges unless the list is full or the selection rule drops them; a query for an element's vector finds it unless a list on level 0 is full and one overflowed, and the same without full lists for `HNSWMerger_BS` whatever it promotes |
| `MergeProgress` | 2 threads, 3 into 2 elements, lambda = 2; an exhaustive search and a plain cut for the code's own; fair | the parallel merge implements `MergeSpec`, and every merge returns |
| `SetupOrder` | all indexes of 1 to 3 elements, 2 levels, M = 2, labels that overlap | entry point, levels, labels of the result; which pairs are refused |
| `Insert` | 2 threads add 3 points to no element or to three, of which one is marked and unmarked and the entry point is deleted, with room for four elements; 2 levels, M = 2; fair | lists, entry point, no exception, the waiting order, reachability on every level where no list can overflow, every `addPoint` returns |
| `Update` | an insertion and two updates (of 0 and 2) on three elements, one deleted or not; 2 levels; fair | lists, no exception, every call returns |
| `CacheMap` | 3 ids, 2 vectors, limits up to 3, batches up to 3, held ids pushed again; fair | `VarArray` is consistent and implements `LRUMap`; every push returns or its batch is larger than the limit |
| `DiskME` | files of 2 to 4 elements, up to 3 levels, deletions; batches of 2, 1 and 2; M = 2, lambda = 3 | reads are of what is in memory; the file is that of the merge in memory, of pairs that are not promoted |
| `Disk2G` | the same with caches of three records above level 0 and six on it, vectors inside and outside of a byte's range, a layer of four in a ring, lists whose targets cross | what is compared was loaded; an element of a batch is evicted before its turn only if batch and neighbours exceed the limit; merged slots are whole; as above for vectors of bytes; the refusal for ids one file lacks |
| `Labels` | 2 threads, 3 labels on 2 mutexes, room for 2 elements, crash and load at any point | counters and tables agree, `LabelSpec` is implemented |
| `Queries` | 2 threads on paths and a complete graph of three elements, tags of 3 values, `ef_` = 1, filters, a deleted element, both stop conditions; one of them alone with every small stop condition, from places in the middle between elements, too; fair | `searchKnn` answers as a query alone would, a search finds marked what it has marked itself, counters and heap of a condition follow the results, ties included as far as they can, conditions answer what was asked for, every query ends |

Runs that show the code disagreeing with what it says (`PROJECT.json`
"findings"):

| Run | Statement refuted |
|---|---|
| `MergeDeletedFound` | queries do not return deleted elements: the result of a merge keeps the marks but not `num_deleted_`, and the query then skips the check |
| `UpdateInbound` | every element is on some list (`checkIntegrity`): an update writes back lists it read before another thread entered a new element there |

**Bounds.** Two threads suffice for a race on one mutex, list, counter or visited
list; the waiting order between more is proved, not checked. Three elements are
needed for a search that expands a node, prunes one and returns one; four with
complete graphs for an overflow on both levels at M = 2. Two levels give every kind
of step between levels (top, hand-down, bottom), three a level between two others.
A batch of two of three elements gives a full and a cut-off batch, a cache of three
records an eviction before an element's turn. Three values make a tag wrap within two searches of one
list. `MaxLevel` bounds what `getRandomLevel` draws, `max_elements_`, `NewPoints` and
`Renewed` bound the calls, `Capacity` what `resizeIndex` asks for, `MaxItems` and
`MaxBatch` the cache; once there is a file, `CallsAfterSave` bounds the calls at a
time in `Labels` (the interleavings of two are covered before). The draws of
`filter_and_remove` are bounded by its own exception.

**Deadlock** is checked in every run but `Queries`: a finished system stutters explicitly
(`Returned`, `Stopped`, `Added`, `Done`); the cache and the labels
always have a next call. A query that has read past the end of its results is not
followed, and the run stops with it; that all others end is `QueriesEnd`.

**Fairness.** Weak fairness of the master and of every thread in merges,
insertions and updates: OpenMP and `std::thread` threads are scheduled, and a
thread that waits for a mutex is not overtaken for ever because the others take it
finitely often (once per candidate on a level; once per visit of an insertion or
update, of which there are finitely many). In `VarArray` weak fairness of the loops
inside of a call: the caller runs on. In `Queries` weak fairness of each query
between its question and its answer: `poolguard` is taken twice and held for a few
steps. The disk merges are sequential loops, checked for deadlock only.

**Left out of properties.** `FindsEveryElement` excludes inputs with deletions and
results where a level-0 list is full and one overflowed, its counterpart those with
deletions or a full level-0 list: an element may rightly or by selection become
unreachable. `SameAsInMemory` excludes deletions (the disk merge keeps deleted
elements, the merge in memory does not look at them) and copied levels, for
pairs that promotion would change (`DiskReference`), and for
`DiskMerge2G` vectors that are not bytes, merges given up, and layers above level 1 that are longer
than a batch or leave fewer ids between two elements than there are levels below
(`OneBatch`; see the defects). `EntryPointOnTop` excepts arguments whose top level has only
deleted elements (see the defects). `AnswersAsAlone` is about questions with at most
one element at each distance, since otherwise the answer depends on the order of
lists and heaps; the number of documents in `StopConditionMet`, and the counters
while results are filtered, are promised where elements equally far belong to one
document (`TiesWithinDocuments`; see the defects for what happens elsewhere).
`Queries` leaves out the empty index; with
`min_num_candidates` 0 an epsilon search whose start is hidden or too far stops at
once. A stop condition is made per query, as the code's users
do.

### Known defects

Statements that the models contain, that do not hold, and that no run checks; each
follows from the cited lines. Those with an instance TLC refutes at once.

| Where | What | Statement |
|---|---|---|
| `extension.h` 475 | lists of deleted elements of `index2` keep their own ids in the merged index and may name their owner | `MergeQuality!NoSelfLink` |
| `extension.h` 546-553 | promotion raises `maxlevel_` and `enterpoint_node_` of `index1` or `index2` and enters the elements into the layer tables, but the lists of the new level exist in the result only (509-518); the level loop then copies, reads or searches lists that are not there. The comment at 610 says "copy all data for index 2 on this layer to new index" | `MergeSetup!LayersHaveLists` (`SetupOrder.cfg` with `MCCrowdedBesideOne`) |
| `extension.h` 501-518 | promotion may select an element twice; it then is on its own list on the new level | `MergeSetup!NewLayerIntegrity` (with `MCCrowded`) |
| `extension.h` 870-897 | an element `HNSWMerger_BS` promotes from indexes that have only level 0 keeps the raw list of its own index there; and when the top level of `index2` has no live element, the entry point is the first of an empty vector | the exclusions of `BackwardSearchFindsEveryElement` |
| `hnswalg.h` 1406 | a deletion mark read twice may change in between: an insertion is left without a neighbour, or holds the entry point twice | `HNSWInsert!SomethingToConnect`, `FoundTwice` |
| `hnswalg.h` 687 | an insertion does not look for its element on the list it extends, where an update may have put it; `checkIntegrity` asserts that no list names an element twice (1562) | `HNSWUpdate!NothingTwice` (`UpdateInbound.cfg`) |
| `hnswalg.h` 1555 | `checkIntegrity` asserts that no list names element 0, and fails on every index of two elements, since ids count from 0 | `HNSWInsert!IdsPositive` (`Insert.cfg` with `FromEmpty`) |
| `hnswalg.h` 1142 | a known label passed with `replace_deleted`, or a label marked while its element is replaced, leaves two elements with one label | `Labels!LabelsAgree` with `ReplaceKnown = TRUE` |
| `hnswalg.h` 1010 | `getDataByLabel` reads the dimension where `dist_func_param_` points, which is `HNSW_DIST_MAGIC` once the distance function is wrapped to be counted | `Labels!PointCopied` |
| `hnswalg.h` 1492-1543 | `searchStopConditionClosest` declares labels and answers with internal ids | `Queries!AnswersAreLabels` |
| `stop_condition.h` 175-212 | `search_results_` orders pairs by distance and document, `top_candidates` by distance only: of two elements equally far but of different documents the one heap drops the one, the other heap the other. `remove_point_from_result` lowers the counter of one document and pops the pair of the other; `filter_results` then drops too few or too many results, or lowers a counter below 0 and runs past the last result | `Queries!DocumentsFound` (`Queries.cfg` with `Tied` and `OneDocument`) |
| `extension.h` 545-561 | when all elements of the top level of `index2` are deleted, and that level is above the common top, promotion raises `maxlevel_` above the level of the elements it promotes, and the entry point is not on top | `MergeSetup!EntryPointEvenOnHollow` |
| `memory-optimize.h` 859 | a copied level gets lists without their header word; the first neighbour is read as the count | `DiskMergeME!CheckIntegrity` |
| `memory-optimize.h` 1168 | the buffer for lists is never initialised; deletion marks on level 0 are lost or appear | `DiskMergeME!MarksSurvive` |
| `memory-optimize-limit2G.h` 1319 | the number of records pushed is the level: above level 1 each push takes records of other elements along, wrong ones if the layer has several batches or the ids between two of its elements are few | `DiskMerge2G!SameAsInMemory` without `OneBatch` |
| `memory-optimize-limit2G.h` 1197, 1429 | the cache of `index1` evicts an element of the batch before its turn if batch and neighbours exceed its limit, and the merge ends with `out_of_range`; with batches of 4096 and limits of 2^19 and 2^20 that takes M of 128 or more | `DiskMerge2G!KeyNotFound`; `BatchStaysLoaded` says it is the only way |
| `memory-optimize-limit2G.h` 1130 | the layer table of `index1` is filled from `index2`; above level 0 line 1276 then loads these ids from `index1`, and the merge throws when `index1` has no such ids, after part of the file was written | `DiskMerge2G!TurnBackFails`; no property says when it may happen |
| `VarArray.h` 31, 73 | a push of an id that is held leaves a copy of its record; with a limit the copy takes the id back when it fills a hole, and is never evicted. Line 1319 makes such copies, in a cache without limit | `VarArray!NoCopies`; pushes of held ids under a limit are left out |
| `VarArray.h` 207 | a push of more records than the limit empties the cache and never ends | `VarArray!Spin`, the exclusion of `PushReturns` |
| `bruteforce.h` 86-103 | `removePoint` reads the iterator it has erased, and re-enters the label of a removed last element | not modelled |

`CacheTypeOK`, `SetupTypeOK`, `TypeOK` of `Labels`, `DiskMergeME` and `DiskMerge2G`,
and `MergedSlotsWhole` of `DiskMergeME` (all of them proved), and the inductive
invariants of the proofs hold in the instances, but are not among the properties of
the runs.

## 4. Proofs

Constants are arbitrary; the assumptions are the named `ASSUME`s: M and lambda
positive, inputs well-formed with `index1` not higher, the search returns at most
lambda live elements of the level and a usable entry point, selection returns at
most m of its candidates. TLC evaluates them on every run, for the code's own
search and selection.

`HNSWMergeProofs` proves of `HNSWMerge`, for any number of threads, elements and
levels:

* `TypeCorrect`, `NoRace` from `TypeInv`, which adds to `TypeOK` where each
  thread is and what it owns: without "an element has one thread, a mutex one
  owner" the absence of races is not inductive.
* `ListsFit`: the degree bound, from `ConnectFacts`.
* `ResultInvariant`: every candidate set and every list is at every moment a
  function of the inputs, of the entry points of the level above and of which
  threads are through. This is the strengthening that makes the rest follow.
* `Refinement`: `HNSWMerge` implements `MergeSpec`. `EndLevel` maps to
  `MergeOneLevel`, the copies to `CopyLevel`, everything else stutters.
* `EdgesOffered`, `ListsSound`: no lost backward edge; lists name elements that
  exist on their level and never their owner. All of this is about the pairs of
  `PairsAssumption`, which promotion has not touched.
* `EdgesMirrored`: `BackwardConnected`, if selection is that of the code
  (`CodeSelection`, so in `MergeSafety`). `ResultInv` says what both lists are, and
  `SelectionIsGreedy` why a candidate is left out (`LeftOut`).
* `MergedIndexWellFormed`: without deletion marks the result is an index like those
  that came in, so it may be merged again. Beyond the properties above it needs that
  elements have no lists above their level (`NothingBelow`); with marks a deleted
  element keeps the copied list, which may name it.
* `EveryElementFound`: `FindsEveryElement`, if the search is that of the code
  (`CodeSearch`), level 0 of `index2` is strongly connected, no two vectors are equal
  and no level-0 list overflowed (`NothingDropped`). Every element of `index1` has
  then found somebody (`Exchanged`) and is linked with it both ways, so level 0 of the
  result is strongly connected (`ResultConnected`) and a query finds everybody
  (`QueryFindsElement`). All four conditions hold together in states of
  `MergeSafety`, with full lists as well. Where a list overflowed, selection may
  cut an element off, and what is checked is the instance.

The module begins with the lemmas about the operators of `MergeLevel`: offsets,
merged ids, copied lists, what a search and a selection may return.

`HNSWInsertProofs` proves of `HNSWInsert`, for any number of threads, points,
slots and levels, any sound index to start from and deletion marks that change
at any moment: `TypeCorrect`, `ListsAlwaysSound`, `NoCorruptGraphReported`,
`EntryPointAlwaysOnTop`, `LocksAlwaysOrdered`. Soundness of a list (`ListsSound`) is that
it fits and names registered elements of its level, never its owner; of the other
assertions of `checkIntegrity`, all refuted (section 3), nothing is proved. All follow from `InsertInv`
(`InsertInvariant`); none is inductive alone. Its argument:

* An element is *complete* when nobody inserts it. The entry point, the entry
  to a level and everything a thread is going to connect to are complete
  (`ThreadOK`, `EntryOK`); completeness and levels never get lost, so what the
  other threads do cannot spoil what a thread holds (`OthersKeep`).
* On the levels an insertion has not got to, no list names its element and its
  own list is empty (`UnpublishedOK`). Whatever a search meets on a level is thus
  complete or ahead of the searcher on it, which is the waiting order, and the
  test for a list that is already filled never throws.
* A thread above the index owns `global` and so knows the current `maxlevel_`
  (`GlobalOK`); this is why the unlocked reads of `enterpoint_node_` are safe.
* The deletion mark of the entry point may be read before it changes: only the
  states `"undefined"` and `"twice"` depend on it, and the theorems do not
  exclude them (`"undefined"` is reached, see the known defects).

`ReachableFromEntry` proves `ReachableOnEveryLevel`, by a second invariant on top of
the first: `LinkedInv`. It is about the levels whose lists cannot overflow (`Small`;
a level that is small was small before, `SmallBefore`). Their complete elements hang
together by edges in both directions: wherever they are cut in two, such an edge
leads across (`Linked`). An element under insertion has neighbours on each level it
is through with, all of them complete, and all but those it has still to connect name it
(`Attached`), so that it joins the others when it becomes complete (`FinishLinked`).
That no edge is dropped needs that what is still to be connected does not name the
new element (`Unnamed`): the list then lacks its owner and the new element, and has
room for it (`RoomOnSmallLevel`). Two elements inserted at the same time need no edge
between them. The hypothesis `LinkedIndexes` asks the same of the index insertion
starts from; an index that insertion has left satisfies it, by the invariant, and
TLC evaluates it in the run. On a full level selection drops edges, and the code
promises nothing.

The assumptions are `ConstantsAssumption`, `IndexesAssumption` (`WellFormed`) and
`HeuristicAssumption`: selection returns at most m of its candidates.

The second part of `HNSWInsertProofs` proves of `HNSWUpdate`, for any number of inserting threads,
updaters and renewals beside each other: `ListsSoundBesideUpdates` and
`NoCallEverFails`, from `UpdateInv` (`UpdateInvariant`), which adds to `InsertInv`
what an updater has in hand; it holds until an insertion is about to append an
element twice (`AppendsTwice`), which ends what is followed of that insertion. TLC has checked `UpdateInv` in the instance of run `Update`. Its argument:

* An updater keeps no lock while it computes, so it may rely only on what no step
  of anybody takes back: that an element exists, has a level, is complete, or has
  been published on a level (`LocalsKeep`). Nothing is said of the lists it has read;
  they may have been replaced since.
* Lists get shorter here, as they never do in insertion. `ListReplaced` says which
  replacements leave `InsertInv` as it is: the new list fits, lacks its owner, and
  names only elements already published on the level. The lists of an element that is
  being inserted are never replaced, since its lock is held to the end.
* What a search of an update meets may still be under insertion (`Seen`), yet what
  the update connects to must be complete, or `mutuallyConnectNewElement` would find a
  level that is not there. It is: an element is expanded only while its lock is
  free, and where the search stops no candidate is left among the results
  (`FoundIsComplete`), so every result has been expanded.
* An element that is updated has been restored before (`Restored`), so a deleted entry
  point that is added to what was found is never the element itself.

That no element is dropped from every list is not proved because it is false: see
`InboundConnections` in the findings.

The second part of `HNSWMergeProofs` proves of `MergeSetup`, for any arguments that satisfy
`ArgumentsAssumption` and any M above 1 (`DrawAssumption`): `SetupTypes`, `SetupEntryPoint`,
`SetupLabels`, `SetupRefusal`. They are about the result; that `index1` and `index2` lack
the lists promotion claims for them is a known defect (`LayersHaveLists`). They follow from `SetupInv`: the two indexes are the
arguments, in one order or the other, raised on the sides promotion is through with;
what a side has promoted is live, on the common top level, and is what `newLayer`
holds. An attempt to prove `EntryPointOnTop` without exception failed at
`LinkNewLayer` for good reason and showed the row on lines 545-561 above.

`LabelsProofs` proves of `Labels`, for any number of threads, labels, mutexes and
elements, with a crash at any moment: `LabelsTypes`, `LabelsCounters`,
`LabelsLookup`, `LabelsOwners` and `LabelsImplement`. Their hypothesis is
`~ ReplaceKnown`, the contract of the comments at `hnswalg.h` 1060 and 1142 (without
it the statement is false, see the defects). The argument:

* Two calls never hold one label mutex (`MutexHeld`), no two labels lead to one
  element (`OneLabel`), no two calls work on one element (`OneOwner`). None is
  inductive alone: a replacement works on an element under the mutex of another
  label than the element's, and what keeps it apart from calls on that label is
  that its element is marked and withheld from the set of deleted elements.
* Where a call is says whether its element is marked, and what the table says of it
  (`Called`, `Found`, `Marked`). The counter and the set of deleted elements differ
  from the marks by exactly the owners that are between two steps (`CountersAgree`).
* The refinement needs more (`PromiseInv`): what a call that has taken effect is
  going to answer (`Answered`), that a copied vector belongs to the label asked for
  (`Copying`, `PointsOK`), and what the file stands for (`SaveOK`). A call takes
  effect at `SetMark`, `ClearMark`, `Initialise`, `Update` or `Copy`, a replacement
  already removes the old label at `Retable`, a save takes effect with its last
  `Write`.

The last part of `DiskMergeMEProofs` proves of `VarArray`, for any ids, vectors, limits and batches:
`CacheTypes`, `CacheConsistent` and `CacheImplements`, the refinement of `LRUMap`.
ids that are held may be pushed again while no limit is set, as line 1319 does.
`CacheInvariant` adds to `CacheTypeOK` and `Consistent` that under a limit what a push
has pending is new to the cache, one record per id (`PendingNew`), and that a limit is
enforced only where there is one (`Limited`); an eviction in the middle of a batch
needs both.

`HNSWAlgorithmsProofs` proves what the code's own selection and search do, for every
`WellFormed` index, query, level and size: the contracts which `MergeLevel` and
`HNSWInsert` assume of theirs.

* `SelectionIsGreedy`: a candidate is kept if and only if fewer than m nearer ones
  are kept and none of these occludes it; so at most m are.
* `DescentEndsLocally`, `DescentFacts`: the walk down ends where no neighbour is
  closer, at an element of the level, not farther than where it began.
* `BeamEnds`: the loop is left after at most as many turns as there are elements,
  since a turn expands an element that no earlier one did.
* `BeamExplores`, `ExactOnCompleteLevel`: when it is left, everything that can be
  reached from the start through elements closer than the farthest result is a
  result or no closer; where all are linked the results are the nearest.
* `search2LayerFacts`, `searchKnnFacts`: the above for the two searches as a whole;
  the first is `SearchAssumption` of `MergeLevel`.
* `WideSearchFindsAll`, `QueryFindsElement`: a search as wide as the index finds all of
  a strongly connected level, because the elements it has visited have no edge out;
  so a query for the vector of an element finds it, if no other has the same vector.

Distances may tie here: only `QueryFindsElement` asks for distinct vectors.

`QueriesProofs` proves of `Queries`, for any number of threads, indexes, questions,
tag values and contents of new memory:

* `ListsStayOwned`: a list is on the pool, once, or with one search, whose tag is
  the list's, and no mark is above a list's tag unless that is the last one, after
  which the list is cleared.
* `MarksAreOwn`: from it, what is marked for a search are its start and the
  neighbours it has come past; no other search sets or clears a mark it reads.
* `ConditionsCount`, `AnswersAreAsAlone` and `StopConditionsMet`, from `QueriesOK`
  (`QueriesStayOK`), which says of each query what it holds given what it has
  marked: the counters are those of the results, the heap of a condition has as many
  pairs at each distance as there are results, nothing that was marked
  is closer than a result unless it is one (`NothingCloser`), and the search is
  where the pure search of `HNSWAlgorithms` is after some turn, or inside its next
  one (`Follows`). Inside a turn the two differ: the code drops a neighbour that is
  too far given the results so far, the operator given those at the turn's start;
  the elements kept too many are never expanded.

Nothing is assumed of distances but that none is above `FarAway`. Where elements are
equally far each property says itself what is left of it (section 3); `Follows` is
about questions without ties. TLC evaluates the assumptions (`QueriesAssumption`,
`QuestionsAssumption`: what is asked is for at least one element) in the runs.

`DiskMergeMEProofs` proves of `DiskMergeME`, for any two files, batch sizes, M, lambda
and alpha: `MergeOnDiskTypeOK`, `NothingReadUnloaded` and `MergedLevelsWhole`, from
`MEInv` (`MergeOnDiskInvariant`), and `SameAsTheMergeInMemory`, from `SameInv` beside it. TLC has checked `MEInv` and `SameInv` on a
part of the instance of run `DiskME`. Its argument:

* Slots of `index1`, and of elements that are not on a level, are whole from the moment
  the file is copied, whatever is written later (`FileOK`); the others of a level
  become whole one by one on the way back, in the order of the layer (`Rank`,
  `BackwardOK`), and all of them before the level is left.
* The lists of `index2` in memory are exactly those of the level during the searches
  (`ForwardOK`), so that a search sees the index itself (`InMemoryIsWhole`) and finds
  elements of the level only (`FoundFacts`, from `BeamExplores`). On the way back
  above level 0 the same lists serve; on level 0 those of the batch, whose elements
  are their own positions (`Element2Facts`). The last batch is cut off at the last
  element; without that the invariant fails where the mutant's does.
* Candidates have true distances (`CandidatesOK`), so selection from a list with
  stored distances is selection by `getNeighborsByHeuristic2` from its elements
  (`SelectedFacts`), and keeps at most Mcurmax (`ConnectedFacts`).

`SameInv` says, of a merge that leaves out no level of inputs without deletion marks
(`WhollyMerged`), that at every point of every batch

* a search that is still to be made on the level begins where the one in memory does,
  and one that has been made leaves behind where the next one begins (`EntriesSame`).
  In memory each level starts from an entry point and walks down (`Memory!Forward`);
  on disk the walk is spread over the levels. `DescendFurther`, `BeginPassedBy` and
  `BeginSearched` show that the two agree, level by level; the nearest of what was
  found is the same element under both numberings (`NearestShifted`);
* the candidates of an element of `index2` are the elements of `index1` whose search
  in memory finds it, as far as they had their turn (`CandidatesSame`);
* a slot that has been written has the list of the merge in memory, and one that is
  never to be written is empty in both (`FileSame`). A list the disk merge selects
  from stored distances has the members of the one selected in memory
  (`ConnectedMembers`).

`Entries` of `DiskReference` is a recursive function of the level; that its equation
has a solution, and what it says on each level, are `EntriesExist` and `EntriesFacts`.

`DiskMerge2GProofs` proves of `DiskMerge2G`, for any two files, batch and cache sizes, M,
lambda and alpha, and whatever lies behind the end of a buffer: `MergeWithin2GTypeOK`,
`CachesOfBatchesSound` and `MergedLevelsWholeWithin2G`, from `Inv2G`
(`MergeWithin2GInvariant`), `BatchesStayLoaded` from `RecentInv` beside it, and `SameAsTheMergeInMemoryWithin2G`, from `SameInv` beside
it. TLC has checked both on a part of the instance of run `Disk2G`. The lemmas about
files, lists, ranks and the steps from level to level are in `DiskProofs`, and serve
`DiskMergeME` as well; what is new is this:

* The forward searches do not see `index2` but what its loaded vectors make of it
  (`Seen2`: bytes on level 0), and find elements of the level in that index too
  (`SeenFacts`). Distances are therefore the true ones only where `Exact`, and a slot
  is whole (`FairSlot`) with or without them.
* A push of line 1319 brings in more records than the one meant. Up to level 1 the cache of the result nevertheless holds only vectors under
  their own ids, or their bytes (`CacheOK`, from `PushFacts` and `PushOldFacts`), and
  every vector that is compared has been pushed before (`missed` stays empty).
* An element that waits for its turn is in the recency list of `index1`, and whatever is
  nearer the front is needed by the batch, too (`RecentInv`); so it is evicted only when
  the batch and its neighbours are more than the limit.
* A merge that gives up while it loads a level or a batch leaves the file as sound as it
  was (`FailsInv`), and the refusal for missing ids means that `index1` is the smaller
  index (`FitsOK`).
* Above level 1 a cache may hold wrong vectors. Where the layer is one batch its elements
  fill the buffer in their order (`InOrder`, `RanksFollow`), so that records pushed in
  excess belong to the ids that follow, unless a gap between ids comes too early. This
  is `OneBatch`, and under it what is compared is right (`PushedRight`, `MineTrue`). The
  attempt to prove `SameAsInMemory` with `OneBatch` asking for one batch only failed from
  level 3 on, where TLC then showed a wrong list behind a gap; the condition on gaps
  came from there.

`DiskAssumption` asks of the inputs that they are `WellFormed` and have the fields of
an index and no other; `BatchAssumption` that batches are not empty and fit the cache.

The induction theorems of the library take an operator as a parameter, which the
provers cannot instantiate; where a proof is by induction on a number (turns of a
loop, levels, size of a set) it is done by hand: `SetInduction` is about the set of
numbers a statement holds for, `PrimitiveRecursion` about recursive functions.

Only model-checked: liveness (`Terminates`, `AllPointsAdded`, `AllCallsReturn`,
`PushReturns`, `QueriesEnd`), which TLAPS does not cover; and whether searches of a merged index find
everything where lists overflowed (`FindsEveryElement` beyond `EveryElementFound`) or
after `HNSWMerger_BS` (`BackwardSearchFindsEveryElement`), which is not so for every
index and metric: it is checked for the instances.

## 5. Not modelled

Not modelled, with the reason:

* The baselines and the extended searches that serve them: sequential merges of
  finished graphs whose questions are speed and recall.
* The brute-force index: the tests' reference, used by one thread.
* The exception path of `ParallelFor`, and the workloads and the multi-way merge of
  the drivers, which time and print.
* Short reads and failed opens in the disk merge: after one, any content would be
  possible.
* The level loop on pairs promotion has changed: it reads lists that are not there
  (`LayersHaveLists`), so any content would be possible.
* Updates that change the vector: distances would change while others search.
* The order of the arguments and the exceptions of `HNSWMerger_BS`, which are those
  of `MergeSetup` in form.
* Byte layout, SIMD distances, Python glue, dataset readers, timing and logging.
  Floating point is not modelled; distances are exact integers.
