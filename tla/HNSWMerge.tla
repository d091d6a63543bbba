------------------------------ MODULE HNSWMerge ------------------------------
(***************************************************************************)
(* The level loop of HNSWMerger (extension.h) with its OpenMP threads.     *)
(* On every level two parallel loops run one after the other: the forward  *)
(* loop over the elements of index1, whose threads share the candidate     *)
(* sets of the elements of index2 under one mutex each, and the backward   *)
(* loop over the elements of index2, which reads those sets without a      *)
(* lock.  The implicit barrier at the end of a parallel loop separates     *)
(* them.                                                                   *)
(*                                                                         *)
(* The dynamic schedule is abstracted to "an idle thread takes any element *)
(* no thread has taken", of which every batching is an instance.           *)
(***************************************************************************)
EXTENDS MergeLevel

CONSTANTS
  Threads,    \* the OpenMP threads
  NoThread    \* the owner of a free mutex

ASSUME ThreadsAssumption == NoThread \notin Threads

VARIABLES
  input,                \* <<index1, index2>>, never modified here
  level,                \* the loop variable; -1 after the loop
  phase,                \* where the master thread is on this level
  links,                \* the lists of alg_hnsw
  entryPoint,           \* entry_point_collect_index1_on_index2
  entryAbove,           \* history: entryPoint as the level above left it
  candidateSetIndex2,   \* per element of index2: who found it on this level
  mtx,                  \* per element of index2: the thread holding its mutex
  todo,                 \* the elements of the running loop no thread has taken
  pc,                   \* per thread: where it is in the loop body
  cur,                  \* per thread: cur_c
  top,                  \* per thread: top_candidates (ids of index2)
  rest,                 \* per thread: temp_queue
  nbr,                  \* per thread: current.second, whose mutex it takes
  seen                  \* per thread: the candidate set read under the mutex

thread == <<pc, cur, top, rest, nbr, seen>>
vars == <<input, level, phase, links, entryPoint, entryAbove, candidateSetIndex2, mtx,
          todo, thread>>

index1 == input[1]
index2 == input[2]
off == Offset(index1)
data == MergedData(index1, index2)
Layer1 == LayerNodes(index1, level)
Layer2 == LayerNodes(index2, level)
NoCandidates == [j \in Ids(index2) |-> {}]

Init ==
  /\ input \in Pairs
  /\ level = index2.maxlevel_
  /\ phase = "level"
  /\ links = CopiedLinks(index1, index2)
  /\ entryPoint = [i \in Ids(index1) |-> NoEntry]
  /\ entryAbove = entryPoint
  /\ candidateSetIndex2 = NoCandidates
  /\ mtx = [j \in Ids(index2) |-> NoThread]
  /\ todo = {}
  /\ pc = [t \in Threads |-> "idle"]
  /\ cur = [t \in Threads |-> NoEntry]
  /\ top = [t \in Threads |-> {}]
  /\ rest = [t \in Threads |-> {}]
  /\ nbr = [t \in Threads |-> NoEntry]
  /\ seen = [t \in Threads |-> {}]

-------------------------------------------------------------------------------
(* The master thread *)

\* Only index1 has live elements on the level: deepCopyOneLayerOnIndex(index1)
CopyLevel1 ==
  /\ phase = "level" /\ level >= 0
  /\ Layer1 # {} /\ Layer2 = {}
  /\ links' = [links EXCEPT ![level] =
                 [n \in MergedIds(index1, index2) |->
                    IF n \in Layer1 THEN OldLinks1(index1, level, n) ELSE @[n]]]
  /\ level' = level - 1
  /\ UNCHANGED <<input, phase, entryPoint, entryAbove, candidateSetIndex2, mtx, todo, thread>>

\* Only index2 has: deepCopyOneLayerOnIndex(index2)
CopyLevel2 ==
  /\ phase = "level" /\ level >= 0
  /\ Layer1 = {} /\ Layer2 # {}
  /\ links' = [links EXCEPT ![level] =
                 [n \in MergedIds(index1, index2) |->
                    IF n \in Shift(Layer2, off)
                    THEN OldLinks2(index1, index2, level, n - off) ELSE @[n]]]
  /\ level' = level - 1
  /\ UNCHANGED <<input, phase, entryPoint, entryAbove, candidateSetIndex2, mtx, todo, thread>>

\* Fresh candidate sets and mutexes, then the forward loop
StartForward ==
  /\ phase = "level" /\ level >= 0
  /\ (Layer1 = {}) <=> (Layer2 = {})
  /\ phase' = "forward"
  /\ todo' = Layer1
  /\ candidateSetIndex2' = NoCandidates
  /\ mtx' = [j \in Ids(index2) |-> NoThread]
  /\ entryAbove' = entryPoint
  /\ UNCHANGED <<input, level, links, entryPoint, thread>>

AllIdle == \A t \in Threads : pc[t] = "idle"

\* Mutant: the forward loop without its barrier (nowait)
StartBackwardNoWait ==
  /\ phase = "forward" /\ todo = {}
  /\ phase' = "backward"
  /\ todo' = Layer2
  /\ UNCHANGED <<input, level, links, entryPoint, entryAbove, candidateSetIndex2, mtx, thread>>

\* The implicit barrier after the forward loop
StartBackward ==
  /\ phase = "forward" /\ todo = {} /\ AllIdle
  /\ phase' = "backward"
  /\ todo' = Layer2
  /\ UNCHANGED <<input, level, links, entryPoint, entryAbove, candidateSetIndex2, mtx, thread>>

\* The implicit barrier after the backward loop
EndLevel ==
  /\ phase = "backward" /\ todo = {} /\ AllIdle
  /\ phase' = "level"
  /\ level' = level - 1
  /\ UNCHANGED <<input, links, entryPoint, entryAbove, candidateSetIndex2, mtx, todo, thread>>

-------------------------------------------------------------------------------
(* The body of the forward loop *)

\* Mutant: ep is a copy of the element's entry point, not a reference to it
SearchForwardCopyingEntry(t) ==
  /\ phase = "forward" /\ pc[t] = "idle"
  /\ \E i \in todo :
       LET res == Forward(index1, index2, entryPoint[i], level, i)
       IN  /\ todo' = todo \ {i}
           /\ cur' = [cur EXCEPT ![t] = i]
           /\ top' = [top EXCEPT ![t] = res.top]
           /\ rest' = [rest EXCEPT ![t] = res.top]
  /\ pc' = [pc EXCEPT ![t] = "push"]
  /\ UNCHANGED <<input, level, phase, links, entryPoint, entryAbove, candidateSetIndex2, mtx, nbr,
                 seen>>

\* Take an element and search index2 for it.  index2 and the element's own
\* entry point are read by nobody else's writes.
SearchForward(t) ==
  /\ phase = "forward" /\ pc[t] = "idle"
  /\ \E i \in todo :
       LET res == Forward(index1, index2, entryPoint[i], level, i)
       IN  /\ todo' = todo \ {i}
           /\ cur' = [cur EXCEPT ![t] = i]
           /\ top' = [top EXCEPT ![t] = res.top]
           /\ rest' = [rest EXCEPT ![t] = res.top]
           /\ entryPoint' = [entryPoint EXCEPT ![i] = res.ep]
  /\ pc' = [pc EXCEPT ![t] = "push"]
  /\ UNCHANGED <<input, level, phase, links, entryAbove, candidateSetIndex2, mtx, nbr, seen>>

\* Mutant: the candidate set is read and extended without its mutex
LockCandidatesUnlocked(t) ==
  /\ pc[t] = "push"
  /\ \E j \in rest[t] :
       /\ mtx' = [mtx EXCEPT ![j] = t]
       /\ nbr' = [nbr EXCEPT ![t] = j]
       /\ rest' = [rest EXCEPT ![t] = @ \ {j}]
       /\ seen' = [seen EXCEPT ![t] = candidateSetIndex2[j]]
  /\ pc' = [pc EXCEPT ![t] = "locked"]
  /\ UNCHANGED <<input, level, phase, links, entryPoint, entryAbove, candidateSetIndex2, todo,
                 cur, top>>

\* Mutant: temp_queue is not popped
LockCandidatesNoPop(t) ==
  /\ pc[t] = "push"
  /\ \E j \in rest[t] :
       /\ mtx[j] = NoThread
       /\ mtx' = [mtx EXCEPT ![j] = t]
       /\ nbr' = [nbr EXCEPT ![t] = j]
       /\ seen' = [seen EXCEPT ![t] = candidateSetIndex2[j]]
  /\ pc' = [pc EXCEPT ![t] = "locked"]
  /\ UNCHANGED <<input, level, phase, links, entryPoint, entryAbove, candidateSetIndex2, todo,
                 cur, top, rest>>

\* std::lock_guard on the mutex of a found element, and the read of its set
LockCandidates(t) ==
  /\ pc[t] = "push"
  /\ \E j \in rest[t] :
       /\ mtx[j] = NoThread
       /\ mtx' = [mtx EXCEPT ![j] = t]
       /\ nbr' = [nbr EXCEPT ![t] = j]
       /\ rest' = [rest EXCEPT ![t] = @ \ {j}]
       /\ seen' = [seen EXCEPT ![t] = candidateSetIndex2[j]]
  /\ pc' = [pc EXCEPT ![t] = "locked"]
  /\ UNCHANGED <<input, level, phase, links, entryPoint, entryAbove, candidateSetIndex2, todo,
                 cur, top>>

\* push_back, and the end of the lock's scope
PushCandidate(t) ==
  /\ pc[t] = "locked"
  /\ candidateSetIndex2' = [candidateSetIndex2 EXCEPT ![nbr[t]] = seen[t] \cup {cur[t]}]
  /\ mtx' = [mtx EXCEPT ![nbr[t]] = NoThread]
  /\ pc' = [pc EXCEPT ![t] = "push"]
  /\ nbr' = [nbr EXCEPT ![t] = NoEntry]
  /\ seen' = [seen EXCEPT ![t] = {}]
  /\ UNCHANGED <<input, level, phase, links, entryPoint, entryAbove, todo, cur, top, rest>>

\* The element's own list in the result
WriteForward(t) ==
  /\ pc[t] = "push" /\ rest[t] = {}
  /\ links' = [links EXCEPT ![level][cur[t]] =
                 Connect(data, level, cur[t], Shift(top[t], off),
                         OldLinks1(index1, level, cur[t]))]
  /\ pc' = [pc EXCEPT ![t] = "idle"]
  /\ cur' = [cur EXCEPT ![t] = NoEntry]
  /\ top' = [top EXCEPT ![t] = {}]
  /\ UNCHANGED <<input, level, phase, entryPoint, entryAbove, candidateSetIndex2, mtx, todo,
                 rest, nbr, seen>>

-------------------------------------------------------------------------------
(* The body of the backward loop *)

TakeBackward(t) ==
  /\ phase = "backward" /\ pc[t] = "idle"
  /\ \E j \in todo :
       /\ todo' = todo \ {j}
       /\ cur' = [cur EXCEPT ![t] = j]
       /\ seen' = [seen EXCEPT ![t] = candidateSetIndex2[j]]
  /\ pc' = [pc EXCEPT ![t] = "connect"]
  /\ UNCHANGED <<input, level, phase, links, entryPoint, entryAbove, candidateSetIndex2, mtx,
                 top, rest, nbr>>

WriteBackward(t) ==
  /\ pc[t] = "connect"
  /\ links' = [links EXCEPT ![level][cur[t] + off] =
                 ConnectBackward(data, level, cur[t] + off, seen[t],
                                 OldLinks2(index1, index2, level, cur[t]))]
  /\ pc' = [pc EXCEPT ![t] = "idle"]
  /\ cur' = [cur EXCEPT ![t] = NoEntry]
  /\ seen' = [seen EXCEPT ![t] = {}]
  /\ UNCHANGED <<input, level, phase, entryPoint, entryAbove, candidateSetIndex2, mtx, todo,
                 top, rest, nbr>>

-------------------------------------------------------------------------------

Worker(t) ==
  \/ SearchForward(t) \/ LockCandidates(t) \/ PushCandidate(t) \/ WriteForward(t)
  \/ TakeBackward(t) \/ WriteBackward(t)

Master == CopyLevel1 \/ CopyLevel2 \/ StartForward \/ StartBackward \/ EndLevel

\* HNSWMerger has returned
Returned ==
  /\ phase = "level" /\ level = -1
  /\ UNCHANGED vars

Next == Master \/ (\E t \in Threads : Worker(t)) \/ Returned

Spec == Init /\ [][Next]_vars

\* The master and every thread of the team are scheduled.  Weak fairness is
\* enough for the mutexes: a thread pushes finitely often on a level, so one
\* that waits for a mutex finds it free for good in the end.
FairSpec ==
  /\ Spec
  /\ WF_vars(Master)
  /\ \A t \in Threads : WF_vars(Worker(t))

-------------------------------------------------------------------------------
(* Properties *)

Merged == MergedIds(index1, index2)
mergedLevels == MergedLevels(index1, index2)
mergedDeleted == MergedDeleted(index1, index2)

\* The type of every variable.
TypeOK ==
  /\ level \in -1 .. index2.maxlevel_
  /\ phase \in {"level", "forward", "backward"}
  /\ links \in [Levels(index2) -> [Merged -> SUBSET Merged]]
  /\ entryPoint \in [Ids(index1) -> {NoEntry} \cup Ids(index2)]
  /\ entryAbove \in [Ids(index1) -> {NoEntry} \cup Ids(index2)]
  /\ candidateSetIndex2 \in [Ids(index2) -> SUBSET Ids(index1)]
  /\ mtx \in [Ids(index2) -> Threads \cup {NoThread}]
  /\ todo \in SUBSET (Ids(index1) \cup Ids(index2))
  /\ pc \in [Threads -> {"idle", "push", "locked", "connect"}]
  /\ cur \in [Threads -> {NoEntry} \cup Ids(index1) \cup Ids(index2)]
  /\ top \in [Threads -> SUBSET Ids(index2)]
  /\ rest \in [Threads -> SUBSET Ids(index2)]
  /\ nbr \in [Threads -> {NoEntry} \cup Ids(index2)]
  /\ seen \in [Threads -> SUBSET Ids(index1)]

\* What checkIntegrity asserts of the lists of live elements, for every level
\* that has been merged: a list holds elements of the result that exist on its
\* level, never its owner.
LinksExist ==
  \A l \in level + 1 .. index2.maxlevel_, n \in Merged \ mergedDeleted :
    \A c \in links[l][n] : c # n /\ mergedLevels[c] >= l

\* No list outgrows the memory it has, whatever the two inputs contributed:
\* an append that does not fit is replaced by a selection.
DegreeBound ==
  \A l \in Levels(index2), n \in Merged : Cardinality(links[l][n]) <= Mcurmax(M, l)

\* The threads of a loop never work on the same element, so a list of the
\* result and an entry point have one writer; and nobody holds a mutex or
\* still has candidates to push once the backward loop reads the sets without
\* a lock.
NoDataRace ==
  /\ \A t, u \in Threads : t # u /\ pc[t] # "idle" /\ pc[u] # "idle" => cur[t] # cur[u]
  /\ phase # "forward" => \A t \in Threads : pc[t] \notin {"push", "locked"}
  /\ phase # "forward" => \A j \in Ids(index2) : mtx[j] = NoThread

\* Lazy backward direct-connect: when the backward loop runs, an element of
\* index2 that a list of index1 points to on this level has been offered the
\* edge back, however the pushes of the threads interleaved.
EveryForwardEdgeOffered ==
  phase = "backward" =>
    \A i \in Layer1, j \in Layer2 :
      j + off \in links[level][i] => i \in candidateSetIndex2[j]

\* The parallel merge computes, level by level, what the sequential
\* specification does: the schedule of the threads has no influence on the
\* result.  A level counts as merged when its backward loop has ended.
unmerged == phase # "level"
Sequential == INSTANCE MergeSpec WITH
  links <- [l \in Levels(index2) |->
              IF unmerged /\ l = level THEN CopiedLinks(index1, index2)[l] ELSE links[l]],
  entryPoint <- IF unmerged THEN entryAbove ELSE entryPoint

RefinesMergeSpec == Sequential!Spec

\* Every merge returns.
Terminates == <>(phase = "level" /\ level = -1)

-------------------------------------------------------------------------------
(* The inductive invariant behind the theorems of HNSWMergeProofs *)

Entries(l) == {NoEntry} \cup {n \in Ids(index2) : index2.element_levels_[n] >= l}

\* Where a thread is in its loop body, and whose element it has
ThreadOK(t) ==
  /\ pc[t] \in {"push", "locked"} =>
       phase = "forward" /\ cur[t] \in Layer1 \ todo /\ rest[t] \subseteq top[t]
  /\ pc[t] = "locked" =>
       nbr[t] \in top[t] \ rest[t] /\ mtx[nbr[t]] = t /\ seen[t] = candidateSetIndex2[nbr[t]]
  /\ pc[t] = "connect" =>
       phase = "backward" /\ cur[t] \in Layer2 \ todo /\ seen[t] = candidateSetIndex2[cur[t]]

\* The elements a loop still has to hand out are those of its layer
LoopOK ==
  /\ phase # "level" => level >= 0 /\ ((Layer1 = {}) <=> (Layer2 = {}))
  /\ phase = "forward" => todo \subseteq Layer1
  /\ phase = "backward" => todo \subseteq Layer2

\* An element has one thread, a mutex one owner
Apart == \A t, u \in Threads : t # u /\ pc[t] # "idle" /\ pc[u] # "idle" => cur[t] # cur[u]

OwnersOK == \A j \in Ids(index2) : mtx[j] # NoThread => pc[mtx[j]] = "locked" /\ nbr[mtx[j]] = j

\* The entry points exist on the level they are used for
EntriesOK ==
  /\ \A i \in Ids(index1) : entryPoint[i] \in Entries(level)
  /\ phase # "level" => \A i \in Ids(index1) : entryAbove[i] \in Entries(level)

Control == LoopOK /\ (\A t \in Threads : ThreadOK(t)) /\ Apart /\ OwnersOK /\ EntriesOK

\* What the level computes, whatever its threads do: the result of the forward
\* search of i, who finds j, and the new lists
Search(i) == Forward(index1, index2, entryAbove[i], level, i)
Backward(j) == {i \in Layer1 : j \in Search(i).top}
NewLinks1(i) == Connect(data, level, i, Shift(Search(i).top, off), OldLinks1(index1, level, i))
NewLinks2(j) == ConnectBackward(data, level, j + off, Backward(j),
                                OldLinks2(index1, index2, level, j))

\* The running loop is through with element n
Done(n) == n \notin todo /\ \A t \in Threads : pc[t] # "idle" => cur[t] # n

\* A thread of the forward loop has not yet pushed its element to the set of j
Pending(t, j) == j \in rest[t] \/ (pc[t] = "locked" /\ nbr[t] = j)

SearchResults ==
  phase # "level" =>
    /\ \A t \in Threads : pc[t] \in {"push", "locked"} => top[t] = Search(cur[t]).top
    /\ \A i \in Ids(index1) :
         entryPoint[i] = IF i \notin Layer1 \/ (phase = "forward" /\ i \in todo)
                         THEN entryAbove[i] ELSE Search(i).ep

Candidates ==
  /\ phase = "forward" =>
       \A i \in Ids(index1), j \in Ids(index2) :
         i \in candidateSetIndex2[j] <=>
           /\ i \in Layer1 \ todo /\ j \in Search(i).top
           /\ \A t \in Threads : pc[t] # "idle" /\ cur[t] = i => ~ Pending(t, j)
  /\ phase = "backward" => \A j \in Ids(index2) : candidateSetIndex2[j] = Backward(j)

\* The lists of the levels still to come, and of both sides on this one
UntouchedLists ==
  \A l \in Levels(index2) :
    l < level \/ (l = level /\ phase = "level") => links[l] = CopiedLinks(index1, index2)[l]

ForwardLists ==
  phase # "level" =>
    \A i \in Ids(index1) :
      links[level][i] = IF i \in Layer1 /\ (phase = "backward" \/ Done(i)) THEN NewLinks1(i)
                        ELSE CopiedLinks(index1, index2)[level][i]

BackwardLists ==
  phase # "level" =>
    \A j \in Ids(index2) :
      links[level][j + off] = IF j \in Layer2 /\ phase = "backward" /\ Done(j) THEN NewLinks2(j)
                              ELSE CopiedLinks(index1, index2)[level][j + off]
=============================================================================
