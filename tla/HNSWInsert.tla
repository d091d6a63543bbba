------------------------------ MODULE HNSWInsert ------------------------------
(***************************************************************************)
(* addPoint (hnswalg.h) called by several threads with different labels,   *)
(* as ParallelFor does when an index is built or inserted into.            *)
(*                                                                         *)
(* A thread holds the list lock of its own element from registration to    *)
(* the end, and takes the lock of one other element at a time while it     *)
(* reads or extends that element's list; such a visit is one step here,    *)
(* possible only while nobody inserts the visited element.  The lock       *)
(* `global' is held through the whole insertion of an element that is      *)
(* higher than the index.  Deletion marks of other elements may change at  *)
(* any time (markDelete, unmarkDelete by other threads).                   *)
(***************************************************************************)
EXTENDS HNSWIndex

CONSTANTS
  Indexes,         \* the indexes insertion starts from (records as in HNSWIndex)
  NewPoints,       \* the vectors to add, each under a label of its own
  Threads, NoThread,
  M,               \* M_
  ef_construction_,
  max_elements_,
  MaxLevel,        \* bound on what getRandomLevel draws
  Toggled,         \* ids whose deletion mark other threads flip meanwhile
  Heuristic(_, _, _, _)

Slots == 0 .. max_elements_ - 1
Heights == 0 .. MaxLevel

ASSUME ConstantsAssumption ==
  /\ NoThread \notin Threads
  /\ M \in Nat \ {0}
  /\ ef_construction_ \in Nat /\ ef_construction_ >= M
  /\ max_elements_ \in Nat
  /\ MaxLevel \in Nat
  /\ NewPoints \subseteq Int
  /\ Toggled \subseteq Slots

\* What the constructor leaves, or insertion, deletion and loading
ASSUME IndexesAssumption ==
  \A ix \in Indexes :
    /\ ix.count <= max_elements_
    /\ \/ ix.count = 0 /\ ix.deleted = {} /\ ix.maxlevel_ = -1 /\ ix.enterpoint_node_ = NoEntry
       \/ WellFormed(ix, M) /\ ix.maxlevel_ <= MaxLevel

\* The vectors the slots may hold
VectorsFrom(ix) ==
  {[n \in Slots |-> IF n \in Ids(ix) THEN ix.data[n] ELSE f[n]] :
     f \in [Slots \ Ids(ix) -> NewPoints \cup {0}]}
Vectors == UNION {VectorsFrom(ix) : ix \in Indexes}

\* Selection returns some of the candidates, at most m of them.
ASSUME HeuristicAssumption ==
  \A d \in Vectors : \A n \in Slots, C \in SUBSET Slots, m \in {M, 2 * M} :
    Cardinality(C) >= m => /\ Heuristic(d, d[n], C, m) \subseteq C
                           /\ Cardinality(Heuristic(d, d[n], C, m)) <= m

VARIABLES
  count,                        \* cur_element_count
  element_levels_, data, links, \* of every slot, as in HNSWIndex
  deleted,                      \* the ids that carry DELETE_MARK
  maxlevel_, enterpoint_node_,
  global,                       \* the owner of the lock
  todo,                         \* the points nobody has begun to add
  pc,
  cur_c, maxlevelcopy, currObj, enterpoint_copy, epDeleted,   \* locals of addPoint
  level,                        \* the level a thread works on
  cand, visited, top,           \* candidateSet, visited_array, top_candidates
  rest                          \* the selectedNeighbors still to be connected

index == <<count, element_levels_, data, links, deleted, maxlevel_, enterpoint_node_>>
entry == <<maxlevelcopy, currObj, enterpoint_copy, epDeleted>>
beam == <<cand, visited, top>>
vars == <<index, global, todo, pc, cur_c, entry, level, beam, rest>>

Code == INSTANCE HNSWAlgorithms

curlevel(t) == element_levels_[cur_c[t]]
query(t) == data[cur_c[t]]
MinOf(a, b) == IF a < b THEN a ELSE b

\* A thread has the lock of the element it inserts.
Inserts(t, n) == pc[t] \notin {"idle", "thrown"} /\ cur_c[t] = n
Locked(n) == \E t \in Threads : Inserts(t, n)

\* getNeighborsByHeuristic2(top_candidates, m), whose default arguments make
\* it keep everything below m
Select(q, C, m) ==
  IF Cardinality(C) < m THEN C ELSE Heuristic(data, q, C, m)

Init ==
  /\ \E ix \in Indexes :
       /\ count = ix.count
       /\ element_levels_ = [n \in Slots |-> IF n \in Ids(ix) THEN ix.element_levels_[n] ELSE 0]
       /\ data = [n \in Slots |-> IF n \in Ids(ix) THEN ix.data[n] ELSE 0]
       /\ links = [l \in Heights |-> [n \in Slots |->
                     IF n \in Ids(ix) /\ l <= ix.maxlevel_ THEN ix.links[l][n] ELSE {}]]
       /\ deleted = ix.deleted
       /\ maxlevel_ = ix.maxlevel_
       /\ enterpoint_node_ = ix.enterpoint_node_
  /\ global = NoThread
  /\ todo = NewPoints
  /\ pc = [t \in Threads |-> "idle"]
  /\ cur_c = [t \in Threads |-> NoEntry]
  /\ maxlevelcopy = [t \in Threads |-> -1]
  /\ currObj = [t \in Threads |-> NoEntry]
  /\ enterpoint_copy = [t \in Threads |-> NoEntry]
  /\ epDeleted = [t \in Threads |-> FALSE]
  /\ level = [t \in Threads |-> 0]
  /\ cand = [t \in Threads |-> {}]
  /\ visited = [t \in Threads |-> {}]
  /\ top = [t \in Threads |-> {}]
  /\ rest = [t \in Threads |-> {}]

-------------------------------------------------------------------------------

\* An exception releases the locks of the thread.
Unwind(t) == global' = IF pc'[t] = "thrown" /\ global = t THEN NoThread ELSE global

\* Mutant: the capacity is not tested
RegisterUnbounded(t) ==
  /\ pc[t] = "idle"
  /\ \E p \in todo, h \in Heights :
       /\ todo' = todo \ {p}
       /\ data' = [data EXCEPT ![count] = p]
       /\ element_levels_' = [element_levels_ EXCEPT ![count] = h]
  /\ cur_c' = [cur_c EXCEPT ![t] = count]
  /\ count' = count + 1
  /\ pc' = [pc EXCEPT ![t] = "enter"]
  /\ UNCHANGED <<links, deleted, maxlevel_, enterpoint_node_, global, entry, level, beam, rest>>

\* A new id under label_lookup_lock; the lock of its list, which nobody else
\* can want yet; its level
Register(t) ==
  /\ pc[t] = "idle"
  /\ count < max_elements_
  /\ \E p \in todo, h \in Heights :
       /\ todo' = todo \ {p}
       /\ data' = [data EXCEPT ![count] = p]
       /\ element_levels_' = [element_levels_ EXCEPT ![count] = h]
  /\ cur_c' = [cur_c EXCEPT ![t] = count]
  /\ count' = count + 1
  /\ pc' = [pc EXCEPT ![t] = "enter"]
  /\ UNCHANGED <<links, deleted, maxlevel_, enterpoint_node_, global, entry, level, beam, rest>>

\* "The number of elements exceeds the specified limit"
Refuse(t) ==
  /\ pc[t] = "idle"
  /\ count >= max_elements_
  /\ \E p \in todo : todo' = todo \ {p}
  /\ UNCHANGED <<index, global, pc, cur_c, entry, level, beam, rest>>

\* Mutant: templock is always released
EnterGlobalReleasing(t) ==
  /\ pc[t] = "enter" /\ global = NoThread
  /\ maxlevelcopy' = [maxlevelcopy EXCEPT ![t] = maxlevel_]
  /\ pc' = [pc EXCEPT ![t] = "entry"]
  /\ UNCHANGED <<index, global, todo, cur_c, currObj, enterpoint_copy, epDeleted, level, beam,
                 rest>>

\* templock: kept when the element will be the highest
EnterGlobal(t) ==
  /\ pc[t] = "enter" /\ global = NoThread
  /\ maxlevelcopy' = [maxlevelcopy EXCEPT ![t] = maxlevel_]
  /\ global' = IF curlevel(t) <= maxlevel_ THEN NoThread ELSE t
  /\ pc' = [pc EXCEPT ![t] = "entry"]
  /\ UNCHANGED <<index, todo, cur_c, currObj, enterpoint_copy, epDeleted, level, beam, rest>>

\* Two reads of enterpoint_node_, without a lock unless global was kept
ReadEntry(t) ==
  /\ pc[t] = "entry"
  /\ currObj' = [currObj EXCEPT ![t] = enterpoint_node_]
  /\ pc' = [pc EXCEPT ![t] = "copy"]
  /\ UNCHANGED <<index, global, todo, cur_c, maxlevelcopy, enterpoint_copy, epDeleted, level,
                 beam, rest>>

CopyEntry(t) ==
  /\ pc[t] = "copy"
  /\ enterpoint_copy' = [enterpoint_copy EXCEPT ![t] = enterpoint_node_]
  /\ level' = [level EXCEPT ![t] = maxlevelcopy[t]]
  /\ pc' = [pc EXCEPT ![t] = IF currObj[t] = NoEntry THEN "finish" ELSE "descend"]
  /\ UNCHANGED <<index, global, todo, cur_c, maxlevelcopy, currObj, epDeleted, beam, rest>>

\* Mutant: any neighbour counts as closer
DescendAnywhere(t) ==
  /\ pc[t] = "descend" /\ level[t] > curlevel(t)
  /\ ~ Locked(currObj[t])
  /\ LET around == links[level[t]][currObj[t]]
     IN  \/ /\ around = {}
            /\ level' = [level EXCEPT ![t] = @ - 1]
            /\ UNCHANGED currObj
         \/ /\ \E c \in around : currObj' = [currObj EXCEPT ![t] = c]
            /\ UNCHANGED level
  /\ UNCHANGED <<index, global, todo, pc, cur_c, maxlevelcopy, enterpoint_copy, epDeleted, beam,
                 rest>>

\* One round of while (changed) above the element's own level, under the lock
\* of currObj
Descend(t) ==
  /\ pc[t] = "descend" /\ level[t] > curlevel(t)
  /\ ~ Locked(currObj[t])
  /\ LET dist(n) == Dist(query(t), data[n])
         closer == {c \in links[level[t]][currObj[t]] : dist(c) < dist(currObj[t])}
     IN  \/ /\ closer = {}
            /\ level' = [level EXCEPT ![t] = @ - 1]
            /\ UNCHANGED currObj
         \/ /\ \E c \in closer : /\ \A d \in closer : dist(c) <= dist(d)
                                 /\ currObj' = [currObj EXCEPT ![t] = c]
            /\ UNCHANGED level
  /\ UNCHANGED <<index, global, todo, pc, cur_c, maxlevelcopy, enterpoint_copy, epDeleted, beam,
                 rest>>

\* Mutant: the levels begin at the element's own, above the index or not
BeginLevelsOwn(t) ==
  /\ pc[t] = "descend" /\ level[t] <= curlevel(t)
  /\ epDeleted' = [epDeleted EXCEPT ![t] = enterpoint_copy[t] \in deleted]
  /\ level' = [level EXCEPT ![t] = curlevel(t)]
  /\ pc' = [pc EXCEPT ![t] = "start"]
  /\ UNCHANGED <<index, global, todo, cur_c, maxlevelcopy, currObj, enterpoint_copy, beam, rest>>

\* epDeleted is read once for all levels
BeginLevels(t) ==
  /\ pc[t] = "descend" /\ level[t] <= curlevel(t)
  /\ epDeleted' = [epDeleted EXCEPT ![t] = enterpoint_copy[t] \in deleted]
  /\ level' = [level EXCEPT ![t] = MinOf(curlevel(t), maxlevelcopy[t])]
  /\ pc' = [pc EXCEPT ![t] = IF level'[t] >= 0 THEN "start" ELSE "finish"]
  /\ UNCHANGED <<index, global, todo, cur_c, maxlevelcopy, currObj, enterpoint_copy, beam, rest>>

\* searchBaseLayer up to its loop; "Level error" before
StartSearch(t) ==
  /\ pc[t] = "start"
  /\ cand' = [cand EXCEPT ![t] = {currObj[t]}]
  /\ visited' = [visited EXCEPT ![t] = {currObj[t]}]
  /\ top' = [top EXCEPT ![t] = {currObj[t]} \ deleted]
  /\ pc' = [pc EXCEPT ![t] = IF level[t] > maxlevelcopy[t] THEN "thrown" ELSE "search"]
  /\ Unwind(t)
  /\ UNCHANGED <<index, todo, cur_c, entry, level, rest>>

\* The candidate that comes off the heap next
NextCandidate(t, n) ==
  n \in cand[t] /\ \A c \in cand[t] : Dist(query(t), data[n]) <= Dist(query(t), data[c])

\* Mutant: the search ends as soon as it has enough
StopsWhenFull(t) == cand[t] = {} \/ Cardinality(top[t]) = ef_construction_

\* if (-curr_el_pair.first > lowerBound && size == ef_construction_) break
Stops(t) ==
  \/ cand[t] = {}
  \/ /\ Cardinality(top[t]) = ef_construction_
     /\ \A n \in cand[t], r \in top[t] : Dist(query(t), data[n]) > Dist(query(t), data[r])

\* One candidate is popped and its list read under its lock
Expand(t) ==
  /\ pc[t] = "search" /\ ~ Stops(t)
  /\ \E n \in cand[t] :
       /\ NextCandidate(t, n) /\ ~ Locked(n)
       /\ LET fresh == links[level[t]][n] \ visited[t]
              considered == {c \in fresh :
                               \/ Cardinality(top[t]) < ef_construction_
                               \/ \E r \in top[t] :
                                    Dist(query(t), data[c]) < Dist(query(t), data[r])}
          IN  /\ visited' = [visited EXCEPT ![t] = @ \cup fresh]
              /\ cand' = [cand EXCEPT ![t] = (@ \ {n}) \cup considered]
              /\ top' = [top EXCEPT ![t] = Code!Closest(data, query(t), @ \cup (considered \ deleted),
                                                   ef_construction_)]
  /\ UNCHANGED <<index, global, todo, pc, cur_c, entry, level, rest>>

\* What searchBaseLayer found, and the entry point when it is deleted
Found(t) ==
  IF epDeleted[t]
  THEN Code!Closest(data, query(t), top[t] \cup {enterpoint_copy[t]}, ef_construction_)
  ELSE top[t]

\* The entry point was taken for deleted and has been found all the same: its
\* mark was removed meanwhile, and the heap holds it twice.  The thread is not
\* followed further.
FoundTwice(t) == epDeleted[t] /\ enterpoint_copy[t] \in top[t]

\* mutuallyConnectNewElement: selection, the list of the new element, the
\* closest neighbour as entry to the next level.  back() of an empty
\* selection is undefined.
WriteOwnList(t) ==
  /\ pc[t] = "search" /\ Stops(t)
  /\ LET selected == Select(query(t), Found(t), M)
         refused == \/ links[level[t]][cur_c[t]] # {}
                    \/ \E n \in selected : element_levels_[n] < level[t]
     IN  /\ pc' = [pc EXCEPT ![t] = IF FoundTwice(t) THEN "twice"
                                     ELSE IF selected = {} THEN "undefined"
                                     ELSE IF refused THEN "thrown" ELSE "connect"]
         /\ rest' = [rest EXCEPT ![t] = selected]
         /\ IF pc'[t] = "connect"
            THEN /\ links' = [links EXCEPT ![level[t]][cur_c[t]] = selected]
                 /\ \E n \in selected :
                      /\ \A s \in selected : Dist(query(t), data[n]) <= Dist(query(t), data[s])
                      /\ currObj' = [currObj EXCEPT ![t] = n]
            ELSE UNCHANGED <<links, currObj>>
  /\ cand' = [cand EXCEPT ![t] = {}]
  /\ visited' = [visited EXCEPT ![t] = {}]
  /\ top' = IF pc'[t] = "twice" THEN top ELSE [top EXCEPT ![t] = {}]
  /\ Unwind(t)
  /\ UNCHANGED <<count, element_levels_, data, deleted, maxlevel_, enterpoint_node_, todo,
                 cur_c, maxlevelcopy, enterpoint_copy, epDeleted, level>>

\* Mutant: a full list is extended
ConnectNeighborOverfull(t) ==
  /\ pc[t] = "connect"
  /\ \E n \in rest[t] :
       /\ ~ Locked(n)
       /\ links' = [links EXCEPT ![level[t]][n] = @ \cup {cur_c[t]}]
       /\ rest' = [rest EXCEPT ![t] = @ \ {n}]
  /\ UNCHANGED <<count, element_levels_, data, deleted, maxlevel_, enterpoint_node_, global, todo,
                 pc, cur_c, entry, level, beam>>

\* Mutant: no way back
ConnectNeighborOneWay(t) ==
  /\ pc[t] = "connect"
  /\ \E n \in rest[t] : ~ Locked(n) /\ rest' = [rest EXCEPT ![t] = @ \ {n}]
  /\ UNCHANGED <<index, global, todo, pc, cur_c, entry, level, beam>>

\* The way back, farthest neighbour first, under the neighbour's lock
ConnectNeighbor(t) ==
  /\ pc[t] = "connect"
  /\ \E n \in rest[t] :
       /\ \A s \in rest[t] : Dist(query(t), data[s]) <= Dist(query(t), data[n])
       /\ ~ Locked(n) \/ n = cur_c[t]
       /\ LET other == links[level[t]][n]
              bound == Mcurmax(M, level[t])
              bad == \/ Cardinality(other) > bound
                     \/ n = cur_c[t]
                     \/ element_levels_[n] < level[t]
          IN  /\ links' = IF bad THEN links
                          ELSE [links EXCEPT ![level[t]][n] =
                                  IF Cardinality(other) < bound THEN other \cup {cur_c[t]}
                                  ELSE Select(data[n], other \cup {cur_c[t]}, bound)]
              /\ pc' = [pc EXCEPT ![t] = IF bad THEN "thrown" ELSE @]
       /\ rest' = [rest EXCEPT ![t] = @ \ {n}]
  /\ Unwind(t)
  /\ UNCHANGED <<count, element_levels_, data, deleted, maxlevel_, enterpoint_node_, todo,
                 cur_c, entry, level, beam>>

NextLevel(t) ==
  /\ pc[t] = "connect" /\ rest[t] = {}
  /\ level' = [level EXCEPT ![t] = @ - 1]
  /\ pc' = [pc EXCEPT ![t] = IF level[t] = 0 THEN "finish" ELSE "start"]
  /\ UNCHANGED <<index, global, todo, cur_c, entry, beam, rest>>

\* The element becomes the entry point when it is the highest, and all locks
\* are released
Finish(t) ==
  /\ pc[t] = "finish"
  /\ IF curlevel(t) > maxlevelcopy[t]
     THEN enterpoint_node_' = cur_c[t] /\ maxlevel_' = curlevel(t)
     ELSE UNCHANGED <<enterpoint_node_, maxlevel_>>
  /\ global' = IF global = t THEN NoThread ELSE global
  /\ pc' = [pc EXCEPT ![t] = "idle"]
  /\ cur_c' = [cur_c EXCEPT ![t] = NoEntry]
  /\ maxlevelcopy' = [maxlevelcopy EXCEPT ![t] = -1]
  /\ currObj' = [currObj EXCEPT ![t] = NoEntry]
  /\ enterpoint_copy' = [enterpoint_copy EXCEPT ![t] = NoEntry]
  /\ epDeleted' = [epDeleted EXCEPT ![t] = FALSE]
  /\ level' = [level EXCEPT ![t] = 0]
  /\ UNCHANGED <<count, element_levels_, data, links, deleted, todo, beam, rest>>

\* markDelete or unmarkDelete of a complete element by another thread
Toggle(n) ==
  /\ n < count /\ ~ Locked(n)
  /\ deleted' = IF n \in deleted THEN deleted \ {n} ELSE deleted \cup {n}
  /\ UNCHANGED <<count, element_levels_, data, links, maxlevel_, enterpoint_node_, global, todo,
                 pc, cur_c, entry, level, beam, rest>>

Worker(t) ==
  \/ Register(t) \/ Refuse(t) \/ EnterGlobal(t) \/ ReadEntry(t) \/ CopyEntry(t) \/ Descend(t)
  \/ BeginLevels(t) \/ StartSearch(t) \/ Expand(t) \/ WriteOwnList(t) \/ ConnectNeighbor(t)
  \/ NextLevel(t) \/ Finish(t)

AllAdded == todo = {} /\ \A t \in Threads : pc[t] = "idle"
Added == AllAdded /\ UNCHANGED vars

Next == (\E t \in Threads : Worker(t)) \/ (\E n \in Toggled : Toggle(n)) \/ Added

Spec == Init /\ [][Next]_vars

\* Weak fairness is enough: other threads visit a list finitely often, and an
\* element under insertion is completed.
FairSpec == Spec /\ \A t \in Threads : WF_vars(Worker(t))

-------------------------------------------------------------------------------
(* Properties *)

Steps == {"idle", "enter", "entry", "copy", "descend", "start", "search", "connect", "finish",
          "thrown", "undefined", "twice"}

\* The type of every variable; no id is ever handed out beyond the capacity.
TypeOK ==
  /\ count \in 0 .. max_elements_
  /\ element_levels_ \in [Slots -> Heights]
  /\ data \in [Slots -> Int]
  /\ links \in [Heights -> [Slots -> SUBSET Slots]]
  /\ deleted \subseteq Slots
  /\ maxlevel_ \in {-1} \cup Heights
  /\ enterpoint_node_ \in {NoEntry} \cup Slots
  /\ global \in Threads \cup {NoThread}
  /\ todo \subseteq NewPoints
  /\ pc \in [Threads -> Steps]
  /\ cur_c \in [Threads -> {NoEntry} \cup Slots]
  /\ maxlevelcopy \in [Threads -> {-1} \cup Heights]
  /\ currObj \in [Threads -> {NoEntry} \cup Slots]
  /\ enterpoint_copy \in [Threads -> {NoEntry} \cup Slots]
  /\ epDeleted \in [Threads -> BOOLEAN]
  /\ level \in [Threads -> {-1} \cup Heights]
  /\ cand \in [Threads -> SUBSET Slots]
  /\ visited \in [Threads -> SUBSET Slots]
  /\ top \in [Threads -> SUBSET Slots]
  /\ rest \in [Threads -> SUBSET Slots]

\* How far a thread still has to go: down the levels, on each first the search,
\* then the connection
Before(t, u) ==
  \/ level[t] < level[u]
  \/ level[t] = level[u] /\ pc[t] \in {"connect", "finish"} /\ pc[u] \notin {"connect", "finish"}

\* The element whose lock a thread needs for its next step, if any
Wants(t, n) ==
  \/ pc[t] = "descend" /\ level[t] > curlevel(t) /\ n = currObj[t]
  \/ pc[t] = "search" /\ ~ Stops(t) /\ NextCandidate(t, n)
  \/ pc[t] = "connect" /\ n \in rest[t]

\* A thread waits only for an element whose insertion is ahead of its own, and
\* past the lock `global'; so no circle of threads waits for each other,
\* although each holds the lock of its own element while it takes others.
LockOrder ==
  \A t, u \in Threads, n \in Slots :
    t # u /\ Wants(t, n) /\ Inserts(u, n) =>
      pc[u] \notin {"enter", "entry", "copy", "descend"} /\ Before(u, t)

\* None of the exceptions of addPoint, searchBaseLayer and
\* mutuallyConnectNewElement that report a corrupt graph is ever thrown.
NeverThrown == \A t \in Threads : pc[t] # "thrown"

\* While nobody is raising the index, its entry point is a complete element of
\* its highest level, and no element is higher but those still to ask for the
\* lock.
EntryPointOnTop ==
  global = NoThread =>
    /\ IF maxlevel_ = -1 THEN enterpoint_node_ = NoEntry
       ELSE /\ enterpoint_node_ \in 0 .. count - 1
            /\ element_levels_[enterpoint_node_] = maxlevel_
            /\ ~ Locked(enterpoint_node_)
    /\ \A n \in 0 .. count - 1 :
         \/ element_levels_[n] <= maxlevel_
         \/ \E t \in Threads : pc[t] = "enter" /\ cur_c[t] = n

\* At any moment of any insertion a list fits its memory and names elements that
\* are registered and exist on its level, never its owner.  checkIntegrity asserts
\* part of this (hnswalg.h 1556-1557) and three things besides: that no list
\* names element 0 (IdsPositive below), none an element twice (lists are sets
\* here; NothingTwice of HNSWUpdate) and every element is named (InboundConnections
\* there).  None of the three is true of the code.
ListsSound ==
  \A l \in Heights, n \in Slots :
    /\ Cardinality(links[l][n]) <= Mcurmax(M, l)
    /\ \A c \in links[l][n] : c < count /\ c # n /\ element_levels_[c] >= l

\* checkIntegrity asserts data[j] > 0 of every entry of every list
\* (hnswalg.h 1555): no list names element 0.
IdsPositive == \A l \in Heights, n \in Slots : 0 \notin links[l][n]

Reach(l) ==
  LET grow[k \in 0 .. count] ==
        IF k = 0 THEN {enterpoint_node_}
        ELSE grow[k - 1] \cup UNION {links[l][n] : n \in grow[k - 1]}
  IN grow[count]

OnLevel(l) == {n \in 0 .. count - 1 : element_levels_[n] >= l}

\* On a level so small that no list of it can overflow, concurrent insertions
\* leave every element reachable from the entry point.
ReachableOnEveryLevel ==
  (\A t \in Threads : pc[t] = "idle") /\ count > 0 =>
    \A l \in 0 .. maxlevel_ :
      Cardinality(OnLevel(l)) <= Mcurmax(M, l) + 1 => OnLevel(l) \subseteq Reach(l)

\* Every addPoint returns, or the entry point's mark was flipped between the
\* two reads of some thread, which is not followed further.
AllPointsAdded == <>(AllAdded \/ \E t \in Threads : pc[t] \in {"twice", "undefined"})

-------------------------------------------------------------------------------

\* mutuallyConnectNewElement takes the last of the selected neighbours as the
\* entry point of the next level: there must be one.
SomethingToConnect == \A t \in Threads : pc[t] # "undefined"
-------------------------------------------------------------------------------
(* The inductive invariant behind the theorems of HNSWInsertProofs *)

\* A complete element: nobody holds its lock for longer than a visit
Complete(n) == n \in 0 .. count - 1 /\ ~ Locked(n)

\* Thread u has begun to publish its element on level l
Past(u, l) ==
  /\ pc[u] \in {"start", "search", "connect", "finish", "twice", "undefined"}
  /\ level[u] < l \/ (level[u] = l /\ pc[u] = "connect")

\* An element that can be met on level l
Seen(n, l) ==
  /\ n \in 0 .. count - 1 /\ element_levels_[n] >= l
  /\ \A u \in Threads : Inserts(u, n) => Past(u, l)

\* A complete element of level l
Linkable(n, l) == Complete(n) /\ element_levels_[n] >= l

VectorsOK ==
  \E ix \in Indexes : /\ ix.count <= count
                      /\ \A n \in Slots : IF n \in Ids(ix) THEN data[n] = ix.data[n]
                                           ELSE data[n] \in NewPoints \cup {0}

\* Every thread has an element of its own
OwnOK ==
  /\ \A t \in Threads : pc[t] # "idle" => cur_c[t] \in 0 .. count - 1
  /\ \A t, u \in Threads : t # u /\ pc[t] # "idle" /\ pc[u] # "idle" => cur_c[t] # cur_c[u]

GlobalOK ==
  /\ global # NoThread => pc[global] \notin {"idle", "enter"} /\ curlevel(global) > maxlevelcopy[global]
  /\ \A t \in Threads : pc[t] \notin {"idle", "enter"} =>
       /\ maxlevelcopy[t] <= maxlevel_
       /\ curlevel(t) > maxlevelcopy[t] => global = t /\ maxlevelcopy[t] = maxlevel_

EntryOK ==
  /\ maxlevel_ = -1 => enterpoint_node_ = NoEntry
  /\ maxlevel_ # -1 => Complete(enterpoint_node_) /\ element_levels_[enterpoint_node_] = maxlevel_
  /\ \A n \in 0 .. count - 1 :
       \/ element_levels_[n] <= maxlevel_
       \/ \E t \in Threads : cur_c[t] = n /\ (pc[t] = "enter" \/ global = t)

\* The slots not yet handed out have no lists
FreshOK == \A l \in Heights, n \in Slots : n >= count => links[l][n] = {}

\* On these levels no list names the element of thread u yet, and it has none
Unpublished(u, l) ==
  \/ pc[u] \in {"enter", "entry", "copy", "descend"}
  \/ pc[u] \in {"start", "search", "twice", "undefined"} /\ l <= level[u]
  \/ pc[u] = "connect" /\ l < level[u]

UnpublishedOK ==
  \A u \in Threads, l \in Heights :
    Unpublished(u, l) => /\ links[l][cur_c[u]] = {}
                         /\ \A n \in Slots : cur_c[u] \notin links[l][n]

\* What a thread has in hand at each of its steps
ThreadOK(t) ==
  /\ pc[t] = "copy" =>
       IF currObj[t] = NoEntry THEN maxlevelcopy[t] = -1
       ELSE maxlevelcopy[t] >= 0 /\ Linkable(currObj[t], maxlevelcopy[t])
  /\ pc[t] \in {"descend", "start", "search", "connect"} =>
       /\ maxlevelcopy[t] >= 0 /\ Linkable(enterpoint_copy[t], maxlevelcopy[t])
       /\ currObj[t] # cur_c[t]
       /\ 0 <= level[t] /\ level[t] <= maxlevelcopy[t]
  /\ pc[t] = "descend" =>
       /\ Seen(currObj[t], level[t])
       /\ level[t] >= MinOf(curlevel(t), maxlevelcopy[t])
       /\ level[t] <= curlevel(t) => Complete(currObj[t])
  /\ pc[t] \in {"start", "search", "connect"} =>
       /\ Linkable(currObj[t], level[t])
       /\ level[t] <= curlevel(t)
  /\ pc[t] = "search" =>
       /\ \A n \in cand[t] \cup top[t] : Seen(n, level[t]) /\ n # cur_c[t]
       /\ \A n \in top[t] \ cand[t] : Complete(n)
  /\ pc[t] = "connect" =>
       \A n \in rest[t] : Linkable(n, level[t]) /\ n # cur_c[t]
  /\ pc[t] = "finish" => level[t] = -1
  /\ pc[t] \in {"twice", "undefined"} => level[t] \in Heights

InsertInv ==
  /\ TypeOK /\ VectorsOK /\ OwnOK /\ GlobalOK /\ EntryOK /\ FreshOK
  /\ ListsSound /\ UnpublishedOK /\ NeverThrown
  /\ \A t \in Threads : ThreadOK(t)

\* The rest is about levels so small that no list of them can overflow.
Small(l) == Cardinality(OnLevel(l)) <= Mcurmax(M, l) + 1

Both(l, a, b) == b \in links[l][a] /\ a \in links[l][b]
CompleteOn(l) == {n \in Slots : Linkable(n, l)}

\* The complete elements of level l hang together by edges in both directions:
\* wherever they are cut in two, such an edge leads across.
Linked(l) ==
  \A S \in SUBSET CompleteOn(l) : S # {} /\ S # CompleteOn(l) =>
    \E a \in S, b \in CompleteOn(l) \ S : Both(l, a, b)

\* Of an index insertion starts from, the same
LinkedIndexes ==
  \A ix \in Indexes : \A l \in 0 .. ix.maxlevel_ :
    LET on == {n \in Ids(ix) : ix.element_levels_[n] >= l}
    IN Cardinality(on) <= Mcurmax(M, l) + 1 =>
         \A S \in SUBSET on : S # {} /\ S # on =>
           \E a \in S, b \in on \ S : b \in ix.links[l][a] /\ a \in ix.links[l][b]

\* Thread t has written the list of its element on level l: it has neighbours,
\* all of them complete, and all but those still to be connected name it.
Through(t, l) ==
  /\ pc[t] \in {"start", "search", "connect", "finish"}
  /\ l <= curlevel(t) /\ l <= maxlevelcopy[t]
  /\ level[t] < l \/ (level[t] = l /\ pc[t] = "connect")
Pending(t, l) == IF pc[t] = "connect" /\ level[t] = l THEN rest[t] ELSE {}
Attached(t, l) ==
  /\ links[l][cur_c[t]] # {}
  /\ \A n \in links[l][cur_c[t]] :
       Linkable(n, l) /\ (n \in Pending(t, l) \/ cur_c[t] \in links[l][n])

\* What is still to be connected does not name the new element.
Unnamed(t) == pc[t] = "connect" => \A n \in rest[t] : cur_c[t] \notin links[level[t]][n]

LinkedInv ==
  /\ \A l \in Heights : Small(l) => Linked(l)
  /\ \A t \in Threads, l \in Heights : Small(l) /\ Through(t, l) => Attached(t, l)
  /\ \A t \in Threads : Unnamed(t)
=============================================================================
