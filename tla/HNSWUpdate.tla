------------------------------ MODULE HNSWUpdate ------------------------------
(***************************************************************************)
(* addPoint of labels that exist (updatePoint, hnswalg.h) beside addPoint  *)
(* of new ones (HNSWInsert), as the threads of updates_test.cpp do.        *)
(*                                                                         *)
(* An updater locks one list at a time, for as long as it reads or writes  *)
(* it, and none while it computes: it collects the neighbourhood of its    *)
(* element list by list, writes a new list to each neighbour, and then     *)
(* searches for and connects the element like a new one.  The mutex of the *)
(* label is held throughout, so that no element has two updaters.          *)
(*                                                                         *)
(* The point that is added again is the one the element has, as in the     *)
(* second loop of updates_test.cpp: the copy of the vector changes         *)
(* nothing, and distances keep their order during a search.                *)
(***************************************************************************)
EXTENDS HNSWInsert

CONSTANTS
  Updaters,   \* the threads that add labels again
  Renewed     \* the ids of these labels

ASSUME UpdatersAssumption == Updaters \cap Threads = {} /\ Renewed \subseteq Slots

VARIABLES
  renewals,   \* the ids nobody has begun to update
  up          \* the locals of updatePoint and what it calls, of every updater

Idle ==
  [at |-> "idle", id |-> NoEntry, maxLevelCopy |-> -1, entryPointCopy |-> NoEntry,
   level |-> 0, sCand |-> {}, sNeigh |-> {}, todo |-> {}, currObj |-> NoEntry,
   cand |-> {}, visited |-> {}, top |-> {}]

point(u) == data[up[u].id]
elemLevel(u) == element_levels_[up[u].id]

\* The updater goes on with changed locals.
Goes(u, locals) == up' = [up EXCEPT ![u] = locals]
Keeps == UNCHANGED <<index, renewals>>

-------------------------------------------------------------------------------
\* The label lock admits one call per label: its insertion is through, and the
\* marks of the element do not change meanwhile.  A deleted element is
\* restored first.
StartUpdate(u) ==
  /\ up[u].at = "idle"
  /\ \E n \in renewals :
       /\ n < count /\ ~ Locked(n)
       /\ renewals' = renewals \ {n}
       /\ deleted' = deleted \ {n}
       /\ Goes(u, [Idle EXCEPT !.at = "entry", !.id = n, !.maxLevelCopy = maxlevel_])
  /\ UNCHANGED <<count, element_levels_, data, links, maxlevel_, enterpoint_node_>>

\* enterpoint_node_ is read after maxlevel_, neither under the lock `global'.
\* The only element needs no more.
ReadEntryPoint(u) ==
  /\ up[u].at = "entry"
  /\ Goes(u, IF enterpoint_node_ = up[u].id /\ count = 1 THEN Idle
             ELSE [up[u] EXCEPT !.at = "onehop", !.entryPointCopy = enterpoint_node_])
  /\ Keeps

\* The list of the element itself; a layer without neighbours is passed over.
OneHop(u) ==
  /\ up[u].at = "onehop" /\ up[u].level <= elemLevel(u)
  /\ LET near == links[up[u].level][up[u].id]
     IN  Goes(u, IF near = {} THEN [up[u] EXCEPT !.level = @ + 1]
                 ELSE [up[u] EXCEPT !.at = "twohop", !.sCand = {up[u].id} \cup near,
                                    !.sNeigh = near, !.todo = near])
  /\ Keeps

\* The list of one neighbour, under its lock
TwoHop(u) ==
  /\ up[u].at = "twohop"
  /\ \E n \in up[u].todo :
       /\ ~ Locked(n)
       /\ Goes(u, [up[u] EXCEPT !.sCand = @ \cup links[up[u].level][n], !.todo = @ \ {n},
                                !.at = IF up[u].todo = {n} THEN "rewrite" ELSE @])
  /\ Keeps

\* Mutant: the element itself is a candidate for its own list
NewListWithOwner(u, n) ==
  Select(data[n], Code!Closest(data, data[n], up[u].sCand, ef_construction_),
         Mcurmax(M, up[u].level))

\* What a neighbour gets instead of its list
NewList(u, n) ==
  Select(data[n], Code!Closest(data, data[n], up[u].sCand \ {n}, ef_construction_),
         Mcurmax(M, up[u].level))

\* A neighbour's list is replaced, whatever has been added to it since it was
\* read.
Rewrite(u) ==
  /\ up[u].at = "rewrite"
  /\ \E n \in up[u].sNeigh :
       /\ ~ Locked(n)
       /\ links' = [links EXCEPT ![up[u].level][n] = NewList(u, n)]
       /\ Goes(u, IF up[u].sNeigh # {n} THEN [up[u] EXCEPT !.sNeigh = @ \ {n}]
                  ELSE [up[u] EXCEPT !.sNeigh = {}, !.sCand = {}, !.at = "onehop",
                                     !.level = @ + 1])
  /\ UNCHANGED <<count, element_levels_, data, deleted, maxlevel_, enterpoint_node_, renewals>>

-------------------------------------------------------------------------------
(* repairConnectionsForUpdate *)

StartRepair(u) ==
  /\ up[u].at = "onehop" /\ up[u].level > elemLevel(u)
  /\ Goes(u, [up[u] EXCEPT !.at = "descend", !.currObj = up[u].entryPointCopy,
                           !.level = up[u].maxLevelCopy])
  /\ Keeps

\* Mutant: any neighbour counts as closer
DescendAround(u) ==
  /\ up[u].at = "descend" /\ up[u].level > elemLevel(u)
  /\ ~ Locked(up[u].currObj)
  /\ LET around == links[up[u].level][up[u].currObj]
     IN  IF around = {} THEN Goes(u, [up[u] EXCEPT !.level = @ - 1])
         ELSE \E c \in around : Goes(u, [up[u] EXCEPT !.currObj = c])
  /\ Keeps

\* One round of while (changed) above the element's level
DescendToUpdate(u) ==
  /\ up[u].at = "descend" /\ up[u].level > elemLevel(u)
  /\ ~ Locked(up[u].currObj)
  /\ LET dist(n) == Dist(point(u), data[n])
         closer == {c \in links[up[u].level][up[u].currObj] : dist(c) < dist(up[u].currObj)}
     IN  IF closer = {} THEN Goes(u, [up[u] EXCEPT !.level = @ - 1])
         ELSE \E c \in closer : /\ \A d \in closer : dist(c) <= dist(d)
                                /\ Goes(u, [up[u] EXCEPT !.currObj = c])
  /\ Keeps

\* "Level of item to be updated cannot be bigger than max level"
BeginRepair(u) ==
  /\ up[u].at = "descend" /\ up[u].level <= elemLevel(u)
  /\ Goes(u, IF elemLevel(u) > up[u].maxLevelCopy THEN [up[u] EXCEPT !.at = "thrown"]
             ELSE [up[u] EXCEPT !.at = "start", !.level = elemLevel(u)])
  /\ Keeps

SearchToUpdate(u) ==
  /\ up[u].at = "start"
  /\ LET from == {up[u].currObj}
     IN  Goes(u, [up[u] EXCEPT !.at = "search", !.cand = from, !.visited = from,
                               !.top = from \ deleted])
  /\ Keeps

Worst(u) == {n \in up[u].top : \A r \in up[u].top : Dist(point(u), data[r]) <= Dist(point(u), data[n])}
FullTop(u) == Cardinality(up[u].top) = ef_construction_
Nearer(u, c) == \E r \in Worst(u) : Dist(point(u), data[c]) < Dist(point(u), data[r])
StopsUpdate(u) ==
  \/ up[u].cand = {}
  \/ FullTop(u) /\ \A c \in up[u].cand, r \in Worst(u) : Dist(point(u), data[c]) > Dist(point(u), data[r])

ExpandToUpdate(u) ==
  /\ up[u].at = "search" /\ ~ StopsUpdate(u)
  /\ \E n \in Code!Closest(data, point(u), up[u].cand, 1) :
       /\ ~ Locked(n)
       /\ LET fresh == links[up[u].level][n] \ up[u].visited
              considered == {c \in fresh : FullTop(u) => Nearer(u, c)}
          IN  Goes(u, [up[u] EXCEPT
                !.visited = @ \cup fresh,
                !.cand = (@ \ {n}) \cup considered,
                !.top = Code!Closest(data, point(u), @ \cup (considered \ deleted),
                                     ef_construction_)])
  /\ Keeps

\* The level is through; below level 0 the update is.
Down(u, locals) ==
  Goes(u, IF locals.level = 0 THEN Idle
          ELSE [locals EXCEPT !.at = "start", !.level = @ - 1, !.cand = {}, !.visited = {},
                              !.top = {}, !.todo = {}])

\* Mutant: the element itself may have been found
AllFound(u) == up[u].top

\* What was found but the element itself, and the entry point if it is deleted
Others(u) == up[u].top \ {up[u].id}
FoundToUpdate(u) ==
  IF up[u].entryPointCopy \in deleted
  THEN Code!Closest(data, point(u), Others(u) \cup {up[u].entryPointCopy}, ef_construction_)
  ELSE Others(u)

NothingFound(u) ==
  /\ up[u].at = "search" /\ StopsUpdate(u) /\ Others(u) = {}
  /\ Down(u, up[u])
  /\ Keeps

\* mutuallyConnectNewElement of an update: the list of the element is
\* replaced.
ReplaceOwnList(u) ==
  /\ up[u].at = "search" /\ StopsUpdate(u) /\ Others(u) # {}
  /\ LET selected == Select(point(u), FoundToUpdate(u), M)
         missing == \E n \in selected : element_levels_[n] < up[u].level
         back == Code!Closest(data, point(u), selected, 1)
     IN  IF missing THEN Goes(u, [up[u] EXCEPT !.at = "thrown"]) /\ UNCHANGED links
         ELSE /\ links' = [links EXCEPT ![up[u].level][up[u].id] = selected]
              /\ \E n \in back : Goes(u, [up[u] EXCEPT !.at = "connect", !.currObj = n,
                                            !.todo = selected])
  /\ UNCHANGED <<count, element_levels_, data, deleted, maxlevel_, enterpoint_node_, renewals>>

\* The way back, farthest neighbour first; a list that has the element stays.
ConnectBack(u) ==
  /\ up[u].at = "connect"
  /\ \E n \in up[u].todo :
       /\ \A s \in up[u].todo : Dist(point(u), data[s]) <= Dist(point(u), data[n])
       /\ ~ Locked(n)
       /\ LET other == links[up[u].level][n]
              bound == Mcurmax(M, up[u].level)
              extended == other \cup {up[u].id}
          IN  IF Cardinality(other) > bound \/ n = up[u].id
              THEN Goes(u, [up[u] EXCEPT !.at = "thrown"]) /\ UNCHANGED links
              ELSE /\ links' = [links EXCEPT ![up[u].level][n] =
                                  IF up[u].id \in other \/ Cardinality(other) < bound THEN extended
                                  ELSE Select(data[n], extended, bound)]
                   /\ Goes(u, [up[u] EXCEPT !.todo = @ \ {n}])
  /\ UNCHANGED <<count, element_levels_, data, deleted, maxlevel_, enterpoint_node_, renewals>>

Connected(u) ==
  /\ up[u].at = "connect" /\ up[u].todo = {}
  /\ Down(u, up[u])
  /\ Keeps

Update(u) ==
  /\ \/ StartUpdate(u) \/ ReadEntryPoint(u) \/ OneHop(u) \/ TwoHop(u) \/ Rewrite(u)
     \/ StartRepair(u) \/ DescendToUpdate(u) \/ BeginRepair(u) \/ SearchToUpdate(u)
     \/ ExpandToUpdate(u) \/ NothingFound(u) \/ ReplaceOwnList(u) \/ ConnectBack(u) \/ Connected(u)
  /\ UNCHANGED <<global, todo, pc, cur_c, entry, level, beam, rest>>

-------------------------------------------------------------------------------
(* Beside insertions *)

\* An update has put the element a thread inserts on the list the thread is
\* about to extend.  addPoint looks for it there only when it updates, and
\* appends it once more; lists are sets here, so the thread is not followed
\* further.
AppendsTwice(t) ==
  /\ pc[t] = "connect"
  /\ \E n \in rest[t] :
       /\ \A s \in rest[t] : Dist(query(t), data[s]) <= Dist(query(t), data[n])
       /\ cur_c[t] \in links[level[t]][n]

Insert(t) == ~ AppendsTwice(t) /\ Worker(t) /\ UNCHANGED <<renewals, up>>

AllDone == AllAdded /\ renewals = {} /\ \A u \in Updaters : up[u] = Idle
Abandoned == \E t \in Threads : AppendsTwice(t) \/ pc[t] \in {"twice", "undefined"}
Done == (AllDone \/ Abandoned) /\ UNCHANGED <<vars, renewals, up>>

UpdateInit ==
  /\ Init
  /\ renewals = Renewed
  /\ up = [u \in Updaters |-> Idle]
UpdateNext == (\E t \in Threads : Insert(t)) \/ (\E u \in Updaters : Update(u)) \/ Done
UpdateSpec ==
  /\ UpdateInit /\ [][UpdateNext]_<<vars, renewals, up>>
  /\ \A t \in Threads : WF_<<vars, renewals, up>>(Insert(t))
  /\ \A u \in Updaters : WF_<<vars, renewals, up>>(Update(u))

-------------------------------------------------------------------------------
(* Properties *)

\* No call reports a corrupt graph, neither an insertion nor an update, though
\* updates replace lists that others have read.
NoCallFails == NeverThrown /\ \A u \in Updaters : up[u].at # "thrown"

\* checkIntegrity, which updates_test.cpp calls after its loops, asserts that
\* no list names an element twice (hnswalg.h 1562): no insertion comes to append
\* its element to a list that names it.  An update can have put it there.
NothingTwice == \A t \in Threads : ~ AppendsTwice(t)

\* checkIntegrity asserts of every element that some list names it.  An index
\* so small that no selection drops a neighbour for want of room loses none,
\* should updates and insertions not get in each other's way.
InboundConnections ==
  AllDone /\ 1 < count /\ count <= Mcurmax(M, 0) =>
    \A n \in 0 .. count - 1 : \E l \in Heights : \E m \in Slots : n \in links[l][m]

\* Every call returns, unless a thread stopped being followed.
AllCallsReturn == <>(AllDone \/ Abandoned)

-------------------------------------------------------------------------------
(* The inductive invariant behind the theorems about updates                *)
(* (HNSWInsertProofs): what an updater has in hand at each of its steps     *)

Locals ==
  [at : {"idle", "entry", "onehop", "twohop", "rewrite", "descend", "start", "search", "connect",
         "thrown"},
   id : {NoEntry} \cup Slots, maxLevelCopy : {-1} \cup Heights,
   entryPointCopy : {NoEntry} \cup Slots, level : 0 .. MaxLevel + 1,
   sCand : SUBSET Slots, sNeigh : SUBSET Slots, todo : SUBSET Slots,
   currObj : {NoEntry} \cup Slots,
   cand : SUBSET Slots, visited : SUBSET Slots, top : SUBSET Slots]

\* Its element is complete, and no higher than the index was at the start.
ElementOK(r) ==
  /\ Complete(r.id)
  /\ element_levels_[r.id] <= r.maxLevelCopy /\ r.maxLevelCopy <= maxlevel_

\* Whatever it has collected on a level can be met there.
CollectedOK(r) ==
  /\ r.level <= element_levels_[r.id]
  /\ r.sNeigh \cup r.todo \subseteq r.sCand
  /\ \A n \in r.sCand : Seen(n, r.level)

DescentOK(r) ==
  /\ Seen(r.currObj, r.level)
  /\ element_levels_[r.id] <= r.level /\ r.level <= r.maxLevelCopy
  /\ r.level = element_levels_[r.id] => Complete(r.currObj)

\* The entry to a level is complete, and so is whatever left the candidates.
SearchOK(r) ==
  /\ r.level <= element_levels_[r.id]
  /\ Linkable(r.currObj, r.level)
  /\ r.at = "search" => /\ \A n \in r.cand \cup r.top : Seen(n, r.level)
                        /\ \A n \in r.top \ r.cand : Complete(n)
  /\ r.at = "connect" => \A n \in r.todo : Linkable(n, r.level) /\ n # r.id

LocalsOK(r) ==
  /\ r.at # "thrown"
  /\ r.at # "idle" => ElementOK(r)
  /\ r.at \notin {"idle", "entry"} => Linkable(r.entryPointCopy, r.maxLevelCopy)
  /\ r.at \in {"twohop", "rewrite"} => CollectedOK(r)
  /\ r.at = "descend" => DescentOK(r)
  /\ r.at \in {"start", "search", "connect"} => SearchOK(r)

\* An element under update is not deleted: it was restored, and its label is
\* locked.
Restored == \A u \in Updaters : up[u].at # "idle" => up[u].id \notin deleted

UpdateInv ==
  /\ InsertInv
  /\ renewals \subseteq Renewed /\ up \in [Updaters -> Locals]
  /\ Restored
  /\ \A u \in Updaters : LocalsOK(up[u])
=============================================================================
