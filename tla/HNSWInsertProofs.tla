--------------------------- MODULE HNSWInsertProofs ---------------------------
(***************************************************************************)
(* The safety properties of concurrent insertion, for any number of        *)
(* threads, points, levels and slots.  They follow from InsertInv, which   *)
(* HNSWInsert defines and whose heart is this: an element that a list of   *)
(* level l names has begun to publish itself on l (UnpublishedOK), and an  *)
(* element that a thread will write to is complete (ThreadOK).  The second *)
(* part is about updates beside insertions.                                *)
(***************************************************************************)
EXTENDS HNSWUpdate, FiniteSetTheorems, TLAPS

\* The locals of a thread that InsertInv is about, left alone by a step
Same(u) ==
  /\ pc'[u] = pc[u] /\ cur_c'[u] = cur_c[u] /\ level'[u] = level[u]
  /\ maxlevelcopy'[u] = maxlevelcopy[u] /\ currObj'[u] = currObj[u]
  /\ enterpoint_copy'[u] = enterpoint_copy[u]
  /\ cand'[u] = cand[u] /\ top'[u] = top[u] /\ rest'[u] = rest[u]

-------------------------------------------------------------------------------
(* Facts about single operators *)

\* Every set of slots is finite.
LEMMA SlotsFinite ==
  ASSUME NEW S \in SUBSET Slots
  PROVE  IsFiniteSet(S) /\ Cardinality(S) \in Nat
<1>1. IsFiniteSet(Slots)
  BY FS_Interval, ConstantsAssumption DEF Slots
<1>2. IsFiniteSet(S)
  BY <1>1, FS_Subset
<1> QED BY <1>2, FS_CardinalityType

\* Ids that are handed out stay handed out.
LEMMA RangeGrows ==
  ASSUME NEW c \in Int, NEW d \in Int, d >= c
  PROVE  0 .. c - 1 \subseteq 0 .. d - 1
OBVIOUS

\* The vectors in the slots are among those selection is assumed to work on.
LEMMA DataInVectors ==
  ASSUME TypeOK, VectorsOK
  PROVE  data \in Vectors
<1>1. PICK ix \in Indexes :
         \A n \in Slots : IF n \in Ids(ix) THEN data[n] = ix.data[n]
                          ELSE data[n] \in NewPoints \cup {0}
  BY DEF VectorsOK
<1> DEFINE f == [n \in Slots \ Ids(ix) |-> data[n]]
<1>2. f \in [Slots \ Ids(ix) -> NewPoints \cup {0}]
  BY <1>1
<1>3. data = [n \in Slots |-> IF n \in Ids(ix) THEN ix.data[n] ELSE f[n]]
  BY <1>1 DEF TypeOK
<1> HIDE DEF f
<1>4. data \in VectorsFrom(ix)
  BY <1>2, <1>3 DEF VectorsFrom
<1> QED BY <1>4 DEF Vectors

\* A selection is taken from the candidates and fits the list.
LEMMA SelectFacts ==
  ASSUME TypeOK, VectorsOK,
         NEW n \in Slots, NEW C \in SUBSET Slots, NEW m \in {M, 2 * M}
  PROVE  /\ Select(data[n], C, m) \subseteq C
         /\ Cardinality(Select(data[n], C, m)) <= m
<1>1. Cardinality(C) \in Nat
  BY SlotsFinite
<1>2. m \in Nat
  BY ConstantsAssumption
<1>3. CASE Cardinality(C) < m
  BY <1>1, <1>2, <1>3 DEF Select
<1>4. CASE ~ (Cardinality(C) < m)
  <2>1. Cardinality(C) >= m
    BY <1>1, <1>2, <1>4
  <2>2. data \in Vectors
    BY DataInVectors
  <2>3. /\ Heuristic(data, data[n], C, m) \subseteq C
        /\ Cardinality(Heuristic(data, data[n], C, m)) <= m
    BY <2>1, <2>2, HeuristicAssumption
  <2> QED BY <1>4, <2>3 DEF Select
<1> QED BY <1>3, <1>4

\* The element under insertion is locked, so a complete one is another.
LEMMA CompleteIsOther ==
  ASSUME NEW t \in Threads, pc[t] \notin {"idle", "thrown"}, NEW n, Complete(n)
  PROVE  n # cur_c[t]
BY DEF Complete, Locked, Inserts

\* The numbers a thread compares.
LEMMA NumberFacts ==
  ASSUME TypeOK, OwnOK, NEW t \in Threads, pc[t] # "idle"
  PROVE  /\ count \in Nat /\ cur_c[t] \in Slots /\ cur_c[t] \in 0 .. count - 1
         /\ curlevel(t) \in Heights /\ curlevel(t) \in Int /\ curlevel(t) >= 0
         /\ maxlevelcopy[t] \in Int /\ maxlevelcopy[t] >= -1
         /\ level[t] \in Int /\ level[t] >= -1
         /\ maxlevel_ \in Int /\ maxlevel_ >= -1
<1>1. count \in 0 .. max_elements_ /\ max_elements_ \in Nat /\ MaxLevel \in Nat
  BY ConstantsAssumption DEF TypeOK
<1>2. cur_c[t] \in 0 .. count - 1
  BY DEF OwnOK
<1>3. cur_c[t] \in Slots
  BY <1>1, <1>2 DEF Slots
<1>4. curlevel(t) \in Heights
  BY <1>3 DEF curlevel, TypeOK
<1>5. maxlevelcopy[t] \in {-1} \cup Heights /\ level[t] \in {-1} \cup Heights
      /\ maxlevel_ \in {-1} \cup Heights
  BY DEF TypeOK
<1> QED BY <1>1, <1>2, <1>3, <1>4, <1>5 DEF Heights

\* A complete element of a level can be met there.
LEMMA LinkableSeen ==
  ASSUME NEW n, NEW l, Linkable(n, l)
  PROVE  Seen(n, l)
BY DEF Linkable, Complete, Locked, Seen

\* Whoever stands on a list of level l can be met on l, and is not an element
\* that has not published itself there.
LEMMA NamedIsSeen ==
  ASSUME InsertInv, NEW l \in Heights, NEW n \in Slots, NEW c \in links[l][n]
  PROVE  /\ Seen(c, l) /\ c \in Slots
         /\ \A t \in Threads : Unpublished(t, l) => c # cur_c[t]
<1>1. c \in Slots
  BY DEF InsertInv, TypeOK
<1>4. c < count /\ element_levels_[c] >= l
  BY DEF InsertInv, ListsSound
<1>5. c \in 0 .. count - 1
  BY <1>1, <1>4, ConstantsAssumption DEF Slots, InsertInv, TypeOK
<1>2. \A t \in Threads : Unpublished(t, l) => c # cur_c[t]
  BY DEF InsertInv, UnpublishedOK
<1>3. ASSUME NEW u \in Threads, Inserts(u, c)
      PROVE  Past(u, l)
  <2>1. ~ Unpublished(u, l)
    BY <1>2, <1>3 DEF Inserts
  <2>2. pc[u] \in Steps \ {"idle", "thrown"} /\ level[u] \in {-1} \cup Heights
    BY <1>3 DEF Inserts, InsertInv, TypeOK
  <2>3. pc[u] = "finish" => level[u] = -1
    BY DEF InsertInv, ThreadOK
  <2> QED BY <2>1, <2>2, <2>3, ConstantsAssumption DEF Unpublished, Past, Steps, Heights
<1> QED BY <1>1, <1>2, <1>3, <1>4, <1>5 DEF Seen

-------------------------------------------------------------------------------
(* Frames *)

\* The notions of HNSWInsert in the state after a step
CompleteNext(n) ==
  /\ n \in 0 .. count' - 1
  /\ \A w \in Threads : pc'[w] \notin {"idle", "thrown"} => cur_c'[w] # n
LinkableNext(n, l) == CompleteNext(n) /\ element_levels_'[n] >= l
PastNext(w, l) ==
  /\ pc'[w] \in {"start", "search", "connect", "finish", "twice", "undefined"}
  /\ level'[w] < l \/ (level'[w] = l /\ pc'[w] = "connect")
SeenNext(n, l) ==
  /\ n \in 0 .. count' - 1 /\ element_levels_'[n] >= l
  /\ \A w \in Threads : pc'[w] \notin {"idle", "thrown"} /\ cur_c'[w] = n => PastNext(w, l)

\* The elements that exist keep their level, a lock is taken only of a new
\* element, and whoever holds one is at least as far as before.
Onward ==
  /\ count' \in Nat /\ count' >= count
  /\ \A n \in 0 .. count - 1 : element_levels_'[n] = element_levels_[n]
  /\ \A w \in Threads, n \in 0 .. count - 1 :
       pc'[w] \notin {"idle", "thrown"} /\ cur_c'[w] = n =>
         /\ Inserts(w, n)
         /\ \A l \in Heights : Past(w, l) => PastNext(w, l)

\* What is known of an element stays known.
LEMMA FactsKeep ==
  ASSUME TypeOK, Onward
  PROVE  /\ \A n : Complete(n) => CompleteNext(n)
         /\ \A n, l : Linkable(n, l) => LinkableNext(n, l)
         /\ \A n : \A l \in Heights : Seen(n, l) => SeenNext(n, l)
<1>0. count \in Int /\ count' \in Int /\ count' >= count
  BY ConstantsAssumption DEF TypeOK, Onward
<1>1. 0 .. count - 1 \subseteq 0 .. count' - 1
  BY <1>0, RangeGrows
<1>2. ASSUME NEW n, Complete(n) PROVE CompleteNext(n)
  BY <1>1, <1>2 DEF Complete, Locked, CompleteNext, Onward
<1>3. ASSUME NEW n, NEW l, Linkable(n, l) PROVE LinkableNext(n, l)
  BY <1>2, <1>3 DEF Linkable, Complete, LinkableNext, Onward
<1>4. ASSUME NEW n, NEW l \in Heights, Seen(n, l) PROVE SeenNext(n, l)
  BY <1>1, <1>4 DEF Seen, SeenNext, Onward
<1> QED BY <1>2, <1>3, <1>4

\* A step that is not its own leaves a thread what it has in hand.
LEMMA OthersKeep ==
  ASSUME TypeOK, OwnOK, Onward, NEW u \in Threads, ThreadOK(u), Same(u)
  PROVE  ThreadOK(u)'
<1>1. /\ \A n : Complete(n) => CompleteNext(n)
      /\ \A n, l : Linkable(n, l) => LinkableNext(n, l)
      /\ \A n : \A l \in Heights : Seen(n, l) => SeenNext(n, l)
  BY FactsKeep
<1>2. pc[u] # "idle" => element_levels_'[cur_c'[u]] = element_levels_[cur_c[u]]
  BY DEF OwnOK, Same, Onward
<1>3. (pc[u] = "copy" =>
         IF currObj[u] = NoEntry THEN maxlevelcopy[u] = -1
         ELSE maxlevelcopy[u] >= 0 /\ Linkable(currObj[u], maxlevelcopy[u]))'
  BY <1>1 DEF ThreadOK, Same, LinkableNext, CompleteNext, Linkable, Complete, Locked, Inserts
<1>4. (pc[u] \in {"descend", "start", "search", "connect"} =>
         /\ maxlevelcopy[u] >= 0 /\ Linkable(enterpoint_copy[u], maxlevelcopy[u])
         /\ currObj[u] # cur_c[u]
         /\ 0 <= level[u] /\ level[u] <= maxlevelcopy[u])'
  BY <1>1 DEF ThreadOK, Same, LinkableNext, CompleteNext, Linkable, Complete, Locked, Inserts
<1>5. pc[u] \in {"descend", "start", "search", "connect"} => level[u] \in Heights
  BY ConstantsAssumption DEF ThreadOK, TypeOK, Heights
<1>6. (pc[u] = "descend" =>
         /\ Seen(currObj[u], level[u])
         /\ level[u] >= MinOf(curlevel(u), maxlevelcopy[u])
         /\ level[u] <= curlevel(u) => Complete(currObj[u]))'
  <2> SUFFICES ASSUME pc[u] = "descend"
               PROVE  (/\ Seen(currObj[u], level[u])
                       /\ level[u] >= MinOf(curlevel(u), maxlevelcopy[u])
                       /\ level[u] <= curlevel(u) => Complete(currObj[u]))'
    BY DEF Same
  <2>1. Seen(currObj[u], level[u])'
    BY <1>1, <1>5 DEF ThreadOK, Same, SeenNext, PastNext, Seen, Past, Inserts
  <2>2. (level[u] >= MinOf(curlevel(u), maxlevelcopy[u]))'
    BY <1>2 DEF ThreadOK, Same, curlevel, MinOf
  <2>3. (level[u] <= curlevel(u) => Complete(currObj[u]))'
    BY <1>1, <1>2 DEF ThreadOK, Same, curlevel, CompleteNext, Complete, Locked, Inserts
  <2> QED BY <2>1, <2>2, <2>3
<1>7. (pc[u] \in {"start", "search", "connect"} =>
         Linkable(currObj[u], level[u]) /\ level[u] <= curlevel(u))'
  BY <1>1, <1>2 DEF ThreadOK, Same, curlevel, LinkableNext, CompleteNext, Linkable, Complete, Locked,
                    Inserts
<1>8. (pc[u] = "search" =>
         /\ \A n \in cand[u] \cup top[u] : Seen(n, level[u]) /\ n # cur_c[u]
         /\ \A n \in top[u] \ cand[u] : Complete(n))'
  <2> SUFFICES ASSUME pc[u] = "search"
               PROVE  (/\ \A n \in cand[u] \cup top[u] : Seen(n, level[u]) /\ n # cur_c[u]
                       /\ \A n \in top[u] \ cand[u] : Complete(n))'
    BY DEF Same
  <2>1. (\A n \in cand[u] \cup top[u] : Seen(n, level[u]) /\ n # cur_c[u])'
    BY <1>1, <1>5 DEF ThreadOK, Same, SeenNext, PastNext, Seen, Past, Inserts
  <2>2. (\A n \in top[u] \ cand[u] : Complete(n))'
    BY <1>1 DEF ThreadOK, Same, CompleteNext, Complete, Locked, Inserts
  <2> QED BY <2>1, <2>2
<1>9. (pc[u] = "connect" => \A n \in rest[u] : Linkable(n, level[u]) /\ n # cur_c[u])'
  BY <1>1 DEF ThreadOK, Same, LinkableNext, CompleteNext, Linkable, Complete, Locked, Inserts
<1>10. (pc[u] = "finish" => level[u] = -1)' /\ (pc[u] \in {"twice", "undefined"} => level[u] \in Heights)'
  BY DEF ThreadOK, Same
<1> QED
  BY <1>3, <1>4, <1>6, <1>7, <1>8, <1>9, <1>10 DEF ThreadOK

-------------------------------------------------------------------------------
(* Steps of a thread that holds the lock of its element and keeps it *)

\* Of what the invariant speaks of, only thread t, lists and `global' change.
Alone(t) ==
  /\ pc[t] \notin {"idle", "thrown"} /\ pc'[t] \notin {"idle", "thrown"}
  /\ UNCHANGED <<count, element_levels_, data, maxlevel_, enterpoint_node_, cur_c>>
  /\ \A u \in Threads \ {t} : Same(u)
  /\ \A l \in Heights : Past(t, l) => PastNext(t, l)

\* No list is written, and on the levels where thread t has not published
\* itself after the step, it had not before.
StillUnpublished(t) ==
  /\ links' = links
  /\ \A l \in Heights : Unpublished(t, l)' => Unpublished(t, l)

\* The thread has asked for the lock `global' before and leaves it as it is.
Quiet(t) ==
  pc[t] # "enter" /\ pc'[t] # "enter" /\ UNCHANGED <<global, maxlevelcopy>>

\* A step of one thread that leaves the elements and the entry point as they
\* are only moves that thread onward.
LEMMA AloneOnward ==
  ASSUME TypeOK, NEW t \in Threads, Alone(t)
  PROVE  Onward
<1>1. count \in Nat /\ count' = count
  BY ConstantsAssumption DEF TypeOK, Alone
<1>2. ASSUME NEW w \in Threads, NEW n \in 0 .. count - 1,
             pc'[w] \notin {"idle", "thrown"}, cur_c'[w] = n
      PROVE  Inserts(w, n) /\ \A l \in Heights : Past(w, l) => PastNext(w, l)
  <2>1. CASE w = t
    BY <1>2, <2>1 DEF Alone, Inserts
  <2>2. CASE w # t
    BY <1>2, <2>2 DEF Alone, Same, Inserts, Past, PastNext
  <2> QED BY <2>1, <2>2
<1> QED BY <1>1, <1>2 DEF Onward, Alone

\* After such a step the invariant needs looking at for that thread only.
LEMMA AloneKeeps ==
  ASSUME InsertInv, NEW t \in Threads, Alone(t),
         TypeOK', GlobalOK', EntryOK', FreshOK', ListsSound', UnpublishedOK', ThreadOK(t)'
  PROVE  InsertInv'
<1> USE DEF InsertInv
<1>1. Onward
  BY AloneOnward
<1>2. \A u \in Threads : ThreadOK(u)'
  BY <1>1, OthersKeep DEF Alone
<1>3. VectorsOK'
  BY DEF VectorsOK, Alone
<1>4. OwnOK'
  <2>1. \A u \in Threads : pc'[u] # "idle" <=> pc[u] # "idle"
    BY DEF Alone, Same
  <2> QED BY <2>1 DEF OwnOK, Alone
<1>5. NeverThrown'
  BY DEF NeverThrown, Alone, Same
<1> QED BY <1>2, <1>3, <1>4, <1>5

\* The lists stay sound while nobody writes one.
LEMMA ListsKeep ==
  ASSUME InsertInv, NEW t \in Threads, Alone(t), StillUnpublished(t)
  PROVE  FreshOK' /\ ListsSound' /\ UnpublishedOK'
<1> USE DEF InsertInv
<1>1. FreshOK' /\ ListsSound'
  BY DEF FreshOK, ListsSound, Alone, StillUnpublished
<1>2. UnpublishedOK'
  <2>1. ASSUME NEW u \in Threads, NEW l \in Heights, Unpublished(u, l)'
        PROVE  Unpublished(u, l)
    <3>1. CASE u = t
      BY <2>1, <3>1 DEF StillUnpublished
    <3>2. CASE u # t
      BY <2>1, <3>2 DEF Alone, Same, Unpublished
    <3> QED BY <3>1, <3>2
  <2> QED BY <2>1 DEF UnpublishedOK, Alone, StillUnpublished
<1> QED BY <1>1, <1>2

\* Entry point and highest level stay those of a complete element.
LEMMA QuietGlobal ==
  ASSUME InsertInv, NEW t \in Threads, Alone(t), Quiet(t), TypeOK'
  PROVE  GlobalOK' /\ EntryOK'
<1> USE DEF InsertInv
<1> USE DEF Quiet
<1>1. \A u \in Threads : /\ pc'[u] = "enter" <=> pc[u] = "enter"
                         /\ pc'[u] = "idle" <=> pc[u] = "idle"
  BY DEF Alone, Same
<1>2. \A u : curlevel(u)' = curlevel(u)
  BY DEF Alone, curlevel
<1>3. GlobalOK'
  <2>1. global' # NoThread => pc'[global'] \notin {"idle", "enter"}
    BY <1>1 DEF GlobalOK, TypeOK
  <2>2. (global # NoThread => curlevel(global) > maxlevelcopy[global])'
    BY DEF GlobalOK, curlevel, Alone
  <2>3. (\A w \in Threads : pc[w] \notin {"idle", "enter"} =>
           /\ maxlevelcopy[w] <= maxlevel_
           /\ curlevel(w) > maxlevelcopy[w] => global = w /\ maxlevelcopy[w] = maxlevel_)'
    BY <1>1 DEF GlobalOK, curlevel, Alone
  <2> QED BY <2>1, <2>2, <2>3 DEF GlobalOK
<1>4. EntryOK'
  <2>1. \A n : Complete(n) => Complete(n)'
    BY DEF Complete, Locked, Inserts, Alone, Same
  <2>2. (maxlevel_ # -1 => /\ Complete(enterpoint_node_)
                           /\ element_levels_[enterpoint_node_] = maxlevel_)'
    BY <2>1 DEF EntryOK, Alone, Complete, Locked, Inserts, Same
  <2>3. (\A n \in 0 .. count - 1 :
           \/ element_levels_[n] <= maxlevel_
           \/ \E w \in Threads : cur_c[w] = n /\ (pc[w] = "enter" \/ global = w))'
    BY <1>1 DEF EntryOK, Alone
  <2> QED BY <2>2, <2>3 DEF EntryOK, Alone
<1> QED BY <1>3, <1>4

\* Such a step away from the lists and the lock `global'.
LEMMA QuietKeeps ==
  ASSUME InsertInv, NEW t \in Threads, Alone(t), Quiet(t), StillUnpublished(t),
         TypeOK', ThreadOK(t)'
  PROVE  InsertInv'
BY ListsKeep, QuietGlobal, AloneKeeps

-------------------------------------------------------------------------------
(* One lemma per step of addPoint *)

\* Asking for `global': whoever keeps it knows maxlevel_ from then on.
LEMMA EnterGlobalKeeps ==
  ASSUME InsertInv, NEW t \in Threads, EnterGlobal(t)
  PROVE  InsertInv'
<1> USE DEF InsertInv, EnterGlobal, index, beam, TypeOK
<1>1. pc'[t] = "entry" /\ pc[t] = "enter"
  OBVIOUS
<1>2. Alone(t)
  <2>1. \A u \in Threads \ {t} : Same(u)
    BY DEF Same
  <2> QED BY <1>1, <2>1 DEF Alone, Past
<1>3. StillUnpublished(t)
  BY <1>1 DEF StillUnpublished, Unpublished
<1>4. TypeOK'
  BY DEF Steps
<1>5. maxlevelcopy' = [maxlevelcopy EXCEPT ![t] = maxlevel_]
  OBVIOUS
<1>6. /\ global = NoThread /\ NoThread \notin Threads
      /\ global' = IF curlevel(t) <= maxlevel_ THEN NoThread ELSE t
  BY ConstantsAssumption
<1>7. \A u : curlevel(u)' = curlevel(u)
  BY DEF curlevel
<1>8. curlevel(t) \in Int /\ maxlevel_ \in Int
  BY <1>1, NumberFacts
<1>9. GlobalOK'
  <2>1. (global # NoThread => /\ pc[global] \notin {"idle", "enter"}
                              /\ curlevel(global) > maxlevelcopy[global])'
    BY <1>1, <1>5, <1>6, <1>7, <1>8
  <2>2. ASSUME NEW w \in Threads
        PROVE  (pc[w] \notin {"idle", "enter"} =>
                  /\ maxlevelcopy[w] <= maxlevel_
                  /\ curlevel(w) > maxlevelcopy[w] => global = w /\ maxlevelcopy[w] = maxlevel_)'
    <3>1. CASE w = t
      BY <1>1, <1>5, <1>6, <1>7, <1>8, <3>1
    <3>2. CASE w # t
      BY <1>1, <1>5, <1>6, <1>7, <3>2 DEF GlobalOK
    <3> QED BY <3>1, <3>2
  <2> QED BY <2>1, <2>2 DEF GlobalOK
<1>10. EntryOK'
  <2>1. \A n : Complete(n) => Complete(n)'
    BY <1>1 DEF Complete, Locked, Inserts
  <2>2. (maxlevel_ # -1 => /\ Complete(enterpoint_node_)
                           /\ element_levels_[enterpoint_node_] = maxlevel_)'
    BY <2>1 DEF EntryOK, Complete, Locked, Inserts
  <2>3. ASSUME NEW n \in 0 .. count - 1, ~ (element_levels_[n] <= maxlevel_)
        PROVE  \E w \in Threads : cur_c[w] = n /\ (pc'[w] = "enter" \/ global' = w)
    <3>1. PICK w \in Threads : cur_c[w] = n /\ pc[w] = "enter"
      BY <1>6, <2>3 DEF EntryOK
    <3>2. CASE w = t
      BY <1>6, <2>3, <3>1, <3>2 DEF curlevel
    <3>3. CASE w # t
      BY <3>1, <3>3
    <3> QED BY <3>2, <3>3
  <2> QED BY <2>2, <2>3 DEF EntryOK
<1>11. ThreadOK(t)'
  BY <1>1 DEF ThreadOK
<1> QED BY <1>2, <1>3, <1>4, <1>9, <1>10, <1>11, ListsKeep, AloneKeeps

\* What the entry point is worth to a thread that has asked for the lock.
LEMMA EntryFacts ==
  ASSUME InsertInv, NEW t \in Threads, pc[t] \in {"entry", "copy"}
  PROVE  /\ enterpoint_node_ = NoEntry => maxlevelcopy[t] = -1
         /\ enterpoint_node_ # NoEntry /\ maxlevelcopy[t] # -1 =>
              maxlevelcopy[t] >= 0 /\ Linkable(enterpoint_node_, maxlevelcopy[t])
         /\ maxlevelcopy[t] = -1 => enterpoint_node_ = NoEntry
<1> USE DEF InsertInv
<1>1. /\ maxlevelcopy[t] \in Int /\ maxlevelcopy[t] >= -1 /\ maxlevel_ \in Int
      /\ curlevel(t) \in Int /\ curlevel(t) >= 0
  BY NumberFacts
<1>2. maxlevelcopy[t] <= maxlevel_
  BY DEF GlobalOK
<1>3. maxlevel_ # -1 => enterpoint_node_ # NoEntry
  BY DEF EntryOK, Complete, NoEntry
<1>4. maxlevelcopy[t] = -1 => maxlevel_ = -1
  BY <1>1 DEF GlobalOK
<1>5. maxlevel_ # -1 => Complete(enterpoint_node_) /\ element_levels_[enterpoint_node_] = maxlevel_
  BY DEF EntryOK
<1>6. maxlevel_ = -1 => enterpoint_node_ = NoEntry
  BY DEF EntryOK
<1>7. enterpoint_node_ = NoEntry => maxlevelcopy[t] = -1
  BY <1>1, <1>2, <1>3
<1>8. ASSUME enterpoint_node_ # NoEntry
      PROVE  maxlevelcopy[t] >= 0 /\ Linkable(enterpoint_node_, maxlevelcopy[t])
  <2>1. maxlevel_ # -1 /\ maxlevelcopy[t] # -1
    BY <1>4, <1>6, <1>8
  <2> QED BY <1>1, <1>2, <1>5, <2>1 DEF Linkable
<1> QED BY <1>4, <1>6, <1>7, <1>8

\* The first unlocked read of the entry point gives a complete element.
LEMMA ReadEntryKeeps ==
  ASSUME InsertInv, NEW t \in Threads, ReadEntry(t)
  PROVE  InsertInv'
<1> USE DEF InsertInv, ReadEntry, index, beam, TypeOK
<1>1. pc'[t] = "copy" /\ pc[t] = "entry" /\ currObj'[t] = enterpoint_node_
  OBVIOUS
<1>2. Alone(t)
  <2>1. \A u \in Threads \ {t} : Same(u)
    BY DEF Same
  <2> QED BY <1>1, <2>1 DEF Alone, Past
<1>3. StillUnpublished(t)
  BY <1>1 DEF StillUnpublished, Unpublished
<1>4. TypeOK'
  BY DEF Steps
<1>5. ThreadOK(t)'
  <2>1. \A n, l : Linkable(n, l) => LinkableNext(n, l)
    BY <1>1 DEF Linkable, LinkableNext, Complete, CompleteNext, Locked, Inserts
  <2>2. IF currObj'[t] = NoEntry THEN maxlevelcopy'[t] = -1
        ELSE maxlevelcopy'[t] >= 0 /\ LinkableNext(currObj'[t], maxlevelcopy'[t])
    BY <1>1, <2>1, EntryFacts
  <2> QED BY <1>1, <2>2 DEF ThreadOK, LinkableNext, CompleteNext, Linkable, Complete, Locked, Inserts
<1>6. Quiet(t)
  BY <1>1 DEF Quiet
<1> QED BY <1>1, <1>2, <1>3, <1>4, <1>5, <1>6, QuietKeeps

\* So does the second, even when the entry point has changed in between.
LEMMA CopyEntryKeeps ==
  ASSUME InsertInv, NEW t \in Threads, CopyEntry(t)
  PROVE  InsertInv'
<1> USE DEF InsertInv, CopyEntry, index, beam, TypeOK
<1>1. /\ pc[t] = "copy" /\ level'[t] = maxlevelcopy[t]
      /\ enterpoint_copy'[t] = enterpoint_node_
      /\ pc'[t] = IF currObj[t] = NoEntry THEN "finish" ELSE "descend"
      /\ currObj' = currObj /\ maxlevelcopy' = maxlevelcopy
  OBVIOUS
<1>2. Alone(t)
  <2>1. \A u \in Threads \ {t} : Same(u)
    BY DEF Same
  <2> QED BY <1>1, <2>1 DEF Alone, Past
<1>3. StillUnpublished(t)
  BY <1>1 DEF StillUnpublished, Unpublished
<1>4. TypeOK'
  BY DEF Steps
<1>5. ThreadOK(t)'
  <2>1. CASE currObj[t] = NoEntry
    <3>1. pc'[t] = "finish" /\ level'[t] = -1
      BY <1>1, <2>1 DEF ThreadOK
    <3> QED BY <3>1 DEF ThreadOK
  <2>2. CASE currObj[t] # NoEntry
    <3>1. maxlevelcopy[t] >= 0 /\ Linkable(currObj[t], maxlevelcopy[t])
      BY <1>1, <2>2 DEF ThreadOK
    <3>2. maxlevelcopy[t] \in Int
      BY <1>1, NumberFacts
    <3>3. Linkable(enterpoint_node_, maxlevelcopy[t])
      BY <1>1, <3>1, <3>2, EntryFacts
    <3>4. Complete(currObj[t]) /\ currObj[t] # cur_c[t]
      BY <1>1, <3>1, CompleteIsOther DEF Linkable
    <3>5. Onward
      BY <1>2, AloneOnward
    <3>6. /\ LinkableNext(enterpoint_node_, maxlevelcopy[t]) /\ CompleteNext(currObj[t])
          /\ SeenNext(currObj[t], maxlevelcopy[t])
      <4>1. maxlevelcopy[t] \in Heights
        BY <3>1
      <4> QED BY <3>1, <3>3, <3>4, <3>5, <4>1, FactsKeep, LinkableSeen
    <3>7. maxlevelcopy[t] >= MinOf(curlevel(t)', maxlevelcopy[t])
      <4>1. curlevel(t)' = curlevel(t) /\ curlevel(t) \in Int
        BY <1>1, NumberFacts DEF curlevel
      <4> QED BY <3>2, <4>1 DEF MinOf
    <3>8. pc'[t] = "descend"
      BY <1>1, <2>2
    <3> HIDE DEF InsertInv, CopyEntry, TypeOK, index, beam
    <3>9. cur_c' = cur_c
      BY DEF CopyEntry
    <3>10. (/\ maxlevelcopy[t] >= 0 /\ Linkable(enterpoint_copy[t], maxlevelcopy[t])
            /\ currObj[t] # cur_c[t]
            /\ 0 <= level[t] /\ level[t] <= maxlevelcopy[t])'
      BY <1>1, <3>1, <3>2, <3>4, <3>6, <3>9 DEF LinkableNext, CompleteNext, Linkable, Complete, Locked,
                                                  Inserts
    <3>11. (/\ Seen(currObj[t], level[t])
            /\ level[t] >= MinOf(curlevel(t), maxlevelcopy[t])
            /\ level[t] <= curlevel(t) => Complete(currObj[t]))'
      <4>1. Seen(currObj[t], level[t])'
        BY <1>1, <3>6 DEF SeenNext, PastNext, Seen, Past, Inserts
      <4>2. Complete(currObj[t])'
        BY <1>1, <3>6 DEF CompleteNext, Complete, Locked, Inserts
      <4>3. (level[t] >= MinOf(curlevel(t), maxlevelcopy[t]))'
        BY <1>1, <3>7
      <4> QED BY <4>1, <4>2, <4>3
    <3> QED BY <3>8, <3>10, <3>11 DEF ThreadOK
  <2> QED BY <2>1, <2>2
<1>6. Quiet(t)
  BY <1>1 DEF Quiet
<1> QED BY <1>1, <1>2, <1>3, <1>4, <1>5, <1>6, QuietKeeps

\* The part of ThreadOK that every step between descent and connection needs:
\* it holds after a step that leaves these locals alone.
LEMMA EntryCopyKeeps ==
  ASSUME TypeOK, OwnOK, NEW t \in Threads, ThreadOK(t), Alone(t),
         pc[t] \in {"descend", "start", "search", "connect"},
         UNCHANGED <<maxlevelcopy, enterpoint_copy>>
  PROVE  /\ (maxlevelcopy[t] >= 0 /\ Linkable(enterpoint_copy[t], maxlevelcopy[t]))'
         /\ curlevel(t)' = curlevel(t) /\ cur_c' = cur_c
<1>1. maxlevelcopy[t] >= 0 /\ Linkable(enterpoint_copy[t], maxlevelcopy[t])
  BY DEF ThreadOK
<1>2. LinkableNext(enterpoint_copy[t], maxlevelcopy[t])
  BY <1>1, FactsKeep, AloneOnward
<1>3. (maxlevelcopy[t] >= 0 /\ Linkable(enterpoint_copy[t], maxlevelcopy[t]))'
  BY <1>1, <1>2 DEF LinkableNext, CompleteNext, Linkable, Complete, Locked, Inserts
<1> QED BY <1>3 DEF Alone, curlevel

\* Above the own level a search only meets elements that have published
\* themselves there.
LEMMA DescendKeeps ==
  ASSUME InsertInv, NEW t \in Threads, Descend(t)
  PROVE  InsertInv'
<1> DEFINE m == currObj'[t]
<1> DEFINE l == level[t]
<1> DEFINE k == level'[t]
<1>1. /\ TypeOK /\ OwnOK /\ ThreadOK(t)
      /\ pc[t] = "descend" /\ pc' = pc /\ level[t] > curlevel(t) /\ ~ Locked(currObj[t])
      /\ cur_c' = cur_c /\ UNCHANGED <<maxlevelcopy, enterpoint_copy, global>>
  BY DEF InsertInv, Descend, entry
<1>2. Alone(t)
  <2>1. \A u \in Threads \ {t} : Same(u)
    BY DEF Descend, InsertInv, TypeOK, beam, Same
  <2> QED BY <1>1, <2>1 DEF Alone, Past, Descend, index
<1>3. StillUnpublished(t)
  BY <1>1 DEF StillUnpublished, Unpublished, index, Descend
<1>4. l \in Heights /\ l \in Int /\ curlevel(t) \in Int /\ curlevel(t) >= 0 /\ maxlevelcopy[t] \in Int
  BY <1>1, NumberFacts, ConstantsAssumption DEF ThreadOK, TypeOK, Heights
<1>5. currObj[t] \in Slots /\ Seen(currObj[t], l) /\ Complete(currObj[t])
  <2>1. Seen(currObj[t], l)
    BY <1>1 DEF ThreadOK
  <2>2. currObj[t] \in 0 .. count - 1
    BY <2>1 DEF Seen
  <2>3. currObj[t] # NoEntry
    BY <2>2 DEF NoEntry
  <2> QED BY <1>1, <2>1, <2>2, <2>3 DEF Complete, TypeOK
<1>6. \/ m = currObj[t] /\ k = l - 1
      \/ m \in links[l][currObj[t]] /\ k = l
  BY <1>1, <1>4 DEF Descend, TypeOK
<1>7. TypeOK'
  <2>1. links[l][currObj[t]] \in SUBSET Slots
    BY <1>1, <1>4, <1>5 DEF TypeOK
  <2>2. k \in {-1} \cup Heights /\ m \in {NoEntry} \cup Slots
    BY <1>1, <1>4, <1>5, <1>6, <2>1, ConstantsAssumption DEF Heights
  <2>3. /\ level' \in [Threads -> {-1} \cup Heights]
        /\ currObj' \in [Threads -> {NoEntry} \cup Slots]
    BY <1>1, <2>2, ZenonT(30) DEF Descend, TypeOK
  <2> QED BY <1>1, <2>3 DEF Descend, TypeOK, index, beam
<1>8. Seen(m, k) /\ m # cur_c[t] /\ (k <= curlevel(t) => Complete(m))
  <2>1. CASE m = currObj[t] /\ k = l - 1
    <3>1. Linkable(m, k)
      <4>1. element_levels_[m] >= l /\ element_levels_[m] \in Int
        BY <1>1, <1>5, <2>1 DEF Seen, TypeOK, Heights
      <4> QED BY <1>4, <1>5, <2>1, <4>1 DEF Linkable
    <3> QED BY <1>1, <1>5, <2>1, <3>1, LinkableSeen, CompleteIsOther
  <2>2. CASE m \in links[l][currObj[t]] /\ k = l
    <3>1. Unpublished(t, l)
      BY <1>1 DEF Unpublished
    <3>2. Seen(m, l) /\ m # cur_c[t]
      BY <1>4, <1>5, <2>2, <3>1, NamedIsSeen
    <3> QED BY <1>1, <1>4, <2>2, <3>2
  <2> QED BY <1>6, <2>1, <2>2
<1>9. k \in Heights /\ k >= MinOf(curlevel(t), maxlevelcopy[t]) /\ k <= maxlevelcopy[t]
  BY <1>1, <1>4, <1>6, ConstantsAssumption DEF ThreadOK, MinOf, Heights
<1>10. ThreadOK(t)'
  <2>1. /\ (maxlevelcopy[t] >= 0 /\ Linkable(enterpoint_copy[t], maxlevelcopy[t]))'
        /\ curlevel(t)' = curlevel(t)
    BY <1>1, <1>2, EntryCopyKeeps
  <2>2. SeenNext(m, k) /\ (Complete(m) => CompleteNext(m))
    BY <1>1, <1>2, <1>8, <1>9, FactsKeep, AloneOnward
  <2>3. Seen(currObj[t], level[t])'
    BY <2>2 DEF SeenNext, PastNext, Seen, Past, Inserts
  <2>4. (level[t] <= curlevel(t) => Complete(currObj[t]))'
    BY <1>8, <2>1, <2>2 DEF CompleteNext, Complete, Locked, Inserts
  <2>5. (0 <= level[t] /\ level[t] <= maxlevelcopy[t]
         /\ level[t] >= MinOf(curlevel(t), maxlevelcopy[t]))'
    BY <1>1, <1>9, <2>1 DEF MinOf, Heights
  <2> QED BY <1>1, <1>8, <2>1, <2>3, <2>4, <2>5 DEF ThreadOK
<1>11. Quiet(t)
  BY <1>1 DEF Quiet
<1> QED BY <1>1, <1>2, <1>3, <1>7, <1>10, <1>11, QuietKeeps

\* The first level to connect on is one that the index and the element have.
LEMMA BeginLevelsKeeps ==
  ASSUME InsertInv, NEW t \in Threads, BeginLevels(t)
  PROVE  InsertInv'
<1>1. /\ TypeOK /\ OwnOK /\ ThreadOK(t)
      /\ pc[t] = "descend" /\ level[t] <= curlevel(t)
      /\ level'[t] = MinOf(curlevel(t), maxlevelcopy[t])
      /\ pc'[t] = IF level'[t] >= 0 THEN "start" ELSE "finish"
      /\ cur_c' = cur_c /\ UNCHANGED <<maxlevelcopy, enterpoint_copy, global, currObj>>
  BY DEF InsertInv, BeginLevels, TypeOK
<1>2. /\ curlevel(t) \in Int /\ curlevel(t) >= 0 /\ curlevel(t) \in Heights
      /\ maxlevelcopy[t] \in Int /\ maxlevelcopy[t] >= 0
      /\ level[t] \in Int /\ level[t] >= MinOf(curlevel(t), maxlevelcopy[t])
  BY <1>1, NumberFacts DEF ThreadOK
<1>3. /\ level'[t] \in Heights /\ level'[t] <= level[t] /\ level'[t] <= maxlevelcopy[t]
      /\ level'[t] <= curlevel(t) /\ level'[t] >= 0
  BY <1>1, <1>2, ConstantsAssumption DEF MinOf, Heights
<1>4. pc'[t] = "start"
  BY <1>1, <1>3
<1>5. Alone(t)
  <2>1. \A u \in Threads \ {t} : Same(u)
    BY DEF BeginLevels, InsertInv, TypeOK, beam, Same
  <2> QED BY <1>1, <1>4, <2>1 DEF Alone, Past, BeginLevels, index
<1>6. StillUnpublished(t)
  BY <1>1, <1>4 DEF StillUnpublished, Unpublished, index, BeginLevels
<1>7. TypeOK'
  <2>1. /\ level' \in [Threads -> {-1} \cup Heights]
        /\ pc' \in [Threads -> Steps]
        /\ epDeleted' \in [Threads -> BOOLEAN]
    BY <1>1, <1>3, <1>4 DEF BeginLevels, TypeOK, Steps
  <2> QED BY <1>1, <2>1 DEF BeginLevels, TypeOK, index, beam
<1>8. ThreadOK(t)'
  <2>1. /\ (maxlevelcopy[t] >= 0 /\ Linkable(enterpoint_copy[t], maxlevelcopy[t]))'
        /\ curlevel(t)' = curlevel(t)
    BY <1>1, <1>5, EntryCopyKeeps
  <2>2. Linkable(currObj[t], level'[t]) /\ currObj[t] # cur_c[t]
    <3>1. Seen(currObj[t], level[t]) /\ Complete(currObj[t]) /\ currObj[t] # cur_c[t]
      BY <1>1 DEF ThreadOK
    <3>2. currObj[t] \in Slots
      BY <1>1, <3>1 DEF Seen, TypeOK, NoEntry
    <3>3. element_levels_[currObj[t]] \in Int /\ element_levels_[currObj[t]] >= level[t]
      BY <1>1, <3>1, <3>2 DEF Seen, TypeOK, Heights
    <3>4. level'[t] \in Int
      BY <1>3 DEF Heights
    <3> QED BY <1>2, <1>3, <3>1, <3>3, <3>4 DEF Linkable
  <2>3. LinkableNext(currObj'[t], level'[t])
    BY <1>1, <1>5, <2>2, FactsKeep, AloneOnward
  <2>4. Linkable(currObj[t], level[t])'
    BY <2>3 DEF LinkableNext, CompleteNext, Linkable, Complete, Locked, Inserts
  <2> QED BY <1>1, <1>3, <1>4, <2>1, <2>2, <2>4 DEF ThreadOK
<1>9. Quiet(t)
  BY <1>1, <1>4 DEF Quiet
<1> QED BY <1>1, <1>5, <1>6, <1>7, <1>8, <1>9, QuietKeeps

\* "Level error" is not thrown.
LEMMA StartSearchKeeps ==
  ASSUME InsertInv, NEW t \in Threads, StartSearch(t)
  PROVE  InsertInv'
<1>1. /\ TypeOK /\ OwnOK /\ ThreadOK(t) /\ pc[t] = "start"
      /\ cand' = [cand EXCEPT ![t] = {currObj[t]}]
      /\ visited' = [visited EXCEPT ![t] = {currObj[t]}]
      /\ top' = [top EXCEPT ![t] = {currObj[t]} \ deleted]
      /\ cur_c' = cur_c /\ UNCHANGED <<index, entry, level, todo, rest>>
  BY DEF InsertInv, StartSearch
<1>2. /\ maxlevelcopy[t] \in Int /\ level[t] \in Heights /\ level[t] \in Int
      /\ level[t] <= maxlevelcopy[t]
      /\ currObj[t] \in Slots /\ Linkable(currObj[t], level[t]) /\ currObj[t] # cur_c[t]
  <2>1. Linkable(currObj[t], level[t]) /\ level[t] <= maxlevelcopy[t] /\ currObj[t] # cur_c[t]
        /\ 0 <= level[t]
    BY <1>1 DEF ThreadOK
  <2>2. currObj[t] \in Slots
    BY <1>1, <2>1 DEF Linkable, Complete, TypeOK, NoEntry
  <2>3. maxlevelcopy[t] \in Int /\ level[t] \in Int
    BY <1>1, NumberFacts
  <2>4. level[t] \in Heights
    BY <1>1, <2>1 DEF TypeOK
  <2> QED BY <2>1, <2>2, <2>3, <2>4
<1>3. pc' = [pc EXCEPT ![t] = "search"] /\ global' = global
  <2>1. ~ (level[t] > maxlevelcopy[t])
    BY <1>2
  <2>2. pc' = [pc EXCEPT ![t] = "search"]
    BY <2>1 DEF StartSearch
  <2>3. pc'[t] = "search"
    BY <1>1, <2>2 DEF TypeOK
  <2> QED BY <2>2, <2>3 DEF StartSearch, Unwind
<1>4. pc'[t] = "search"
  BY <1>1, <1>3 DEF TypeOK
<1>5. Alone(t)
  <2>1. \A u \in Threads \ {t} : Same(u)
    BY <1>1, <1>3 DEF TypeOK, Same, entry
  <2> QED BY <1>1, <1>4, <2>1 DEF Alone, Past, PastNext, index
<1>6. StillUnpublished(t)
  BY <1>1, <1>4 DEF StillUnpublished, Unpublished, index
<1>7. TypeOK'
  <2>1. /\ cand' \in [Threads -> SUBSET Slots] /\ visited' \in [Threads -> SUBSET Slots]
        /\ top' \in [Threads -> SUBSET Slots]
    BY <1>1, <1>2 DEF TypeOK
  <2>2. pc' \in [Threads -> Steps]
    BY <1>1, <1>3 DEF TypeOK, Steps
  <2> QED BY <1>1, <1>3, <2>1, <2>2 DEF TypeOK, index, entry
<1>8. ThreadOK(t)'
  <2>1. /\ (maxlevelcopy[t] >= 0 /\ Linkable(enterpoint_copy[t], maxlevelcopy[t]))'
        /\ curlevel(t)' = curlevel(t)
    BY <1>1, <1>5, EntryCopyKeeps DEF entry
  <2>2. LinkableNext(currObj[t], level[t]) /\ SeenNext(currObj[t], level[t])
    BY <1>1, <1>2, <1>5, FactsKeep, LinkableSeen, AloneOnward
  <2>3. Linkable(currObj[t], level[t])'
    BY <1>1, <2>2 DEF entry, LinkableNext, CompleteNext, Linkable, Complete, Locked, Inserts
  <2>4. cand'[t] = {currObj[t]} /\ top'[t] \subseteq {currObj[t]}
    BY <1>1 DEF TypeOK
  <2>5. (\A n \in cand[t] \cup top[t] : Seen(n, level[t]) /\ n # cur_c[t])'
    BY <1>1, <1>2, <2>2, <2>4 DEF SeenNext, PastNext, Seen, Past, Inserts
  <2>6. (\A n \in top[t] \ cand[t] : Complete(n))'
    BY <2>4
  <2>7. (currObj[t] # cur_c[t] /\ 0 <= level[t] /\ level[t] <= maxlevelcopy[t]
         /\ level[t] <= curlevel(t))'
    BY <1>1, <2>1 DEF ThreadOK, entry
  <2> QED BY <1>4, <2>1, <2>3, <2>5, <2>6, <2>7 DEF ThreadOK
<1>9. Quiet(t)
  BY <1>1, <1>3, <1>4 DEF Quiet, entry
<1> QED BY <1>1, <1>5, <1>6, <1>7, <1>8, <1>9, QuietKeeps

\* With the lists of a level connected, the element may be met there.
LEMMA NextLevelKeeps ==
  ASSUME InsertInv, NEW t \in Threads, NextLevel(t)
  PROVE  InsertInv'
<1>1. /\ TypeOK /\ OwnOK /\ ThreadOK(t) /\ pc[t] = "connect"
      /\ level' = [level EXCEPT ![t] = level[t] - 1]
      /\ pc' = [pc EXCEPT ![t] = IF level[t] = 0 THEN "finish" ELSE "start"]
      /\ cur_c' = cur_c /\ UNCHANGED <<index, global, todo, entry, beam, rest>>
  BY DEF InsertInv, NextLevel
<1>2. /\ level'[t] = level[t] - 1
      /\ pc'[t] = IF level[t] = 0 THEN "finish" ELSE "start"
  BY <1>1 DEF TypeOK
<1>3. /\ level[t] \in Int /\ level[t] >= 0 /\ level[t] \in Heights /\ level[t] <= curlevel(t)
      /\ curlevel(t) \in Int /\ level[t] <= maxlevelcopy[t] /\ maxlevelcopy[t] \in Int
      /\ Linkable(currObj[t], level[t]) /\ currObj[t] # cur_c[t]
  BY <1>1, NumberFacts DEF ThreadOK, TypeOK
<1>4. level'[t] \in {-1} \cup Heights /\ (level[t] # 0 => level'[t] \in Heights)
  BY <1>2, <1>3, ConstantsAssumption DEF Heights
<1>5. Alone(t)
  <2>1. \A u \in Threads \ {t} : Same(u)
    BY <1>1 DEF TypeOK, Same, entry, beam
  <2>2. \A l \in Heights : Past(t, l) => PastNext(t, l)
    BY <1>1, <1>2, <1>3, ConstantsAssumption DEF Past, PastNext, Heights
  <2> QED BY <1>1, <1>2, <2>1, <2>2 DEF Alone, index
<1>6. StillUnpublished(t)
  BY <1>1, <1>2, <1>3, ConstantsAssumption DEF StillUnpublished, Unpublished, Heights, index
<1>7. TypeOK'
  <2>1. level' \in [Threads -> {-1} \cup Heights] /\ pc' \in [Threads -> Steps]
    BY <1>1, <1>2, <1>4 DEF TypeOK, Steps
  <2> QED BY <1>1, <2>1 DEF TypeOK, index, entry, beam
<1>8. ThreadOK(t)'
  <2>1. CASE level[t] = 0
    <3>1. pc'[t] = "finish" /\ level'[t] = -1
      BY <1>2, <2>1
    <3> QED BY <3>1 DEF ThreadOK
  <2>2. CASE level[t] # 0
    <3>1. pc'[t] = "start"
      BY <1>2, <2>2
    <3>2. /\ (maxlevelcopy[t] >= 0 /\ Linkable(enterpoint_copy[t], maxlevelcopy[t]))'
          /\ curlevel(t)' = curlevel(t)
      BY <1>1, <1>5, EntryCopyKeeps DEF entry
    <3>3. Linkable(currObj[t], level[t] - 1)
      <4>1. currObj[t] \in Slots /\ element_levels_[currObj[t]] >= level[t]
        BY <1>1, <1>3 DEF Linkable, Complete, TypeOK, NoEntry
      <4>2. element_levels_[currObj[t]] \in Int
        BY <1>1, <4>1 DEF TypeOK, Heights
      <4> QED BY <1>3, <4>1, <4>2 DEF Linkable
    <3>4. LinkableNext(currObj[t], level'[t])
      BY <1>1, <1>2, <1>5, <3>3, FactsKeep, AloneOnward
    <3>5. Linkable(currObj[t], level[t])'
      BY <1>1, <3>4 DEF entry, LinkableNext, CompleteNext, Linkable, Complete, Locked, Inserts
    <3>6. (currObj[t] # cur_c[t] /\ 0 <= level[t] /\ level[t] <= maxlevelcopy[t]
           /\ level[t] <= curlevel(t))'
      BY <1>1, <1>2, <1>3, <2>2, <3>2 DEF entry
    <3> QED BY <3>1, <3>2, <3>5, <3>6 DEF ThreadOK
  <2> QED BY <2>1, <2>2
<1>9. Quiet(t)
  BY <1>1, <1>2 DEF Quiet, entry
<1> QED BY <1>1, <1>5, <1>6, <1>7, <1>8, <1>9, QuietKeeps

\* What a search meets on its level is ahead of the searcher.
LEMMA ExpandKeeps ==
  ASSUME InsertInv, NEW t \in Threads, Expand(t)
  PROVE  InsertInv'
<1> DEFINE l == level[t]
<1>1. /\ TypeOK /\ OwnOK /\ ThreadOK(t) /\ pc[t] = "search" /\ pc' = pc
      /\ cur_c' = cur_c /\ UNCHANGED <<index, global, todo, entry, level, rest>>
  BY DEF InsertInv, Expand
<1>2. PICK n \in cand[t] :
        /\ ~ Locked(n)
        /\ \E considered \in SUBSET (links[l][n] \ visited[t]) :
             /\ visited' = [visited EXCEPT ![t] = @ \cup (links[l][n] \ visited[t])]
             /\ cand' = [cand EXCEPT ![t] = (@ \ {n}) \cup considered]
             /\ top' = [top EXCEPT ![t] = Code!Closest(data, query(t), @ \cup (considered \ deleted),
                                                  ef_construction_)]
  BY DEF Expand
<1>3. PICK considered \in SUBSET (links[l][n] \ visited[t]) :
        /\ visited' = [visited EXCEPT ![t] = @ \cup (links[l][n] \ visited[t])]
        /\ cand' = [cand EXCEPT ![t] = (@ \ {n}) \cup considered]
        /\ top' = [top EXCEPT ![t] = Code!Closest(data, query(t), @ \cup (considered \ deleted),
                                             ef_construction_)]
  BY <1>2
<1>4. /\ l \in Heights /\ n \in Slots /\ Seen(n, l) /\ n # cur_c[t] /\ Complete(n)
  <2>1. Seen(n, l) /\ n # cur_c[t] /\ 0 <= l
    BY <1>1, <1>2 DEF ThreadOK
  <2>2. l \in Heights /\ n \in Slots
    BY <1>1, <1>2, <2>1 DEF TypeOK
  <2> QED BY <1>2, <2>1, <2>2 DEF Seen, Complete
<1>5. considered \subseteq Slots /\ links[l][n] \subseteq Slots
      /\ \A c \in considered : Seen(c, l) /\ c # cur_c[t]
  <2>1. Unpublished(t, l)
    BY <1>1, <1>4 DEF Unpublished, TypeOK, Heights
  <2>2. \A c \in links[l][n] : c \in Slots /\ Seen(c, l) /\ c # cur_c[t]
    BY <1>4, <2>1, NamedIsSeen
  <2> QED BY <1>3, <2>2
<1>6. /\ cand'[t] = (cand[t] \ {n}) \cup considered
      /\ top'[t] \subseteq top[t] \cup considered
      /\ visited'[t] \subseteq Slots
  <2>1. \A C : Code!Closest(data, query(t), C, ef_construction_) \subseteq C
    BY DEF Code!Closest
  <2>2. top'[t] = Code!Closest(data, query(t), top[t] \cup (considered \ deleted), ef_construction_)
    BY <1>1, <1>3 DEF TypeOK
  <2>3. top'[t] \subseteq top[t] \cup (considered \ deleted)
    BY <2>1, <2>2
  <2> QED BY <1>1, <1>3, <1>5, <2>3 DEF TypeOK
<1>7. Alone(t)
  <2>1. \A u \in Threads \ {t} : Same(u)
    BY <1>1, <1>3 DEF TypeOK, Same, entry
  <2> QED BY <1>1, <2>1 DEF Alone, Past, PastNext, index
<1>8. StillUnpublished(t)
  BY <1>1 DEF StillUnpublished, Unpublished, index
<1>9. TypeOK'
  <2>1. cand[t] \subseteq Slots /\ top[t] \subseteq Slots
    BY <1>1 DEF TypeOK
  <2>2. cand' \in [Threads -> SUBSET Slots]
    BY <1>1, <1>3, <1>5, <2>1 DEF TypeOK
  <2>3. visited' \in [Threads -> SUBSET Slots]
    BY <1>1, <1>3, <1>5 DEF TypeOK
  <2>4. top' \in [Threads -> SUBSET Slots]
    BY <1>1, <1>3, <1>5, <1>6, <2>1 DEF TypeOK
  <2> QED BY <1>1, <2>2, <2>3, <2>4 DEF TypeOK, index, entry
<1>10. ThreadOK(t)'
  <2>1. /\ (maxlevelcopy[t] >= 0 /\ Linkable(enterpoint_copy[t], maxlevelcopy[t]))'
        /\ curlevel(t)' = curlevel(t)
    BY <1>1, <1>7, EntryCopyKeeps DEF entry
  <2>2. Onward
    BY <1>1, <1>7, AloneOnward
  <2>3. Linkable(currObj[t], level[t])'
    <3>1. LinkableNext(currObj[t], level[t])
      BY <1>1, <2>2, FactsKeep DEF ThreadOK
    <3> QED BY <1>1, <3>1 DEF entry, LinkableNext, CompleteNext, Linkable, Complete, Locked, Inserts
  <2>4. (\A x \in cand[t] \cup top[t] : Seen(x, level[t]) /\ x # cur_c[t])'
    <3>1. \A x \in cand'[t] \cup top'[t] : Seen(x, l) /\ x # cur_c[t]
      BY <1>1, <1>5, <1>6 DEF ThreadOK
    <3>2. \A x \in cand'[t] \cup top'[t] : SeenNext(x, l)
      BY <1>1, <1>4, <2>2, <3>1, FactsKeep
    <3> QED BY <1>1, <3>1, <3>2 DEF SeenNext, PastNext, Seen, Past, Inserts
  <2>5. (\A x \in top[t] \ cand[t] : Complete(x))'
    <3>1. \A x \in top'[t] \ cand'[t] : Complete(x)
      BY <1>1, <1>4, <1>6 DEF ThreadOK
    <3>2. \A x \in top'[t] \ cand'[t] : CompleteNext(x)
      BY <1>1, <2>2, <3>1, FactsKeep
    <3> QED BY <3>2 DEF CompleteNext, Complete, Locked, Inserts
  <2>6. (currObj[t] # cur_c[t] /\ 0 <= level[t] /\ level[t] <= maxlevelcopy[t]
         /\ level[t] <= curlevel(t))'
    BY <1>1, <2>1 DEF ThreadOK, entry
  <2>7. pc'[t] = "search"
    BY <1>1
  <2> QED BY <2>1, <2>3, <2>4, <2>5, <2>6, <2>7 DEF ThreadOK
<1>11. Quiet(t)
  BY <1>1 DEF Quiet, entry
<1> QED BY <1>1, <1>7, <1>8, <1>9, <1>10, <1>11, QuietKeeps

\* When the search stops, what it found has been visited: no candidate is left
\* that could be among the closest.  All of it is complete.
LEMMA FoundFacts ==
  ASSUME InsertInv, NEW t \in Threads, pc[t] = "search", Stops(t)
  PROVE  Found(t) \subseteq Slots /\ \A n \in Found(t) : Linkable(n, level[t]) /\ n # cur_c[t]
<1>1. TypeOK /\ OwnOK /\ ThreadOK(t)
  BY DEF InsertInv
<1>2. top[t] \subseteq Slots /\ cand[t] \subseteq Slots
  BY <1>1 DEF TypeOK
<1>3. top[t] \cap cand[t] = {}
  <2> SUFFICES ASSUME NEW n \in top[t], n \in cand[t] PROVE FALSE
    OBVIOUS
  <2>1. Dist(query(t), data[n]) > Dist(query(t), data[n])
    BY DEF Stops
  <2>2. query(t) \in Int /\ data[n] \in Int
    BY <1>1, <1>2, NumberFacts DEF query, TypeOK
  <2>3. Dist(query(t), data[n]) \in Int
    BY <2>2 DEF Dist
  <2> QED BY <2>1, <2>3
<1>4. \A n \in top[t] : Linkable(n, level[t]) /\ n # cur_c[t]
  BY <1>1, <1>3 DEF ThreadOK, Seen, Linkable
<1>5. Linkable(enterpoint_copy[t], level[t]) /\ enterpoint_copy[t] # cur_c[t]
      /\ enterpoint_copy[t] \in Slots
  <2>1. /\ Linkable(enterpoint_copy[t], maxlevelcopy[t]) /\ level[t] <= maxlevelcopy[t]
        /\ level[t] \in Int /\ maxlevelcopy[t] \in Int
    BY <1>1, NumberFacts DEF ThreadOK
  <2>2. enterpoint_copy[t] \in Slots
    BY <1>1, <2>1 DEF Linkable, Complete, TypeOK, NoEntry
  <2>3. element_levels_[enterpoint_copy[t]] \in Int
    BY <1>1, <2>2 DEF TypeOK, Heights
  <2> QED BY <2>1, <2>2, <2>3, CompleteIsOther DEF Linkable
<1>6. Found(t) \subseteq top[t] \cup {enterpoint_copy[t]}
  BY DEF Found, Code!Closest
<1> QED BY <1>2, <1>4, <1>5, <1>6

\* The search ends: either the step leaves the model, or it writes the list of
\* the new element and cannot find anything wrong with it.
LEMMA WriteOwnListSteps ==
  ASSUME InsertInv, NEW t \in Threads, WriteOwnList(t)
  PROVE  LET selected == Select(query(t), Found(t), M)
         IN /\ selected \subseteq Found(t) /\ Cardinality(selected) <= M
            /\ rest' = [rest EXCEPT ![t] = selected]
            /\ global' = global
            /\ \/ /\ pc' = [pc EXCEPT ![t] = "connect"]
                  /\ links' = [links EXCEPT ![level[t]][cur_c[t]] = selected]
                  /\ \E n \in selected : currObj' = [currObj EXCEPT ![t] = n]
               \/ /\ \E end \in {"twice", "undefined"} : pc' = [pc EXCEPT ![t] = end]
                  /\ UNCHANGED <<links, currObj>>
<1> DEFINE selected == Select(query(t), Found(t), M)
<1>1. /\ TypeOK /\ VectorsOK /\ OwnOK /\ ThreadOK(t) /\ pc[t] = "search" /\ Stops(t)
  BY DEF InsertInv, WriteOwnList
<1>2. Found(t) \subseteq Slots /\ \A n \in Found(t) : Linkable(n, level[t]) /\ n # cur_c[t]
  BY <1>1, FoundFacts
<1>3. selected \subseteq Found(t) /\ Cardinality(selected) <= M
  <2>1. cur_c[t] \in Slots
    BY <1>1, NumberFacts
  <2> QED BY <1>1, <1>2, <2>1, SelectFacts DEF query
<1>4. links[level[t]][cur_c[t]] = {}
  <2>1. level[t] \in Heights
    BY <1>1 DEF ThreadOK, TypeOK
  <2>2. Unpublished(t, level[t])
    BY <1>1, <2>1 DEF Unpublished, Heights
  <2> QED BY <2>1, <2>2 DEF InsertInv, UnpublishedOK
<1>5. ~ \E n \in selected : element_levels_[n] < level[t]
  <2> SUFFICES ASSUME NEW n \in selected PROVE ~ (element_levels_[n] < level[t])
    OBVIOUS
  <2>1. element_levels_[n] >= level[t] /\ n \in Slots
    BY <1>2, <1>3 DEF Linkable
  <2>2. element_levels_[n] \in Int /\ level[t] \in Int
    BY <1>1, <2>1, NumberFacts DEF TypeOK, Heights
  <2> QED BY <2>1, <2>2
<1>6. /\ rest' = [rest EXCEPT ![t] = selected] /\ Unwind(t)
      /\ pc' = [pc EXCEPT ![t] = IF FoundTwice(t) THEN "twice"
                                  ELSE IF selected = {} THEN "undefined" ELSE "connect"]
      /\ IF pc'[t] = "connect"
         THEN /\ links' = [links EXCEPT ![level[t]][cur_c[t]] = selected]
              /\ \E n \in selected : currObj' = [currObj EXCEPT ![t] = n]
         ELSE UNCHANGED <<links, currObj>>
  <2> HIDE DEF selected
  <2>1. /\ rest' = [rest EXCEPT ![t] = selected] /\ Unwind(t)
        /\ pc' = [pc EXCEPT ![t] =
                    IF FoundTwice(t) THEN "twice"
                    ELSE IF selected = {} THEN "undefined"
                    ELSE IF \/ links[level[t]][cur_c[t]] # {}
                            \/ \E n \in selected : element_levels_[n] < level[t]
                         THEN "thrown" ELSE "connect"]
        /\ IF pc'[t] = "connect"
           THEN /\ links' = [links EXCEPT ![level[t]][cur_c[t]] = selected]
                /\ \E n \in selected : currObj' = [currObj EXCEPT ![t] = n]
           ELSE UNCHANGED <<links, currObj>>
    BY DEF WriteOwnList, selected
  <2> QED BY <1>4, <1>5, <2>1
<1>7. pc'[t] \in {"twice", "undefined", "connect"}
  BY <1>1, <1>6 DEF TypeOK
<1>8. global' = global
  BY <1>6, <1>7 DEF Unwind
<1> HIDE DEF selected
<1>9. \/ pc' = [pc EXCEPT ![t] = "connect"] /\ pc'[t] = "connect"
      \/ \E end \in {"twice", "undefined"} : pc' = [pc EXCEPT ![t] = end] /\ pc'[t] = end
  BY <1>1, <1>6 DEF TypeOK
<1> QED BY <1>3, <1>6, <1>8, <1>9 DEF selected

\* Thread t writes the list of element o on level l: the new list is sound, and
\* it has nothing to do with elements that have not published themselves there.
WritesList(t, l, o, L) ==
  /\ l \in Heights /\ o \in Slots /\ o < count /\ L \in SUBSET Slots
  /\ links' = [links EXCEPT ![l][o] = L]
  /\ Cardinality(L) <= Mcurmax(M, l)
  /\ \A c \in L : c < count /\ c # o /\ element_levels_[c] >= l
  /\ \A u \in Threads : Unpublished(u, l)' => o # cur_c[u] /\ cur_c[u] \notin L
  /\ \A k \in Heights : Unpublished(t, k)' => Unpublished(t, k)

\* A list that is written within these bounds leaves all lists sound.
LEMMA WrittenListKeeps ==
  ASSUME InsertInv, NEW t \in Threads, Alone(t),
         NEW l, NEW o, NEW L, WritesList(t, l, o, L)
  PROVE  FreshOK' /\ ListsSound' /\ UnpublishedOK' /\ links' \in [Heights -> [Slots -> SUBSET Slots]]
<1> USE DEF InsertInv, WritesList
<1>1. \A k \in Heights, x \in Slots :
        links'[k][x] = IF k = l /\ x = o THEN L ELSE links[k][x]
  BY DEF TypeOK
<1>2. links' \in [Heights -> [Slots -> SUBSET Slots]]
  BY DEF TypeOK
<1>3. FreshOK'
  <2>1. \A x \in Slots : x >= count => x # o
    BY ConstantsAssumption DEF TypeOK, Slots
  <2> QED BY <1>1, <2>1 DEF FreshOK, Alone
<1>4. ListsSound'
  BY <1>1 DEF ListsSound, Alone
<1>5. UnpublishedOK'
  <2>1. ASSUME NEW u \in Threads, NEW k \in Heights, Unpublished(u, k)'
        PROVE  Unpublished(u, k)
    <3>1. CASE u = t
      BY <2>1, <3>1
    <3>2. CASE u # t
      BY <2>1, <3>2 DEF Alone, Same, Unpublished
    <3> QED BY <3>1, <3>2
  <2>2. ASSUME NEW u \in Threads, NEW k \in Heights, Unpublished(u, k)'
        PROVE  links'[k][cur_c[u]] = {} /\ \A x \in Slots : cur_c[u] \notin links'[k][x]
    <3>1. links[k][cur_c[u]] = {} /\ \A x \in Slots : cur_c[u] \notin links[k][x]
      BY <2>1, <2>2 DEF UnpublishedOK
    <3>2. cur_c[u] \in Slots
      <4>1. pc[u] # "idle"
        BY <2>1, <2>2 DEF Unpublished
      <4> QED BY <4>1, NumberFacts
    <3> QED BY <1>1, <2>2, <3>1, <3>2
  <2> QED BY <2>2 DEF UnpublishedOK, Alone
<1> QED BY <1>2, <1>3, <1>4, <1>5

\* An element that has not published itself is under insertion, hence locked.
LEMMA UnpublishedLocked ==
  ASSUME NEW u \in Threads, NEW l, Unpublished(u, l), NEW n, Complete(n)
  PROVE  n # cur_c[u]
BY DEF Unpublished, Complete, Locked, Inserts

\* Writing the own list, or stopping because the selection is empty or the
\* entry point was found twice.
LEMMA WriteOwnListKeeps ==
  ASSUME InsertInv, NEW t \in Threads, WriteOwnList(t)
  PROVE  InsertInv'
<1>1. /\ TypeOK /\ OwnOK /\ ThreadOK(t) /\ pc[t] = "search" /\ Stops(t)
      /\ cand' = [cand EXCEPT ![t] = {}] /\ visited' = [visited EXCEPT ![t] = {}]
      /\ \/ top' = top
         \/ top' = [top EXCEPT ![t] = {}]
      /\ UNCHANGED <<count, element_levels_, data, deleted, maxlevel_, enterpoint_node_, todo,
                     cur_c, maxlevelcopy, enterpoint_copy, epDeleted, level>>
  BY DEF InsertInv, WriteOwnList
<1>2. PICK selected :
        /\ selected \subseteq Found(t) /\ Cardinality(selected) <= M
        /\ rest' = [rest EXCEPT ![t] = selected]
        /\ global' = global
        /\ \/ /\ pc' = [pc EXCEPT ![t] = "connect"]
              /\ links' = [links EXCEPT ![level[t]][cur_c[t]] = selected]
              /\ \E n \in selected : currObj' = [currObj EXCEPT ![t] = n]
           \/ /\ \E end \in {"twice", "undefined"} : pc' = [pc EXCEPT ![t] = end]
              /\ UNCHANGED <<links, currObj>>
  BY WriteOwnListSteps
<1> PICK l, own : l = level[t] /\ own = cur_c[t]
  OBVIOUS
<1>3. /\ selected \subseteq Slots /\ \A n \in selected : Linkable(n, l) /\ n # own
  BY <1>1, <1>2, FoundFacts
<1>4. /\ l \in Heights /\ l \in Int /\ own \in Slots /\ own < count /\ own \in 0 .. count - 1
      /\ curlevel(t) \in Int /\ l <= curlevel(t) /\ 0 <= l /\ l <= maxlevelcopy[t]
  BY <1>1, NumberFacts DEF ThreadOK, TypeOK
<1>5. /\ pc' \in [Threads -> Steps]
      /\ pc'[t] \in {"connect", "twice", "undefined"} /\ rest'[t] = selected
      /\ \A u \in Threads \ {t} : pc'[u] = pc[u]
      /\ currObj' \in [Threads -> {NoEntry} \cup Slots]
      /\ \A u \in Threads \ {t} : currObj'[u] = currObj[u]
  <2>1. PICK end \in {"connect", "twice", "undefined"} : pc' = [pc EXCEPT ![t] = end]
    BY <1>2
  <2>2. /\ pc' \in [Threads -> Steps] /\ pc'[t] = end
        /\ \A u \in Threads \ {t} : pc'[u] = pc[u]
    BY <1>1, <2>1 DEF TypeOK, Steps
  <2>3. rest'[t] = selected
    BY <1>1, <1>2 DEF TypeOK
  <2>4. /\ currObj' \in [Threads -> {NoEntry} \cup Slots]
        /\ \A u \in Threads \ {t} : currObj'[u] = currObj[u]
    <3>1. currObj' = currObj \/ \E n \in Slots : currObj' = [currObj EXCEPT ![t] = n]
      BY <1>2, <1>3
    <3> QED BY <1>1, <3>1 DEF TypeOK
  <2> QED BY <2>2, <2>3, <2>4
<1>6. Alone(t)
  <2>1. \A u \in Threads \ {t} : Same(u)
    BY <1>1, <1>2, <1>5 DEF TypeOK, Same
  <2> QED BY <1>1, <1>5, <2>1 DEF Alone, Past, PastNext
<1>7. \A k \in Heights : Unpublished(t, k)' => Unpublished(t, k)
  BY <1>1, <1>4, <1>5, ConstantsAssumption DEF Unpublished, Heights
<1>8. Quiet(t)
  BY <1>1, <1>2, <1>5 DEF Quiet
<1>9. FreshOK' /\ ListsSound' /\ UnpublishedOK' /\ links' \in [Heights -> [Slots -> SUBSET Slots]]
  <2>1. CASE links' = links
    BY <1>1, <1>6, <1>7, <2>1, ListsKeep DEF StillUnpublished, TypeOK
  <2>2. CASE /\ pc' = [pc EXCEPT ![t] = "connect"]
             /\ links' = [links EXCEPT ![l][own] = selected]
    <3>1. \A c \in selected : c < count /\ c # own /\ element_levels_[c] >= l
      BY <1>1, <1>3, ConstantsAssumption DEF Linkable, Complete, TypeOK
    <3>2. Cardinality(selected) <= Mcurmax(M, l)
      <4>1. Cardinality(selected) \in Nat /\ M \in Nat
        BY <1>3, SlotsFinite, ConstantsAssumption
      <4> QED BY <1>2, <4>1 DEF Mcurmax
    <3>3. ASSUME NEW u \in Threads, Unpublished(u, l)'
          PROVE  own # cur_c[u] /\ cur_c[u] \notin selected
      <4>1. u # t
        BY <1>1, <1>4, <2>2, <3>3 DEF Unpublished, TypeOK
      <4>2. Unpublished(u, l)
        BY <1>6, <3>3, <4>1 DEF Alone, Same, Unpublished
      <4>3. own # cur_c[u]
        BY <1>1, <4>1, <4>2 DEF OwnOK, Unpublished
      <4>4. cur_c[u] \notin selected
        BY <1>3, <4>2, UnpublishedLocked DEF Linkable
      <4> QED BY <4>3, <4>4
    <3>4. WritesList(t, l, own, selected)
      BY <1>3, <1>4, <1>7, <2>2, <3>1, <3>2, <3>3 DEF WritesList
    <3> QED BY <1>6, <3>4, WrittenListKeeps
  <2> QED BY <1>2, <2>1, <2>2
<1>10. TypeOK'
  <2>1. /\ cand' \in [Threads -> SUBSET Slots] /\ visited' \in [Threads -> SUBSET Slots]
        /\ top' \in [Threads -> SUBSET Slots] /\ rest' \in [Threads -> SUBSET Slots]
    BY <1>1, <1>2, <1>3 DEF TypeOK
  <2> QED BY <1>1, <1>2, <1>5, <1>9, <2>1 DEF TypeOK
<1>11. ThreadOK(t)'
  <2>1. /\ (maxlevelcopy[t] >= 0 /\ Linkable(enterpoint_copy[t], maxlevelcopy[t]))'
        /\ curlevel(t)' = curlevel(t)
    BY <1>1, <1>6, EntryCopyKeeps
  <2>2. CASE pc'[t] = "connect"
    <3>1. currObj'[t] \in selected
      <4>1. \E n \in selected : currObj' = [currObj EXCEPT ![t] = n]
        BY <1>1, <1>2, <2>2 DEF TypeOK
      <4> QED BY <1>1, <4>1 DEF TypeOK
    <3>2. \A n \in selected : LinkableNext(n, l)
      BY <1>1, <1>3, <1>6, FactsKeep, AloneOnward
    <3>3. (\A n \in rest[t] : Linkable(n, level[t]) /\ n # cur_c[t])'
      BY <1>1, <1>3, <1>5, <3>2 DEF LinkableNext, CompleteNext, Linkable, Complete, Locked, Inserts
    <3>4. (Linkable(currObj[t], level[t]) /\ currObj[t] # cur_c[t])'
      BY <1>1, <1>3, <3>1, <3>2 DEF LinkableNext, CompleteNext, Linkable, Complete, Locked, Inserts
    <3>5. (0 <= level[t] /\ level[t] <= maxlevelcopy[t] /\ level[t] <= curlevel(t))'
      BY <1>1, <1>4, <2>1
    <3> QED BY <2>1, <2>2, <3>3, <3>4, <3>5 DEF ThreadOK
  <2>3. CASE pc'[t] # "connect"
    BY <1>1, <1>4, <1>5, <2>3 DEF ThreadOK
  <2> QED BY <2>2, <2>3
<1> QED BY <1>6, <1>8, <1>9, <1>10, <1>11, QuietGlobal, AloneKeeps

\* The way back: the neighbour is complete and of the level, its list fits, so
\* there is nothing to throw about.
LEMMA ConnectNeighborSteps ==
  ASSUME InsertInv, NEW t \in Threads, ConnectNeighbor(t)
  PROVE  \E n \in rest[t], S \in SUBSET Slots :
           /\ n \in Slots /\ Linkable(n, level[t]) /\ n # cur_c[t]
           /\ S \subseteq links[level[t]][n] \cup {cur_c[t]}
           /\ Cardinality(S) <= Mcurmax(M, level[t])
           /\ Cardinality(links[level[t]][n]) < Mcurmax(M, level[t]) =>
                S = links[level[t]][n] \cup {cur_c[t]}
           /\ links' = [links EXCEPT ![level[t]][n] = S]
           /\ rest' = [rest EXCEPT ![t] = @ \ {n}]
           /\ pc' = pc /\ global' = global
<1>1. /\ TypeOK /\ VectorsOK /\ OwnOK /\ ThreadOK(t) /\ pc[t] = "connect" /\ ListsSound
  BY DEF InsertInv, ConnectNeighbor
<1> DEFINE bound == Mcurmax(M, level[t])
<1> DEFINE other(n) == links[level[t]][n]
<1> DEFINE S(n) == IF Cardinality(other(n)) < bound THEN other(n) \cup {cur_c[t]}
                   ELSE Select(data[n], other(n) \cup {cur_c[t]}, bound)
<1> DEFINE bad(n) == \/ Cardinality(other(n)) > bound
                     \/ n = cur_c[t]
                     \/ element_levels_[n] < level[t]
<1>2. PICK n \in rest[t] :
        /\ links' = IF bad(n) THEN links ELSE [links EXCEPT ![level[t]][n] = S(n)]
        /\ pc' = [pc EXCEPT ![t] = IF bad(n) THEN "thrown" ELSE @]
        /\ rest' = [rest EXCEPT ![t] = @ \ {n}]
        /\ Unwind(t)
  BY DEF ConnectNeighbor
<1>3. /\ level[t] \in Heights /\ level[t] \in Int /\ n \in Slots /\ Linkable(n, level[t])
      /\ n # cur_c[t] /\ cur_c[t] \in Slots
  <2>1. Linkable(n, level[t]) /\ n # cur_c[t] /\ 0 <= level[t]
    BY <1>1, <1>2 DEF ThreadOK
  <2>2. n \in Slots /\ level[t] \in Heights
    BY <1>1, <1>2, <2>1 DEF TypeOK
  <2> QED BY <1>1, <2>1, <2>2, NumberFacts
<1>4. bound \in {M, 2 * M} /\ bound \in Nat
  BY ConstantsAssumption DEF Mcurmax
<1>5. other(n) \subseteq Slots /\ Cardinality(other(n)) \in Nat /\ Cardinality(other(n)) <= bound
  <2>1. other(n) \subseteq Slots
    BY <1>1, <1>3 DEF TypeOK
  <2>2. Cardinality(other(n)) \in Nat
    BY <2>1, SlotsFinite
  <2>3. Cardinality(other(n)) <= bound
    BY <1>1, <1>3 DEF ListsSound
  <2> QED BY <2>1, <2>2, <2>3
<1>6. ~ bad(n)
  <2>1. element_levels_[n] \in Int /\ element_levels_[n] >= level[t]
    BY <1>1, <1>3 DEF TypeOK, Heights, Linkable
  <2> QED BY <1>3, <1>4, <1>5, <2>1
<1>7. S(n) \subseteq other(n) \cup {cur_c[t]} /\ Cardinality(S(n)) <= bound
  <2>1. CASE Cardinality(other(n)) < bound
    <3>1. IsFiniteSet(other(n))
      BY <1>5, SlotsFinite
    <3>2. \/ Cardinality(other(n) \cup {cur_c[t]}) = Cardinality(other(n))
          \/ Cardinality(other(n) \cup {cur_c[t]}) = Cardinality(other(n)) + 1
      BY <3>1, FS_AddElement
    <3> QED BY <1>4, <1>5, <2>1, <3>2
  <2>2. CASE ~ (Cardinality(other(n)) < bound)
    <3>1. other(n) \cup {cur_c[t]} \in SUBSET Slots
      BY <1>3, <1>5
    <3> HIDE DEF bound, other
    <3>2. /\ Select(data[n], other(n) \cup {cur_c[t]}, bound) \subseteq other(n) \cup {cur_c[t]}
          /\ Cardinality(Select(data[n], other(n) \cup {cur_c[t]}, bound)) <= bound
      BY <1>1, <1>3, <1>4, <3>1, SelectFacts
    <3> QED BY <2>2, <3>2
  <2> QED BY <2>1, <2>2
<1>8. S(n) \in SUBSET Slots
  BY <1>3, <1>5, <1>7
<1>9. Cardinality(other(n)) < bound => S(n) = other(n) \cup {cur_c[t]}
  OBVIOUS
<1> HIDE DEF bad, S
<1>10. pc' = pc
  BY <1>1, <1>2, <1>6 DEF TypeOK
<1>11. global' = global
  BY <1>1, <1>2, <1>10 DEF Unwind
<1>12. links' = [links EXCEPT ![level[t]][n] = S(n)]
  BY <1>2, <1>6
<1> QED BY <1>2, <1>3, <1>7, <1>8, <1>9, <1>10, <1>11, <1>12

\* Extending or reselecting the list of a neighbour.
LEMMA ConnectNeighborKeeps ==
  ASSUME InsertInv, NEW t \in Threads, ConnectNeighbor(t)
  PROVE  InsertInv'
<1>1. /\ TypeOK /\ OwnOK /\ ThreadOK(t) /\ pc[t] = "connect" /\ ListsSound
      /\ UNCHANGED <<count, element_levels_, data, deleted, maxlevel_, enterpoint_node_, todo,
                     cur_c, entry, level, beam>>
  BY DEF InsertInv, ConnectNeighbor
<1> PICK l, own : l = level[t] /\ own = cur_c[t]
  OBVIOUS
<1>2. PICK n \in rest[t], S \in SUBSET Slots :
        /\ n \in Slots /\ Linkable(n, l) /\ n # own
        /\ S \subseteq links[l][n] \cup {own}
        /\ Cardinality(S) <= Mcurmax(M, l)
        /\ links' = [links EXCEPT ![l][n] = S]
        /\ rest' = [rest EXCEPT ![t] = @ \ {n}]
        /\ pc' = pc /\ global' = global
  BY ConnectNeighborSteps
<1>3. /\ l \in Heights /\ l \in Int /\ own \in Slots /\ own \in 0 .. count - 1
      /\ curlevel(t) \in Int /\ l <= curlevel(t) /\ 0 <= l /\ l <= maxlevelcopy[t]
  BY <1>1, NumberFacts DEF ThreadOK, TypeOK
<1>4. Alone(t)
  <2>1. \A u \in Threads \ {t} : Same(u)
    BY <1>1, <1>2 DEF TypeOK, Same, entry, beam
  <2> QED BY <1>1, <1>2, <2>1 DEF Alone, Past, PastNext
<1>5. Quiet(t)
  BY <1>1, <1>2 DEF Quiet, entry
<1>6. \A u \in Threads, k \in Heights : Unpublished(u, k)' => Unpublished(u, k)
  BY <1>1, <1>2 DEF Unpublished
<1>7. FreshOK' /\ ListsSound' /\ UnpublishedOK' /\ links' \in [Heights -> [Slots -> SUBSET Slots]]
  <2>1. n < count /\ own < count /\ count \in Int /\ element_levels_[own] >= l
    BY <1>1, <1>2, <1>3, NumberFacts DEF Linkable, Complete, curlevel
  <2>2. S \in SUBSET Slots
    BY <1>1, <1>2, <1>3 DEF TypeOK
  <2>3. \A c \in S : c < count /\ c # n /\ element_levels_[c] >= l
    BY <1>1, <1>2, <1>3, <2>1 DEF ListsSound
  <2>4. ASSUME NEW u \in Threads, Unpublished(u, l)'
        PROVE  n # cur_c[u] /\ cur_c[u] \notin S
    <3>1. Unpublished(u, l)
      BY <1>3, <1>6, <2>4
    <3>2. u # t
      BY <1>1, <1>3, <3>1 DEF Unpublished
    <3>3. cur_c[u] \notin links[l][n]
      BY <1>2, <1>3, <3>1 DEF InsertInv, UnpublishedOK
    <3>4. own # cur_c[u]
      BY <1>1, <3>1, <3>2 DEF OwnOK, Unpublished
    <3>5. n # cur_c[u]
      BY <1>2, <3>1, UnpublishedLocked DEF Linkable
    <3> QED BY <1>2, <3>3, <3>4, <3>5
  <2>5. WritesList(t, l, n, S)
    BY <1>2, <1>3, <1>6, <2>1, <2>2, <2>3, <2>4 DEF WritesList
  <2> QED BY <1>4, <2>5, WrittenListKeeps
<1>8. TypeOK'
  <2>1. rest' \in [Threads -> SUBSET Slots]
    BY <1>1, <1>2 DEF TypeOK
  <2> QED BY <1>1, <1>2, <1>7, <2>1 DEF TypeOK, entry, beam
<1>9. ThreadOK(t)'
  <2>1. /\ (maxlevelcopy[t] >= 0 /\ Linkable(enterpoint_copy[t], maxlevelcopy[t]))'
        /\ curlevel(t)' = curlevel(t)
    BY <1>1, <1>4, EntryCopyKeeps DEF entry
  <2>2. /\ Linkable(currObj[t], l) /\ currObj[t] # own
        /\ \A x \in rest[t] : Linkable(x, l) /\ x # own
    BY <1>1 DEF ThreadOK
  <2>3. /\ LinkableNext(currObj[t], l) /\ \A x \in rest[t] : LinkableNext(x, l)
    BY <1>1, <1>4, <2>2, FactsKeep, AloneOnward
  <2>4. rest'[t] \subseteq rest[t]
    BY <1>1, <1>2 DEF TypeOK
  <2>5. (\A x \in rest[t] : Linkable(x, level[t]) /\ x # cur_c[t])'
    BY <1>1, <2>2, <2>3, <2>4 DEF LinkableNext, CompleteNext, Linkable, Complete, Locked, Inserts
  <2>6. (Linkable(currObj[t], level[t]) /\ currObj[t] # cur_c[t])'
    BY <1>1, <2>2, <2>3 DEF entry, LinkableNext, CompleteNext, Linkable, Complete, Locked, Inserts
  <2>7. (0 <= level[t] /\ level[t] <= maxlevelcopy[t] /\ level[t] <= curlevel(t))'
    BY <1>1, <1>3, <2>1 DEF entry
  <2>8. pc'[t] = "connect"
    BY <1>1, <1>2
  <2> QED BY <2>1, <2>5, <2>6, <2>7, <2>8 DEF ThreadOK
<1> QED BY <1>4, <1>5, <1>7, <1>8, <1>9, QuietGlobal, AloneKeeps

\* A new element: its slot is untouched and nobody names it.
LEMMA RegisterKeeps ==
  ASSUME InsertInv, NEW t \in Threads, Register(t)
  PROVE  InsertInv'
<1>1. /\ TypeOK /\ VectorsOK /\ OwnOK /\ GlobalOK /\ EntryOK /\ FreshOK /\ ListsSound
      /\ UnpublishedOK /\ NeverThrown /\ pc[t] = "idle" /\ count < max_elements_
      /\ cur_c' = [cur_c EXCEPT ![t] = count]
      /\ count' = count + 1
      /\ pc' = [pc EXCEPT ![t] = "enter"]
      /\ UNCHANGED <<links, deleted, maxlevel_, enterpoint_node_, global, entry, level, beam, rest>>
  BY DEF InsertInv, Register
<1>2. PICK p \in todo, h \in Heights :
        /\ todo' = todo \ {p}
        /\ data' = [data EXCEPT ![count] = p]
        /\ element_levels_' = [element_levels_ EXCEPT ![count] = h]
  BY DEF Register
<1>3. count \in Nat /\ count \in Slots /\ max_elements_ \in Nat /\ 0 .. count - 1 \subseteq Slots
  BY <1>1, ConstantsAssumption DEF TypeOK, Slots
<1>4. /\ cur_c'[t] = count /\ pc'[t] = "enter"
      /\ \A u \in Threads \ {t} : cur_c'[u] = cur_c[u] /\ pc'[u] = pc[u]
      /\ \A n \in 0 .. count - 1 : element_levels_'[n] = element_levels_[n] /\ data'[n] = data[n]
      /\ data'[count] = p
  BY <1>1, <1>2, <1>3 DEF TypeOK
<1>5. TypeOK'
  <2>1. count' \in 0 .. max_elements_
    BY <1>1, <1>3
  <2>2. p \in Int
    BY <1>1, <1>2, ConstantsAssumption DEF TypeOK
  <2>3. /\ data' \in [Slots -> Int] /\ element_levels_' \in [Slots -> Heights]
        /\ cur_c' \in [Threads -> {NoEntry} \cup Slots] /\ pc' \in [Threads -> Steps]
        /\ todo' \subseteq NewPoints
    BY <1>1, <1>2, <1>3, <2>2 DEF TypeOK, Steps
  <2> QED BY <1>1, <2>1, <2>3 DEF TypeOK, entry, beam
<1>6. VectorsOK'
  <2>1. PICK ix \in Indexes : /\ ix.count <= count
                              /\ \A n \in Slots : IF n \in Ids(ix) THEN data[n] = ix.data[n]
                                                  ELSE data[n] \in NewPoints \cup {0}
    BY <1>1 DEF VectorsOK
  <2>2. ix.count \in Int
    BY <2>1, IndexesAssumption DEF WellFormed
  <2>3. ix.count <= count' /\ count \notin Ids(ix)
    BY <1>1, <1>3, <2>1, <2>2 DEF Ids
  <2>4. \A n \in Slots : data'[n] = IF n = count THEN p ELSE data[n]
    BY <1>1, <1>2 DEF TypeOK
  <2>5. p \in NewPoints
    BY <1>1, <1>2 DEF TypeOK
  <2>6. \A n \in Slots : IF n \in Ids(ix) THEN data'[n] = ix.data[n]
                         ELSE data'[n] \in NewPoints \cup {0}
    BY <2>1, <2>3, <2>4, <2>5
  <2> QED BY <2>3, <2>6 DEF VectorsOK
<1>7. OwnOK'
  <2>1. ASSUME NEW u \in Threads, pc'[u] # "idle"
        PROVE  cur_c'[u] \in 0 .. count /\ (u # t => cur_c'[u] \in 0 .. count - 1)
    BY <1>1, <1>3, <1>4, <2>1 DEF OwnOK
  <2>2. ASSUME NEW u \in Threads, NEW w \in Threads, u # w, pc'[u] # "idle", pc'[w] # "idle"
        PROVE  cur_c'[u] # cur_c'[w]
    <3>1. CASE u # t /\ w # t
      BY <1>1, <1>4, <2>2, <3>1 DEF OwnOK
    <3>2. CASE u = t \/ w = t
      <4>1. count \notin 0 .. count - 1
        BY <1>3
      <4> QED BY <1>4, <2>1, <2>2, <3>2, <4>1
    <3> QED BY <3>1, <3>2
  <2> QED BY <1>1, <1>3, <2>1, <2>2 DEF OwnOK
<1>8. GlobalOK'
  <2>1. global # t /\ NoThread \notin Threads
    BY <1>1, ConstantsAssumption DEF GlobalOK
  <2>2. \A u \in Threads \ {t} : pc[u] # "idle" => curlevel(u)' = curlevel(u)
    BY <1>1, <1>4 DEF curlevel, OwnOK
  <2>3. (global # NoThread => /\ pc[global] \notin {"idle", "enter"}
                              /\ curlevel(global) > maxlevelcopy[global])'
    BY <1>1, <1>4, <2>1, <2>2 DEF GlobalOK, TypeOK, entry
  <2>4. ASSUME NEW w \in Threads
        PROVE  (pc[w] \notin {"idle", "enter"} =>
                  /\ maxlevelcopy[w] <= maxlevel_
                  /\ curlevel(w) > maxlevelcopy[w] => global = w /\ maxlevelcopy[w] = maxlevel_)'
    <3>1. CASE w = t
      BY <1>4, <3>1
    <3>2. CASE w # t
      BY <1>1, <1>4, <2>2, <3>2 DEF GlobalOK, entry
    <3> QED BY <3>1, <3>2
  <2> QED BY <2>3, <2>4 DEF GlobalOK
<1>9. Onward
  <2>1. ASSUME NEW w \in Threads, NEW n \in 0 .. count - 1,
               pc'[w] \notin {"idle", "thrown"}, cur_c'[w] = n
        PROVE  Inserts(w, n) /\ \A l \in Heights : Past(w, l) => PastNext(w, l)
    <3>1. w # t
      BY <1>3, <1>4, <2>1
    <3> QED BY <1>1, <1>4, <2>1, <3>1 DEF Inserts, Past, PastNext
  <2> QED BY <1>1, <1>3, <1>4, <2>1 DEF Onward
<1>10. EntryOK'
  <2>1. maxlevel_ # -1 => /\ CompleteNext(enterpoint_node_)
                          /\ element_levels_'[enterpoint_node_] = maxlevel_
    <3>1. maxlevel_ # -1 => /\ Complete(enterpoint_node_)
                            /\ element_levels_[enterpoint_node_] = maxlevel_
      BY <1>1 DEF EntryOK
    <3> QED BY <1>1, <1>4, <1>9, <3>1, FactsKeep DEF Complete
  <2>2. ASSUME NEW n \in 0 .. count
        PROVE  \/ element_levels_'[n] <= maxlevel_
               \/ \E w \in Threads : cur_c'[w] = n /\ (pc'[w] = "enter" \/ global' = w)
    <3>1. CASE n = count
      BY <1>4, <3>1
    <3>2. CASE n # count
      <4>1. n \in 0 .. count - 1
        BY <1>3, <3>2
      <4>2. CASE element_levels_[n] <= maxlevel_
        BY <1>4, <4>1, <4>2
      <4>3. CASE \E w \in Threads : cur_c[w] = n /\ (pc[w] = "enter" \/ global = w)
        <5>1. PICK w \in Threads : cur_c[w] = n /\ (pc[w] = "enter" \/ global = w)
          BY <4>3
        <5>2. w # t
          BY <1>1, <5>1, ConstantsAssumption DEF GlobalOK
        <5> QED BY <1>1, <1>4, <5>1, <5>2
      <4> QED BY <1>1, <4>1, <4>2, <4>3 DEF EntryOK
    <3> QED BY <3>1, <3>2
  <2>3. 0 .. count' - 1 = 0 .. count
    BY <1>1, <1>3
  <2>4. (maxlevel_ # -1 => /\ Complete(enterpoint_node_)
                           /\ element_levels_[enterpoint_node_] = maxlevel_)'
    BY <1>1, <2>1 DEF CompleteNext, Complete, Locked, Inserts
  <2>5. (maxlevel_ = -1 => enterpoint_node_ = NoEntry)'
    BY <1>1 DEF EntryOK
  <2>6. (\A n \in 0 .. count - 1 :
           \/ element_levels_[n] <= maxlevel_
           \/ \E w \in Threads : cur_c[w] = n /\ (pc[w] = "enter" \/ global = w))'
    BY <1>1, <2>2, <2>3
  <2> QED BY <2>4, <2>5, <2>6 DEF EntryOK
<1>11. FreshOK'
  BY <1>1, <1>3, ConstantsAssumption DEF FreshOK, Slots
<1>12. ListsSound'
  <2>1. ASSUME NEW l \in Heights, NEW n \in Slots, NEW c \in links[l][n]
        PROVE  c < count + 1 /\ c # n /\ element_levels_'[c] >= l
    <3>1. c \in Slots /\ c < count /\ c # n /\ element_levels_[c] >= l
      BY <1>1, <2>1 DEF ListsSound, TypeOK
    <3>2. c \in 0 .. count - 1
      BY <1>3, <3>1 DEF Slots
    <3> QED BY <1>3, <1>4, <3>1, <3>2 DEF Slots
  <2> QED BY <1>1, <2>1 DEF ListsSound
<1>13. UnpublishedOK'
  <2>1. ASSUME NEW u \in Threads, NEW l \in Heights, Unpublished(u, l)'
        PROVE  links[l][cur_c'[u]] = {} /\ \A n \in Slots : cur_c'[u] \notin links[l][n]
    <3>1. CASE u = t
      <4>1. links[l][count] = {}
        BY <1>1, <1>3 DEF FreshOK
      <4>2. \A n \in Slots : count \notin links[l][n]
        BY <1>1, <1>3 DEF ListsSound
      <4> QED BY <1>4, <3>1, <4>1, <4>2
    <3>2. CASE u # t
      <4>1. Unpublished(u, l)
        BY <1>1, <1>4, <2>1, <3>2 DEF Unpublished
      <4> QED BY <1>1, <1>4, <3>2, <4>1 DEF UnpublishedOK
    <3> QED BY <3>1, <3>2
  <2> QED BY <1>1, <2>1 DEF UnpublishedOK
<1>14. NeverThrown'
  BY <1>1, <1>4 DEF NeverThrown
<1>15. ASSUME NEW u \in Threads PROVE ThreadOK(u)'
  <2>1. CASE u = t
    BY <1>4, <2>1 DEF ThreadOK
  <2>2. CASE u # t
    <3>1. Same(u)
      BY <1>1, <1>4, <2>2 DEF Same, entry, beam
    <3> QED BY <1>1, <1>9, <3>1, OthersKeep DEF InsertInv
  <2> QED BY <2>1, <2>2
<1> QED
  BY <1>5, <1>6, <1>7, <1>8, <1>10, <1>11, <1>12, <1>13, <1>14, <1>15 DEF InsertInv

\* The element becomes complete, and perhaps the entry point.
LEMMA FinishKeeps ==
  ASSUME InsertInv, NEW t \in Threads, Finish(t)
  PROVE  InsertInv'
<1> DEFINE raises == curlevel(t) > maxlevelcopy[t]
<1>1. /\ TypeOK /\ VectorsOK /\ OwnOK /\ GlobalOK /\ EntryOK /\ FreshOK /\ ListsSound
      /\ UnpublishedOK /\ NeverThrown /\ pc[t] = "finish"
      /\ IF raises THEN enterpoint_node_' = cur_c[t] /\ maxlevel_' = curlevel(t)
         ELSE UNCHANGED <<enterpoint_node_, maxlevel_>>
      /\ global' = IF global = t THEN NoThread ELSE global
      /\ pc' = [pc EXCEPT ![t] = "idle"]
      /\ cur_c' = [cur_c EXCEPT ![t] = NoEntry]
      /\ maxlevelcopy' = [maxlevelcopy EXCEPT ![t] = -1]
      /\ currObj' = [currObj EXCEPT ![t] = NoEntry]
      /\ enterpoint_copy' = [enterpoint_copy EXCEPT ![t] = NoEntry]
      /\ epDeleted' = [epDeleted EXCEPT ![t] = FALSE]
      /\ level' = [level EXCEPT ![t] = 0]
      /\ UNCHANGED <<count, element_levels_, data, links, deleted, todo, beam, rest>>
  BY DEF InsertInv, Finish
<1>2. /\ pc'[t] = "idle"
      /\ \A u \in Threads \ {t} : Same(u)
  BY <1>1 DEF TypeOK, Same, beam
<1>3. /\ count \in Nat /\ cur_c[t] \in Slots /\ cur_c[t] \in 0 .. count - 1
      /\ curlevel(t) \in Heights /\ curlevel(t) \in Int /\ curlevel(t) >= 0
      /\ maxlevelcopy[t] \in Int /\ maxlevel_ \in Int
  BY <1>1, NumberFacts
<1>4. raises => global = t /\ maxlevelcopy[t] = maxlevel_ /\ curlevel(t) > maxlevel_
  BY <1>1 DEF GlobalOK
<1>5. TypeOK'
  <2>1. 0 \in Heights
    BY ConstantsAssumption DEF Heights
  <2>2. maxlevel_' \in {-1} \cup Heights /\ enterpoint_node_' \in {NoEntry} \cup Slots
    BY <1>1, <1>3 DEF TypeOK
  <2>3. /\ pc' \in [Threads -> Steps] /\ cur_c' \in [Threads -> {NoEntry} \cup Slots]
        /\ maxlevelcopy' \in [Threads -> {-1} \cup Heights]
        /\ currObj' \in [Threads -> {NoEntry} \cup Slots]
        /\ enterpoint_copy' \in [Threads -> {NoEntry} \cup Slots]
        /\ epDeleted' \in [Threads -> BOOLEAN] /\ level' \in [Threads -> {-1} \cup Heights]
    BY <1>1, <2>1 DEF TypeOK, Steps
  <2>4. global' \in Threads \cup {NoThread}
    BY <1>1 DEF TypeOK
  <2> QED BY <1>1, <2>2, <2>3, <2>4 DEF TypeOK, beam
<1>6. VectorsOK'
  BY <1>1 DEF VectorsOK
<1>7. OwnOK'
  BY <1>1, <1>2 DEF OwnOK, Same
<1>8. \A u \in Threads \ {t} : curlevel(u)' = curlevel(u)
  BY <1>1, <1>2 DEF curlevel, Same
<1>9. GlobalOK'
  <2>1. (global # NoThread => /\ pc[global] \notin {"idle", "enter"}
                              /\ curlevel(global) > maxlevelcopy[global])'
    <3> SUFFICES ASSUME global' # NoThread
                 PROVE  (/\ pc[global] \notin {"idle", "enter"}
                         /\ curlevel(global) > maxlevelcopy[global])'
      OBVIOUS
    <3>1. global' = global /\ global \in Threads \ {t}
      BY <1>1 DEF TypeOK
    <3> QED BY <1>1, <1>2, <1>8, <3>1 DEF GlobalOK, Same
  <2>2. ASSUME NEW w \in Threads, pc'[w] \notin {"idle", "enter"}
        PROVE  (/\ maxlevelcopy[w] <= maxlevel_
                /\ curlevel(w) > maxlevelcopy[w] => global = w /\ maxlevelcopy[w] = maxlevel_)'
    <3>1. w # t /\ pc[w] \notin {"idle", "enter"}
      BY <1>2, <2>2 DEF Same
    <3>2. maxlevelcopy[w] <= maxlevel_ /\ maxlevelcopy[w] \in Int
      BY <1>1, <3>1, NumberFacts DEF GlobalOK
    <3>3. maxlevelcopy'[w] <= maxlevel_'
      BY <1>1, <1>2, <1>3, <1>4, <3>1, <3>2 DEF Same
    <3>4. ASSUME curlevel(w) > maxlevelcopy[w]
          PROVE  global' = w /\ maxlevelcopy[w] = maxlevel_'
      <4>1. global = w /\ maxlevelcopy[w] = maxlevel_
        BY <1>1, <3>1, <3>4 DEF GlobalOK
      <4> QED BY <1>1, <1>4, <3>1, <4>1
    <3> QED BY <1>2, <1>8, <3>1, <3>3, <3>4 DEF Same
  <2> QED BY <2>1, <2>2 DEF GlobalOK
<1>10. Onward
  <2>1. ASSUME NEW w \in Threads, NEW n \in 0 .. count - 1,
               pc'[w] \notin {"idle", "thrown"}, cur_c'[w] = n
        PROVE  Inserts(w, n) /\ \A l \in Heights : Past(w, l) => PastNext(w, l)
    <3>1. w # t
      BY <1>2, <2>1
    <3> QED BY <1>2, <2>1, <3>1 DEF Same, Inserts, Past, PastNext
  <2> QED BY <1>1, <1>3, <2>1 DEF Onward
<1>11. EntryOK'
  <2>1. CASE raises
    <3>1. enterpoint_node_' = cur_c[t] /\ maxlevel_' = curlevel(t) /\ global = t
      BY <1>1, <1>4, <2>1
    <3>2. CompleteNext(cur_c[t])
      <4>1. ASSUME NEW w \in Threads, pc'[w] \notin {"idle", "thrown"}
            PROVE  cur_c'[w] # cur_c[t]
        <5>1. w # t
          BY <1>2, <4>1
        <5> QED BY <1>1, <1>2, <4>1, <5>1 DEF OwnOK, Same
      <4> QED BY <1>1, <1>3, <4>1 DEF CompleteNext
    <3>3. element_levels_'[cur_c[t]] = curlevel(t)
      BY <1>1 DEF curlevel
    <3>4. (Complete(enterpoint_node_) /\ element_levels_[enterpoint_node_] = maxlevel_)'
      BY <3>1, <3>2, <3>3 DEF CompleteNext, Complete, Locked, Inserts
    <3>5. ASSUME NEW n \in 0 .. count - 1
          PROVE  \/ element_levels_[n] <= maxlevel_'
                 \/ \E w \in Threads : cur_c'[w] = n /\ (pc'[w] = "enter" \/ global' = w)
      <4>1. n \in Slots /\ element_levels_[n] \in Int
        <5>1. n \in Slots
          BY <1>1, ConstantsAssumption DEF TypeOK, Slots
        <5> QED BY <1>1, <5>1 DEF TypeOK, Heights
      <4>2. CASE element_levels_[n] <= maxlevel_
        BY <1>3, <1>4, <2>1, <3>1, <4>1, <4>2
      <4>3. CASE \E w \in Threads : cur_c[w] = n /\ (pc[w] = "enter" \/ global = w)
        <5>1. PICK w \in Threads : cur_c[w] = n /\ (pc[w] = "enter" \/ global = w)
          BY <4>3
        <5>2. CASE w = t
          <6>1. element_levels_[n] = maxlevel_'
            BY <3>1, <5>1, <5>2 DEF curlevel
          <6> QED BY <3>1, <4>1, <6>1
        <5>3. CASE w # t
          BY <1>2, <3>1, <5>1, <5>3 DEF Same
        <5> QED BY <5>2, <5>3
      <4> QED BY <1>1, <4>2, <4>3 DEF EntryOK
    <3>6. maxlevel_' # -1
      BY <1>3, <3>1
    <3> QED BY <1>1, <3>4, <3>5, <3>6 DEF EntryOK
  <2>2. CASE ~ raises
    <3>1. UNCHANGED <<enterpoint_node_, maxlevel_>>
      BY <1>1, <2>2
    <3>2. global # t
      BY <1>1, <2>2, ConstantsAssumption DEF GlobalOK
    <3>3. maxlevel_ # -1 => /\ CompleteNext(enterpoint_node_)
                            /\ element_levels_[enterpoint_node_] = maxlevel_
      BY <1>1, <1>10, FactsKeep DEF EntryOK
    <3>4. (maxlevel_ # -1 => /\ Complete(enterpoint_node_)
                             /\ element_levels_[enterpoint_node_] = maxlevel_)'
      BY <1>1, <3>1, <3>3 DEF CompleteNext, Complete, Locked, Inserts
    <3>5. ASSUME NEW n \in 0 .. count - 1
          PROVE  \/ element_levels_[n] <= maxlevel_
                 \/ \E w \in Threads : cur_c'[w] = n /\ (pc'[w] = "enter" \/ global' = w)
      <4>1. CASE \E w \in Threads : cur_c[w] = n /\ (pc[w] = "enter" \/ global = w)
        <5>1. PICK w \in Threads : cur_c[w] = n /\ (pc[w] = "enter" \/ global = w)
          BY <4>1
        <5>2. w # t
          BY <1>1, <3>2, <5>1
        <5> QED BY <1>1, <1>2, <5>1, <5>2 DEF Same
      <4> QED BY <1>1, <4>1 DEF EntryOK
    <3>6. (maxlevel_ = -1 => enterpoint_node_ = NoEntry)'
      BY <1>1, <3>1 DEF EntryOK
    <3> QED BY <1>1, <3>1, <3>4, <3>5, <3>6 DEF EntryOK
  <2> QED BY <2>1, <2>2
<1>12. FreshOK' /\ ListsSound'
  BY <1>1 DEF FreshOK, ListsSound
<1>13. UnpublishedOK'
  <2>1. ASSUME NEW u \in Threads, NEW l \in Heights, Unpublished(u, l)'
        PROVE  links[l][cur_c'[u]] = {} /\ \A n \in Slots : cur_c'[u] \notin links[l][n]
    <3>1. u # t
      BY <1>2, <2>1 DEF Unpublished
    <3>2. Unpublished(u, l) /\ cur_c'[u] = cur_c[u]
      BY <1>2, <2>1, <3>1 DEF Unpublished, Same
    <3> QED BY <1>1, <3>2 DEF UnpublishedOK
  <2> QED BY <1>1, <2>1 DEF UnpublishedOK
<1>14. NeverThrown'
  BY <1>1, <1>2 DEF NeverThrown, Same
<1>15. ASSUME NEW u \in Threads PROVE ThreadOK(u)'
  <2>1. CASE u = t
    BY <1>2, <2>1 DEF ThreadOK
  <2>2. CASE u # t
    BY <1>1, <1>2, <1>10, <2>2, OthersKeep DEF InsertInv
  <2> QED BY <2>1, <2>2
<1> QED
  BY <1>5, <1>6, <1>7, <1>9, <1>11, <1>12, <1>13, <1>14, <1>15 DEF InsertInv

\* The points still to be added and the marks are nothing that InsertInv is
\* about.
LEMMA MarksKeep ==
  ASSUME InsertInv,
         UNCHANGED <<count, element_levels_, data, links, maxlevel_, enterpoint_node_, global, pc,
                     cur_c, maxlevelcopy, currObj, enterpoint_copy, epDeleted, level, cand, visited,
                     top, rest>>,
         todo' \subseteq NewPoints, deleted' \subseteq Slots
  PROVE  InsertInv'
<1>1. TypeOK'
  BY DEF InsertInv, TypeOK
<1>2. VectorsOK' /\ OwnOK' /\ FreshOK' /\ ListsSound' /\ NeverThrown'
  BY DEF InsertInv, VectorsOK, OwnOK, FreshOK, ListsSound, NeverThrown
<1>3. GlobalOK'
  BY DEF InsertInv, GlobalOK, curlevel
<1>4. EntryOK'
  BY DEF InsertInv, EntryOK, Complete, Locked, Inserts
<1>5. UnpublishedOK'
  BY DEF InsertInv, UnpublishedOK, Unpublished
<1>6. ASSUME NEW u \in Threads PROVE ThreadOK(u)'
  <2>1. Onward /\ Same(u)
    <3>1. count \in Nat
      BY ConstantsAssumption DEF InsertInv, TypeOK
    <3> QED BY <3>1 DEF Onward, Same, Inserts, Past, PastNext
  <2> QED BY <2>1, OthersKeep DEF InsertInv
<1> QED BY <1>1, <1>2, <1>3, <1>4, <1>5, <1>6 DEF InsertInv

\* A refused point, a mark that changes, and the end.
LEMMA AsidesKeep ==
  ASSUME InsertInv,
         \/ \E t \in Threads : Refuse(t)
         \/ \E n \in Toggled : Toggle(n)
         \/ UNCHANGED vars
  PROVE  InsertInv'
<1>1. /\ UNCHANGED <<count, element_levels_, data, links, maxlevel_, enterpoint_node_, global, pc,
                     cur_c, maxlevelcopy, currObj, enterpoint_copy, epDeleted, level, cand, visited,
                     top, rest>>
      /\ todo' \subseteq NewPoints /\ deleted' \subseteq Slots
  <2>1. CASE \E t \in Threads : Refuse(t)
    BY <2>1 DEF Refuse, InsertInv, TypeOK, index, entry, beam
  <2>2. CASE \E n \in Toggled : Toggle(n)
    <3>1. PICK n \in Toggled : Toggle(n)
      BY <2>2
    <3>2. n \in Slots
      BY ConstantsAssumption
    <3> QED BY <3>1, <3>2 DEF Toggle, InsertInv, TypeOK, entry, beam
  <2>3. CASE UNCHANGED vars
    BY <2>3 DEF vars, InsertInv, TypeOK, index, entry, beam
  <2> QED BY <2>1, <2>2, <2>3
<1> QED BY <1>1, MarksKeep

-------------------------------------------------------------------------------
(* The theorems *)

\* Insertion starts from an index without elements or from a sound one, with
\* no thread at work.
LEMMA InitInv ==
  Init => InsertInv
<1> SUFFICES ASSUME Init PROVE InsertInv
  OBVIOUS
<1>1. PICK ix \in Indexes :
        /\ count = ix.count
        /\ element_levels_ = [n \in Slots |-> IF n \in Ids(ix) THEN ix.element_levels_[n] ELSE 0]
        /\ data = [n \in Slots |-> IF n \in Ids(ix) THEN ix.data[n] ELSE 0]
        /\ links = [l \in Heights |-> [n \in Slots |->
                      IF n \in Ids(ix) /\ l <= ix.maxlevel_ THEN ix.links[l][n] ELSE {}]]
        /\ deleted = ix.deleted
        /\ maxlevel_ = ix.maxlevel_
        /\ enterpoint_node_ = ix.enterpoint_node_
  BY DEF Init
<1>2. /\ \A t \in Threads : pc[t] = "idle"
      /\ global = NoThread
  BY DEF Init
<1>3. /\ ix.count <= max_elements_
      /\ \/ ix.count = 0 /\ ix.deleted = {} /\ ix.maxlevel_ = -1 /\ ix.enterpoint_node_ = NoEntry
         \/ WellFormed(ix, M) /\ ix.maxlevel_ <= MaxLevel
  BY IndexesAssumption
<1>4. /\ count \in 0 .. max_elements_ /\ Ids(ix) = 0 .. count - 1 /\ Ids(ix) \subseteq Slots
      /\ max_elements_ \in Nat /\ count \in Nat
  <2>1. ix.count \in Nat
    BY <1>3 DEF WellFormed
  <2> QED BY <1>1, <1>3, <2>1, ConstantsAssumption DEF Ids, Slots
<1>5. /\ \A l \in Heights : Mcurmax(M, l) \in Nat
      /\ MaxLevel \in Nat /\ M \in Nat
  BY ConstantsAssumption DEF Mcurmax
\* What is asked of the index, for the two kinds
<1>6. /\ element_levels_ \in [Slots -> Heights]
      /\ data \in [Slots -> Int]
      /\ links \in [Heights -> [Slots -> SUBSET Slots]]
      /\ deleted \subseteq Slots
      /\ maxlevel_ \in {-1} \cup Heights
      /\ enterpoint_node_ \in {NoEntry} \cup Slots
      /\ FreshOK /\ ListsSound
      /\ maxlevel_ = -1 => enterpoint_node_ = NoEntry
      /\ maxlevel_ # -1 => /\ enterpoint_node_ \in 0 .. count - 1
                           /\ element_levels_[enterpoint_node_] = maxlevel_
      /\ \A n \in 0 .. count - 1 : element_levels_[n] <= maxlevel_
  <2>1. CASE ix.count = 0 /\ ix.deleted = {} /\ ix.maxlevel_ = -1 /\ ix.enterpoint_node_ = NoEntry
    <3>1. Ids(ix) = {}
      BY <1>4, <1>1, <2>1
    <3>2. /\ element_levels_ = [n \in Slots |-> 0]
          /\ data = [n \in Slots |-> 0]
          /\ links = [l \in Heights |-> [n \in Slots |-> {}]]
      BY <1>1, <3>1
    <3>3. FreshOK
      BY <3>2 DEF FreshOK
    <3>4. ListsSound
      BY <3>2, <1>5, FS_EmptySet DEF ListsSound
    <3>5. 0 \in Heights
      BY <1>5 DEF Heights
    <3> QED BY <1>1, <1>4, <2>1, <3>1, <3>2, <3>3, <3>4, <3>5
  <2>2. CASE WellFormed(ix, M) /\ ix.maxlevel_ <= MaxLevel
    <3>1. /\ ix.maxlevel_ \in Nat /\ ix.maxlevel_ \in Heights
          /\ ix.element_levels_ \in [Ids(ix) -> 0 .. ix.maxlevel_]
          /\ ix.data \in [Ids(ix) -> Int]
          /\ ix.deleted \in SUBSET Ids(ix)
          /\ ix.enterpoint_node_ \in Ids(ix)
          /\ ix.element_levels_[ix.enterpoint_node_] = ix.maxlevel_
          /\ ix.links \in [0 .. ix.maxlevel_ -> [Ids(ix) -> SUBSET Ids(ix)]]
          /\ 0 .. ix.maxlevel_ \subseteq Heights
      BY <2>2, <1>5 DEF WellFormed, Heights
    <3>2. /\ element_levels_ \in [Slots -> Heights]
          /\ \A n \in Ids(ix) : /\ element_levels_[n] = ix.element_levels_[n]
                                /\ element_levels_[n] <= maxlevel_
      <4>1. \A n \in Ids(ix) : /\ ix.element_levels_[n] \in Heights
                                /\ ix.element_levels_[n] <= ix.maxlevel_
        BY <3>1
      <4>2. 0 \in Heights
        BY <1>5 DEF Heights
      <4>3. element_levels_ \in [Slots -> Heights]
        BY <1>1, <4>1, <4>2
      <4>4. \A n \in Ids(ix) : element_levels_[n] = ix.element_levels_[n]
        BY <1>1, <1>4
      <4> QED BY <1>1, <4>1, <4>3, <4>4
    <3>3. data \in [Slots -> Int]
      <4>1. \A n \in Ids(ix) : ix.data[n] \in Int
        BY <3>1
      <4> QED BY <1>1, <4>1
    <3>4. ASSUME NEW l \in Heights, NEW n \in Slots
          PROVE  /\ links[l][n] = IF n \in Ids(ix) /\ l <= ix.maxlevel_ THEN ix.links[l][n] ELSE {}
                 /\ n \in Ids(ix) /\ l <= ix.maxlevel_ => l \in 0 .. ix.maxlevel_
      BY <1>1, <1>5, <3>1 DEF Heights
    <3>5. ASSUME NEW l \in Heights, NEW n \in Slots
          PROVE  links[l][n] \subseteq Slots
      BY <1>4, <3>1, <3>4, SMTT(30)
    <3>6. links \in [Heights -> [Slots -> SUBSET Slots]]
      BY <1>1, <3>5
    <3>7. ASSUME NEW l \in Heights, NEW n \in Slots
          PROVE  /\ Cardinality(links[l][n]) <= Mcurmax(M, l)
                 /\ \A c \in links[l][n] : c < count /\ c # n /\ element_levels_[c] >= l
      <4>1. CASE n \in Ids(ix) /\ l <= ix.maxlevel_
        <5>1. l \in 0 .. ix.maxlevel_ /\ links[l][n] = ix.links[l][n]
          BY <3>4, <4>1
        <5>2. /\ \A c \in ix.links[l][n] : c # n /\ ix.element_levels_[c] >= l
              /\ Cardinality(ix.links[l][n]) <= Mcurmax(M, l)
          BY <2>2, <4>1, <5>1 DEF WellFormed
        <5>3. ix.links[l][n] \subseteq Ids(ix)
          BY <3>1, <4>1, <5>1
        <5> QED BY <1>4, <3>2, <5>1, <5>2, <5>3
      <4>2. CASE ~ (n \in Ids(ix) /\ l <= ix.maxlevel_)
        <5>1. links[l][n] = {}
          BY <3>4, <4>2
        <5> QED BY <1>5, <5>1, FS_EmptySet
      <4> QED BY <4>1, <4>2
    <3>8. ListsSound
      BY <3>7 DEF ListsSound
    <3>9. FreshOK
      BY <1>4, <3>4 DEF FreshOK
    <3> QED BY <1>1, <1>4, <3>1, <3>2, <3>3, <3>6, <3>8, <3>9, SMTT(30)
  <2> QED BY <1>3, <2>1, <2>2
<1>7. TypeOK
  <2>1. 0 \in Heights
    BY <1>5 DEF Heights
  <2>2. /\ global \in Threads \cup {NoThread} /\ todo \subseteq NewPoints
        /\ pc \in [Threads -> Steps]
        /\ cur_c \in [Threads -> {NoEntry} \cup Slots]
        /\ maxlevelcopy \in [Threads -> {-1} \cup Heights]
        /\ currObj \in [Threads -> {NoEntry} \cup Slots]
        /\ enterpoint_copy \in [Threads -> {NoEntry} \cup Slots]
        /\ epDeleted \in [Threads -> BOOLEAN]
        /\ level \in [Threads -> {-1} \cup Heights]
    BY <2>1 DEF Init, Steps
  <2>3. /\ cand \in [Threads -> SUBSET Slots] /\ visited \in [Threads -> SUBSET Slots]
        /\ top \in [Threads -> SUBSET Slots] /\ rest \in [Threads -> SUBSET Slots]
    BY DEF Init
  <2> QED BY <1>4, <1>6, <2>2, <2>3 DEF TypeOK
<1>8. VectorsOK
  <2>1. \A n \in Slots : IF n \in Ids(ix) THEN data[n] = ix.data[n] ELSE data[n] \in NewPoints \cup {0}
    BY <1>1
  <2> QED BY <1>1, <1>4, <2>1 DEF VectorsOK
<1>9. OwnOK /\ GlobalOK /\ NeverThrown /\ \A t \in Threads : ThreadOK(t)
  BY <1>2 DEF OwnOK, GlobalOK, NeverThrown, ThreadOK
<1>10. EntryOK
  BY <1>2, <1>6 DEF EntryOK, Complete, Locked, Inserts
<1>11. UnpublishedOK
  BY <1>2 DEF UnpublishedOK, Unpublished
<1> QED BY <1>6, <1>7, <1>8, <1>9, <1>10, <1>11 DEF InsertInv

\* Every step of any thread keeps the invariant that carries all others.
LEMMA InsertStep ==
  ASSUME InsertInv, [Next]_vars
  PROVE  InsertInv'
<1>1. ASSUME NEW t \in Threads, Worker(t) PROVE InsertInv'
  BY <1>1, RegisterKeeps, AsidesKeep, EnterGlobalKeeps, ReadEntryKeeps, CopyEntryKeeps,
     DescendKeeps, BeginLevelsKeeps, StartSearchKeeps, ExpandKeeps, WriteOwnListKeeps,
     ConnectNeighborKeeps, NextLevelKeeps, FinishKeeps DEF Worker
<1>2. ASSUME NEW n \in Toggled, Toggle(n) PROVE InsertInv'
  BY <1>2, AsidesKeep
<1>3. CASE UNCHANGED vars
  BY <1>3, AsidesKeep
<1> QED BY <1>1, <1>2, <1>3 DEF Next, Added

\* The invariant holds throughout any concurrent insertion.
THEOREM InsertInvariant ==
  Spec => []InsertInv
<1>1. InsertInv /\ [Next]_vars => InsertInv'
  BY InsertStep
<1> QED BY InitInv, <1>1, PTL DEF Spec

\* Every variable keeps its type: no id is handed out beyond max_elements_
\* (cur_element_count), and no level beyond the highest drawn.
THEOREM TypeCorrect ==
  Spec => []TypeOK
<1>1. InsertInv => TypeOK
  BY DEF InsertInv
<1> QED BY InsertInvariant, <1>1, PTL

\* At any moment of any concurrent insertion, every list is within its capacity,
\* without its owner, and names registered elements that exist on its level
\* only.  checkIntegrity asserts more, see ListsSound.
THEOREM ListsAlwaysSound ==
  Spec => []ListsSound
<1>1. InsertInv => ListsSound
  BY DEF InsertInv
<1> QED BY InsertInvariant, <1>1, PTL

\* addPoint, searchBaseLayer and mutuallyConnectNewElement never throw one of
\* their exceptions about a corrupt graph, whatever the interleaving.
THEOREM NoCorruptGraphReported ==
  Spec => []NeverThrown
<1>1. InsertInv => NeverThrown
  BY DEF InsertInv
<1> QED BY InsertInvariant, <1>1, PTL

\* While `global' is free, the entry point is a complete element of the
\* highest level.
THEOREM EntryPointAlwaysOnTop ==
  Spec => []EntryPointOnTop
<1>1. InsertInv => EntryPointOnTop
  <2> SUFFICES ASSUME InsertInv, global = NoThread
               PROVE  /\ IF maxlevel_ = -1 THEN enterpoint_node_ = NoEntry
                         ELSE /\ enterpoint_node_ \in 0 .. count - 1
                              /\ element_levels_[enterpoint_node_] = maxlevel_
                              /\ ~ Locked(enterpoint_node_)
                      /\ \A n \in 0 .. count - 1 :
                           \/ element_levels_[n] <= maxlevel_
                           \/ \E t \in Threads : pc[t] = "enter" /\ cur_c[t] = n
    BY DEF EntryPointOnTop
  <2>1. \A t \in Threads : global # t
    BY ConstantsAssumption
  <2> QED BY <2>1 DEF InsertInv, EntryOK, Complete
<1> QED BY InsertInvariant, <1>1, PTL

\* A thread waits for the lock of another element only while the insertion of
\* that element is ahead of its own.
THEOREM LocksAlwaysOrdered ==
  Spec => []LockOrder
<1>1. InsertInv => LockOrder
  <2> SUFFICES ASSUME InsertInv, NEW t \in Threads, NEW u \in Threads, NEW n \in Slots,
                      t # u, Wants(t, n), Inserts(u, n)
               PROVE  pc[u] \notin {"enter", "entry", "copy", "descend"} /\ Before(u, t)
    BY DEF LockOrder
  <2>1. /\ ThreadOK(t) /\ ThreadOK(u) /\ level[t] \in Int /\ level[u] \in Int
    BY ConstantsAssumption DEF InsertInv, TypeOK, Heights
  <2>2. Locked(n) /\ ~ Complete(n)
    BY DEF Locked, Complete
  <2>3. CASE pc[t] = "connect" /\ n \in rest[t]
    BY <2>1, <2>2, <2>3 DEF ThreadOK, Linkable
  <2>4. CASE pc[t] \in {"descend", "search"} /\ Seen(n, level[t])
    <3>1. Past(u, level[t])
      BY <2>4 DEF Seen
    <3> QED BY <2>1, <2>4, <3>1 DEF Past, Before
  <2>5. pc[t] = "descend" => level[t] > curlevel(t) /\ n = currObj[t]
    BY DEF Wants
  <2>6. pc[t] = "search" => n \in cand[t]
    BY DEF Wants, NextCandidate
  <2> QED BY <2>1, <2>3, <2>4, <2>5, <2>6 DEF Wants, ThreadOK
<1> QED BY InsertInvariant, <1>1, PTL
-------------------------------------------------------------------------------
(* Reachability: LinkedInv *)

\* Elements are counted by naturals.
LEMMA OnLevelFacts ==
  ASSUME TypeOK, NEW l \in Heights
  PROVE  /\ count \in Nat /\ OnLevel(l) \subseteq Slots /\ IsFiniteSet(OnLevel(l))
         /\ Cardinality(OnLevel(l)) \in Nat /\ Mcurmax(M, l) \in Nat
<1>1. count \in Nat /\ 0 .. count - 1 \subseteq Slots
  BY ConstantsAssumption DEF TypeOK, Slots
<1>2. OnLevel(l) \in SUBSET Slots
  BY <1>1 DEF OnLevel
<1>3. Mcurmax(M, l) \in Nat
  BY ConstantsAssumption DEF Mcurmax
<1> QED BY <1>1, <1>2, <1>3, SlotsFinite

\* No step takes an element off a level, so a small level has been small.
LEMMA SmallBefore ==
  ASSUME TypeOK, TypeOK', Onward, NEW l \in Heights, Small(l)'
  PROVE  Small(l)
<1>1. OnLevel(l) \subseteq OnLevel(l)'
  <2>1. count \in Int /\ count' \in Int /\ count' >= count
    BY OnLevelFacts DEF Onward
  <2>2. 0 .. count - 1 \subseteq 0 .. count' - 1
    BY <2>1, RangeGrows
  <2> QED BY <2>2 DEF OnLevel, Onward
<1> PICK A, B, m : A = OnLevel(l) /\ B = OnLevel(l)' /\ m = Mcurmax(M, l)
  OBVIOUS
<1>2. IsFiniteSet(A) /\ Cardinality(A) \in Nat /\ m \in Nat
  BY OnLevelFacts
<1>3. IsFiniteSet(B) /\ Cardinality(B) \in Nat /\ Cardinality(B) <= m + 1
  <2>1. OnLevel(l)' \in SUBSET Slots
    <3>1. count' \in 0 .. max_elements_
      BY DEF TypeOK
    <3>2. count' \in Int /\ max_elements_ \in Int /\ max_elements_ >= count'
      BY <3>1, ConstantsAssumption
    <3>3. 0 .. count' - 1 \subseteq Slots
      BY <3>2, RangeGrows DEF Slots
    <3>4. OnLevel(l)' \subseteq 0 .. count' - 1
      BY DEF OnLevel
    <3> QED BY <3>3, <3>4
  <2> QED BY <2>1, SlotsFinite DEF Small
<1>4. Cardinality(A) <= Cardinality(B)
  BY <1>1, <1>3, FS_Subset
<1>5. Cardinality(A) <= m + 1
  <2> HIDE DEF Small
  <2>1. Cardinality(A) \in Int /\ Cardinality(B) \in Int /\ m \in Int
    BY <1>2, <1>3
  <2> QED BY <1>3, <1>4, <2>1
<1> QED BY <1>5 DEF Small

\* Two elements of a small level and a list without them: there is room.
LEMMA RoomOnSmallLevel ==
  ASSUME TypeOK, NEW l \in Heights, Small(l), NEW m \in OnLevel(l), NEW n \in OnLevel(l), m # n,
         NEW L, L \subseteq OnLevel(l) \ {m, n}
  PROVE  Cardinality(L) < Mcurmax(M, l)
<1> PICK A, b : A = OnLevel(l) /\ b = Mcurmax(M, l)
  OBVIOUS
<1>1. IsFiniteSet(A) /\ Cardinality(A) \in Nat /\ b \in Nat /\ Cardinality(A) <= b + 1
  BY OnLevelFacts DEF Small
<1>2. IsFiniteSet(A \ {m}) /\ Cardinality(A \ {m}) = Cardinality(A) - 1
  BY <1>1, FS_RemoveElement
<1>3. n \in A \ {m} /\ L \subseteq (A \ {m}) \ {n}
  OBVIOUS
<1> PICK A1 : A1 = A \ {m}
  OBVIOUS
<1>4. IsFiniteSet(A1 \ {n}) /\ Cardinality(A1 \ {n}) = Cardinality(A1) - 1
  BY <1>2, <1>3, FS_RemoveElement
<1>5. Cardinality(L) <= Cardinality(A1 \ {n}) /\ IsFiniteSet(L)
  BY <1>3, <1>4, FS_Subset
<1>6. Cardinality(L) \in Nat
  BY <1>5, FS_CardinalityType
<1>7. Cardinality(L) <= Cardinality(A) - 2
  BY <1>1, <1>2, <1>4, <1>5, <1>6
<1> QED BY <1>1, <1>6, <1>7

-------------------------------------------------------------------------------
(* What a step of a thread leaves as it was *)

\* Between its registration and the release of its locks, no step of addPoint
\* touches what other threads have in hand, the elements there are or the
\* entry point.
LEMMA WorkerAlone ==
  ASSUME InsertInv, NEW t \in Threads,
         \/ EnterGlobal(t) \/ ReadEntry(t) \/ CopyEntry(t) \/ Descend(t) \/ BeginLevels(t)
         \/ StartSearch(t) \/ Expand(t) \/ WriteOwnList(t) \/ ConnectNeighbor(t) \/ NextLevel(t)
  PROVE  Alone(t) /\ deleted' = deleted
<1>0. TypeOK /\ OwnOK /\ ThreadOK(t)
  BY DEF InsertInv
<1>1. CASE EnterGlobal(t)
  <2>1. pc'[t] = "entry" /\ pc[t] = "enter"
    BY <1>0, <1>1 DEF TypeOK, EnterGlobal
  <2>2. \A u \in Threads \ {t} : Same(u)
    BY <1>0, <1>1 DEF EnterGlobal, TypeOK, Same, beam
  <2> QED BY <1>1, <2>1, <2>2 DEF Alone, Past, EnterGlobal, index
<1>2. CASE ReadEntry(t)
  <2>1. pc'[t] = "copy" /\ pc[t] = "entry"
    BY <1>0, <1>2 DEF TypeOK, ReadEntry
  <2>2. \A u \in Threads \ {t} : Same(u)
    BY <1>0, <1>2 DEF ReadEntry, TypeOK, Same, beam
  <2> QED BY <1>2, <2>1, <2>2 DEF Alone, Past, ReadEntry, index
<1>3. CASE CopyEntry(t)
  <2>1. pc'[t] \in {"finish", "descend"} /\ pc[t] = "copy"
    BY <1>0, <1>3 DEF TypeOK, CopyEntry
  <2>2. \A u \in Threads \ {t} : Same(u)
    BY <1>0, <1>3 DEF CopyEntry, TypeOK, Same, beam
  <2> QED BY <1>3, <2>1, <2>2 DEF Alone, Past, CopyEntry, index
<1>4. CASE Descend(t)
  <2>1. pc'[t] = "descend" /\ pc[t] = "descend"
    BY <1>0, <1>4 DEF TypeOK, Descend
  <2>2. \A u \in Threads \ {t} : Same(u)
    BY <1>0, <1>4 DEF Descend, TypeOK, Same, beam
  <2> QED BY <1>4, <2>1, <2>2 DEF Alone, Past, Descend, index
<1>5. CASE BeginLevels(t)
  <2>1. pc'[t] \in {"start", "finish"} /\ pc[t] = "descend"
    BY <1>0, <1>5 DEF TypeOK, BeginLevels
  <2>2. \A u \in Threads \ {t} : Same(u)
    BY <1>0, <1>5 DEF BeginLevels, TypeOK, Same, beam
  <2> QED BY <1>5, <2>1, <2>2 DEF Alone, Past, BeginLevels, index
<1>6. CASE StartSearch(t)
  <2>1. pc' = [pc EXCEPT ![t] = "search"] /\ pc'[t] = "search" /\ pc[t] = "start"
    <3>1. ~ (level[t] > maxlevelcopy[t])
      BY <1>0, <1>6, NumberFacts DEF ThreadOK, StartSearch
    <3> QED BY <1>0, <1>6, <3>1 DEF StartSearch, TypeOK
  <2>2. \A u \in Threads \ {t} : Same(u)
    BY <1>0, <1>6, <2>1 DEF StartSearch, TypeOK, Same, entry
  <2> QED BY <1>6, <2>1, <2>2 DEF Alone, Past, PastNext, StartSearch, index
<1>7. CASE Expand(t)
  <2>1. pc' = pc /\ pc[t] = "search" /\ UNCHANGED <<index, cur_c, entry, level, rest>>
    BY <1>7 DEF Expand
  <2>2. \A u \in Threads \ {t} : cand'[u] = cand[u] /\ top'[u] = top[u]
    BY <1>0, <1>7 DEF TypeOK, Expand
  <2>3. \A u \in Threads \ {t} : Same(u)
    BY <2>1, <2>2 DEF Same, entry
  <2> QED BY <2>1, <2>3 DEF Alone, Past, PastNext, index
<1>8. CASE WriteOwnList(t)
  <2>1. /\ pc[t] = "search"
        /\ cand' = [cand EXCEPT ![t] = {}]
        /\ \/ top' = top
           \/ top' = [top EXCEPT ![t] = {}]
        /\ UNCHANGED <<count, element_levels_, data, deleted, maxlevel_, enterpoint_node_, todo,
                       cur_c, maxlevelcopy, enterpoint_copy, epDeleted, level>>
    BY <1>8 DEF WriteOwnList
  <2>2. \E selected \in SUBSET Found(t), end \in {"connect", "twice", "undefined"} :
          /\ rest' = [rest EXCEPT ![t] = selected]
          /\ pc' = [pc EXCEPT ![t] = end]
          /\ currObj' = currObj \/ \E n \in selected : currObj' = [currObj EXCEPT ![t] = n]
    BY <1>8, WriteOwnListSteps
  <2>3. PICK selected \in SUBSET Found(t), end \in {"connect", "twice", "undefined"} :
          /\ rest' = [rest EXCEPT ![t] = selected]
          /\ pc' = [pc EXCEPT ![t] = end]
          /\ currObj' = currObj \/ \E n \in selected : currObj' = [currObj EXCEPT ![t] = n]
    BY <2>2
  <2>4. pc'[t] = end /\ \A u \in Threads \ {t} : pc'[u] = pc[u] /\ currObj'[u] = currObj[u]
    BY <1>0, <2>3 DEF TypeOK
  <2>5. \A u \in Threads \ {t} : Same(u)
    BY <1>0, <2>1, <2>3, <2>4 DEF TypeOK, Same
  <2> QED BY <2>1, <2>4, <2>5 DEF Alone, Past, PastNext
<1>9. CASE ConnectNeighbor(t)
  <2>1. /\ pc[t] = "connect"
        /\ UNCHANGED <<count, element_levels_, data, deleted, maxlevel_, enterpoint_node_, cur_c,
                       entry, level, beam>>
    BY <1>9 DEF ConnectNeighbor
  <2>2. pc' = pc /\ \E S : rest' = [rest EXCEPT ![t] = S]
    BY <1>9, ConnectNeighborSteps
  <2>3. \A u \in Threads \ {t} : Same(u)
    BY <1>0, <2>1, <2>2 DEF TypeOK, Same, entry, beam
  <2> QED BY <2>1, <2>2, <2>3 DEF Alone, Past, PastNext
<1>10. CASE NextLevel(t)
  <2>1. /\ pc[t] = "connect" /\ cur_c' = cur_c /\ UNCHANGED <<index, entry, beam, rest>>
        /\ level'[t] = level[t] - 1
        /\ pc'[t] = IF level[t] = 0 THEN "finish" ELSE "start"
        /\ level[t] \in Int
    BY <1>0, <1>10, NumberFacts DEF NextLevel, TypeOK
  <2>2. \A u \in Threads \ {t} : Same(u)
    BY <1>0, <1>10 DEF NextLevel, TypeOK, Same, entry, beam
  <2>3. \A l \in Heights : Past(t, l) => PastNext(t, l)
    BY <2>1, ConstantsAssumption DEF Past, PastNext, Heights
  <2> QED BY <2>1, <2>2, <2>3 DEF Alone, index
<1> QED BY <1>1, <1>2, <1>3, <1>4, <1>5, <1>6, <1>7, <1>8, <1>9, <1>10

\* A new element is known to nobody.
LEMMA RegisterOnward ==
  ASSUME InsertInv, NEW t \in Threads, Register(t)
  PROVE  Onward
<1>1. /\ TypeOK /\ count < max_elements_
      /\ cur_c' = [cur_c EXCEPT ![t] = count]
      /\ count' = count + 1
      /\ pc' = [pc EXCEPT ![t] = "enter"]
      /\ \E h \in Heights : element_levels_' = [element_levels_ EXCEPT ![count] = h]
      /\ level' = level
  BY DEF InsertInv, Register
<1>2. count \in Nat /\ count \in Slots /\ 0 .. count - 1 \subseteq Slots
  BY <1>1, ConstantsAssumption DEF TypeOK, Slots
<1>3. /\ cur_c'[t] = count
      /\ \A u \in Threads \ {t} : cur_c'[u] = cur_c[u] /\ pc'[u] = pc[u]
      /\ \A n \in 0 .. count - 1 : element_levels_'[n] = element_levels_[n]
  BY <1>1, <1>2 DEF TypeOK
<1>4. ASSUME NEW w \in Threads, NEW n \in 0 .. count - 1,
             pc'[w] \notin {"idle", "thrown"}, cur_c'[w] = n
      PROVE  Inserts(w, n) /\ \A l \in Heights : Past(w, l) => PastNext(w, l)
  <2>1. w # t
    BY <1>2, <1>3, <1>4
  <2> QED BY <1>1, <1>3, <1>4, <2>1 DEF Inserts, Past, PastNext
<1> QED BY <1>1, <1>2, <1>3, <1>4 DEF Onward

\* No step of addPoint takes back what others may rely on: elements, levels,
\* how far each insertion is, the highest level, the marks.
LEMMA WorkerOnward ==
  ASSUME InsertInv, NEW t \in Threads, Worker(t)
  PROVE  Onward /\ maxlevel_' >= maxlevel_ /\ deleted' = deleted
<1>0. TypeOK /\ OwnOK /\ GlobalOK /\ maxlevel_ \in Int /\ count \in Nat
  BY ConstantsAssumption DEF InsertInv, TypeOK, Heights
<1>1. CASE Register(t)
  <2>1. Onward
    BY <1>1, RegisterOnward
  <2>2. UNCHANGED <<maxlevel_, deleted>>
    BY <1>1 DEF Register
  <2> QED BY <1>0, <2>1, <2>2
<1>2. CASE Refuse(t)
  <2>1. UNCHANGED <<count, element_levels_, deleted, maxlevel_, pc, cur_c, level>>
    BY <1>2 DEF Refuse, index
  <2> QED BY <1>0, <2>1 DEF Onward, Inserts, Past, PastNext
<1>3. CASE Finish(t)
  <2>1. /\ pc' = [pc EXCEPT ![t] = "idle"] /\ cur_c' = [cur_c EXCEPT ![t] = NoEntry]
        /\ level' = [level EXCEPT ![t] = 0]
        /\ UNCHANGED <<count, element_levels_, deleted>>
    BY <1>3 DEF Finish
  <2>2. /\ pc'[t] = "idle"
        /\ \A u \in Threads \ {t} : pc'[u] = pc[u] /\ cur_c'[u] = cur_c[u] /\ level'[u] = level[u]
    BY <1>0, <2>1 DEF TypeOK
  <2>3. ASSUME NEW w \in Threads, NEW n \in 0 .. count - 1,
               pc'[w] \notin {"idle", "thrown"}, cur_c'[w] = n
        PROVE  Inserts(w, n) /\ \A l \in Heights : Past(w, l) => PastNext(w, l)
    <3>1. w # t
      BY <2>2, <2>3
    <3> QED BY <2>2, <2>3, <3>1 DEF Inserts, Past, PastNext
  <2>4. maxlevel_' >= maxlevel_
    <3>1. pc[t] = "finish" /\ curlevel(t) \in Int
      BY <1>0, <1>3, NumberFacts DEF Finish
    <3>2. curlevel(t) > maxlevelcopy[t] => maxlevelcopy[t] = maxlevel_
      BY <1>0, <3>1 DEF GlobalOK
    <3> QED BY <1>0, <1>3, <3>1, <3>2 DEF Finish
  <2> QED BY <1>0, <2>1, <2>3, <2>4 DEF Onward
<1>4. CASE \/ EnterGlobal(t) \/ ReadEntry(t) \/ CopyEntry(t) \/ Descend(t) \/ BeginLevels(t)
           \/ StartSearch(t) \/ Expand(t) \/ WriteOwnList(t) \/ ConnectNeighbor(t) \/ NextLevel(t)
  <2>1. Alone(t) /\ deleted' = deleted
    BY <1>4, WorkerAlone
  <2> QED BY <1>0, <2>1, AloneOnward DEF Alone
<1> QED BY <1>1, <1>2, <1>3, <1>4 DEF Worker

-------------------------------------------------------------------------------
(* Steps of one thread that keeps the lock of its element *)

\* They complete no element and leave levels as they are.
LEMMA AloneCompletes ==
  ASSUME NEW t \in Threads, Alone(t), NEW l
  PROVE  /\ \A n : Complete(n)' <=> Complete(n)
         /\ \A n : Linkable(n, l)' <=> Linkable(n, l)
         /\ CompleteOn(l)' = CompleteOn(l) /\ OnLevel(l)' = OnLevel(l) /\ (Small(l)' <=> Small(l))
<1>1. \A n : Locked(n)' <=> Locked(n)
  BY DEF Locked, Inserts, Alone, Same
<1>2. \A n : Complete(n)' <=> Complete(n)
  BY <1>1 DEF Complete, Alone
<1>3. \A n : Linkable(n, l)' <=> Linkable(n, l)
  BY <1>2 DEF Linkable, Alone
<1>4. CompleteOn(l)' = CompleteOn(l)
  BY <1>3 DEF CompleteOn
<1>5. OnLevel(l)' = OnLevel(l)
  BY DEF OnLevel, Alone
<1>6. Small(l)' <=> Small(l)
  BY <1>5 DEF Small
<1> QED BY <1>2, <1>3, <1>4, <1>5, <1>6

\* The other threads are where they were.
LEMMA OthersThrough ==
  ASSUME NEW t \in Threads, Alone(t), NEW u \in Threads, u # t, NEW l
  PROVE  /\ Through(u, l)' <=> Through(u, l)
         /\ Pending(u, l)' = Pending(u, l)
         /\ cur_c'[u] = cur_c[u] /\ pc'[u] = pc[u] /\ level'[u] = level[u] /\ rest'[u] = rest[u]
BY DEF Alone, Same, Through, Pending, curlevel

\* A step that writes no list, when the thread has nothing left to connect
LEMMA NothingWritten ==
  ASSUME InsertInv, LinkedInv, NEW t \in Threads, Alone(t), links' = links,
         pc'[t] # "connect", pc[t] = "connect" => rest[t] = {},
         \A l \in Heights : Through(t, l)' => Through(t, l)
  PROVE  LinkedInv'
<1>1. ASSUME NEW l \in Heights, Small(l)'
      PROVE  Linked(l)'
  BY <1>1, AloneCompletes DEF LinkedInv, Linked, Both
<1>2. ASSUME NEW u \in Threads, NEW l \in Heights, Small(l)', Through(u, l)'
      PROVE  Attached(u, l)'
  <2>1. Through(u, l) /\ Pending(u, l)' = Pending(u, l) /\ cur_c'[u] = cur_c[u]
    <3>1. CASE u = t
      BY <1>2, <3>1 DEF Alone, Pending
    <3>2. CASE u # t
      BY <1>2, <3>2, OthersThrough
    <3> QED BY <3>1, <3>2
  <2>2. Attached(u, l)
    BY <1>2, <2>1, AloneCompletes DEF LinkedInv
  <2> QED BY <2>1, <2>2, AloneCompletes DEF Attached
<1>3. ASSUME NEW u \in Threads
      PROVE  Unnamed(u)'
  <2>1. CASE u = t
    BY <2>1 DEF Unnamed
  <2>2. CASE u # t
    BY <2>2, OthersThrough DEF LinkedInv, Unnamed
  <2> QED BY <2>1, <2>2
<1> QED BY <1>1, <1>2, <1>3 DEF LinkedInv

\* What a list of a level names is on the level.
LEMMA NamedOnLevel ==
  ASSUME InsertInv, NEW l \in Heights, NEW n \in Slots
  PROVE  links[l][n] \subseteq OnLevel(l)
BY NamedIsSeen DEF Seen, OnLevel

\* One list of the level a thread works on is written.
Writes(t, o, L) ==
  /\ level[t] \in Heights /\ o \in Slots
  /\ links' = [links EXCEPT ![level[t]][o] = L]

\* All other lists stay.
LEMMA OtherLists ==
  ASSUME TypeOK, NEW t \in Threads, NEW o, NEW L, Writes(t, o, L)
  PROVE  /\ links'[level[t]][o] = L
         /\ \A l \in Heights, n \in Slots : l # level[t] \/ n # o => links'[l][n] = links[l][n]
BY DEF TypeOK, Writes

\* The new element is given its list, of complete elements that do not name it.
LEMMA OwnListWritten ==
  ASSUME InsertInv, LinkedInv, NEW t \in Threads, Alone(t), NEW L,
         Writes(t, cur_c[t], L), pc[t] = "search", pc'[t] = "connect", L # {}, rest'[t] = L,
         level' = level, maxlevelcopy' = maxlevelcopy,
         \A n \in L : Linkable(n, level[t]) /\ n \in Slots
  PROVE  LinkedInv'
<1> PICK c, k : c = cur_c[t] /\ k = level[t]
  OBVIOUS
<1>1. /\ TypeOK /\ c \in Slots /\ k \in Heights /\ ~ Complete(c) /\ cur_c' = cur_c
      /\ links'[k][c] = L
      /\ \A l \in Heights, n \in Slots : l # k \/ n # c => links'[l][n] = links[l][n]
  <2>1. TypeOK /\ OwnOK /\ k \in Heights /\ cur_c' = cur_c
    BY DEF InsertInv, Writes, Alone
  <2>2. c \in Slots
    BY <2>1, NumberFacts
  <2>3. ~ Complete(c)
    BY DEF Complete, Locked, Inserts
  <2> QED BY <2>1, <2>2, <2>3, OtherLists
<1>2. \A n : Complete(n) => n # c
  BY <1>1
<1>3. \A n \in Slots : c \notin links[k][n]
  <2>1. k \in Int
    BY <1>1 DEF Heights
  <2>2. Unpublished(t, k)
    BY <2>1 DEF Unpublished
  <2> QED BY <1>1, <2>2 DEF InsertInv, UnpublishedOK
<1>4. ASSUME NEW l \in Heights, Small(l)'
      PROVE  Linked(l)'
  <2>1. Linked(l) /\ CompleteOn(l)' = CompleteOn(l)
    BY <1>4, AloneCompletes DEF LinkedInv
  <2>2. \A n \in CompleteOn(l) : links'[l][n] = links[l][n]
    BY <1>1, <1>2 DEF CompleteOn, Linkable
  <2>3. \A a, b \in CompleteOn(l) : Both(l, a, b) => Both(l, a, b)'
    BY <2>2 DEF Both
  <2> QED BY <2>1, <2>3 DEF Linked
<1>5. ASSUME NEW u \in Threads, NEW l \in Heights, Small(l)', Through(u, l)'
      PROVE  Attached(u, l)'
  <2>1. CASE u = t /\ l = k
    <3>1. Pending(t, k)' = L
      BY DEF Pending
    <3>2. \A n \in L : Linkable(n, k)'
      BY AloneCompletes
    <3> QED BY <1>1, <2>1, <3>1, <3>2 DEF Attached
  <2>2. CASE u # t \/ l # k
    <3>1. Through(u, l) /\ Pending(u, l)' = Pending(u, l) /\ cur_c'[u] \in Slots
      <4>1. CASE u # t
        <5>1. Through(u, l) /\ Pending(u, l)' = Pending(u, l)
          BY <1>5, <4>1, OthersThrough
        <5>2. pc[u] # "idle"
          BY <5>1 DEF Through
        <5> QED BY <1>1, <5>1, <5>2, NumberFacts DEF InsertInv
      <4>2. CASE u = t
        <5>1. l # k
          BY <2>2, <4>2
        <5>2. Through(t, l)
          BY <1>5, <4>2, <5>1 DEF Through, Alone, curlevel
        <5> QED BY <1>1, <4>2, <5>1, <5>2 DEF Pending
      <4> QED BY <4>1, <4>2
    <3>2. Attached(u, l)
      BY <1>5, <3>1, AloneCompletes DEF LinkedInv
    <3>3. u # t => cur_c[u] # c
      <4>1. Through(u, l) => pc[u] # "idle"
        BY DEF Through
      <4> QED BY <3>1, <4>1 DEF InsertInv, OwnOK
    <3>4. links'[l][cur_c[u]] = links[l][cur_c[u]]
      BY <1>1, <2>2, <3>1, <3>3
    <3>5. \A n \in links[l][cur_c[u]] : n \in Slots /\ n # c
      <4>1. cur_c[u] \in Slots
        BY <3>1 DEF Alone
      <4>2. links[l][cur_c[u]] \subseteq Slots
        BY <1>1, <4>1 DEF TypeOK
      <4> QED BY <1>2, <3>2, <4>2 DEF Attached, Linkable
    <3>6. \A n \in links[l][cur_c[u]] : links'[l][n] = links[l][n]
      BY <1>1, <3>5
    <3>7. \A n \in links[l][cur_c[u]] : Linkable(n, l)'
      BY <3>2, AloneCompletes DEF Attached
    <3> QED BY <1>1, <3>1, <3>2, <3>4, <3>6, <3>7 DEF Attached
  <2> QED BY <2>1, <2>2
<1>6. ASSUME NEW u \in Threads, pc'[u] = "connect", NEW n \in rest'[u]
      PROVE  cur_c'[u] \notin links'[level'[u]][n]
  <2>1. CASE u = t
    <3>1. n \in Slots /\ n # c
      BY <1>2, <1>6, <2>1 DEF Linkable
    <3> QED BY <1>1, <1>3, <2>1, <3>1
  <2>2. CASE u # t
    <3>1. pc[u] = "connect" /\ n \in rest[u] /\ ThreadOK(u)
      BY <1>6, <2>2, OthersThrough DEF InsertInv
    <3>2. Complete(n) /\ n \in Slots /\ cur_c[u] \notin links[level[u]][n] /\ level[u] \in Heights
      <4>1. Linkable(n, level[u]) /\ 0 <= level[u]
        BY <3>1 DEF ThreadOK
      <4>2. rest[u] \subseteq Slots /\ level[u] \in {-1} \cup Heights
        BY <1>1 DEF TypeOK
      <4> QED BY <3>1, <4>1, <4>2 DEF LinkedInv, Unnamed, Linkable
    <3> QED BY <1>1, <1>2, <3>2
  <2> QED BY <2>1, <2>2
<1> QED BY <1>4, <1>5, <1>6 DEF LinkedInv, Unnamed

\* A complete neighbour is given a list that keeps what was on it and has the
\* new element, when the level is small.
LEMMA NeighborWritten ==
  ASSUME InsertInv, LinkedInv, NEW t \in Threads, Alone(t), NEW o \in rest[t], NEW L,
         Writes(t, o, L), pc[t] = "connect", pc'[t] = "connect", rest'[t] = rest[t] \ {o},
         level' = level, maxlevelcopy' = maxlevelcopy,
         Linkable(o, level[t]), L \subseteq links[level[t]][o] \cup {cur_c[t]},
         Small(level[t]) => L = links[level[t]][o] \cup {cur_c[t]}
  PROVE  LinkedInv'
<1> PICK c, k : c = cur_c[t] /\ k = level[t]
  OBVIOUS
<1>1. /\ TypeOK /\ c \in Slots /\ k \in Heights /\ o \in Slots /\ Complete(o) /\ cur_c' = cur_c
      /\ links'[k][o] = L
      /\ \A l \in Heights, n \in Slots : l # k \/ n # o => links'[l][n] = links[l][n]
  <2>1. TypeOK /\ OwnOK /\ k \in Heights /\ cur_c' = cur_c
    BY DEF InsertInv, Writes, Alone
  <2>2. c \in Slots
    BY <2>1, NumberFacts
  <2>3. o \in Slots /\ Complete(o)
    BY DEF Linkable, Writes
  <2>4. /\ links'[k][o] = L
        /\ \A l \in Heights, n \in Slots : l # k \/ n # o => links'[l][n] = links[l][n]
    BY <2>1, OtherLists
  <2> QED BY <2>1, <2>2, <2>3, <2>4
<1>2. \A u \in Threads : pc[u] \notin {"idle", "thrown"} => cur_c[u] # o /\ cur_c[u] \in Slots
  BY <1>1, CompleteIsOther, NumberFacts DEF InsertInv
<1>3. ASSUME NEW l \in Heights, Small(l), NEW n \in Slots
      PROVE  links[l][n] \subseteq links'[l][n]
  BY <1>1, <1>3
<1>4. ASSUME NEW l \in Heights, Small(l)'
      PROVE  Linked(l)'
  <2>1. Small(l) /\ Linked(l) /\ CompleteOn(l)' = CompleteOn(l)
    BY <1>4, AloneCompletes DEF LinkedInv
  <2>2. \A a, b \in CompleteOn(l) : Both(l, a, b) => Both(l, a, b)'
    BY <1>3, <2>1 DEF Both, CompleteOn
  <2> QED BY <2>1, <2>2 DEF Linked
<1>5. ASSUME NEW u \in Threads, NEW l \in Heights, Small(l)', Through(u, l)'
      PROVE  Attached(u, l)'
  <2>1. /\ Through(u, l) /\ Pending(u, l) \subseteq Pending(u, l)' \cup (IF u = t /\ l = k THEN {o} ELSE {})
        /\ cur_c'[u] = cur_c[u]
    <3>1. CASE u # t
      BY <1>5, <3>1, OthersThrough
    <3>2. CASE u = t
      BY <1>5, <3>2 DEF Through, Pending, Alone, curlevel
    <3> QED BY <3>1, <3>2
  <2>2. Attached(u, l) /\ Small(l)
    BY <1>5, <2>1, AloneCompletes DEF LinkedInv
  <2>3. cur_c[u] # o /\ cur_c[u] \in Slots
    BY <1>2, <2>1 DEF Through
  <2>4. links'[l][cur_c[u]] = links[l][cur_c[u]]
    BY <1>1, <2>3
  <2>5. \A n \in links[l][cur_c[u]] : n \in Slots /\ Linkable(n, l)'
    <3>1. links[l][cur_c[u]] \subseteq Slots
      BY <1>1, <2>3 DEF TypeOK
    <3> QED BY <2>2, <3>1, AloneCompletes DEF Attached
  <2>6. ASSUME NEW n \in links[l][cur_c[u]]
        PROVE  n \in Pending(u, l)' \/ cur_c[u] \in links'[l][n]
    <3>1. CASE cur_c[u] \in links[l][n]
      BY <1>3, <2>2, <2>5, <3>1
    <3>2. CASE n \in Pending(u, l)
      <4>1. CASE u = t /\ l = k /\ n = o
        BY <1>1, <2>2, <4>1
      <4>2. CASE ~ (u = t /\ l = k /\ n = o)
        BY <2>1, <3>2, <4>2
      <4> QED BY <4>1, <4>2
    <3> QED BY <2>2, <2>6, <3>1, <3>2 DEF Attached
  <2> QED BY <2>1, <2>2, <2>4, <2>5, <2>6 DEF Attached
<1>6. ASSUME NEW u \in Threads, pc'[u] = "connect", NEW n \in rest'[u]
      PROVE  cur_c'[u] \notin links'[level'[u]][n]
  <2>1. /\ pc[u] = "connect" /\ n \in rest[u] /\ (u = t => n # o)
        /\ cur_c'[u] = cur_c[u] /\ level'[u] = level[u]
    <3>1. CASE u # t
      BY <1>6, <3>1, OthersThrough
    <3>2. CASE u = t
      BY <1>1, <1>6, <3>2
    <3> QED BY <3>1, <3>2
  <2>2. n \in Slots /\ cur_c[u] \notin links[level[u]][n] /\ level[u] \in Heights
    <3>1. ThreadOK(u) /\ 0 <= level[u]
      BY <2>1 DEF InsertInv, ThreadOK
    <3>2. rest[u] \subseteq Slots /\ level[u] \in {-1} \cup Heights
      BY <1>1 DEF TypeOK
    <3> QED BY <2>1, <3>1, <3>2 DEF LinkedInv, Unnamed
  <2>3. CASE u # t
    <3>1. cur_c[u] # c
      BY <2>1, <2>3 DEF InsertInv, OwnOK
    <3> QED BY <1>1, <2>1, <2>2, <3>1
  <2>4. CASE u = t
    BY <1>1, <2>1, <2>2, <2>4
  <2> QED BY <2>3, <2>4
<1> QED BY <1>4, <1>5, <1>6 DEF LinkedInv, Unnamed


-------------------------------------------------------------------------------
(* LinkedInv, step by step *)

\* Before a thread writes its first list it goes through no level.
LEMMA EnterGlobalLinked ==
  ASSUME InsertInv, LinkedInv, NEW t \in Threads, EnterGlobal(t)
  PROVE  LinkedInv'
<1>1. TypeOK /\ pc'[t] = "entry" /\ pc[t] = "enter" /\ links' = links
  BY DEF InsertInv, TypeOK, EnterGlobal, index
<1>2. Alone(t)
  BY WorkerAlone
<1>3. \A l \in Heights : ~ Through(t, l)'
  BY <1>1 DEF Through
<1> QED BY <1>1, <1>2, <1>3, NothingWritten

LEMMA ReadEntryLinked ==
  ASSUME InsertInv, LinkedInv, NEW t \in Threads, ReadEntry(t)
  PROVE  LinkedInv'
<1>1. TypeOK /\ pc'[t] = "copy" /\ pc[t] = "entry" /\ links' = links
  BY DEF InsertInv, TypeOK, ReadEntry, index
<1>2. Alone(t)
  BY WorkerAlone
<1>3. \A l \in Heights : ~ Through(t, l)'
  BY <1>1 DEF Through
<1> QED BY <1>1, <1>2, <1>3, NothingWritten

\* The first element of all is connected on no level.
LEMMA CopyEntryLinked ==
  ASSUME InsertInv, LinkedInv, NEW t \in Threads, CopyEntry(t)
  PROVE  LinkedInv'
<1>1. /\ TypeOK /\ OwnOK /\ ThreadOK(t) /\ pc[t] = "copy" /\ links' = links
      /\ pc'[t] = IF currObj[t] = NoEntry THEN "finish" ELSE "descend"
      /\ maxlevelcopy' = maxlevelcopy
  BY DEF InsertInv, TypeOK, CopyEntry, index
<1>2. Alone(t)
  BY WorkerAlone
<1>3. ASSUME NEW l \in Heights
      PROVE  ~ Through(t, l)'
  <2>1. CASE currObj[t] = NoEntry
    <3>1. maxlevelcopy'[t] = -1
      BY <1>1, <2>1 DEF ThreadOK
    <3>2. ~ (l <= maxlevelcopy'[t])
      BY <3>1, ConstantsAssumption DEF Heights
    <3> QED BY <3>2 DEF Through
  <2>2. CASE currObj[t] # NoEntry
    BY <1>1, <2>2 DEF Through
  <2> QED BY <2>1, <2>2
<1>4. pc'[t] # "connect"
  BY <1>1
<1> QED BY <1>1, <1>2, <1>3, <1>4, NothingWritten

LEMMA DescendLinked ==
  ASSUME InsertInv, LinkedInv, NEW t \in Threads, Descend(t)
  PROVE  LinkedInv'
<1>1. TypeOK /\ pc'[t] = "descend" /\ pc[t] = "descend" /\ links' = links
  BY DEF InsertInv, TypeOK, Descend, index
<1>2. Alone(t)
  BY WorkerAlone
<1>3. \A l \in Heights : ~ Through(t, l)'
  BY <1>1 DEF Through
<1> QED BY <1>1, <1>2, <1>3, NothingWritten

\* The levels begin at the highest there is to connect on.
LEMMA BeginLevelsLinked ==
  ASSUME InsertInv, LinkedInv, NEW t \in Threads, BeginLevels(t)
  PROVE  LinkedInv'
<1>1. /\ TypeOK /\ OwnOK /\ pc[t] = "descend" /\ links' = links
      /\ level'[t] = MinOf(curlevel(t), maxlevelcopy[t])
      /\ pc'[t] \in {"start", "finish"}
      /\ cur_c' = cur_c /\ UNCHANGED <<maxlevelcopy, element_levels_>>
  BY DEF InsertInv, BeginLevels, TypeOK, index
<1>2. Alone(t)
  BY WorkerAlone
<1>3. ASSUME NEW l \in Heights
      PROVE  ~ Through(t, l)'
  <2>1. curlevel(t) \in Int /\ maxlevelcopy[t] \in Int /\ l \in Int
    BY <1>1, NumberFacts DEF Heights
  <2>2. curlevel(t)' = curlevel(t)
    BY <1>1 DEF curlevel
  <2>3. ~ (l <= curlevel(t) /\ l <= maxlevelcopy[t] /\ level'[t] < l)
    BY <1>1, <2>1 DEF MinOf
  <2> QED BY <1>1, <2>2, <2>3 DEF Through
<1> QED BY <1>1, <1>2, <1>3, NothingWritten

LEMMA StartSearchLinked ==
  ASSUME InsertInv, LinkedInv, NEW t \in Threads, StartSearch(t)
  PROVE  LinkedInv'
<1>1. /\ TypeOK /\ OwnOK /\ ThreadOK(t) /\ pc[t] = "start" /\ links' = links
      /\ cur_c' = cur_c /\ UNCHANGED <<element_levels_, maxlevelcopy, level>>
  BY DEF InsertInv, StartSearch, index, entry
<1>2. pc' = [pc EXCEPT ![t] = "search"] /\ pc'[t] = "search"
  <2>1. ~ (level[t] > maxlevelcopy[t])
    BY <1>1, NumberFacts DEF ThreadOK
  <2> QED BY <1>1, <2>1 DEF StartSearch, TypeOK
<1>3. Alone(t)
  BY WorkerAlone
<1>4. \A l \in Heights : Through(t, l)' => Through(t, l)
  BY <1>1, <1>2 DEF Through, curlevel
<1> QED BY <1>1, <1>2, <1>3, <1>4, NothingWritten

LEMMA ExpandLinked ==
  ASSUME InsertInv, LinkedInv, NEW t \in Threads, Expand(t)
  PROVE  LinkedInv'
<1>1. /\ TypeOK /\ pc[t] = "search" /\ pc' = pc
      /\ cur_c' = cur_c /\ UNCHANGED <<index, entry, level, rest>>
  BY DEF InsertInv, Expand
<1>2. \A u \in Threads \ {t} : cand'[u] = cand[u] /\ top'[u] = top[u]
  BY <1>1 DEF TypeOK, Expand
<1>3. Alone(t)
  BY WorkerAlone
<1>4. \A l \in Heights : Through(t, l)' => Through(t, l)
  BY <1>1 DEF Through, curlevel, index, entry
<1> QED BY <1>1, <1>3, <1>4, NothingWritten DEF index

\* With nothing left to connect, the level below begins.
LEMMA NextLevelLinked ==
  ASSUME InsertInv, LinkedInv, NEW t \in Threads, NextLevel(t)
  PROVE  LinkedInv'
<1>1. /\ TypeOK /\ OwnOK /\ ThreadOK(t) /\ pc[t] = "connect" /\ rest[t] = {}
      /\ level' = [level EXCEPT ![t] = level[t] - 1]
      /\ pc' = [pc EXCEPT ![t] = IF level[t] = 0 THEN "finish" ELSE "start"]
      /\ cur_c' = cur_c /\ UNCHANGED <<index, entry, beam, rest>>
  BY DEF InsertInv, NextLevel
<1>2. /\ level'[t] = level[t] - 1
      /\ pc'[t] = IF level[t] = 0 THEN "finish" ELSE "start"
  BY <1>1 DEF TypeOK
<1>3. level[t] \in Int
  BY <1>1, NumberFacts
<1>4. Alone(t)
  BY WorkerAlone
<1>5. ASSUME NEW l \in Heights, Through(t, l)'
      PROVE  Through(t, l)
  <2>1. l <= curlevel(t) /\ l <= maxlevelcopy[t] /\ level'[t] < l
    BY <1>1, <1>2, <1>5 DEF Through, curlevel, index, entry
  <2>2. level[t] <= l /\ l \in Int
    BY <1>2, <1>3, <2>1, ConstantsAssumption DEF Heights
  <2>3. level[t] < l \/ level[t] = l
    BY <1>3, <2>2
  <2> QED BY <1>1, <2>1, <2>3 DEF Through
<1>6. links' = links /\ pc'[t] # "connect"
  BY <1>1, <1>2 DEF index
<1> QED BY <1>1, <1>4, <1>5, <1>6, NothingWritten

\* Whatever the search has selected, all of it is complete.
LEMMA WriteOwnListLinked ==
  ASSUME InsertInv, LinkedInv, NEW t \in Threads, WriteOwnList(t)
  PROVE  LinkedInv'
<1>1. /\ TypeOK /\ OwnOK /\ ThreadOK(t) /\ pc[t] = "search" /\ Stops(t)
      /\ cand' = [cand EXCEPT ![t] = {}] /\ visited' = [visited EXCEPT ![t] = {}]
      /\ \/ top' = top
         \/ top' = [top EXCEPT ![t] = {}]
      /\ UNCHANGED <<count, element_levels_, data, deleted, maxlevel_, enterpoint_node_, todo,
                     cur_c, maxlevelcopy, enterpoint_copy, epDeleted, level>>
  BY DEF InsertInv, WriteOwnList
<1>2. PICK selected :
        /\ selected \subseteq Found(t) /\ Cardinality(selected) <= M
        /\ rest' = [rest EXCEPT ![t] = selected]
        /\ global' = global
        /\ \/ /\ pc' = [pc EXCEPT ![t] = "connect"]
              /\ links' = [links EXCEPT ![level[t]][cur_c[t]] = selected]
              /\ \E n \in selected : currObj' = [currObj EXCEPT ![t] = n]
           \/ /\ \E end \in {"twice", "undefined"} : pc' = [pc EXCEPT ![t] = end]
              /\ UNCHANGED <<links, currObj>>
  BY WriteOwnListSteps
<1>3. \A n \in selected : Linkable(n, level[t]) /\ n \in Slots
  BY <1>1, <1>2, FoundFacts
<1>4. /\ pc'[t] \in {"connect", "twice", "undefined"} /\ rest'[t] = selected
      /\ \A u \in Threads \ {t} : pc'[u] = pc[u] /\ currObj'[u] = currObj[u]
  <2>1. PICK end \in {"connect", "twice", "undefined"} : pc' = [pc EXCEPT ![t] = end]
    BY <1>2
  <2>2. pc'[t] = end /\ \A u \in Threads \ {t} : pc'[u] = pc[u]
    BY <1>1, <2>1 DEF TypeOK
  <2>3. rest'[t] = selected
    BY <1>1, <1>2 DEF TypeOK
  <2>4. \A u \in Threads \ {t} : currObj'[u] = currObj[u]
    <3>1. currObj' = currObj \/ \E n \in Slots : currObj' = [currObj EXCEPT ![t] = n]
      BY <1>2, <1>3
    <3> QED BY <1>1, <3>1 DEF TypeOK
  <2> QED BY <2>2, <2>3, <2>4
<1>5. Alone(t)
  BY WorkerAlone
<1>6. CASE /\ pc' = [pc EXCEPT ![t] = "connect"]
           /\ links' = [links EXCEPT ![level[t]][cur_c[t]] = selected]
           /\ \E n \in selected : currObj' = [currObj EXCEPT ![t] = n]
  <2>1. level[t] \in Heights /\ cur_c[t] \in Slots
    BY <1>1, NumberFacts DEF ThreadOK, TypeOK
  <2>2. Writes(t, cur_c[t], selected) /\ pc'[t] = "connect" /\ selected # {}
    BY <1>1, <1>6, <2>1 DEF Writes, TypeOK
  <2> QED BY <1>1, <1>3, <1>4, <1>5, <2>2, OwnListWritten
<1>7. CASE /\ \E end \in {"twice", "undefined"} : pc' = [pc EXCEPT ![t] = end]
           /\ UNCHANGED <<links, currObj>>
  <2>1. pc'[t] \in {"twice", "undefined"} /\ links' = links
    BY <1>1, <1>7 DEF TypeOK
  <2>2. \A l \in Heights : ~ Through(t, l)'
    BY <2>1 DEF Through
  <2> QED BY <1>1, <1>5, <2>1, <2>2, NothingWritten
<1> QED BY <1>2, <1>6, <1>7

\* On a small level, a list that lacks its owner and the new element has room.
LEMMA ConnectNeighborLinked ==
  ASSUME InsertInv, LinkedInv, NEW t \in Threads, ConnectNeighbor(t)
  PROVE  LinkedInv'
<1>1. /\ TypeOK /\ OwnOK /\ ThreadOK(t) /\ pc[t] = "connect" /\ ListsSound
      /\ UNCHANGED <<count, element_levels_, data, deleted, maxlevel_, enterpoint_node_, todo,
                     cur_c, entry, level, beam>>
  BY DEF InsertInv, ConnectNeighbor
<1>2. PICK n \in rest[t], S \in SUBSET Slots :
        /\ n \in Slots /\ Linkable(n, level[t]) /\ n # cur_c[t]
        /\ S \subseteq links[level[t]][n] \cup {cur_c[t]}
        /\ Cardinality(S) <= Mcurmax(M, level[t])
        /\ Cardinality(links[level[t]][n]) < Mcurmax(M, level[t]) =>
             S = links[level[t]][n] \cup {cur_c[t]}
        /\ links' = [links EXCEPT ![level[t]][n] = S]
        /\ rest' = [rest EXCEPT ![t] = @ \ {n}]
        /\ pc' = pc /\ global' = global
  BY ConnectNeighborSteps
<1>3. /\ level[t] \in Heights /\ level[t] \in Int /\ cur_c[t] \in 0 .. count - 1
      /\ curlevel(t) \in Int /\ level[t] <= curlevel(t)
  BY <1>1, NumberFacts DEF ThreadOK, TypeOK
<1>4. Alone(t)
  BY WorkerAlone
<1>5. Writes(t, n, S) /\ rest'[t] = rest[t] \ {n} /\ pc'[t] = "connect"
  BY <1>1, <1>2, <1>3 DEF Writes, TypeOK
<1>6. Small(level[t]) => S = links[level[t]][n] \cup {cur_c[t]}
  <2> SUFFICES ASSUME Small(level[t])
               PROVE  Cardinality(links[level[t]][n]) < Mcurmax(M, level[t])
    BY <1>2
  <2>1. n \in OnLevel(level[t]) /\ cur_c[t] \in OnLevel(level[t])
    BY <1>2, <1>3 DEF Linkable, Complete, OnLevel, curlevel
  <2>2. n \notin links[level[t]][n] /\ cur_c[t] \notin links[level[t]][n]
    BY <1>1, <1>2, <1>3 DEF ListsSound, LinkedInv, Unnamed
  <2>3. links[level[t]][n] \subseteq OnLevel(level[t]) \ {n, cur_c[t]}
    BY <1>2, <1>3, <2>2, NamedOnLevel
  <2> QED BY <1>1, <1>2, <1>3, <2>1, <2>3, RoomOnSmallLevel
<1> QED BY <1>1, <1>2, <1>4, <1>5, <1>6, NeighborWritten DEF entry

\* A new element is not complete, and takes nobody's place.
LEMMA RegisterLinked ==
  ASSUME InsertInv, LinkedInv, NEW t \in Threads, Register(t), InsertInv'
  PROVE  LinkedInv'
<1>1. /\ TypeOK /\ OwnOK /\ TypeOK' /\ pc[t] = "idle" /\ count < max_elements_
      /\ cur_c' = [cur_c EXCEPT ![t] = count]
      /\ count' = count + 1
      /\ pc' = [pc EXCEPT ![t] = "enter"]
      /\ \E h \in Heights : element_levels_' = [element_levels_ EXCEPT ![count] = h]
      /\ UNCHANGED <<links, deleted, maxlevel_, enterpoint_node_, global, entry, level, beam, rest>>
  BY DEF InsertInv, Register
<1>2. count \in Nat /\ count \in Slots /\ 0 .. count - 1 \subseteq Slots
  BY <1>1, ConstantsAssumption DEF TypeOK, Slots
<1>3. /\ cur_c'[t] = count /\ pc'[t] = "enter"
      /\ \A u \in Threads \ {t} : cur_c'[u] = cur_c[u] /\ pc'[u] = pc[u]
      /\ \A n \in 0 .. count - 1 : element_levels_'[n] = element_levels_[n]
  BY <1>1, <1>2 DEF TypeOK
<1>4. Onward
  BY RegisterOnward
<1>5. \A n, l : Linkable(n, l)' <=> Linkable(n, l)
  <2>1. ASSUME NEW n, NEW l, Linkable(n, l)
        PROVE  Linkable(n, l)'
    <3>1. LinkableNext(n, l)
      BY <1>1, <1>4, <2>1, FactsKeep
    <3> QED BY <3>1 DEF LinkableNext, CompleteNext, Linkable, Complete, Locked, Inserts
  <2>2. ASSUME NEW n, NEW l, Linkable(n, l)'
        PROVE  Linkable(n, l)
    <3>1. /\ n \in 0 .. count' - 1 /\ element_levels_'[n] >= l
          /\ \A w \in Threads : ~ (pc'[w] \notin {"idle", "thrown"} /\ cur_c'[w] = n)
      BY <2>2 DEF Linkable, Complete, Locked, Inserts
    <3>2. n # count
      BY <1>3, <3>1
    <3>3. n \in 0 .. count - 1
      BY <1>1, <1>2, <3>1, <3>2
    <3>4. ASSUME NEW w \in Threads, pc[w] \notin {"idle", "thrown"}
          PROVE  cur_c[w] # n
      <4>1. w # t
        BY <1>1, <3>4
      <4> QED BY <1>3, <3>1, <3>4, <4>1
    <3> QED BY <1>3, <3>1, <3>3, <3>4 DEF Linkable, Complete, Locked, Inserts
  <2> QED BY <2>1, <2>2
<1>6. ASSUME NEW l \in Heights, Small(l)'
      PROVE  Linked(l)'
  <2>1. Small(l) /\ CompleteOn(l)' = CompleteOn(l)
    BY <1>1, <1>4, <1>5, <1>6, SmallBefore DEF CompleteOn
  <2> QED BY <1>1, <2>1 DEF LinkedInv, Linked, Both
<1>7. ASSUME NEW u \in Threads, NEW l \in Heights, Small(l)', Through(u, l)'
      PROVE  Attached(u, l)'
  <2>1. u # t
    BY <1>3, <1>7 DEF Through
  <2>2. pc[u] # "idle"
    BY <1>3, <1>7, <2>1 DEF Through
  <2>3. cur_c'[u] = cur_c[u] /\ curlevel(u)' = curlevel(u)
    BY <1>1, <1>3, <2>1, <2>2 DEF curlevel, OwnOK
  <2>4. Through(u, l) /\ Pending(u, l)' = Pending(u, l)
    BY <1>1, <1>3, <1>7, <2>1, <2>3 DEF Through, Pending, entry
  <2>5. Attached(u, l)
    BY <1>1, <1>4, <1>7, <2>4, SmallBefore DEF LinkedInv
  <2> QED BY <1>1, <1>5, <2>3, <2>4, <2>5 DEF Attached
<1>8. ASSUME NEW u \in Threads
      PROVE  Unnamed(u)'
  <2>1. CASE u = t
    BY <1>3, <2>1 DEF Unnamed
  <2>2. CASE u # t
    BY <1>1, <1>3, <2>2 DEF LinkedInv, Unnamed
  <2> QED BY <2>1, <2>2
<1> QED BY <1>6, <1>7, <1>8 DEF LinkedInv

\* Nobody is complete on a level above the index.
LEMMA NoneAbove ==
  ASSUME InsertInv, NEW l \in Heights, l > maxlevel_
  PROVE  CompleteOn(l) = {}
<1> SUFFICES ASSUME NEW n \in CompleteOn(l) PROVE FALSE
  OBVIOUS
<1>1. n \in Slots /\ n \in 0 .. count - 1 /\ ~ Locked(n) /\ element_levels_[n] >= l
  BY DEF CompleteOn, Linkable, Complete
<1>2. element_levels_[n] \in Int /\ maxlevel_ \in Int /\ l \in Int
  BY <1>1 DEF InsertInv, TypeOK, Heights
<1>3. PICK w \in Threads : cur_c[w] = n /\ (pc[w] = "enter" \/ global = w)
  BY <1>1, <1>2 DEF InsertInv, EntryOK
<1>4. pc[w] \notin {"idle", "thrown"}
  BY <1>3, ConstantsAssumption DEF InsertInv, GlobalOK, NeverThrown
<1> QED BY <1>1, <1>3, <1>4 DEF Locked, Inserts

\* An edge of both directions leads across every cut of C.
CutsCrossed(l, C) ==
  \A S \in SUBSET C : S # {} /\ S # C => \E a \in S, b \in C \ S : Both(l, a, b)

\* One more element with an edge in both directions to what hangs together
LEMMA OneMoreLinked ==
  ASSUME NEW l, NEW C, CutsCrossed(l, C), NEW c, c \notin C, NEW n \in C, Both(l, c, n)
  PROVE  CutsCrossed(l, C \cup {c})
<1> SUFFICES ASSUME NEW T \in SUBSET (C \cup {c}), T # {}, T # C \cup {c}
             PROVE  \E a \in T, b \in (C \cup {c}) \ T : Both(l, a, b)
  BY DEF CutsCrossed
<1>0. \A S \in SUBSET C : S # {} /\ S # C => \E a \in S, b \in C \ S : Both(l, a, b)
  BY DEF CutsCrossed
<1>1. Both(l, n, c)
  BY DEF Both
<1>2. CASE c \in T
  <2>1. T \ {c} \in SUBSET C /\ T \ {c} # C
    BY <1>2
  <2>2. CASE T \ {c} = {}
    BY <1>2, <2>2
  <2>3. CASE T \ {c} # {}
    <3>1. PICK a \in T \ {c}, b \in C \ (T \ {c}) : Both(l, a, b)
      BY <1>0, <2>1, <2>3
    <3>2. a \in T /\ b \in (C \cup {c}) \ T
      OBVIOUS
    <3> QED BY <3>1, <3>2
  <2> QED BY <2>2, <2>3
<1>3. CASE c \notin T
  <2>1. T \in SUBSET C
    BY <1>3
  <2>2. CASE T = C
    BY <1>1, <2>2
  <2>3. CASE T # C
    <3>1. PICK a \in T, b \in C \ T : Both(l, a, b)
      BY <1>0, <2>1, <2>3
    <3> QED BY <3>1
  <2> QED BY <2>2, <2>3
<1> QED BY <1>2, <1>3

\* The element that becomes complete hangs on the others by one edge at least,
\* on every level the index had when its insertion began.
LEMMA FinishLinked ==
  ASSUME InsertInv, LinkedInv, NEW t \in Threads, Finish(t)
  PROVE  LinkedInv'
<1> PICK c : c = cur_c[t]
  OBVIOUS
<1>1. /\ TypeOK /\ OwnOK /\ ThreadOK(t) /\ pc[t] = "finish" /\ level[t] = -1
      /\ pc' = [pc EXCEPT ![t] = "idle"]
      /\ cur_c' = [cur_c EXCEPT ![t] = NoEntry]
      /\ level' = [level EXCEPT ![t] = 0]
      /\ maxlevelcopy' = [maxlevelcopy EXCEPT ![t] = -1]
      /\ UNCHANGED <<count, element_levels_, links, rest>>
  BY DEF InsertInv, Finish, ThreadOK
<1>2. /\ pc'[t] = "idle"
      /\ \A u \in Threads \ {t} : /\ pc'[u] = pc[u] /\ cur_c'[u] = cur_c[u] /\ level'[u] = level[u]
                                  /\ maxlevelcopy'[u] = maxlevelcopy[u]
  BY <1>1 DEF TypeOK
<1>3. /\ c \in Slots /\ c \in 0 .. count - 1 /\ curlevel(t) \in Int /\ maxlevelcopy[t] \in Int
      /\ ~ Complete(c)
  BY <1>1, NumberFacts DEF Complete, Locked, Inserts
<1>4. \A n : Complete(n)' <=> Complete(n) \/ n = c
  <2>1. ASSUME NEW w \in Threads, pc'[w] \notin {"idle", "thrown"}
        PROVE  w # t /\ Inserts(w, cur_c'[w]) /\ cur_c'[w] # c
    <3>1. w # t
      BY <1>2, <2>1
    <3> QED BY <1>1, <1>2, <2>1, <3>1 DEF Inserts, OwnOK
  <2>2. ASSUME NEW w \in Threads, pc[w] \notin {"idle", "thrown"}, cur_c[w] # c
        PROVE  Inserts(w, cur_c[w])'
    <3>1. w # t
      BY <2>2
    <3> QED BY <1>2, <2>2, <3>1 DEF Inserts
  <2>3. \A n : Locked(n)' <=> Locked(n) /\ n # c
    BY <2>1, <2>2 DEF Locked, Inserts
  <2> QED BY <1>1, <1>3, <2>3 DEF Complete
<1>5. \A l : /\ \A n : Linkable(n, l) => Linkable(n, l)'
             /\ CompleteOn(l)' = IF curlevel(t) >= l THEN CompleteOn(l) \cup {c} ELSE CompleteOn(l)
             /\ Small(l)' <=> Small(l)
             /\ c \notin CompleteOn(l)
  BY <1>1, <1>3, <1>4 DEF Linkable, CompleteOn, Small, OnLevel, curlevel
<1>6. ASSUME NEW l \in Heights, Small(l)'
      PROVE  Linked(l)'
  <2>1. Small(l) /\ Linked(l) /\ l \in Int
    BY <1>5, <1>6 DEF LinkedInv, Heights
  <2>2. \A a, b : Both(l, a, b)' <=> Both(l, a, b)
    BY <1>1 DEF Both
  <2>3. CASE ~ (curlevel(t) >= l)
    BY <1>5, <2>1, <2>2, <2>3 DEF Linked
  <2>4. CASE curlevel(t) >= l /\ l <= maxlevelcopy[t]
    <3>1. Through(t, l) /\ Pending(t, l) = {}
      BY <1>1, <2>1, <2>4 DEF Through, Pending, Heights
    <3>2. Attached(t, l)
      BY <2>1, <3>1 DEF LinkedInv
    <3>3. PICK n \in links[l][c] : Linkable(n, l) /\ c \in links[l][n]
      BY <3>1, <3>2 DEF Attached
    <3>4. n \in CompleteOn(l) /\ Both(l, c, n)
      BY <1>1, <1>3, <3>3 DEF TypeOK, CompleteOn, Both
    <3>5. CompleteOn(l)' = CompleteOn(l) \cup {c} /\ c \notin CompleteOn(l)
      BY <1>5, <2>4
    <3>6. CutsCrossed(l, CompleteOn(l))
      BY <2>1 DEF Linked, CutsCrossed
    <3>7. CutsCrossed(l, CompleteOn(l) \cup {c})
      BY <3>4, <3>5, <3>6, OneMoreLinked
    <3> QED BY <2>2, <3>5, <3>7 DEF Linked, CutsCrossed
  <2>5. CASE curlevel(t) >= l /\ ~ (l <= maxlevelcopy[t])
    <3>1. maxlevelcopy[t] = maxlevel_ /\ l > maxlevel_
      BY <1>1, <1>3, <2>1, <2>5 DEF InsertInv, GlobalOK
    <3>2. CompleteOn(l)' = {c}
      BY <1>5, <2>5, <3>1, NoneAbove
    <3> QED BY <3>2 DEF Linked
  <2> QED BY <2>3, <2>4, <2>5
<1>7. ASSUME NEW u \in Threads, NEW l \in Heights, Small(l)', Through(u, l)'
      PROVE  Attached(u, l)'
  <2>1. u # t
    BY <1>2, <1>7 DEF Through
  <2>2. Through(u, l) /\ Pending(u, l)' = Pending(u, l) /\ cur_c'[u] = cur_c[u]
    BY <1>1, <1>2, <1>7, <2>1 DEF Through, Pending, curlevel
  <2>3. Attached(u, l)
    BY <1>5, <1>7, <2>2 DEF LinkedInv
  <2> QED BY <1>1, <1>5, <2>2, <2>3 DEF Attached
<1>8. ASSUME NEW u \in Threads
      PROVE  Unnamed(u)'
  <2>1. CASE u = t
    BY <1>2, <2>1 DEF Unnamed
  <2>2. CASE u # t
    BY <1>1, <1>2, <2>2 DEF LinkedInv, Unnamed
  <2> QED BY <2>1, <2>2
<1> QED BY <1>6, <1>7, <1>8 DEF LinkedInv

\* Marks and refused points have nothing to do with it.
LEMMA AsidesLinked ==
  ASSUME InsertInv, LinkedInv,
         \/ \E t \in Threads : Refuse(t)
         \/ \E n \in Toggled : Toggle(n)
         \/ UNCHANGED vars
  PROVE  LinkedInv'
<1>1. UNCHANGED <<count, element_levels_, links, pc, cur_c, maxlevelcopy, level, rest>>
  BY DEF Refuse, Toggle, vars, index, entry, beam
<1>2. \A n, l : Linkable(n, l)' <=> Linkable(n, l)
  BY <1>1 DEF Linkable, Complete, Locked, Inserts
<1>3. \A l : CompleteOn(l)' = CompleteOn(l) /\ (Small(l)' <=> Small(l))
  BY <1>1, <1>2 DEF CompleteOn, Small, OnLevel
<1>4. \A l \in Heights : Small(l)' => Linked(l)'
  BY <1>1, <1>3 DEF LinkedInv, Linked, Both
<1>5. \A t \in Threads, l \in Heights : Through(t, l)' => Through(t, l)
  BY <1>1 DEF Through, curlevel
<1>6. \A t \in Threads, l \in Heights : Attached(t, l) => Attached(t, l)'
  BY <1>1, <1>2 DEF Attached, Pending
<1>7. \A t \in Threads : Unnamed(t)'
  BY <1>1 DEF LinkedInv, Unnamed
<1> QED BY <1>3, <1>4, <1>5, <1>6, <1>7 DEF LinkedInv

\* It begins with what is asked of the index.
LEMMA InitLinked ==
  ASSUME LinkedIndexes, Init
  PROVE  LinkedInv
<1>1. PICK ix \in Indexes :
        /\ count = ix.count
        /\ element_levels_ = [n \in Slots |-> IF n \in Ids(ix) THEN ix.element_levels_[n] ELSE 0]
        /\ links = [l \in Heights |-> [n \in Slots |->
                      IF n \in Ids(ix) /\ l <= ix.maxlevel_ THEN ix.links[l][n] ELSE {}]]
        /\ maxlevel_ = ix.maxlevel_
  BY DEF Init
<1>2. \A t \in Threads : pc[t] = "idle"
  BY DEF Init
<1>3. Ids(ix) \subseteq Slots /\ Ids(ix) = 0 .. count - 1
  <2>1. ix.count <= max_elements_ /\ ix.count \in Nat
    BY IndexesAssumption DEF WellFormed
  <2> QED BY <1>1, <2>1, ConstantsAssumption DEF Ids, Slots
<1>4. InsertInv
  BY InitInv
<1>5. ASSUME NEW l \in Heights, Small(l)
      PROVE  Linked(l)
  <2>1. CASE l > maxlevel_
    <3>1. CompleteOn(l) = {}
      BY <1>4, <2>1, NoneAbove
    <3> QED BY <3>1 DEF Linked
  <2>2. CASE ~ (l > maxlevel_)
    <3>1. l \in 0 .. ix.maxlevel_ /\ l <= ix.maxlevel_
      <4>1. maxlevel_ \in Int
        BY <1>4 DEF InsertInv, TypeOK, Heights
      <4> QED BY <1>1, <2>2, <4>1 DEF Heights
    <3> PICK on : on = {n \in Ids(ix) : ix.element_levels_[n] >= l}
      OBVIOUS
    <3>2. OnLevel(l) = on /\ on \subseteq Slots
      BY <1>1, <1>3 DEF OnLevel
    <3>3. CompleteOn(l) = on
      BY <1>2, <1>3, <3>2 DEF CompleteOn, Linkable, Complete, Locked, Inserts, OnLevel
    <3>4. \A S \in SUBSET on : S # {} /\ S # on =>
            \E a \in S, b \in on \ S : b \in ix.links[l][a] /\ a \in ix.links[l][b]
      BY <1>5, <3>1, <3>2 DEF Small, LinkedIndexes
    <3>5. \A n \in on : links[l][n] = ix.links[l][n]
      BY <1>1, <1>3, <3>1
    <3> QED BY <3>3, <3>4, <3>5 DEF Linked, Both
  <2> QED BY <2>1, <2>2
<1> QED BY <1>2, <1>5 DEF LinkedInv, Through, Unnamed

-------------------------------------------------------------------------------
(* Reachability *)

Algorithms == INSTANCE HNSWAlgorithmsProofs

\* What stands on the lists of some elements of level l
Around(l, S) == UNION {links[l][n] : n \in S}

\* g has what is reached on level l within so many edges.
Grows(l, g) ==
  /\ g \in [0 .. count -> SUBSET Slots]
  /\ g[0] = {enterpoint_node_}
  /\ \A k \in 1 .. count : g[k] = g[k - 1] \cup Around(l, g[k - 1])

\* Reach is what has been reached in the end.
LEMMA ReachGrows ==
  ASSUME TypeOK, enterpoint_node_ \in Slots, NEW l \in Heights
  PROVE  \E g : Reach(l) = g[count] /\ Grows(l, g)
<1> DEFINE F == [p \in (1 .. count) \X SUBSET Slots |-> p[2] \cup Around(l, p[2])]
           eq(g) == g = [k \in 0 .. count |-> IF k = 0 THEN {enterpoint_node_}
                                              ELSE g[k - 1] \cup Around(l, g[k - 1])]
<1>1. count \in Nat
  BY OnLevelFacts
<1>2. \E g : eq(g)
  <2>1. F \in [(1 .. count) \X SUBSET Slots -> SUBSET Slots]
    <3>1. ASSUME NEW S \in SUBSET Slots
          PROVE  S \cup Around(l, S) \in SUBSET Slots
      BY DEF Around, TypeOK
    <3> QED BY <3>1
  <2>2. PICK g : Algorithms!IsMadeBy(g, F, count, SUBSET Slots, {enterpoint_node_})
    <3>1. {enterpoint_node_} \in SUBSET Slots /\ Algorithms!IsStep(F, count, SUBSET Slots)
      BY <2>1 DEF Algorithms!IsStep
    <3> HIDE DEF F
    <3> QED BY <1>1, <3>1, Algorithms!PrimitiveRecursion
  <2>3. g \in [0 .. count -> SUBSET Slots]
    BY <2>2 DEF Algorithms!IsMadeBy
  <2>4. ASSUME NEW k \in 0 .. count, k # 0
        PROVE  F[<<k, g[k - 1]>>] = g[k - 1] \cup Around(l, g[k - 1])
    <3>1. k \in 1 .. count /\ g[k - 1] \in SUBSET Slots
      BY <1>1, <2>3, <2>4
    <3> QED BY <3>1
  <2> HIDE DEF F
  <2>5. \A k \in 0 .. count : g[k] = IF k = 0 THEN {enterpoint_node_}
                                     ELSE g[k - 1] \cup Around(l, g[k - 1])
    BY <2>2, <2>4 DEF Algorithms!IsMadeBy
  <2>6. g = [k \in 0 .. count |-> g[k]]
    BY <2>3
  <2> QED BY <2>5, <2>6, ZenonT(30)
<1>3. PICK g : Reach(l) = g[count] /\ eq(g)
  BY <1>2, Zenon DEF Reach, Around
<1>4. /\ g[0] = {enterpoint_node_}
      /\ \A k \in 1 .. count : g[k] = g[k - 1] \cup Around(l, g[k - 1])
  <2>1. 0 \in 0 .. count /\ \A k \in 1 .. count : k \in 0 .. count /\ k # 0
    BY <1>1
  <2> QED BY <1>3, <2>1
<1>5. g \in [0 .. count -> SUBSET Slots]
  <2> DEFINE S == {k \in Nat : k <= count => g[k] \in SUBSET Slots}
  <2>1. 0 \in S
    BY <1>4
  <2>2. ASSUME NEW k \in Nat, k \in S
        PROVE  k + 1 \in S
    <3> SUFFICES ASSUME k + 1 <= count PROVE g[k + 1] \in SUBSET Slots
      OBVIOUS
    <3>1. k + 1 \in 1 .. count /\ (k + 1) - 1 = k /\ g[k] \in SUBSET Slots
      BY <1>1, <2>2
    <3>2. g[k + 1] = g[k] \cup Around(l, g[k])
      BY <1>4, <3>1
    <3> QED BY <3>1, <3>2 DEF Around, TypeOK
  <2>3. \A k \in Nat : k \in S
    <3> HIDE DEF S
    <3> QED BY <2>1, <2>2, Algorithms!SetInduction
  <2>4. \A k \in 0 .. count : g[k] \in SUBSET Slots
    BY <1>1, <2>3
  <2> QED BY <1>3, <2>4
<1> QED BY <1>3, <1>4, <1>5 DEF Grows

\* With nobody at work, the edges that lead across every cut reach all of a
\* small level: as long as something is missing, one more step finds more.
LEMMA SmallReached ==
  ASSUME InsertInv, LinkedInv, \A t \in Threads : pc[t] = "idle", count > 0,
         NEW l \in 0 .. maxlevel_, Small(l)
  PROVE  OnLevel(l) \subseteq Reach(l)
<1> DEFINE on == OnLevel(l)
<1>1. /\ TypeOK /\ l \in Heights /\ maxlevel_ # -1 /\ maxlevel_ \in Int /\ count \in Nat
      /\ on \subseteq Slots /\ on \subseteq 0 .. count - 1
  <2>1. TypeOK /\ maxlevel_ \in {-1} \cup Heights
    BY DEF InsertInv, TypeOK
  <2>2. l \in Heights /\ maxlevel_ # -1 /\ maxlevel_ \in Int
    BY <2>1, ConstantsAssumption DEF Heights
  <2> QED BY <2>1, <2>2, OnLevelFacts DEF OnLevel
<1>2. on = CompleteOn(l) /\ Linked(l)
  <2>1. \A n : Complete(n) <=> n \in 0 .. count - 1
    BY DEF Complete, Locked, Inserts
  <2> QED BY <1>1, <2>1 DEF OnLevel, CompleteOn, Linkable, LinkedInv
<1>3. enterpoint_node_ \in on /\ enterpoint_node_ \in Slots
  <2>1. Complete(enterpoint_node_) /\ element_levels_[enterpoint_node_] = maxlevel_
    BY <1>1 DEF InsertInv, EntryOK
  <2> QED BY <1>1, <2>1 DEF OnLevel, Complete
<1>4. PICK g : Reach(l) = g[count] /\ Grows(l, g)
  BY <1>1, <1>3, ReachGrows
<1> HIDE DEF on
<1> DEFINE enough(k) == on \subseteq g[k] \/ Cardinality(g[k]) >= k + 1
           S == {k \in Nat : k <= count => g[k] \subseteq on /\ enough(k)}
<1>5. 0 \in S
  <2>1. g[0] = {enterpoint_node_}
    BY <1>4 DEF Grows
  <2>2. Cardinality({enterpoint_node_}) = 1
    BY FS_Singleton
  <2>3. g[0] \subseteq on /\ Cardinality(g[0]) >= 0 + 1
    BY <1>3, <2>1, <2>2
  <2> QED BY <2>3
<1>6. ASSUME NEW k \in Nat, k \in S
      PROVE  k + 1 \in S
  <2> SUFFICES ASSUME k + 1 <= count PROVE g[k + 1] \subseteq on /\ enough(k + 1)
    OBVIOUS
  <2>1. k + 1 \in 1 .. count /\ (k + 1) - 1 = k /\ k <= count /\ k \in 0 .. count
    BY <1>1
  <2>2. g[k + 1] = g[k] \cup Around(l, g[k]) /\ g[k] \subseteq on /\ enough(k)
    BY <1>4, <1>6, <2>1 DEF Grows
  <2>3. Around(l, g[k]) \subseteq on
    BY <1>1, <2>2, NamedOnLevel DEF Around, on
  <2>4. enterpoint_node_ \in g[k]
    <3> DEFINE T == {j \in Nat : j <= count => enterpoint_node_ \in g[j]}
    <3>1. 0 \in T
      BY <1>4 DEF Grows
    <3>2. ASSUME NEW j \in Nat, j \in T
          PROVE  j + 1 \in T
      <4> SUFFICES ASSUME j + 1 <= count PROVE enterpoint_node_ \in g[j + 1]
        OBVIOUS
      <4>1. j + 1 \in 1 .. count /\ (j + 1) - 1 = j /\ j <= count
        BY <1>1
      <4> QED BY <1>4, <3>2, <4>1 DEF Grows
    <3>3. k \in T
      <4> HIDE DEF T
      <4> QED BY <3>1, <3>2, Algorithms!SetInduction
    <3> QED BY <2>1, <3>3
  <2>5. CASE on \subseteq g[k]
    BY <2>2, <2>3, <2>5
  <2>6. CASE ~ (on \subseteq g[k])
    <3>1. PICK a \in g[k], b \in on \ g[k] : Both(l, a, b)
      BY <1>2, <2>2, <2>4, <2>6 DEF Linked
    <3>2. b \in g[k + 1]
      BY <2>2, <3>1 DEF Around, Both
    <3>3. IsFiniteSet(g[k]) /\ IsFiniteSet(g[k + 1]) /\ Cardinality(g[k]) \in Nat
          /\ Cardinality(g[k + 1]) \in Nat
      BY <1>1, <2>2, <2>3, SlotsFinite
    <3>4. Cardinality(g[k] \cup {b}) = Cardinality(g[k]) + 1
      BY <3>1, <3>3, FS_AddElement
    <3>5. Cardinality(g[k] \cup {b}) <= Cardinality(g[k + 1])
      BY <2>2, <3>2, <3>3, FS_Subset
    <3>6. Cardinality(g[k + 1]) >= (k + 1) + 1
      BY <2>2, <2>6, <3>3, <3>4, <3>5
    <3> QED BY <2>2, <2>3, <3>6
  <2> QED BY <2>5, <2>6
<1>7. g[count] \subseteq on /\ enough(count)
  <2>1. count \in S
    <3> HIDE DEF S
    <3> QED BY <1>1, <1>5, <1>6, Algorithms!SetInduction
  <2> QED BY <1>1, <2>1
<1>8. Cardinality(g[count]) <= count /\ Cardinality(g[count]) \in Nat
  <2>1. IsFiniteSet(0 .. count - 1) /\ Cardinality(0 .. count - 1) = count
    BY <1>1, FS_Interval
  <2>2. g[count] \subseteq 0 .. count - 1
    BY <1>1, <1>7
  <2> QED BY <2>1, <2>2, FS_Subset, FS_CardinalityType
<1> QED BY <1>1, <1>4, <1>7, <1>8 DEF on

\* If the index insertion starts from is linked on its small levels, then,
\* whenever no insertion is under way, every element of a level without more
\* elements than a list can name is reached from the entry point on it.
THEOREM ReachableFromEntry ==
  ASSUME LinkedIndexes
  PROVE  Spec => []ReachableOnEveryLevel
<1> DEFINE Inv == InsertInv /\ LinkedInv
<1>1. Init => Inv
  BY InitInv, InitLinked
<1>2. Inv /\ [Next]_vars => Inv'
  <2> SUFFICES ASSUME InsertInv, LinkedInv, [Next]_vars PROVE Inv'
    OBVIOUS
  <2>1. InsertInv'
    BY InsertStep
  <2>2. ASSUME NEW t \in Threads, Worker(t) PROVE LinkedInv'
    BY <2>1, <2>2, RegisterLinked, AsidesLinked, EnterGlobalLinked, ReadEntryLinked,
       CopyEntryLinked, DescendLinked, BeginLevelsLinked, StartSearchLinked, ExpandLinked,
       WriteOwnListLinked, ConnectNeighborLinked, NextLevelLinked, FinishLinked DEF Worker
  <2>3. ASSUME NEW n \in Toggled, Toggle(n) PROVE LinkedInv'
    BY <2>3, AsidesLinked
  <2>4. CASE UNCHANGED vars
    BY <2>1, <2>4, AsidesLinked
  <2> QED BY <2>1, <2>2, <2>3, <2>4 DEF Next, Added
<1>3. Inv => ReachableOnEveryLevel
  BY SmallReached DEF ReachableOnEveryLevel, Small
<1> HIDE DEF Inv
<1> QED BY <1>1, <1>2, <1>3, PTL DEF Spec

-------------------------------------------------------------------------------
(***************************************************************************)
(* Updates beside insertions, for any number of threads of both kinds:     *)
(* the lists stay sound and no call reports a corrupt graph.  UpdateInv,   *)
(* which HNSWUpdate defines, adds to InsertInv what an updater has in      *)
(* hand.  An updater keeps no lock while it computes, so all it relies on  *)
(* must be such that no step of anybody takes it back: that an element is  *)
(* there, on a level, complete, or published there (LocalsKeep).           *)
(***************************************************************************)

\* An updater's step: it goes on with sound locals, and with the same element
\* or with none.
Advances(u) ==
  \E r \in Locals : /\ LocalsOK(r) /\ Goes(u, r)
                    /\ r.at # "idle" => r.id = up[u].id /\ up[u].at # "idle"

\* The locals of the threads that insert, and all of the index but its lists
\* and marks, which a step of an updater leaves alone
Aside ==
  UNCHANGED <<count, element_levels_, data, maxlevel_, enterpoint_node_, global, todo, pc, cur_c,
              entry, level, beam, rest>>

-------------------------------------------------------------------------------
(* Frames *)

\* FactsKeep, in the words of HNSWInsert.
LEMMA FactsKept ==
  ASSUME TypeOK, Onward
  PROVE  /\ \A n : Complete(n) => Complete(n)'
         /\ \A n, l : Linkable(n, l) => Linkable(n, l)'
         /\ \A n : \A l \in Heights : Seen(n, l) => Seen(n, l)'
<1>1. ASSUME NEW n, Complete(n) PROVE Complete(n)'
  <2>1. CompleteNext(n)
    BY <1>1, FactsKeep
  <2> QED BY <2>1 DEF CompleteNext, Complete, Locked, Inserts
<1>2. ASSUME NEW n, NEW l, Linkable(n, l) PROVE Linkable(n, l)'
  <2>1. LinkableNext(n, l)
    BY <1>2, FactsKeep
  <2> QED BY <2>1 DEF LinkableNext, CompleteNext, Linkable, Complete, Locked, Inserts
<1>3. ASSUME NEW n, NEW l \in Heights, Seen(n, l) PROVE Seen(n, l)'
  <2>1. SeenNext(n, l)
    BY <1>3, FactsKeep
  <2> QED BY <2>1 DEF SeenNext, PastNext, Seen, Past, Inserts
<1> QED BY <1>1, <1>2, <1>3

\* The numbers an updater compares.
LEMMA UpdaterFacts ==
  ASSUME TypeOK, NEW r \in Locals, LocalsOK(r), r.at # "idle"
  PROVE  /\ r.id \in Slots /\ r.id \in 0 .. count - 1 /\ Complete(r.id)
         /\ element_levels_[r.id] \in Heights /\ element_levels_[r.id] \in Int
         /\ element_levels_[r.id] >= 0
         /\ r.level \in Int /\ r.level >= 0
         /\ r.maxLevelCopy \in Heights /\ r.maxLevelCopy \in Int
         /\ element_levels_[r.id] <= r.maxLevelCopy
         /\ count \in Nat /\ maxlevel_ \in Int /\ r.maxLevelCopy <= maxlevel_
<1>1. /\ Complete(r.id) /\ element_levels_[r.id] <= r.maxLevelCopy
      /\ r.maxLevelCopy <= maxlevel_
  BY DEF LocalsOK, ElementOK
<1>2. /\ r.id \in {NoEntry} \cup Slots /\ r.maxLevelCopy \in {-1} \cup Heights
      /\ r.level \in 0 .. MaxLevel + 1
  BY DEF Locals
<1>3. count \in Nat /\ maxlevel_ \in Int /\ MaxLevel \in Nat
  BY ConstantsAssumption DEF TypeOK, Heights
<1>4. r.id \in 0 .. count - 1 /\ r.id \in Slots
  BY <1>1, <1>2, <1>3 DEF Complete, NoEntry
<1>5. element_levels_[r.id] \in Heights
  BY <1>4 DEF TypeOK
<1> QED BY <1>1, <1>2, <1>3, <1>4, <1>5 DEF Heights

\* On a level of the element's or below, or of the index when the update
\* began, the level is one that the arrays have.
LEMMA LevelFacts ==
  ASSUME TypeOK, NEW r \in Locals, LocalsOK(r),
         r.at \in {"twohop", "rewrite", "descend", "start", "search", "connect"}
  PROVE  r.level \in Heights
<1>1. r.level <= r.maxLevelCopy
  BY UpdaterFacts DEF LocalsOK, CollectedOK, DescentOK, SearchOK
<1>2. r.level \in Int /\ r.level >= 0 /\ r.maxLevelCopy \in Heights
  BY UpdaterFacts
<1> QED BY <1>1, <1>2, ConstantsAssumption DEF Heights

\* No step of anybody takes back what an updater relies on.
LEMMA LocalsKeep ==
  ASSUME TypeOK, TypeOK', Onward, maxlevel_' >= maxlevel_, NEW r \in Locals, LocalsOK(r)
  PROVE  LocalsOK(r)'
<1>1. /\ \A n : Complete(n) => Complete(n)'
      /\ \A n, l : Linkable(n, l) => Linkable(n, l)'
      /\ \A n : \A l \in Heights : Seen(n, l) => Seen(n, l)'
  BY FactsKept
<1>2. r.at # "idle" => element_levels_'[r.id] = element_levels_[r.id]
  BY UpdaterFacts DEF Onward
<1>3. r.at # "idle" => ElementOK(r)'
  <2>1. maxlevel_ \in Int /\ maxlevel_' \in Int
    BY ConstantsAssumption DEF TypeOK, Heights
  <2> QED BY <1>1, <1>2, <2>1, UpdaterFacts DEF LocalsOK, ElementOK
<1>4. r.at \in {"twohop", "rewrite"} => CollectedOK(r)'
  BY <1>1, <1>2, LevelFacts DEF LocalsOK, CollectedOK
<1>5. r.at = "descend" => DescentOK(r)'
  BY <1>1, <1>2, LevelFacts DEF LocalsOK, DescentOK
<1>6. r.at \in {"start", "search", "connect"} => SearchOK(r)'
  BY <1>1, <1>2, LevelFacts DEF LocalsOK, SearchOK
<1>7. r.at \notin {"idle", "entry"} => Linkable(r.entryPointCopy, r.maxLevelCopy)'
  BY <1>1 DEF LocalsOK
<1> QED BY <1>3, <1>4, <1>5, <1>6, <1>7 DEF LocalsOK

\* Of a step of an updater only its own locals, and the invariant of
\* insertion, need looking at.
LEMMA UpdaterKeeps ==
  ASSUME UpdateInv, NEW u \in Updaters, Advances(u), InsertInv', Aside,
         UNCHANGED <<deleted, renewals>>
  PROVE  UpdateInv'
<1>1. PICK r \in Locals : /\ LocalsOK(r) /\ Goes(u, r)
                          /\ r.at # "idle" => r.id = up[u].id /\ up[u].at # "idle"
  BY DEF Advances
<1>2. /\ up \in [Updaters -> Locals] /\ up' = [up EXCEPT ![u] = r]
  BY <1>1 DEF UpdateInv, Goes
<1>3. up' \in [Updaters -> Locals] /\ up'[u] = r /\ \A v \in Updaters \ {u} : up'[v] = up[v]
  BY <1>2
<1>4. Onward /\ TypeOK /\ TypeOK' /\ maxlevel_' >= maxlevel_
  <2>1. TypeOK /\ TypeOK' /\ count \in Nat /\ maxlevel_ \in Int
    BY ConstantsAssumption DEF UpdateInv, InsertInv, TypeOK, Heights
  <2> QED BY <2>1 DEF Aside, Onward, Inserts, Past, PastNext
<1>5. Restored'
  BY <1>1, <1>3 DEF UpdateInv, Restored
<1>6. ASSUME NEW v \in Updaters PROVE LocalsOK(up[v])'
  <2>1. PICK q \in Locals : q = up'[v] /\ LocalsOK(q)
    BY <1>1, <1>3 DEF UpdateInv
  <2>2. LocalsOK(q)'
    BY <1>4, <2>1, LocalsKeep
  <2> QED BY <2>1, <2>2
<1> QED BY <1>3, <1>5, <1>6 DEF UpdateInv
\* A step that writes no list
LEMMA ReadingKeeps ==
  ASSUME UpdateInv, NEW u \in Updaters, Advances(u), Aside, UNCHANGED <<links, deleted, renewals>>
  PROVE  UpdateInv'
<1>1. InsertInv'
  BY AsidesKeep DEF UpdateInv, Aside, vars, index
<1> QED BY <1>1, UpdaterKeeps

-------------------------------------------------------------------------------
(* updatePoint, step by step *)

\* The element is restored and its label locked; the index is as high as the
\* element.
LEMMA StartUpdateKeeps ==
  ASSUME UpdateInv, NEW u \in Updaters, StartUpdate(u), Aside
  PROVE  UpdateInv'
<1>1. PICK n \in renewals :
        /\ n < count /\ ~ Locked(n)
        /\ renewals' = renewals \ {n}
        /\ deleted' = deleted \ {n}
        /\ Goes(u, [Idle EXCEPT !.at = "entry", !.id = n, !.maxLevelCopy = maxlevel_])
        /\ links' = links
  BY DEF StartUpdate
<1> PICK r : r = [Idle EXCEPT !.at = "entry", !.id = n, !.maxLevelCopy = maxlevel_]
  OBVIOUS
<1>2. /\ TypeOK /\ EntryOK /\ GlobalOK /\ NeverThrown /\ InsertInv
      /\ n \in Slots /\ count \in Nat /\ maxlevel_ \in Int
  BY UpdatersAssumption, ConstantsAssumption DEF UpdateInv, InsertInv, TypeOK, Heights
<1>3. Complete(n)
  BY <1>1, <1>2 DEF Complete, Slots
<1>4. element_levels_[n] <= maxlevel_
  <2>1. ASSUME NEW t \in Threads, cur_c[t] = n, pc[t] = "enter" \/ global = t
        PROVE  FALSE
    <3>1. pc[t] \notin {"idle", "thrown"}
      BY <1>2, <2>1, ConstantsAssumption DEF GlobalOK, NeverThrown
    <3> QED BY <1>3, <2>1, <3>1 DEF Complete, Locked, Inserts
  <2> QED BY <1>2, <1>3, <2>1 DEF EntryOK, Complete
<1>5. InsertInv'
  <2>1. deleted' \subseteq Slots /\ todo' \subseteq NewPoints
    BY <1>1, <1>2 DEF TypeOK, Aside
  <2> QED BY <1>1, <1>2, <2>1, MarksKeep DEF Aside, entry, beam
<1>6. r \in Locals /\ r.at = "entry" /\ r.id = n /\ r.maxLevelCopy = maxlevel_
  <2>1. 0 \in 0 .. MaxLevel + 1 /\ maxlevel_ \in {-1} \cup Heights
    BY <1>2, ConstantsAssumption DEF TypeOK
  <2> QED BY <1>2, <2>1 DEF Idle, Locals
<1>7. LocalsOK(r)
  BY <1>2, <1>3, <1>4, <1>6 DEF LocalsOK, ElementOK
<1>8. /\ up' \in [Updaters -> Locals] /\ up'[u] = r
      /\ \A v \in Updaters \ {u} : up'[v] = up[v]
  BY <1>1, <1>6 DEF Goes, UpdateInv
<1>9. Restored'
  BY <1>1, <1>6, <1>8 DEF UpdateInv, Restored
<1>10. Onward /\ TypeOK' /\ maxlevel_' >= maxlevel_
  BY <1>2, <1>5 DEF Aside, Onward, Inserts, Past, PastNext, InsertInv
<1>11. ASSUME NEW v \in Updaters PROVE LocalsOK(up[v])'
  <2>1. PICK q \in Locals : q = up'[v] /\ LocalsOK(q)
    BY <1>6, <1>7, <1>8 DEF UpdateInv
  <2>2. LocalsOK(q)'
    BY <1>2, <1>10, <2>1, LocalsKeep
  <2> QED BY <2>1, <2>2
<1>12. renewals' \subseteq Renewed
  BY <1>1 DEF UpdateInv
<1> QED BY <1>5, <1>8, <1>9, <1>11, <1>12 DEF UpdateInv

\* The entry point is at least as high as the index was at the start.
LEMMA ReadEntryPointAdvances ==
  ASSUME UpdateInv, NEW u \in Updaters, ReadEntryPoint(u)
  PROVE  Advances(u)
<1> PICK r : r = up[u]
  OBVIOUS
<1>1. /\ TypeOK /\ EntryOK /\ r \in Locals /\ LocalsOK(r) /\ r.at = "entry"
      /\ \/ Goes(u, Idle)
         \/ Goes(u, [r EXCEPT !.at = "onehop", !.entryPointCopy = enterpoint_node_])
  BY DEF UpdateInv, InsertInv, ReadEntryPoint
<1>2. Idle \in Locals /\ LocalsOK(Idle) /\ Idle.at = "idle"
  <2>1. 0 \in 0 .. MaxLevel + 1
    BY ConstantsAssumption
  <2> QED BY <2>1 DEF Idle, Locals, LocalsOK
<1>3. CASE Goes(u, Idle)
  BY <1>2, <1>3 DEF Advances
<1>4. CASE Goes(u, [r EXCEPT !.at = "onehop", !.entryPointCopy = enterpoint_node_])
  <2> PICK q : q = [r EXCEPT !.at = "onehop", !.entryPointCopy = enterpoint_node_]
    OBVIOUS
  <2>1. /\ q \in Locals /\ q.at = "onehop" /\ q.entryPointCopy = enterpoint_node_
        /\ q.id = r.id /\ q.maxLevelCopy = r.maxLevelCopy
    BY <1>1, ZenonT(60) DEF Locals, TypeOK
  <2>2. Linkable(enterpoint_node_, r.maxLevelCopy)
    <3>1. /\ r.maxLevelCopy \in Int /\ r.maxLevelCopy >= 0 /\ maxlevel_ \in Int
          /\ r.maxLevelCopy <= maxlevel_
      BY <1>1, UpdaterFacts, ConstantsAssumption DEF Heights
    <3> QED BY <1>1, <3>1 DEF EntryOK, Linkable
  <2>3. LocalsOK(q)
    BY <1>1, <2>1, <2>2 DEF LocalsOK, ElementOK
  <2> QED BY <1>1, <1>4, <2>1, <2>3 DEF Advances
<1> QED BY <1>1, <1>3, <1>4

\* Whoever is on the list of the element can be met on the level.
LEMMA OneHopAdvances ==
  ASSUME UpdateInv, NEW u \in Updaters, OneHop(u)
  PROVE  Advances(u)
<1> PICK r : r = up[u]
  OBVIOUS
<1> DEFINE near == links[r.level][r.id]
<1>1. /\ TypeOK /\ InsertInv /\ r \in Locals /\ LocalsOK(r) /\ r.at = "onehop"
      /\ r.level <= element_levels_[r.id]
      /\ \/ Goes(u, [r EXCEPT !.level = r.level + 1])
         \/ Goes(u, [r EXCEPT !.at = "twohop", !.sCand = {r.id} \cup near,
                              !.sNeigh = near, !.todo = near])
  BY DEF UpdateInv, InsertInv, OneHop, elemLevel
<1>2. /\ r.level \in Int /\ r.level >= 0 /\ r.id \in Slots /\ Complete(r.id)
      /\ element_levels_[r.id] \in Heights
  BY <1>1, UpdaterFacts
<1>3. r.level \in Heights /\ r.level + 1 \in 0 .. MaxLevel + 1
  BY <1>1, <1>2, ConstantsAssumption DEF Heights
<1>4. near \in SUBSET Slots /\ \A n \in near : Seen(n, r.level)
  <2>1. near \in SUBSET Slots
    BY <1>1, <1>2, <1>3 DEF TypeOK
  <2> QED BY <1>1, <1>2, <1>3, <2>1, NamedIsSeen
<1>5. Seen(r.id, r.level)
  BY <1>1, <1>2, LinkableSeen DEF Linkable
<1> HIDE DEF near
<1>6. CASE Goes(u, [r EXCEPT !.level = r.level + 1])
  <2> PICK q : q = [r EXCEPT !.level = r.level + 1]
    OBVIOUS
  <2>1. /\ q \in Locals /\ q.at = "onehop" /\ q.entryPointCopy = r.entryPointCopy
        /\ q.id = r.id /\ q.maxLevelCopy = r.maxLevelCopy
    BY <1>1, <1>3 DEF Locals
  <2>2. LocalsOK(q)
    BY <1>1, <2>1 DEF LocalsOK, ElementOK
  <2> QED BY <1>1, <1>6, <2>1, <2>2 DEF Advances
<1>7. CASE Goes(u, [r EXCEPT !.at = "twohop", !.sCand = {r.id} \cup near,
                             !.sNeigh = near, !.todo = near])
  <2> PICK q : q = [r EXCEPT !.at = "twohop", !.sCand = {r.id} \cup near,
                             !.sNeigh = near, !.todo = near]
    OBVIOUS
  <2>1. /\ q \in Locals /\ q.at = "twohop" /\ q.entryPointCopy = r.entryPointCopy
        /\ q.id = r.id /\ q.maxLevelCopy = r.maxLevelCopy /\ q.level = r.level
        /\ q.sCand = {r.id} \cup near /\ q.sNeigh = near /\ q.todo = near
    BY <1>1, <1>2, <1>4, ZenonT(30) DEF Locals
  <2>2. CollectedOK(q)
    BY <1>1, <1>4, <1>5, <2>1 DEF CollectedOK
  <2>3. LocalsOK(q)
    BY <1>1, <2>1, <2>2 DEF LocalsOK, ElementOK
  <2> QED BY <1>1, <1>7, <2>1, <2>3 DEF Advances
<1> QED BY <1>1, <1>6, <1>7

\* And so can the neighbours of a neighbour.
LEMMA TwoHopAdvances ==
  ASSUME UpdateInv, NEW u \in Updaters, TwoHop(u)
  PROVE  Advances(u)
<1> PICK r : r = up[u]
  OBVIOUS
<1>1. PICK n \in r.todo, at \in {"twohop", "rewrite"} :
        Goes(u, [r EXCEPT !.sCand = r.sCand \cup links[r.level][n],
                          !.todo = r.todo \ {n}, !.at = at])
  <2>1. r.at = "twohop"
    BY DEF TwoHop
  <2> QED BY <2>1 DEF TwoHop
<1>2. /\ TypeOK /\ InsertInv /\ r \in Locals /\ LocalsOK(r) /\ r.at = "twohop" /\ CollectedOK(r)
  BY DEF UpdateInv, InsertInv, TwoHop, LocalsOK
<1>3. r.level \in Heights /\ n \in Slots
  BY <1>1, <1>2, LevelFacts DEF Locals
<1>4. links[r.level][n] \in SUBSET Slots /\ \A c \in links[r.level][n] : Seen(c, r.level)
  <2>1. links[r.level][n] \in SUBSET Slots
    BY <1>2, <1>3 DEF TypeOK
  <2> QED BY <1>2, <1>3, <2>1, NamedIsSeen
<1> PICK q : q = [r EXCEPT !.sCand = r.sCand \cup links[r.level][n],
                           !.todo = r.todo \ {n}, !.at = at]
  OBVIOUS
<1>5. /\ q \in Locals /\ q.at = at /\ q.entryPointCopy = r.entryPointCopy
      /\ q.id = r.id /\ q.maxLevelCopy = r.maxLevelCopy /\ q.level = r.level
      /\ q.sCand = r.sCand \cup links[r.level][n] /\ q.sNeigh = r.sNeigh
      /\ q.todo = r.todo \ {n}
  BY <1>2, <1>4, ZenonT(30) DEF Locals
<1>6. CollectedOK(q)
  BY <1>2, <1>4, <1>5 DEF CollectedOK
<1>7. LocalsOK(q)
  BY <1>2, <1>5, <1>6 DEF LocalsOK, ElementOK
<1> QED BY <1>1, <1>2, <1>5, <1>7 DEF Advances

-------------------------------------------------------------------------------
(* repairConnectionsForUpdate, step by step *)

\* An updater stays in its type when one of these fields changes.
LEMMA FieldChanged ==
  ASSUME NEW r \in Locals
  PROVE  /\ \A x \in {NoEntry} \cup Slots : [r EXCEPT !.currObj = x] \in Locals
         /\ \A x \in 0 .. MaxLevel + 1 : [r EXCEPT !.level = x] \in Locals
<1> PICK H, O : H = 0 .. MaxLevel + 1 /\ O = {NoEntry} \cup Slots
  OBVIOUS
<1>1. ASSUME NEW x \in O PROVE [r EXCEPT !.currObj = x] \in Locals
  BY <1>1, ZenonT(30) DEF Locals
<1>2. ASSUME NEW x \in H PROVE [r EXCEPT !.level = x] \in Locals
  BY <1>2, ZenonT(30) DEF Locals
<1> QED BY <1>1, <1>2

\* The descent begins at the entry point.
LEMMA StartRepairAdvances ==
  ASSUME UpdateInv, NEW u \in Updaters, StartRepair(u)
  PROVE  Advances(u)
<1> PICK r : r = up[u]
  OBVIOUS
<1> PICK q : q = [r EXCEPT !.at = "descend", !.currObj = r.entryPointCopy,
                           !.level = r.maxLevelCopy]
  OBVIOUS
<1>1. TypeOK /\ r \in Locals /\ LocalsOK(r) /\ r.at = "onehop" /\ Goes(u, q)
  BY DEF UpdateInv, InsertInv, StartRepair
<1>2. /\ r.maxLevelCopy \in Heights /\ r.maxLevelCopy \in Int
      /\ element_levels_[r.id] <= r.maxLevelCopy
  BY <1>1, UpdaterFacts
<1>3. /\ q \in Locals /\ q.at = "descend" /\ q.entryPointCopy = r.entryPointCopy
      /\ q.id = r.id /\ q.maxLevelCopy = r.maxLevelCopy /\ q.level = r.maxLevelCopy
      /\ q.currObj = r.entryPointCopy
  <2>1. r.maxLevelCopy \in 0 .. MaxLevel + 1
    BY <1>2, ConstantsAssumption DEF Heights
  <2>2. r.entryPointCopy \in {NoEntry} \cup Slots
    BY <1>1 DEF Locals
  <2>3. q \in Locals
    <3> PICK a, b : /\ a = [r EXCEPT !.at = "descend"]
                    /\ b = [a EXCEPT !.currObj = r.entryPointCopy]
      OBVIOUS
    <3>1. a \in Locals
      BY <1>1 DEF Locals
    <3>2. b \in Locals
      BY <2>2, <3>1, FieldChanged
    <3>3. [b EXCEPT !.level = r.maxLevelCopy] \in Locals
      BY <2>1, <3>2, FieldChanged
    <3>4. q = [b EXCEPT !.level = r.maxLevelCopy]
      BY <1>1, ZenonT(30) DEF Locals
    <3> QED BY <3>3, <3>4
  <2> QED BY <1>1, <2>3, ZenonT(30) DEF Locals
<1>4. Linkable(r.entryPointCopy, r.maxLevelCopy)
  BY <1>1 DEF LocalsOK
<1>5. DescentOK(q)
  BY <1>2, <1>3, <1>4, LinkableSeen DEF DescentOK, Linkable
<1>6. LocalsOK(q)
  BY <1>1, <1>3, <1>5 DEF LocalsOK, ElementOK
<1> QED BY <1>1, <1>3, <1>6 DEF Advances

\* Above the element's level a search only meets elements that have published
\* themselves there; below, it goes on from one that was not locked.
LEMMA DescendAdvances ==
  ASSUME UpdateInv, NEW u \in Updaters, DescendToUpdate(u)
  PROVE  Advances(u)
<1> PICK r : r = up[u]
  OBVIOUS
<1>1. /\ TypeOK /\ InsertInv /\ r \in Locals /\ LocalsOK(r) /\ r.at = "descend"
      /\ r.level > element_levels_[r.id] /\ ~ Locked(r.currObj) /\ DescentOK(r)
      /\ \/ Goes(u, [r EXCEPT !.level = r.level - 1])
         \/ \E c \in links[r.level][r.currObj] : Goes(u, [r EXCEPT !.currObj = c])
  BY DEF UpdateInv, InsertInv, DescendToUpdate, elemLevel, LocalsOK
<1>2. /\ r.level \in Heights /\ r.level \in Int /\ element_levels_[r.id] \in Int
      /\ element_levels_[r.id] >= 0 /\ r.maxLevelCopy \in Int
  BY <1>1, LevelFacts, UpdaterFacts
<1>3. Complete(r.currObj) /\ Seen(r.currObj, r.level) /\ r.currObj \in Slots
  <2>1. Seen(r.currObj, r.level)
    BY <1>1 DEF DescentOK
  <2>2. r.currObj \in {NoEntry} \cup Slots
    BY <1>1 DEF Locals
  <2> QED BY <1>1, <2>1, <2>2 DEF Seen, Complete, NoEntry
<1>4. CASE Goes(u, [r EXCEPT !.level = r.level - 1])
  <2> PICK q : q = [r EXCEPT !.level = r.level - 1]
    OBVIOUS
  <2>1. /\ q \in Locals /\ q.at = "descend" /\ q.entryPointCopy = r.entryPointCopy
        /\ q.id = r.id /\ q.maxLevelCopy = r.maxLevelCopy /\ q.level = r.level - 1
        /\ q.currObj = r.currObj
    <3>1. r.level - 1 \in 0 .. MaxLevel + 1
      BY <1>1, <1>2, ConstantsAssumption DEF Heights
    <3> QED BY <1>1, <3>1 DEF Locals
  <2>2. Linkable(r.currObj, r.level - 1)
    <3>1. element_levels_[r.currObj] \in Int /\ element_levels_[r.currObj] >= r.level
      BY <1>1, <1>3 DEF TypeOK, Seen, Heights
    <3> QED BY <1>2, <1>3, <3>1 DEF Linkable
  <2>3. DescentOK(q)
    <3>1. element_levels_[r.id] <= r.level - 1 /\ r.level - 1 <= r.maxLevelCopy
      BY <1>1, <1>2 DEF DescentOK
    <3>2. Seen(r.currObj, r.level - 1)
      BY <2>2, LinkableSeen
    <3> QED BY <1>3, <2>1, <3>1, <3>2 DEF DescentOK
  <2>4. LocalsOK(q)
    BY <1>1, <2>1, <2>3 DEF LocalsOK, ElementOK
  <2> QED BY <1>1, <1>4, <2>1, <2>4 DEF Advances
<1>5. CASE \E c \in links[r.level][r.currObj] : Goes(u, [r EXCEPT !.currObj = c])
  <2>1. PICK c \in links[r.level][r.currObj] : Goes(u, [r EXCEPT !.currObj = c])
    BY <1>5
  <2>2. c \in Slots /\ Seen(c, r.level)
    BY <1>1, <1>2, <1>3, NamedIsSeen
  <2> PICK q : q = [r EXCEPT !.currObj = c]
    OBVIOUS
  <2>3. /\ q \in Locals /\ q.at = "descend" /\ q.entryPointCopy = r.entryPointCopy
        /\ q.id = r.id /\ q.maxLevelCopy = r.maxLevelCopy /\ q.level = r.level
        /\ q.currObj = c
    BY <1>1, <2>2 DEF Locals
  <2>4. DescentOK(q)
    BY <1>1, <1>2, <2>2, <2>3 DEF DescentOK
  <2>5. LocalsOK(q)
    BY <1>1, <2>3, <2>4 DEF LocalsOK, ElementOK
  <2> QED BY <1>1, <2>1, <2>3, <2>5 DEF Advances
<1> QED BY <1>1, <1>4, <1>5

\* The element is not higher than the index was, so the exception about its
\* level is not thrown.
LEMMA BeginRepairAdvances ==
  ASSUME UpdateInv, NEW u \in Updaters, BeginRepair(u)
  PROVE  Advances(u)
<1> PICK r : r = up[u]
  OBVIOUS
<1> PICK q : q = [r EXCEPT !.at = "start", !.level = element_levels_[r.id]]
  OBVIOUS
<1>1. /\ TypeOK /\ r \in Locals /\ LocalsOK(r) /\ r.at = "descend"
      /\ r.level <= element_levels_[r.id] /\ DescentOK(r)
      /\ element_levels_[r.id] <= r.maxLevelCopy => Goes(u, q)
  <2>1. TypeOK /\ r \in Locals /\ LocalsOK(r) /\ r.at = "descend"
    BY DEF UpdateInv, InsertInv, BeginRepair
  <2>2. /\ element_levels_[r.id] \in Int /\ r.maxLevelCopy \in Int
    BY <2>1, UpdaterFacts
  <2> QED BY <2>1, <2>2 DEF BeginRepair, elemLevel, LocalsOK
<1>2. /\ r.level \in Int /\ element_levels_[r.id] \in Int /\ element_levels_[r.id] \in Heights
      /\ element_levels_[r.id] <= r.maxLevelCopy
  BY <1>1, UpdaterFacts
<1>3. r.level = element_levels_[r.id]
  BY <1>1, <1>2 DEF DescentOK
<1>4. /\ q \in Locals /\ q.at = "start" /\ q.entryPointCopy = r.entryPointCopy
      /\ q.id = r.id /\ q.maxLevelCopy = r.maxLevelCopy /\ q.level = r.level
      /\ q.currObj = r.currObj
  BY <1>1, <1>3, ZenonT(30) DEF Locals
<1>5. SearchOK(q)
  BY <1>1, <1>2, <1>3, <1>4 DEF SearchOK, DescentOK, Linkable, Seen
<1>6. LocalsOK(q)
  BY <1>1, <1>4, <1>5 DEF LocalsOK, ElementOK
<1> QED BY <1>1, <1>2, <1>4, <1>6 DEF Advances
\* A search begins at a complete element of the level.
LEMMA SearchToUpdateAdvances ==
  ASSUME UpdateInv, NEW u \in Updaters, SearchToUpdate(u)
  PROVE  Advances(u)
<1> PICK r : r = up[u]
  OBVIOUS
<1> PICK q : q = [r EXCEPT !.at = "search", !.cand = {r.currObj}, !.visited = {r.currObj},
                           !.top = {r.currObj} \ deleted]
  OBVIOUS
<1>1. TypeOK /\ r \in Locals /\ LocalsOK(r) /\ r.at = "start" /\ SearchOK(r) /\ Goes(u, q)
  BY DEF UpdateInv, InsertInv, SearchToUpdate, LocalsOK
<1>2. r.currObj \in Slots /\ Linkable(r.currObj, r.level) /\ Seen(r.currObj, r.level)
  BY <1>1, LinkableSeen DEF SearchOK, Linkable, Complete, Locals, NoEntry
<1>3. /\ q \in Locals /\ q.at = "search" /\ q.entryPointCopy = r.entryPointCopy
      /\ q.id = r.id /\ q.maxLevelCopy = r.maxLevelCopy /\ q.level = r.level
      /\ q.currObj = r.currObj /\ q.cand = {r.currObj} /\ q.top \subseteq {r.currObj}
  BY <1>1, <1>2, ZenonT(60) DEF Locals
<1>4. SearchOK(q)
  BY <1>1, <1>2, <1>3 DEF SearchOK
<1>5. LocalsOK(q)
  BY <1>1, <1>3, <1>4 DEF LocalsOK, ElementOK
<1> QED BY <1>1, <1>3, <1>5 DEF Advances

\* Whatever is expanded was not locked, and what is found can be met on the
\* level.
LEMMA ExpandAdvances ==
  ASSUME UpdateInv, NEW u \in Updaters, ExpandToUpdate(u)
  PROVE  Advances(u)
<1> PICK r : r = up[u]
  OBVIOUS
<1> DEFINE fresh(n) == links[r.level][n] \ r.visited
<1>1. /\ TypeOK /\ InsertInv /\ r \in Locals /\ LocalsOK(r) /\ r.at = "search" /\ SearchOK(r)
  BY DEF UpdateInv, InsertInv, ExpandToUpdate, LocalsOK
<1>2. PICK n \in r.cand :
        /\ ~ Locked(n)
        /\ \E considered \in SUBSET fresh(n) :
             Goes(u, [r EXCEPT
               !.visited = r.visited \cup fresh(n),
               !.cand = (r.cand \ {n}) \cup considered,
               !.top = Code!Closest(data, point(u), r.top \cup (considered \ deleted),
                                    ef_construction_)])
  <2> DEFINE C(n) == {c \in fresh(n) : FullTop(u) => Nearer(u, c)}
  <2>1. PICK n \in Code!Closest(data, point(u), r.cand, 1) :
          /\ ~ Locked(n)
          /\ Goes(u, [r EXCEPT
               !.visited = r.visited \cup fresh(n),
               !.cand = (r.cand \ {n}) \cup C(n),
               !.top = Code!Closest(data, point(u), r.top \cup (C(n) \ deleted),
                                    ef_construction_)])
    BY Zenon DEF ExpandToUpdate
  <2>2. n \in r.cand
    BY DEF Code!Closest
  <2>3. C(n) \in SUBSET fresh(n)
    OBVIOUS
  <2> HIDE DEF C
  <2> QED BY <2>1, <2>2, <2>3
<1>3. PICK considered \in SUBSET fresh(n) :
        Goes(u, [r EXCEPT
          !.visited = r.visited \cup fresh(n),
          !.cand = (r.cand \ {n}) \cup considered,
          !.top = Code!Closest(data, point(u), r.top \cup (considered \ deleted),
                               ef_construction_)])
  BY <1>2
<1> PICK T : T = Code!Closest(data, point(u), r.top \cup (considered \ deleted), ef_construction_)
  OBVIOUS
<1> PICK q : q = [r EXCEPT !.visited = r.visited \cup fresh(n),
                           !.cand = (r.cand \ {n}) \cup considered, !.top = T]
  OBVIOUS
<1>4. r.level \in Heights /\ n \in Slots /\ Seen(n, r.level) /\ Complete(n)
  <2>1. r.level \in Heights /\ n \in Slots /\ Seen(n, r.level)
    BY <1>1, LevelFacts DEF Locals, SearchOK
  <2> QED BY <1>2, <2>1 DEF Seen, Complete
<1>5. /\ fresh(n) \in SUBSET Slots /\ considered \in SUBSET Slots
      /\ \A c \in considered : Seen(c, r.level)
  <2>1. links[r.level][n] \in SUBSET Slots
    BY <1>1, <1>4 DEF TypeOK
  <2> QED BY <1>1, <1>4, <2>1, NamedIsSeen
<1>6. T \subseteq r.top \cup considered
  BY DEF Code!Closest
<1> HIDE DEF fresh
<1>7. /\ q \in Locals /\ q.at = "search" /\ q.entryPointCopy = r.entryPointCopy
      /\ q.id = r.id /\ q.maxLevelCopy = r.maxLevelCopy /\ q.level = r.level
      /\ q.currObj = r.currObj /\ q.cand = (r.cand \ {n}) \cup considered /\ q.top = T
  BY <1>1, <1>5, <1>6, ZenonT(30) DEF Locals
<1>8. SearchOK(q)
  BY <1>1, <1>4, <1>5, <1>6, <1>7 DEF SearchOK
<1>9. LocalsOK(q)
  BY <1>1, <1>7, <1>8 DEF LocalsOK, ElementOK
<1> QED BY <1>1, <1>3, <1>7, <1>9 DEF Advances

\* When the search stops, no candidate is left that is among the closest:
\* whatever was found is complete.
LEMMA FoundIsComplete ==
  ASSUME UpdateInv, NEW u \in Updaters, up[u].at = "search", StopsUpdate(u)
  PROVE  /\ FoundToUpdate(u) \subseteq Slots
         /\ \A n \in FoundToUpdate(u) : Linkable(n, up[u].level) /\ n # up[u].id
<1> PICK r : r = up[u]
  OBVIOUS
<1>1. /\ TypeOK /\ r \in Locals /\ LocalsOK(r) /\ r.at = "search" /\ SearchOK(r)
      /\ r.id \notin deleted /\ Linkable(r.entryPointCopy, r.maxLevelCopy)
  BY DEF UpdateInv, InsertInv, LocalsOK, Restored
<1>2. r.top \subseteq Slots /\ r.cand \subseteq Slots /\ r.entryPointCopy \in {NoEntry} \cup Slots
  BY <1>1 DEF Locals
<1>3. r.top \cap r.cand = {}
  <2> SUFFICES ASSUME NEW n \in r.top, n \in r.cand PROVE FALSE
    OBVIOUS
  <2> DEFINE d(x) == Dist(point(u), data[x])
  <2>1. point(u) \in Int /\ \A x \in r.top : x \in Int /\ data[x] \in Int
    <3>1. r.id \in Slots
      BY <1>1, UpdaterFacts
    <3> QED BY <1>1, <1>2, <3>1, ConstantsAssumption DEF point, TypeOK, Slots
  <2>2. IsFiniteSet(r.top) /\ r.top # {}
    BY <1>2, SlotsFinite
  <2>3. Algorithms!Comparable(data, point(u), r.top)
    BY <2>1 DEF Algorithms!Comparable
  <2>4. PICK f \in r.top : \A c \in r.top : d(c) <= d(f)
    <3>1. PICK f \in r.top :
            \A c \in r.top :
              Algorithms!Dist(point(u), data[c]) <= Algorithms!Dist(point(u), data[f])
      <4>1. Algorithms!IsFiniteSet(r.top)
        BY <2>2 DEF IsFiniteSet, Algorithms!IsFiniteSet
      <4> QED BY <2>2, <2>3, <4>1, Algorithms!FarthestExists
    <3> QED BY <3>1 DEF Dist, Algorithms!Dist
  <2>5. f \in Worst(u)
    BY <2>4 DEF Worst
  <2>6. d(n) > d(f)
    BY <2>5 DEF StopsUpdate
  <2>7. d(n) \in Int /\ d(f) \in Int
    BY <2>1 DEF Dist
  <2> QED BY <2>4, <2>6, <2>7
<1>4. \A n \in r.top : Linkable(n, r.level)
  BY <1>1, <1>3 DEF SearchOK, Seen, Linkable
<1>5. /\ r.entryPointCopy \in Slots /\ Linkable(r.entryPointCopy, r.level)
      /\ r.entryPointCopy \in deleted => r.entryPointCopy # r.id
  <2>1. r.entryPointCopy \in Slots
    BY <1>1, <1>2 DEF Linkable, Complete, NoEntry
  <2>2. /\ r.level \in Int /\ r.maxLevelCopy \in Int /\ r.level <= r.maxLevelCopy
        /\ element_levels_[r.entryPointCopy] \in Int
    <3>1. /\ r.level \in Int /\ r.maxLevelCopy \in Int /\ element_levels_[r.id] \in Int
          /\ element_levels_[r.id] <= r.maxLevelCopy
      BY <1>1, UpdaterFacts
    <3>2. element_levels_[r.entryPointCopy] \in Int
      BY <1>1, <2>1 DEF TypeOK, Heights
    <3> QED BY <1>1, <3>1, <3>2 DEF SearchOK
  <2> QED BY <1>1, <2>1, <2>2 DEF Linkable
<1>6. FoundToUpdate(u) \subseteq (r.top \cup {r.entryPointCopy}) \ {r.id}
  <2>1. Others(u) \subseteq r.top \ {r.id}
    BY DEF Others
  <2>2. CASE r.entryPointCopy \in deleted
    <3>1. FoundToUpdate(u) \subseteq Others(u) \cup {r.entryPointCopy}
      BY <2>2 DEF FoundToUpdate, Code!Closest
    <3> QED BY <1>5, <2>1, <2>2, <3>1
  <2>3. CASE r.entryPointCopy \notin deleted
    BY <2>1, <2>3 DEF FoundToUpdate
  <2> QED BY <2>2, <2>3
<1> QED BY <1>2, <1>4, <1>5, <1>6

\* One level down, the entry is still complete; below level 0 the call is over.
LEMMA DownAdvances ==
  ASSUME UpdateInv, NEW u \in Updaters, up[u].at \in {"search", "connect"}, Down(u, up[u])
  PROVE  Advances(u)
<1> PICK r : r = up[u]
  OBVIOUS
<1>1. TypeOK /\ r \in Locals /\ LocalsOK(r) /\ r.at \in {"search", "connect"} /\ SearchOK(r)
  BY DEF UpdateInv, InsertInv, LocalsOK
<1>2. CASE r.level = 0
  <2>1. Goes(u, Idle)
    BY <1>2 DEF Down
  <2>2. Idle \in Locals /\ LocalsOK(Idle) /\ Idle.at = "idle"
    <3>1. 0 \in 0 .. MaxLevel + 1
      BY ConstantsAssumption
    <3> QED BY <3>1 DEF Idle, Locals, LocalsOK
  <2> QED BY <2>1, <2>2 DEF Advances
<1>3. CASE r.level # 0
  <2> PICK q : q = [r EXCEPT !.at = "start", !.level = r.level - 1, !.cand = {}, !.visited = {},
                             !.top = {}, !.todo = {}]
    OBVIOUS
  <2>1. Goes(u, q)
    BY <1>3 DEF Down
  <2>2. /\ r.level \in Int /\ r.level >= 0 /\ element_levels_[r.id] \in Int
        /\ r.level - 1 \in 0 .. MaxLevel + 1
    <3>1. /\ r.level \in Int /\ r.level >= 0 /\ element_levels_[r.id] \in Int
          /\ r.level \in 0 .. MaxLevel + 1
      BY <1>1, UpdaterFacts DEF Locals
    <3> QED BY <1>3, <3>1, ConstantsAssumption
  <2>3. /\ q \in Locals /\ q.at = "start" /\ q.entryPointCopy = r.entryPointCopy
        /\ q.id = r.id /\ q.maxLevelCopy = r.maxLevelCopy /\ q.level = r.level - 1
        /\ q.currObj = r.currObj
    BY <1>1, <2>2, ZenonT(60) DEF Locals
  <2>4. Linkable(r.currObj, r.level - 1)
    <3>1. r.currObj \in Slots /\ Linkable(r.currObj, r.level)
      BY <1>1 DEF SearchOK, Linkable, Complete, Locals, NoEntry
    <3>2. element_levels_[r.currObj] \in Int
      BY <1>1, <3>1 DEF TypeOK, Heights
    <3> QED BY <2>2, <3>1, <3>2 DEF Linkable
  <2>5. SearchOK(q)
    BY <1>1, <2>2, <2>3, <2>4 DEF SearchOK
  <2>6. LocalsOK(q)
    BY <1>1, <2>3, <2>5 DEF LocalsOK, ElementOK
  <2> QED BY <1>1, <2>1, <2>3, <2>6 DEF Advances
<1> QED BY <1>2, <1>3

-------------------------------------------------------------------------------
(* The steps that write a list *)

\* A list of a complete element may be replaced by anything that can be met on
\* the level, fits and leaves the owner out.
LEMMA ListReplaced ==
  ASSUME InsertInv, Aside, deleted' = deleted,
         NEW l \in Heights, NEW o \in Slots, Complete(o),
         NEW L \in SUBSET Slots, Cardinality(L) <= Mcurmax(M, l),
         \A c \in L : c # o /\ Seen(c, l),
         links' = [links EXCEPT ![l][o] = L]
  PROVE  InsertInv'
<1>1. TypeOK /\ count \in Nat
  BY ConstantsAssumption DEF InsertInv, TypeOK
<1>2. \A k \in Heights, x \in Slots : links'[k][x] = IF k = l /\ x = o THEN L ELSE links[k][x]
  BY <1>1 DEF TypeOK
<1>3. TypeOK'
  <2>1. links' \in [Heights -> [Slots -> SUBSET Slots]]
    BY <1>1 DEF TypeOK
  <2> QED BY <1>1, <2>1 DEF Aside, TypeOK, entry, beam
<1>4. VectorsOK' /\ OwnOK' /\ NeverThrown'
  BY DEF InsertInv, VectorsOK, OwnOK, NeverThrown, Aside
<1>5. GlobalOK'
  BY DEF InsertInv, GlobalOK, curlevel, Aside, entry
<1>6. EntryOK'
  BY DEF InsertInv, EntryOK, Complete, Locked, Inserts, Aside
<1>7. FreshOK'
  <2>1. \A x \in Slots : x >= count => x # o
    BY <1>1 DEF Complete
  <2> QED BY <1>2, <2>1 DEF InsertInv, FreshOK, Aside
<1>8. ListsSound'
  <2>1. \A c \in L : c < count /\ element_levels_[c] >= l
    BY <1>1 DEF Seen
  <2> QED BY <1>2, <2>1 DEF InsertInv, ListsSound, Aside
<1>9. UnpublishedOK'
  <2>1. ASSUME NEW w \in Threads, NEW k \in Heights, Unpublished(w, k)
        PROVE  links'[k][cur_c[w]] = {} /\ \A x \in Slots : cur_c[w] \notin links'[k][x]
    <3>1. links[k][cur_c[w]] = {} /\ \A x \in Slots : cur_c[w] \notin links[k][x]
      BY <2>1 DEF InsertInv, UnpublishedOK
    <3>2. cur_c[w] # o
      BY <2>1, UnpublishedLocked
    <3>3. k = l => cur_c[w] \notin L
      <4> SUFFICES ASSUME k = l, cur_c[w] \in L PROVE FALSE
        OBVIOUS
      <4>1. Past(w, l)
        BY <2>1 DEF Seen, Inserts, Unpublished
      <4>2. level[w] \in Int /\ l \in Int
        BY <1>1, ConstantsAssumption DEF TypeOK, Heights
      <4> QED BY <2>1, <4>1, <4>2 DEF Past, Unpublished
    <3>4. cur_c[w] \in Slots
      BY <1>1, <2>1, NumberFacts DEF InsertInv, Unpublished
    <3> QED BY <1>2, <3>1, <3>2, <3>3, <3>4
  <2> QED BY <2>1 DEF UnpublishedOK, Unpublished, Aside
<1>10. ASSUME NEW w \in Threads PROVE ThreadOK(w)'
  <2>1. Onward /\ Same(w)
    BY <1>1 DEF Aside, entry, beam, Onward, Same, Inserts, Past, PastNext
  <2> QED BY <2>1, OthersKeep DEF InsertInv
<1> QED BY <1>3, <1>4, <1>5, <1>6, <1>7, <1>8, <1>9, <1>10 DEF InsertInv

\* A neighbour's new list is taken from what was collected on the level.
LEMMA RewriteKeeps ==
  ASSUME UpdateInv, NEW u \in Updaters, Rewrite(u), Aside
  PROVE  UpdateInv'
<1> PICK r : r = up[u]
  OBVIOUS
<1>1. /\ TypeOK /\ VectorsOK /\ InsertInv /\ r \in Locals /\ LocalsOK(r) /\ r.at = "rewrite"
      /\ CollectedOK(r) /\ UNCHANGED <<deleted, renewals>>
  BY DEF UpdateInv, InsertInv, Rewrite, LocalsOK
<1>2. PICK n \in r.sNeigh :
        /\ ~ Locked(n)
        /\ links' = [links EXCEPT ![r.level][n] = NewList(u, n)]
        /\ Goes(u, IF r.sNeigh # {n} THEN [r EXCEPT !.sNeigh = r.sNeigh \ {n}]
                   ELSE [r EXCEPT !.sNeigh = {}, !.sCand = {}, !.at = "onehop",
                                  !.level = r.level + 1])
  BY DEF Rewrite
<1>3. /\ r.level \in Heights /\ n \in Slots /\ r.sCand \in SUBSET Slots /\ Complete(n)
      /\ \A c \in r.sCand : Seen(c, r.level)
  <2>1. r.level \in Heights /\ r.sCand \in SUBSET Slots
    BY <1>1, LevelFacts DEF Locals
  <2>2. n \in r.sCand /\ \A c \in r.sCand : Seen(c, r.level)
    BY <1>1, <1>2 DEF CollectedOK
  <2> QED BY <1>2, <2>1, <2>2 DEF Complete, Seen
<1>4. NewList(u, n) \subseteq r.sCand \ {n} /\ Cardinality(NewList(u, n)) <= Mcurmax(M, r.level)
  <2> PICK C : C = Code!Closest(data, data[n], r.sCand \ {n}, ef_construction_)
    OBVIOUS
  <2>1. C \subseteq r.sCand \ {n}
    BY DEF Code!Closest
  <2>2. Mcurmax(M, r.level) \in {M, 2 * M}
    BY DEF Mcurmax
  <2>3. C \in SUBSET Slots
    BY <1>3, <2>1
  <2>4. /\ Select(data[n], C, Mcurmax(M, r.level)) \subseteq C
        /\ Cardinality(Select(data[n], C, Mcurmax(M, r.level))) <= Mcurmax(M, r.level)
    BY <1>1, <1>3, <2>2, <2>3, SelectFacts
  <2>5. NewList(u, n) = Select(data[n], C, Mcurmax(M, r.level))
    BY DEF NewList
  <2> QED BY <2>1, <2>4, <2>5
<1>5. InsertInv'
  <2> PICK L : L = NewList(u, n)
    OBVIOUS
  <2>1. L \in SUBSET Slots /\ \A c \in L : c # n /\ Seen(c, r.level)
    BY <1>3, <1>4
  <2> QED BY <1>1, <1>2, <1>3, <1>4, <2>1, ListReplaced
<1>6. Advances(u)
  <2>1. CASE r.sNeigh # {n}
    <3> PICK q : q = [r EXCEPT !.sNeigh = r.sNeigh \ {n}]
      OBVIOUS
    <3>1. /\ q \in Locals /\ q.at = "rewrite" /\ q.entryPointCopy = r.entryPointCopy
          /\ q.id = r.id /\ q.maxLevelCopy = r.maxLevelCopy /\ q.level = r.level
          /\ q.sCand = r.sCand /\ q.sNeigh \subseteq r.sNeigh /\ q.todo = r.todo
      BY <1>1 DEF Locals
    <3>2. CollectedOK(q)
      BY <1>1, <3>1 DEF CollectedOK
    <3>3. LocalsOK(q)
      BY <1>1, <3>1, <3>2 DEF LocalsOK, ElementOK
    <3> QED BY <1>1, <1>2, <2>1, <3>1, <3>3 DEF Advances
  <2>2. CASE r.sNeigh = {n}
    <3> PICK q : q = [r EXCEPT !.sNeigh = {}, !.sCand = {}, !.at = "onehop", !.level = r.level + 1]
      OBVIOUS
    <3>1. /\ q \in Locals /\ q.at = "onehop" /\ q.entryPointCopy = r.entryPointCopy
          /\ q.id = r.id /\ q.maxLevelCopy = r.maxLevelCopy
      <4>1. r.level + 1 \in 0 .. MaxLevel + 1
        BY <1>3, ConstantsAssumption DEF Heights
      <4> QED BY <1>1, <4>1, ZenonT(60) DEF Locals
    <3>2. LocalsOK(q)
      BY <1>1, <3>1 DEF LocalsOK, ElementOK
    <3> QED BY <1>1, <1>2, <2>2, <3>1, <3>2 DEF Advances
  <2> QED BY <2>1, <2>2
<1> QED BY <1>1, <1>5, <1>6, UpdaterKeeps

\* The element's own list is taken from what the search found, all of it
\* complete elements of the level: nothing to throw about.
LEMMA ReplaceOwnListKeeps ==
  ASSUME UpdateInv, NEW u \in Updaters, ReplaceOwnList(u), Aside
  PROVE  UpdateInv'
<1> PICK r : r = up[u]
  OBVIOUS
<1> PICK L : L = Select(point(u), FoundToUpdate(u), M)
  OBVIOUS
<1>1. /\ TypeOK /\ VectorsOK /\ InsertInv /\ r \in Locals /\ LocalsOK(r) /\ r.at = "search"
      /\ SearchOK(r) /\ UNCHANGED <<deleted, renewals>>
  BY DEF UpdateInv, InsertInv, ReplaceOwnList, LocalsOK
<1>2. /\ FoundToUpdate(u) \in SUBSET Slots
      /\ \A n \in FoundToUpdate(u) : Linkable(n, r.level) /\ n # r.id
  <2>1. up[u].at = "search" /\ StopsUpdate(u)
    BY DEF ReplaceOwnList
  <2> QED BY <2>1, FoundIsComplete
<1>3. /\ r.level \in Heights /\ r.level \in Int /\ r.id \in Slots /\ Complete(r.id)
  BY <1>1, LevelFacts, UpdaterFacts
<1>4. L \subseteq FoundToUpdate(u) /\ Cardinality(L) <= M
  <2> PICK F : F = FoundToUpdate(u)
    OBVIOUS
  <2>1. F \in SUBSET Slots /\ M \in {M, 2 * M}
    BY <1>2
  <2>2. Select(data[r.id], F, M) \subseteq F /\ Cardinality(Select(data[r.id], F, M)) <= M
    BY <1>1, <1>3, <2>1, SelectFacts
  <2> QED BY <2>2 DEF point
<1>5. L \in SUBSET Slots /\ \A n \in L : Linkable(n, r.level) /\ n # r.id
  BY <1>2, <1>4
<1>6. \A n \in L : ~ (element_levels_[n] < r.level)
  <2> SUFFICES ASSUME NEW n \in L PROVE ~ (element_levels_[n] < r.level)
    OBVIOUS
  <2>1. element_levels_[n] \in Int /\ element_levels_[n] >= r.level
    BY <1>1, <1>5 DEF TypeOK, Heights, Linkable
  <2> QED BY <1>3, <2>1
<1>7. PICK n \in L :
        /\ links' = [links EXCEPT ![r.level][r.id] = L]
        /\ Goes(u, [r EXCEPT !.at = "connect", !.currObj = n, !.todo = L])
  <2>1. \E n \in Code!Closest(data, point(u), L, 1) :
          /\ links' = [links EXCEPT ![r.level][r.id] = L]
          /\ Goes(u, [r EXCEPT !.at = "connect", !.currObj = n, !.todo = L])
    BY <1>6 DEF ReplaceOwnList
  <2> QED BY <2>1 DEF Code!Closest
<1>8. InsertInv'
  <2>1. \A c \in L : c # r.id /\ Seen(c, r.level)
    BY <1>5, LinkableSeen
  <2>2. Cardinality(L) <= Mcurmax(M, r.level)
    <3>1. Cardinality(L) \in Nat /\ M \in Nat
      BY <1>5, SlotsFinite, ConstantsAssumption
    <3> QED BY <1>4, <3>1 DEF Mcurmax
  <2> QED BY <1>1, <1>3, <1>5, <1>7, <2>1, <2>2, ListReplaced
<1>9. Advances(u)
  <2> PICK q : q = [r EXCEPT !.at = "connect", !.currObj = n, !.todo = L]
    OBVIOUS
  <2>1. /\ q \in Locals /\ q.at = "connect" /\ q.entryPointCopy = r.entryPointCopy
        /\ q.id = r.id /\ q.maxLevelCopy = r.maxLevelCopy /\ q.level = r.level
        /\ q.currObj = n /\ q.todo = L
    BY <1>1, <1>5, ZenonT(60) DEF Locals
  <2>2. SearchOK(q)
    BY <1>1, <1>5, <2>1 DEF SearchOK
  <2>3. LocalsOK(q)
    BY <1>1, <2>1, <2>2 DEF LocalsOK, ElementOK
  <2> QED BY <1>1, <1>7, <2>1, <2>3 DEF Advances
<1> QED BY <1>1, <1>8, <1>9, UpdaterKeeps

\* A neighbour's list is within its bound and the neighbour is another
\* element: nothing to throw about.
LEMMA ConnectBackKeeps ==
  ASSUME UpdateInv, NEW u \in Updaters, ConnectBack(u), Aside
  PROVE  UpdateInv'
<1> PICK r : r = up[u]
  OBVIOUS
<1> DEFINE bound == Mcurmax(M, r.level)
           other(n) == links[r.level][n]
           extended(n) == other(n) \cup {r.id}
           S(n) == IF r.id \in other(n) \/ Cardinality(other(n)) < bound THEN extended(n)
                   ELSE Select(data[n], extended(n), bound)
           bad(n) == Cardinality(other(n)) > bound \/ n = r.id
<1>1. /\ TypeOK /\ VectorsOK /\ InsertInv /\ ListsSound /\ r \in Locals /\ LocalsOK(r)
      /\ r.at = "connect" /\ SearchOK(r) /\ UNCHANGED <<deleted, renewals>>
  BY DEF UpdateInv, InsertInv, ConnectBack, LocalsOK
<1>2. PICK n \in r.todo :
        /\ ~ Locked(n)
        /\ ~ bad(n) => /\ links' = [links EXCEPT ![r.level][n] = S(n)]
                       /\ Goes(u, [r EXCEPT !.todo = r.todo \ {n}])
  BY DEF ConnectBack
<1>3. /\ r.level \in Heights /\ r.level \in Int /\ r.id \in Slots /\ Complete(r.id)
      /\ element_levels_[r.id] \in Int /\ r.level <= element_levels_[r.id]
      /\ n \in Slots /\ Linkable(n, r.level) /\ n # r.id
  <2>1. Linkable(n, r.level) /\ n # r.id /\ r.level <= element_levels_[r.id]
    BY <1>1, <1>2 DEF SearchOK
  <2>2. n \in Slots
    BY <1>1, <1>2 DEF Locals
  <2> QED BY <1>1, <2>1, <2>2, LevelFacts, UpdaterFacts
<1>4. bound \in {M, 2 * M} /\ bound \in Nat
  BY ConstantsAssumption DEF Mcurmax
<1>5. other(n) \in SUBSET Slots /\ Cardinality(other(n)) \in Nat /\ Cardinality(other(n)) <= bound
  <2>1. other(n) \in SUBSET Slots
    BY <1>1, <1>3 DEF TypeOK
  <2>2. Cardinality(other(n)) \in Nat
    BY <2>1, SlotsFinite
  <2>3. Cardinality(other(n)) <= bound
    BY <1>1, <1>3 DEF ListsSound
  <2> QED BY <2>1, <2>2, <2>3
<1>6. ~ bad(n)
  BY <1>3, <1>4, <1>5
<1>7. S(n) \subseteq other(n) \cup {r.id} /\ Cardinality(S(n)) <= bound
  <2>1. CASE r.id \in other(n)
    <3>1. extended(n) = other(n)
      BY <2>1
    <3> QED BY <1>5, <2>1, <3>1
  <2>2. CASE r.id \notin other(n) /\ Cardinality(other(n)) < bound
    <3>1. IsFiniteSet(other(n))
      BY <1>5, SlotsFinite
    <3>2. Cardinality(other(n) \cup {r.id}) = Cardinality(other(n)) + 1
      BY <2>2, <3>1, FS_AddElement
    <3> QED BY <1>4, <1>5, <2>2, <3>2
  <2>3. CASE r.id \notin other(n) /\ ~ (Cardinality(other(n)) < bound)
    <3>1. extended(n) \in SUBSET Slots
      BY <1>3, <1>5
    <3> HIDE DEF bound, extended
    <3>2. /\ Select(data[n], extended(n), bound) \subseteq extended(n)
          /\ Cardinality(Select(data[n], extended(n), bound)) <= bound
      BY <1>1, <1>3, <1>4, <3>1, SelectFacts
    <3> QED BY <2>3, <3>2 DEF extended
  <2> QED BY <2>1, <2>2, <2>3
<1> PICK L : L = S(n)
  OBVIOUS
<1> HIDE DEF S, bad
<1>8. links' = [links EXCEPT ![r.level][n] = L] /\ Goes(u, [r EXCEPT !.todo = r.todo \ {n}])
  BY <1>2, <1>6
<1>9. InsertInv'
  <2>1. Complete(n) /\ L \in SUBSET Slots /\ Cardinality(L) <= Mcurmax(M, r.level)
    BY <1>3, <1>5, <1>7 DEF Linkable
  <2>2. \A c \in L : c # n /\ Seen(c, r.level)
    <3>1. Seen(r.id, r.level)
      BY <1>3, LinkableSeen DEF Linkable
    <3>2. \A c \in other(n) : c # n /\ Seen(c, r.level)
      BY <1>1, <1>3, NamedIsSeen DEF ListsSound
    <3> QED BY <1>3, <1>7, <3>1, <3>2
  <2> QED BY <1>1, <1>3, <1>8, <2>1, <2>2, ListReplaced
<1>10. Advances(u)
  <2> PICK q : q = [r EXCEPT !.todo = r.todo \ {n}]
    OBVIOUS
  <2>1. /\ q \in Locals /\ q.at = "connect" /\ q.entryPointCopy = r.entryPointCopy
        /\ q.id = r.id /\ q.maxLevelCopy = r.maxLevelCopy /\ q.level = r.level
        /\ q.currObj = r.currObj /\ q.todo \subseteq r.todo
    BY <1>1 DEF Locals
  <2>2. SearchOK(q)
    BY <1>1, <2>1 DEF SearchOK
  <2>3. LocalsOK(q)
    BY <1>1, <2>1, <2>2 DEF LocalsOK, ElementOK
  <2> QED BY <1>1, <1>8, <2>1, <2>3 DEF Advances
<1> QED BY <1>1, <1>9, <1>10, UpdaterKeeps

-------------------------------------------------------------------------------
(* The theorems *)

\* Nobody is at work at the beginning.
LEMMA UpdateInitInv ==
  UpdateInit => UpdateInv
<1> SUFFICES ASSUME UpdateInit PROVE UpdateInv
  OBVIOUS
<1>1. InsertInv
  BY InitInv DEF UpdateInit
<1>2. Idle \in Locals /\ LocalsOK(Idle) /\ Idle.at = "idle"
  <2>1. 0 \in 0 .. MaxLevel + 1
    BY ConstantsAssumption
  <2> QED BY <2>1 DEF Idle, Locals, LocalsOK
<1>3. \A u \in Updaters : up[u] = Idle
  BY DEF UpdateInit
<1> QED BY <1>1, <1>2, <1>3 DEF UpdateInv, UpdateInit, Restored

\* A step of a thread that inserts takes nothing back from an updater.
LEMMA InsertBeside ==
  ASSUME UpdateInv, NEW t \in Threads, Insert(t)
  PROVE  UpdateInv'
<1>1. InsertInv /\ Worker(t) /\ UNCHANGED <<renewals, up>>
  BY DEF UpdateInv, Insert
<1>2. InsertInv'
  BY <1>1, InsertStep DEF Next
<1>3. Onward /\ maxlevel_' >= maxlevel_ /\ deleted' = deleted
  BY <1>1, WorkerOnward
<1>4. ASSUME NEW v \in Updaters PROVE LocalsOK(up[v])'
  <2>1. PICK q \in Locals : q = up'[v] /\ LocalsOK(q)
    BY <1>1 DEF UpdateInv
  <2>2. LocalsOK(q)'
    BY <1>1, <1>2, <1>3, <2>1, LocalsKeep DEF InsertInv
  <2> QED BY <2>1, <2>2
<1>5. Restored'
  BY <1>1, <1>3 DEF UpdateInv, Restored
<1> QED BY <1>1, <1>2, <1>4, <1>5 DEF UpdateInv

\* Nor does a step of an updater.
LEMMA UpdateBeside ==
  ASSUME UpdateInv, NEW u \in Updaters, Update(u)
  PROVE  UpdateInv'
<1>1. UNCHANGED <<global, todo, pc, cur_c, entry, level, beam, rest>>
  BY DEF Update
<1>2. ASSUME \/ ReadEntryPoint(u) \/ OneHop(u) \/ TwoHop(u) \/ StartRepair(u)
             \/ DescendToUpdate(u) \/ BeginRepair(u) \/ SearchToUpdate(u) \/ ExpandToUpdate(u)
             \/ NothingFound(u) \/ Connected(u)
      PROVE  Advances(u) /\ Keeps
  <2>1. Keeps
    BY <1>2 DEF ReadEntryPoint, OneHop, TwoHop, StartRepair, DescendToUpdate, BeginRepair,
                SearchToUpdate, ExpandToUpdate, NothingFound, Connected
  <2>2. CASE NothingFound(u) \/ Connected(u)
    BY <2>2, DownAdvances DEF NothingFound, Connected
  <2> QED BY <1>2, <2>1, <2>2, ReadEntryPointAdvances, OneHopAdvances, TwoHopAdvances,
             StartRepairAdvances, DescendAdvances, BeginRepairAdvances, SearchToUpdateAdvances,
             ExpandAdvances
<1>3. ASSUME Advances(u), Keeps
      PROVE  UpdateInv'
  <2>1. Aside /\ UNCHANGED <<links, deleted, renewals>>
    BY <1>1, <1>3 DEF Keeps, Aside, index
  <2> QED BY <1>3, <2>1, ReadingKeeps
<1>4. ASSUME StartUpdate(u) \/ Rewrite(u) \/ ReplaceOwnList(u) \/ ConnectBack(u)
      PROVE  UpdateInv'
  <2>1. Aside
    BY <1>1, <1>4 DEF StartUpdate, Rewrite, ReplaceOwnList, ConnectBack, Aside
  <2> QED BY <1>4, <2>1, StartUpdateKeeps, RewriteKeeps, ReplaceOwnListKeeps, ConnectBackKeeps
<1> QED BY <1>2, <1>3, <1>4 DEF Update

\* The invariant holds throughout any mixture of insertions and updates.
THEOREM UpdateInvariant ==
  UpdateSpec => []UpdateInv
<1>1. UpdateInv /\ [UpdateNext]_<<vars, renewals, up>> => UpdateInv'
  <2> SUFFICES ASSUME UpdateInv, [UpdateNext]_<<vars, renewals, up>> PROVE UpdateInv'
    OBVIOUS
  <2>1. CASE UNCHANGED <<vars, renewals, up>>
    <3>1. InsertInv'
      BY <2>1, AsidesKeep DEF UpdateInv
    <3>2. /\ UNCHANGED <<count, element_levels_, maxlevel_, deleted, pc, cur_c, level>>
          /\ UNCHANGED <<renewals, up>>
      BY <2>1 DEF vars, index
    <3>3. Onward /\ maxlevel_' >= maxlevel_
      <4>1. count \in Nat /\ maxlevel_ \in Int
        BY ConstantsAssumption DEF UpdateInv, InsertInv, TypeOK, Heights
      <4> QED BY <3>2, <4>1 DEF Onward, Inserts, Past, PastNext
    <3>4. ASSUME NEW v \in Updaters PROVE LocalsOK(up[v])'
      <4>1. PICK q \in Locals : q = up'[v] /\ LocalsOK(q)
        BY <3>2 DEF UpdateInv
      <4>2. LocalsOK(q)'
        BY <3>1, <3>3, <4>1, LocalsKeep DEF InsertInv, UpdateInv
      <4> QED BY <4>1, <4>2
    <3> QED BY <3>1, <3>2, <3>4 DEF UpdateInv, Restored
  <2>2. CASE Done
    BY <2>1, <2>2 DEF Done
  <2> QED BY <2>1, <2>2, InsertBeside, UpdateBeside DEF UpdateNext
<1> QED BY UpdateInitInv, <1>1, PTL DEF UpdateSpec

\* updatePoint replaces lists that others have read and are about to extend, yet
\* at any moment every list is within its capacity, without its owner, and names
\* registered elements of its level only.  An insertion about to enter its
\* element on a list for the second time (AppendsTwice) is not followed further.
THEOREM ListsSoundBesideUpdates ==
  UpdateSpec => []ListsSound
<1>1. UpdateInv => ListsSound
  BY DEF UpdateInv, InsertInv
<1> QED BY UpdateInvariant, <1>1, PTL

\* Neither addPoint of a new label nor addPoint of one that exists ever throws
\* one of the exceptions about a corrupt graph.
THEOREM NoCallEverFails ==
  UpdateSpec => []NoCallFails
<1>1. UpdateInv => NoCallFails
  BY DEF UpdateInv, InsertInv, NoCallFails, LocalsOK
<1> QED BY UpdateInvariant, <1>1, PTL
=============================================================================
