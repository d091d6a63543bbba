------------------------------- MODULE VarArray -------------------------------
(***************************************************************************)
(* The vector cache of the disk merge (VarArray.h): fixed-size records     *)
(* packed at the front of one buffer, a map from ids to positions, the map *)
(* back, and a list of the ids by recency.  Evicting a record moves the    *)
(* last one into the hole.                                                 *)
(*                                                                         *)
(* A push evicts one record and stores one record at a time, each a step;  *)
(* callers are sequential, so nothing else starts meanwhile.               *)
(*                                                                         *)
(* An id that is held may be pushed again.  Its new record goes behind the *)
(* others, and the old one stays, a copy nobody names.  The merge does so  *)
(* with the cache of its result (memory-optimize-limit2G.h:1319), which    *)
(* has no limit.  A cache with a limit would not survive it: a copy that   *)
(* moves into a hole takes its id back, and is never evicted.  CacheNext   *)
(* is what the merge does.                                                 *)
(***************************************************************************)
EXTENDS Integers, FiniteSets, Recency

CONSTANTS
  Keys,      \* the ids pushed
  Values,    \* the vectors pushed
  Blank,     \* what zeroed memory reads as
  NoAnswer,  \* an access threw std::out_of_range
  MaxItems,  \* bound on the limits set
  MaxBatch,  \* bound on the records of one push
  MaxSize    \* bound on the records held, copies included

ASSUME VarArrayAssumption ==
  /\ Keys \subseteq Nat /\ 0 \in Keys
  /\ MaxItems \in Nat /\ MaxBatch \in Nat /\ MaxSize \in Nat
  /\ Blank \notin Values /\ NoAnswer \notin Values

VARIABLES
  size_, capacity_, max_items_,
  data_,           \* position -> vector
  id_data_map_,    \* id -> position
  index_to_key_,   \* position -> id
  lru_list_,       \* ids, most recent first; lru_pos_ is its index
  doing,           \* "ready", "pushing" or "limiting"
  pending,         \* the records being pushed, <<id, vector>>
  answer

buffer == <<capacity_, data_>>
cacheVars == <<size_, capacity_, max_items_, data_, id_data_map_, index_to_key_, lru_list_,
               doing, pending, answer>>

Positions(n) == 0 .. n - 1
find(k) == k \in DOMAIN id_data_map_

\* The record at p is the one its id names.
Current(p) == find(index_to_key_[p]) /\ id_data_map_[index_to_key_[p]] = p
NoCopies == \A p \in Positions(size_) : Current(p)

CacheInit ==
  /\ size_ = 0 /\ capacity_ = 0 /\ max_items_ = 0
  /\ data_ = <<>> /\ id_data_map_ = <<>> /\ index_to_key_ = <<>> /\ lru_list_ = <<>>
  /\ doing = "ready" /\ pending = <<>> /\ answer = NoAnswer
-------------------------------------------------------------------------------
\* Mutant: an id that is on the list is entered again
touch_twice(k) == <<k>> \o lru_list_

\* splice to the front, or push_front
touch_lru(k) == ToFront(lru_list_, k)

\* Mutant: the record that takes the place of another one is not copied there
evict_unmoved ==
  /\ size_ # 0 /\ lru_list_ # <<>>
  /\ lru_list_' = WithoutOldest(lru_list_)
  /\ LET victim_key == Oldest(lru_list_)
         victim_pos == id_data_map_[victim_key]
         last_pos == size_ - 1
         moved_key == index_to_key_[last_pos]
         moves == IF victim_pos # last_pos THEN {moved_key} ELSE {}
     IN IF find(victim_key)
        THEN /\ id_data_map_' = [k \in (DOMAIN id_data_map_ \ {victim_key}) \cup moves |->
                                   IF k \in moves THEN victim_pos ELSE id_data_map_[k]]
             /\ index_to_key_' = [index_to_key_ EXCEPT ![victim_pos] = moved_key, ![last_pos] = 0]
             /\ size_' = last_pos /\ UNCHANGED data_
        ELSE UNCHANGED <<id_data_map_, data_, index_to_key_, size_>>

\* The last record fills the hole, and both maps follow it; the slot that is
\* vacated names 0 (also when it is the hole itself).  An id that is on the
\* list but not held only leaves the list.
evict_one_lru ==
  /\ size_ # 0 /\ lru_list_ # <<>>
  /\ lru_list_' = WithoutOldest(lru_list_)
  /\ LET victim_key == Oldest(lru_list_)
         victim_pos == id_data_map_[victim_key]
         last_pos == size_ - 1
         moved_key == index_to_key_[last_pos]
         moves == IF victim_pos # last_pos THEN {moved_key} ELSE {}
     IN IF find(victim_key)
        THEN /\ id_data_map_' = [k \in (DOMAIN id_data_map_ \ {victim_key}) \cup moves |->
                                   IF k \in moves THEN victim_pos ELSE id_data_map_[k]]
             /\ data_' = [data_ EXCEPT ![victim_pos] = data_[last_pos]]
             /\ index_to_key_' = [index_to_key_ EXCEPT ![victim_pos] = moved_key, ![last_pos] = 0]
             /\ size_' = last_pos
        ELSE UNCHANGED <<id_data_map_, data_, index_to_key_, size_>>

\* The capacities doubling reaches from the present one; the first that
\* holds n records is taken.
Capacities(n) ==
  IF n <= capacity_ THEN {capacity_}
  ELSE LET from == IF capacity_ = 0 THEN 1 ELSE capacity_
       IN {c \in n .. 2 * n - 1 : \E i \in 0 .. n : c = from * 2 ^ i}

-------------------------------------------------------------------------------
\* push_back of one record
push_back(k, v) ==
  /\ doing = "ready"
  /\ pending' = <<<<k, v>>>>
  /\ doing' = "pushing"
  /\ UNCHANGED <<size_, buffer, max_items_, id_data_map_, index_to_key_, lru_list_, answer>>

\* push_back of the records of consecutive ids; none is no work
push_batch(start, vs) ==
  /\ doing = "ready" /\ vs # <<>>
  /\ pending' = [i \in DOMAIN vs |-> <<start + i - 1, vs[i]>>]
  /\ doing' = "pushing"
  /\ UNCHANGED <<size_, buffer, max_items_, id_data_map_, index_to_key_, lru_list_, answer>>

\* Mutant: the last place is never used
FitsBelow == max_items_ = 0 \/ size_ + Len(pending) < max_items_

Fits == max_items_ = 0 \/ size_ + Len(pending) <= max_items_

\* ensure_space_by_lru; with nothing left to evict it never ends
Evict ==
  /\ doing = "pushing" /\ ~ Fits
  /\ evict_one_lru
  /\ UNCHANGED <<capacity_, max_items_, doing, pending, answer>>

Spin ==
  /\ doing = "pushing" /\ ~ Fits
  /\ size_ = 0 \/ lru_list_ = <<>>
  /\ UNCHANGED cacheVars

\* The buffer grows to hold all that is pushed; the first record goes behind
\* the others, and its id is touched.
Store ==
  /\ doing = "pushing" /\ Fits
  /\ LET key == Head(pending)[1]
     IN /\ \E c \in Capacities(size_ + Len(pending)) :
             /\ capacity_' = c
             /\ data_' = [p \in Positions(c) |->
                            IF p = size_ THEN Head(pending)[2]
                            ELSE IF c = capacity_ \/ p < size_ THEN data_[p] ELSE Blank]
             /\ index_to_key_' = [p \in DOMAIN index_to_key_ \cup Positions(c) |->
                            IF p = size_ THEN key
                            ELSE IF p \in DOMAIN index_to_key_ THEN index_to_key_[p] ELSE 0]
        /\ id_data_map_' = [k \in DOMAIN id_data_map_ \cup {key} |->
                              IF k = key THEN size_ ELSE id_data_map_[k]]
        /\ lru_list_' = touch_lru(key)
  /\ size_' = size_ + 1
  /\ pending' = Tail(pending)
  /\ doing' = IF Len(pending) = 1 THEN "ready" ELSE "pushing"
  /\ UNCHANGED <<max_items_, answer>>

\* operator[]
Read(k) ==
  /\ doing = "ready"
  /\ IF find(k)
     THEN answer' = data_[id_data_map_[k]] /\ lru_list_' = touch_lru(k)
     ELSE answer' = NoAnswer /\ UNCHANGED lru_list_
  /\ UNCHANGED <<size_, buffer, max_items_, id_data_map_, index_to_key_, doing, pending>>

\* operator(), by position
ReadAt(p) ==
  /\ doing = "ready"
  /\ IF p < size_
     THEN answer' = data_[p] /\ lru_list_' = touch_lru(index_to_key_[p])
     ELSE answer' = NoAnswer /\ UNCHANGED lru_list_
  /\ UNCHANGED <<size_, buffer, max_items_, id_data_map_, index_to_key_, doing, pending>>

set_max_items(m) ==
  /\ doing = "ready"
  /\ max_items_' = m
  /\ doing' = IF m = 0 THEN "ready" ELSE "limiting"
  /\ UNCHANGED <<size_, buffer, id_data_map_, index_to_key_, lru_list_, pending, answer>>

\* enforce_limit_after_setting
EvictExcess ==
  /\ doing = "limiting" /\ size_ > max_items_
  /\ evict_one_lru
  /\ UNCHANGED <<capacity_, max_items_, doing, pending, answer>>

\* shrink_to_limit
Shrink ==
  /\ doing = "limiting" /\ size_ <= max_items_
  /\ IF capacity_ > max_items_
     THEN /\ capacity_' = max_items_
          /\ data_' = [p \in Positions(max_items_) |-> IF p < size_ THEN data_[p] ELSE Blank]
          /\ index_to_key_' = [p \in DOMAIN index_to_key_ \cap Positions(max_items_) |->
                                 index_to_key_[p]]
     ELSE UNCHANGED <<buffer, index_to_key_>>
  /\ doing' = "ready"
  /\ UNCHANGED <<size_, max_items_, id_data_map_, lru_list_, pending, answer>>

\* The buffers stay.
clear ==
  /\ doing = "ready"
  /\ size_' = 0 /\ id_data_map_' = <<>> /\ lru_list_' = <<>>
  /\ UNCHANGED <<buffer, max_items_, index_to_key_, doing, pending, answer>>

\* The buffers go, the limit stays.
release ==
  /\ doing = "ready"
  /\ size_' = 0 /\ capacity_' = 0
  /\ data_' = <<>> /\ index_to_key_' = <<>> /\ id_data_map_' = <<>> /\ lru_list_' = <<>>
  /\ UNCHANGED <<max_items_, doing, pending, answer>>

\* Where there is a limit, callers ask find first, or push into a cache they
\* have released.  Where there is none, MaxSize bounds what they push.
MayPush(keys) ==
  \/ max_items_ # 0 /\ \A k \in keys : ~ find(k)
  \/ max_items_ = 0 /\ size_ + Cardinality(keys) <= MaxSize

\* A limit is set on caches that were never given an id they held.  Access by
\* position is called nowhere.
CacheNext ==
  \/ \E k \in Keys, v \in Values : MayPush({k}) /\ push_back(k, v)
  \/ \E k \in Keys, n \in 1 .. MaxBatch :
       /\ k .. k + n - 1 \subseteq Keys /\ MayPush(k .. k + n - 1)
       /\ \E vs \in [1 .. n -> Values] : push_batch(k, vs)
  \/ Evict \/ Spin \/ Store
  \/ \E k \in Keys : Read(k)
  \/ \E p \in Positions(size_ + 1) : (p < size_ => Current(p)) /\ ReadAt(p)
  \/ \E m \in 0 .. MaxItems : (m = 0 \/ NoCopies) /\ set_max_items(m)
  \/ EvictExcess \/ Shrink
  \/ clear \/ release

\* The loops of a call run on until it returns.
Loops == Evict \/ Store \/ EvictExcess \/ Shrink

CacheSpec == CacheInit /\ [][CacheNext]_cacheVars
FairCacheSpec == CacheSpec /\ WF_cacheVars(Loops)
-------------------------------------------------------------------------------
Vectors == Values \cup {Blank}

\* Every variable has its type; the arrays are as long as the code keeps them.
CacheTypeOK ==
  /\ size_ \in Nat /\ capacity_ \in Nat /\ max_items_ \in Nat
  /\ data_ \in [Positions(capacity_) -> Vectors]
  /\ DOMAIN id_data_map_ \subseteq Keys /\ id_data_map_ \in [DOMAIN id_data_map_ -> Nat]
  /\ index_to_key_ \in [Positions(capacity_) -> Keys]
  /\ lru_list_ \in Seq(Keys)
  /\ doing \in {"ready", "pushing", "limiting"}
  /\ pending \in Seq(Keys \X Values)
  /\ answer \in Vectors \cup {NoAnswer}

\* Every id that is held names a record that names it; under a limit every
\* record is named, so that none is lost and none is held twice.
MapsInverse ==
  /\ \A k \in DOMAIN id_data_map_ :
       id_data_map_[k] \in Positions(size_) /\ index_to_key_[id_data_map_[k]] = k
  /\ max_items_ # 0 => NoCopies

\* The recency list names every id that is held once, and no other.
RecencyComplete ==
  /\ Named(lru_list_) = DOMAIN id_data_map_
  /\ \A i, j \in DOMAIN lru_list_ : lru_list_[i] = lru_list_[j] => i = j

\* Records stay inside the buffer and, except while a lowered limit is being
\* enforced, within the limit.
WithinBounds ==
  /\ size_ <= capacity_
  /\ doing # "limiting" /\ max_items_ # 0 => size_ <= max_items_

\* However records were moved into holes or stored again, the structures agree:
\* positions, ids and recency are of the same records, eviction always finds
\* one, and no record lies outside of the buffer or beyond the limit.
Consistent == MapsInverse /\ RecencyComplete /\ WithinBounds

\* What a caller sees is the map LRUMap describes: an access answers with the
\* vector pushed last under the id, whatever was evicted and moved since, and
\* only the least recently used id is ever dropped, only for want of room.
Promise == INSTANCE LRUMap WITH
  store <- [k \in DOMAIN id_data_map_ |-> data_[id_data_map_[k]]],
  recency <- lru_list_, limit <- max_items_, incoming <- pending
Implements == Promise!Spec

\* A push of no more records than the limit allows returns: eviction makes
\* room. (One of more records never does, see Spin.)
PushReturns ==
  doing = "pushing" /\ (max_items_ = 0 \/ Len(pending) <= max_items_) ~> doing = "ready"
===============================================================================
