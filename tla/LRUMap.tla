-------------------------------- MODULE LRUMap --------------------------------
(***************************************************************************)
(* What the vector cache of the disk merge (VarArray.h) promises: a map    *)
(* from ids to vectors that holds no more than its limit, drops the least  *)
(* recently used id first, and only to make room for what is being stored  *)
(* or when the limit is lowered.                                           *)
(***************************************************************************)
EXTENDS Naturals, Sequences, Recency

CONSTANTS Keys, Values, NoAnswer

VARIABLES
  store,     \* the vectors held, by id
  recency,   \* the ids held, most recently used first
  limit,     \* 0 for none
  incoming,  \* what is being stored: <<id, vector>> pairs, in order
  answer     \* of the last access

vars == <<store, recency, limit, incoming, answer>>

Held == DOMAIN store
RoomFor(n) == limit = 0 \/ Len(recency) + n <= limit

Init ==
  /\ store = <<>> /\ recency = <<>> /\ limit = 0
  /\ incoming = <<>> /\ answer = NoAnswer

\* Some are about to be stored; under a limit, under ids that are not held.
Offer ==
  /\ incoming = <<>>
  /\ incoming' \in Seq(Keys \X Values) /\ incoming' # <<>>
  /\ limit = 0 \/ \A i \in DOMAIN incoming' : incoming'[i][1] \notin Held
  /\ UNCHANGED <<store, recency, limit, answer>>

\* They are stored in order once there is room for all.  What is stored under
\* an id takes the place of what was there, and is the latest to be used.
Store ==
  /\ incoming # <<>> /\ RoomFor(Len(incoming))
  /\ LET key == Head(incoming)[1]
     IN /\ store' = [k \in Held \cup {key} |-> IF k = key THEN Head(incoming)[2] ELSE store[k]]
        /\ recency' = ToFront(recency, key)
  /\ incoming' = Tail(incoming)
  /\ UNCHANGED <<limit, answer>>

DropOldest ==
  /\ recency # <<>>
  /\ ~ RoomFor(Len(incoming))
  /\ store' = [k \in Held \ {Oldest(recency)} |-> store[k]]
  /\ recency' = WithoutOldest(recency)
  /\ UNCHANGED <<limit, incoming, answer>>

\* An access answers with the vector stored under the id.
Get(k) ==
  /\ k \in Held
  /\ answer' = store[k]
  /\ recency' = ToFront(recency, k)
  /\ UNCHANGED <<store, limit, incoming>>

Miss ==
  /\ answer' = NoAnswer
  /\ UNCHANGED <<store, recency, limit, incoming>>

SetLimit == limit' \in Nat /\ UNCHANGED <<store, recency, incoming, answer>>

Forget ==
  /\ store' = <<>> /\ recency' = <<>>
  /\ UNCHANGED <<limit, incoming, answer>>

Next ==
  \/ Offer \/ Store \/ DropOldest
  \/ \E k \in Keys : Get(k)
  \/ Miss \/ SetLimit \/ Forget

Spec == Init /\ [][Next]_vars
===============================================================================
