----------------------------- MODULE LabelsProofs -----------------------------
(***************************************************************************)
(* The marks, the counter, the set of deleted elements, the labels and the *)
(* lookup table of Labels agree, for any number of threads, labels,        *)
(* mutexes and elements, as long as callers keep to the comments of        *)
(* hnswalg.h.                                                              *)
(***************************************************************************)
EXTENDS Labels, Integers, FiniteSetTheorems, TLAPS

\* The places of a call that knows its element through the table
Looking == {"mark", "count", "list", "unmark", "uncount", "unlist", "update", "existing", "init"}
\* The places of a replacement whose element still has its old label there
Replacing == {"relabel", "table"}
Owning == Looking \cup Replacing
\* The places whose elements the set of deleted elements leaves out
Withheld == {"init", "count", "list", "relabel", "table", "unmark"}
Places == Looking \cup Replacing \cup {"idle", "find", "copy", "add", "vacancy", "return"}

Calls == [op : Operations \cup {"none"}, label : Labels \cup {NoLabel},
          out : {"none", "ok", "refused", "wrong"}]

\* The types, with no bound yet on the counter
Typed ==
  /\ max_elements_ \in 0 .. Capacity /\ cur_element_count \in 0 .. max_elements_
  /\ allow_replace_deleted_ \in BOOLEAN /\ saving \in BOOLEAN
  /\ DOMAIN label_lookup_ \subseteq Labels /\ \A l \in DOMAIN label_lookup_ : label_lookup_[l] \in Ids
  /\ num_deleted_ \in Int
  /\ deleted_elements \subseteq Ids /\ marked \subseteq Ids
  /\ label \in [Ids -> Labels \cup {NoLabel}] /\ data \in [Ids -> Labels \cup {NoLabel}]
  /\ pc \in [Threads -> Places] /\ calls \in [Threads -> Calls]
  /\ copied \in [Threads -> Nat]
  /\ id \in [Threads -> 0 .. Capacity] /\ old \in [Threads -> Labels \cup {NoLabel}]

\* Which calls there are, and where their code takes them
Called(t) ==
  /\ pc[t] = "idle" => Idle(t)
  /\ pc[t] # "idle" => Op(t) \in Operations /\ Lab(t) \in Labels
  /\ pc[t] = "find" => Op(t) \in {"mark", "unmark", "get"}
  /\ pc[t] \in Replacing \cup {"vacancy"} => Op(t) = "replace"
  /\ Op(t) = "replace" \/ pc[t] = "list" => allow_replace_deleted_
  /\ Op(t) = "unmark" => ~ allow_replace_deleted_

\* Where the element of a call is
Found(t) ==
  /\ pc[t] \in Looking => Known(Lab(t)) /\ id[t] = label_lookup_[Lab(t)]
  /\ pc[t] \in Replacing \cup {"vacancy"} => ~ Known(Lab(t))
  /\ pc[t] = "add" /\ Op(t) = "replace" => ~ Known(Lab(t))
  /\ pc[t] = "relabel" => Known(label[id[t]]) /\ label_lookup_[label[id[t]]] = id[t]
  /\ pc[t] = "table" => Known(old[t]) /\ label_lookup_[old[t]] = id[t] /\ label[id[t]] = Lab(t)

\* Whether it is marked
Marked(t) ==
  /\ pc[t] \in {"count", "list"} \cup Replacing => id[t] \in marked
  /\ pc[t] = "unmark" /\ Op(t) # "unmark" => id[t] \in marked
  /\ pc[t] \in {"uncount", "unlist", "update"} => id[t] \notin marked
  /\ allow_replace_deleted_ /\ pc[t] \in {"mark", "existing"} => id[t] \notin marked
  /\ allow_replace_deleted_ /\ pc[t] = "find" /\ Op(t) = "mark" => ~ Deleted(Lab(t))

ThreadOK(t) == Called(t) /\ Found(t) /\ Marked(t)

\* No two calls hold one mutex, no two labels lead to one element, and no two
\* calls work on one element.
MutexHeld ==
  \A s, t \in Callers : getLabelOpMutex(Lab(s)) = getLabelOpMutex(Lab(t)) => s = t
OneLabel == \A k, l \in DOMAIN label_lookup_ : label_lookup_[k] = label_lookup_[l] => k = l
OneOwner == \A s, t \in At(Owning) : id[s] = id[t] => s = t

\* What a save wrote is an index at rest.
FileOK(f) ==
  \E n \in 0 .. Capacity :
    /\ f \in [parts : Nat, count : {n}, max : n .. Capacity, label : [0 .. n - 1 -> Labels],
              data : [0 .. n - 1 -> Labels \cup {NoLabel}], marked : SUBSET (0 .. n - 1)]
    /\ \A i, j \in 0 .. n - 1 : f.label[i] = f.label[j] => i = j
FilesOK == (file # NoFile \/ saving) => FileOK(file)

\* The inductive invariant
Inv ==
  /\ Typed
  /\ \A t \in Threads : ThreadOK(t)
  /\ MutexHeld /\ OneLabel /\ OneOwner
  /\ FilesOK
  /\ CountersAgree /\ LabelsAgree
-------------------------------------------------------------------------------
(***************************************************************************)
(* One call goes on, the others stay.                                      *)
(***************************************************************************)

\* Thread t goes to place p, having element i; its call may get an outcome.
Moves(t, p, i) ==
  /\ pc' = [pc EXCEPT ![t] = p] /\ p \in Places
  /\ id' = [id EXCEPT ![t] = i] /\ i \in 0 .. Capacity
  /\ calls' \in [Threads -> Calls]
  /\ \A s \in Threads \ {t} : calls'[s] = calls[s] /\ old'[s] = old[s]
  /\ old' \in [Threads -> Labels \cup {NoLabel}]
  /\ copied' \in [Threads -> Nat]
  /\ UNCHANGED <<allow_replace_deleted_, file, saving>>

\* The call goes on with its operation and its label.
SameCall(t) == calls'[t].op = calls[t].op /\ calls'[t].label = calls[t].label

\* The record of a call is known by its components.
LEMMA CallFacts ==
  ASSUME Typed, NEW t \in Threads
  PROVE  /\ NoCall \in Calls /\ calls[t] \in Calls
         /\ Idle(t) => Op(t) = "none" /\ Lab(t) = NoLabel
         /\ Lab(t) \in Labels => ~ Idle(t)
<1>1. NoCall \in Calls /\ NoCall.op = "none" /\ NoCall.label = NoLabel
  BY DEF NoCall, Calls
<1>2. calls[t] \in Calls
  BY DEF Typed
<1> QED BY <1>1, <1>2, LabelsAssumption DEF Idle, Op, Lab

\* An outcome leaves the operation and the label as they are.
LEMMA OutcomeFacts ==
  ASSUME Typed, NEW t \in Threads, NEW o \in {"none", "ok", "refused", "wrong"}, Outcome(t, o)
  PROVE  /\ calls' \in [Threads -> Calls]
         /\ \A s \in Threads \ {t} : calls'[s] = calls[s]
         /\ SameCall(t)
<1>1. calls \in [Threads -> Calls] /\ calls[t] \in Calls
  BY DEF Typed
<1>2. /\ [calls[t] EXCEPT !.out = o] \in Calls
      /\ [calls[t] EXCEPT !.out = o].op = calls[t].op
      /\ [calls[t] EXCEPT !.out = o].label = calls[t].label
  BY <1>1 DEF Calls
<1>3. calls' = [calls EXCEPT ![t] = [calls[t] EXCEPT !.out = o]]
  BY <1>1 DEF Outcome
<1> QED BY <1>1, <1>2, <1>3 DEF SameCall

\* Which threads are at some places, and with what elements, after a move
LEMMA MovedFacts ==
  ASSUME Typed, NEW t \in Threads, NEW p, NEW i, Moves(t, p, i), NEW P
  PROVE  /\ pc'[t] = p /\ id'[t] = i
         /\ \A s \in Threads \ {t} : pc'[s] = pc[s] /\ id'[s] = id[s]
         /\ At(P)' = IF p \in P THEN At(P) \cup {t} ELSE At(P) \ {t}
         /\ HeldAt(P)' = {id[s] : s \in At(P) \ {t}} \cup (IF p \in P THEN {i} ELSE {})
         /\ HeldAt(P) = {id[s] : s \in At(P) \ {t}} \cup (IF pc[t] \in P THEN {id[t]} ELSE {})
         /\ t \in At(P) <=> pc[t] \in P
<1>1. /\ pc'[t] = p /\ id'[t] = i
      /\ \A s \in Threads \ {t} : pc'[s] = pc[s] /\ id'[s] = id[s]
  BY DEF Typed, Moves
<1>2. At(P)' = IF p \in P THEN At(P) \cup {t} ELSE At(P) \ {t}
  BY <1>1 DEF At
<1>3. HeldAt(P)' = {id'[s] : s \in At(P)'}
  BY DEF HeldAt
<1>4. \A s \in At(P) : s \in Threads
  BY DEF At
<1>5. HeldAt(P)' = {id[s] : s \in At(P) \ {t}} \cup (IF p \in P THEN {i} ELSE {})
  BY <1>1, <1>2, <1>3, <1>4
<1>6. t \in At(P) <=> pc[t] \in P
  BY DEF At
<1>7. HeldAt(P) = {id[s] : s \in At(P) \ {t}} \cup (IF pc[t] \in P THEN {id[t]} ELSE {})
  BY <1>6 DEF HeldAt
<1> QED BY <1>1, <1>2, <1>5, <1>6, <1>7

\* A move from one place outside of P to another changes nothing about P.
LEMMA MovedElsewhere ==
  ASSUME Typed, NEW t \in Threads, NEW p, NEW i, Moves(t, p, i), NEW P, pc[t] \notin P, p \notin P
  PROVE  At(P)' = At(P) /\ HeldAt(P)' = HeldAt(P)
<1>1. /\ At(P)' = At(P) \ {t} /\ t \notin At(P)
      /\ HeldAt(P)' = {id[s] : s \in At(P) \ {t}} /\ HeldAt(P) = {id[s] : s \in At(P) \ {t}}
  BY MovedFacts
<1> QED BY <1>1

\* A move within P leaves the elements held there as they are; one out of P
\* takes one of them along.
LEMMA MovedWithin ==
  ASSUME Typed, NEW t \in Threads, NEW p, Moves(t, p, id[t]), NEW P, pc[t] \in P
  PROVE  /\ id[t] \in HeldAt(P)
         /\ HeldAt(P) = HeldAt(P)' \cup {id[t]}
         /\ p \in P => HeldAt(P)' = HeldAt(P)
<1> DEFINE i == id[t]
<1>1. Moves(t, p, i)
  OBVIOUS
<1> HIDE DEF i
<1>2. /\ HeldAt(P)' = {id[s] : s \in At(P) \ {t}} \cup (IF p \in P THEN {i} ELSE {})
      /\ HeldAt(P) = {id[s] : s \in At(P) \ {t}} \cup {i}
  BY <1>1, MovedFacts DEF i
<1> QED BY <1>2 DEF i

\* A call that owns its element shares it with no other place of its kind.
LEMMA OwnerFacts ==
  ASSUME OneOwner, NEW t \in Threads, pc[t] \in Owning, NEW P, P \subseteq Owning
  PROVE  /\ id[t] \notin {id[s] : s \in At(P) \ {t}}
         /\ id[t] \in HeldAt(P) <=> pc[t] \in P
BY DEF OneOwner, At, HeldAt

\* Calls keep their mutexes while one of them goes on.
LEMMA MutexKept ==
  ASSUME Typed, MutexHeld, NEW t \in Threads, NEW p, NEW i, Moves(t, p, i), SameCall(t),
         Lab(t) \in Labels
  PROVE  MutexHeld' /\ ~ Idle(t)' /\ Callers' = Callers
<1>1. calls'[t] \in Calls /\ calls'[t].label # NoLabel /\ NoCall.label = NoLabel
  BY LabelsAssumption DEF Moves, SameCall, Lab, NoCall
<1>2. ~ Idle(t)'
  BY <1>1 DEF Idle
<1>3. t \in Callers
  BY CallFacts DEF Callers
<1>4. Callers' = Callers
  BY <1>2, <1>3 DEF Callers, Idle, Moves
<1>5. \A s \in Threads : Lab(s)' = Lab(s)
  BY DEF Moves, SameCall, Lab
<1>6. Callers \subseteq Threads
  BY DEF Callers
<1>7. MutexHeld'
  BY <1>4, <1>5, <1>6 DEF MutexHeld, getLabelOpMutex
<1> QED BY <1>2, <1>4, <1>7

\* Two calls are never on one label.
LEMMA LabelsDiffer ==
  ASSUME MutexHeld, Typed, NEW s \in Threads, NEW t \in Threads, s # t, Lab(s) \in Labels
  PROVE  Lab(s) # Lab(t)
<1>1. ~ Idle(s)
  BY CallFacts
<1>2. Lab(s) = Lab(t) => ~ Idle(t)
  BY CallFacts
<1> QED BY <1>1, <1>2 DEF MutexHeld, Callers

\* Nobody comes to own an element that is owned.
LEMMA OwnersKept ==
  ASSUME Typed, OneOwner, NEW t \in Threads, NEW p, NEW i, Moves(t, p, i),
         \/ p \notin Owning
         \/ pc[t] \in Owning /\ i = id[t]
         \/ \A s \in Threads \ {t} : pc[s] \in Owning => id[s] # i
  PROVE  OneOwner'
<1>1. /\ pc'[t] = p /\ id'[t] = i
      /\ \A s \in Threads \ {t} : pc'[s] = pc[s] /\ id'[s] = id[s]
  BY MovedFacts
<1> QED BY <1>1 DEF OneOwner, At

\* All of the index but the points
bookkeeping == <<cur_element_count, max_elements_, allow_replace_deleted_, label_lookup_,
                 num_deleted_, deleted_elements, marked, label>>

\* The types after a move that leaves the index alone, but perhaps for a point
LEMMA TypesKept ==
  ASSUME Typed, NEW t \in Threads, NEW p, NEW i, Moves(t, p, i), UNCHANGED bookkeeping,
         data' \in [Ids -> Labels \cup {NoLabel}]
  PROVE  Typed'
<1>1. pc' \in [Threads -> Places] /\ id' \in [Threads -> 0 .. Capacity]
  BY DEF Typed, Moves
<1> QED BY <1>1 DEF Typed, Moves, Ids, bookkeeping

\* A call of another thread is where it was if the marks, the labels and the
\* table are what they were.
LEMMA OthersKept ==
  ASSUME Typed, NEW t \in Threads, NEW p, NEW i, Moves(t, p, i),
         UNCHANGED <<label_lookup_, marked, label>>,
         NEW s \in Threads \ {t}, ThreadOK(s)
  PROVE  ThreadOK(s)'
<1>1. /\ pc'[s] = pc[s] /\ id'[s] = id[s] /\ calls'[s] = calls[s] /\ old'[s] = old[s]
      /\ allow_replace_deleted_' = allow_replace_deleted_
  BY MovedFacts DEF Moves
<1>2. Called(s)'
  BY <1>1 DEF ThreadOK, Called, Idle, Op, Lab
<1>3. Found(s)'
  BY <1>1 DEF ThreadOK, Found, Op, Lab, Known
<1>4. Marked(s)'
  BY <1>1 DEF ThreadOK, Marked, Op, Lab, Known, Deleted, isMarkedDeleted
<1> QED BY <1>2, <1>3, <1>4 DEF ThreadOK

\* The same if only the element that t owns is marked, unmarked or relabelled.
LEMMA OthersBeside ==
  ASSUME Inv, NEW t \in Threads, NEW p, NEW i, Moves(t, p, i),
         pc[t] \in Owning,
         UNCHANGED label_lookup_,
         marked' \ {id[t]} = marked \ {id[t]},
         pc[t] \in Looking \/ marked' = marked,
         \A j \in Ids \ {id[t]} : label'[j] = label[j],
         NEW s \in Threads \ {t}
  PROVE  ThreadOK(s)'
<1>1. /\ pc'[s] = pc[s] /\ id'[s] = id[s] /\ calls'[s] = calls[s] /\ old'[s] = old[s]
      /\ allow_replace_deleted_' = allow_replace_deleted_
  BY MovedFacts DEF Moves, Inv
<1>2. ThreadOK(s) /\ ThreadOK(t)
  BY DEF Inv
<1>3. pc[s] \in Owning => id[s] # id[t]
  BY DEF Inv, OneOwner, At
<1>4. pc[s] \in Owning => (id[s] \in marked' <=> id[s] \in marked)
  BY <1>3
<1>5. pc[s] \in Replacing => id[s] \in Ids
  BY <1>2 DEF ThreadOK, Marked, Inv, Typed
<1>6. pc[s] \in Replacing => label'[id[s]] = label[id[s]]
  BY <1>3, <1>5 DEF Owning
<1>7. Called(s)'
  BY <1>1, <1>2 DEF ThreadOK, Called, Idle, Op, Lab
<1>8. Found(s)'
  BY <1>1, <1>2, <1>6 DEF ThreadOK, Found, Op, Lab, Known, Replacing
<1>9. pc[s] = "find" => (Deleted(Lab(s))' <=> Deleted(Lab(s)))
  <2> SUFFICES ASSUME pc[s] = "find" PROVE Deleted(Lab(s))' <=> Deleted(Lab(s))
    OBVIOUS
  <2>1. Lab(s)' = Lab(s) /\ Lab(s) \in Labels
    BY <1>1, <1>2 DEF Lab, ThreadOK, Called
  <2>2. CASE marked' = marked
    BY <2>1, <2>2 DEF Deleted, Known, isMarkedDeleted
  <2>3. CASE pc[t] \in Looking
    <3>1. Known(Lab(t)) /\ id[t] = label_lookup_[Lab(t)]
      BY <1>2, <2>3 DEF ThreadOK, Found
    <3>2. Lab(s) # Lab(t)
      BY <2>1, LabelsDiffer DEF Inv
    <3>3. Known(Lab(s)) => label_lookup_[Lab(s)] # id[t]
      BY <3>1, <3>2 DEF Inv, OneLabel, Known
    <3> QED BY <2>1, <3>3 DEF Deleted, Known, isMarkedDeleted
  <2> QED BY <2>2, <2>3
<1>10. Marked(s)'
  <2>1. /\ pc[s] \in {"count", "list"} \cup Replacing => id[s] \in marked'
        /\ pc[s] = "unmark" /\ Op(s) # "unmark" => id[s] \in marked'
        /\ pc[s] \in {"uncount", "unlist", "update"} => id[s] \notin marked'
        /\ allow_replace_deleted_ /\ pc[s] \in {"mark", "existing"} => id[s] \notin marked'
    BY <1>2, <1>4 DEF ThreadOK, Marked, Owning, Looking, Replacing
  <2>2. allow_replace_deleted_ /\ pc[s] = "find" /\ Op(s) = "mark" => ~ Deleted(Lab(s))'
    BY <1>2, <1>9 DEF ThreadOK, Marked
  <2> QED BY <1>1, <2>1, <2>2 DEF Marked, Op, Lab
<1> QED BY <1>7, <1>8, <1>10 DEF ThreadOK

\* The file stays well-formed while calls go on.
LEMMA FilesKept ==
  ASSUME FilesOK, UNCHANGED <<file, saving>>
  PROVE  FilesOK'
BY DEF FilesOK, FileOK

\* The counter agrees as long as marks, counter and the calls between them stay.
LEMMA CounterKept ==
  ASSUME Typed, CountersAgree, NEW t \in Threads, NEW p, NEW i, Moves(t, p, i),
         UNCHANGED <<num_deleted_, marked>>,
         pc[t] \notin {"init", "count", "uncount"}, p \notin {"init", "count", "uncount"}
  PROVE  (num_deleted_ + Cardinality(At({"count"}))
            = Cardinality(marked \ HeldAt({"init"})) + Cardinality(At({"uncount"})))'
<1>1. /\ At({"count"})' = At({"count"})
      /\ At({"uncount"})' = At({"uncount"})
      /\ HeldAt({"init"})' = HeldAt({"init"})
  BY MovedElsewhere
<1> QED BY <1>1 DEF CountersAgree

\* A step that changes nothing of the index but a point, and takes no thread through one
\* that does, keeps the invariant.
LEMMA ControlKeeps ==
  ASSUME Inv, NEW t \in Threads, NEW p, NEW i, Moves(t, p, i),
         UNCHANGED bookkeeping, data' \in [Ids -> Labels \cup {NoLabel}],
         pc[t] \notin {"init", "count", "uncount"} \cup Replacing,
         p \notin {"init", "count", "uncount"} \cup Replacing,
         \/ p \notin Owning
         \/ pc[t] \in Owning /\ i = id[t]
         \/ \A s \in Threads \ {t} : pc[s] \in Owning => id[s] # i,
         allow_replace_deleted_ /\ pc[t] \in Withheld => id[t] \notin marked,
         allow_replace_deleted_ /\ p \in Withheld => i \notin marked,
         MutexHeld', ThreadOK(t)'
  PROVE  Inv'
<1>1. Typed'
  BY TypesKept DEF Inv
<1>2. \A s \in Threads : ThreadOK(s)'
  BY OthersKept DEF Inv, bookkeeping
<1>3. OneOwner' /\ OneLabel'
  BY OwnersKept DEF Inv, OneLabel, bookkeeping
<1>4. FilesOK'
  BY FilesKept DEF Inv, Moves
<1>5. (num_deleted_ + Cardinality(At({"count"}))
         = Cardinality(marked \ HeldAt({"init"})) + Cardinality(At({"uncount"})))'
  BY CounterKept DEF Inv, bookkeeping
<1>6. allow_replace_deleted_ => marked \ HeldAt(Withheld)' = marked \ HeldAt(Withheld)
  BY MovedFacts DEF Inv
<1>7. CountersAgree'
  BY <1>5, <1>6 DEF Inv, CountersAgree, Withheld, bookkeeping
<1>8. HeldAt({"init", "relabel", "table"})' = HeldAt({"init", "relabel", "table"})
  BY MovedElsewhere DEF Inv, Replacing
<1>9. LabelsAgree'
  BY <1>8 DEF Inv, LabelsAgree, bookkeeping, Ids, Known
<1> QED BY <1>1, <1>2, <1>3, <1>4, <1>7, <1>9 DEF Inv

\* What stays as it is when a call does not move an element, an outcome or
\* a label it replaces.
LEMMA StayFacts ==
  ASSUME Typed, NEW t \in Threads
  PROVE  /\ id = [id EXCEPT ![t] = id[t]] /\ id[t] \in 0 .. Capacity
         /\ calls \in [Threads -> Calls] /\ old \in [Threads -> Labels \cup {NoLabel}]
         /\ copied \in [Threads -> Nat]
         /\ Ids \subseteq 0 .. Capacity
         /\ UNCHANGED index => /\ UNCHANGED bookkeeping
                               /\ data' \in [Ids -> Labels \cup {NoLabel}]
<1>1. Ids \subseteq 0 .. Capacity
  BY LabelsAssumption DEF Typed, Ids
<1>2. UNCHANGED index => /\ UNCHANGED bookkeeping
                         /\ data' \in [Ids -> Labels \cup {NoLabel}]
  BY DEF Typed, index, bookkeeping
<1> QED BY <1>1, <1>2 DEF Typed

\* A call begins: its mutex is free, and it is one the comments permit.
LEMMA BeginKeeps ==
  ASSUME Inv, ~ ReplaceKnown, NEW t \in Threads, Begin(t)
  PROVE  Inv'
<1> PICK op \in Operations, l \in Labels :
      /\ Permitted(op, l) /\ Free(l)
      /\ calls' = [calls EXCEPT ![t] = [op |-> op, label |-> l, out |-> "none"]]
      /\ Goto(t, CASE op = "add" -> "add" [] op = "replace" -> "vacancy" [] OTHER -> "find")
  BY DEF Begin
<1> DEFINE p == CASE op = "add" -> "add" [] op = "replace" -> "vacancy" [] OTHER -> "find"
<1>1. /\ Idle(t) /\ UNCHANGED <<index, file, saving, id, old, copied>>
      /\ pc' = [pc EXCEPT ![t] = p]
      /\ p \in {"add", "vacancy", "find"}
      /\ op = "replace" <=> p = "vacancy"
      /\ p = "find" => op \in {"mark", "unmark", "get"}
  BY DEF Begin, Goto, Operations
<1> HIDE DEF p
<1>2. [op |-> op, label |-> l, out |-> "none"] \in Calls
  BY DEF Calls
<1>3. /\ calls' \in [Threads -> Calls]
      /\ calls'[t].op = op /\ calls'[t].label = l
      /\ \A s \in Threads \ {t} : calls'[s] = calls[s]
  BY <1>2 DEF Inv, Typed
<1>4. Moves(t, p, id[t])
  BY <1>1, <1>3, StayFacts DEF Moves, Inv, Places, index
<1>5. pc'[t] = p /\ id'[t] = id[t]
  BY <1>4, MovedFacts DEF Inv
<1>6. pc[t] = "idle"
  BY <1>1, CallFacts DEF Inv, ThreadOK, Called, Operations
<1>7. MutexHeld'
  <2>1. Callers' \subseteq Callers \cup {t} /\ Callers \subseteq Threads /\ t \notin Callers
    BY <1>1, <1>3 DEF Callers, Idle
  <2>2. Lab(t)' = l /\ \A s \in Callers : Lab(s)' = Lab(s)
    BY <1>3, <2>1 DEF Lab
  <2>3. \A s \in Callers : getLabelOpMutex(Lab(s)) # getLabelOpMutex(l)
    BY DEF Free
  <2> QED BY <2>1, <2>2, <2>3 DEF MutexHeld, getLabelOpMutex, Inv
<1>8. ThreadOK(t)'
  <2>1. Called(t)'
    BY <1>1, <1>3, <1>5 DEF Called, Op, Lab, Permitted, index, Replacing
  <2>2. Found(t)'
    BY <1>1, <1>3, <1>5 DEF Found, Op, Lab, Permitted, index, Replacing, Looking, Known
  <2>3. Marked(t)'
    BY <1>1, <1>3, <1>5 DEF Marked, Op, Lab, Permitted, index, Replacing, Deleted, Known,
       isMarkedDeleted
  <2> QED BY <2>1, <2>2, <2>3 DEF ThreadOK
<1>9. /\ p \notin Owning \cup Withheld /\ p \notin {"init", "count", "uncount"} \cup Replacing
      /\ pc[t] \notin Withheld /\ pc[t] \notin {"init", "count", "uncount"} \cup Replacing
  BY <1>1, <1>6 DEF Owning, Withheld, Looking, Replacing
<1> QED BY <1>1, <1>4, <1>7, <1>8, <1>9, StayFacts, ControlKeeps DEF Inv

\* A call returns and gives its mutex back.
LEMMA ReturnKeeps ==
  ASSUME Inv, NEW t \in Threads, Return(t)
  PROVE  Inv'
<1>1. /\ pc[t] = "return" /\ calls' = [calls EXCEPT ![t] = NoCall]
      /\ pc' = [pc EXCEPT ![t] = "idle"] /\ id' = [id EXCEPT ![t] = 0]
      /\ old' = [old EXCEPT ![t] = NoLabel] /\ copied' = [copied EXCEPT ![t] = 0]
      /\ UNCHANGED <<index, file, saving>>
  BY DEF Return, Goto
<1>2. /\ calls' \in [Threads -> Calls] /\ calls'[t] = NoCall
      /\ \A s \in Threads \ {t} : calls'[s] = calls[s]
  BY <1>1, CallFacts DEF Inv, Typed
<1>3. Moves(t, "idle", 0)
  <2>1. 0 \in 0 .. Capacity
    BY LabelsAssumption
  <2>2. /\ old' \in [Threads -> Labels \cup {NoLabel}] /\ \A s \in Threads \ {t} : old'[s] = old[s]
        /\ copied' \in [Threads -> Nat]
    BY <1>1 DEF Inv, Typed
  <2> QED BY <1>1, <1>2, <2>1, <2>2 DEF Moves, Places, index
<1>4. pc'[t] = "idle" /\ id'[t] = 0
  BY <1>3, MovedFacts DEF Inv
<1>5. MutexHeld'
  <2>1. Callers' \subseteq Callers \ {t} /\ Callers \subseteq Threads
    BY <1>2 DEF Callers, Idle
  <2>2. \A s \in Callers \ {t} : Lab(s)' = Lab(s)
    BY <1>2, <2>1 DEF Lab
  <2> QED BY <2>1, <2>2 DEF MutexHeld, getLabelOpMutex, Inv
<1>6. ThreadOK(t)'
  BY <1>1, <1>2, <1>4 DEF ThreadOK, Called, Found, Marked, Idle, Op, Lab, NoCall,
     Looking, Replacing
<1>7. /\ "idle" \notin Owning \cup Withheld /\ "idle" \notin {"init", "count", "uncount"} \cup Replacing
      /\ pc[t] \notin Withheld /\ pc[t] \notin {"init", "count", "uncount"} \cup Replacing
  BY <1>1 DEF Owning, Withheld, Looking, Replacing
<1> QED BY <1>1, <1>3, <1>5, <1>6, <1>7, StayFacts, ControlKeeps DEF Inv

\* A call is refused, from anywhere but where it has to take something back.
LEMMA RefuseKeeps ==
  ASSUME Inv, NEW t \in Threads, Refuse(t), UNCHANGED <<index, file, saving>>,
         pc[t] \in {"find", "add", "mark", "unmark"},
         pc[t] = "unmark" => id[t] \notin marked
  PROVE  Inv'
<1>1. /\ pc' = [pc EXCEPT ![t] = "return"] /\ Outcome(t, "refused") /\ UNCHANGED <<id, old, copied>>
  BY DEF Refuse, Goto
<1>2. /\ calls' \in [Threads -> Calls] /\ SameCall(t)
      /\ \A s \in Threads \ {t} : calls'[s] = calls[s]
  BY <1>1, OutcomeFacts DEF Inv
<1>3. Moves(t, "return", id[t])
  BY <1>1, <1>2, StayFacts DEF Moves, Places, index, Inv
<1>4. Lab(t) \in Labels /\ Op(t) \in Operations /\ ThreadOK(t)
  BY DEF Inv, ThreadOK, Called
<1>5. MutexHeld' /\ ~ Idle(t)'
  BY <1>2, <1>3, <1>4, MutexKept DEF Inv
<1>6. pc'[t] = "return"
  BY <1>3, MovedFacts DEF Inv
<1>7. ThreadOK(t)'
  <2>1. Op(t)' = Op(t) /\ Lab(t)' = Lab(t) /\ allow_replace_deleted_' = allow_replace_deleted_
    BY <1>2 DEF SameCall, Op, Lab, index
  <2>2. Called(t)'
    BY <1>4, <1>6, <2>1 DEF ThreadOK, Called, Replacing
  <2> QED BY <1>6, <2>2 DEF ThreadOK, Found, Marked, Looking, Replacing
<1>8. /\ "return" \notin Owning \cup Withheld /\ "return" \notin {"init", "count", "uncount"} \cup Replacing
      /\ pc[t] \notin {"init", "count", "uncount"} \cup Replacing
      /\ pc[t] \in Withheld => pc[t] = "unmark"
  BY <1>1 DEF Owning, Withheld, Looking, Replacing
<1> QED BY <1>3, <1>5, <1>7, <1>8, StayFacts, ControlKeeps DEF Inv

\* A call goes on with nothing but its place and its element changed.
LEMMA GoFacts ==
  ASSUME Inv, NEW t \in Threads, pc[t] # "idle", NEW p \in Places, NEW i \in 0 .. Capacity,
         Goto(t, p), Take(t, i) \/ (UNCHANGED id /\ i = id[t]),
         UNCHANGED <<calls, old, copied, allow_replace_deleted_, file, saving>>
  PROVE  /\ Moves(t, p, i) /\ pc'[t] = p /\ id'[t] = i
         /\ Op(t)' = Op(t) /\ Lab(t)' = Lab(t) /\ SameCall(t)
         /\ Op(t) \in Operations /\ Lab(t) \in Labels
         /\ MutexHeld' /\ ThreadOK(t) /\ Called(t)
<1>1. id' = [id EXCEPT ![t] = i]
  BY StayFacts DEF Inv, Take
<1>2. Moves(t, p, i)
  BY <1>1, StayFacts DEF Moves, Goto, Inv
<1>3. Op(t)' = Op(t) /\ Lab(t)' = Lab(t) /\ SameCall(t)
  BY DEF Op, Lab, SameCall
<1>4. ThreadOK(t) /\ Called(t) /\ Lab(t) \in Labels /\ Op(t) \in Operations
  BY DEF Inv, ThreadOK, Called
<1>5. MutexHeld'
  BY <1>2, <1>3, <1>4, MutexKept DEF Inv
<1>6. pc'[t] = p /\ id'[t] = i
  BY <1>2, MovedFacts DEF Inv
<1> QED BY <1>2, <1>3, <1>4, <1>5, <1>6

\* An element that the table leads to belongs to no other call, unless a
\* replacement is about to take its label away, and then it is marked.
LEMMA OwnAlone ==
  ASSUME Inv, NEW t \in Threads, Lab(t) \in Labels, Known(Lab(t)),
         NEW s \in Threads \ {t}, pc[s] \in Owning, id[s] = label_lookup_[Lab(t)]
  PROVE  pc[s] \in Replacing /\ allow_replace_deleted_ /\ id[s] \in marked
<1>1. ThreadOK(s)
  BY DEF Inv
<1>2. Lab(s) # Lab(t)
  BY LabelsDiffer DEF Inv
<1>3. pc[s] \notin Looking
  BY <1>1, <1>2 DEF ThreadOK, Found, Known, Inv, OneLabel
<1> QED BY <1>1, <1>3 DEF Owning, ThreadOK, Marked, Called

\* Looking the label up finds an element nobody else is working on.
LEMMA FindKeeps ==
  ASSUME Inv, NEW t \in Threads, Find(t)
  PROVE  Inv'
<1>1. pc[t] = "find" /\ UNCHANGED <<index, file, saving>> /\ ThreadOK(t)
  BY DEF Find, Inv
<1>2. CASE Refuse(t)
  BY <1>1, <1>2, RefuseKeeps
<1>3. CASE ~ Refuse(t)
  <2> DEFINE p == IF Op(t) = "get" THEN "copy" ELSE Op(t)
             i == label_lookup_[Lab(t)]
  <2>1. /\ Findable(Op(t), Lab(t)) /\ Take(t, i) /\ Goto(t, p) /\ UNCHANGED <<calls, old, copied>>
    BY <1>3 DEF Find
  <2>2. /\ Op(t) \in {"mark", "unmark", "get"} /\ Lab(t) \in Labels /\ Known(Lab(t))
        /\ p \in {"copy", "mark", "unmark"} /\ p \in Places
        /\ p = "unmark" => Op(t) = "unmark" /\ ~ allow_replace_deleted_
        /\ p = "mark" => Op(t) = "mark"
    BY <1>1, <2>1 DEF ThreadOK, Called, Findable, Places, Looking
  <2>3. i \in Ids /\ i \in 0 .. Capacity
    BY <2>2, StayFacts DEF Known, Inv, Typed
  <2> HIDE DEF p
  <2>4. /\ Moves(t, p, i) /\ pc'[t] = p /\ id'[t] = i /\ Op(t)' = Op(t) /\ Lab(t)' = Lab(t)
        /\ MutexHeld'
    BY <1>1, <2>1, <2>2, <2>3, GoFacts DEF index
  <2>5. p = "mark" /\ allow_replace_deleted_ => i \notin marked
    BY <1>1, <2>2 DEF ThreadOK, Marked, Deleted, isMarkedDeleted
  <2>6. p \in Owning => \A s \in Threads \ {t} : pc[s] \in Owning => id[s] # i
    BY <2>2, <2>5, OwnAlone DEF Owning, Looking, Replacing
  <2>7. ThreadOK(t)'
    <3>1. Called(t)'
      BY <1>1, <2>2, <2>4 DEF ThreadOK, Called, Replacing, index
    <3>2. Found(t)'
      BY <1>1, <2>2, <2>4 DEF Found, Replacing, index, Known
    <3>3. Marked(t)'
      BY <1>1, <2>2, <2>4, <2>5 DEF Marked, Replacing, index
    <3> QED BY <3>1, <3>2, <3>3 DEF ThreadOK
  <2>8. /\ p \notin {"init", "count", "uncount"} \cup Replacing
        /\ pc[t] \notin {"init", "count", "uncount"} \cup Replacing
        /\ pc[t] \notin Withheld
        /\ allow_replace_deleted_ => p \notin Withheld
    BY <1>1, <2>2 DEF Withheld, Replacing
  <2> QED BY <1>1, <2>4, <2>6, <2>7, <2>8, StayFacts, ControlKeeps DEF Inv
<1> QED BY <1>2, <1>3

\* Reading a point and writing one touch neither marks nor labels.
LEMMA CopyUpdateKeeps ==
  ASSUME Inv, NEW t \in Threads, Copy(t) \/ Update(t)
  PROVE  Inv'
<1>1. /\ pc[t] \in {"copy", "update"} /\ ThreadOK(t)
      /\ Goto(t, "return") /\ UNCHANGED bookkeeping
      /\ UNCHANGED <<file, saving, id, old>>
      /\ \E o \in {"none", "ok", "refused", "wrong"} : Outcome(t, o)
  BY DEF Copy, Update, Inv, index, bookkeeping
<1>2. Lab(t) \in Labels /\ Op(t) \in Operations
  BY <1>1 DEF ThreadOK, Called
<1>3. data' \in [Ids -> Labels \cup {NoLabel}]
  BY <1>2 DEF Copy, Update, index, Inv, Typed
<1>4. copied' \in [Threads -> Nat]
  BY LabelsAssumption, StayFacts DEF Copy, Update, dim, Inv
<1>5. /\ calls' \in [Threads -> Calls] /\ SameCall(t)
      /\ \A s \in Threads \ {t} : calls'[s] = calls[s]
  BY <1>1, OutcomeFacts DEF Inv
<1>6. Moves(t, "return", id[t])
  BY <1>1, <1>4, <1>5, StayFacts DEF Moves, Places, Goto, bookkeeping, Inv
<1>7. MutexHeld'
  BY <1>2, <1>5, <1>6, MutexKept DEF Inv
<1>8. pc'[t] = "return"
  BY <1>6, MovedFacts DEF Inv
<1>9. ThreadOK(t)'
  <2>1. Op(t)' = Op(t) /\ Lab(t)' = Lab(t) /\ allow_replace_deleted_' = allow_replace_deleted_
    BY <1>1, <1>5 DEF SameCall, Op, Lab, bookkeeping
  <2>2. Called(t)'
    BY <1>1, <1>2, <1>8, <2>1 DEF ThreadOK, Called, Replacing
  <2> QED BY <1>8, <2>2 DEF ThreadOK, Found, Marked, Looking, Replacing
<1>10. /\ "return" \notin Owning \cup Withheld /\ "return" \notin {"init", "count", "uncount"} \cup Replacing
       /\ pc[t] \notin Withheld /\ pc[t] \notin {"init", "count", "uncount"} \cup Replacing
  BY <1>1 DEF Owning, Withheld, Looking, Replacing
<1> QED BY <1>1, <1>3, <1>6, <1>7, <1>9, <1>10, ControlKeeps

\* Adding a label that has an element works on that element, unless it is
\* deleted and may be handed out.
LEMMA AddKnownKeeps ==
  ASSUME Inv, NEW t \in Threads, AddKnown(t)
  PROVE  Inv'
<1>1. pc[t] = "add" /\ Known(Lab(t)) /\ UNCHANGED <<index, file, saving>> /\ ThreadOK(t)
  BY DEF AddKnown, Inv
<1>2. CASE Refuse(t)
  BY <1>1, <1>2, RefuseKeeps
<1>3. CASE ~ Refuse(t)
  <2> DEFINE i == label_lookup_[Lab(t)]
  <2>1. /\ ~ (allow_replace_deleted_ /\ Deleted(Lab(t)))
        /\ Take(t, i) /\ Goto(t, "existing") /\ UNCHANGED <<calls, old, copied>>
    BY <1>3 DEF AddKnown
  <2>2. i \in Ids /\ i \in 0 .. Capacity /\ "existing" \in Places
    BY <1>1, StayFacts DEF Known, Inv, Typed, Places, Looking
  <2>3. /\ Moves(t, "existing", i) /\ pc'[t] = "existing" /\ id'[t] = i
        /\ Op(t)' = Op(t) /\ Lab(t)' = Lab(t) /\ Lab(t) \in Labels /\ Op(t) \in Operations
        /\ MutexHeld'
    BY <1>1, <2>1, <2>2, GoFacts DEF index
  <2>4. allow_replace_deleted_ => i \notin marked
    BY <1>1, <2>1 DEF Deleted, isMarkedDeleted
  <2>5. \A s \in Threads \ {t} : pc[s] \in Owning => id[s] # i
    BY <1>1, <2>3, <2>4, OwnAlone
  <2>6. ThreadOK(t)'
    <3>1. Called(t)'
      BY <1>1, <2>3 DEF ThreadOK, Called, Replacing, index
    <3>2. Found(t)'
      BY <1>1, <2>3 DEF Found, Replacing, index, Known
    <3>3. Marked(t)'
      BY <1>1, <2>3, <2>4 DEF Marked, Replacing, index
    <3> QED BY <3>1, <3>2, <3>3 DEF ThreadOK
  <2>7. /\ "existing" \notin {"init", "count", "uncount"} \cup Replacing \cup Withheld
        /\ pc[t] \notin {"init", "count", "uncount"} \cup Replacing \cup Withheld
    BY <1>1 DEF Withheld, Replacing
  <2> QED BY <1>1, <2>3, <2>5, <2>6, <2>7, StayFacts, ControlKeeps DEF Inv
<1> QED BY <1>2, <1>3

\* An element that is deleted is restored before it is updated.
LEMMA ExistingKeeps ==
  ASSUME Inv, NEW t \in Threads, Existing(t)
  PROVE  Inv'
<1> DEFINE p == IF isMarkedDeleted(id[t]) THEN "unmark" ELSE "update"
<1>1. /\ pc[t] = "existing" /\ UNCHANGED <<index, file, saving>> /\ ThreadOK(t)
      /\ Goto(t, p) /\ UNCHANGED <<calls, id, old, copied>>
  BY DEF Existing, Inv
<1>2. /\ p \in {"unmark", "update"} /\ p \in Places
      /\ p = "unmark" <=> id[t] \in marked
  BY DEF isMarkedDeleted, Places, Looking
<1> HIDE DEF p
<1>3. /\ Moves(t, p, id[t]) /\ pc'[t] = p /\ id'[t] = id[t]
      /\ Op(t)' = Op(t) /\ Lab(t)' = Lab(t) /\ Lab(t) \in Labels /\ Op(t) \in Operations
      /\ MutexHeld'
  BY <1>1, <1>2, GoFacts, StayFacts DEF index, Inv
<1>4. allow_replace_deleted_ => p = "update"
  BY <1>1, <1>2 DEF ThreadOK, Marked
<1>5. ThreadOK(t)'
  <2>1. Called(t)'
    BY <1>1, <1>2, <1>3 DEF ThreadOK, Called, Replacing, index
  <2>2. Found(t)'
    BY <1>1, <1>2, <1>3 DEF ThreadOK, Found, Replacing, index, Known, Looking
  <2>3. Marked(t)'
    BY <1>1, <1>2, <1>3 DEF Marked, Replacing, index
  <2> QED BY <2>1, <2>2, <2>3 DEF ThreadOK
<1>6. /\ p \notin {"init", "count", "uncount"} \cup Replacing
      /\ pc[t] \notin {"init", "count", "uncount"} \cup Replacing \cup Withheld
      /\ allow_replace_deleted_ => p \notin Withheld
      /\ pc[t] \in Owning
  BY <1>1, <1>2, <1>4 DEF Withheld, Replacing, Owning, Looking
<1> QED BY <1>1, <1>3, <1>5, <1>6, StayFacts, ControlKeeps DEF Inv
-------------------------------------------------------------------------------
(***************************************************************************)
(* The steps that change marks, counter and set of deleted elements        *)
(***************************************************************************)
CounterRight ==
  num_deleted_ + Cardinality(At({"count"}))
    = Cardinality(marked \ HeldAt({"init"})) + Cardinality(At({"uncount"}))
SetRight ==
  deleted_elements = IF allow_replace_deleted_ THEN marked \ HeldAt(Withheld) ELSE {}

\* The two halves of CountersAgree
LEMMA CountersSplit == CountersAgree <=> CounterRight /\ SetRight
BY DEF CountersAgree, CounterRight, SetRight, Withheld

\* A thread that comes to a place is one more there, one that leaves one less.
LEMMA AtCount ==
  ASSUME Typed, NEW t \in Threads, NEW p, NEW i, Moves(t, p, i), NEW P
  PROVE  /\ Cardinality(At(P)) \in Nat /\ Cardinality(At(P)') \in Nat
         /\ p \in P /\ pc[t] \notin P => Cardinality(At(P)') = Cardinality(At(P)) + 1
         /\ p \notin P /\ pc[t] \in P => Cardinality(At(P)') = Cardinality(At(P)) - 1
<1>1. At(P) \subseteq Threads /\ IsFiniteSet(At(P))
  <2>1. At(P) \subseteq Threads
    BY DEF At
  <2> QED BY <2>1, FS_Subset, LabelsAssumption
<1>2. /\ At(P)' = IF p \in P THEN At(P) \cup {t} ELSE At(P) \ {t}
      /\ t \in At(P) <=> pc[t] \in P
  BY MovedFacts
<1>3. IsFiniteSet(At(P)')
  BY <1>1, <1>2, FS_AddElement, FS_RemoveElement
<1>4. Cardinality(At(P)) \in Nat /\ Cardinality(At(P)') \in Nat
  BY <1>1, <1>3, FS_CardinalityType
<1>5. ASSUME p \in P, pc[t] \notin P
      PROVE  Cardinality(At(P)') = Cardinality(At(P)) + 1
  <2>1. At(P)' = At(P) \cup {t} /\ t \notin At(P)
    BY <1>2, <1>5
  <2>2. Cardinality(At(P) \cup {t}) = Cardinality(At(P)) + 1
    BY <1>1, <2>1, FS_AddElement
  <2> QED BY <2>1, <2>2
<1>6. ASSUME p \notin P, pc[t] \in P
      PROVE  Cardinality(At(P)') = Cardinality(At(P)) - 1
  <2>1. At(P)' = At(P) \ {t} /\ t \in At(P)
    BY <1>2, <1>6
  <2>2. Cardinality(At(P) \ {t}) = Cardinality(At(P)) - 1
    BY <1>1, <2>1, FS_RemoveElement
  <2> QED BY <2>1, <2>2
<1> QED BY <1>4, <1>5, <1>6

\* The marks that the counter counts are finitely many.
LEMMA MarksFinite ==
  ASSUME Typed, NEW S
  PROVE  IsFiniteSet(marked \ S) /\ Cardinality(marked \ S) \in Nat
<1>1. IsFiniteSet(Ids)
  <2>1. cur_element_count - 1 \in Int /\ 0 \in Int
    BY DEF Typed
  <2>2. IsFiniteSet(0 .. cur_element_count - 1)
    BY <2>1, FS_Interval
  <2> QED BY <2>2 DEF Ids
<1>2. IsFiniteSet(marked \ S)
  BY <1>1, FS_Subset DEF Typed
<1> QED BY <1>2, FS_CardinalityType

\* Labels and table agree as long as neither they nor the elements being added
\* or relabelled change.
LEMMA LabelsKept ==
  ASSUME Typed, LabelsAgree, NEW t \in Threads, NEW p, NEW i, Moves(t, p, i),
         UNCHANGED <<cur_element_count, label_lookup_, label>>,
         pc[t] \notin {"init", "relabel", "table"}, p \notin {"init", "relabel", "table"}
  PROVE  LabelsAgree'
<1>1. HeldAt({"init", "relabel", "table"})' = HeldAt({"init", "relabel", "table"})
  BY MovedElsewhere
<1> QED BY <1>1 DEF LabelsAgree, Ids, Known

\* A call that goes on with an element of its own leaves a well-formed state
\* but for the marks, whose halves are argued step by step.
LEMMA OwnStepKeeps ==
  ASSUME Inv, NEW t \in Threads, NEW p, Moves(t, p, id[t]), SameCall(t),
         pc[t] \in Looking \ {"init"}, p \in (Looking \ {"init"}) \cup {"return"},
         UNCHANGED <<cur_element_count, max_elements_, label_lookup_, label, data>>,
         marked' \ {id[t]} = marked \ {id[t]}, marked' \subseteq Ids,
         num_deleted_' \in Int, deleted_elements' \subseteq Ids,
         p = "list" => allow_replace_deleted_,
         Marked(t)', CounterRight', SetRight'
  PROVE  Inv'
<1>1. Lab(t) \in Labels /\ Op(t) \in Operations /\ ThreadOK(t)
  BY DEF Inv, ThreadOK, Called, Looking
<1>2. MutexHeld'
  BY <1>1, MutexKept DEF Inv
<1>3. OneOwner' /\ OneLabel'
  <2>1. pc[t] \in Owning
    BY DEF Owning
  <2> QED BY <2>1, OwnersKept DEF Inv, OneLabel
<1>4. FilesOK'
  BY FilesKept DEF Inv, Moves
<1>5. Typed'
  <2>1. pc' \in [Threads -> Places] /\ id' \in [Threads -> 0 .. Capacity]
    BY DEF Inv, Typed, Moves
  <2> QED BY <2>1 DEF Inv, Typed, Moves, Ids
<1>6. /\ pc'[t] = p /\ id'[t] = id[t] /\ Op(t)' = Op(t) /\ Lab(t)' = Lab(t)
      /\ allow_replace_deleted_' = allow_replace_deleted_
  <2>1. pc'[t] = p /\ id'[t] = id[t]
    BY MovedFacts DEF Inv
  <2> QED BY <2>1 DEF SameCall, Op, Lab, Moves
<1>7. ThreadOK(t)'
  <2>1. Called(t)'
    BY <1>1, <1>6 DEF ThreadOK, Called, Looking, Replacing
  <2>2. Found(t)'
    BY <1>1, <1>6 DEF ThreadOK, Found, Looking, Replacing, Known
  <2> QED BY <2>1, <2>2 DEF ThreadOK
<1>8. \A s \in Threads \ {t} : ThreadOK(s)'
  <2>1. pc[t] \in Owning /\ pc[t] \in Looking /\ \A j \in Ids : label'[j] = label[j]
    BY DEF Owning
  <2> QED BY <2>1, OthersBeside
<1>9. LabelsAgree'
  BY LabelsKept DEF Inv, Looking
<1>10. CountersAgree'
  BY CountersSplit, PTL
<1> QED BY <1>2, <1>3, <1>4, <1>5, <1>7, <1>8, <1>9, <1>10 DEF Inv

\* Marking: what is marked and not yet counted, and counted and not yet in the
\* set, is the element of a call.
LEMMA SetMarkKeeps ==
  ASSUME Inv, NEW t \in Threads, SetMark(t)
  PROVE  Inv'
<1>1. pc[t] = "mark" /\ UNCHANGED <<cur_element_count, max_elements_, allow_replace_deleted_,
        label_lookup_, num_deleted_, deleted_elements, label, data, file, saving>>
  BY DEF SetMark
<1>2. CASE isMarkedDeleted(id[t])
  BY <1>1, <1>2, RefuseKeeps DEF SetMark, index
<1>3. CASE ~ isMarkedDeleted(id[t])
  <2> DEFINE i == id[t]
  <2>1. /\ marked' = marked \cup {i} /\ i \notin marked
        /\ Outcome(t, "ok") /\ Goto(t, "count") /\ UNCHANGED <<id, old, copied>>
    BY <1>3 DEF SetMark, isMarkedDeleted
  <2>2. /\ calls' \in [Threads -> Calls] /\ SameCall(t)
        /\ \A s \in Threads \ {t} : calls'[s] = calls[s]
    BY <2>1, OutcomeFacts DEF Inv
  <2>3. Moves(t, "count", i)
    BY <1>1, <2>1, <2>2, StayFacts DEF Moves, Places, Looking, Goto, Inv
  <2>4. i \in Ids
    BY <1>1 DEF Inv, Typed, ThreadOK, Found, Looking, Known
  <2>5. pc'[t] = "count" /\ id'[t] = i
    BY <2>3, MovedFacts DEF Inv
  <2>6. Marked(t)'
    BY <2>1, <2>5 DEF Marked, Replacing
  <2>7. CounterRight'
    <3>1. Cardinality(At({"count"})') = Cardinality(At({"count"})) + 1
          /\ Cardinality(At({"count"})) \in Nat /\ Cardinality(At({"uncount"})) \in Nat
      BY <1>1, <2>3, AtCount DEF Inv
    <3>2. At({"uncount"})' = At({"uncount"}) /\ HeldAt({"init"})' = HeldAt({"init"})
      BY <1>1, <2>3, MovedElsewhere DEF Inv
    <3>3. i \notin HeldAt({"init"})
      BY <1>1, OwnerFacts DEF Inv, Owning, Looking
    <3>4. marked' \ HeldAt({"init"}) = (marked \ HeldAt({"init"})) \cup {i}
      BY <2>1, <3>3
    <3> DEFINE counted == marked \ HeldAt({"init"})
    <3>5. IsFiniteSet(counted) /\ Cardinality(counted) \in Nat
      BY MarksFinite DEF Inv
    <3>6. Cardinality(counted \cup {i}) = Cardinality(counted) + 1
      BY <2>1, <3>3, <3>5, FS_AddElement
    <3>7. num_deleted_ \in Int /\ num_deleted_' = num_deleted_ /\ CounterRight
      BY <1>1, CountersSplit DEF Inv, Typed
    <3>8. Cardinality(marked' \ HeldAt({"init"})') = Cardinality(counted) + 1
      BY <3>2, <3>4, <3>6
    <3> QED BY <3>1, <3>2, <3>5, <3>7, <3>8 DEF CounterRight
  <2>8. SetRight'
    <3>1. HeldAt(Withheld)' = HeldAt(Withheld) \cup {i}
      BY <1>1, <2>3, MovedFacts DEF Inv, Withheld
    <3>2. marked' \ HeldAt(Withheld)' = marked \ HeldAt(Withheld)
      BY <2>1, <3>1
    <3>3. SetRight
      BY CountersSplit DEF Inv
    <3> QED BY <1>1, <3>2, <3>3 DEF SetRight
  <2>9. marked' \ {i} = marked \ {i} /\ marked' \subseteq Ids
    BY <2>1, <2>4 DEF Inv, Typed
  <2> QED BY <1>1, <2>2, <2>3, <2>6, <2>7, <2>8, <2>9, OwnStepKeeps DEF Inv, Typed, Looking
<1> QED BY <1>2, <1>3

\* Unmarking: the mark goes first, so what is unmarked and still counted is the
\* element of a call.
LEMMA ClearMarkKeeps ==
  ASSUME Inv, NEW t \in Threads, ClearMark(t)
  PROVE  Inv'
<1>1. pc[t] = "unmark" /\ UNCHANGED <<cur_element_count, max_elements_, allow_replace_deleted_,
        label_lookup_, num_deleted_, deleted_elements, label, data, file, saving>>
  BY DEF ClearMark
<1>2. CASE ~ isMarkedDeleted(id[t])
  BY <1>1, <1>2, RefuseKeeps DEF ClearMark, index, isMarkedDeleted
<1>3. CASE isMarkedDeleted(id[t])
  <2> DEFINE i == id[t]
  <2>1. /\ marked' = marked \ {i} /\ i \in marked
        /\ Outcome(t, "ok") /\ Goto(t, "uncount") /\ UNCHANGED <<id, old, copied>>
    BY <1>3 DEF ClearMark, isMarkedDeleted
  <2>2. /\ calls' \in [Threads -> Calls] /\ SameCall(t)
        /\ \A s \in Threads \ {t} : calls'[s] = calls[s]
    BY <2>1, OutcomeFacts DEF Inv
  <2>3. Moves(t, "uncount", i)
    BY <1>1, <2>1, <2>2, StayFacts DEF Moves, Places, Looking, Goto, Inv
  <2>4. i \in Ids
    BY <1>1 DEF Inv, Typed, ThreadOK, Found, Looking, Known
  <2>5. pc'[t] = "uncount" /\ id'[t] = i
    BY <2>3, MovedFacts DEF Inv
  <2>6. Marked(t)'
    BY <2>1, <2>5 DEF Marked, Replacing
  <2>7. CounterRight'
    <3>1. Cardinality(At({"uncount"})') = Cardinality(At({"uncount"})) + 1
          /\ Cardinality(At({"count"})) \in Nat /\ Cardinality(At({"uncount"})) \in Nat
      BY <1>1, <2>3, AtCount DEF Inv
    <3>2. At({"count"})' = At({"count"}) /\ HeldAt({"init"})' = HeldAt({"init"})
      BY <1>1, <2>3, MovedElsewhere DEF Inv
    <3>3. i \notin HeldAt({"init"})
      BY <1>1, OwnerFacts DEF Inv, Owning, Looking
    <3>4. /\ marked' \ HeldAt({"init"}) = (marked \ HeldAt({"init"})) \ {i}
          /\ i \in marked \ HeldAt({"init"})
      BY <2>1, <3>3
    <3> DEFINE counted == marked \ HeldAt({"init"})
    <3>5. IsFiniteSet(counted) /\ Cardinality(counted) \in Nat
      BY MarksFinite DEF Inv
    <3>6. Cardinality(counted \ {i}) = Cardinality(counted) - 1
      BY <2>1, <3>3, <3>5, FS_RemoveElement
    <3>7. num_deleted_ \in Int /\ num_deleted_' = num_deleted_ /\ CounterRight
      BY <1>1, CountersSplit DEF Inv, Typed
    <3>8. Cardinality(marked' \ HeldAt({"init"})') = Cardinality(counted) - 1
      BY <3>2, <3>4, <3>6
    <3> QED BY <3>1, <3>2, <3>5, <3>7, <3>8 DEF CounterRight
  <2>8. SetRight'
    <3>1. /\ HeldAt(Withheld)' = {id[s] : s \in At(Withheld) \ {t}}
          /\ HeldAt(Withheld) = {id[s] : s \in At(Withheld) \ {t}} \cup {i}
      BY <1>1, <2>3, MovedFacts DEF Inv, Withheld
    <3>2. i \notin {id[s] : s \in At(Withheld) \ {t}}
      BY <1>1, OwnerFacts DEF Inv, Owning, Looking, Withheld, Replacing
    <3>3. marked' \ HeldAt(Withheld)' = marked \ HeldAt(Withheld)
      BY <2>1, <3>1, <3>2
    <3>4. SetRight
      BY CountersSplit DEF Inv
    <3> QED BY <1>1, <3>3, <3>4 DEF SetRight
  <2>9. marked' \ {i} = marked \ {i} /\ marked' \subseteq Ids
    BY <2>1, <2>4 DEF Inv, Typed
  <2> QED BY <1>1, <2>2, <2>3, <2>6, <2>7, <2>8, <2>9, OwnStepKeeps DEF Inv, Typed, Looking
<1> QED BY <1>2, <1>3

\* Steps that go on without an outcome, on the call's own element
LEMMA OwnGoFacts ==
  ASSUME Inv, NEW t \in Threads, pc[t] \in Looking, NEW p \in Places, Goto(t, p),
         UNCHANGED <<calls, id, old, copied, allow_replace_deleted_, file, saving>>
  PROVE  /\ Moves(t, p, id[t]) /\ pc'[t] = p /\ id'[t] = id[t] /\ SameCall(t)
         /\ Op(t)' = Op(t) /\ ThreadOK(t) /\ id[t] \in Ids
<1>1. pc[t] # "idle"
  BY DEF Looking
<1>2. id[t] \in 0 .. Capacity
  BY StayFacts DEF Inv
<1>3. /\ Moves(t, p, id[t]) /\ pc'[t] = p /\ id'[t] = id[t] /\ SameCall(t)
      /\ Op(t)' = Op(t) /\ ThreadOK(t)
  BY <1>1, <1>2, GoFacts
<1>4. id[t] \in Ids
  BY <1>3 DEF Inv, Typed, ThreadOK, Found, Known
<1> QED BY <1>3, <1>4

\* Counting a mark, and taking it off the count
LEMMA CountKeeps ==
  ASSUME Inv, NEW t \in Threads, Count(t) \/ Uncount(t)
  PROVE  Inv'
<1> DEFINE p == IF Count(t) THEN (IF allow_replace_deleted_ THEN "list" ELSE "return")
                ELSE (IF allow_replace_deleted_ THEN "unlist" ELSE AfterUnmark(t))
<1>1. /\ pc[t] \in {"count", "uncount"} /\ pc[t] \in Looking \ {"init"}
      /\ pc[t] = "count" <=> Count(t)
      /\ Goto(t, p)
      /\ num_deleted_' = IF pc[t] = "count" THEN num_deleted_ + 1 ELSE num_deleted_ - 1
      /\ UNCHANGED <<cur_element_count, max_elements_, allow_replace_deleted_, label_lookup_,
           deleted_elements, marked, label, data, file, saving, calls, id, old, copied>>
  BY DEF Count, Uncount, Looking
<1>2. /\ p \in {"list", "return", "unlist", "update"}
      /\ p \in Places /\ p \in (Looking \ {"init"}) \cup {"return"}
      /\ p = "list" => allow_replace_deleted_ /\ pc[t] = "count"
      /\ p \in {"unlist", "update"} => pc[t] = "uncount"
      /\ allow_replace_deleted_ => (pc[t] \in Withheld <=> p \in Withheld)
  BY <1>1 DEF AfterUnmark, Places, Looking, Withheld
<1> HIDE DEF p
<1>3. /\ Moves(t, p, id[t]) /\ pc'[t] = p /\ id'[t] = id[t] /\ SameCall(t)
      /\ ThreadOK(t)
  BY <1>1, <1>2, OwnGoFacts
<1>4. Marked(t)'
  BY <1>1, <1>2, <1>3 DEF ThreadOK, Marked, Replacing
<1>5. num_deleted_ \in Int /\ CounterRight /\ SetRight
  BY CountersSplit DEF Inv, Typed
<1>6. CounterRight'
  <2>1. /\ HeldAt({"init"})' = HeldAt({"init"})
        /\ Cardinality(marked \ HeldAt({"init"})) \in Nat
        /\ Cardinality(At({"count"})) \in Nat /\ Cardinality(At({"uncount"})) \in Nat
    BY <1>1, <1>2, <1>3, MovedElsewhere, MarksFinite, AtCount DEF Inv
  <2>2. CASE pc[t] = "count"
    <3>1. /\ At({"uncount"})' = At({"uncount"})
          /\ Cardinality(At({"count"})') = Cardinality(At({"count"})) - 1
      BY <1>2, <1>3, <2>2, MovedElsewhere, AtCount DEF Inv
    <3>2. num_deleted_' = num_deleted_ + 1 /\ marked' = marked
      BY <1>1, <2>2
    <3>3. num_deleted_ \in Int /\ CounterRight
      BY <1>5
    <3>4. Cardinality(marked' \ HeldAt({"init"})') = Cardinality(marked \ HeldAt({"init"}))
      BY <2>1, <3>2
    <3> QED BY <2>1, <3>1, <3>2, <3>3, <3>4 DEF CounterRight
  <2>3. CASE pc[t] = "uncount"
    <3>1. /\ At({"count"})' = At({"count"})
          /\ Cardinality(At({"uncount"})') = Cardinality(At({"uncount"})) - 1
      BY <1>2, <1>3, <2>3, MovedElsewhere, AtCount DEF Inv
    <3>2. num_deleted_' = num_deleted_ - 1 /\ marked' = marked
      BY <1>1, <2>3
    <3>3. num_deleted_ \in Int /\ CounterRight
      BY <1>5
    <3>4. Cardinality(marked' \ HeldAt({"init"})') = Cardinality(marked \ HeldAt({"init"}))
      BY <2>1, <3>2
    <3> QED BY <2>1, <3>1, <3>2, <3>3, <3>4, SMTT(30) DEF CounterRight
  <2> QED BY <1>1, <2>2, <2>3
<1>7. SetRight'
  <2>1. allow_replace_deleted_ => HeldAt(Withheld)' = HeldAt(Withheld)
    BY <1>2, <1>3, MovedFacts DEF Inv
  <2> QED BY <1>1, <1>5, <2>1 DEF SetRight
<1>8. num_deleted_' \in Int
  BY <1>1, <1>5
<1> QED BY <1>1, <1>2, <1>3, <1>4, <1>6, <1>7, <1>8, OwnStepKeeps DEF Inv, Typed

\* Offering the element for replacement
LEMMA ListKeeps ==
  ASSUME Inv, NEW t \in Threads, List(t)
  PROVE  Inv'
<1>1. /\ pc[t] = "list" /\ deleted_elements' = deleted_elements \cup {id[t]} /\ Goto(t, "return")
      /\ UNCHANGED <<cur_element_count, max_elements_, allow_replace_deleted_, label_lookup_,
           num_deleted_, marked, label, data, file, saving, calls, id, old, copied>>
      /\ pc[t] \in Looking \ {"init"} /\ "return" \in Places
  BY DEF List, Looking, Places
<1>2. /\ Moves(t, "return", id[t]) /\ pc'[t] = "return" /\ id'[t] = id[t] /\ SameCall(t)
      /\ ThreadOK(t) /\ id[t] \in Ids
  BY <1>1, OwnGoFacts
<1>3. Marked(t)'
  BY <1>2 DEF Marked, Replacing
<1>4. id[t] \in marked /\ allow_replace_deleted_
  BY <1>1, <1>2 DEF ThreadOK, Marked, Called
<1>5. CounterRight'
  BY <1>1, <1>2, CounterKept DEF Inv, CounterRight
<1>6. SetRight'
  <2>1. /\ HeldAt(Withheld)' = {id[s] : s \in At(Withheld) \ {t}}
        /\ HeldAt(Withheld) = {id[s] : s \in At(Withheld) \ {t}} \cup {id[t]}
    BY <1>1, <1>2, MovedFacts DEF Inv, Withheld
  <2>2. id[t] \notin {id[s] : s \in At(Withheld) \ {t}}
    BY <1>1, OwnerFacts DEF Inv, Owning, Looking, Withheld, Replacing
  <2>3. SetRight
    BY CountersSplit DEF Inv
  <2>4. marked \ HeldAt(Withheld)' = (marked \ HeldAt(Withheld)) \cup {id[t]}
    BY <1>4, <2>1, <2>2
  <2> QED BY <1>1, <1>4, <2>3, <2>4 DEF SetRight
<1>7. deleted_elements' \subseteq Ids
  BY <1>1, <1>2 DEF Inv, Typed
<1> QED BY <1>1, <1>2, <1>3, <1>5, <1>6, <1>7, OwnStepKeeps DEF Inv, Typed

\* Withdrawing the element from replacement: it was withdrawn already.
LEMMA UnlistKeeps ==
  ASSUME Inv, NEW t \in Threads, Unlist(t)
  PROVE  Inv'
<1>1. /\ pc[t] = "unlist" /\ deleted_elements' = deleted_elements \ {id[t]}
      /\ Goto(t, AfterUnmark(t))
      /\ UNCHANGED <<cur_element_count, max_elements_, allow_replace_deleted_, label_lookup_,
           num_deleted_, marked, label, data, file, saving, calls, id, old, copied>>
      /\ pc[t] \in Looking \ {"init"}
      /\ AfterUnmark(t) \in {"return", "update"} /\ AfterUnmark(t) \in Places
      /\ AfterUnmark(t) \in (Looking \ {"init"}) \cup {"return"}
  BY DEF Unlist, Looking, Places, AfterUnmark
<1> DEFINE p == AfterUnmark(t)
<1>2. /\ Moves(t, p, id[t]) /\ pc'[t] = p /\ id'[t] = id[t] /\ SameCall(t) /\ ThreadOK(t)
  BY <1>1, OwnGoFacts
<1> HIDE DEF p
<1>3. id[t] \notin marked /\ p \in {"return", "update"}
  BY <1>1, <1>2 DEF ThreadOK, Marked, p
<1>4. Marked(t)'
  BY <1>1, <1>2, <1>3 DEF Marked, Replacing
<1>5. CounterRight'
  BY <1>1, <1>2, <1>3, CounterKept DEF Inv, CounterRight
<1>6. SetRight'
  <2>1. HeldAt(Withheld)' = HeldAt(Withheld)
    BY <1>1, <1>2, <1>3, MovedElsewhere DEF Inv, Withheld
  <2>2. SetRight
    BY CountersSplit DEF Inv
  <2>3. deleted_elements' = deleted_elements
    BY <1>1, <1>3, <2>2 DEF SetRight
  <2> QED BY <1>1, <2>1, <2>2, <2>3 DEF SetRight
<1>7. deleted_elements' \subseteq Ids
  BY <1>1 DEF Inv, Typed
<1> QED BY <1>1, <1>2, <1>3, <1>4, <1>5, <1>6, <1>7, OwnStepKeeps DEF Inv, Typed, p
-------------------------------------------------------------------------------
(***************************************************************************)
(* The steps that add and relabel elements                                 *)
(***************************************************************************)

\* A vacant place belongs to nobody, and the table leads to it.
LEMMA VacantFacts ==
  ASSUME Inv, allow_replace_deleted_, NEW i \in deleted_elements
  PROVE  /\ i \in marked /\ i \in Ids /\ i \notin HeldAt(Withheld)
         /\ \A s \in Threads : pc[s] \in Owning => id[s] # i
         /\ Known(label[i]) /\ label_lookup_[label[i]] = i
<1>1. i \in marked /\ i \in Ids /\ i \notin HeldAt(Withheld)
  BY CountersSplit DEF Inv, SetRight, Typed
<1>2. ASSUME NEW s \in Threads, pc[s] \in Owning, id[s] = i
      PROVE  FALSE
  <2>1. pc[s] \notin Withheld
    BY <1>1, <1>2 DEF HeldAt, At
  <2>2. pc[s] \in {"mark", "uncount", "unlist", "update", "existing"}
    BY <1>2, <2>1 DEF Owning, Looking, Replacing, Withheld
  <2> QED BY <1>1, <1>2, <2>2 DEF Inv, ThreadOK, Marked
<1>3. i \notin HeldAt({"init", "relabel", "table"})
  BY <1>1 DEF HeldAt, At, Withheld
<1>4. Known(label[i]) /\ label_lookup_[label[i]] = i
  BY <1>1, <1>3 DEF Inv, LabelsAgree
<1> QED BY <1>1, <1>2, <1>4

\* A vacant place is handed out once, and stays out of the set until it is
\* no longer marked.
LEMMA VacancyKeeps ==
  ASSUME Inv, NEW t \in Threads, Vacancy(t)
  PROVE  Inv'
<1>1. /\ pc[t] = "vacancy" /\ ThreadOK(t) /\ Op(t) = "replace" /\ allow_replace_deleted_
      /\ UNCHANGED <<cur_element_count, max_elements_, allow_replace_deleted_, label_lookup_,
                     num_deleted_, marked, label, data, file, saving, calls, old, copied>>
  BY DEF Vacancy, Inv, ThreadOK, Called
<1>2. ASSUME Goto(t, "add"), UNCHANGED <<deleted_elements, id>>
      PROVE  Inv'
  <2>1. id[t] \in 0 .. Capacity /\ "add" \in Places /\ UNCHANGED index
    BY <1>1, <1>2, StayFacts DEF Inv, Places, index
  <2>2. /\ Moves(t, "add", id[t]) /\ pc'[t] = "add" /\ id'[t] = id[t]
        /\ Op(t)' = Op(t) /\ Lab(t)' = Lab(t) /\ Lab(t) \in Labels /\ Op(t) \in Operations
        /\ MutexHeld'
    BY <1>1, <1>2, <2>1, GoFacts
  <2>3. ThreadOK(t)'
    <3>1. Called(t)'
      BY <1>1, <2>2 DEF ThreadOK, Called, Replacing
    <3>2. Found(t)'
      BY <1>1, <2>2 DEF ThreadOK, Found, Replacing, Looking, Known
    <3>3. Marked(t)'
      BY <2>2 DEF Marked, Replacing
    <3> QED BY <3>1, <3>2, <3>3 DEF ThreadOK
  <2>4. /\ "add" \notin {"init", "count", "uncount"} \cup Replacing \cup Withheld \cup Owning
        /\ pc[t] \notin {"init", "count", "uncount"} \cup Replacing \cup Withheld
    BY <1>1 DEF Withheld, Replacing, Owning, Looking
  <2> QED BY <2>1, <2>2, <2>3, <2>4, StayFacts, ControlKeeps DEF Inv
<1>3. ASSUME NEW i \in deleted_elements, deleted_elements' = deleted_elements \ {i},
             Take(t, i), Goto(t, "relabel")
      PROVE  Inv'
  <2>1. /\ i \in marked /\ i \in Ids /\ i \notin HeldAt(Withheld)
        /\ \A s \in Threads : pc[s] \in Owning => id[s] # i
        /\ Known(label[i]) /\ label_lookup_[label[i]] = i
    BY <1>1, VacantFacts
  <2>2. i \in 0 .. Capacity /\ "relabel" \in Places
    BY <2>1, StayFacts DEF Inv, Places, Replacing
  <2>3. /\ Moves(t, "relabel", i) /\ pc'[t] = "relabel" /\ id'[t] = i
        /\ Op(t)' = Op(t) /\ Lab(t)' = Lab(t) /\ Lab(t) \in Labels /\ Op(t) \in Operations
        /\ MutexHeld'
    BY <1>1, <1>3, <2>2, GoFacts
  <2>4. ThreadOK(t)'
    <3>1. Called(t)'
      BY <1>1, <2>3 DEF ThreadOK, Called, Replacing
    <3>2. Found(t)'
      BY <1>1, <2>1, <2>3 DEF ThreadOK, Found, Replacing, Looking, Known
    <3>3. Marked(t)'
      BY <1>1, <2>1, <2>3 DEF Marked, Replacing
    <3> QED BY <3>1, <3>2, <3>3 DEF ThreadOK
  <2>5. \A s \in Threads \ {t} : ThreadOK(s)'
    BY <1>1, <2>3, OthersKept DEF Inv
  <2>6. OneOwner' /\ OneLabel' /\ FilesOK'
    BY <1>1, <2>1, <2>3, OwnersKept, FilesKept DEF Inv, OneLabel
  <2>7. Typed'
    <3>1. pc' \in [Threads -> Places] /\ id' \in [Threads -> 0 .. Capacity]
      BY <2>3 DEF Inv, Typed, Moves
    <3> QED BY <1>1, <1>3, <3>1 DEF Inv, Typed, Ids
  <2>8. CounterRight'
    BY <1>1, <2>3, CounterKept DEF Inv, CounterRight
  <2>9. SetRight'
    <3>1. HeldAt(Withheld)' = HeldAt(Withheld) \cup {i}
      BY <1>1, <2>3, MovedFacts DEF Inv, Withheld
    <3>2. SetRight
      BY CountersSplit DEF Inv
    <3> QED BY <1>1, <1>3, <3>1, <3>2 DEF SetRight
  <2>10. LabelsAgree'
    <3>1. HeldAt({"init", "relabel", "table"})' = HeldAt({"init", "relabel", "table"}) \cup {i}
      BY <1>1, <2>3, MovedFacts DEF Inv
    <3> QED BY <1>1, <3>1 DEF Inv, LabelsAgree, Ids, Known
  <2>11. CountersAgree'
    BY <2>8, <2>9, CountersSplit, PTL
  <2> QED BY <2>3, <2>4, <2>5, <2>6, <2>7, <2>10, <2>11 DEF Inv
<1> QED BY <1>1, <1>2, <1>3 DEF Vacancy

\* The element gets its new label first.
LEMMA RelabelKeeps ==
  ASSUME Inv, NEW t \in Threads, Relabel(t)
  PROVE  Inv'
<1>1. /\ pc[t] = "relabel" /\ ThreadOK(t) /\ allow_replace_deleted_
      /\ old' = [old EXCEPT ![t] = label[id[t]]]
      /\ label' = [label EXCEPT ![id[t]] = Lab(t)]
      /\ pc' = [pc EXCEPT ![t] = "table"]
      /\ UNCHANGED <<cur_element_count, max_elements_, allow_replace_deleted_, label_lookup_,
           num_deleted_, deleted_elements, marked, data, file, saving, calls, id, copied>>
  BY DEF Relabel, Goto, Inv, ThreadOK, Called, Replacing
<1>2. /\ id[t] \in marked /\ id[t] \in Ids /\ Lab(t) \in Labels /\ pc[t] \in Owning
      /\ Known(label[id[t]]) /\ label_lookup_[label[id[t]]] = id[t] /\ ~ Known(Lab(t))
  BY <1>1 DEF ThreadOK, Marked, Found, Called, Replacing, Owning, Inv, Typed
<1>3. Moves(t, "table", id[t]) /\ SameCall(t)
  <2>1. /\ old' \in [Threads -> Labels \cup {NoLabel}]
        /\ \A s \in Threads \ {t} : old'[s] = old[s]
    BY <1>1, <1>2 DEF Inv, Typed
  <2>2. "table" \in Places /\ \A s \in Threads : calls'[s] = calls[s]
    BY <1>1 DEF Places, Replacing
  <2> QED BY <1>1, <2>1, <2>2, StayFacts DEF Moves, SameCall, Inv
<1>4. MutexHeld'
  BY <1>2, <1>3, MutexKept DEF Inv
<1>5. label' \in [Ids -> Labels \cup {NoLabel}] /\ label'[id[t]] = Lab(t)
      /\ \A j \in Ids \ {id[t]} : label'[j] = label[j]
  BY <1>1, <1>2 DEF Inv, Typed
<1>6. \A s \in Threads \ {t} : ThreadOK(s)'
  BY <1>1, <1>2, <1>3, <1>5, OthersBeside
<1>7. ThreadOK(t)'
  <2>1. pc'[t] = "table" /\ id'[t] = id[t] /\ old'[t] = label[id[t]]
    BY <1>1, <1>3, MovedFacts DEF Inv, Typed
  <2>2. Op(t)' = Op(t) /\ Lab(t)' = Lab(t)
    BY <1>1 DEF Op, Lab
  <2>3. Called(t)'
    BY <1>1, <2>1, <2>2 DEF ThreadOK, Called, Replacing
  <2>4. Found(t)'
    BY <1>1, <1>2, <1>5, <2>1, <2>2 DEF Found, Replacing, Looking, Known
  <2>5. Marked(t)'
    BY <1>1, <1>2, <2>1, <2>2 DEF Marked, Replacing
  <2> QED BY <2>3, <2>4, <2>5 DEF ThreadOK
<1>8. OneOwner' /\ OneLabel' /\ FilesOK'
  BY <1>1, <1>2, <1>3, OwnersKept, FilesKept DEF Inv, OneLabel
<1>9. Typed'
  <2>1. pc' \in [Threads -> Places] /\ id' \in [Threads -> 0 .. Capacity]
    BY <1>3 DEF Inv, Typed, Moves
  <2> QED BY <1>1, <1>3, <1>5, <2>1 DEF Inv, Typed, Ids, Moves
<1>10. CounterRight'
  BY <1>1, <1>3, CounterKept DEF Inv, CounterRight
<1>11. /\ HeldAt(Withheld)' = HeldAt(Withheld)
       /\ HeldAt({"init", "relabel", "table"})' = HeldAt({"init", "relabel", "table"})
       /\ id[t] \in HeldAt({"init", "relabel", "table"})
  BY <1>1, <1>3, MovedWithin DEF Inv, Withheld
<1>12. SetRight'
  BY <1>1, <1>11, CountersSplit DEF Inv, SetRight
<1>13. LabelsAgree'
  BY <1>1, <1>5, <1>11 DEF Inv, LabelsAgree, Ids, Known
<1>14. CountersAgree'
  BY <1>10, <1>12, CountersSplit, PTL
<1> QED BY <1>4, <1>6, <1>7, <1>8, <1>9, <1>13, <1>14 DEF Inv

\* Then the table forgets the old label and learns the new one.
LEMMA RetableKeeps ==
  ASSUME Inv, NEW t \in Threads, Retable(t)
  PROVE  Inv'
<1> DEFINE i == id[t]
           D == (DOMAIN label_lookup_ \ {old[t]}) \cup {Lab(t)}
<1>1. /\ pc[t] = "table" /\ ThreadOK(t) /\ allow_replace_deleted_
      /\ label_lookup_' = [k \in D |-> IF k = Lab(t) THEN i ELSE label_lookup_[k]]
      /\ Goto(t, "unmark")
      /\ UNCHANGED <<cur_element_count, max_elements_, allow_replace_deleted_, num_deleted_,
           deleted_elements, marked, label, data, file, saving, calls, id, old, copied>>
  BY DEF Retable, ReplacedLookup, Inv, ThreadOK, Called, Replacing
<1>2. /\ i \in marked /\ i \in Ids /\ Lab(t) \in Labels /\ pc[t] \in Owning
      /\ Known(old[t]) /\ label_lookup_[old[t]] = i /\ label[i] = Lab(t) /\ ~ Known(Lab(t))
  BY <1>1 DEF ThreadOK, Marked, Found, Called, Replacing, Owning, Inv, Typed
<1>3. /\ Moves(t, "unmark", i) /\ pc'[t] = "unmark" /\ id'[t] = i /\ SameCall(t)
      /\ Op(t)' = Op(t) /\ Lab(t)' = Lab(t) /\ MutexHeld'
  <2>1. "unmark" \in Places /\ i \in 0 .. Capacity /\ pc[t] # "idle"
    BY <1>1, StayFacts DEF Places, Looking, Inv
  <2> QED BY <1>1, <2>1, GoFacts
<1>4. \A s \in Threads \ {t} : /\ pc'[s] = pc[s] /\ id'[s] = id[s] /\ calls'[s] = calls[s]
                               /\ old'[s] = old[s]
  BY <1>3, MovedFacts DEF Inv, Moves
<1>5. \A k \in DOMAIN label_lookup_ : label_lookup_[k] # i => k \in D /\ label_lookup_'[k] = label_lookup_[k]
  BY <1>1, <1>2 DEF Known
<1>6. DOMAIN label_lookup_' = D /\ label_lookup_'[Lab(t)] = i
      /\ \A k \in D : k # Lab(t) => /\ k \in DOMAIN label_lookup_
                                    /\ label_lookup_'[k] = label_lookup_[k]
                                    /\ label_lookup_[k] # i
  <2>1. \A k \in DOMAIN label_lookup_ : label_lookup_[k] = i => k = old[t]
    BY <1>2 DEF Inv, OneLabel, Known
  <2> QED BY <1>1, <2>1
<1> HIDE DEF D, i
<1>7. ASSUME NEW s \in Threads \ {t}
      PROVE  ThreadOK(s)'
  <2>1. ThreadOK(s) /\ (pc[s] \in Owning => id[s] # i)
    BY <1>2 DEF Inv, OneOwner, At, i
  <2>2. pc[s] # "idle" => Lab(s) \in Labels /\ Lab(s) # Lab(t)
    <3>1. pc[s] # "idle" => Lab(s) \in Labels
      BY <2>1 DEF ThreadOK, Called
    <3> QED BY <3>1, LabelsDiffer DEF Inv
  <2>3. /\ pc'[s] = pc[s] /\ id'[s] = id[s] /\ Op(s)' = Op(s) /\ Lab(s)' = Lab(s)
        /\ old'[s] = old[s] /\ Idle(s)' = Idle(s)
    BY <1>4 DEF Op, Lab, Idle
  <2>4. Called(s)'
    BY <1>1, <2>1, <2>3 DEF ThreadOK, Called
  <2>5. Found(s)'
    <3>1. pc[s] \in Looking => Known(Lab(s))' /\ id[s] = label_lookup_'[Lab(s)]
      BY <1>5, <1>6, <2>1, <2>3 DEF ThreadOK, Found, Known, Owning
    <3>2. /\ pc[s] \in Replacing \cup {"vacancy"} => ~ Known(Lab(s))'
          /\ pc[s] = "add" /\ Op(s) = "replace" => ~ Known(Lab(s))'
      BY <1>6, <2>1, <2>2, <2>3 DEF ThreadOK, Found, Known, Replacing
    <3>3. pc[s] = "relabel" => Known(label[id[s]])' /\ label_lookup_'[label[id[s]]] = id[s]
      BY <1>1, <1>5, <1>6, <2>1, <2>3 DEF ThreadOK, Found, Known, Owning, Replacing
    <3>4. pc[s] = "table" => Known(old[s])' /\ label_lookup_'[old[s]] = id[s] /\ label[id[s]] = Lab(s)
      BY <1>5, <1>6, <2>1, <2>3 DEF ThreadOK, Found, Known, Owning, Replacing
    <3> QED BY <1>1, <2>3, <3>1, <3>2, <3>3, <3>4 DEF Found, Known
  <2>6. Marked(s)'
    <3>1. pc[s] = "find" => (Deleted(Lab(s))' => Deleted(Lab(s)))
      BY <1>1, <1>6, <2>2, <2>3 DEF Deleted, Known, isMarkedDeleted
    <3> QED BY <1>1, <2>1, <2>3, <3>1 DEF ThreadOK, Marked
  <2> QED BY <2>4, <2>5, <2>6 DEF ThreadOK
<1>8. ThreadOK(t)'
  <2>1. Called(t)'
    BY <1>1, <1>3 DEF ThreadOK, Called, Replacing
  <2>2. Found(t)'
    BY <1>3, <1>6 DEF Found, Replacing, Looking, Known, D
  <2>3. Marked(t)'
    BY <1>1, <1>2, <1>3 DEF Marked, Replacing
  <2> QED BY <2>1, <2>2, <2>3 DEF ThreadOK
<1>9. OneLabel'
  BY <1>6 DEF Inv, OneLabel
<1>10. OneOwner' /\ FilesOK'
  BY <1>1, <1>2, <1>3, OwnersKept, FilesKept DEF Inv, i
<1>11. Typed'
  <2>1. pc' \in [Threads -> Places] /\ id' \in [Threads -> 0 .. Capacity]
    BY <1>3 DEF Inv, Typed, Moves
  <2>2. DOMAIN label_lookup_' \subseteq Labels /\ \A l \in DOMAIN label_lookup_' : label_lookup_'[l] \in Ids
    BY <1>2, <1>6 DEF Inv, Typed, D
  <2> QED BY <1>1, <2>1, <2>2 DEF Inv, Typed, Ids
<1>12. CounterRight'
  BY <1>1, <1>3, CounterKept DEF Inv, CounterRight
<1>13. /\ HeldAt(Withheld)' = HeldAt(Withheld)
       /\ HeldAt({"init", "relabel", "table"}) = HeldAt({"init", "relabel", "table"})' \cup {i}
  BY <1>1, <1>3, MovedWithin, ZenonT(30) DEF Inv, Withheld, i
<1>14. SetRight'
  BY <1>1, <1>13, CountersSplit DEF Inv, SetRight
<1>15. LabelsAgree'
  <2> DEFINE settled == Ids \ HeldAt({"init", "relabel", "table"})'
  <2>1. ASSUME NEW j \in settled
        PROVE  Known(label[j])' /\ label_lookup_'[label[j]] = j
    <3>1. CASE j = i
      BY <1>1, <1>2, <1>6, <3>1 DEF Known, D
    <3>2. CASE j # i
      <4>1. Known(label[j]) /\ label_lookup_[label[j]] = j
        BY <1>13, <3>2 DEF Inv, LabelsAgree
      <4> QED BY <1>1, <1>5, <1>6, <3>2, <4>1 DEF Known
    <3> QED BY <3>1, <3>2
  <2>2. ASSUME NEW l \in DOMAIN label_lookup_', label_lookup_'[l] \in settled
        PROVE  label[label_lookup_'[l]] = l
    BY <1>9, <2>1, <2>2, <1>1 DEF OneLabel, Known
  <2> QED BY <1>1, <2>1, <2>2 DEF LabelsAgree, Ids, Known
<1>16. CountersAgree'
  BY <1>12, <1>14, CountersSplit, PTL
<1> QED BY <1>3, <1>7, <1>8, <1>9, <1>10, <1>11, <1>15, <1>16 DEF Inv

\* A new element is in the table before its slot is written; whatever mark the
\* slot has by then counts for nothing.
LEMMA RegisterKeeps ==
  ASSUME Inv, NEW t \in Threads, Register(t)
  PROVE  Inv'
<1> DEFINE i == cur_element_count
<1>1. /\ pc[t] = "add" /\ ThreadOK(t) /\ ~ Known(Lab(t)) /\ ~ Full
      /\ cur_element_count' = i + 1
      /\ label_lookup_' = [l \in DOMAIN label_lookup_ \cup {Lab(t)} |->
                             IF l = Lab(t) THEN i ELSE label_lookup_[l]]
      /\ label' = [j \in 0 .. i |-> IF j = i THEN NoLabel ELSE label[j]]
      /\ data' = [j \in 0 .. i |-> IF j = i THEN NoLabel ELSE data[j]]
      /\ marked' \in {marked, marked \cup {i}}
      /\ Take(t, i) /\ Goto(t, "init")
      /\ UNCHANGED <<max_elements_, allow_replace_deleted_, num_deleted_, deleted_elements,
                     file, saving, calls, old, copied>>
  BY DEF Register, Inv
<1>2. /\ i \in Nat /\ i \in 0 .. Capacity /\ i \notin Ids /\ i + 1 \in 0 .. max_elements_
      /\ Ids' = Ids \cup {i} /\ 0 .. i = Ids \cup {i} /\ Ids' = 0 .. i
      /\ i \notin marked
  <2>1. i \in Nat /\ max_elements_ \in 0 .. Capacity /\ i < max_elements_
    BY <1>1, LabelsAssumption DEF Inv, Typed, Full
  <2>2. i \in 0 .. Capacity /\ i \notin Ids /\ i + 1 \in 0 .. max_elements_
    BY <2>1, LabelsAssumption DEF Ids
  <2>3. Ids' = 0 .. i
    BY <1>1, <2>1 DEF Ids
  <2>4. 0 .. i = Ids \cup {i}
    BY <2>1 DEF Ids
  <2> QED BY <2>1, <2>2, <2>3, <2>4 DEF Inv, Typed
<1> HIDE DEF i
<1>3. /\ Moves(t, "init", i) /\ pc'[t] = "init" /\ id'[t] = i
      /\ Op(t)' = Op(t) /\ Lab(t)' = Lab(t) /\ Lab(t) \in Labels /\ Op(t) \in Operations
      /\ MutexHeld'
  <2>1. "init" \in Places /\ pc[t] # "idle"
    BY <1>1 DEF Places, Looking
  <2> QED BY <1>1, <1>2, <2>1, GoFacts
<1>4. \A s \in Threads \ {t} : /\ pc'[s] = pc[s] /\ id'[s] = id[s] /\ calls'[s] = calls[s]
                               /\ old'[s] = old[s]
  BY <1>3, MovedFacts DEF Inv, Moves
<1>5. /\ \A j \in Ids : label'[j] = label[j]
      /\ label' \in [Ids' -> Labels \cup {NoLabel}] /\ data' \in [Ids' -> Labels \cup {NoLabel}]
      /\ marked' \ {i} = marked /\ marked' \subseteq Ids'
  <2>1. \A j \in Ids : j # i
    BY <1>2
  <2> QED BY <1>1, <1>2, <2>1 DEF Inv, Typed
<1>6. /\ DOMAIN label_lookup_' = DOMAIN label_lookup_ \cup {Lab(t)} /\ label_lookup_'[Lab(t)] = i
      /\ \A k \in DOMAIN label_lookup_ : /\ k # Lab(t) /\ label_lookup_'[k] = label_lookup_[k]
                                         /\ label_lookup_[k] \in Ids /\ label_lookup_[k] # i
  BY <1>1, <1>2 DEF Known, Inv, Typed
<1>7. ASSUME NEW s \in Threads \ {t}
      PROVE  ThreadOK(s)'
  <2>1. ThreadOK(s)
    BY DEF Inv
  <2>2. pc[s] # "idle" => Lab(s) \in Labels /\ Lab(s) # Lab(t)
    <3>1. pc[s] # "idle" => Lab(s) \in Labels
      BY <2>1 DEF ThreadOK, Called
    <3> QED BY <3>1, LabelsDiffer DEF Inv
  <2>3. /\ pc'[s] = pc[s] /\ id'[s] = id[s] /\ Op(s)' = Op(s) /\ Lab(s)' = Lab(s)
        /\ old'[s] = old[s] /\ Idle(s)' = Idle(s)
    BY <1>4 DEF Op, Lab, Idle
  <2>4. pc[s] \in Owning => id[s] \in Ids /\ id[s] # i
    <3>1. pc[s] \in Looking => id[s] \in Ids
      BY <1>6, <2>1 DEF ThreadOK, Found, Known
    <3>2. pc[s] \in Replacing => id[s] \in Ids
      BY <2>1 DEF ThreadOK, Marked, Inv, Typed
    <3> QED BY <1>2, <3>1, <3>2 DEF Owning
  <2>5. Called(s)'
    BY <1>1, <2>1, <2>3 DEF ThreadOK, Called
  <2>6. Found(s)'
    <3>1. pc[s] \in Looking => Known(Lab(s))' /\ id[s] = label_lookup_'[Lab(s)]
      BY <1>6, <2>1, <2>3 DEF ThreadOK, Found, Known
    <3>2. /\ pc[s] \in Replacing \cup {"vacancy"} => ~ Known(Lab(s))'
          /\ pc[s] = "add" /\ Op(s) = "replace" => ~ Known(Lab(s))'
      BY <1>6, <2>1, <2>2, <2>3 DEF ThreadOK, Found, Known, Replacing
    <3>3. pc[s] = "relabel" => Known(label[id[s]])' /\ label_lookup_'[label'[id[s]]] = id[s]
      BY <1>5, <1>6, <2>1, <2>3, <2>4 DEF ThreadOK, Found, Known, Owning, Replacing
    <3>4. pc[s] = "table" => Known(old[s])' /\ label_lookup_'[old[s]] = id[s] /\ label'[id[s]] = Lab(s)
      BY <1>5, <1>6, <2>1, <2>3, <2>4 DEF ThreadOK, Found, Known, Owning, Replacing
    <3> QED BY <2>3, <3>1, <3>2, <3>3, <3>4 DEF Found, Known
  <2>7. Marked(s)'
    <3>1. pc[s] = "find" => (Deleted(Lab(s))' => Deleted(Lab(s)))
      BY <1>5, <1>6, <2>2, <2>3 DEF Deleted, Known, isMarkedDeleted
    <3>2. pc[s] \in Owning => (id[s] \in marked' <=> id[s] \in marked)
      BY <1>5, <2>4
    <3>3. /\ pc[s] \in {"count", "list"} \cup Replacing => id[s] \in marked'
          /\ pc[s] = "unmark" /\ Op(s) # "unmark" => id[s] \in marked'
          /\ pc[s] \in {"uncount", "unlist", "update"} => id[s] \notin marked'
          /\ allow_replace_deleted_ /\ pc[s] \in {"mark", "existing"} => id[s] \notin marked'
      BY <2>1, <3>2 DEF ThreadOK, Marked, Owning, Looking, Replacing
    <3>4. allow_replace_deleted_ /\ pc[s] = "find" /\ Op(s) = "mark" => ~ Deleted(Lab(s))'
      BY <2>1, <3>1 DEF ThreadOK, Marked
    <3> QED BY <1>1, <2>3, <3>3, <3>4 DEF Marked
  <2> QED BY <2>5, <2>6, <2>7 DEF ThreadOK
<1>8. ThreadOK(t)'
  <2>1. Called(t)'
    BY <1>1, <1>3 DEF ThreadOK, Called, Replacing
  <2>2. Found(t)'
    BY <1>3, <1>6 DEF Found, Replacing, Looking, Known
  <2>3. Marked(t)'
    BY <1>3 DEF Marked, Replacing
  <2> QED BY <2>1, <2>2, <2>3 DEF ThreadOK
<1>9. OneLabel'
  BY <1>6 DEF Inv, OneLabel
<1>10. OneOwner' /\ FilesOK'
  <2>1. \A s \in Threads \ {t} : pc[s] \in Owning => id[s] # i
    <3> TAKE s \in Threads \ {t}
    <3>1. ThreadOK(s)
      BY DEF Inv
    <3>2. pc[s] \in Looking => id[s] \in Ids
      BY <1>6, <3>1 DEF ThreadOK, Found, Known
    <3>3. pc[s] \in Replacing => id[s] \in Ids
      BY <3>1 DEF ThreadOK, Marked, Inv, Typed
    <3> QED BY <1>2, <3>2, <3>3 DEF Owning
  <2> QED BY <1>1, <1>3, <2>1, OwnersKept, FilesKept DEF Inv
<1>11. Typed'
  <2>1. pc' \in [Threads -> Places] /\ id' \in [Threads -> 0 .. Capacity]
    BY <1>3 DEF Inv, Typed, Moves
  <2>2. DOMAIN label_lookup_' \subseteq Labels /\ \A l \in DOMAIN label_lookup_' : label_lookup_'[l] \in Ids'
    BY <1>2, <1>3, <1>6 DEF Inv, Typed
  <2>3. max_elements_' \in 0 .. Capacity /\ cur_element_count' \in 0 .. max_elements_'
    BY <1>1, <1>2 DEF Inv, Typed
  <2> QED BY <1>1, <1>2, <1>5, <2>1, <2>2, <2>3 DEF Inv, Typed
<1>12. ASSUME NEW P, "init" \in P, "add" \notin P
       PROVE  HeldAt(P)' = HeldAt(P) \cup {i}
  <2>1. /\ HeldAt(P)' = {id[s] : s \in At(P) \ {t}} \cup {i}
        /\ HeldAt(P) = {id[s] : s \in At(P) \ {t}}
    BY <1>1, <1>3, <1>12, MovedFacts DEF Inv
  <2> QED BY <2>1
<1>13. CounterRight'
  <2>1. At({"count"})' = At({"count"}) /\ At({"uncount"})' = At({"uncount"})
    BY <1>1, <1>3, MovedElsewhere DEF Inv
  <2>2. HeldAt({"init"})' = HeldAt({"init"}) \cup {i}
    BY <1>12
  <2>3. marked' \ HeldAt({"init"})' = marked \ HeldAt({"init"})
    BY <1>2, <1>5, <2>2 DEF Inv, Typed
  <2> QED BY <1>1, <2>1, <2>3, CountersSplit DEF Inv, CounterRight
<1>14. SetRight'
  <2>1. marked' \ HeldAt(Withheld)' = marked \ HeldAt(Withheld)
    <3>1. HeldAt(Withheld)' = HeldAt(Withheld) \cup {i}
      <4>1. "init" \in Withheld /\ "add" \notin Withheld
        BY DEF Withheld
      <4> QED BY <4>1, <1>12
    <3> QED BY <1>2, <1>5, <3>1 DEF Inv, Typed
  <2> QED BY <1>1, <2>1, CountersSplit DEF Inv, SetRight
<1>15. LabelsAgree'
  <2> DEFINE settled == Ids \ HeldAt({"init", "relabel", "table"})
  <2>1. Ids' \ HeldAt({"init", "relabel", "table"})' = settled
    <3>1. HeldAt({"init", "relabel", "table"})' = HeldAt({"init", "relabel", "table"}) \cup {i}
      BY <1>12
    <3> QED BY <1>2, <3>1
  <2>2. ASSUME NEW j \in settled
        PROVE  /\ label'[j] \in DOMAIN label_lookup_' /\ label_lookup_'[label'[j]] = j
               /\ label'[j] = label[j]
    BY <1>5, <1>6 DEF Inv, LabelsAgree, Known
  <2>3. ASSUME NEW l \in DOMAIN label_lookup_', label_lookup_'[l] \in settled
        PROVE  label'[label_lookup_'[l]] = l
    <3>1. l \in DOMAIN label_lookup_ /\ label_lookup_[l] \in settled
          /\ label_lookup_'[l] = label_lookup_[l]
      BY <1>2, <1>6, <2>3
    <3> QED BY <2>2, <3>1 DEF Inv, LabelsAgree
  <2> QED BY <2>1, <2>2, <2>3 DEF LabelsAgree, Known
<1>16. CountersAgree'
  BY <1>13, <1>14, CountersSplit, PTL
<1> QED BY <1>3, <1>7, <1>8, <1>9, <1>10, <1>11, <1>15, <1>16 DEF Inv

\* The slot is cleared and gets its label.
LEMMA InitialiseKeeps ==
  ASSUME Inv, NEW t \in Threads, Initialise(t)
  PROVE  Inv'
<1> DEFINE i == id[t]
<1>1. /\ pc[t] = "init" /\ ThreadOK(t) /\ pc[t] \in Looking /\ pc[t] \in Owning
      /\ marked' = marked \ {i}
      /\ label' = [label EXCEPT ![i] = Lab(t)] /\ data' = [data EXCEPT ![i] = Lab(t)]
      /\ Outcome(t, "ok") /\ Goto(t, "return")
      /\ UNCHANGED <<cur_element_count, max_elements_, allow_replace_deleted_, label_lookup_,
                     num_deleted_, deleted_elements, file, saving, id, old, copied>>
  BY DEF Initialise, Cleared, Inv, Looking, Owning
<1>2. Known(Lab(t)) /\ label_lookup_[Lab(t)] = i /\ Lab(t) \in Labels /\ i \in Ids
      /\ Op(t) \in Operations
  BY <1>1 DEF ThreadOK, Found, Called, Known, Inv, Typed
<1>3. /\ calls' \in [Threads -> Calls] /\ SameCall(t)
      /\ \A s \in Threads \ {t} : calls'[s] = calls[s]
  BY <1>1, OutcomeFacts DEF Inv
<1>4. Moves(t, "return", i)
  BY <1>1, <1>3, StayFacts DEF Moves, Places, Goto, Inv
<1>5. MutexHeld'
  BY <1>2, <1>3, <1>4, MutexKept DEF Inv
<1>6. label'[i] = Lab(t) /\ \A j \in Ids \ {i} : label'[j] = label[j]
  BY <1>1, <1>2 DEF Inv, Typed
<1>7. \A s \in Threads \ {t} : ThreadOK(s)'
  BY <1>1, <1>4, <1>6, OthersBeside
<1>8. ThreadOK(t)'
  <2>1. pc'[t] = "return"
    BY <1>4, MovedFacts DEF Inv
  <2>2. Op(t)' = Op(t) /\ Lab(t)' = Lab(t)
    BY <1>3 DEF SameCall, Op, Lab
  <2>3. Called(t)'
    BY <1>1, <1>2, <2>1, <2>2 DEF ThreadOK, Called, Replacing
  <2> QED BY <2>1, <2>3 DEF ThreadOK, Found, Marked, Looking, Replacing
<1>9. OneOwner' /\ OneLabel' /\ FilesOK'
  <2>1. "return" \notin Owning
    BY DEF Owning, Looking, Replacing
  <2> QED BY <1>1, <1>4, <2>1, OwnersKept, FilesKept DEF Inv, OneLabel
<1>10. Typed'
  <2>1. pc' \in [Threads -> Places] /\ id' \in [Threads -> 0 .. Capacity]
    BY <1>4 DEF Inv, Typed, Moves
  <2>2. /\ label' \in [Ids -> Labels \cup {NoLabel}] /\ data' \in [Ids -> Labels \cup {NoLabel}]
        /\ marked' \subseteq Ids
    BY <1>1, <1>2 DEF Inv, Typed
  <2> QED BY <1>1, <1>3, <2>1, <2>2 DEF Inv, Typed, Ids
<1>11. ASSUME NEW P, P \subseteq Owning, "init" \in P, "return" \notin P
       PROVE  HeldAt(P)' = HeldAt(P) \ {i} /\ i \in HeldAt(P)
  <2>1. /\ HeldAt(P)' = {id[s] : s \in At(P) \ {t}}
        /\ HeldAt(P) = {id[s] : s \in At(P) \ {t}} \cup {i}
    BY <1>1, <1>4, <1>11, MovedFacts DEF Inv
  <2>2. i \notin {id[s] : s \in At(P) \ {t}}
    BY <1>1, <1>11, OwnerFacts DEF Inv
  <2> QED BY <2>1, <2>2
<1> HIDE DEF i
<1>12. /\ {"init"} \subseteq Owning /\ Withheld \subseteq Owning
       /\ {"init", "relabel", "table"} \subseteq Owning
       /\ "init" \in Withheld /\ "return" \notin Withheld
  BY DEF Owning, Looking, Replacing, Withheld
<1>13. CounterRight'
  <2>1. At({"count"})' = At({"count"}) /\ At({"uncount"})' = At({"uncount"})
    BY <1>1, <1>4, MovedElsewhere DEF Inv, i
  <2>2. HeldAt({"init"})' = HeldAt({"init"}) \ {i} /\ i \in HeldAt({"init"})
    BY <1>11, <1>12
  <2>3. marked' \ HeldAt({"init"})' = marked \ HeldAt({"init"})
    BY <1>1, <2>2
  <2> QED BY <1>1, <2>1, <2>3, CountersSplit DEF Inv, CounterRight
<1>14. SetRight'
  <2>1. HeldAt(Withheld)' = HeldAt(Withheld) \ {i} /\ i \in HeldAt(Withheld)
    BY <1>11, <1>12
  <2>2. marked' \ HeldAt(Withheld)' = marked \ HeldAt(Withheld)
    BY <1>1, <2>1
  <2> QED BY <1>1, <2>2, CountersSplit DEF Inv, SetRight
<1>15. LabelsAgree'
  <2> DEFINE settled == Ids \ HeldAt({"init", "relabel", "table"})
  <2>1. Ids \ HeldAt({"init", "relabel", "table"})' = settled \cup {i} /\ i \notin settled
    <3>1. /\ HeldAt({"init", "relabel", "table"})' = HeldAt({"init", "relabel", "table"}) \ {i}
          /\ i \in HeldAt({"init", "relabel", "table"})
      BY <1>11, <1>12
    <3> QED BY <1>2, <3>1
  <2>2. ASSUME NEW j \in settled \cup {i}
        PROVE  Known(label'[j]) /\ label_lookup_[label'[j]] = j
    BY <1>2, <1>6, <2>1 DEF Inv, LabelsAgree
  <2>3. ASSUME NEW l \in DOMAIN label_lookup_, label_lookup_[l] \in settled \cup {i}
        PROVE  label'[label_lookup_[l]] = l
    BY <2>2, <2>3 DEF Inv, OneLabel, Known
  <2> HIDE DEF settled
  <2> QED BY <1>1, <2>1, <2>2, <2>3 DEF LabelsAgree, Ids, Known
<1>16. CountersAgree'
  BY <1>13, <1>14, CountersSplit, PTL
<1> QED BY <1>5, <1>7, <1>8, <1>9, <1>10, <1>15, <1>16 DEF Inv

\* A label that is new is refused when the index is full.
LEMMA AddRefusedKeeps ==
  ASSUME Inv, NEW t \in Threads, AddRefused(t)
  PROVE  Inv'
BY RefuseKeeps DEF AddRefused
-------------------------------------------------------------------------------
(***************************************************************************)
(* Saving, loading and resizing find the index at rest, and so does a      *)
(* crash leave it.                                                         *)
(***************************************************************************)

\* An index that no call is working on
Rested ==
  /\ Typed
  /\ \A t \in Threads : pc[t] = "idle" /\ Idle(t)
  /\ num_deleted_ = Cardinality(marked)
  /\ deleted_elements = IF allow_replace_deleted_ THEN marked ELSE {}
  /\ \A i \in Ids : Known(label[i]) /\ label_lookup_[label[i]] = i
  /\ \A l \in DOMAIN label_lookup_ : label[label_lookup_[l]] = l
  /\ FilesOK

\* Nobody is anywhere but idle.
LEMMA NobodyThere ==
  ASSUME \A t \in Threads : pc[t] = "idle", NEW P, "idle" \notin P
  PROVE  At(P) = {} /\ HeldAt(P) = {}
BY DEF At, HeldAt

\* At rest the invariant says that marks and counters, labels and table agree.
LEMMA RestFine == Rested => Inv
<1> SUFFICES ASSUME Rested PROVE Inv
  OBVIOUS
<1>1. \A t \in Threads : pc[t] = "idle" /\ Idle(t) /\ Op(t) = "none"
  BY CallFacts DEF Rested
<1>2. \A t \in Threads : ThreadOK(t)
  BY <1>1 DEF ThreadOK, Called, Found, Marked, Looking, Replacing
<1>3. MutexHeld /\ OneLabel
  BY <1>1 DEF MutexHeld, OneLabel, Callers, Rested
<1>4. OneOwner
  <2>1. "idle" \notin Owning
    BY DEF Owning, Looking, Replacing
  <2> QED BY <1>1, <2>1, NobodyThere DEF OneOwner
<1>5. /\ At({"count"}) = {} /\ At({"uncount"}) = {} /\ HeldAt({"init"}) = {}
      /\ HeldAt({"init", "relabel", "table"}) = {}
  BY <1>1, NobodyThere
<1>6. HeldAt(Withheld) = {}
  <2>1. "idle" \notin Withheld
    BY DEF Withheld
  <2> QED BY <1>1, <2>1, NobodyThere
<1>7. CounterRight
  <2>1. Cardinality(At({"count"})) = 0 /\ Cardinality(At({"uncount"})) = 0
    BY <1>5, FS_EmptySet
  <2>2. marked \ HeldAt({"init"}) = marked
    BY <1>5
  <2>3. Cardinality(marked) = num_deleted_ /\ num_deleted_ \in Int
    BY DEF Rested, Typed
  <2> QED BY <2>1, <2>2, <2>3 DEF CounterRight
<1>8. SetRight
  BY <1>6 DEF SetRight, Rested
<1>9. LabelsAgree
  BY <1>5 DEF LabelsAgree, Rested
<1> QED BY <1>2, <1>3, <1>4, <1>7, <1>8, <1>9, CountersSplit DEF Inv, Rested

\* Without a call the index is at rest.
LEMMA QuietRests == Inv /\ Quiet => Rested
<1> SUFFICES ASSUME Inv, Quiet PROVE Rested
  OBVIOUS
<1>1. \A t \in Threads : Idle(t)
  BY DEF Quiet, Callers
<1>2. \A t \in Threads : pc[t] = "idle"
  BY <1>1, CallFacts DEF Inv, ThreadOK, Called
<1>3. /\ At({"count"}) = {} /\ At({"uncount"}) = {} /\ HeldAt({"init"}) = {}
      /\ HeldAt({"init", "relabel", "table"}) = {}
  BY <1>2, NobodyThere
<1>4. HeldAt(Withheld) = {}
  <2>1. "idle" \notin Withheld
    BY DEF Withheld
  <2> QED BY <1>2, <2>1, NobodyThere
<1>5. num_deleted_ = Cardinality(marked)
  <2>1. Cardinality(At({"count"})) = 0 /\ Cardinality(At({"uncount"})) = 0
    BY <1>3, FS_EmptySet
  <2>2. marked \ HeldAt({"init"}) = marked
    BY <1>3
  <2>3. CounterRight /\ num_deleted_ \in Int /\ Cardinality(marked) \in Nat
    BY <2>2, CountersSplit, MarksFinite DEF Inv, Typed
  <2>4. num_deleted_ + 0 = Cardinality(marked) + 0
    BY <2>1, <2>2, <2>3 DEF CounterRight
  <2> QED BY <2>3, <2>4
<1>6. deleted_elements = IF allow_replace_deleted_ THEN marked ELSE {}
  BY <1>4, CountersSplit DEF Inv, SetRight
<1>7. /\ \A i \in Ids : Known(label[i]) /\ label_lookup_[label[i]] = i
      /\ \A l \in DOMAIN label_lookup_ : label[label_lookup_[l]] = l
  BY <1>3 DEF Inv, LabelsAgree, Typed
<1> QED BY <1>1, <1>2, <1>5, <1>6, <1>7 DEF Inv, Rested

\* What happens on the disk alone leaves the invariant, if the file stays well-formed.
LEMMA DiskKeeps ==
  ASSUME Inv, UNCHANGED <<index, threads>>, saving' \in BOOLEAN, FilesOK'
  PROVE  Inv'
<1> USE DEF index, threads
<1>1. Typed'
  BY DEF Inv, Typed, Ids
<1>2. \A t \in Threads : ThreadOK(t)'
  BY DEF Inv, ThreadOK, Called, Found, Marked, Idle, Op, Lab, Known, Deleted, isMarkedDeleted
<1>3. MutexHeld' /\ OneLabel' /\ OneOwner'
  BY DEF Inv, MutexHeld, OneLabel, OneOwner, Callers, Idle, Lab, getLabelOpMutex, At
<1>4. CountersAgree' /\ LabelsAgree'
  BY DEF Inv, CountersAgree, LabelsAgree, At, HeldAt, Ids, Known
<1> QED BY <1>1, <1>2, <1>3, <1>4 DEF Inv

\* A save begins with the index at rest: its file will hold one label per element.
LEMMA StartSaveKeeps ==
  ASSUME Inv, StartSave
  PROVE  Inv'
<1> DEFINE n == cur_element_count
<1>1. Rested
  BY QuietRests DEF StartSave
<1>2. /\ UNCHANGED <<index, threads>> /\ saving' = TRUE
      /\ file' = [parts |-> 0, count |-> n, max |-> max_elements_,
                  label |-> label, data |-> data, marked |-> marked]
  BY DEF StartSave
<1>3. n \in 0 .. Capacity /\ max_elements_ \in n .. Capacity /\ Ids = 0 .. n - 1
  BY LabelsAssumption DEF Inv, Typed, Ids
<1>4. label \in [0 .. n - 1 -> Labels]
  BY <1>1, <1>3 DEF Rested, Typed, Known
<1>5. \A i, j \in 0 .. n - 1 : label[i] = label[j] => i = j
  BY <1>1, <1>3 DEF Rested
<1>6. data \in [0 .. n - 1 -> Labels \cup {NoLabel}] /\ marked \in SUBSET (0 .. n - 1)
  BY <1>3 DEF Inv, Typed
<1> HIDE DEF n
<1>7. FileOK(file')
  BY <1>2, <1>3, <1>4, <1>5, <1>6 DEF FileOK
<1> QED BY <1>2, <1>7, DiskKeeps DEF FilesOK, FileOK

\* A part is written.
LEMMA WriteKeeps ==
  ASSUME Inv, Write
  PROVE  Inv'
<1>1. saving /\ FileOK(file) /\ file' = [file EXCEPT !.parts = @ + 1]
      /\ UNCHANGED <<index, saving, threads>>
  BY DEF Write, Inv, FilesOK
<1>2. FileOK(file')
  <2> PICK n \in 0 .. Capacity :
        /\ file \in [parts : Nat, count : {n}, max : n .. Capacity,
                    label : [0 .. n - 1 -> Labels],
                    data : [0 .. n - 1 -> Labels \cup {NoLabel}],
                    marked : SUBSET (0 .. n - 1)]
        /\ \A i, j \in 0 .. n - 1 : file.label[i] = file.label[j] => i = j
    BY <1>1 DEF FileOK
  <2> DEFINE L == [0 .. n - 1 -> Labels]
             D == [0 .. n - 1 -> Labels \cup {NoLabel}]
             M == SUBSET (0 .. n - 1)
  <2>1. file \in [parts : Nat, count : {n}, max : n .. Capacity, label : L, data : D, marked : M]
    OBVIOUS
  <2> HIDE DEF L, D, M
  <2>2. /\ file' \in [parts : Nat, count : {n}, max : n .. Capacity, label : L, data : D, marked : M]
        /\ file'.label = file.label
    BY <1>1, <2>1
  <2> QED BY <2>2 DEF FileOK, L, D, M
<1>3. FilesOK'
  BY <1>2 DEF FilesOK, FileOK
<1> QED BY <1>1, <1>3, DiskKeeps DEF Inv, Typed

\* A save ends.
LEMMA EndSaveKeeps ==
  ASSUME Inv, EndSave
  PROVE  Inv'
<1>1. saving /\ FileOK(file) /\ saving' = FALSE /\ UNCHANGED <<index, file, threads>>
  BY DEF EndSave, Inv, FilesOK
<1>2. FilesOK'
  BY <1>1 DEF FilesOK, FileOK
<1> QED BY <1>1, <1>2, DiskKeeps

\* An index without elements that no call is working on
Empty ==
  /\ cur_element_count = 0 /\ max_elements_ \in 0 .. Capacity /\ allow_replace_deleted_ \in BOOLEAN
  /\ label_lookup_ = <<>> /\ num_deleted_ = 0 /\ deleted_elements = {}
  /\ marked = {} /\ label = <<>> /\ data = <<>> /\ saving \in BOOLEAN
  /\ calls = [t \in Threads |-> NoCall] /\ pc = [t \in Threads |-> "idle"]
  /\ id = [t \in Threads |-> 0] /\ old = [t \in Threads |-> NoLabel]
  /\ copied = [t \in Threads |-> 0]
  /\ FilesOK

\* It is at rest.
LEMMA EmptyRests == Empty => Rested
<1> SUFFICES ASSUME Empty PROVE Rested
  OBVIOUS
<1>1. Ids = {}
  BY DEF Empty, Ids
<1>2. /\ DOMAIN label_lookup_ = {}
      /\ label \in [Ids -> Labels \cup {NoLabel}] /\ data \in [Ids -> Labels \cup {NoLabel}]
  BY <1>1 DEF Empty
<1>3. NoCall \in Calls /\ "idle" \in Places
  BY DEF NoCall, Calls, Places
<1>4. 0 \in 0 .. max_elements_ /\ 0 \in 0 .. Capacity
  BY LabelsAssumption DEF Empty
<1>5. Typed
  BY <1>1, <1>2, <1>3, <1>4 DEF Typed, Empty
<1>6. Cardinality(marked) = 0
  BY FS_EmptySet DEF Empty
<1> QED BY <1>1, <1>2, <1>5, <1>6 DEF Rested, Idle, Empty

\* A new process starts with an empty index.
LEMMA InitInv == Init => Inv
<1>1. Init => Empty
  BY DEF Init, Empty, FilesOK
<1> QED BY <1>1, EmptyRests, RestFine

\* A crash leaves an empty index and the file as it was.
LEMMA CrashKeeps ==
  ASSUME Inv, Crash
  PROVE  Inv'
<1>1. FilesOK'
  BY DEF Inv, Crash, FilesOK, FileOK
<1>2. Empty'
  BY <1>1 DEF Empty, Crash
<1> QED BY <1>2, EmptyRests, RestFine, PTL

\* The table of labels that differ is their inverse.
LEMMA LastOfInverse ==
  ASSUME NEW n \in Nat, NEW f \in [0 .. n - 1 -> Labels],
         \A i, j \in 0 .. n - 1 : f[i] = f[j] => i = j
  PROVE  /\ \A i \in 0 .. n - 1 : f[i] \in DOMAIN LastOf(f) /\ LastOf(f)[f[i]] = i
         /\ \A l \in DOMAIN LastOf(f) : /\ l \in Labels
                                        /\ LastOf(f)[l] \in 0 .. n - 1 /\ f[LastOf(f)[l]] = l
<1>1. DOMAIN LastOf(f) = {f[i] : i \in 0 .. n - 1}
  BY DEF LastOf
<1>2. ASSUME NEW i \in 0 .. n - 1
      PROVE  LastOf(f)[f[i]] = i
  <2>1. LastOf(f)[f[i]] = CHOOSE k \in 0 .. n - 1 :
                            f[k] = f[i] /\ \A j \in 0 .. n - 1 : f[j] = f[i] => j <= k
    BY DEF LastOf
  <2>2. \A k \in 0 .. n - 1 :
          (f[k] = f[i] /\ \A j \in 0 .. n - 1 : f[j] = f[i] => j <= k) <=> k = i
    OBVIOUS
  <2> QED BY <2>1, <2>2
<1> HIDE DEF LastOf
<1> QED BY <1>1, <1>2

\* What is loaded is what was saved: the table is built from labels that
\* differ, and the counter and the set from the marks.
LEMMA LoadKeeps ==
  ASSUME Inv, Load
  PROVE  Inv'
<1> PICK m \in 0 .. Capacity, allow \in BOOLEAN : Loaded(file, m, allow)
  BY DEF Load
<1> PICK n \in 0 .. Capacity :
      /\ file \in [parts : Nat, count : {n}, max : n .. Capacity, label : [0 .. n - 1 -> Labels],
                   data : [0 .. n - 1 -> Labels \cup {NoLabel}], marked : SUBSET (0 .. n - 1)]
      /\ \A i, j \in 0 .. n - 1 : file.label[i] = file.label[j] => i = j
  BY DEF Load, Inv, FilesOK, FileOK
<1>1. Rested /\ SizeIsRight(file) /\ UNCHANGED <<file, saving, calls, pc, id, old, copied>>
  BY QuietRests DEF Load, threads
<1>2. n \in Nat /\ file.count = n /\ file.parts = n + 1 /\ file.max \in n .. Capacity
  BY <1>1, LabelsAssumption DEF SizeIsRight
<1>3. label' = file.label /\ data' = file.data
  <2>1. \A i \in 0 .. n - 1 : i < file.parts
    BY <1>2
  <2>2. /\ label' = [i \in 0 .. n - 1 |-> file.label[i]]
        /\ data' = [i \in 0 .. n - 1 |-> file.data[i]]
    BY <1>2, <2>1 DEF Loaded, Read
  <2> QED BY <2>2
<1>4. /\ cur_element_count' = n /\ Ids' = 0 .. n - 1
      /\ max_elements_' \in n .. Capacity /\ max_elements_' \in 0 .. Capacity
      /\ cur_element_count' \in 0 .. max_elements_'
  <2>1. max_elements_' = IF m < n THEN file.max ELSE m
    BY <1>2 DEF Loaded
  <2>2. cur_element_count' = n /\ Ids' = 0 .. n - 1
    BY <1>2 DEF Loaded, Ids
  <2> QED BY <1>2, <2>1, <2>2, LabelsAssumption
<1>5. /\ label_lookup_' = LastOf(label') /\ allow_replace_deleted_' = allow
      /\ marked' = file.marked /\ num_deleted_' = Cardinality(marked')
      /\ deleted_elements' = IF allow THEN marked' ELSE {}
  BY DEF Loaded
<1>6. /\ \A i \in Ids' : /\ label'[i] \in DOMAIN label_lookup_'
                         /\ label_lookup_'[label'[i]] = i
      /\ \A l \in DOMAIN label_lookup_' : /\ l \in Labels /\ label_lookup_'[l] \in Ids'
                                          /\ label'[label_lookup_'[l]] = l
  <2> DEFINE f == file.label
  <2>1. f \in [0 .. n - 1 -> Labels] /\ \A i, j \in 0 .. n - 1 : f[i] = f[j] => i = j
    OBVIOUS
  <2>2. label_lookup_' = LastOf(f) /\ label' = f
    BY <1>3, <1>5
  <2> HIDE DEF f
  <2>3. /\ \A i \in 0 .. n - 1 : f[i] \in DOMAIN LastOf(f) /\ LastOf(f)[f[i]] = i
        /\ \A l \in DOMAIN LastOf(f) : /\ l \in Labels
                                       /\ LastOf(f)[l] \in 0 .. n - 1 /\ f[LastOf(f)[l]] = l
    BY <1>2, <2>1, LastOfInverse, SMTT(30)
  <2> QED BY <1>4, <2>2, <2>3
<1>7. /\ label' \in [Ids' -> Labels \cup {NoLabel}] /\ data' \in [Ids' -> Labels \cup {NoLabel}]
      /\ marked' \subseteq Ids'
  BY <1>3, <1>4, <1>5
<1>8. num_deleted_' \in Int
  <2>1. IsFiniteSet(Ids')
    BY <1>2, <1>4, FS_Interval
  <2>2. IsFiniteSet(marked')
    BY <1>7, <2>1, FS_Subset
  <2> QED BY <1>5, <2>2, FS_CardinalityType
<1>9. deleted_elements' \subseteq Ids'
  BY <1>5, <1>7
<1>10. Typed'
  BY <1>1, <1>4, <1>5, <1>6, <1>7, <1>8, <1>9 DEF Inv, Typed
<1>11. FilesOK'
  BY <1>1, FilesKept DEF Inv
<1>12. \A t \in Threads : pc'[t] = "idle" /\ Idle(t)'
  BY <1>1 DEF Rested, Idle
<1>13. Rested'
  BY <1>5, <1>6, <1>10, <1>11, <1>12 DEF Rested, Known
<1> QED BY <1>13, RestFine, PTL

\* Resizing changes the room alone.
LEMMA ResizeKeeps ==
  ASSUME Inv, resizeIndex
  PROVE  Inv'
<1>1. /\ Rested /\ max_elements_' \in cur_element_count .. Capacity
      /\ UNCHANGED <<cur_element_count, allow_replace_deleted_, label_lookup_, num_deleted_,
                     deleted_elements, marked, label, data, file, saving, threads>>
  BY QuietRests DEF resizeIndex
<1>2. max_elements_' \in 0 .. Capacity /\ cur_element_count' \in 0 .. max_elements_'
  <2>1. cur_element_count \in Nat /\ cur_element_count' = cur_element_count
    BY <1>1 DEF Inv, Typed
  <2> QED BY <1>1, <2>1, LabelsAssumption
<1>3. Typed'
  BY <1>1, <1>2 DEF Inv, Typed, Ids, threads
<1>4. FilesOK'
  BY <1>1, FilesKept DEF Inv
<1>5. Rested'
  BY <1>1, <1>3, <1>4 DEF Rested, Ids, Known, Idle, threads
<1> QED BY <1>5, RestFine, PTL

\* Every step keeps the invariant, as long as no caller replaces under a known label.
LEMMA NextInv ==
  ASSUME ~ ReplaceKnown, Inv, [Next]_vars
  PROVE  Inv'
<1>1. ASSUME NEW t \in Threads, Begin(t) \/ Return(t) \/ Find(t) \/ Copy(t)
      PROVE  Inv'
  BY <1>1, BeginKeeps, ReturnKeeps, FindKeeps, CopyUpdateKeeps
<1>2. ASSUME NEW t \in Threads, SetMark(t) \/ Count(t) \/ List(t)
      PROVE  Inv'
  BY <1>2, SetMarkKeeps, CountKeeps, ListKeeps
<1>3. ASSUME NEW t \in Threads, ClearMark(t) \/ Uncount(t) \/ Unlist(t) \/ Update(t)
      PROVE  Inv'
  BY <1>3, ClearMarkKeeps, CountKeeps, UnlistKeeps, CopyUpdateKeeps
<1>4. ASSUME NEW t \in Threads,
             AddKnown(t) \/ Existing(t) \/ AddRefused(t) \/ Register(t) \/ Initialise(t)
      PROVE  Inv'
  BY <1>4, AddKnownKeeps, ExistingKeeps, AddRefusedKeeps, RegisterKeeps, InitialiseKeeps
<1>5. ASSUME NEW t \in Threads, Vacancy(t) \/ Relabel(t) \/ Retable(t)
      PROVE  Inv'
  BY <1>5, VacancyKeeps, RelabelKeeps, RetableKeeps
<1>6. ASSUME StartSave \/ Write \/ EndSave \/ Crash \/ Load \/ resizeIndex
      PROVE  Inv'
  BY <1>6, StartSaveKeeps, WriteKeeps, EndSaveKeeps, CrashKeeps, LoadKeeps, ResizeKeeps
<1>7. CASE UNCHANGED vars
  <2>1. FilesOK' /\ saving' \in BOOLEAN
    BY <1>7, FilesKept DEF vars, Inv, Typed
  <2> QED BY <1>7, <2>1, DiskKeeps DEF vars
<1> QED BY <1>1, <1>2, <1>3, <1>4, <1>5, <1>6, <1>7 DEF Next

\* No two calls that own an element own the same, so there are as many
\* elements owned as calls.
LEMMA OwnersCount ==
  ASSUME Inv, NEW P, P \subseteq Owning
  PROVE  /\ IsFiniteSet(At(P)) /\ IsFiniteSet(HeldAt(P))
         /\ Cardinality(HeldAt(P)) = Cardinality(At(P)) /\ Cardinality(At(P)) \in Nat
<1> DEFINE f == [t \in At(P) |-> id[t]]
<1>1. At(P) \subseteq Threads /\ IsFiniteSet(At(P))
  <2>1. At(P) \subseteq Threads
    BY DEF At
  <2> QED BY <2>1, FS_Subset, LabelsAssumption
<1>2. f \in Injection(At(P), HeldAt(P))
  BY DEF Inv, OneOwner, At, HeldAt, Injection, IsInjective
<1>3. f \in Surjection(At(P), HeldAt(P))
  BY DEF HeldAt, Surjection
<1> HIDE DEF f
<1>4. IsFiniteSet(HeldAt(P)) /\ Cardinality(HeldAt(P)) = Cardinality(At(P))
  BY <1>1, <1>2, <1>3, FS_Surjection
<1> QED BY <1>1, <1>4, FS_CardinalityType

\* The counter counts elements: it is never negative, and never more than there are.
LEMMA CounterBound ==
  ASSUME Inv
  PROVE  num_deleted_ \in 0 .. Capacity
<1> DEFINE m == marked \ HeldAt({"init"})
           up == HeldAt({"count"})
           down == HeldAt({"uncount"})
<1>1. IsFiniteSet(Ids) /\ Cardinality(Ids) = cur_element_count
  BY FS_Interval DEF Inv, Typed, Ids
<1>2. ASSUME NEW t \in Threads, pc[t] \in Looking
      PROVE  id[t] \in Ids
  BY <1>2 DEF Inv, Typed, ThreadOK, Found, Known
<1>3. up \subseteq m
  <2> SUFFICES ASSUME NEW t \in At({"count"}) PROVE id[t] \in m
    BY DEF HeldAt
  <2>1. t \in Threads /\ pc[t] = "count" /\ id[t] \in marked
    BY DEF At, Inv, ThreadOK, Marked
  <2>2. id[t] \notin HeldAt({"init"})
    BY <2>1, OwnerFacts DEF Inv, Owning, Looking
  <2> QED BY <2>1, <2>2
<1>4. m \cap down = {} /\ m \subseteq Ids /\ down \subseteq Ids
  <2>1. ASSUME NEW t \in At({"uncount"})
        PROVE  id[t] \in Ids /\ id[t] \notin marked
    BY <1>2 DEF At, Inv, ThreadOK, Marked, Looking
  <2> QED BY <2>1 DEF HeldAt, Inv, Typed
<1>5. /\ IsFiniteSet(up) /\ Cardinality(up) = Cardinality(At({"count"})) /\ Cardinality(up) \in Nat
      /\ IsFiniteSet(down) /\ Cardinality(down) = Cardinality(At({"uncount"})) /\ Cardinality(down) \in Nat
  <2>1. {"count"} \subseteq Owning /\ {"uncount"} \subseteq Owning
    BY DEF Owning, Looking
  <2> QED BY <2>1, OwnersCount
<1>6. IsFiniteSet(m) /\ Cardinality(m) \in Nat
  BY MarksFinite DEF Inv
<1>7. num_deleted_ \in Int /\ num_deleted_ + Cardinality(up) = Cardinality(m) + Cardinality(down)
  BY <1>5, CountersSplit DEF Inv, Typed, CounterRight
<1> HIDE DEF m, up, down
<1>8. Cardinality(up) <= Cardinality(m)
  BY <1>3, <1>6, FS_Subset
<1>9. Cardinality(m) + Cardinality(down) <= Cardinality(Ids)
  <2>1. Cardinality(m \cup down) = Cardinality(m) + Cardinality(down) - Cardinality(m \cap down)
    BY <1>5, <1>6, FS_Union
  <2>2. Cardinality(m \cap down) = 0
    BY <1>4, FS_EmptySet
  <2>3. Cardinality(m \cup down) <= Cardinality(Ids)
    BY <1>1, <1>4, FS_Subset
  <2> QED BY <1>5, <1>6, <2>1, <2>2, <2>3
<1>10. cur_element_count \in Nat /\ cur_element_count <= Capacity /\ Capacity \in Nat
  BY LabelsAssumption DEF Inv, Typed
<1> QED BY <1>1, <1>5, <1>6, <1>7, <1>8, <1>9, <1>10

\* Whatever callers do on any number of threads, as long as none passes a label
\* that is in the index with replace_deleted, the invariant holds.
THEOREM LabelsInvariant ==
  ASSUME ~ ReplaceKnown
  PROVE  Spec => []Inv
<1>1. Inv /\ [Next]_vars => Inv'
  BY NextInv
<1> QED BY <1>1, InitInv, PTL DEF Spec

\* Then num_deleted_ stays between 0 and the number of elements there is room
\* for, and every field of the index and every call has its type.
THEOREM LabelsTypes ==
  ASSUME ~ ReplaceKnown
  PROVE  Spec => []TypeOK
<1>1. Inv => TypeOK
  BY CounterBound DEF Inv, Typed, TypeOK, Places, Looking, Replacing
<1> QED BY <1>1, LabelsInvariant, PTL

\* The counter of deleted elements, their marks and the set that replacement
\* draws from agree, up to the steps that calls are in the middle of.
THEOREM LabelsCounters ==
  ASSUME ~ ReplaceKnown
  PROVE  Spec => []CountersAgree
BY LabelsInvariant, PTL DEF Inv

\* Every element but one that is being added or relabelled is found under its
\* label, and a label leads to the element that has it.
THEOREM LabelsLookup ==
  ASSUME ~ ReplaceKnown
  PROVE  Spec => []LabelsAgree
BY LabelsInvariant, PTL DEF Inv

\* Nor do two calls ever work on one element, or two labels lead to one.
THEOREM LabelsOwners ==
  ASSUME ~ ReplaceKnown
  PROVE  Spec => [](OneOwner /\ OneLabel)
BY LabelsInvariant, PTL DEF Inv
-------------------------------------------------------------------------------
(***************************************************************************)
(* The labels implement LabelSpec.                                         *)
(***************************************************************************)

\* What a call is for where it is, and what it has answered
Answered(t) ==
  /\ pc[t] \in {"mark", "count", "list"} => Op(t) = "mark"
  /\ pc[t] = "copy" => Op(t) = "get"
  /\ pc[t] \in {"unmark", "uncount", "unlist"} => Op(t) \in {"unmark", "add", "replace"}
  /\ pc[t] \in {"add", "update", "init"} => Op(t) \in {"add", "replace"}
  /\ pc[t] = "existing" => Op(t) = "add"
  /\ pc[t] \in {"find", "copy", "mark", "unmark", "add", "existing", "init"} \cup {"vacancy", "relabel", "table"} => calls[t].out = "none"
  /\ pc[t] \in {"count", "list", "uncount", "unlist"} => calls[t].out = "ok"
  /\ pc[t] = "update" => calls[t].out \in {"none", "ok"}
  /\ pc[t] = "return" => calls[t].out # "none"

\* What getDataByLabel has found cannot be marked or replaced while it copies.
Copying(t) ==
  pc[t] = "copy" => /\ Known(Lab(t)) /\ id[t] = label_lookup_[Lab(t)]
                    /\ id[t] \notin marked

\* A call that is to write the point of an element it has labelled
Rewriting(t) == pc[t] = "init" \/ (pc[t] \in {"table", "unmark", "uncount", "unlist", "update"} /\ Op(t) = "replace")
PointsOK == \A i \in Ids : data[i] = label[i] \/ \E t \in Threads : Rewriting(t) /\ id[t] = i

\* While a save runs nobody calls, and the file is to be the index; a file holds the points under their labels.
SaveOK ==
  /\ saving => /\ Callers = {} /\ file.count = cur_element_count
               /\ file.label = label /\ file.marked = marked
  /\ file # NoFile \/ saving => file.data = file.label

PromiseInv == Inv /\ (\A t \in Threads : Answered(t) /\ Copying(t)) /\ PointsOK /\ SaveOK

\* Thread t takes a step of its own.
Acts(t) ==
  \/ Begin(t) \/ Return(t) \/ Find(t) \/ Copy(t)
  \/ SetMark(t) \/ Count(t) \/ List(t)
  \/ ClearMark(t) \/ Uncount(t) \/ Unlist(t) \/ Update(t)
  \/ AddKnown(t) \/ Existing(t) \/ AddRefused(t) \/ Register(t) \/ Initialise(t)
  \/ Vacancy(t) \/ Relabel(t) \/ Retable(t)

\* The calls of the others stay where they are.
Beside(t) ==
  /\ \A s \in Threads \ {t} : pc'[s] = pc[s] /\ id'[s] = id[s] /\ calls'[s] = calls[s]
  /\ UNCHANGED <<file, saving>>

\* What a thread does leaves the others and the file as they are.
LEMMA ActsBeside ==
  ASSUME Typed, NEW t \in Threads, Acts(t)
  PROVE  Beside(t)
<1>1. pc \in [Threads -> Places] /\ id \in [Threads -> 0 .. Capacity] /\ calls \in [Threads -> Calls]
  BY DEF Typed
<1>2. CASE Begin(t) \/ Return(t) \/ Find(t) \/ Copy(t)
  BY <1>1, <1>2 DEF Begin, Return, Find, Copy, Beside, Goto, Take, Outcome, Refuse
<1>3. CASE SetMark(t) \/ Count(t) \/ List(t)
  BY <1>1, <1>3 DEF SetMark, Count, List, Beside, Goto, Take, Outcome, Refuse
<1>4. CASE ClearMark(t) \/ Uncount(t) \/ Unlist(t) \/ Update(t)
  BY <1>1, <1>4 DEF ClearMark, Uncount, Unlist, Update, Beside, Goto, Take, Outcome, Refuse
<1>5. CASE AddKnown(t) \/ Existing(t) \/ AddRefused(t)
  BY <1>1, <1>5 DEF AddKnown, Existing, AddRefused, Beside, Goto, Take, Outcome, Refuse
<1>6. CASE Register(t) \/ Initialise(t)
  BY <1>1, <1>6 DEF Register, Initialise, Beside, Goto, Take, Outcome, Refuse
<1>7. CASE Vacancy(t) \/ Relabel(t) \/ Retable(t)
  BY <1>1, <1>7 DEF Vacancy, Relabel, Retable, Beside, Goto, Take, Outcome, Refuse
<1> QED BY <1>2, <1>3, <1>4, <1>5, <1>6, <1>7 DEF Acts

\* A call is where it is for its reason, and answers once.
LEMMA AnsweredKept ==
  ASSUME Inv, NEW t \in Threads, Answered(t), Acts(t)
  PROVE  Answered(t)'
<1>1. /\ pc \in [Threads -> Places] /\ calls \in [Threads -> Calls] /\ calls[t] \in Calls
      /\ Found(t) /\ Marked(t) /\ Called(t)
  BY DEF Inv, Typed, ThreadOK
<1>2. \A p : Goto(t, p) => pc'[t] = p
  BY <1>1 DEF Goto
<1>3. \A o : Outcome(t, o) => calls'[t].op = Op(t) /\ calls'[t].out = o
  BY <1>1 DEF Outcome, Op, Calls
<1>4. UNCHANGED calls => calls'[t].op = Op(t) /\ calls'[t].out = calls[t].out
  BY DEF Op
<1>5. CASE Begin(t)
  <2> PICK op \in Operations, l \in Labels :
        /\ calls' = [calls EXCEPT ![t] = [op |-> op, label |-> l, out |-> "none"]]
        /\ Goto(t, CASE op = "add" -> "add" [] op = "replace" -> "vacancy" [] OTHER -> "find")
    BY <1>5 DEF Begin
  <2>1. calls'[t].op = op /\ calls'[t].out = "none"
    BY <1>1
  <2>2. pc'[t] \in {"add", "vacancy", "find"} /\ (pc'[t] = "add" => op = "add")
    BY <1>2
  <2> QED BY <2>1, <2>2 DEF Answered, Op
<1>6. CASE Return(t)
  BY <1>2, <1>6 DEF Return, Answered
<1>7. CASE Find(t) \/ Copy(t)
  BY <1>1, <1>2, <1>3, <1>4, <1>7 DEF Find, Copy, Refuse, Answered, Op, Called
<1>8. CASE SetMark(t) \/ Count(t) \/ List(t)
  BY <1>2, <1>3, <1>4, <1>8 DEF SetMark, Count, List, Refuse, Answered, Op
<1>9. CASE ClearMark(t) \/ Uncount(t) \/ Unlist(t) \/ Update(t)
  BY <1>2, <1>3, <1>4, <1>9 DEF ClearMark, Uncount, Unlist, Update, Refuse, Answered, Op, AfterUnmark
<1>10. CASE AddKnown(t) \/ Existing(t) \/ AddRefused(t)
  BY <1>1, <1>2, <1>3, <1>4, <1>10 DEF AddKnown, Existing, AddRefused, Refuse, Answered, Op, Found
<1>11. CASE Register(t) \/ Initialise(t)
  BY <1>2, <1>3, <1>4, <1>11 DEF Register, Initialise, Refuse, Answered, Op
<1>12. CASE Vacancy(t) \/ Relabel(t) \/ Retable(t)
  BY <1>1, <1>2, <1>3, <1>4, <1>12 DEF Vacancy, Relabel, Retable, Refuse, Answered, Op, Called, Replacing
<1> QED BY <1>5, <1>6, <1>7, <1>8, <1>9, <1>10, <1>11, <1>12 DEF Acts

\* What getDataByLabel has found stays where it is, unmarked.
LEMMA CopyingKept ==
  ASSUME Inv, NEW s \in Threads, NEW t \in Threads, Answered(s), Answered(t), Copying(s), Acts(t)
  PROVE  Copying(s)'
<1>1. /\ pc \in [Threads -> Places] /\ id \in [Threads -> 0 .. Capacity]
      /\ ThreadOK(s) /\ ThreadOK(t) /\ Beside(t)
  BY ActsBeside DEF Inv, Typed
<1>2. CASE s = t
  <2>1. pc'[t] = "copy" => Find(t)
    BY <1>1, <1>2 DEF Acts, Begin, Return, Copy, SetMark, Count, List, ClearMark, Uncount, Unlist, Update,
       AfterUnmark, AddKnown, Existing, AddRefused, Register, Initialise, Vacancy, Relabel, Retable,
       Goto, Refuse
  <2>2. CASE Find(t)
    <3>1. pc'[t] = "copy" => /\ Findable(Op(t), Lab(t)) /\ id'[t] = label_lookup_[Lab(t)]
                             /\ Op(t) = "get" /\ UNCHANGED <<calls, label_lookup_, marked>>
      BY <1>1, <2>2 DEF Find, Goto, Take, Refuse, index, ThreadOK, Called
    <3> QED BY <1>2, <3>1 DEF Copying, Findable, Deleted, Known, isMarkedDeleted, Lab
  <2> QED BY <1>2, <2>1, <2>2 DEF Copying
<1>3. CASE s # t /\ pc[s] = "copy"
  <2>1. pc'[s] = pc[s] /\ id'[s] = id[s] /\ Lab(s)' = Lab(s) /\ Lab(s) \in Labels
    BY <1>1, <1>3 DEF Beside, Lab, ThreadOK, Called
  <2>2. Known(Lab(s)) /\ id[s] = label_lookup_[Lab(s)] /\ id[s] \notin marked /\ id[s] \in Ids
    BY <1>3 DEF Copying, Inv, Typed, Known
  <2>3. Lab(t) # Lab(s)
    BY <1>3, <2>1, LabelsDiffer DEF Inv
  <2>4. CASE UNCHANGED label_lookup_ /\ marked' \subseteq marked
    BY <2>1, <2>2, <2>4 DEF Copying, Known
  <2>5. CASE SetMark(t)
    <3>1. Known(Lab(t)) /\ id[t] = label_lookup_[Lab(t)]
      BY <1>1, <2>5 DEF SetMark, ThreadOK, Found, Looking
    <3>2. id[t] # id[s]
      BY <2>2, <2>3, <3>1 DEF Inv, OneLabel, Known
    <3>3. UNCHANGED label_lookup_ /\ marked' \subseteq marked \cup {id[t]}
      BY <2>5 DEF SetMark
    <3> QED BY <2>1, <2>2, <3>2, <3>3 DEF Copying, Known
  <2>6. CASE Register(t)
    <3>1. cur_element_count \notin Ids
      BY DEF Ids, Inv, Typed
    <3>2. /\ Lab(s) \in DOMAIN label_lookup_' /\ label_lookup_'[Lab(s)] = label_lookup_[Lab(s)]
          /\ marked' \subseteq marked \cup {cur_element_count}
      BY <2>2, <2>3, <2>6 DEF Register, Known
    <3> QED BY <2>1, <2>2, <3>1, <3>2 DEF Copying, Known
  <2>7. CASE Retable(t)
    <3>1. label_lookup_[old[t]] = id[t] /\ id[t] \in marked /\ UNCHANGED marked
      BY <1>1, <2>7 DEF Retable, ThreadOK, Found, Marked, Replacing
    <3>2. old[t] # Lab(s)
      BY <2>2, <3>1
    <3>3. Lab(s) \in DOMAIN label_lookup_' /\ label_lookup_'[Lab(s)] = label_lookup_[Lab(s)]
      BY <2>2, <2>3, <2>7, <3>2 DEF Retable, ReplacedLookup, Known
    <3> QED BY <2>1, <2>2, <3>1, <3>3 DEF Copying, Known
  <2>8. SetMark(t) \/ Register(t) \/ Retable(t) \/ (UNCHANGED label_lookup_ /\ marked' \subseteq marked)
    BY DEF Acts, Begin, Return, Find, Copy, Count, List, ClearMark, Uncount, Unlist, Update,
       AddKnown, Existing, AddRefused, Initialise, Vacancy, Relabel, index, Cleared
  <2> QED BY <2>4, <2>5, <2>6, <2>7, <2>8
<1> QED BY <1>1, <1>2, <1>3 DEF Beside, Copying

\* The point of an element is the one added under its label, unless a call is
\* about to write it.
LEMMA PointsKept ==
  ASSUME Inv, Inv', NEW t \in Threads, Answered(t), PointsOK, Acts(t)
  PROVE  PointsOK'
<1>1. /\ pc \in [Threads -> Places] /\ id \in [Threads -> 0 .. Capacity] /\ calls \in [Threads -> Calls]
      /\ ThreadOK(t) /\ Beside(t)
      /\ label \in [Ids -> Labels \cup {NoLabel}] /\ data \in [Ids -> Labels \cup {NoLabel}]
  BY ActsBeside DEF Inv, Typed
<1>2. \A p : Goto(t, p) => pc'[t] = p
  BY <1>1 DEF Goto
<1>3. \A o : Outcome(t, o) => calls'[t].op = Op(t)
  BY <1>1 DEF Outcome, Op, Calls
<1>4. \A s \in Threads \ {t} : (Rewriting(s)' <=> Rewriting(s)) /\ id'[s] = id[s]
  BY <1>1 DEF Beside, Rewriting, Op
<1>5. \A i \in Ids : data[i] = label[i] \/ \E s \in Threads : Rewriting(s) /\ id[s] = i
  BY DEF PointsOK
<1>6. CASE UNCHANGED <<cur_element_count, label, data>> /\ (Rewriting(t) => Rewriting(t)' /\ id'[t] = id[t])
  BY <1>4, <1>5, <1>6 DEF PointsOK, Ids
<1>7. CASE Register(t)
  <2>1. Rewriting(t)' /\ id'[t] = cur_element_count /\ ~ Rewriting(t)
    BY <1>1, <1>2, <1>7 DEF Register, Rewriting, Take
  <2>2. \A i \in Ids' : i = cur_element_count \/ i \in Ids
    BY <1>7 DEF Register, Ids, Inv, Typed
  <2>3. \A i \in Ids : label'[i] = label[i] /\ data'[i] = data[i]
    BY <1>7 DEF Register, Ids, Inv, Typed
  <2> QED BY <1>4, <1>5, <2>1, <2>2, <2>3 DEF PointsOK
<1>8. CASE Initialise(t) \/ Update(t)
  <2>1. /\ UNCHANGED <<cur_element_count, id>>
        /\ data' = [data EXCEPT ![id[t]] = Lab(t)]
        /\ pc[t] \in {"init", "update"} /\ (label' = [label EXCEPT ![id[t]] = Lab(t)] \/ (pc[t] = "update" /\ label' = label))
    BY <1>8 DEF Initialise, Update
  <2>2. Known(Lab(t)) /\ id[t] = label_lookup_[Lab(t)] /\ id[t] \in Ids
    BY <1>1, <2>1 DEF ThreadOK, Found, Looking, Inv, Typed, Known
  <2>3. pc[t] = "update" => id[t] \notin HeldAt({"init", "relabel", "table"})
    BY OwnerFacts DEF Inv, Owning, Looking, Replacing
  <2>4. pc[t] = "update" => label[id[t]] = Lab(t)
    BY <2>2, <2>3 DEF Inv, LabelsAgree, Known
  <2>5. data'[id[t]] = label'[id[t]] /\ \A i \in Ids \ {id[t]} : data'[i] = data[i] /\ label'[i] = label[i]
    BY <1>1, <2>1, <2>2, <2>4
  <2> QED BY <1>4, <1>5, <2>1, <2>5 DEF PointsOK, Ids
<1>9. CASE Relabel(t)
  <2>1. Rewriting(t)' /\ UNCHANGED <<cur_element_count, id, data>> /\ ~ Rewriting(t)
    BY <1>1, <1>2, <1>9 DEF Relabel, Rewriting, ThreadOK, Called, Replacing, Op
  <2>2. \A i \in Ids \ {id[t]} : label'[i] = label[i]
    BY <1>1, <1>9 DEF Relabel
  <2> QED BY <1>4, <1>5, <2>1, <2>2 DEF PointsOK, Ids
<1>10. CASE \/ Begin(t) \/ Return(t) \/ Find(t) \/ Copy(t) \/ SetMark(t) \/ Count(t) \/ List(t)
            \/ AddKnown(t) \/ Existing(t) \/ AddRefused(t) \/ Vacancy(t)
  <2>1. UNCHANGED <<cur_element_count, label, data>>
    BY <1>10 DEF Begin, Return, Find, Copy, SetMark, Count, List, AddKnown, Existing, AddRefused, Vacancy, index
  <2>2. ~ Rewriting(t)
    BY <1>1, <1>10, CallFacts DEF Begin, Return, Find, Copy, SetMark, Count, List, AddKnown, Existing, AddRefused, Vacancy,
       Rewriting, ThreadOK, Called, Operations, Inv
  <2> QED BY <1>6, <2>1, <2>2
<1>11. CASE ClearMark(t) \/ Uncount(t) \/ Unlist(t) \/ Retable(t)
  <2>1. UNCHANGED <<cur_element_count, label, data, id>>
    BY <1>11 DEF ClearMark, Uncount, Unlist, Retable, Refuse
  <2>2. Op(t)' = Op(t)
    BY <1>3, <1>11 DEF ClearMark, Uncount, Unlist, Retable, Refuse, Op
  <2>3. Op(t) = "replace" => pc'[t] \in {"table", "unmark", "uncount", "unlist", "update"}
    BY <1>1, <1>2, <1>11 DEF ClearMark, Uncount, Unlist, Retable, AfterUnmark, ThreadOK, Marked, isMarkedDeleted
  <2>4. Rewriting(t) => Op(t) = "replace"
    BY <1>11 DEF ClearMark, Uncount, Unlist, Retable, Rewriting
  <2>5. Rewriting(t) => Rewriting(t)' /\ id'[t] = id[t]
    BY <2>1, <2>2, <2>3, <2>4 DEF Rewriting
  <2> QED BY <1>6, <2>1, <2>5
<1> QED BY <1>7, <1>8, <1>9, <1>10, <1>11 DEF Acts

\* Nobody calls while a save runs.
LEMMA NoSaving ==
  ASSUME Inv, SaveOK, NEW t \in Threads, Acts(t)
  PROVE  ~ saving
<1>1. pc[t] # "idle" => t \in Callers
  BY CallFacts DEF Inv, ThreadOK, Called, Callers
<1>2. Begin(t) \/ pc[t] # "idle"
  BY DEF Acts, Return, Find, Copy, SetMark, Count, List, ClearMark, Uncount, Unlist, Update,
     AddKnown, Existing, AddRefused, Register, Initialise, Vacancy, Relabel, Retable
<1> QED BY <1>1, <1>2 DEF SaveOK, Begin

\* What a thread does keeps all of it.
LEMMA ActsKeepPromise ==
  ASSUME PromiseInv, Inv', NEW t \in Threads, Acts(t)
  PROVE  PromiseInv'
<1>1. Inv /\ Answered(t) /\ PointsOK /\ SaveOK /\ Beside(t)
  BY ActsBeside DEF PromiseInv, Inv
<1>2. \A s \in Threads : Answered(s)'
  <2>1. Answered(t)'
    BY <1>1, AnsweredKept
  <2>2. ASSUME NEW s \in Threads \ {t} PROVE Answered(s)'
    BY <1>1 DEF PromiseInv, Answered, Beside, Op
  <2> QED BY <2>1, <2>2
<1>3. \A s \in Threads : Copying(s)'
  BY CopyingKept DEF PromiseInv
<1>4. PointsOK'
  BY <1>1, PointsKept
<1>5. SaveOK'
  BY <1>1, NoSaving DEF SaveOK, Beside
<1> QED BY <1>2, <1>3, <1>4, <1>5 DEF PromiseInv

\* So does saving, losing and loading an index, and resizing it.
LEMMA DiskKeepsPromise ==
  ASSUME PromiseInv, Inv', StartSave \/ Write \/ EndSave \/ Crash \/ Load \/ resizeIndex
  PROVE  PromiseInv'
<1>1. \A t \in Threads : Idle(t) => ~ Rewriting(t) /\ (UNCHANGED threads => Answered(t)' /\ Copying(t)')
  <2> SUFFICES ASSUME NEW t \in Threads, Idle(t)
               PROVE  ~ Rewriting(t) /\ (UNCHANGED threads => Answered(t)' /\ Copying(t)')
    OBVIOUS
  <2>1. pc[t] = "idle"
    BY CallFacts DEF PromiseInv, Inv, ThreadOK, Called, Operations
  <2> QED BY <2>1 DEF Rewriting, Answered, Copying, threads
<1>2. PointsOK /\ Callers = {} => data = label
  BY <1>1 DEF PointsOK, PromiseInv, Inv, Typed, Callers
<1>3. CASE StartSave \/ Write \/ EndSave
  <2>1. Callers = {} /\ UNCHANGED <<index, threads>>
    BY <1>3 DEF StartSave, Write, EndSave, Quiet, PromiseInv, SaveOK, index, threads
  <2>2. \A t \in Threads : Answered(t)' /\ Copying(t)'
    BY <1>1, <2>1 DEF Callers
  <2>3. PointsOK'
    BY <2>1 DEF PromiseInv, PointsOK, Ids, index, threads, Rewriting, Op
  <2>4. Callers' = {}
    BY <2>1 DEF Callers, Idle, threads
  <2>5. SaveOK'
    <3>1. CASE StartSave
      BY <1>2, <2>1, <2>4, <3>1 DEF StartSave, SaveOK, PromiseInv, index
    <3>2. CASE Write
      <4>1. FileOK(file) /\ saving
        BY <3>2 DEF Write, PromiseInv, Inv, FilesOK
      <4>2. /\ file'.data = file.data /\ file'.label = file.label /\ file'.count = file.count
            /\ file'.marked = file.marked
        BY <3>2, <4>1 DEF Write, FileOK
      <4> QED BY <2>1, <2>4, <3>2, <4>1, <4>2 DEF SaveOK, PromiseInv, index, Write
    <3>3. CASE EndSave
      BY <3>3 DEF EndSave, SaveOK, PromiseInv
    <3> QED BY <1>3, <3>1, <3>2, <3>3
  <2> QED BY <2>2, <2>3, <2>5 DEF PromiseInv
<1>4. CASE Crash
  <2>1. \A t \in Threads : pc'[t] = "idle"
    BY <1>4 DEF Crash
  <2>2. \A t \in Threads : Answered(t)' /\ Copying(t)'
    BY <2>1 DEF Answered, Copying
  <2>3. Ids' = {}
    BY <1>4 DEF Crash, Ids
  <2> QED BY <1>4, <2>2, <2>3 DEF PromiseInv, PointsOK, SaveOK, Crash
<1>5. CASE Load
  <2>1. Callers = {} /\ ~ saving /\ UNCHANGED <<file, saving, threads>> /\ file # NoFile /\ SizeIsRight(file)
    BY <1>5 DEF Load, Quiet
  <2>2. FileOK(file) /\ file.data = file.label
    BY <2>1 DEF PromiseInv, SaveOK, Inv, FilesOK
  <2>3. /\ label' = [i \in 0 .. file.count - 1 |-> Read(file, i, file.label)]
        /\ data' = [i \in 0 .. file.count - 1 |-> Read(file, i, file.data)]
    BY <1>5 DEF Load, Loaded
  <2>4. PointsOK'
    BY <2>2, <2>3 DEF PointsOK, Inv, Typed
  <2>5. \A t \in Threads : Answered(t)' /\ Copying(t)'
    BY <1>1, <2>1 DEF Callers
  <2> QED BY <2>1, <2>2, <2>4, <2>5 DEF PromiseInv, SaveOK
<1>6. CASE resizeIndex
  <2>1. UNCHANGED <<cur_element_count, label, data, file, saving, threads>> /\ ~ saving /\ Callers = {}
    BY <1>6 DEF resizeIndex, Quiet
  <2>2. \A t \in Threads : Answered(t)' /\ Copying(t)'
    BY <1>1, <2>1 DEF Callers
  <2>3. PointsOK'
    BY <2>1 DEF PromiseInv, PointsOK, Ids, threads, Rewriting, Op
  <2> QED BY <2>1, <2>2, <2>3 DEF PromiseInv, SaveOK
<1> QED BY <1>3, <1>4, <1>5, <1>6

\* The strengthened invariant is inductive too.
LEMMA NextPromise ==
  ASSUME ~ ReplaceKnown, PromiseInv, [Next]_vars
  PROVE  PromiseInv'
<1>1. Inv'
  BY NextInv DEF PromiseInv
<1>2. ASSUME NEW t \in Threads, Acts(t) PROVE PromiseInv'
  BY <1>1, <1>2, ActsKeepPromise
<1>3. CASE StartSave \/ Write \/ EndSave \/ Crash \/ Load \/ resizeIndex
  BY <1>1, <1>3, DiskKeepsPromise
<1>4. CASE UNCHANGED vars
  <2>1. UNCHANGED <<index, file, saving, threads>>
    BY <1>4 DEF vars
  <2>2. \A t \in Threads : Answered(t)' /\ Copying(t)'
    BY <2>1 DEF PromiseInv, Answered, Copying, index, threads, Op, Lab, Known
  <2>3. PointsOK'
    BY <2>1 DEF PromiseInv, PointsOK, Ids, index, threads, Rewriting, Op
  <2>4. Callers' = Callers
    BY <2>1 DEF Callers, Idle, threads
  <2>5. SaveOK'
    BY <2>1, <2>4 DEF PromiseInv, SaveOK, index
  <2> QED BY <1>1, <2>2, <2>3, <2>5 DEF PromiseInv
<1> QED BY <1>2, <1>3, <1>4 DEF Next, Acts

\* An empty index without a file satisfies it.
LEMMA InitPromise == Init => PromiseInv
<1> SUFFICES ASSUME Init PROVE PromiseInv
  OBVIOUS
<1>1. \A t \in Threads : pc[t] = "idle"
  BY DEF Init
<1>2. Ids = {}
  BY DEF Init, Ids
<1> QED BY <1>1, <1>2, InitInv DEF PromiseInv, Answered, Copying, PointsOK, SaveOK, Init

\* A call whose label is in the table, though its element is not settled there
Pending(t) == pc[t] = "init" \/ (pc[t] = "unmark" /\ Op(t) = "replace")

\* Of one label only its own call makes it settled or not.
LEMMA PendingFacts ==
  ASSUME Inv, NEW t \in Threads, Beside(t), Lab(t) \in Labels, calls'[t].label = Lab(t), NEW l \in Labels
  PROVE  /\ l # Lab(t) => (Unsettled(l)' <=> Unsettled(l))
         /\ l = Lab(t) => (Unsettled(l) <=> Pending(t)) /\ (Unsettled(l)' <=> Pending(t)')
<1>1. \A s \in Threads \ {t} : /\ pc'[s] = pc[s] /\ calls'[s] = calls[s]
                               /\ Lab(s) # Lab(t)
  BY LabelsDiffer DEF Beside, Inv
<1> QED BY <1>1 DEF Unsettled, Pending, Op, Lab

\* Nothing is seen of a step that leaves table and marks alone, in a call that
\* has its element settled.
LEMMA SeenKept ==
  ASSUME NEW t \in Threads, Beside(t), UNCHANGED <<label_lookup_, marked>>, ~ Pending(t), ~ Pending(t)'
  PROVE  LiveLabels' = LiveLabels /\ GoneLabels' = GoneLabels
<1>1. \A l : Unsettled(l)' <=> Unsettled(l)
  BY DEF Unsettled, Pending, Beside, Op, Lab
<1> QED BY <1>1 DEF LiveLabels, GoneLabels, isMarkedDeleted

\* What the promise sees of a step that leaves its calls and its room alone
LEMMA Unseen ==
  ASSUME NEW t \in Threads, Beside(t), UNCHANGED <<label_lookup_, marked, max_elements_, calls>>,
         ~ Pending(t), ~ Pending(t)'
  PROVE  UNCHANGED Promise!vars
BY SeenKept DEF Beside, Promise!vars, Saved

\* The labels seen are in the table.
LEMMA SeenFacts ==
  ASSUME Typed
  PROVE  /\ LiveLabels \subseteq DOMAIN label_lookup_ /\ GoneLabels \subseteq DOMAIN label_lookup_
         /\ DOMAIN label_lookup_ \subseteq Labels
         /\ \A l : l \in LiveLabels <=> Known(l) /\ label_lookup_[l] \notin marked /\ ~ Unsettled(l)
         /\ \A l : l \in GoneLabels <=> Known(l) /\ label_lookup_[l] \in marked /\ ~ Unsettled(l)
BY DEF LiveLabels, GoneLabels, Typed, isMarkedDeleted, Known

\* A call that acts, before and after
LEMMA CallActs ==
  ASSUME PromiseInv, NEW t \in Threads, Acts(t), ~ Begin(t)
  PROVE  /\ Inv /\ Typed /\ Answered(t) /\ Copying(t) /\ ThreadOK(t) /\ Beside(t)
         /\ Op(t) \in Operations /\ Lab(t) \in Labels /\ calls[t].op # "none"
         /\ pc \in [Threads -> Places] /\ calls \in [Threads -> Calls]
         /\ \A p : Goto(t, p) => pc'[t] = p
         /\ \A o : Outcome(t, o) => calls'[t].label = Lab(t) /\ calls'[t].op = Op(t)
         /\ UNCHANGED calls => calls'[t].label = Lab(t) /\ calls'[t].op = Op(t)
<1>1. Inv /\ Typed /\ Answered(t) /\ Copying(t) /\ ThreadOK(t) /\ Beside(t)
      /\ pc \in [Threads -> Places] /\ calls \in [Threads -> Calls]
  BY ActsBeside DEF PromiseInv, Inv, Typed
<1>2. pc[t] # "idle"
  BY DEF Acts, Return, Find, Copy, SetMark, Count, List, ClearMark, Uncount, Unlist, Update,
     AddKnown, Existing, AddRefused, Register, Initialise, Vacancy, Relabel, Retable
<1>3. Op(t) \in Operations /\ Lab(t) \in Labels /\ calls[t].op # "none"
  BY <1>1, <1>2 DEF ThreadOK, Called, Operations, Op
<1>4. \A p : Goto(t, p) => pc'[t] = p
  BY <1>1 DEF Goto
<1>5. \A o : Outcome(t, o) => calls'[t].label = Lab(t) /\ calls'[t].op = Op(t)
  BY <1>1 DEF Outcome, Op, Lab, Calls
<1>6. UNCHANGED calls => calls'[t].label = Lab(t) /\ calls'[t].op = Op(t)
  BY DEF Op, Lab
<1> QED BY <1>1, <1>3, <1>4, <1>5, <1>6

\* A call begins on a label nobody else calls for, and returns with an answer.
LEMMA BeginReturnMaps ==
  ASSUME PromiseInv, NEW t \in Threads, Begin(t) \/ Return(t)
  PROVE  Promise!Call(t) \/ Promise!Return(t)
<1>1. Inv /\ Beside(t) /\ calls \in [Threads -> Calls] /\ pc \in [Threads -> Places] /\ Answered(t)
  BY ActsBeside DEF PromiseInv, Inv, Typed, Acts
<1>2. UNCHANGED <<label_lookup_, marked, max_elements_, file>> /\ pc[t] \in {"idle", "return"}
  BY <1>1, CallFacts DEF Begin, Return, index, Inv, ThreadOK, Called, Operations
<1>3. ~ Pending(t)
  BY <1>2 DEF Pending
<1>4. CASE Begin(t)
  <2> PICK op \in Operations, l \in Labels :
        /\ Free(l)
        /\ calls' = [calls EXCEPT ![t] = [op |-> op, label |-> l, out |-> "none"]]
        /\ Goto(t, CASE op = "add" -> "add" [] op = "replace" -> "vacancy" [] OTHER -> "find")
    BY <1>4 DEF Begin
  <2>1. ~ Pending(t)'
    BY <1>1 DEF Pending, Goto
  <2>2. ~ Promise!Busy(l)
    <3>1. \A s \in Threads : calls[s].label = l => s \in Callers
      BY <1>1, CallFacts DEF Callers, Lab, Inv
    <3> QED BY <3>1 DEF Promise!Busy, Free, Lab
  <2>3. UNCHANGED <<LiveLabels, GoneLabels, max_elements_, Saved>>
    BY <1>1, <1>2, <1>3, <2>1, SeenKept DEF Saved
  <2>4. calls[t] = Promise!NoCall
    BY <1>4 DEF Begin, Idle, NoCall, Promise!NoCall
  <2> QED BY <2>2, <2>3, <2>4 DEF Promise!Call
<1>5. CASE Return(t)
  <2>1. ~ Pending(t)'
    BY <1>1, <1>5 DEF Pending, Goto, Return
  <2>2. UNCHANGED <<LiveLabels, GoneLabels, max_elements_, Saved>>
    BY <1>1, <1>2, <1>3, <2>1, SeenKept DEF Saved
  <2>3. calls[t].out # "none" /\ calls' = [calls EXCEPT ![t] = NoCall]
    BY <1>1, <1>5 DEF Return, Answered
  <2> QED BY <2>2, <2>3 DEF Promise!Return, NoCall, Promise!NoCall
<1> QED BY <1>4, <1>5

\* A call is refused for the reason it has at that moment.
LEMMA RefuseMaps ==
  ASSUME PromiseInv, NEW t \in Threads, Acts(t), ~ Begin(t), Refuse(t), calls[t].out = "none",
         UNCHANGED <<label_lookup_, marked, max_elements_>>, ~ Pending(t),
         CASE Op(t) \in {"mark", "get"} -> Lab(t) \notin LiveLabels
           [] Op(t) = "unmark" -> Lab(t) \notin GoneLabels
           [] OTHER -> \/ Lab(t) \in GoneLabels
                       \/ Lab(t) \notin LiveLabels /\ Promise!Elements(t) >= max_elements_
  PROVE  Promise!Refuse(t)
<1>1. pc'[t] = "return" /\ Outcome(t, "refused") /\ Beside(t) /\ calls[t].op # "none"
  BY CallActs DEF Refuse
<1>2. ~ Pending(t)'
  BY <1>1 DEF Pending
<1>3. UNCHANGED <<LiveLabels, GoneLabels, max_elements_, Saved>>
  BY <1>1, <1>2, SeenKept DEF Saved, Beside
<1>4. Promise!Answer(t, "refused")
  BY <1>1 DEF Promise!Answer, Outcome
<1> QED BY <1>3, <1>4 DEF Promise!Refuse, Op, Lab

\* Looking up, reading and what goes on without being seen
LEMMA FindMaps ==
  ASSUME PromiseInv, NEW t \in Threads, Find(t)
  PROVE  Promise!Refuse(t) \/ UNCHANGED Promise!vars
<1>1. Acts(t) /\ ~ Begin(t) /\ Answered(t) /\ pc[t] = "find"
  BY CallFacts DEF Acts, Find, Begin, PromiseInv, Inv, ThreadOK, Called, Operations
<1>2. /\ UNCHANGED <<label_lookup_, marked, max_elements_>> /\ ~ Pending(t) /\ calls[t].out = "none"
      /\ Op(t) \in {"mark", "unmark", "get"} /\ Beside(t)
  BY <1>1, CallActs DEF Find, index, Pending, Answered, ThreadOK, Called
<1>3. CASE Refuse(t) /\ ~ Findable(Op(t), Lab(t))
  <2>1. Op(t) \in {"mark", "get"} => Lab(t) \notin LiveLabels
    BY <1>3, SeenFacts DEF Findable, Deleted, isMarkedDeleted, PromiseInv, Inv
  <2>2. Op(t) = "unmark" => Lab(t) \notin GoneLabels
    BY <1>3, SeenFacts DEF Findable, PromiseInv, Inv
  <2> QED BY <1>1, <1>2, <1>3, <2>1, <2>2, RefuseMaps
<1>4. CASE Findable(Op(t), Lab(t))
  <2>1. calls' = calls /\ pc'[t] = (IF Op(t) = "get" THEN "copy" ELSE Op(t)) /\ Op(t)' = Op(t)
    BY <1>1, <1>4, CallActs DEF Find, Op
  <2>2. ~ Pending(t)'
    BY <1>2, <2>1 DEF Pending
  <2> QED BY <1>2, <2>1, <2>2, Unseen
<1> QED BY <1>3, <1>4 DEF Find

LEMMA CopyMaps ==
  ASSUME PromiseInv, NEW t \in Threads, Copy(t)
  PROVE  Promise!Read(t)
<1>1. Acts(t) /\ ~ Begin(t) /\ pc[t] = "copy"
  BY CallFacts DEF Acts, Copy, Begin, PromiseInv, Inv, ThreadOK, Called, Operations
<1>2. /\ Answered(t) /\ Copying(t) /\ Beside(t) /\ Inv /\ ThreadOK(t) /\ Lab(t) \in Labels
      /\ calls[t].op = "get" /\ calls[t].out = "none" /\ pc'[t] = "return"
      /\ UNCHANGED <<label_lookup_, marked, max_elements_>> /\ ~ Pending(t)
  BY <1>1, CallActs DEF Copy, index, Pending, Answered, Op
<1>3. /\ Known(Lab(t)) /\ id[t] = label_lookup_[Lab(t)] /\ id[t] \notin marked /\ id[t] \in Ids
  BY <1>1, <1>2 DEF Copying, Inv, Typed, Known
<1>4. ASSUME NEW s \in Threads, pc[s] \in Owning, id[s] = id[t]
      PROVE  FALSE
  <2>1. ThreadOK(s) /\ s # t
    BY <1>1, <1>2, <1>4 DEF Inv, Owning, Looking, Replacing
  <2>2. pc[s] \in Looking
    BY <1>3, <1>4, <2>1 DEF ThreadOK, Marked, Owning
  <2>3. Known(Lab(s)) /\ id[s] = label_lookup_[Lab(s)]
    BY <2>1, <2>2 DEF ThreadOK, Found
  <2>4. Lab(s) # Lab(t)
    BY <1>2, <2>1, LabelsDiffer DEF Inv
  <2> QED BY <1>3, <1>4, <2>3, <2>4, <1>2 DEF Inv, OneLabel, Known
<1>5. label[id[t]] = Lab(t)
  <2>1. id[t] \notin HeldAt({"init", "relabel", "table"})
    BY <1>4 DEF HeldAt, At, Owning, Looking, Replacing
  <2> QED BY <1>2, <1>3, <2>1 DEF Inv, LabelsAgree, Known
<1>6. data[id[t]] = Lab(t)
  <2>1. \A s \in Threads : Rewriting(s) => pc[s] \in Owning
    BY DEF Rewriting, Owning, Looking, Replacing
  <2> QED BY <1>3, <1>4, <1>5, <2>1 DEF PromiseInv, PointsOK
<1>7. Lab(t) \in LiveLabels
  <2>1. ~ Unsettled(Lab(t))
    <3> SUFFICES ASSUME NEW s \in Threads, Pending(s), Lab(s) = Lab(t) PROVE FALSE
      BY DEF Unsettled, Pending
    <3>1. s # t
      BY <1>2
    <3> QED BY <1>2, <3>1, LabelsDiffer DEF Inv
  <2> QED BY <1>2, <1>3, <2>1, SeenFacts DEF Inv
<1>8. ~ Pending(t)'
  BY <1>2 DEF Pending
<1>9. UNCHANGED <<LiveLabels, GoneLabels, max_elements_, Saved>>
  BY <1>2, <1>8, SeenKept DEF Saved, Beside
<1>10. calls' = [calls EXCEPT ![t].out = "ok"]
  BY <1>6 DEF Copy, Outcome
<1> QED BY <1>2, <1>7, <1>9, <1>10 DEF Promise!Read, Promise!Answer, Lab

\* Counter and set of deleted elements are not seen; nor is what comes before an element is
\* initialised, found or relabelled.
LEMMA UnseenMaps ==
  ASSUME PromiseInv, NEW t \in Threads,
         \/ Count(t) \/ List(t) \/ Uncount(t) \/ Unlist(t) \/ Existing(t) \/ Vacancy(t) \/ Relabel(t)
  PROVE  UNCHANGED Promise!vars
<1>1. Acts(t) /\ ~ Begin(t)
  BY CallFacts DEF Acts, Count, List, Uncount, Unlist, Existing, Vacancy, Relabel,
     Begin, PromiseInv, Inv, ThreadOK, Called, Operations
<1>2. UNCHANGED <<label_lookup_, marked, max_elements_, calls>>
  BY DEF Count, List, Uncount, Unlist, Existing, Vacancy, Relabel, index
<1>3. ~ Pending(t)
  BY DEF Count, List, Uncount, Unlist, Existing, Vacancy, Relabel, Pending
<1>4. ~ Pending(t)'
  <2>1. Op(t)' = Op(t)
    BY <1>2 DEF Op
  <2>2. Existing(t) => Op(t) = "add"
    BY <1>1, CallActs DEF Answered, Existing
  <2>3. pc'[t] # "init" /\ (Existing(t) \/ pc'[t] # "unmark")
    BY <1>1, CallActs DEF Count, List, Uncount, Unlist, Existing, Vacancy, Relabel, AfterUnmark
  <2> QED BY <2>1, <2>2, <2>3 DEF Pending
<1>5. Beside(t)
  BY <1>1, CallActs
<1> QED BY <1>2, <1>3, <1>4, <1>5, Unseen

\* Deleting takes effect when the mark is set.
LEMMA SetMarkMaps ==
  ASSUME PromiseInv, NEW t \in Threads, SetMark(t)
  PROVE  Promise!Refuse(t) \/ Promise!Delete(t)
<1>1. Acts(t) /\ ~ Begin(t) /\ pc[t] = "mark"
  BY CallFacts DEF Acts, SetMark, Begin, PromiseInv, Inv, ThreadOK, Called, Operations
<1>2. /\ Answered(t) /\ Beside(t) /\ Inv /\ Typed /\ ThreadOK(t) /\ Lab(t) \in Labels
      /\ Op(t) = "mark" /\ calls[t].op = "mark" /\ calls[t].out = "none"
      /\ UNCHANGED <<label_lookup_, max_elements_>> /\ ~ Pending(t)
  BY <1>1, CallActs DEF SetMark, Pending, Answered, Op
<1>3. Known(Lab(t)) /\ id[t] = label_lookup_[Lab(t)]
  BY <1>1, <1>2 DEF ThreadOK, Found, Looking
<1>4. CASE id[t] \in marked
  <2>1. Refuse(t) /\ UNCHANGED marked
    BY <1>4 DEF SetMark, isMarkedDeleted
  <2>2. Lab(t) \notin LiveLabels
    BY <1>2, <1>3, <1>4, SeenFacts
  <2> QED BY <1>1, <1>2, <2>1, <2>2, RefuseMaps
<1>5. CASE id[t] \notin marked
  <2>1. marked' = marked \cup {id[t]} /\ calls' = [calls EXCEPT ![t].out = "ok"]
        /\ pc'[t] = "count" /\ calls'[t].label = Lab(t)
    BY <1>1, <1>5, CallActs DEF SetMark, isMarkedDeleted, Outcome
  <2>2. ~ Pending(t)'
    BY <2>1 DEF Pending
  <2>3. \A l \in Labels : /\ l # Lab(t) => (Unsettled(l)' <=> Unsettled(l))
                          /\ l = Lab(t) => ~ Unsettled(l) /\ ~ Unsettled(l)'
    BY <1>2, <2>1, <2>2, PendingFacts
  <2>4. \A l \in DOMAIN label_lookup_ : l # Lab(t) => label_lookup_[l] # id[t]
    BY <1>2, <1>3 DEF Inv, OneLabel, Known
  <2>5. Lab(t) \in LiveLabels
    BY <1>2, <1>3, <1>5, <2>3, SeenFacts
  <2>6. DOMAIN label_lookup_ \subseteq Labels /\ Lab(t) \in DOMAIN label_lookup_
    BY <1>2, <1>3 DEF Typed, Known
  <2>7. LiveLabels' = LiveLabels \ {Lab(t)}
    BY <1>2, <1>3, <2>1, <2>3, <2>4, <2>6 DEF LiveLabels, isMarkedDeleted
  <2>8. GoneLabels' = GoneLabels \cup {Lab(t)}
    BY <1>2, <1>3, <2>1, <2>3, <2>4, <2>6 DEF GoneLabels, isMarkedDeleted
  <2>9. UNCHANGED <<max_elements_, Saved>>
    BY <1>2 DEF Beside, Saved
  <2> QED BY <1>2, <2>1, <2>5, <2>7, <2>8, <2>9 DEF Promise!Delete, Promise!Answer, Lab
<1> QED BY <1>4, <1>5

\* The others of a call: what the call's own label leads to they do not own.
LEMMA OwnLabel ==
  ASSUME PromiseInv, NEW t \in Threads, Acts(t), ~ Begin(t), pc[t] \in Looking
  PROVE  /\ Known(Lab(t)) /\ id[t] = label_lookup_[Lab(t)] /\ id[t] \in Ids
         /\ \A l \in DOMAIN label_lookup_ : l # Lab(t) => label_lookup_[l] # id[t]
<1>1. Inv /\ Typed /\ ThreadOK(t)
  BY CallActs
<1>2. Known(Lab(t)) /\ id[t] = label_lookup_[Lab(t)]
  BY <1>1 DEF ThreadOK, Found
<1> QED BY <1>1, <1>2 DEF Inv, OneLabel, Known, Typed

\* Restoring takes effect when the mark is cleared, and so does adding to a
\* deleted element.
LEMMA ClearMarkMaps ==
  ASSUME PromiseInv, NEW t \in Threads, ClearMark(t)
  PROVE  Promise!Refuse(t) \/ Promise!Restore(t) \/ Promise!Put(t)
<1>1. Acts(t) /\ ~ Begin(t) /\ pc[t] = "unmark"
  BY CallFacts DEF Acts, ClearMark, Begin, PromiseInv, Inv, ThreadOK, Called, Operations
<1>2. /\ Answered(t) /\ Beside(t) /\ Inv /\ Typed /\ ThreadOK(t) /\ Lab(t) \in Labels
      /\ Op(t) \in {"unmark", "add", "replace"} /\ calls[t].op = Op(t) /\ calls[t].out = "none"
      /\ UNCHANGED <<label_lookup_, max_elements_>>
  BY <1>1, CallActs DEF ClearMark, Answered, Op
<1>3. /\ Known(Lab(t)) /\ id[t] = label_lookup_[Lab(t)]
      /\ \A l \in DOMAIN label_lookup_ : l # Lab(t) => label_lookup_[l] # id[t]
  BY <1>1, OwnLabel DEF Looking
<1>4. CASE id[t] \notin marked
  <2>1. Refuse(t) /\ UNCHANGED marked
    BY <1>4 DEF ClearMark, isMarkedDeleted
  <2>2. Op(t) = "unmark"
    BY <1>1, <1>2, <1>4 DEF ThreadOK, Marked
  <2>3. Lab(t) \notin GoneLabels
    BY <1>2, <1>3, <1>4, SeenFacts
  <2>4. ~ Pending(t)
    BY <1>1, <2>2 DEF Pending
  <2> QED BY <1>1, <1>2, <2>1, <2>2, <2>3, <2>4, RefuseMaps
<1>5. CASE id[t] \in marked
  <2>1. marked' = marked \ {id[t]} /\ calls' = [calls EXCEPT ![t].out = "ok"]
        /\ pc'[t] = "uncount" /\ calls'[t].label = Lab(t)
    BY <1>1, <1>5, CallActs DEF ClearMark, isMarkedDeleted, Outcome
  <2>2. ~ Pending(t)' /\ (Op(t) = "unmark" => ~ Pending(t))
    BY <1>1, <2>1 DEF Pending
  <2>3. \A l \in Labels : /\ l # Lab(t) => (Unsettled(l)' <=> Unsettled(l))
                          /\ l = Lab(t) => (Unsettled(l) <=> Pending(t)) /\ ~ Unsettled(l)'
    BY <1>2, <2>1, <2>2, PendingFacts
  <2>4. Op(t) = "unmark" => Lab(t) \in GoneLabels
    BY <1>2, <1>3, <1>5, <2>2, <2>3, SeenFacts
  <2>5. DOMAIN label_lookup_ \subseteq Labels /\ Lab(t) \in DOMAIN label_lookup_
    BY <1>2, <1>3 DEF Typed, Known
  <2>6. LiveLabels' = LiveLabels \cup {Lab(t)}
    BY <1>2, <1>3, <2>1, <2>3, <2>5 DEF LiveLabels, isMarkedDeleted
  <2>7. GoneLabels' = GoneLabels \ {Lab(t)}
    BY <1>2, <1>3, <2>1, <2>3, <2>5 DEF GoneLabels, isMarkedDeleted
  <2>8. UNCHANGED <<max_elements_, Saved>>
    BY <1>2 DEF Beside, Saved
  <2>9. Promise!Answer(t, "ok")
    BY <1>2, <2>1 DEF Promise!Answer
  <2>10. CASE Op(t) = "unmark"
    BY <1>2, <2>4, <2>6, <2>7, <2>8, <2>9, <2>10 DEF Promise!Restore, Lab
  <2>11. CASE Op(t) # "unmark"
    BY <1>2, <2>6, <2>7, <2>8, <2>9, <2>11 DEF Promise!Put, Lab
  <2> QED BY <2>10, <2>11
<1> QED BY <1>4, <1>5

\* Writing the point of an element that was not deleted takes effect then; of
\* one that was, it has taken effect already.
LEMMA UpdateMaps ==
  ASSUME PromiseInv, NEW t \in Threads, Update(t)
  PROVE  Promise!Put(t) \/ UNCHANGED Promise!vars
<1>1. Acts(t) /\ ~ Begin(t) /\ pc[t] = "update"
  BY CallFacts DEF Acts, Update, Begin, PromiseInv, Inv, ThreadOK, Called, Operations
<1>2. /\ Answered(t) /\ Beside(t) /\ Inv /\ Typed /\ ThreadOK(t) /\ Lab(t) \in Labels
      /\ Op(t) \in {"add", "replace"} /\ calls[t].op = Op(t) /\ calls[t].out \in {"none", "ok"}
      /\ UNCHANGED <<label_lookup_, marked, max_elements_>> /\ pc'[t] = "return"
      /\ calls' = [calls EXCEPT ![t].out = "ok"] /\ calls'[t].label = Lab(t)
      /\ calls \in [Threads -> Calls] /\ calls[t] \in Calls
  BY <1>1, CallActs DEF Update, Answered, Op, Outcome
<1>3. ~ Pending(t) /\ ~ Pending(t)'
  BY <1>1, <1>2 DEF Pending
<1>4. CASE calls[t].out = "ok"
  <2>1. calls' = calls
    BY <1>2, <1>4 DEF Calls
  <2> QED BY <1>2, <1>3, <2>1, Unseen
<1>5. CASE calls[t].out = "none"
  <2>1. /\ Known(Lab(t)) /\ id[t] = label_lookup_[Lab(t)] /\ id[t] \notin marked
    BY <1>1, <1>2, OwnLabel DEF Looking, ThreadOK, Marked
  <2>2. ~ Unsettled(Lab(t))
    BY <1>2, <1>3, PendingFacts
  <2>3. Lab(t) \in LiveLabels /\ Lab(t) \notin GoneLabels
    BY <1>2, <2>1, <2>2, SeenFacts
  <2>4. UNCHANGED <<LiveLabels, GoneLabels, max_elements_, Saved>>
    BY <1>2, <1>3, SeenKept DEF Beside, Saved
  <2> QED BY <1>2, <1>5, <2>3, <2>4 DEF Promise!Put, Promise!Answer, Lab
<1> QED BY <1>2, <1>4, <1>5

\* A new element is seen once it is initialised.
LEMMA RegisterMaps ==
  ASSUME PromiseInv, NEW t \in Threads, Register(t)
  PROVE  UNCHANGED Promise!vars
<1>1. Acts(t) /\ ~ Begin(t) /\ pc[t] = "add" /\ ~ Known(Lab(t))
  BY CallFacts DEF Acts, Register, Begin, PromiseInv, Inv, ThreadOK, Called, Operations
<1>2. /\ Beside(t) /\ Inv /\ Typed /\ Lab(t) \in Labels /\ pc'[t] = "init"
      /\ UNCHANGED <<max_elements_, calls>> /\ calls'[t].label = Lab(t)
      /\ DOMAIN label_lookup_' = DOMAIN label_lookup_ \cup {Lab(t)}
      /\ \A l \in DOMAIN label_lookup_ : label_lookup_'[l] = label_lookup_[l]
  BY <1>1, CallActs DEF Register, Known
<1>3. Pending(t)' /\ ~ Pending(t)
  BY <1>1, <1>2 DEF Pending
<1>4. \A l \in Labels : /\ l # Lab(t) => (Unsettled(l)' <=> Unsettled(l))
                        /\ l = Lab(t) => Unsettled(l)'
  BY <1>2, <1>3, PendingFacts
<1>5. \A l \in DOMAIN label_lookup_ : label_lookup_[l] \in marked' <=> label_lookup_[l] \in marked
  <2>1. marked' = marked \/ marked' = marked \cup {cur_element_count}
    BY DEF Register
  <2>2. \A l \in DOMAIN label_lookup_ : label_lookup_[l] # cur_element_count
    BY <1>2 DEF Typed, Ids
  <2> QED BY <2>1, <2>2
<1>6. DOMAIN label_lookup_ \subseteq Labels /\ Lab(t) \notin DOMAIN label_lookup_
  BY <1>1, <1>2 DEF Typed, Known
<1>7. LiveLabels' = LiveLabels
  BY <1>2, <1>4, <1>5, <1>6 DEF LiveLabels, isMarkedDeleted
<1>8. GoneLabels' = GoneLabels
  BY <1>2, <1>4, <1>5, <1>6 DEF GoneLabels, isMarkedDeleted
<1> QED BY <1>2, <1>7, <1>8 DEF Beside, Promise!vars, Saved

LEMMA InitialiseMaps ==
  ASSUME PromiseInv, NEW t \in Threads, Initialise(t)
  PROVE  Promise!Put(t)
<1>1. Acts(t) /\ ~ Begin(t) /\ pc[t] = "init"
  BY CallFacts DEF Acts, Initialise, Begin, PromiseInv, Inv, ThreadOK, Called, Operations
<1>2. /\ Answered(t) /\ Beside(t) /\ Inv /\ Typed /\ ThreadOK(t) /\ Lab(t) \in Labels
      /\ Op(t) \in {"add", "replace"} /\ calls[t].op = Op(t) /\ calls[t].out = "none"
      /\ UNCHANGED <<label_lookup_, max_elements_>> /\ pc'[t] = "return"
      /\ marked' = marked \ {id[t]}
      /\ calls' = [calls EXCEPT ![t].out = "ok"] /\ calls'[t].label = Lab(t)
  BY <1>1, CallActs DEF Initialise, Answered, Op, Outcome, Cleared
<1>3. /\ Known(Lab(t)) /\ id[t] = label_lookup_[Lab(t)]
      /\ \A l \in DOMAIN label_lookup_ : l # Lab(t) => label_lookup_[l] # id[t]
  BY <1>1, OwnLabel DEF Looking
<1>4. Pending(t) /\ ~ Pending(t)'
  BY <1>1, <1>2 DEF Pending
<1>5. \A l \in Labels : /\ l # Lab(t) => (Unsettled(l)' <=> Unsettled(l))
                        /\ l = Lab(t) => Unsettled(l) /\ ~ Unsettled(l)'
  BY <1>2, <1>4, PendingFacts
<1>6. DOMAIN label_lookup_ \subseteq Labels /\ Lab(t) \in DOMAIN label_lookup_
  BY <1>2, <1>3 DEF Typed, Known
<1>7. LiveLabels' = LiveLabels \cup {Lab(t)}
  BY <1>2, <1>3, <1>5, <1>6 DEF LiveLabels, isMarkedDeleted
<1>8. GoneLabels' = GoneLabels \ {Lab(t)}
  BY <1>2, <1>3, <1>5, <1>6 DEF GoneLabels, isMarkedDeleted
<1>9. UNCHANGED <<max_elements_, Saved>>
  BY <1>2 DEF Beside, Saved
<1> QED BY <1>2, <1>7, <1>8, <1>9 DEF Promise!Put, Promise!Answer, Lab

\* A replacement gives up the label its element had.
LEMMA RetableMaps ==
  ASSUME PromiseInv, NEW t \in Threads, Retable(t)
  PROVE  Promise!GiveUp(t)
<1>1. Acts(t) /\ ~ Begin(t) /\ pc[t] = "table"
  BY CallFacts DEF Acts, Retable, Begin, PromiseInv, Inv, ThreadOK, Called, Operations
<1>2. /\ Answered(t) /\ Beside(t) /\ Inv /\ Typed /\ ThreadOK(t) /\ Lab(t) \in Labels
      /\ calls[t].op = "replace" /\ calls[t].out = "none"
      /\ UNCHANGED <<marked, max_elements_, calls>> /\ pc'[t] = "unmark"
      /\ calls'[t].label = Lab(t)
  BY <1>1, CallActs DEF Retable, Answered, ThreadOK, Called, Op, Replacing
<1>3. /\ ~ Known(Lab(t)) /\ Known(old[t]) /\ label_lookup_[old[t]] = id[t] /\ id[t] \in marked
  BY <1>1, <1>2 DEF ThreadOK, Found, Marked, Replacing
<1>4. /\ DOMAIN label_lookup_' = (DOMAIN label_lookup_ \ {old[t]}) \cup {Lab(t)}
      /\ \A l \in DOMAIN label_lookup_ \ {old[t]} : label_lookup_'[l] = label_lookup_[l]
  BY <1>3 DEF Retable, ReplacedLookup, Known
<1>5. Pending(t)' /\ ~ Pending(t)
  BY <1>1, <1>2 DEF Pending, Op
<1>6. \A l \in Labels : /\ l # Lab(t) => (Unsettled(l)' <=> Unsettled(l))
                        /\ l = Lab(t) => Unsettled(l)'
  BY <1>2, <1>5, PendingFacts
<1>7. ~ Unsettled(old[t])
  <2> SUFFICES ASSUME NEW s \in Threads, Pending(s), Lab(s) = old[t] PROVE FALSE
    BY DEF Unsettled, Pending
  <2>1. ThreadOK(s) /\ pc[s] \in Looking
    BY <1>2 DEF Inv, Pending, Looking
  <2>2. id[s] = id[t]
    BY <1>3, <2>1 DEF ThreadOK, Found
  <2> QED BY <1>1, <1>2, <2>1, <2>2 DEF Inv, OneOwner, At, Owning, Looking, Replacing
<1>8. old[t] \in GoneLabels /\ old[t] \notin LiveLabels
  BY <1>2, <1>3, <1>7, SeenFacts
<1>9. DOMAIN label_lookup_ \subseteq Labels /\ Lab(t) \notin DOMAIN label_lookup_
  BY <1>2, <1>3 DEF Typed, Known
<1>10. LiveLabels' = LiveLabels
  BY <1>2, <1>4, <1>6, <1>8, <1>9 DEF LiveLabels, isMarkedDeleted
<1>11. GoneLabels' = GoneLabels \ {old[t]}
  BY <1>2, <1>4, <1>6, <1>9 DEF GoneLabels, isMarkedDeleted
<1>12. UNCHANGED <<max_elements_, Saved>>
  BY <1>2 DEF Beside, Saved
<1> QED BY <1>2, <1>8, <1>10, <1>11, <1>12 DEF Promise!GiveUp

\* LabelSpec counts like everybody else.
LEMMA SameCardinality == \A S : Promise!Cardinality(S) = Cardinality(S)
BY DEF Promise!Cardinality, Cardinality

\* An index is full for a caller when its elements and those of other calls fill it.
LEMMA FullFacts ==
  ASSUME PromiseInv, NEW t \in Threads, pc[t] = "add", Full
  PROVE  Promise!Elements(t) >= max_elements_
<1> DEFINE seen == LiveLabels \cup GoneLabels
           others == {s \in Threads \ {t} : calls[s].op \in {"add", "replace"} /\ calls[s].out = "none"}
           byLabel == {label_lookup_[l] : l \in seen}
           byCall == {id[s] : s \in others}
<1>1. Inv /\ Typed /\ IsFiniteSet(Ids) /\ Cardinality(Ids) = cur_element_count
      /\ cur_element_count \in Nat /\ max_elements_ \in Nat
  <2>1. Inv /\ Typed
    BY DEF PromiseInv, Inv
  <2>2. cur_element_count \in Nat /\ max_elements_ \in Nat
    BY <2>1, LabelsAssumption DEF Typed
  <2> QED BY <2>1, <2>2, FS_Interval DEF Ids
<1>2. \A s \in Threads : pc[s] \in {"init", "relabel", "table"} \/ Pending(s) => s \in others
  <2> SUFFICES ASSUME NEW s \in Threads, pc[s] \in {"init", "relabel", "table"} \/ Pending(s)
               PROVE  s \in others
    OBVIOUS
  <2>1. Answered(s) /\ ThreadOK(s)
    BY DEF PromiseInv, Inv
  <2>2. calls[s].op \in {"add", "replace"} /\ calls[s].out = "none" /\ s # t
    BY <2>1 DEF Answered, ThreadOK, Called, Pending, Op, Replacing
  <2> QED BY <2>2
<1>3. \A i \in Ids : i \in byLabel \/ i \in byCall
  <2> SUFFICES ASSUME NEW i \in Ids, i \notin byCall PROVE i \in byLabel
    OBVIOUS
  <2>1. i \notin HeldAt({"init", "relabel", "table"})
    BY <1>2 DEF HeldAt, At
  <2>2. Known(label[i]) /\ label_lookup_[label[i]] = i
    BY <1>1, <2>1 DEF Inv, LabelsAgree
  <2>3. ~ Unsettled(label[i])
    <3> SUFFICES ASSUME NEW s \in Threads, Pending(s), Lab(s) = label[i] PROVE FALSE
      BY DEF Unsettled, Pending
    <3>1. ThreadOK(s) /\ pc[s] \in Looking
      BY <1>1 DEF Inv, Pending, Looking
    <3>2. id[s] = i
      BY <2>2, <3>1 DEF ThreadOK, Found
    <3> QED BY <1>2, <3>2
  <2>4. label[i] \in seen
    BY <1>1, <2>2, <2>3, SeenFacts
  <2> QED BY <2>2, <2>4
<1>4. IsFiniteSet(seen) /\ Cardinality(seen) \in Nat
      /\ IsFiniteSet(byLabel) /\ Cardinality(byLabel) <= Cardinality(seen) /\ Cardinality(byLabel) \in Nat
  <2> DEFINE g == [l \in seen |-> label_lookup_[l]]
  <2>1. seen \subseteq DOMAIN label_lookup_ /\ \A l \in seen : g[l] \in Ids
    BY <1>1, SeenFacts DEF Typed
  <2>2. g \in [seen -> Ids] /\ \A k, l \in seen : g[k] = g[l] => k = l
    BY <1>1, <2>1 DEF Inv, OneLabel
  <2>3. byLabel = {g[l] : l \in seen}
    OBVIOUS
  <2> HIDE DEF g, seen
  <2>4. g \in Injection(seen, Ids)
    BY <2>2 DEF Injection, IsInjective
  <2>5. IsFiniteSet(seen)
    BY <1>1, <2>4, FS_Injection
  <2>6. g \in Surjection(seen, byLabel)
    BY <2>2, <2>3 DEF Surjection
  <2> HIDE DEF byLabel
  <2>7. IsFiniteSet(byLabel) /\ Cardinality(byLabel) <= Cardinality(seen)
    BY <2>5, <2>6, FS_Surjection
  <2> QED BY <2>5, <2>7, FS_CardinalityType
<1>5. IsFiniteSet(others) /\ Cardinality(others) \in Nat
      /\ IsFiniteSet(byCall) /\ Cardinality(byCall) <= Cardinality(others) /\ Cardinality(byCall) \in Nat
  <2> DEFINE g == [s \in others |-> id[s]]
  <2>1. others \subseteq Threads
    OBVIOUS
  <2>2. IsFiniteSet(others)
    BY <2>1, FS_Subset, LabelsAssumption
  <2> HIDE DEF others
  <2>3. g \in Surjection(others, byCall)
    BY DEF Surjection
  <2> HIDE DEF g, byCall
  <2>4. IsFiniteSet(byCall) /\ Cardinality(byCall) <= Cardinality(others)
    BY <2>2, <2>3, FS_Surjection
  <2> QED BY <2>2, <2>4, FS_CardinalityType
<1> HIDE DEF seen, others, byLabel, byCall
<1>6. cur_element_count <= Cardinality(byLabel) + Cardinality(byCall)
  <2>1. /\ IsFiniteSet(byLabel \cup byCall)
        /\ Cardinality(byLabel \cup byCall) = Cardinality(byLabel) + Cardinality(byCall) - Cardinality(byLabel \cap byCall)
    BY <1>4, <1>5, FS_Union
  <2>2. IsFiniteSet(byLabel \cap byCall)
    BY <1>4, FS_Intersection
  <2>3. Cardinality(byLabel \cap byCall) \in Nat
    BY <2>2, FS_CardinalityType
  <2>4. Cardinality(Ids) <= Cardinality(byLabel \cup byCall)
    BY <1>3, <2>1, FS_Subset
  <2> QED BY <1>1, <1>4, <1>5, <2>1, <2>3, <2>4
<1>7. cur_element_count <= Cardinality(seen) + Cardinality(others)
  BY <1>1, <1>4, <1>5, <1>6
<1>8. Promise!Elements(t) = Cardinality(seen) + Cardinality(others)
  BY SameCardinality DEF Promise!Elements, seen, others
<1> QED BY <1>1, <1>4, <1>5, <1>7, <1>8 DEF Full

\* An addition is refused to a label that may be replaced, and when the index is full.
LEMMA AddMaps ==
  ASSUME PromiseInv, NEW t \in Threads, AddKnown(t) \/ AddRefused(t)
  PROVE  Promise!Refuse(t) \/ UNCHANGED Promise!vars
<1>1. Acts(t) /\ ~ Begin(t) /\ pc[t] = "add"
  BY CallFacts DEF Acts, AddKnown, AddRefused, Begin, PromiseInv, Inv, ThreadOK, Called, Operations
<1>2. /\ UNCHANGED <<label_lookup_, marked, max_elements_>> /\ ~ Pending(t) /\ calls[t].out = "none"
      /\ Op(t) \in {"add", "replace"} /\ Beside(t) /\ Inv /\ Typed /\ Lab(t) \in Labels
  BY <1>1, CallActs DEF AddKnown, AddRefused, index, Pending, Answered
<1>3. CASE AddKnown(t) /\ Refuse(t) /\ Deleted(Lab(t))
  <2>1. ~ Unsettled(Lab(t))
    <3> SUFFICES ASSUME NEW s \in Threads, Pending(s), Lab(s) = Lab(t) PROVE FALSE
      BY DEF Unsettled, Pending
    <3>1. s # t
      BY <1>2
    <3> QED BY <1>2, <3>1, LabelsDiffer DEF Inv
  <2>2. Lab(t) \in GoneLabels
    BY <1>2, <1>3, <2>1, SeenFacts DEF Deleted, isMarkedDeleted
  <2> QED BY <1>1, <1>2, <1>3, <2>2, RefuseMaps
<1>4. CASE AddKnown(t) /\ Goto(t, "existing") /\ UNCHANGED calls
  <2>1. ~ Pending(t)'
    BY <1>1, <1>4, CallActs DEF Pending
  <2> QED BY <1>2, <1>4, <2>1, Unseen
<1>5. CASE AddRefused(t)
  <2>1. Lab(t) \notin LiveLabels /\ Refuse(t)
    BY <1>2, <1>5, SeenFacts DEF AddRefused
  <2>2. Promise!Elements(t) >= max_elements_
    BY <1>1, <1>5, FullFacts DEF AddRefused
  <2> QED BY <1>1, <1>2, <2>1, <2>2, RefuseMaps
<1> QED BY <1>3, <1>4, <1>5 DEF AddKnown

\* When nobody calls, the labels seen are those of the elements.
Unused == Inv /\ Callers = {}
SeenAtRest ==
  /\ LiveLabels = {label[i] : i \in Ids \ marked}
  /\ GoneLabels = {label[i] : i \in marked}
  /\ LiveLabels \subseteq Labels /\ GoneLabels \subseteq Labels
LEMMA AtRest == Unused => SeenAtRest
<1> SUFFICES ASSUME Inv, Callers = {} PROVE SeenAtRest
  BY DEF Unused
<1>1. \A t \in Threads : pc[t] = "idle"
  BY CallFacts DEF Inv, ThreadOK, Called, Operations, Callers
<1>2. \A P : "idle" \notin P => HeldAt(P) = {}
  BY <1>1 DEF HeldAt, At
<1>3. \A l : ~ Unsettled(l)
  BY <1>1 DEF Unsettled
<1>4. \A i \in Ids : Known(label[i]) /\ label_lookup_[label[i]] = i
  BY <1>2 DEF Inv, LabelsAgree
<1>5. \A l \in DOMAIN label_lookup_ : label_lookup_[l] \in Ids /\ label[label_lookup_[l]] = l
  BY <1>2 DEF Inv, LabelsAgree, Typed
<1>6. marked \subseteq Ids
  BY DEF Inv, Typed
<1>7. LiveLabels = {label[i] : i \in Ids \ marked}
  BY <1>3, <1>4, <1>5 DEF LiveLabels, isMarkedDeleted, Known
<1>8. GoneLabels = {label[i] : i \in marked}
  BY <1>3, <1>4, <1>5, <1>6 DEF GoneLabels, isMarkedDeleted, Known
<1>9. LiveLabels \subseteq Labels /\ GoneLabels \subseteq Labels
  BY SeenFacts DEF Inv
<1> QED BY <1>7, <1>8, <1>9 DEF SeenAtRest

\* A finished save wrote the labels seen; what a load brings back is what the file holds.
LEMMA DiskMaps ==
  ASSUME PromiseInv, Inv', StartSave \/ Write \/ EndSave \/ Crash \/ Load \/ resizeIndex
  PROVE  [Promise!Next]_Promise!vars
<1>1. Inv /\ Typed
  BY DEF PromiseInv, Inv
<1>2. Callers = {} => Promise!Quiet
  BY DEF Callers, Idle, Promise!Quiet, NoCall, Promise!NoCall
<1>3. UNCHANGED <<index, threads>> =>
        UNCHANGED <<LiveLabels, GoneLabels, max_elements_, calls>>
  BY DEF index, threads, LiveLabels, GoneLabels, Unsettled, isMarkedDeleted, Op, Lab
<1>4. CASE StartSave
  <2>1. Saved' = NoFile
    <3>1. cur_element_count \in Nat
      BY <1>1 DEF Typed
    <3>2. file'.parts = 0 /\ file'.count = cur_element_count
      BY <1>4 DEF StartSave
    <3> QED BY <3>1, <3>2 DEF Saved
  <2>2. Promise!Quiet /\ UNCHANGED <<index, threads>>
    BY <1>2, <1>4 DEF StartSave, Quiet
  <2>3. Promise!StartSave
    BY <1>3, <2>1, <2>2 DEF Promise!StartSave
  <2> QED BY <2>3 DEF Promise!Next
<1>5. CASE Write
  <2>1. /\ Promise!Quiet /\ Callers = {} /\ UNCHANGED <<index, threads>> /\ FileOK(file)
        /\ file.count = cur_element_count /\ file.label = label /\ file.marked = marked
    BY <1>2, <1>5 DEF Write, PromiseInv, SaveOK, Inv, FilesOK, index, threads
  <2>2. /\ file'.parts = file.parts + 1 /\ file'.count = file.count /\ file'.label = file.label
        /\ file'.marked = file.marked /\ file.parts \in Nat
    BY <1>5, <2>1 DEF Write, FileOK
  <2>3. file.parts # file.count + 1
    BY <1>1, <1>5, <2>1, <2>2 DEF Write, Parts, Typed
  <2>4. Saved = NoFile
    BY <2>3 DEF Saved
  <2>5. Saved' = NoFile \/ Saved' = [live |-> LiveLabels, gone |-> GoneLabels]
    <3>1. SeenAtRest
      BY <1>1, <2>1, AtRest DEF Unused
    <3>2. LiveLabels = {file'.label[i] : i \in (0 .. file'.count - 1) \ file'.marked}
          /\ GoneLabels = {file'.label[i] : i \in file'.marked}
      BY <2>1, <2>2, <3>1 DEF SeenAtRest, Ids
    <3> QED BY <3>2 DEF Saved
  <2>6. Promise!StartSave \/ Promise!Save
    BY <1>3, <2>1, <2>5 DEF Promise!StartSave, Promise!Save
  <2> QED BY <2>6 DEF Promise!Next
<1>6. CASE EndSave
  <2>1. UNCHANGED Promise!vars
    BY <1>3, <1>6 DEF EndSave, Promise!vars, Saved, index, threads
  <2> QED BY <2>1
<1>7. CASE Crash
  <2>1. LiveLabels' = {} /\ GoneLabels' = {}
    BY <1>7 DEF Crash, LiveLabels, GoneLabels
  <2>2. max_elements_' \in Nat /\ Saved' = Saved
    BY <1>7, LabelsAssumption DEF Crash, Saved
  <2>3. calls' = [t \in Threads |-> Promise!NoCall]
    BY <1>7 DEF Crash, NoCall, Promise!NoCall
  <2>4. Promise!Crash
    BY <2>1, <2>2, <2>3 DEF Promise!Crash
  <2> QED BY <2>4 DEF Promise!Next
<1>8. CASE Load
  <2>1. /\ Callers = {} /\ cur_element_count = 0 /\ file # NoFile /\ file.parts = file.count + 1
        /\ UNCHANGED <<file, saving, threads>>
    BY <1>8 DEF Load, Quiet, SizeIsRight
  <2>2. FileOK(file)
    BY <1>1, <2>1 DEF Inv, FilesOK
  <2> PICK n \in 0 .. Capacity :
        file \in [parts : Nat, count : {n}, max : n .. Capacity, label : [0 .. n - 1 -> Labels],
                  data : [0 .. n - 1 -> Labels \cup {NoLabel}], marked : SUBSET (0 .. n - 1)]
    BY <2>2 DEF FileOK
  <2>3. LiveLabels = {} /\ GoneLabels = {}
    BY <1>1, <2>1 DEF Typed, Ids, LiveLabels, GoneLabels
  <2>4. Callers' = {}
    BY <2>1 DEF Callers, Idle, threads
  <2>5. /\ LiveLabels' = {label'[i] : i \in Ids' \ marked'}
        /\ GoneLabels' = {label'[i] : i \in marked'}
    <3>1. Unused'
      BY <2>4 DEF Unused
    <3>2. SeenAtRest'
      BY <3>1, AtRest, PTL
    <3> QED BY <3>2 DEF SeenAtRest
  <2>6. /\ cur_element_count' = file.count /\ marked' = file.marked
        /\ \A i \in 0 .. file.count - 1 : label'[i] = file.label[i]
    BY <1>8, <2>1, LabelsAssumption DEF Load, Loaded, Read
  <2>7. Saved = [live |-> LiveLabels', gone |-> GoneLabels']
    <3>1. file.marked \subseteq 0 .. file.count - 1
      OBVIOUS
    <3> QED BY <2>1, <2>5, <2>6, <3>1, ZenonT(30) DEF Saved, Ids
  <2>8. LiveLabels' \subseteq Labels /\ GoneLabels' \subseteq Labels
    <3>1. Unused'
      BY <2>4 DEF Unused
    <3>2. SeenAtRest'
      BY <3>1, AtRest, PTL
    <3> QED BY <3>2 DEF SeenAtRest
  <2>9. Saved # NoFile /\ Saved' = Saved
    BY <2>1, <2>7, <2>8, LabelsAssumption DEF Saved
  <2>10. max_elements_' \in Nat /\ UNCHANGED calls
    BY <2>1, LabelsAssumption DEF Inv, Typed, threads
  <2>11. Promise!Load
    BY <1>2, <2>1, <2>3, <2>7, <2>9, <2>10 DEF Promise!Load
  <2> QED BY <2>11 DEF Promise!Next
<1>9. CASE resizeIndex
  <2>1. /\ Callers = {} /\ max_elements_' \in cur_element_count .. Capacity
        /\ UNCHANGED <<label_lookup_, marked, file, threads>>
    BY <1>9 DEF resizeIndex, Quiet
  <2>2. LiveLabels' = LiveLabels /\ GoneLabels' = GoneLabels
    BY <2>1 DEF LiveLabels, GoneLabels, Unsettled, threads, isMarkedDeleted, Op, Lab
  <2>3. Cardinality(LiveLabels \cup GoneLabels) \in Nat
        /\ Cardinality(LiveLabels \cup GoneLabels) <= cur_element_count
    <3> DEFINE seen == LiveLabels \cup GoneLabels
               g == [l \in seen |-> label_lookup_[l]]
    <3>1. seen \subseteq DOMAIN label_lookup_ /\ \A l \in seen : g[l] \in Ids
      BY <1>1, SeenFacts DEF Typed
    <3>2. g \in [seen -> Ids] /\ \A k, l \in seen : g[k] = g[l] => k = l
      BY <1>1, <3>1 DEF Inv, OneLabel
    <3> HIDE DEF g, seen
    <3>3. g \in Injection(seen, Ids)
      BY <3>2 DEF Injection, IsInjective
    <3>4. IsFiniteSet(Ids) /\ Cardinality(Ids) = cur_element_count
      BY <1>1, FS_Interval DEF Typed, Ids
    <3>5. IsFiniteSet(seen) /\ Cardinality(seen) <= Cardinality(Ids)
      BY <3>3, <3>4, FS_Injection
    <3>6. Cardinality(seen) \in Nat
      BY <3>5, FS_CardinalityType
    <3> QED BY <3>4, <3>5, <3>6 DEF seen
  <2>4. max_elements_' \in Nat /\ max_elements_' >= Cardinality(LiveLabels \cup GoneLabels)
    BY <1>1, <2>1, <2>3, LabelsAssumption DEF Typed
  <2>5. Promise!Resize
    BY <1>2, <2>1, <2>2, <2>4, SameCardinality DEF Promise!Resize, Saved, threads
  <2> QED BY <2>5 DEF Promise!Next
<1> QED BY <1>4, <1>5, <1>6, <1>7, <1>8, <1>9

\* Every step is a step of the promise, or none.
LEMMA StepMaps ==
  ASSUME PromiseInv, Inv', [Next]_vars
  PROVE  [Promise!Next]_Promise!vars
<1>1. ASSUME NEW t \in Threads, Begin(t) \/ Return(t) PROVE Promise!Call(t) \/ Promise!Return(t)
  BY <1>1, BeginReturnMaps
<1>2. ASSUME NEW t \in Threads, Find(t) \/ AddKnown(t) \/ AddRefused(t)
      PROVE  Promise!Refuse(t) \/ UNCHANGED Promise!vars
  BY <1>2, FindMaps, AddMaps
<1>3. ASSUME NEW t \in Threads, Copy(t) PROVE Promise!Read(t)
  BY <1>3, CopyMaps
<1>4. ASSUME NEW t \in Threads,
             \/ Count(t) \/ List(t) \/ Uncount(t) \/ Unlist(t) \/ Existing(t) \/ Vacancy(t)
             \/ Relabel(t) \/ Register(t)
      PROVE  UNCHANGED Promise!vars
  BY <1>4, UnseenMaps, RegisterMaps
<1>5. ASSUME NEW t \in Threads, SetMark(t) PROVE Promise!Refuse(t) \/ Promise!Delete(t)
  BY <1>5, SetMarkMaps
<1>6. ASSUME NEW t \in Threads, ClearMark(t) \/ Initialise(t)
      PROVE  Promise!Refuse(t) \/ Promise!Restore(t) \/ Promise!Put(t)
  BY <1>6, ClearMarkMaps, InitialiseMaps
<1>7. ASSUME NEW t \in Threads, Update(t) PROVE Promise!Put(t) \/ UNCHANGED Promise!vars
  BY <1>7, UpdateMaps
<1>8. ASSUME NEW t \in Threads, Retable(t) PROVE Promise!GiveUp(t)
  BY <1>8, RetableMaps
<1>9. CASE StartSave \/ Write \/ EndSave \/ Crash \/ Load \/ resizeIndex
  BY <1>9, DiskMaps
<1>10. CASE UNCHANGED vars
  BY <1>10 DEF vars, index, threads, Promise!vars, LiveLabels, GoneLabels, Unsettled, Saved,
     isMarkedDeleted, Op, Lab
<1> QED BY <1>1, <1>2, <1>3, <1>4, <1>5, <1>6, <1>7, <1>8, <1>9, <1>10 DEF Next, Promise!Next

\* An empty index promises nothing yet.
LEMMA InitMaps == Init => Promise!Init
<1> SUFFICES ASSUME Init PROVE Promise!Init
  OBVIOUS
<1>1. DOMAIN label_lookup_ = {}
  BY DEF Init
<1>2. LiveLabels = {} /\ GoneLabels = {}
  BY <1>1 DEF LiveLabels, GoneLabels
<1> QED BY <1>2, LabelsAssumption DEF Init, Promise!Init, Saved, NoCall, Promise!NoCall

\* On any number of threads each call of markDelete, unmarkDelete, addPoint and
\* getDataByLabel takes effect at once with the outcome its label calls for,
\* and a load brings back what the last finished save wrote, as long as no
\* caller passes a label that is in the index with replace_deleted
\* (hnswalg.h:1031-1165).
THEOREM LabelsImplement ==
  ASSUME ~ ReplaceKnown
  PROVE  Spec => Implements
<1>1. PromiseInv /\ [Next]_vars => PromiseInv' /\ Inv'
  BY NextPromise DEF PromiseInv
<1>2. PromiseInv /\ Inv' /\ [Next]_vars => [Promise!Next]_Promise!vars
  BY StepMaps
<1> QED BY <1>1, <1>2, InitPromise, InitMaps, PTL DEF Spec, Implements, Promise!Spec
===============================================================================
