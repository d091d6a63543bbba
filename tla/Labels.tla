-------------------------------- MODULE Labels --------------------------------
(***************************************************************************)
(* The labels of an index under concurrent markDelete, unmarkDelete,       *)
(* addPoint (with and without replace_deleted) and getDataByLabel, and     *)
(* across saveIndex, a crash, loadIndex and resizeIndex (hnswalg.h).       *)
(*                                                                         *)
(* Every call holds the mutex its label hashes to until it returns; the    *)
(* lookup table and the set of deleted elements have a mutex each, held    *)
(* for one step.  The mark, the counter and the set of deleted elements    *)
(* change in steps of their own.  Links are not in this module.            *)
(*                                                                         *)
(* Callers keep to the comments of hnswalg.h: with replacement allowed     *)
(* nobody unmarks (1060), nobody marks an element that may be being        *)
(* replaced (1142), and, unless ReplaceKnown, only a label that is not in  *)
(* the index replaces.  Saving, loading and resizing run alone.            *)
(***************************************************************************)
EXTENDS Naturals, FiniteSets

CONSTANTS
  Threads,
  Labels,        \* subset of Nat
  Locks,         \* MAX_LABEL_OPERATION_LOCKS
  Capacity,      \* bound on max_elements_
  CallsAfterSave,\* bound on the calls at a time once there is a file
  ReplaceKnown,  \* whether callers pass known labels with replace_deleted
  Dim,           \* the number of coordinates of a point
  Magic,         \* HNSW_DIST_MAGIC
  NoLabel, NoFile

ASSUME LabelsAssumption ==
  /\ IsFiniteSet(Threads)
  /\ Labels \subseteq Nat /\ NoLabel \notin Labels
  /\ Locks \in Nat \ {0} /\ Capacity \in Nat /\ CallsAfterSave \in Nat
  /\ ReplaceKnown \in BOOLEAN /\ Dim \in Nat /\ Magic \in Nat
  /\ NoFile \notin [live : SUBSET Labels, gone : SUBSET Labels]

VARIABLES
  cur_element_count, max_elements_, allow_replace_deleted_,
  label_lookup_, num_deleted_, deleted_elements,
  marked,        \* ids whose DELETE_MARK is set
  label, data,   \* of each id; a point is named by the label it was added under
  file,          \* what is on disk
  saving,        \* whether saveIndex is running
  calls,         \* thread -> operation, label, outcome
  pc, id, old,   \* of each thread: its place, its element, the label replaced
  copied         \* and how many coordinates it copied

index == <<cur_element_count, max_elements_, allow_replace_deleted_, label_lookup_,
           num_deleted_, deleted_elements, marked, label, data>>
threads == <<calls, pc, id, old, copied>>
vars == <<index, file, saving, threads>>

Ids == 0 .. cur_element_count - 1
Operations == {"mark", "unmark", "add", "replace", "get"}
NoCall == [op |-> "none", label |-> NoLabel, out |-> "none"]
Idle(t) == calls[t] = NoCall
Callers == {t \in Threads : ~ Idle(t)}
Quiet == ~ saving /\ Callers = {}
Known(l) == l \in DOMAIN label_lookup_
isMarkedDeleted(i) == i \in marked
Deleted(l) == Known(l) /\ isMarkedDeleted(label_lookup_[l])
Op(t) == calls[t].op
Lab(t) == calls[t].label

\* Thread t goes on at step s, having found element i, with outcome o
Goto(t, s) == pc' = [pc EXCEPT ![t] = s]
Take(t, i) == id' = [id EXCEPT ![t] = i]
Outcome(t, o) == calls' = [calls EXCEPT ![t].out = o]
Refuse(t) == Goto(t, "return") /\ Outcome(t, "refused") /\ UNCHANGED <<id, old, copied>>

Init ==
  /\ cur_element_count = 0 /\ max_elements_ \in 0 .. Capacity /\ allow_replace_deleted_ \in BOOLEAN
  /\ label_lookup_ = <<>> /\ num_deleted_ = 0 /\ deleted_elements = {}
  /\ marked = {} /\ label = <<>> /\ data = <<>>
  /\ file = NoFile /\ saving = FALSE
  /\ calls = [t \in Threads |-> NoCall]
  /\ pc = [t \in Threads |-> "idle"] /\ id = [t \in Threads |-> 0] /\ old = [t \in Threads |-> NoLabel]
  /\ copied = [t \in Threads |-> 0]
-------------------------------------------------------------------------------
getLabelOpMutex(l) == l % Locks

\* What the comments ask of callers
Permitted(op, l) ==
  /\ op = "unmark" => ~ allow_replace_deleted_
  /\ op = "mark" /\ allow_replace_deleted_ => ~ Deleted(l)
  /\ op = "replace" => allow_replace_deleted_ /\ (ReplaceKnown \/ ~ Known(l))

Free(l) == \A s \in Callers : getLabelOpMutex(Lab(s)) # getLabelOpMutex(l)

\* A call takes the mutex of its label.
Begin(t) ==
  /\ Idle(t) /\ ~ saving
  /\ file # NoFile => Cardinality(Callers) < CallsAfterSave
  /\ \E op \in Operations, l \in Labels :
       /\ Permitted(op, l)
       /\ Free(l)
       /\ calls' = [calls EXCEPT ![t] = [op |-> op, label |-> l, out |-> "none"]]
       /\ Goto(t, CASE op = "add" -> "add" [] op = "replace" -> "vacancy" [] OTHER -> "find")
  /\ UNCHANGED <<index, file, saving, id, old, copied>>

Return(t) ==
  /\ pc[t] = "return"
  /\ calls' = [calls EXCEPT ![t] = NoCall] /\ Goto(t, "idle")
  /\ id' = [id EXCEPT ![t] = 0] /\ old' = [old EXCEPT ![t] = NoLabel]
  /\ copied' = [copied EXCEPT ![t] = 0]
  /\ UNCHANGED <<index, file, saving>>

Findable(op, l) == Known(l) /\ (op = "get" => ~ Deleted(l))

\* markDelete, unmarkDelete and getDataByLabel look the label up.
Find(t) ==
  /\ pc[t] = "find"
  /\ \/ ~ Findable(Op(t), Lab(t)) /\ Refuse(t)
     \/ /\ Findable(Op(t), Lab(t))
        /\ Take(t, label_lookup_[Lab(t)])
        /\ Goto(t, IF Op(t) = "get" THEN "copy" ELSE Op(t))
        /\ UNCHANGED <<calls, old, copied>>
  /\ UNCHANGED <<index, file, saving>>

\* getDataByLabel takes the first word dist_func_param_ points to for the
\* number of coordinates; since install_dist_wrapper_ that is count_param_.
dim == Magic

\* It copies from where the point is: the right one, or not.
Copy(t) ==
  /\ pc[t] = "copy"
  /\ Outcome(t, IF data[id[t]] = Lab(t) THEN "ok" ELSE "wrong") /\ Goto(t, "return")
  /\ copied' = [copied EXCEPT ![t] = dim]
  /\ UNCHANGED <<index, file, saving, id, old>>
-------------------------------------------------------------------------------
\* markDeletedInternal: the mark, then the counter, then the set

SetMark(t) ==
  /\ pc[t] = "mark"
  /\ \/ /\ isMarkedDeleted(id[t]) /\ Refuse(t) /\ UNCHANGED marked
     \/ /\ ~ isMarkedDeleted(id[t])
        /\ marked' = marked \cup {id[t]}
        /\ Outcome(t, "ok") /\ Goto(t, "count") /\ UNCHANGED <<id, old, copied>>
  /\ UNCHANGED <<cur_element_count, max_elements_, allow_replace_deleted_, label_lookup_,
                 num_deleted_, deleted_elements, label, data, file, saving>>

Count(t) ==
  /\ pc[t] = "count"
  /\ num_deleted_' = num_deleted_ + 1
  /\ Goto(t, IF allow_replace_deleted_ THEN "list" ELSE "return")
  /\ UNCHANGED <<cur_element_count, max_elements_, allow_replace_deleted_, label_lookup_,
                 deleted_elements, marked, label, data, file, saving, calls, id, old, copied>>

List(t) ==
  /\ pc[t] = "list"
  /\ deleted_elements' = deleted_elements \cup {id[t]} /\ Goto(t, "return")
  /\ UNCHANGED <<cur_element_count, max_elements_, allow_replace_deleted_, label_lookup_,
                 num_deleted_, marked, label, data, file, saving, calls, id, old, copied>>

\* unmarkDeletedInternal, called by unmarkDelete and by both ways to add

AfterUnmark(t) == IF Op(t) = "unmark" THEN "return" ELSE "update"

ClearMark(t) ==
  /\ pc[t] = "unmark"
  /\ \/ /\ ~ isMarkedDeleted(id[t]) /\ Refuse(t) /\ UNCHANGED marked
     \/ /\ isMarkedDeleted(id[t])
        /\ marked' = marked \ {id[t]}
        /\ Outcome(t, "ok") /\ Goto(t, "uncount") /\ UNCHANGED <<id, old, copied>>
  /\ UNCHANGED <<cur_element_count, max_elements_, allow_replace_deleted_, label_lookup_,
                 num_deleted_, deleted_elements, label, data, file, saving>>

Uncount(t) ==
  /\ pc[t] = "uncount"
  /\ num_deleted_' = num_deleted_ - 1
  /\ Goto(t, IF allow_replace_deleted_ THEN "unlist" ELSE AfterUnmark(t))
  /\ UNCHANGED <<cur_element_count, max_elements_, allow_replace_deleted_, label_lookup_,
                 deleted_elements, marked, label, data, file, saving, calls, id, old, copied>>

Unlist(t) ==
  /\ pc[t] = "unlist"
  /\ deleted_elements' = deleted_elements \ {id[t]} /\ Goto(t, AfterUnmark(t))
  /\ UNCHANGED <<cur_element_count, max_elements_, allow_replace_deleted_, label_lookup_,
                 num_deleted_, marked, label, data, file, saving, calls, id, old, copied>>

\* updatePoint writes the new point; its effect on the links is not in this module.
Update(t) ==
  /\ pc[t] = "update"
  /\ data' = [data EXCEPT ![id[t]] = Lab(t)]
  /\ Outcome(t, "ok") /\ Goto(t, "return")
  /\ UNCHANGED <<cur_element_count, max_elements_, allow_replace_deleted_, label_lookup_,
                 num_deleted_, deleted_elements, marked, label, file, saving, id, old, copied>>
-------------------------------------------------------------------------------
\* addPoint(data, label, -1)

Full == cur_element_count >= max_elements_

\* The label has an element: it is updated, unless it may be about to be replaced.
AddKnown(t) ==
  /\ pc[t] = "add" /\ Known(Lab(t))
  /\ \/ allow_replace_deleted_ /\ Deleted(Lab(t)) /\ Refuse(t)
     \/ /\ ~ (allow_replace_deleted_ /\ Deleted(Lab(t)))
        /\ Take(t, label_lookup_[Lab(t)]) /\ Goto(t, "existing") /\ UNCHANGED <<calls, old, copied>>
  /\ UNCHANGED <<index, file, saving>>

Existing(t) ==
  /\ pc[t] = "existing"
  /\ Goto(t, IF isMarkedDeleted(id[t]) THEN "unmark" ELSE "update")
  /\ UNCHANGED <<index, file, saving, calls, id, old, copied>>

AddRefused(t) ==
  /\ pc[t] = "add" /\ ~ Known(Lab(t)) /\ Full
  /\ Refuse(t)
  /\ UNCHANGED <<index, file, saving>>

\* The slot registered was never written: its mark is whatever malloc returned.
Register(t) ==
  /\ pc[t] = "add" /\ ~ Known(Lab(t)) /\ ~ Full
  /\ cur_element_count' = cur_element_count + 1
  /\ label_lookup_' = [l \in DOMAIN label_lookup_ \cup {Lab(t)} |->
                         IF l = Lab(t) THEN cur_element_count ELSE label_lookup_[l]]
  /\ label' = [i \in 0 .. cur_element_count |-> IF i = cur_element_count THEN NoLabel ELSE label[i]]
  /\ data' = [i \in 0 .. cur_element_count |-> IF i = cur_element_count THEN NoLabel ELSE data[i]]
  /\ marked' \in {marked, marked \cup {cur_element_count}}
  /\ Take(t, cur_element_count) /\ Goto(t, "init")
  /\ UNCHANGED <<max_elements_, allow_replace_deleted_, num_deleted_, deleted_elements,
                 file, saving, calls, old, copied>>

\* Mutant: the slot is not cleared
NotCleared(i) == marked

\* memset of the slot
Cleared(i) == marked \ {i}

Initialise(t) ==
  /\ pc[t] = "init"
  /\ marked' = Cleared(id[t])
  /\ label' = [label EXCEPT ![id[t]] = Lab(t)]
  /\ data' = [data EXCEPT ![id[t]] = Lab(t)]
  /\ Outcome(t, "ok") /\ Goto(t, "return")
  /\ UNCHANGED <<cur_element_count, max_elements_, allow_replace_deleted_, label_lookup_,
                 num_deleted_, deleted_elements, file, saving, id, old, copied>>
-------------------------------------------------------------------------------
\* addPoint(data, label, true)

\* Any vacant place will do: the set is unordered.
Vacancy(t) ==
  /\ pc[t] = "vacancy"
  /\ \/ /\ deleted_elements = {} /\ Goto(t, "add")
        /\ UNCHANGED <<deleted_elements, id>>
     \/ \E i \in deleted_elements :
          /\ deleted_elements' = deleted_elements \ {i}
          /\ Take(t, i) /\ Goto(t, "relabel")
  /\ UNCHANGED <<cur_element_count, max_elements_, allow_replace_deleted_, label_lookup_,
                 num_deleted_, marked, label, data, file, saving, calls, old, copied>>

Relabel(t) ==
  /\ pc[t] = "relabel"
  /\ old' = [old EXCEPT ![t] = label[id[t]]]
  /\ label' = [label EXCEPT ![id[t]] = Lab(t)]
  /\ Goto(t, "table")
  /\ UNCHANGED <<cur_element_count, max_elements_, allow_replace_deleted_, label_lookup_,
                 num_deleted_, deleted_elements, marked, data, file, saving, calls, id, copied>>

\* Mutant: the label replaced stays in the table
KeptLookup(gone, l, i) ==
  [k \in DOMAIN label_lookup_ \cup {l} |-> IF k = l THEN i ELSE label_lookup_[k]]

\* The table without the label replaced, and with the new one
ReplacedLookup(gone, l, i) ==
  [k \in (DOMAIN label_lookup_ \ {gone}) \cup {l} |-> IF k = l THEN i ELSE label_lookup_[k]]

Retable(t) ==
  /\ pc[t] = "table"
  /\ label_lookup_' = ReplacedLookup(old[t], Lab(t), id[t])
  /\ Goto(t, "unmark")
  /\ UNCHANGED <<cur_element_count, max_elements_, allow_replace_deleted_, num_deleted_,
                 deleted_elements, marked, label, data, file, saving, calls, id, old, copied>>
-------------------------------------------------------------------------------
\* saveIndex destroys the file of that name, then writes the header, the
\* elements and the upper lists.
StartSave ==
  /\ Quiet
  /\ file' = [parts |-> 0, count |-> cur_element_count, max |-> max_elements_,
              label |-> label, data |-> data, marked |-> marked]
  /\ saving' = TRUE
  /\ UNCHANGED <<index, threads>>

Parts == cur_element_count + 1

Write ==
  /\ saving /\ file.parts < Parts
  /\ file' = [file EXCEPT !.parts = @ + 1]
  /\ UNCHANGED <<index, saving, threads>>

EndSave ==
  /\ saving /\ file.parts = Parts
  /\ saving' = FALSE
  /\ UNCHANGED <<index, file, threads>>

\* The process ends; another one starts with an empty index.
Crash ==
  /\ cur_element_count' = 0 /\ max_elements_' \in 0 .. Capacity /\ allow_replace_deleted_' \in BOOLEAN
  /\ label_lookup_' = <<>> /\ num_deleted_' = 0 /\ deleted_elements' = {}
  /\ marked' = {} /\ label' = <<>> /\ data' = <<>>
  /\ saving' = FALSE
  /\ calls' = [t \in Threads |-> NoCall]
  /\ pc' = [t \in Threads |-> "idle"]
  /\ id' = [t \in Threads |-> 0] /\ old' = [t \in Threads |-> NoLabel]
  /\ copied' = [t \in Threads |-> 0]
  /\ UNCHANGED file

\* Mutant: the size of the file is not checked
AnySize(f) == TRUE

\* loadIndex compares the size of the file with what its header calls for.
SizeIsRight(f) == f.parts = f.count + 1

\* What loadIndex makes of a file it accepts; what is missing reads as garbage
Read(f, i, field) == IF i < f.parts THEN field[i] ELSE NoLabel
\* The last element of each label
LastOf(f) ==
  [l \in {f[i] : i \in DOMAIN f} |->
     CHOOSE i \in DOMAIN f : f[i] = l /\ \A j \in DOMAIN f : f[j] = l => j <= i]
Loaded(f, m, allow) ==
  /\ cur_element_count' = f.count
  /\ max_elements_' = IF m < f.count THEN f.max ELSE m
  /\ allow_replace_deleted_' = allow
  /\ label' = [i \in 0 .. f.count - 1 |-> Read(f, i, f.label)]
  /\ data' = [i \in 0 .. f.count - 1 |-> Read(f, i, f.data)]
  /\ label_lookup_' = LastOf(label')
  /\ marked' = f.marked
  /\ num_deleted_' = Cardinality(f.marked)
  /\ deleted_elements' = IF allow THEN f.marked ELSE {}

\* An index is loaded into a new object.
Load ==
  /\ Quiet /\ cur_element_count = 0
  /\ file # NoFile /\ SizeIsRight(file)
  /\ \E m \in 0 .. Capacity, allow \in BOOLEAN : Loaded(file, m, allow)
  /\ UNCHANGED <<file, saving, threads>>

\* resizeIndex keeps the elements and refuses to cut any off.
resizeIndex ==
  /\ Quiet
  /\ max_elements_' \in cur_element_count .. Capacity
  /\ UNCHANGED <<cur_element_count, allow_replace_deleted_, label_lookup_, num_deleted_,
                 deleted_elements, marked, label, data, file, saving, threads>>

Next ==
  \/ \E t \in Threads :
       \/ Begin(t) \/ Return(t) \/ Find(t) \/ Copy(t)
       \/ SetMark(t) \/ Count(t) \/ List(t)
       \/ ClearMark(t) \/ Uncount(t) \/ Unlist(t) \/ Update(t)
       \/ AddKnown(t) \/ Existing(t) \/ AddRefused(t) \/ Register(t) \/ Initialise(t)
       \/ Vacancy(t) \/ Relabel(t) \/ Retable(t)
  \/ StartSave \/ Write \/ EndSave \/ Crash \/ Load \/ resizeIndex

Spec == Init /\ [][Next]_vars
-------------------------------------------------------------------------------
TypeOK ==
  /\ max_elements_ \in 0 .. Capacity /\ cur_element_count \in 0 .. max_elements_
  /\ allow_replace_deleted_ \in BOOLEAN /\ saving \in BOOLEAN
  /\ DOMAIN label_lookup_ \subseteq Labels /\ \A l \in DOMAIN label_lookup_ : label_lookup_[l] \in Ids
  /\ num_deleted_ \in 0 .. Capacity
  /\ deleted_elements \subseteq Ids /\ marked \subseteq Ids
  /\ label \in [Ids -> Labels \cup {NoLabel}] /\ data \in [Ids -> Labels \cup {NoLabel}]
  /\ pc \in [Threads -> {"idle", "find", "copy", "mark", "count", "list", "unmark", "uncount",
                         "unlist", "update", "add", "existing", "init", "vacancy", "relabel",
                         "table", "return"}]
  /\ copied \in [Threads -> Nat]
  /\ id \in [Threads -> 0 .. Capacity] /\ old \in [Threads -> Labels \cup {NoLabel}]

At(places) == {t \in Threads : pc[t] \in places}
HeldAt(places) == {id[t] : t \in At(places)}

(* The number of deleted elements that searches test, the marks they skip,
   and the places replacement hands out agree at every moment, up to the
   steps that calls are in the middle of: num_deleted_ neither drifts nor
   goes below zero, and no place is handed out twice or lost.             *)
CountersAgree ==
  /\ num_deleted_ + Cardinality(At({"count"}))
       = Cardinality(marked \ HeldAt({"init"})) + Cardinality(At({"uncount"}))
  /\ deleted_elements = IF allow_replace_deleted_
                        THEN marked \ HeldAt({"init", "count", "list", "relabel", "table", "unmark"})
                        ELSE {}

(* The table and the labels of the elements are inverse to each other,
   but for the element a call is adding or relabelling: every element can
   be reached by its label, no label has two, and none leads astray.      *)
LabelsAgree ==
  LET settled == Ids \ HeldAt({"init", "relabel", "table"})
  IN /\ \A i \in settled : Known(label[i]) /\ label_lookup_[label[i]] = i
     /\ \A l \in DOMAIN label_lookup_ : label_lookup_[l] \in settled => label[label_lookup_[l]] = l

\* What a reader of the promise sees
Unsettled(l) ==
  \E t \in Threads : /\ pc[t] = "init" \/ (pc[t] = "unmark" /\ Op(t) = "replace")
                     /\ Lab(t) = l
LiveLabels == {l \in DOMAIN label_lookup_ : ~ isMarkedDeleted(label_lookup_[l]) /\ ~ Unsettled(l)}
GoneLabels == {l \in DOMAIN label_lookup_ : isMarkedDeleted(label_lookup_[l]) /\ ~ Unsettled(l)}
Saved ==
  IF file = NoFile THEN NoFile
  ELSE IF file.parts # file.count + 1 THEN NoFile
  ELSE LET labels(S) == {file.label[i] : i \in S}
       IN [live |-> labels((0 .. file.count - 1) \ file.marked), gone |-> labels(file.marked)]

Promise == INSTANCE LabelSpec WITH
  live <- LiveLabels, gone <- GoneLabels, room <- max_elements_, saved <- Saved, Torn <- NoFile

(* Callers on any number of threads see each call take effect at once, on
   its own label and with the outcome that label calls for; nothing that a
   save wrote is lost or invented by a crash and a load.                  *)
Implements == Promise!Spec

(* getDataByLabel returns the coordinates of the point, and no more. *)
PointCopied == \A t \in Threads : copied[t] \in {0, Dim}
===============================================================================
