------------------------------- MODULE LabelSpec -------------------------------
(***************************************************************************)
(* What the label operations of an index promise to callers on several     *)
(* threads: every call takes effect in one step, on its own label, with    *)
(* the outcome that the state of that label at that moment calls for, and  *)
(* a load brings back exactly what the last finished save wrote.           *)
(***************************************************************************)
EXTENDS Naturals, FiniteSets

CONSTANTS Threads, Labels, NoLabel, Operations, Torn

VARIABLES
  live,   \* labels whose point a search may return
  gone,   \* labels of elements marked deleted
  room,   \* the number of elements the index has memory for
  calls,  \* what each thread is doing, on which label, and how it went
  saved   \* what the file holds

vars == <<live, gone, room, calls, saved>>

NoCall == [op |-> "none", label |-> NoLabel, out |-> "none"]
Quiet == \A t \in Threads : calls[t] = NoCall
Busy(l) == \E t \in Threads : calls[t].label = l

\* The elements there may be: those labelled, and those others are adding
Elements(t) ==
  Cardinality(live \cup gone)
  + Cardinality({s \in Threads \ {t} : calls[s].op \in {"add", "replace"} /\ calls[s].out = "none"})

Init == live = {} /\ gone = {} /\ room \in Nat /\ calls = [t \in Threads |-> NoCall] /\ saved = Torn

Call(t) ==
  /\ calls[t] = NoCall
  /\ \E op \in Operations, l \in Labels :
       /\ ~ Busy(l)
       /\ calls' = [calls EXCEPT ![t] = [op |-> op, label |-> l, out |-> "none"]]
  /\ UNCHANGED <<live, gone, room, saved>>

Answer(t, out) ==
  /\ calls[t].op # "none" /\ calls[t].out = "none"
  /\ calls' = [calls EXCEPT ![t].out = out]

Delete(t) ==
  LET l == calls[t].label
  IN /\ calls[t].op = "mark" /\ l \in live /\ Answer(t, "ok")
     /\ live' = live \ {l} /\ gone' = gone \cup {l}
     /\ UNCHANGED <<room, saved>>

Restore(t) ==
  LET l == calls[t].label
  IN /\ calls[t].op = "unmark" /\ l \in gone /\ Answer(t, "ok")
     /\ live' = live \cup {l} /\ gone' = gone \ {l}
     /\ UNCHANGED <<room, saved>>

Put(t) ==
  LET l == calls[t].label
  IN /\ calls[t].op \in {"add", "replace"} /\ Answer(t, "ok")
     /\ live' = live \cup {l} /\ gone' = gone \ {l}
     /\ UNCHANGED <<room, saved>>

\* A replacement makes room by giving up a deleted label.
GiveUp(t) ==
  /\ calls[t].op = "replace" /\ calls[t].out = "none"
  /\ \E l \in gone : gone' = gone \ {l}
  /\ UNCHANGED <<live, room, calls, saved>>

Read(t) ==
  /\ calls[t].op = "get" /\ calls[t].label \in live /\ Answer(t, "ok")
  /\ UNCHANGED <<live, gone, room, saved>>

\* A call is refused only for the reason its comment gives.
Refuse(t) ==
  LET l == calls[t].label
  IN /\ Answer(t, "refused")
     /\ CASE calls[t].op \in {"mark", "get"} -> l \notin live
          [] calls[t].op = "unmark" -> l \notin gone
          [] OTHER -> l \in gone \/ (l \notin live /\ Elements(t) >= room)
     /\ UNCHANGED <<live, gone, room, saved>>

Return(t) ==
  /\ calls[t].out # "none"
  /\ calls' = [calls EXCEPT ![t] = NoCall]
  /\ UNCHANGED <<live, gone, room, saved>>

\* A save first destroys the file it replaces.
StartSave == Quiet /\ saved' = Torn /\ UNCHANGED <<live, gone, room, calls>>
Save == Quiet /\ saved' = [live |-> live, gone |-> gone] /\ UNCHANGED <<live, gone, room, calls>>

Crash ==
  /\ live' = {} /\ gone' = {} /\ room' \in Nat
  /\ calls' = [t \in Threads |-> NoCall]
  /\ UNCHANGED saved

Load ==
  /\ Quiet /\ live = {} /\ gone = {} /\ saved # Torn
  /\ live' = saved.live /\ gone' = saved.gone /\ room' \in Nat
  /\ UNCHANGED <<calls, saved>>

Resize == Quiet /\ room' \in Nat /\ room' >= Cardinality(live \cup gone) /\ UNCHANGED <<live, gone, calls, saved>>

Next ==
  \/ \E t \in Threads : \/ Call(t) \/ Delete(t) \/ Restore(t) \/ Put(t) \/ GiveUp(t)
                        \/ Read(t) \/ Refuse(t) \/ Return(t)
  \/ StartSave \/ Save \/ Crash \/ Load \/ Resize

Spec == Init /\ [][Next]_vars
===============================================================================
