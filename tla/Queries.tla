-------------------------------- MODULE Queries --------------------------------
(***************************************************************************)
(* Concurrent queries of an index nobody changes: searchKnn with and       *)
(* without a filter, and searchStopConditionClosest with either stop       *)
(* condition (stop_condition.h), step by step through searchBaseLayerST.   *)
(* What a search has visited it notes in a list of tags that it takes from *)
(* the index's pool and returns at the end (visited_list_pool.h); a tag    *)
(* takes one of TagCount values, 2^16 in the code.                         *)
(*                                                                         *)
(* Elements may be equally far from what is asked for.  CompareByFirst then *)
(* says nothing of their order on a heap, and any of them may come first;  *)
(* the pairs of a stop condition are ordered by document, too.             *)
(*                                                                         *)
(* The descent to level 0 reads only and is part of Ask; of two elements   *)
(* equally far it goes to the one with the higher id.  A query of an empty *)
(* index returns at once and is left out.                                  *)
(***************************************************************************)
EXTENDS HNSWAlgorithms, Sequences

CONSTANTS
  Threads,
  Queried,       \* the indexes queried
  Questions(_, _),  \* what a thread asks of an index: records [vector, k, allowed, stop]
  NoFilter,      \* `allowed' of a question without isIdAllowed
  Label(_),      \* getExternalLabel
  Document(_),   \* get_doc_id of an element's vector
  ef_,
  TagCount,
  Garbage,       \* what new memory may hold, as a tag
  FarAway,       \* numeric_limits<dist_t>::max()
  SizeMax,       \* numeric_limits<size_t>::max()
  M              \* of the indexes

Tags == 0 .. TagCount - 1

ASSUME QueriesAssumption ==
  /\ TagCount \in Nat /\ TagCount >= 2
  /\ Garbage \subseteq Tags /\ Garbage # {}
  /\ ef_ \in Nat /\ FarAway \in Nat /\ SizeMax \in Nat \ {0}
  /\ \A i \in Queried : WellFormed(i, M) /\ i.num_deleted_ \in Nat
  /\ \A i \in Queried : \A n \in Ids(i) : Document(n) \in 0 .. SizeMax

\* A search is for at least one element, and so are the conditions; the
\* constructors assert min <= max, and raise ef_collection to
\* num_docs_to_search.
IsQuestion(a) ==
  LET s == a.stop
  IN /\ a.vector \in Int /\ a.k \in Nat
     /\ \/ s.kind = "none" /\ a.k >= 1
        \/ /\ s.kind = "epsilon" /\ s.epsilon \in Int /\ s.min \in Nat /\ s.max \in Nat \ {0}
           /\ s.min <= s.max
        \/ /\ s.kind = "documents" /\ s.num_docs_to_search \in Nat
           /\ s.ef_collection \in Nat \ {0} /\ s.num_docs_to_search <= s.ef_collection

ASSUME QuestionsAssumption ==
  \A i \in Queried, t \in Threads : \A a \in Questions(i, t) :
    IsQuestion(a) /\ \A n \in Ids(i) : Dist(a.vector, i.data[n]) <= FarAway

VARIABLES
  ix,
  pool,   \* the lists nobody uses, the one to take next first
  mass,   \* per list: the tag of every element
  curV,   \* per list
  my      \* per thread: the locals of its query

vars == <<ix, pool, mass, curV, my>>

\* A thread that has not asked yet
NoQuestion == [stop |-> [kind |-> "no question"]]

\* The counters of a stop condition.  EpsilonSearchStopCondition has
\* curr_num_items_, MultiVectorSearchStopCondition the rest.  search_results_
\* is a heap of pairs (distance, document); the model notes the element each
\* was made of.
NewCondition ==
  [curr_num_items_ |-> 0, curr_num_docs_ |-> 0,
   doc_counter_ |-> [d \in {Document(n) : n \in Ids(ix)} |-> 0],
   search_results_ |-> {}]

Idle ==
  [pc |-> "idle", ask |-> NoQuestion, at |-> NoEntry, vl |-> 0, tag |-> 0,
   lowerBound |-> FarAway, candidate_set |-> {}, top |-> {}, todo |-> {},
   condition |-> NewCondition, answer |-> {}]

\* VisitedListPool(1, max_elements)
Init ==
  /\ ix \in Queried
  /\ \E g \in Garbage : mass = <<[n \in Ids(ix) |-> g]>>
  /\ curV = <<TagCount - 1>>
  /\ pool = <<1>>
  /\ my = [t \in Threads |-> Idle]

-------------------------------------------------------------------------------
(* Of the query q = my[t] *)

Distance(q, n) == Dist(q.ask.vector, ix.data[n])
Kind(q) == q.ask.stop.kind

\* No deletions counted, no filter; never with a stop condition.  Merged
\* indexes have deletion marks that num_deleted_ does not count.
BareBone(q) == ix.num_deleted_ = 0 /\ q.ask.allowed = NoFilter /\ Kind(q) = "none"

Hidden(q) ==
  IF BareBone(q) THEN {}
  ELSE ix.deleted \cup (IF q.ask.allowed = NoFilter THEN {} ELSE Ids(ix) \ q.ask.allowed)

ef(q) == IF ef_ > q.ask.k THEN ef_ ELSE q.ask.k

\* The distance of top_candidates.top() is that of
Farthest(q) == CHOOSE n \in q.top : \A m \in q.top : ~ Closer(ix.data, q.ask.vector, n, m)

\* but any element as far may be on top.
Last(q) == {n \in q.top : \A m \in q.top : Distance(q, m) <= Distance(q, n)}

add_point_to_result(q, n) ==
  LET d == Document(n)
      c == q.condition
  IN [q EXCEPT !.condition =
       [curr_num_items_ |-> c.curr_num_items_ + 1,
        curr_num_docs_ |-> c.curr_num_docs_ + (IF c.doc_counter_[d] = 0 THEN 1 ELSE 0),
        doc_counter_ |-> [c.doc_counter_ EXCEPT ![d] = @ + 1],
        search_results_ |-> c.search_results_ \cup {n}]]

\* The top of search_results_: the farthest pair, and of pairs as far that of
\* the highest document.  Equal pairs make no difference.
HeapTop(q) ==
  CHOOSE n \in q.condition.search_results_ : \A m \in q.condition.search_results_ :
    \/ Distance(q, m) < Distance(q, n)
    \/ Distance(q, m) = Distance(q, n) /\ Document(m) <= Document(n)

\* A size_t less one
OneLess(size) == IF size = 0 THEN SizeMax ELSE size - 1

\* Mutant: the document of a removed element stays counted
remove_keeping_document(q, d) ==
  LET c == q.condition
  IN [q EXCEPT !.condition =
       [curr_num_items_ |-> c.curr_num_items_ - 1,
        curr_num_docs_ |-> c.curr_num_docs_,
        doc_counter_ |-> [c.doc_counter_ EXCEPT ![d] = OneLess(@)],
        search_results_ |-> c.search_results_ \ {HeapTop(q)}]]

\* An element of document d leaves: the counts drop, and the condition's own
\* heap loses its top, whatever that is.
remove_point_from_result(q, d) ==
  LET c == q.condition
  IN [q EXCEPT !.condition =
       [curr_num_items_ |-> c.curr_num_items_ - 1,
        curr_num_docs_ |-> c.curr_num_docs_ - (IF OneLess(c.doc_counter_[d]) = 0 THEN 1 ELSE 0),
        doc_counter_ |-> [c.doc_counter_ EXCEPT ![d] = OneLess(@)],
        search_results_ |-> c.search_results_ \ {HeapTop(q)}]]

\* should_stop_search, of a candidate at distance d
ShouldStop(q, d) ==
  LET s == q.ask.stop
      beyond == d > q.lowerBound
  IN \/ Kind(q) = "none" /\ beyond /\ (BareBone(q) \/ Cardinality(q.top) = ef(q))
     \/ /\ Kind(q) = "epsilon"
        /\ \/ beyond /\ q.condition.curr_num_items_ = s.max
           \/ d > s.epsilon /\ q.condition.curr_num_items_ >= s.min
     \/ Kind(q) = "documents" /\ beyond /\ q.condition.curr_num_docs_ = s.ef_collection

\* Mutant: a result that is not full is not filled up by farther elements
ConsideredIfCloser(q, n) == q.lowerBound > Distance(q, n)

\* should_consider_candidate
Considered(q, n) ==
  LET s == q.ask.stop
  IN \/ q.lowerBound > Distance(q, n)
     \/ Kind(q) = "none" /\ Cardinality(q.top) < ef(q)
     \/ Kind(q) = "epsilon" /\ q.condition.curr_num_items_ < s.max
     \/ Kind(q) = "documents" /\ q.condition.curr_num_docs_ < s.ef_collection

\* should_remove_extra
TooMany(q) ==
  LET s == q.ask.stop
  IN \/ Kind(q) = "none" /\ Cardinality(q.top) > ef(q)
     \/ Kind(q) = "epsilon" /\ q.condition.curr_num_items_ > s.max
     \/ Kind(q) = "documents" /\ q.condition.curr_num_docs_ > s.ef_collection

\* lowerBound follows top_candidates once these are not too many, unless there
\* are none.
Bounded(q) ==
  [q EXCEPT !.lowerBound = IF q.top = {} \/ TooMany(q) THEN @ ELSE Distance(q, Farthest(q))]

\* A search starts from an element that is a result itself, or counts as far
\* away.
Begun(q, tag) ==
  LET begun == [q EXCEPT !.pc = "search", !.tag = tag]
  IN IF q.at \in Hidden(q) THEN [begun EXCEPT !.candidate_set = {<<FarAway, q.at>>}]
     ELSE Bounded([add_point_to_result(begun, q.at) EXCEPT
                     !.candidate_set = {<<Distance(q, q.at), q.at>>}, !.top = {q.at}])

\* A marked neighbour is passed over,
Passed(q, n) == [q EXCEPT !.todo = @ \ {n}]

\* another one is a candidate if it is considered, and a result if it is not
\* hidden.
Looked(q, n) ==
  LET met == [Passed(q, n) EXCEPT !.candidate_set = @ \cup {<<Distance(q, n), n>>}]
  IN IF ~ Considered(q, n) THEN Passed(q, n)
     ELSE Bounded(IF n \in Hidden(q) THEN met
                  ELSE [add_point_to_result(met, n) EXCEPT !.top = @ \cup {n}])

\* The result n goes; the condition is told that document d loses one.
Without(q, n, d) == [remove_point_from_result(q, d) EXCEPT !.top = @ \ {n}]

-------------------------------------------------------------------------------

Ask(t) ==
  /\ my[t].pc = "idle"
  /\ \E a \in Questions(ix, t) :
       my' = [my EXCEPT ![t] =
                [Idle EXCEPT !.pc = "take", !.ask = a,
                             !.at = DescendFrom(ix, a.vector, ix.enterpoint_node_,
                                                ix.maxlevel_, 0)]]
  /\ UNCHANGED <<ix, pool, mass, curV>>

\* Mutant: the list stays on the pool
TakeAndLeave(t) ==
  LET q == my[t]
  IN /\ q.pc = "take" /\ pool # <<>>
     /\ my' = [my EXCEPT ![t] = [q EXCEPT !.pc = "begin", !.vl = Head(pool)]]
     /\ UNCHANGED <<ix, pool, mass, curV>>

\* getFreeVisitedList under poolguard: the first list of the pool, or a new
\* one whose memory holds anything
TakeList(t) ==
  LET q == my[t]
      new == Len(mass) + 1
  IN /\ q.pc = "take"
     /\ \/ /\ pool # <<>>
           /\ my' = [my EXCEPT ![t] = [q EXCEPT !.pc = "begin", !.vl = Head(pool)]]
           /\ pool' = Tail(pool)
           /\ UNCHANGED <<mass, curV>>
        \/ /\ pool = <<>>
           /\ my' = [my EXCEPT ![t] = [q EXCEPT !.pc = "begin", !.vl = new]]
           /\ \E g \in Garbage : mass' = Append(mass, [n \in Ids(ix) |-> g])
           /\ curV' = Append(curV, TagCount - 1)
           /\ UNCHANGED pool
     /\ UNCHANGED ix

\* Mutant: the tags are not cleared when the counter wraps
resetNotClearing(v) ==
  LET next == (curV[v] + 1) % TagCount
  IN [tag |-> IF next = 0 THEN 1 ELSE next, marks |-> mass[v]]

\* reset: the next tag; after the last one the list is cleared and tag 0,
\* which now stands for "not visited", is skipped.
reset(v) ==
  LET next == (curV[v] + 1) % TagCount
  IN IF next = 0 THEN [tag |-> 1, marks |-> [n \in Ids(ix) |-> 0]]
     ELSE [tag |-> next, marks |-> mass[v]]

\* The list is reset by the thread that took it, without a lock.
Begin(t) ==
  LET q == my[t]
      r == reset(q.vl)
  IN /\ q.pc = "begin"
     /\ curV' = [curV EXCEPT ![q.vl] = r.tag]
     /\ mass' = [mass EXCEPT ![q.vl] = [r.marks EXCEPT ![q.at] = r.tag]]
     /\ my' = [my EXCEPT ![t] = Begun(q, r.tag)]
     /\ UNCHANGED <<ix, pool>>

\* CompareByFirst: a closest candidate comes first
ClosestCandidates(q) ==
  {c \in q.candidate_set : \A d \in q.candidate_set : c[1] <= d[1]}

\* A turn of the outer loop is over; there is another one
Between(q) == q.pc = "search" /\ q.todo = {} /\ ~ TooMany(q)
GoesOn(q) == \E c \in ClosestCandidates(q) : ~ ShouldStop(q, c[1])

\* The closest candidate is expanded, unless the search is over.
Expand(t) ==
  LET q == my[t]
  IN /\ Between(q) /\ GoesOn(q)
     /\ \E c \in ClosestCandidates(q) :
          my' = [my EXCEPT ![t] = [q EXCEPT !.candidate_set = @ \ {c}, !.todo = ix.links[0][c[2]]]]
     /\ UNCHANGED <<ix, pool, mass, curV>>

\* Mutant: what was looked at is not marked
VisitUnmarked(t) ==
  LET q == my[t]
  IN /\ q.pc = "search" /\ ~ TooMany(q)
     /\ \E n \in q.todo :
          my' = [my EXCEPT ![t] = IF mass[q.vl][n] = q.tag THEN Passed(q, n) ELSE Looked(q, n)]
     /\ UNCHANGED <<ix, pool, mass, curV>>

\* One neighbour, whichever comes next on the list, unless it is marked
Visit(t) ==
  LET q == my[t]
  IN /\ q.pc = "search" /\ ~ TooMany(q)
     /\ \E n \in q.todo :
          /\ my' = [my EXCEPT ![t] = IF mass[q.vl][n] = q.tag THEN Passed(q, n) ELSE Looked(q, n)]
          /\ mass' = [mass EXCEPT ![q.vl][n] = q.tag]
     /\ UNCHANGED <<ix, pool, curV>>

\* while (flag_remove_extra)
RemoveExtra(t) ==
  LET q == my[t]
  IN /\ q.pc = "search" /\ TooMany(q)
     /\ \E n \in Last(q) : my' = [my EXCEPT ![t] = Bounded(Without(q, n, Document(n)))]
     /\ UNCHANGED <<ix, pool, mass, curV>>

\* releaseVisitedList under poolguard
ReleaseList(t) ==
  LET q == my[t]
  IN /\ Between(q) /\ ~ GoesOn(q)
     /\ pool' = <<q.vl>> \o pool
     /\ my' = [my EXCEPT ![t] = [q EXCEPT !.pc = "answer"]]
     /\ UNCHANGED <<ix, mass, curV>>

\* One turn of the loop in MultiVectorSearchStopCondition::filter_results: the
\* last of the results goes, and the document on top of the condition's heap
\* loses an element.
TooManyDocuments(q) ==
  /\ q.pc = "answer" /\ Kind(q) = "documents"
  /\ q.condition.curr_num_docs_ > q.ask.stop.num_docs_to_search

FilterDocuments(t) ==
  LET q == my[t]
  IN /\ TooManyDocuments(q)
     /\ \E n \in Last(q) : my' = [my EXCEPT ![t] = Without(q, n, Document(HeapTop(q)))]
     /\ UNCHANGED <<ix, pool, mass, curV>>

\* The loop takes back() of a vector that is empty: nothing is said of what
\* follows.
FilterRunsOut(t) ==
  LET q == my[t]
  IN /\ TooManyDocuments(q) /\ q.top = {}
     /\ my' = [my EXCEPT ![t] = [Idle EXCEPT !.pc = "undefined", !.ask = q.ask]]
     /\ UNCHANGED <<ix, pool, mass, curV>>

\* The first k elements of S, by distance, in some order of those equally far
Firsts(q, S, k) ==
  {F \in SUBSET S : /\ Cardinality(F) = IF k < Cardinality(S) THEN k ELSE Cardinality(S)
                    /\ \A n \in F, m \in S \ F : Distance(q, n) <= Distance(q, m)}

\* What filter_results of the epsilon condition may leave
WithinEpsilon(q) ==
  Firsts(q, {n \in q.top : Distance(q, n) <= q.ask.stop.epsilon}, q.ask.stop.max)

\* searchKnn answers with labels, searchStopConditionClosest with internal ids.
Results(q) ==
  CASE Kind(q) = "none" -> {{Label(n) : n \in F} : F \in Firsts(q, q.top, q.ask.k)}
    [] Kind(q) = "epsilon" -> WithinEpsilon(q)
    [] Kind(q) = "documents" -> {q.top}

Answer(t) ==
  LET q == my[t]
  IN /\ q.pc = "answer" /\ ~ TooManyDocuments(q)
     /\ \E answer \in Results(q) :
          my' = [my EXCEPT ![t] = [Idle EXCEPT !.ask = q.ask, !.answer = answer]]
     /\ UNCHANGED <<ix, pool, mass, curV>>

Search(t) ==
  \/ TakeList(t) \/ Begin(t) \/ Expand(t) \/ Visit(t) \/ RemoveExtra(t)
  \/ ReleaseList(t) \/ FilterDocuments(t) \/ FilterRunsOut(t) \/ Answer(t)

Next == \E t \in Threads : Ask(t) \/ Search(t)

Spec == Init /\ [][Next]_vars

\* A thread runs its query to the end; poolguard is held for a few steps only.
FairSpec == Spec /\ \A t \in Threads : WF_vars(Search(t))
-------------------------------------------------------------------------------

Answered(q, kind) == q.pc = "idle" /\ Kind(q) = kind

\* No two elements are equally far from what is asked for.
Apart(q) == \A m, n \in Ids(ix) : Distance(q, m) = Distance(q, n) => m = n

\* However the threads' queries interleave on the pool, and however often the
\* tags of a list have been used up, searchKnn answers with what the pure
\* search of HNSWAlgorithms finds: no mark of another query, none of an
\* earlier one and nothing that new memory held hides an element.  The order
\* of the elements on a list makes no difference.  This is about questions
\* with at most one element at each distance; elsewhere the code answers with
\* what its heaps make of the order of the lists.
AnswersAsAlone ==
  \A t \in Threads :
    LET q == my[t]
        start == DescendFrom(ix, q.ask.vector, ix.enterpoint_node_, ix.maxlevel_, 0)
        found == Beam(ix, q.ask.vector, start, 0, ef(q), Hidden(q), BareBone(q))
    IN Answered(q, "none") /\ Apart(q) =>
         q.answer = {Label(n) : n \in Closest(ix.data, q.ask.vector, found, q.ask.k)}

\* The elements a question is about
Eligible(q) == Ids(ix) \ Hidden(q)
Documents(S) == {Document(n) : n \in S}
FullyLinked == \A n \in Ids(ix) : ix.links[0][n] = Ids(ix) \ {n}

\* Elements equally far belong to the same document.
TiesWithinDocuments(q) ==
  \A m, n \in Eligible(q) : Distance(q, m) = Distance(q, n) => Document(m) = Document(n)

\* A stop condition counts what is on the heap of results: items at every
\* moment, and during a search elements per document and documents.  Its own
\* heap holds as many pairs of each distance as there are results at that
\* distance, as filter_results asserts.  In that filter the counters follow
\* the results as long as elements equally far belong to the same document;
\* otherwise the two heaps may have parted.
ConditionCountsResults ==
  \A t \in Threads :
    LET q == my[t]
        c == q.condition
        of(d) == {n \in q.top : Document(n) = d}
        at(S, x) == {n \in S : Distance(q, n) = x}
    IN Kind(q) # "none" /\ q.pc \in {"search", "answer"} =>
         /\ Kind(q) = "epsilon" => c.curr_num_items_ = Cardinality(q.top)
         /\ Kind(q) = "documents" =>
              /\ \A n \in Ids(ix) : Cardinality(at(c.search_results_, Distance(q, n)))
                                      = Cardinality(at(q.top, Distance(q, n)))
              /\ q.pc = "search" \/ TiesWithinDocuments(q) =>
                   /\ \A d \in DOMAIN c.doc_counter_ : c.doc_counter_[d] = Cardinality(of(d))
                   /\ c.curr_num_docs_ = Cardinality(Documents(q.top))

\* What multivector_search_test.cpp and epsilon_search_test.cpp expect of a
\* search with a stop condition.  A search for documents answers with eligible
\* elements, and where every element is linked to every other no eligible
\* element closer than one of them is missing; as long as elements equally far
\* belong to the same document, it finds as many documents as were asked for,
\* or all.  A search within epsilon does not exceed what was asked for; one
\* that must look at two elements or more finds all there are, or the closest
\* of them, where every element is linked to every other.
StopConditionMet ==
  \A t \in Threads :
    LET q == my[t]
        s == q.ask.stop
        closer(n) == {m \in Eligible(q) : Distance(q, m) < Distance(q, n)}
        within == {n \in Eligible(q) : Distance(q, n) <= s.epsilon}
        wanted == {s.num_docs_to_search, Cardinality(Documents(Eligible(q)))}
        few == {s.max, Cardinality(within)}
    IN /\ Answered(q, "documents") =>
            /\ q.answer \subseteq Eligible(q)
            /\ FullyLinked => \A n \in q.answer : closer(n) \subseteq q.answer
            /\ TiesWithinDocuments(q) =>
                 /\ Cardinality(Documents(q.answer)) <= s.num_docs_to_search
                 /\ FullyLinked =>
                      /\ \A w \in wanted : Cardinality(Documents(q.answer)) <= w
                      /\ \E w \in wanted : Cardinality(Documents(q.answer)) = w
       /\ Answered(q, "epsilon") =>
            /\ q.answer \subseteq within /\ Cardinality(q.answer) <= s.max
            /\ FullyLinked /\ s.min >= 2 =>
                 /\ \A n \in q.answer : closer(n) \subseteq q.answer
                 /\ \E w \in few : Cardinality(q.answer) = w

\* What is marked for a search in its list are its start and the neighbours it
\* has come past since: the list held no such mark before, and no other search
\* sets, clears or overwrites one until the search gives the list back.
MarkedByItself ==
  [][\A t \in Threads :
       LET q == my[t]
           r == my'[t]
           before == {n \in Ids(ix) : mass[q.vl][n] = q.tag}
           after == {n \in Ids(ix) : mass'[r.vl][n] = r.tag}
       IN r.pc = "search" =>
            \/ q.pc = "begin" /\ after = {q.at}
            \/ q.pc = "search" /\ after = before \cup (q.todo \ r.todo)]_vars

\* Every query ends: a mark keeps an element from becoming a candidate again,
\* and each turn of the loops takes an element off a heap.  What follows a read
\* past the end of a vector is left open.
QueriesEnd ==
  \A t \in Threads : my[t].pc = "take" ~> my[t].pc \in {"idle", "undefined"}

-------------------------------------------------------------------------------
(* Not so *)

\* searchStopConditionClosest declares its results as pairs with a labeltype,
\* but answers with internal ids.
AnswersAreLabels ==
  \A t \in Threads :
    my[t].pc = "idle" => my[t].answer \subseteq {Label(n) : n \in Ids(ix)}

\* A search for documents finds as many as were asked for, where there are as
\* many, every element is linked to every other and none is hidden.
DocumentsFound ==
  \A t \in Threads :
    LET q == my[t]
        num == q.ask.stop.num_docs_to_search
    IN Answered(q, "documents") /\ FullyLinked /\ num <= Cardinality(Documents(Eligible(q))) =>
         Cardinality(Documents(q.answer)) = num
===============================================================================
