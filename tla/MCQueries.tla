------------------------------- MODULE MCQueries -------------------------------
(***************************************************************************)
(* Small indexes and questions for Queries.                                *)
(***************************************************************************)
EXTENDS Queries, IndexInputs

CONSTANT First  \* the thread with the more demanding questions

\* Labels differ from ids; two elements share a document.
MCLabel(n) == n + 10
MCDocument(n) == n % 2

Graph(edges) == [n \in 0 .. 2 |-> {m \in 0 .. 2 : {n, m} \in edges}]

\* num_deleted_ counts the marks, unless the index was merged and marks were
\* copied.
WithCount(i, num) == [num_deleted_ |-> num] @@ i
Counted(S) == {WithCount(i, Cardinality(i.deleted)) : i \in S}
Merged(S) == {WithCount(i, 0) : i \in {j \in S : j.deleted # {}}}

Nothing == [kind |-> "none"]
Epsilon(e, lo, hi) == [kind |-> "epsilon", epsilon |-> e, min |-> lo, max |-> hi]
\* The constructor raises ef_collection to num_docs_to_search
Docs(num, collect) ==
  [kind |-> "documents", num_docs_to_search |-> num,
   ef_collection |-> IF collect < num THEN num ELSE collect]

Question(v, k, allowed, stop) == [vector |-> v, k |-> k, allowed |-> allowed, stop |-> stop]

(* Two threads *)

\* A path that does not follow the line, with one and two levels, and a
\* complete graph, each also with a deleted element
Path == Indexes(2, <<0, 4, 12>>, {Graph({{0, 1}, {0, 2}})}, {Three(0, 0, 0), Three(1, 0, 0)}, {{}, {0}})
Full == Indexes(2, <<0, 4, 12>>, Complete(3), {Three(0, 0, 0)}, {{}, {0}})
Shared == {i \in Path : i.enterpoint_node_ = 2 - 2 * i.maxlevel_}
          \cup {i \in Full : i.enterpoint_node_ = 0}
SharedQueried == Counted(Shared) \cup Merged({i \in Shared : i.maxlevel_ = 0})

\* One asks for neighbours, plainly; the other one sets a condition, or a filter
\* that lets pass one element or, where this is deleted, none, so that its
\* results are never full.
Plain == Question(13, 1, NoFilter, Nothing)
Demanding == {Question(13, 2, {0}, Nothing), Question(1, 0, NoFilter, Docs(1, 2))}

(* One thread, while the other one asks nothing *)

\* A path and complete graphs of elements in different orders on the line
AloneQueried ==
  Counted(Indexes(2, <<1, 5, 13>>, {Graph({{0, 1}, {0, 2}})}, {Three(0, 0, 0)}, {{}, {0}})
          \cup UNION {Indexes(2, points, Complete(3), {Three(0, 0, 0)}, {{}, {0}}) :
                        points \in {<<1, 5, 13>>, <<3, 1, 5>>}})

\* Some are in the middle between two elements, of one document or of two.
AllQuestions ==
  {Question(v, 1, allowed, s) :
     v \in {2, 3, 14}, allowed \in {NoFilter, {0, 2}},
     s \in {Docs(num, collect) : num \in 0 .. 2, collect \in 1 .. 2}
           \cup {Epsilon(9, 0, 2), Epsilon(9, 2, 3), Epsilon(81, 0, 3), Epsilon(81, 2, 2)}}

MCQueried == SharedQueried \cup AloneQueried
MCQuestions(i, t) ==
  CASE i \in SharedQueried -> IF t = First THEN Demanding ELSE {Plain}
    [] i \in AloneQueried -> IF t = First THEN AllQuestions ELSE {}

(* One document is asked for in the middle between two elements of different   *)
(* documents: DocumentsFound does not hold                                     *)

\* Elements 1 and 2 are as far as each other, 0 and 2 of the same document.
Tied == {i \in AloneQueried : i.data[0] = 3 /\ i.deleted = {} /\ i.enterpoint_node_ = 0}
OneDocument(i, t) == {Question(3, 0, NoFilter, Docs(1, 2))}
===============================================================================
