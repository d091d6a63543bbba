-------------------------------- MODULE Recency --------------------------------
(***************************************************************************)
(* The order in which the keys of a cache were used last (the lru_list_ of *)
(* VarArray): a sequence without repetitions, the latest key first.        *)
(***************************************************************************)
EXTENDS Naturals, Sequences

Named(s) == {s[i] : i \in DOMAIN s}

\* Where k is in s, or would be behind the others
Place(s, k) ==
  IF k \in Named(s) THEN CHOOSE i \in DOMAIN s : s[i] = k ELSE Len(s) + 1

\* s with k in front: moved there, or entered
ToFront(s, k) ==
  [i \in DOMAIN s \cup {Place(s, k)} |->
     IF i = 1 THEN k ELSE IF i <= Place(s, k) THEN s[i - 1] ELSE s[i]]

Oldest(s) == s[Len(s)]
WithoutOldest(s) == SubSeq(s, 1, Len(s) - 1)
===============================================================================
