------------------------------- MODULE MCLabels -------------------------------
(* Instances of Labels; the threads are alike. *)
EXTENDS Labels, TLC

Alike == Permutations(Threads)
===============================================================================
