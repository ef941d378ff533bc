------------------------------- MODULE MCBudget -------------------------------
(* Budget with small sets of threads and reservations for TLC. *)
EXTENDS Budget, TLC

(* Threads and reservation ids are interchangeable. *)
Symmetry == Permutations(Clients) \union Permutations(Ids)
=============================================================================
