---------------------------- MODULE MCIdempotency ----------------------------
(* Idempotency with small sets of threads, keys and bodies for TLC. *)
EXTENDS Idempotency, TLC

(* Threads, bodies and keys are interchangeable; used by runs without liveness. *)
Symmetry == Permutations(Workers) \union Permutations(Bodies)
                \union Permutations(Keys)
=============================================================================
