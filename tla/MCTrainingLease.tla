--------------------------- MODULE MCTrainingLease ---------------------------
(* TrainingLease with small sets of trainers and training ids for TLC. *)
EXTENDS TrainingLease, TLC

(* Trainers and training ids are interchangeable. *)
Symmetry == Permutations(Trainers) \union Permutations(TrainingIds)
=============================================================================
