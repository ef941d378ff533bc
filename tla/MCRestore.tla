------------------------------- MODULE MCRestore -------------------------------
(* Restore with few bundles and processes for TLC. *)
EXTENDS Restore
=============================================================================
