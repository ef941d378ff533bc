------------------------------ MODULE MCShutdown ------------------------------
(* Shutdown with few requests and places for TLC. *)
EXTENDS Shutdown

(* Two places for work, so that children coexist, and one for probes, so that
   requests are turned away. *)
MCSlots == [work |-> 2, operational |-> 1]
=============================================================================
