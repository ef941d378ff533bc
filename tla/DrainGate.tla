------------------------------- MODULE DrainGate -------------------------------
(***************************************************************************)
(* What the HTTP server promises about its lifecycle, without threads,     *)
(* semaphores or processes: requests enter while the gate is open, none    *)
(* after it closed, and the service then ends.  It ends cleanly only when  *)
(* everything that entered has left.  Shutdown implements this module.     *)
(***************************************************************************)
EXTENDS Naturals

CONSTANTS Requests  \* the requests that may enter

VARIABLES
    phase,     \* "open", "draining", "clean" or "forced"
    inflight   \* the requests that entered and have not left

vars == <<phase, inflight>>

Init ==
    /\ phase = "open"
    /\ inflight = {}

Ended == phase \in {"clean", "forced"}

Enter(r) ==
    /\ phase = "open"
    /\ inflight' = inflight \union {r}
    /\ UNCHANGED phase

Leave(r) ==
    /\ ~Ended
    /\ inflight' = inflight \ {r}
    /\ UNCHANGED phase

CloseGate ==
    /\ phase = "open"
    /\ phase' = "draining"
    /\ UNCHANGED inflight

(* A clean end has left nobody inside. *)
End ==
    /\ phase = "draining"
    /\ \/ phase' = "clean" /\ inflight = {}
       \/ phase' = "forced"
    /\ UNCHANGED inflight

Next ==
    \/ \E r \in Requests : Enter(r) \/ Leave(r)
    \/ CloseGate
    \/ End

(* Once the gate is closed the service ends, whether or not requests leave. *)
Spec == Init /\ [][Next]_vars /\ WF_vars(End)
=============================================================================
