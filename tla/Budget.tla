-------------------------------- MODULE Budget --------------------------------
(***************************************************************************)
(* The compute budget of one tenant (the budgets row "api-compute" and its *)
(* budget_reservations, store.py) as decisions and trainings (control.py)  *)
(* share it: reserve, consume in the operation's final transaction,        *)
(* release on the error path, and the ledger check and release of          *)
(* reconcile_startup after a crash.                                        *)
(*                                                                         *)
(* Every reservation id holds a fresh uuid, so a reservation is made once. *)
(***************************************************************************)
EXTENDS Integers, FiniteSets, Functions

CONSTANTS
    Clients,      \* request threads
    Ids,          \* reservation ids (bound on the operations started)
    Units,        \* amounts an operation may ask for
    Limit,        \* default_tenant_budget
    StoreFaults,  \* may the store fail on the error path of an operation
    None          \* no reservation id

ASSUME BudgetAssumption ==
    /\ Units \subseteq Nat \ {0} /\ Limit \in Nat
    /\ IsFiniteSet(Ids) /\ StoreFaults \in BOOLEAN /\ None \notin Ids

VARIABLES
    up,      \* is the service process alive
    ledger,  \* reserved_units and consumed_units of the budgets row
    res,     \* budget_reservations by id; status "NONE" is an absent row
    cl,      \* the operation of each thread
    work,    \* the operations that took effect, by reservation id (ghost)
    leaked   \* reservations the store failed to release (ghost)

vars == <<up, ledger, res, cl, work, leaked>>

Kinds == {"decision", "training"}

Absent == [status |-> "NONE", units |-> 0]

Idle == [pc |-> "idle", kind |-> "none", id |-> None]

Init ==
    /\ up = TRUE
    /\ ledger = [reserved |-> 0, consumed |-> 0]
    /\ res = [i \in Ids |-> Absent]
    /\ cl = [c \in Clients |-> Idle]
    /\ work = {}
    /\ leaked = {}

-----------------------------------------------------------------------------
(* The store's operations *)

(* Mutant: what is consumed is not counted against the limit. *)
AvailableUnconsumed == Limit - ledger.reserved

(* What reserve_budget may still hand out. *)
Available == Limit - ledger.reserved - ledger.consumed

(* The budgets row after _transition_reservation of a RESERVED reservation. *)
Debited(i, target) ==
    [reserved |-> ledger.reserved - res[i].units,
     consumed |-> IF target = "CONSUMED" THEN ledger.consumed + res[i].units
                  ELSE ledger.consumed]

(* Mutant: a reservation that was consumed may still be released. *)
MoveAnyStatus(i, target) ==
    /\ ledger' = Debited(i, target)
    /\ res' = [res EXCEPT ![i].status = target]

(* _transition_reservation, when it does not raise or its error is swallowed:
   only a RESERVED reservation moves. *)
Move(i, target) ==
    IF res[i].status = "RESERVED"
    THEN /\ ledger' = Debited(i, target)
         /\ res' = [res EXCEPT ![i].status = target]
    ELSE UNCHANGED <<ledger, res>>

(* The units of each reservation, and the reservations with a status. *)
UnitsOf == [i \in Ids |-> res[i].units]

With(status) == {i \in Ids : res[i].status = status}

(* SUM(units) of reconcile_startup's query. *)
Sum(status) == SumFunctionOnSet(UnitsOf, With(status))

(* The ledger check of reconcile_startup. *)
Balanced ==
    /\ ledger.reserved = Sum("RESERVED")
    /\ ledger.consumed = Sum("CONSUMED")

-----------------------------------------------------------------------------
(* run_decision and train_challenger *)

(* create_budget finds or makes the row; reserve_budget takes the units. *)
Reserve(c, kind, i, u) ==
    /\ up /\ cl[c].pc = "idle"
    /\ res[i].status = "NONE"
    /\ u <= Available
    /\ ledger' = [ledger EXCEPT !.reserved = @ + u]
    /\ res' = [res EXCEPT ![i] = [status |-> "RESERVED", units |-> u]]
    /\ cl' = [cl EXCEPT ![c] = [pc |-> "working", kind |-> kind, id |-> i]]
    /\ UNCHANGED <<up, work, leaked>>

(* BudgetExceededError, before the operation's try block. *)
ReserveRefused(c, u) ==
    /\ up /\ cl[c].pc = "idle"
    /\ u > Available
    /\ UNCHANGED vars

(* The final transaction: the effect and consume_budget, all or nothing.  A
   training then enters its finally block; a decision returns, unless what
   its try block does after the transaction raises. *)
Commit(c) ==
    LET i == cl[c].id IN
    /\ up /\ cl[c].pc = "working"
    /\ Move(i, "CONSUMED")
    /\ work' = work \union {i}
    /\ \/ /\ cl[c].kind = "training"
          /\ cl' = [cl EXCEPT ![c].pc = "finally"]
       \/ /\ cl[c].kind = "decision"
          /\ \/ cl' = [cl EXCEPT ![c] = Idle]
             \/ cl' = [cl EXCEPT ![c].pc = "releasing"]
    /\ UNCHANGED <<up, leaked>>

(* The search, the lease, the signature or the final transaction raises. *)
Raise(c) ==
    /\ up /\ cl[c].pc = "working"
    /\ cl' = [cl EXCEPT ![c].pc =
                IF cl[c].kind = "training" THEN "finally" ELSE "releasing"]
    /\ UNCHANGED <<up, ledger, res, work, leaked>>

(* The finally block of a training reads the budget row first: it releases
   only if something, of any operation, is reserved. *)
CheckReserved(c) ==
    /\ up /\ cl[c].pc = "finally"
    /\ cl' = [cl EXCEPT ![c] =
                IF ledger.reserved > 0 THEN [@ EXCEPT !.pc = "releasing"]
                ELSE Idle]
    /\ UNCHANGED <<up, ledger, res, work, leaked>>

(* Mutant: the error path does not release the reservation. *)
ReleaseNothing(c) ==
    /\ up /\ cl[c].pc = "releasing"
    /\ cl' = [cl EXCEPT ![c] = Idle]
    /\ UNCHANGED <<up, ledger, res, work, leaked>>

(* release_budget; a ConflictError (the reservation is consumed) is swallowed
   by a training and re-raised by a decision, which changes nothing here. *)
Release(c) ==
    /\ up /\ cl[c].pc = "releasing"
    /\ Move(cl[c].id, "RELEASED")
    /\ cl' = [cl EXCEPT ![c] = Idle]
    /\ UNCHANGED <<up, work, leaked>>

(* The store fails on the error path: the reservation stays. *)
ReleaseFault(c) ==
    /\ StoreFaults
    /\ up /\ cl[c].pc \in {"finally", "releasing"}
    /\ cl' = [cl EXCEPT ![c] = Idle]
    /\ leaked' = leaked \union {cl[c].id}
    /\ UNCHANGED <<up, ledger, res, work>>

-----------------------------------------------------------------------------
(* Crashes and reconciliation *)

Crash ==
    /\ up
    /\ up' = FALSE
    /\ cl' = [c \in Clients |-> Idle]
    /\ UNCHANGED <<ledger, res, work, leaked>>

(* Mutant: the reservations are released, the row is not updated. *)
ReconcileRowsOnly ==
    /\ res' = [i \in Ids |-> IF res[i].status = "RESERVED"
                             THEN [res[i] EXCEPT !.status = "RELEASED"]
                             ELSE res[i]]
    /\ UNCHANGED ledger

(* Mutant: the reservations are updated without a status condition. *)
ReconcileAll ==
    /\ res' = [i \in Ids |-> IF res[i].status # "NONE"
                             THEN [res[i] EXCEPT !.status = "RELEASED"]
                             ELSE res[i]]
    /\ ledger' = [ledger EXCEPT !.reserved = 0]

(* reconcile_startup: every RESERVED reservation is released. *)
Reconcile ==
    /\ res' = [i \in Ids |-> IF res[i].status = "RESERVED"
                             THEN [res[i] EXCEPT !.status = "RELEASED"]
                             ELSE res[i]]
    /\ ledger' = [ledger EXCEPT !.reserved = 0]

(* The service starts.  It refuses to start over a ledger that does not add
   up, and an operator has to intervene. *)
Restart ==
    /\ ~up
    /\ Balanced
    /\ up' = TRUE
    /\ Reconcile
    /\ UNCHANGED <<cl, work, leaked>>

Step(c) ==
    \/ Commit(c)
    \/ Raise(c)
    \/ CheckReserved(c)
    \/ Release(c)
    \/ ReleaseFault(c)

Next ==
    \/ \E c \in Clients :
         \/ \E u \in Units :
              \/ \E kind \in Kinds, i \in Ids : Reserve(c, kind, i, u)
              \/ ReserveRefused(c, u)
         \/ Step(c)
    \/ Crash
    \/ Restart

Spec == Init /\ [][Next]_vars

(* Operations under way take their next step, and the supervisor restarts a
   dead service. *)
FairSpec ==
    /\ Spec
    /\ \A c \in Clients : WF_vars(Step(c))
    /\ WF_vars(Restart)

-----------------------------------------------------------------------------
(* Properties *)

(* The shape of the rows and of the operations. *)
TypeOK ==
    /\ up \in BOOLEAN
    /\ ledger \in [reserved : Nat, consumed : Nat]
    /\ res \in [Ids -> {Absent} \union
                        [status : {"RESERVED", "CONSUMED", "RELEASED"},
                         units : Units]]
    /\ cl \in [Clients -> [pc : {"idle", "working", "finally", "releasing"},
                           kind : Kinds \union {"none"},
                           id : Ids \union {None}]]
    /\ work \subseteq Ids
    /\ leaked \subseteq Ids

(* No overspending: however the operations interleave and whenever the process
   dies, the units of the operations that took effect and of those under way
   never exceed the limit. *)
SpendWithinLimit ==
    LET live == {cl[c].id : c \in {d \in Clients : cl[d].pc = "working"}}
    IN  SumFunctionOnSet(UnitsOf, work \union live) <= Limit

(* Every operation that took effect is paid for, and nothing else is: neither
   a late release nor the reconciliation gives consumed units back. *)
WorkPaidOnce ==
    \A i \in Ids : i \in work <=> res[i].status = "CONSUMED"

(* While the service is up every RESERVED reservation belongs to an operation
   under way that will settle it: capacity does not leak, unless the store
   failed on the error path. *)
NoLeakedReservation ==
    up => \A i \in Ids : res[i].status = "RESERVED" =>
            \/ \E c \in Clients : cl[c].pc # "idle" /\ cl[c].id = i
            \/ i \in leaked

(* Capacity that was reserved comes back or is spent, and the ledger always
   adds up, so a dead service can start again. *)
EverythingSettles ==
    /\ \A i \in Ids : res[i].status = "RESERVED"
                         ~> res[i].status # "RESERVED" \/ i \in leaked
    /\ ~up ~> up

-----------------------------------------------------------------------------
(* Strengthenings: what the code maintains so that the properties hold *)

(* The check of reserve_budget bounds the row at all times. *)
WithinLimit == ledger.reserved + ledger.consumed <= Limit

(* An operation under way has a reservation of its own, which nobody else has
   settled: RESERVED while it works, and after its commit not given back. *)
OwnReservation ==
    /\ \A c \in Clients : cl[c].pc # "idle" =>
         /\ up /\ cl[c].id \in Ids /\ cl[c].kind \in Kinds
         /\ res[cl[c].id].status \in {"RESERVED", "CONSUMED"}
         /\ cl[c].pc = "working" => res[cl[c].id].status = "RESERVED"
    /\ \A c, d \in Clients :
         c # d /\ cl[c].pc # "idle" /\ cl[d].pc # "idle" =>
            cl[c].id # cl[d].id

(* The inductive invariant of the ledger. *)
LedgerInv ==
    /\ TypeOK /\ Balanced /\ WithinLimit
    /\ OwnReservation /\ WorkPaidOnce /\ NoLeakedReservation
=============================================================================
