---------------------------- MODULE TrainingLease ----------------------------
(***************************************************************************)
(* The fenced lease that serialises training of one policy family:         *)
(* acquire_lease, renew_lease and release_lease (store.py) as              *)
(* ControlPlane.train_challenger (control.py) uses them, with the          *)
(* heartbeat of every episode (learner.py), the final transaction that     *)
(* renews, records the training run and commits, crashes and               *)
(* reconcile_startup.                                                      *)
(*                                                                         *)
(* A holder id is a fresh uuid per operation.  Here it is the trainer      *)
(* thread with the number of its acquisition (uid): the row's holder is    *)
(* the operation that made its last acquisition.  The fencing token an     *)
(* operation works with is read back from the row in a second transaction, *)
(* so it need not be the one that the acquisition issued.                  *)
(***************************************************************************)
EXTENDS Integers

CONSTANTS
    Trainers,      \* threads that serve training requests
    TrainingIds,   \* training ids (the idempotency keys of the requests)
    LeaseSeconds,  \* settings.lease_seconds, 5..3600
    LeaseCap,      \* 3600: cap of the part that grows with the episodes
    Episodes,      \* bound on the episodes of a request
    Lag,           \* how far a timestamp may be behind the clock when its
                   \*   transaction runs
    MaxTime,       \* bound on the clock
    MaxToken,      \* bound on the number of acquisitions
    StoreFaults,   \* may the store fail while a lease is being read back
                   \*   or released
    None           \* SQL NULL of holder_id

ASSUME LeaseAssumption ==
    /\ LeaseSeconds \in Nat \ {0} /\ LeaseCap \in Nat
    /\ Episodes \in Nat \ {0} /\ Lag \in Nat
    /\ MaxTime \in Nat /\ MaxToken \in Nat
    /\ StoreFaults \in BOOLEAN
    /\ None \notin Trainers /\ None \notin TrainingIds

VARIABLES
    now,    \* the wall clock, in seconds
    up,     \* is the service process alive
    lease,  \* the leases row of train:<family>; token 0 when there is none
    tr,     \* the training operations, one per trainer thread
    runs,   \* the training_runs table
    leaked  \* acquisitions whose lease was left to expire (ghost)

vars == <<now, up, lease, tr, runs, leaked>>

NoLease == [holder |-> None, token |-> 0, expires |-> 0]

Resting == [pc |-> "idle", id |-> None, uid |-> 0, token |-> 0, ttl |-> 0,
            left |-> 0, beat |-> 0]

RunningOperations ==
    [pc : {"reading", "training", "releasing"}, id : TrainingIds,
     uid : Nat \ {0}, token : Nat, ttl : Nat, left : 0..Episodes, beat : Nat]

Operations == {Resting} \union RunningOperations

(* Mutant: the configured duration is not a lower bound. *)
LeaseTTLGrown(episodes) ==
    IF 2 * episodes <= LeaseCap THEN 2 * episodes ELSE LeaseCap

(* lease_ttl of train_challenger: it grows with the episodes, is capped, and
   is never below the configured duration. *)
LeaseTTL(episodes) ==
    LET grown == IF 2 * episodes <= LeaseCap THEN 2 * episodes ELSE LeaseCap
    IN  IF grown <= LeaseSeconds THEN LeaseSeconds ELSE grown

Stamps == {s \in 0..MaxTime : s <= now /\ now <= s + Lag}

Init ==
    /\ now = 0
    /\ up = TRUE
    /\ lease = NoLease
    /\ tr = [t \in Trainers |-> Resting]
    /\ runs = {}
    /\ leaked = {}

-----------------------------------------------------------------------------
(* The store's conditions *)

(* acquire_lease by a new holder succeeds: no row, no holder, or expired. *)
Free(s) == lease.holder = None \/ lease.expires <= s

(* holder_id=?: the row's last acquisition is this operation's. *)
IsHolder(t) == lease.holder = t /\ lease.token = tr[t].uid

(* holder_id=? AND fencing_token=?. *)
Holds(t) == IsHolder(t) /\ lease.token = tr[t].token

(* Mutant: renewal checks neither the holder nor the token. *)
RenewableUnfenced(t, s) == lease.expires > s

(* Mutant: renewal checks the token and not the holder. *)
RenewableByToken(t, s) == lease.token = tr[t].token /\ lease.expires > s

(* The WHERE clause of renew_lease. *)
Renewable(t, s) == Holds(t) /\ lease.expires > s

-----------------------------------------------------------------------------
(* train_challenger, one action per transaction *)

(* The transaction of acquire_lease issues the next fencing token.  The
   idempotency protocol keeps two running operations from sharing a training
   id. *)
Acquire(t, i, e, s) ==
    /\ up /\ tr[t].pc = "idle"
    /\ \A o \in Trainers : tr[o].id # i
    /\ lease.token < MaxToken
    /\ Free(s)
    /\ lease' = [holder |-> t, token |-> lease.token + 1,
                 expires |-> s + LeaseTTL(e)]
    /\ tr' = [tr EXCEPT ![t] =
                [pc |-> "reading", id |-> i, uid |-> lease.token + 1,
                 token |-> 0, ttl |-> LeaseTTL(e), left |-> e, beat |-> now]]
    /\ UNCHANGED <<now, up, runs, leaked>>

(* LeaseUnavailableError: nothing was acquired, so nothing is released. *)
AcquireRefused(t, s) ==
    /\ up /\ tr[t].pc = "idle"
    /\ ~Free(s)
    /\ UNCHANGED vars

(* acquire_lease ends with a get_lease of its own, after its transaction: a
   trainer that stalls here past its ttl reads the token of its successor. *)
ReadBack(t) ==
    /\ up /\ tr[t].pc = "reading"
    /\ tr' = [tr EXCEPT ![t].pc = "training", ![t].token = lease.token]
    /\ UNCHANGED <<now, up, lease, runs, leaked>>

(* That read fails: train_challenger has no lease to release, and the one it
   acquired is left to expire. *)
ReadBackFault(t) ==
    /\ StoreFaults
    /\ up /\ tr[t].pc = "reading"
    /\ tr' = [tr EXCEPT ![t] = Resting]
    /\ leaked' = leaked \union {tr[t].uid}
    /\ UNCHANGED <<now, up, lease, runs>>

(* An operation after a heartbeat: one episode fewer, renewed now. *)
Beaten(t) == [tr[t] EXCEPT !.left = tr[t].left - 1, !.beat = now]

(* The heartbeat at the start of an episode renews the lease ... *)
Heartbeat(t, s) ==
    /\ up /\ tr[t].pc = "training" /\ tr[t].left > 0
    /\ Renewable(t, s)
    /\ lease' = [lease EXCEPT !.expires = s + tr[t].ttl]
    /\ tr' = [tr EXCEPT ![t] = Beaten(t)]
    /\ UNCHANGED <<now, up, runs, leaked>>

(* ... or raises ConflictError, which ends the training. *)
HeartbeatLost(t, s) ==
    /\ up /\ tr[t].pc = "training" /\ tr[t].left > 0
    /\ ~Renewable(t, s)
    /\ tr' = [tr EXCEPT ![t].pc = "releasing"]
    /\ UNCHANGED <<now, up, lease, runs, leaked>>

(* record_training_run accepts a new id.  An id seen before carries another
   fencing token and is refused. *)
Recordable(t) == \A r \in runs : r.id # tr[t].id

(* The final transaction: renewal as the fencing check, artifact, training
   run, event, budget and idempotency record, all or nothing. *)
Commit(t, s) ==
    /\ up /\ tr[t].pc = "training" /\ tr[t].left = 0
    /\ Renewable(t, s) /\ Recordable(t)
    /\ lease' = [lease EXCEPT !.expires = s + tr[t].ttl]
    /\ runs' = runs \union {[id |-> tr[t].id, uid |-> tr[t].uid,
                               token |-> tr[t].token]}
    /\ tr' = [tr EXCEPT ![t].pc = "releasing"]
    /\ UNCHANGED <<now, up, leaked>>

(* One of its checks raises: the whole transaction is rolled back. *)
CommitRefused(t, s) ==
    /\ up /\ tr[t].pc = "training" /\ tr[t].left = 0
    /\ ~(Renewable(t, s) /\ Recordable(t))
    /\ tr' = [tr EXCEPT ![t].pc = "releasing"]
    /\ UNCHANGED <<now, up, lease, runs, leaked>>

(* Mutant: the release is not in a finally block. *)
AbortUnreleased(t) ==
    /\ up /\ tr[t].pc = "training"
    /\ tr' = [tr EXCEPT ![t] = Resting]
    /\ UNCHANGED <<now, up, lease, runs, leaked>>

(* Any other exception of the search, the report or the final transaction. *)
Abort(t) ==
    /\ up /\ tr[t].pc = "training"
    /\ tr' = [tr EXCEPT ![t].pc = "releasing"]
    /\ UNCHANGED <<now, up, lease, runs, leaked>>

(* Mutant: release_lease has no WHERE clause. *)
ReleaseUnfenced(t, s) ==
    /\ up /\ tr[t].pc = "releasing"
    /\ lease' = [lease EXCEPT !.holder = None, !.expires = s]
    /\ tr' = [tr EXCEPT ![t] = Resting]
    /\ UNCHANGED <<now, up, runs, leaked>>

(* The finally block: release_lease, whose ConflictError is swallowed. *)
Release(t, s) ==
    /\ up /\ tr[t].pc = "releasing"
    /\ lease' = IF Holds(t)
                THEN [lease EXCEPT !.holder = None, !.expires = s]
                ELSE lease
    /\ tr' = [tr EXCEPT ![t] = Resting]
    /\ UNCHANGED <<now, up, runs, leaked>>

(* The store fails in the finally block: the lease is left to expire. *)
ReleaseFault(t) ==
    /\ StoreFaults
    /\ up /\ tr[t].pc = "releasing"
    /\ tr' = [tr EXCEPT ![t] = Resting]
    /\ leaked' = leaked \union {tr[t].uid}
    /\ UNCHANGED <<now, up, lease, runs>>

-----------------------------------------------------------------------------
(* Crashes, reconciliation and time *)

Crash ==
    /\ up
    /\ up' = FALSE
    /\ tr' = [t \in Trainers |-> Resting]
    /\ UNCHANGED <<now, lease, runs, leaked>>

(* Mutant: the reconciliation clears the fencing token too. *)
ReconciledCleared(s) == [holder |-> None, token |-> None, expires |-> s]

(* reconcile_startup frees a held lease and keeps its token. *)
Reconciled(s) ==
    IF lease.holder = None THEN lease
    ELSE [lease EXCEPT !.holder = None, !.expires = s]

Restart(s) ==
    /\ ~up
    /\ up' = TRUE
    /\ lease' = Reconciled(s)
    /\ UNCHANGED <<now, tr, runs, leaked>>

(* Time passes, however long a trainer has not renewed. *)
Tick ==
    /\ now < MaxTime
    /\ now' = now + 1
    /\ UNCHANGED <<up, lease, tr, runs, leaked>>

Step(t) ==
    \/ \E s \in Stamps :
         \/ Heartbeat(t, s)
         \/ HeartbeatLost(t, s)
         \/ Commit(t, s)
         \/ CommitRefused(t, s)
         \/ Release(t, s)
    \/ ReadBack(t)
    \/ ReadBackFault(t)
    \/ Abort(t)
    \/ ReleaseFault(t)

Begin(t) ==
    \E s \in Stamps :
        \/ \E i \in TrainingIds, e \in 1..Episodes : Acquire(t, i, e, s)
        \/ AcquireRefused(t, s)

Next ==
    \/ \E t \in Trainers : Begin(t) \/ Step(t)
    \/ Crash
    \/ \E s \in Stamps : Restart(s)
    \/ Tick

Spec == Init /\ [][Next]_vars

(* A running training takes its next step, and the supervisor restarts a dead
   service. *)
FairSpec ==
    /\ Spec
    /\ \A t \in Trainers : WF_vars(Step(t))
    /\ WF_vars(\E s \in Stamps : Restart(s))

-----------------------------------------------------------------------------
(* Properties *)

(* The shape of the lease row, the operations and the recorded runs. *)
TypeOK ==
    /\ now \in 0..MaxTime
    /\ up \in BOOLEAN
    /\ lease \in [holder : Trainers \union {None}, token : Nat, expires : Nat]
    /\ tr \in [Trainers -> Operations]
    /\ runs \subseteq [id : TrainingIds, uid : Nat, token : Nat]
    /\ leaked \subseteq Nat

(* Fencing: training runs are committed in the order of their tokens.  A
   trainer that lost its lease (slow episode, expired lease, restarted
   service) never commits after its successor has. *)
FencedCommits ==
    [][\A r \in runs' \ runs : \A q \in runs : q.token < r.token]_vars

(* A recorded training run bears the fencing token that its own acquisition
   issued, and no other run has it.  An operation may well work with the token
   of its successor, read back late; it records nothing under it. *)
TokensUnique ==
    /\ \A r \in runs : r.token = r.uid
    /\ \A r, q \in runs : r.token = q.token => r = q

(* A lease changes hands only when it expired, when its own holder gives it up
   in its finally block, or when its process is dead: a fenced trainer's late
   release never frees the lease of its successor. *)
LeaseTakenOnlyWhenLost ==
    [][lease.holder # None /\ lease'.holder # lease.holder =>
          \/ lease.expires <= now
          \/ ~up
          \/ /\ tr[lease.holder].pc = "releasing"
             /\ tr[lease.holder].uid = lease.token]_vars

(* A trainer is fenced out only by its own delay: one that works without the
   lease, or with a token that is not its own, has neither acquired nor renewed
   for the configured duration (less the timestamp lag).  Trainings that renew
   in time never overlap. *)
TrainerKeepsLease ==
    \A t \in Trainers : tr[t].pc = "training" =>
        Holds(t) \/ tr[t].beat + LeaseSeconds <= now + Lag

(* A lease is given back: its holder ends and releases it on every path
   through train_challenger, or the next start does.  Only a store that fails
   during the read-back or the release leaves it to expire. *)
LeaseComesBack ==
    \A t \in Trainers :
        lease.holder = t ~> lease.holder # t \/ lease.token \in leaked

-----------------------------------------------------------------------------
(* Strengthenings: what the code maintains so that the properties hold *)

(* No token in use or on record is ahead of the row's. *)
TokensIssued ==
    /\ \A t \in Trainers : tr[t].uid <= lease.token
    /\ \A r \in runs : r.token <= lease.token

(* No two running operations made the same acquisition. *)
HoldersUnique ==
    \A t, o \in Trainers :
        t # o /\ tr[t].pc # "idle" /\ tr[o].pc # "idle"
            => tr[t].uid # tr[o].uid

(* A trainer that may still commit has not committed. *)
UncommittedFresh ==
    \A t \in Trainers : tr[t].pc \in {"reading", "training"} =>
        \A r \in runs : r.uid # tr[t].uid

(* A dead process runs no training. *)
DownQuiet == ~up => \A t \in Trainers : tr[t].pc = "idle"

(* The lease of a working trainer runs at least LeaseSeconds from its last
   renewal (less the lag), or that time is over; while it is the holder, the
   token it read back is its own. *)
LeaseCovers ==
    \A t \in Trainers : tr[t].pc \in {"reading", "training"} =>
        /\ LeaseSeconds <= tr[t].ttl
        /\ tr[t].pc = "training" /\ IsHolder(t) => Holds(t)
        /\ \/ IsHolder(t) /\ tr[t].beat + LeaseSeconds <= lease.expires + Lag
           \/ tr[t].beat + LeaseSeconds <= now + Lag
=============================================================================
