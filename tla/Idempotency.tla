----------------------------- MODULE Idempotency -----------------------------
(***************************************************************************)
(* The idempotency protocol every state-changing request goes through:     *)
(* ControlPlane._idempotent (control.py) over claim_idempotency and        *)
(* _finish_idempotency (store.py), with process crashes and the startup    *)
(* reconciliation.                                                         *)
(*                                                                         *)
(* Every store operation is one SQLite transaction (BEGIN IMMEDIATE under  *)
(* an RLock) and hence one atomic step here.  The request threads of the   *)
(* single service process interleave between those steps.  A request body  *)
(* stands for its SHA-256; the result of an operation stands for the       *)
(* operation that produced it (results carry fresh ids).                   *)
(***************************************************************************)
EXTENDS Integers

CONSTANTS
    Workers,    \* request threads of the service process
    Keys,       \* (tenant, scope, idempotency key) triples
    Bodies,     \* request bodies
    TTL,        \* retention of a record, 86 400 s in the code
    Lag,        \* how far a timestamp may be behind the clock when its
                \*   transaction runs: it is read before the lock is taken
    MaxOp,      \* the longest a request runs after its claim (bound on time)
    MaxTime,    \* bound on the clock
    MaxOps,     \* bound on the number of operations started
    StoreFaults \* may the store fail (disk full, lock timeout) while the
                \*   error of an operation is being recorded

(* SQL NULL in an integer column. *)
NULL == -1

ASSUME IdemAssumption ==
    /\ TTL \in Nat /\ Lag \in Nat /\ MaxOp \in Nat
    /\ MaxTime \in Nat /\ MaxOps \in Nat
    /\ Lag <= TTL /\ Lag <= MaxOp
    /\ StoreFaults \in BOOLEAN
    /\ NULL \notin Keys /\ NULL \notin Bodies

VARIABLES
    now,          \* the wall clock, in seconds
    up,           \* is the service process alive
    rec,          \* the idempotency_records table
    th,           \* the request threads
    nextOp,       \* number of operations started so far
    effects,      \* the committed state changes of operations (ghost)
    replies,      \* the successful answers sent to clients (ghost)
    interrupted   \* keys whose operation a crash cut short (ghost)

vars == <<now, up, rec, th, nextOp, effects, replies, interrupted>>

Ops == 1..MaxOps

(* An absent row. *)
NoRecord == [status |-> "NONE", body |-> NULL, result |-> NULL,
             claimed |-> NULL, expires |-> NULL]

Records ==
    {NoRecord}
    \union [status : {"IN_PROGRESS", "FAILED"}, body : Bodies, result : {NULL},
            claimed : Nat, expires : Nat \union {NULL}]
    \union [status : {"COMPLETED"}, body : Bodies, result : Ops,
            claimed : Nat, expires : Nat \union {NULL}]

(* A thread that serves no request. *)
Idle == [pc |-> "idle", key |-> NULL, body |-> NULL, op |-> NULL,
         claimed |-> NULL]

Threads ==
    {Idle}
    \union [pc : {"operating", "committed", "failing", "marking"},
            key : Keys, body : Bodies, op : Ops, claimed : Nat]

Init ==
    /\ now = 0
    /\ up = TRUE
    /\ rec = [k \in Keys |-> NoRecord]
    /\ th = [w \in Workers |-> Idle]
    /\ nextOp = 0
    /\ effects = {}
    /\ replies = {}
    /\ interrupted = {}

-----------------------------------------------------------------------------
(* The store's operations on idempotency_records *)

(* The timestamps a transaction that runs now may carry. *)
Stamps == {t \in 0..MaxTime : t <= now /\ now <= t + Lag}

(* Mutant: the DELETE takes a row in the second it expires. *)
PurgedEarly(t) ==
    [k \in Keys |-> IF rec[k].expires # NULL /\ rec[k].expires <= t
                    THEN NoRecord ELSE rec[k]]

(* The table after claim_idempotency's DELETE of the rows expired at t. *)
Purged(t) ==
    [k \in Keys |-> IF rec[k].expires # NULL /\ rec[k].expires < t
                    THEN NoRecord ELSE rec[k]]

(* The row claim_idempotency inserts. *)
NewRecord(b, t) == [status |-> "IN_PROGRESS", body |-> b, result |-> NULL,
                    claimed |-> t, expires |-> t + TTL]

(* Mutant: _finish_idempotency accepts any row, or none. *)
CanFinishAlways(k, status, result) == TRUE

(* _finish_idempotency returns normally iff the row is in progress, or was
   finalized before with the same status and the same result. *)
CanFinish(k, status, result) ==
    \/ rec[k].status = "IN_PROGRESS"
    \/ rec[k].status = status /\ rec[k].result = result

(* Mutant: the UPDATE has no status condition. *)
FinishedAnyStatus(k, status, result) ==
    IF rec[k].status # "NONE"
    THEN [rec EXCEPT ![k] = [@ EXCEPT !.status = status, !.result = result]]
    ELSE rec

(* The table after _finish_idempotency: only an in-progress row changes, and
   it keeps its expiry. *)
Finished(k, status, result) ==
    IF rec[k].status = "IN_PROGRESS"
    THEN [rec EXCEPT ![k] = [@ EXCEPT !.status = status, !.result = result]]
    ELSE rec

Answer(k, b, result) ==
    replies' = replies \union {[key |-> k, body |-> b, op |-> result]}

-----------------------------------------------------------------------------
(* ControlPlane._idempotent, one action per transaction *)

(* The claim finds no row: the thread owns the key and starts operating. *)
ClaimNew(w, k, b, t) ==
    /\ up /\ th[w].pc = "idle"
    /\ nextOp < MaxOps
    /\ Purged(t)[k].status = "NONE"
    /\ rec' = [Purged(t) EXCEPT ![k] = NewRecord(b, t)]
    /\ nextOp' = nextOp + 1
    /\ th' = [th EXCEPT ![w] = [pc |-> "operating", key |-> k, body |-> b,
                                op |-> nextOp + 1, claimed |-> t]]
    /\ UNCHANGED <<now, up, effects, replies, interrupted>>

(* The row belongs to another body: ConflictError, and the transaction (its
   DELETE too) is rolled back. *)
ClaimConflict(w, k, b, t) ==
    /\ up /\ th[w].pc = "idle"
    /\ Purged(t)[k].status # "NONE"
    /\ Purged(t)[k].body # b
    /\ UNCHANGED vars

(* Mutant: the digest of the body is not compared. *)
ClaimReplayAnyBody(w, k, b, t) ==
    /\ up /\ th[w].pc = "idle"
    /\ Purged(t)[k].status = "COMPLETED"
    /\ rec' = Purged(t)
    /\ Answer(k, b, Purged(t)[k].result)
    /\ UNCHANGED <<now, up, th, nextOp, effects, interrupted>>

(* The row is there with this body: a completed result is replayed, any other
   status is a ConflictError.  The DELETE commits either way. *)
ClaimReplay(w, k, b, t) ==
    /\ up /\ th[w].pc = "idle"
    /\ Purged(t)[k].status # "NONE"
    /\ Purged(t)[k].body = b
    /\ rec' = Purged(t)
    /\ IF Purged(t)[k].status = "COMPLETED"
       THEN Answer(k, b, Purged(t)[k].result)
       ELSE UNCHANGED replies
    /\ UNCHANGED <<now, up, th, nextOp, effects, interrupted>>

(* The operation's own transaction: its state change, its event and
   _complete_atomic, all or nothing. *)
Commit(w) ==
    LET k == th[w].key IN
    /\ up /\ th[w].pc = "operating"
    /\ CanFinish(k, "COMPLETED", th[w].op)
    /\ rec' = Finished(k, "COMPLETED", th[w].op)
    /\ effects' = effects \union
         {[op |-> th[w].op, key |-> k, body |-> th[w].body,
           claimed |-> rec[k].claimed]}
    /\ th' = [th EXCEPT ![w].pc = "committed"]
    /\ UNCHANGED <<now, up, nextOp, replies, interrupted>>

(* _complete_atomic raises (NotFoundError or ConflictError): everything the
   transaction did is rolled back. *)
CommitRefused(w) ==
    /\ up /\ th[w].pc = "operating"
    /\ ~CanFinish(th[w].key, "COMPLETED", th[w].op)
    /\ th' = [th EXCEPT ![w].pc = "failing"]
    /\ UNCHANGED <<now, up, rec, nextOp, effects, replies, interrupted>>

(* Mutant: the completion has a transaction of its own and stays behind when
   the operation's transaction is rolled back. *)
RaiseCompleted(w) ==
    /\ up /\ th[w].pc \in {"operating", "committed"}
    /\ rec' = Finished(th[w].key, "COMPLETED", th[w].op)
    /\ th' = [th EXCEPT ![w].pc = "failing"]
    /\ UNCHANGED <<now, up, nextOp, effects, replies, interrupted>>

(* The operation raises before its commit, or after it: metrics, the release
   of a lease or of a budget, or the second completion may fail. *)
Raise(w) ==
    /\ up /\ th[w].pc \in {"operating", "committed"}
    /\ th' = [th EXCEPT ![w].pc = "failing"]
    /\ UNCHANGED <<now, up, rec, nextOp, effects, replies, interrupted>>

(* operation() returned: complete_idempotency is called a second time. *)
Finish(w) ==
    LET k == th[w].key
        ok == CanFinish(k, "COMPLETED", th[w].op) IN
    /\ up /\ th[w].pc = "committed"
    /\ IF ok
       THEN /\ rec' = Finished(k, "COMPLETED", th[w].op)
            /\ Answer(k, th[w].body, th[w].op)
            /\ th' = [th EXCEPT ![w] = Idle]
       ELSE /\ th' = [th EXCEPT ![w].pc = "failing"]
            /\ UNCHANGED <<rec, replies>>
    /\ UNCHANGED <<now, up, nextOp, effects, interrupted>>

(* The except branch claims the key again.  The row may be gone (it is then
   inserted anew), belong to another body (ConflictError leaves the handler),
   be completed (its result is the answer), or else be marked failed next. *)
FailClaim(w, t) ==
    LET k == th[w].key
        b == th[w].body
        r == Purged(t)[k] IN
    /\ up /\ th[w].pc = "failing"
    /\ \/ /\ r.status = "NONE"
          /\ rec' = [Purged(t) EXCEPT ![k] = NewRecord(b, t)]
          /\ th' = [th EXCEPT ![w].pc = "marking"]
          /\ UNCHANGED replies
       \/ /\ r.status # "NONE" /\ r.body # b
          /\ th' = [th EXCEPT ![w] = Idle]
          /\ UNCHANGED <<rec, replies>>
       \/ /\ r.status = "COMPLETED" /\ r.body = b
          /\ rec' = Purged(t)
          /\ Answer(k, b, r.result)
          /\ th' = [th EXCEPT ![w] = Idle]
       \/ /\ r.status \in {"IN_PROGRESS", "FAILED"} /\ r.body = b
          /\ rec' = Purged(t)
          /\ th' = [th EXCEPT ![w].pc = "marking"]
          /\ UNCHANGED replies
    /\ UNCHANGED <<now, up, nextOp, effects, interrupted>>

(* Mutant: the error is re-raised without fail_idempotency. *)
MarkNothing(w) ==
    /\ up /\ th[w].pc = "marking"
    /\ th' = [th EXCEPT ![w] = Idle]
    /\ UNCHANGED <<now, up, rec, nextOp, effects, replies, interrupted>>

(* fail_idempotency, then the error is re-raised (or NotFoundError or
   ConflictError takes its place). *)
MarkFailed(w) ==
    /\ up /\ th[w].pc = "marking"
    /\ rec' = Finished(th[w].key, "FAILED", NULL)
    /\ th' = [th EXCEPT ![w] = Idle]
    /\ UNCHANGED <<now, up, nextOp, effects, replies, interrupted>>

(* The store itself fails inside the except branch: the exception leaves
   _idempotent and the row stays as it is. *)
StoreFault(w) ==
    /\ StoreFaults
    /\ up /\ th[w].pc \in {"failing", "marking"}
    /\ th' = [th EXCEPT ![w] = Idle]
    /\ UNCHANGED <<now, up, rec, nextOp, effects, replies, interrupted>>

-----------------------------------------------------------------------------
(* The environment: the process dies and is started again; time passes *)

(* Every thread is lost; what was committed stays. *)
Crash ==
    /\ up
    /\ up' = FALSE
    /\ th' = [w \in Workers |-> Idle]
    /\ interrupted' = interrupted \union
         {th[w].key : w \in {v \in Workers : th[v].pc = "operating"}}
    /\ UNCHANGED <<now, rec, nextOp, effects, replies>>

(* Mutant: a reconciled row keeps its expiry. *)
ReconciledExpiring ==
    [k \in Keys |-> IF rec[k].status = "IN_PROGRESS"
                    THEN [rec[k] EXCEPT !.status = "FAILED"] ELSE rec[k]]

(* Mutant: the UPDATE has no WHERE clause. *)
ReconciledAll ==
    [k \in Keys |-> IF rec[k].status # "NONE"
                    THEN [rec[k] EXCEPT !.status = "FAILED", !.expires = NULL]
                    ELSE rec[k]]

(* The table after reconcile_startup: rows in progress become failures that
   never expire. *)
Reconciled ==
    [k \in Keys |-> IF rec[k].status = "IN_PROGRESS"
                    THEN [rec[k] EXCEPT !.status = "FAILED", !.expires = NULL]
                    ELSE rec[k]]

(* Mutant: the service starts without reconciliation. *)
RestartUnreconciled ==
    /\ ~up
    /\ up' = TRUE
    /\ UNCHANGED <<now, rec, th, nextOp, effects, replies, interrupted>>

(* The service starts under its exclusive lock and reconciles before it
   serves. *)
Restart ==
    /\ ~up
    /\ up' = TRUE
    /\ rec' = Reconciled
    /\ UNCHANGED <<now, th, nextOp, effects, replies, interrupted>>

(* Time passes, but not past the end of a running request's MaxOp. *)
Tick ==
    /\ now < MaxTime
    /\ \A w \in Workers :
         th[w].pc # "idle" => now < th[w].claimed + MaxOp
    /\ now' = now + 1
    /\ UNCHANGED <<up, rec, th, nextOp, effects, replies, interrupted>>

(* What a thread that has claimed a key does next. *)
Step(w) ==
    \/ Commit(w)
    \/ CommitRefused(w)
    \/ Raise(w)
    \/ Finish(w)
    \/ \E t \in Stamps : FailClaim(w, t)
    \/ MarkFailed(w)
    \/ StoreFault(w)

Claim(w) ==
    \E k \in Keys, b \in Bodies, t \in Stamps :
        \/ ClaimNew(w, k, b, t)
        \/ ClaimConflict(w, k, b, t)
        \/ ClaimReplay(w, k, b, t)

Next ==
    \/ \E w \in Workers : Claim(w) \/ Step(w)
    \/ Crash
    \/ Restart
    \/ Tick

Spec == Init /\ [][Next]_vars

(* A running request takes its next step (Python threads are scheduled, every
   wait in an operation has a timeout) and a dead service is restarted by its
   supervisor.  Claims, crashes and the clock are not fair. *)
Fairness ==
    /\ \A w \in Workers : WF_vars(Step(w))
    /\ WF_vars(Restart)

FairSpec == Spec /\ Fairness

-----------------------------------------------------------------------------
(* Properties *)

(* The shape of the database rows, the threads and the history. *)
TypeOK ==
    /\ now \in 0..MaxTime
    /\ up \in BOOLEAN
    /\ rec \in [Keys -> Records]
    /\ th \in [Workers -> Threads]
    /\ nextOp \in 0..MaxOps
    /\ effects \subseteq [op : Ops, key : Keys, body : Bodies, claimed : Nat]
    /\ replies \subseteq [key : Keys, body : Bodies, op : Ops]
    /\ interrupted \subseteq Keys

(* At most once: two different effects of one key were committed under claims
   more than a retention period apart (less the timestamp lag), whatever
   retries, crashes and overlong operations lie between. *)
AtMostOnce ==
    \A e, f \in effects :
        e.key = f.key /\ e # f =>
            \/ e.claimed + TTL < f.claimed + Lag
            \/ f.claimed + TTL < e.claimed + Lag

(* Every answer sent stands for a committed effect of the same key: a replayed
   result is never one whose transaction was rolled back. *)
RepliesBacked ==
    \A r \in replies :
        \E e \in effects : e.op = r.op /\ e.key = r.key

(* Every answer was produced by a request with the same body: a client that
   reuses a key with another body never gets the first body's result
   (docs/API.md: "Changing the body under the same key returns a
   conflict."). *)
RepliesMatchBody ==
    \A r \in replies :
        \E e \in effects : e.op = r.op /\ e.key = r.key /\ e.body = r.body

(* Two threads never execute the operation of one key at the same time. *)
MutualExclusion ==
    \A v, w \in Workers :
        v # w /\ th[v].pc = "operating" /\ th[w].pc = "operating" =>
            th[v].key # th[w].key

(* While the service is up, a row in progress has a live thread that will
   finalize it: no key waits for a thread that is gone. *)
InProgressOwned ==
    up => \A k \in Keys : rec[k].status = "IN_PROGRESS" =>
            \E w \in Workers :
                /\ th[w].pc \in {"operating", "failing", "marking"}
                /\ th[w].key = k
                /\ th[w].body = rec[k].body

(* A key whose operation was cut short by a crash never takes effect again:
   reconcile_startup finalizes it for good, because an external command may
   already have run. *)
InterruptedNeverRuns ==
    [][\A e \in effects' \ effects : e.key \notin interrupted]_vars

(* A completed row is not touched before its retention is over: neither a
   late failure nor a second completion nor the reconciliation changes the
   result a retry will get. *)
ResultRetained ==
    [][\A k \in Keys :
          rec[k].status = "COMPLETED" /\ rec'[k] # rec[k]
              => rec[k].expires < now]_vars

(* No key stays in progress: its thread finalizes it, or the process dies and
   the next start does. *)
NoKeyStuck ==
    \A k \in Keys :
        rec[k].status = "IN_PROGRESS" ~> rec[k].status # "IN_PROGRESS"

-----------------------------------------------------------------------------
(* Strengthenings: what the code maintains so that the properties hold *)

(* A row was claimed in the past; it expires TTL after its claim or never, and
   never only as a failure. *)
RowTimes ==
    \A k \in Keys : rec[k].status # "NONE" =>
        /\ rec[k].claimed <= now
        /\ \/ rec[k].expires = rec[k].claimed + TTL
           \/ rec[k].expires = NULL /\ rec[k].status = "FAILED"

(* An effect's key is still covered by the row it was committed under, or that
   row's retention is over: by the clock if no row took its place, and by the
   claim of the row that did. *)
EffectsCovered ==
    \A e \in effects :
        \/ rec[e.key].status = "NONE" /\ e.claimed + TTL < now
        \/ rec[e.key].status \in {"COMPLETED", "FAILED"}
              /\ rec[e.key].claimed = e.claimed
        \/ rec[e.key].status # "NONE"
              /\ e.claimed + TTL < rec[e.key].claimed + Lag

(* Operation ids are handed out in order; the id of an operation that has not
   committed is nobody else's, and in no row and no effect. *)
OpsFresh ==
    /\ \A w \in Workers : th[w].pc # "idle" => th[w].op <= nextOp
    /\ \A w \in Workers : th[w].pc = "operating" =>
         /\ \A v \in Workers : v # w /\ th[v].pc # "idle" => th[v].op # th[w].op
         /\ \A k \in Keys : rec[k].result # th[w].op
         /\ \A e \in effects : e.op # th[w].op
    /\ \A k \in Keys : rec[k].result <= nextOp
    /\ \A e \in effects : e.op <= nextOp

(* The result in a completed row is that of a committed effect of its key. *)
ResultsBacked ==
    \A k \in Keys : rec[k].status = "COMPLETED" =>
        \E e \in effects : e.op = rec[k].result /\ e.key = k

(* A thread past its commit has its effect on record. *)
CommittedBacked ==
    \A w \in Workers : th[w].pc = "committed" =>
        \E e \in effects : e.op = th[w].op /\ e.key = th[w].key
                             /\ e.body = th[w].body

(* The rest holds when no request outlives the retention: MaxOp <= TTL. *)

(* A request is younger than MaxOp. *)
RequestTimes ==
    \A w \in Workers : th[w].pc # "idle" =>
        /\ up
        /\ th[w].claimed <= now /\ now <= th[w].claimed + MaxOp

(* A thread has the row of its claim, in the state its step expects, and no
   other thread serves its key. *)
RowOwned ==
    \A w \in Workers : th[w].pc # "idle" =>
        LET r == rec[th[w].key] IN
        /\ r.status \in {"IN_PROGRESS", "COMPLETED"}
        /\ r.claimed = th[w].claimed /\ r.body = th[w].body
        /\ th[w].pc \in {"operating", "marking"} => r.status = "IN_PROGRESS"
        /\ th[w].pc = "committed" =>
             r.status = "COMPLETED" /\ r.result = th[w].op
        /\ \A v \in Workers : v # w /\ th[v].pc # "idle" =>
             th[v].key # th[w].key

(* What a crash cut short waits for the reconciliation, or is failed for
   good. *)
InterruptedFailed ==
    \A k \in interrupted :
        \/ ~up /\ rec[k].status = "IN_PROGRESS"
        \/ rec[k].status = "FAILED" /\ rec[k].expires = NULL

(* The result in a completed row is that of its own body. *)
BodiesBacked ==
    \A k \in Keys : rec[k].status = "COMPLETED" =>
        \E e \in effects : /\ e.op = rec[k].result /\ e.key = k
                           /\ e.body = rec[k].body

InTimeInv ==
    /\ TypeOK /\ RowTimes /\ OpsFresh
    /\ RequestTimes /\ RowOwned /\ InterruptedFailed
    /\ BodiesBacked /\ RepliesMatchBody

(* Threads keep the promise InProgressOwned makes, if the store does not fail
   while it records an error. *)
OwnedInv == InTimeInv /\ InProgressOwned
=============================================================================
