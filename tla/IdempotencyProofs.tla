--------------------------- MODULE IdempotencyProofs ---------------------------
(***************************************************************************)
(* Proofs about Idempotency for every number of threads, keys and bodies   *)
(* and every TTL, Lag and MaxOp.                                           *)
(***************************************************************************)
EXTENDS Idempotency, TLAPS

(* claim_idempotency's DELETE leaves a table of the right shape. *)
LEMMA PurgedType ==
    ASSUME TypeOK, NEW t \in Nat
    PROVE  Purged(t) \in [Keys -> Records]
BY DEF TypeOK, Purged, Records

(* A row that claim_idempotency inserts is well formed. *)
LEMMA NewRecordType ==
    ASSUME NEW b \in Bodies, NEW t \in Nat
    PROVE  NewRecord(b, t) \in Records
BY IdemAssumption DEF NewRecord, Records

(* Finalizing a row keeps the table well formed. *)
LEMMA FinishedType ==
    ASSUME TypeOK, NEW k \in Keys,
           NEW s \in {"COMPLETED", "FAILED"}, NEW r \in Ops \union {NULL},
           s = "COMPLETED" => r \in Ops, s = "FAILED" => r = NULL
    PROVE  Finished(k, s, r) \in [Keys -> Records]
<1>1. CASE rec[k].status = "IN_PROGRESS"
  <2>1. rec[k] \in [status : {"IN_PROGRESS", "FAILED"}, body : Bodies,
                    result : {NULL}, claimed : Nat, expires : Nat \union {NULL}]
    BY <1>1 DEF TypeOK, Records, NoRecord
  <2>2. [rec[k] EXCEPT !.status = s, !.result = r] \in Records
    BY <2>1 DEF Records
  <2> QED BY <1>1, <2>2 DEF TypeOK, Finished
<1>2. CASE rec[k].status # "IN_PROGRESS"
  BY <1>2 DEF TypeOK, Finished
<1> QED BY <1>1, <1>2

(* reconcile_startup leaves a table of the right shape. *)
LEMMA ReconciledType ==
    ASSUME TypeOK
    PROVE  Reconciled \in [Keys -> Records]
<1> SUFFICES ASSUME NEW k \in Keys PROVE Reconciled[k] \in Records
  BY DEF Reconciled
<1>1. CASE rec[k].status = "IN_PROGRESS"
  <2>1. rec[k] \in [status : {"IN_PROGRESS", "FAILED"}, body : Bodies,
                    result : {NULL}, claimed : Nat, expires : Nat \union {NULL}]
    BY <1>1 DEF TypeOK, Records, NoRecord
  <2> QED BY <1>1, <2>1 DEF Records, Reconciled
<1>2. CASE rec[k].status # "IN_PROGRESS"
  BY <1>2 DEF TypeOK, Reconciled
<1> QED BY <1>1, <1>2

(* A timestamp is a natural number no later than the clock and at most Lag
   behind it. *)
LEMMA StampFacts ==
    ASSUME TypeOK, NEW t \in Stamps
    PROVE  t \in Nat /\ t <= now /\ now <= t + Lag
BY IdemAssumption DEF Stamps, TypeOK

(* What the type invariant says of a thread that serves a request. *)
LEMMA BusyThread ==
    ASSUME TypeOK, NEW w \in Workers, th[w].pc # "idle"
    PROVE  th[w] \in [pc : {"operating", "committed", "failing", "marking"},
                      key : Keys, body : Bodies, op : Ops, claimed : Nat]
BY DEF TypeOK, Threads, Idle

(* What the type invariant says of a row. *)
LEMMA Row ==
    ASSUME TypeOK, NEW k \in Keys, rec[k].status # "NONE"
    PROVE  /\ rec[k].body \in Bodies
           /\ rec[k].claimed \in Nat
           /\ rec[k].expires \in Nat \union {NULL}
           /\ rec[k].status = "COMPLETED" => rec[k].result \in Ops
BY DEF TypeOK, Records, NoRecord

(* Every step keeps the shape of the state. *)
LEMMA TypeStep == TypeOK /\ [Next]_vars => TypeOK'
<1> SUFFICES ASSUME TypeOK, [Next]_vars PROVE TypeOK'
  OBVIOUS
<1>1. ASSUME NEW w \in Workers, NEW k \in Keys, NEW b \in Bodies,
             NEW t \in Stamps, ClaimNew(w, k, b, t)
      PROVE  TypeOK'
  <2>1. t \in Nat BY StampFacts
  <2>2. rec' \in [Keys -> Records]
    BY <1>1, <2>1, PurgedType, NewRecordType DEF ClaimNew
  <2>3. nextOp + 1 \in Ops /\ nextOp' \in 0..MaxOps
    BY <1>1, IdemAssumption DEF ClaimNew, TypeOK, Ops
  <2>4. th' \in [Workers -> Threads]
    BY <1>1, <2>1, <2>3 DEF ClaimNew, TypeOK, Threads
  <2> QED BY <1>1, <2>2, <2>3, <2>4 DEF ClaimNew, TypeOK
<1>2. ASSUME NEW w \in Workers, NEW k \in Keys, NEW b \in Bodies,
             NEW t \in Stamps, ClaimReplay(w, k, b, t)
      PROVE  TypeOK'
  <2>1. t \in Nat BY StampFacts
  <2>2. Purged(t) \in [Keys -> Records] BY <2>1, PurgedType
  <2>3. Purged(t)[k].status = "COMPLETED" => Purged(t)[k].result \in Ops
    BY <2>2 DEF Records, NoRecord
  <2> QED BY <1>2, <2>2, <2>3 DEF ClaimReplay, Answer, TypeOK
<1>3. ASSUME NEW w \in Workers, Commit(w) PROVE TypeOK'
  <2>1. th[w].pc = "operating" BY <1>3 DEF Commit
  <2>2. /\ th[w].key \in Keys /\ th[w].body \in Bodies
        /\ th[w].op \in Ops /\ th[w].claimed \in Nat
    BY <2>1, BusyThread
  <2>3. rec' \in [Keys -> Records]
    BY <1>3, <2>2, FinishedType DEF Commit
  <2>4. rec[th[w].key].status # "NONE"
    BY <1>3, <2>2 DEF Commit, CanFinish, Records
  <2>5. rec[th[w].key].claimed \in Nat
    BY <2>2, <2>4, Row
  <2>6. th' \in [Workers -> Threads]
    BY <1>3, <2>1, BusyThread DEF Commit, TypeOK, Threads
  <2> QED BY <1>3, <2>2, <2>3, <2>5, <2>6 DEF Commit, TypeOK
<1>4. ASSUME NEW w \in Workers, CommitRefused(w) PROVE TypeOK'
  <2>1. th' \in [Workers -> Threads]
    BY <1>4, BusyThread DEF CommitRefused, TypeOK, Threads
  <2> QED BY <1>4, <2>1 DEF CommitRefused, TypeOK
<1>5. ASSUME NEW w \in Workers, Raise(w) PROVE TypeOK'
  <2>1. th' \in [Workers -> Threads]
    BY <1>5, BusyThread DEF Raise, TypeOK, Threads
  <2> QED BY <1>5, <2>1 DEF Raise, TypeOK
<1>6. ASSUME NEW w \in Workers, Finish(w) PROVE TypeOK'
  <2>1. th[w].pc = "committed" BY <1>6 DEF Finish
  <2>2. th[w].key \in Keys /\ th[w].body \in Bodies /\ th[w].op \in Ops
    BY <2>1, BusyThread
  <2>3. rec' \in [Keys -> Records]
    BY <1>6, <2>2, FinishedType DEF Finish, TypeOK
  <2>4. th' \in [Workers -> Threads]
    BY <1>6, <2>1, BusyThread DEF Finish, TypeOK, Threads
  <2>5. replies' \subseteq [key : Keys, body : Bodies, op : Ops]
    BY <1>6, <2>2 DEF Finish, Answer, TypeOK
  <2> QED BY <1>6, <2>3, <2>4, <2>5 DEF Finish, TypeOK
<1>7. ASSUME NEW w \in Workers, NEW t \in Stamps, FailClaim(w, t)
      PROVE  TypeOK'
  <2>1. th[w].pc = "failing" BY <1>7 DEF FailClaim
  <2>2. th[w].key \in Keys /\ th[w].body \in Bodies
    BY <2>1, BusyThread
  <2>3. t \in Nat BY StampFacts
  <2>4. Purged(t) \in [Keys -> Records] BY <2>3, PurgedType
  <2>5. rec' \in [Keys -> Records]
    BY <1>7, <2>2, <2>3, <2>4, NewRecordType DEF FailClaim, TypeOK
  <2>6. th' \in [Workers -> Threads]
    BY <1>7, <2>1, BusyThread DEF FailClaim, TypeOK, Threads
  <2>7. Purged(t)[th[w].key].status = "COMPLETED"
           => Purged(t)[th[w].key].result \in Ops
    BY <2>2, <2>4 DEF Records, NoRecord
  <2>8. replies' \subseteq [key : Keys, body : Bodies, op : Ops]
    BY <1>7, <2>2, <2>7 DEF FailClaim, Answer, TypeOK
  <2> QED BY <1>7, <2>5, <2>6, <2>8 DEF FailClaim, TypeOK
<1>8. ASSUME NEW w \in Workers, MarkFailed(w) PROVE TypeOK'
  <2>1. th[w].key \in Keys BY <1>8, BusyThread DEF MarkFailed
  <2>2. rec' \in [Keys -> Records]
    BY <1>8, <2>1, FinishedType DEF MarkFailed
  <2>3. th' \in [Workers -> Threads]
    BY <1>8 DEF MarkFailed, TypeOK, Threads
  <2> QED BY <1>8, <2>2, <2>3 DEF MarkFailed, TypeOK
<1>9. ASSUME NEW w \in Workers, StoreFault(w) PROVE TypeOK'
  BY <1>9 DEF StoreFault, TypeOK, Threads
<1>10. CASE Crash
  <2>1. interrupted' \subseteq Keys
    BY <1>10, BusyThread DEF Crash, TypeOK
  <2>2. th' \in [Workers -> Threads]
    BY <1>10 DEF Crash, Threads
  <2> QED BY <1>10, <2>1, <2>2 DEF Crash, TypeOK
<1>11. CASE Restart
  <2>1. rec' \in [Keys -> Records]
    BY <1>11, ReconciledType DEF Restart
  <2> QED BY <1>11, <2>1 DEF Restart, TypeOK
<1>12. CASE Tick
  BY <1>12, IdemAssumption DEF Tick, TypeOK
<1>13. CASE UNCHANGED vars
  BY <1>13 DEF vars, TypeOK
<1> QED
  BY <1>1, <1>2, <1>3, <1>4, <1>5, <1>6, <1>7, <1>8, <1>9, <1>10, <1>11, <1>12, <1>13
  DEF Next, Claim, Step, ClaimConflict

(* The shape of rows, threads and history is invariant. *)
THEOREM TypeCorrect == Spec => []TypeOK
<1>1. Init => TypeOK
  BY IdemAssumption DEF Init, TypeOK, Records, Threads
<1> QED BY <1>1, TypeStep, PTL DEF Spec

-----------------------------------------------------------------------------
(* How a step changes one row *)

Expired(k) == rec[k].expires # NULL /\ rec[k].expires < now

RowKept(k) == rec'[k] = rec[k]

RowPurged(k) == Expired(k) /\ rec'[k] = NoRecord

RowClaimed(k) ==
    /\ rec[k].status = "NONE" \/ Expired(k)
    /\ \E b \in Bodies, t \in Nat :
          /\ t <= now /\ now <= t + Lag
          /\ rec'[k] = NewRecord(b, t)

RowFinalized(k) ==
    /\ rec[k].status = "IN_PROGRESS"
    /\ rec'[k].status \in {"COMPLETED", "FAILED"}
    /\ rec'[k].claimed = rec[k].claimed
    /\ rec'[k].body = rec[k].body
    /\ \/ rec'[k].expires = rec[k].expires
       \/ rec'[k].expires = NULL /\ rec'[k].status = "FAILED"

RowChange(k) == RowKept(k) \/ RowPurged(k) \/ RowClaimed(k) \/ RowFinalized(k)

(* The DELETE of claim_idempotency only removes expired rows. *)
LEMMA PurgedRows ==
    ASSUME TypeOK, NEW t \in Stamps, NEW k \in Keys
    PROVE  \/ Purged(t)[k] = rec[k]
           \/ Expired(k) /\ Purged(t)[k] = NoRecord
<1>1. t \in Nat /\ t <= now /\ now \in Nat
  BY StampFacts, IdemAssumption DEF TypeOK
<1>2. CASE rec[k].expires # NULL /\ rec[k].expires < t
  <2>1. rec[k].expires \in Nat
    BY <1>2 DEF TypeOK, Records, NoRecord
  <2> QED BY <1>1, <1>2, <2>1 DEF Purged, Expired
<1>3. CASE ~(rec[k].expires # NULL /\ rec[k].expires < t)
  BY <1>3 DEF Purged
<1> QED BY <1>2, <1>3

(* A claim that inserts a row purges or keeps the others. *)
LEMMA ClaimedRows ==
    ASSUME TypeOK, NEW t \in Stamps, NEW k \in Keys, NEW b \in Bodies,
           Purged(t)[k].status = "NONE",
           rec' = [Purged(t) EXCEPT ![k] = NewRecord(b, t)], NEW j \in Keys
    PROVE  RowChange(j)
<1>1. /\ t \in Nat /\ t <= now /\ now <= t + Lag
      /\ Purged(t) \in [Keys -> Records]
  BY StampFacts, PurgedType
<1>2. CASE j = k
  <2>1. rec'[j] = NewRecord(b, t) BY <1>1, <1>2
  <2>2. rec[j].status = "NONE" \/ Expired(j) BY <1>2, PurgedRows
  <2> QED BY <1>1, <2>1, <2>2 DEF RowChange, RowClaimed
<1>3. CASE j # k
  <2>1. rec'[j] = Purged(t)[j] BY <1>1, <1>3
  <2> QED BY <2>1, PurgedRows DEF RowChange, RowKept, RowPurged
<1> QED BY <1>2, <1>3

(* Finalizing changes one row, and only if it was in progress. *)
LEMMA FinishedRows ==
    ASSUME TypeOK, NEW k \in Keys, NEW s \in {"COMPLETED", "FAILED"}, NEW r,
           rec' = Finished(k, s, r), NEW j \in Keys
    PROVE  RowChange(j)
<1>1. CASE rec[k].status = "IN_PROGRESS" /\ j = k
  <2>1. rec[k] \in [status : {"IN_PROGRESS", "FAILED"}, body : Bodies,
                    result : {NULL}, claimed : Nat, expires : Nat \union {NULL}]
    BY <1>1 DEF TypeOK, Records, NoRecord
  <2>2. rec'[j] = [rec[k] EXCEPT !.status = s, !.result = r]
    BY <1>1 DEF Finished, TypeOK
  <2> QED BY <1>1, <2>1, <2>2 DEF RowChange, RowFinalized
<1>2. CASE ~(rec[k].status = "IN_PROGRESS" /\ j = k)
  BY <1>2 DEF Finished, TypeOK, RowChange, RowKept
<1> QED BY <1>1, <1>2

(* The clock does not go back. *)
LEMMA ClockStep ==
    ASSUME TypeOK, [Next]_vars
    PROVE  now \in Nat /\ now' \in Nat /\ now <= now'
<1>1. now \in Nat BY IdemAssumption DEF TypeOK
<1>2. now' = now \/ now' = now + 1
  BY DEF Next, Claim, Step, ClaimNew, ClaimConflict, ClaimReplay, Commit,
         CommitRefused, Raise, Finish, FailClaim, MarkFailed, StoreFault, Crash,
         Restart, Tick, vars
<1> QED BY <1>1, <1>2

(* Every step keeps, purges, claims or finalizes each row. *)
LEMMA RowChanges ==
    ASSUME TypeOK, [Next]_vars
    PROVE  \A j \in Keys : RowChange(j)
<1> SUFFICES ASSUME NEW j \in Keys PROVE RowChange(j)
  OBVIOUS
<1>1. ASSUME NEW w \in Workers, NEW k \in Keys, NEW b \in Bodies,
             NEW t \in Stamps, ClaimNew(w, k, b, t)
      PROVE  RowChange(j)
  BY <1>1, ClaimedRows DEF ClaimNew
<1>2. ASSUME NEW w \in Workers, NEW k \in Keys, NEW b \in Bodies,
             NEW t \in Stamps, ClaimReplay(w, k, b, t)
      PROVE  RowChange(j)
  BY <1>2, PurgedRows DEF ClaimReplay, RowChange, RowKept, RowPurged
<1>3. ASSUME NEW w \in Workers, Commit(w) PROVE RowChange(j)
  <2>1. th[w].key \in Keys BY <1>3, BusyThread DEF Commit
  <2> QED BY <1>3, <2>1, FinishedRows DEF Commit
<1>4. ASSUME NEW w \in Workers, CommitRefused(w) \/ Raise(w) \/ StoreFault(w)
      PROVE RowChange(j)
  BY <1>4 DEF CommitRefused, Raise, StoreFault, RowChange, RowKept
<1>5. ASSUME NEW w \in Workers, Finish(w) PROVE RowChange(j)
  <2>1. th[w].key \in Keys BY <1>5, BusyThread DEF Finish
  <2>2. CASE rec' = Finished(th[w].key, "COMPLETED", th[w].op)
    BY <1>5, <2>1, <2>2, FinishedRows DEF Finish
  <2>3. CASE rec' = rec
    BY <1>5, <2>3 DEF Finish, RowChange, RowKept
  <2> QED BY <1>5, <2>2, <2>3 DEF Finish
<1>6. ASSUME NEW w \in Workers, NEW t \in Stamps, FailClaim(w, t)
      PROVE  RowChange(j)
  <2>1. th[w].key \in Keys /\ th[w].body \in Bodies
    BY <1>6, BusyThread DEF FailClaim
  <2>2. CASE /\ Purged(t)[th[w].key].status = "NONE"
             /\ rec' = [Purged(t) EXCEPT ![th[w].key] = NewRecord(th[w].body, t)]
    BY <1>6, <2>1, <2>2, ClaimedRows DEF FailClaim
  <2>3. CASE rec' = Purged(t)
    BY <1>6, <2>3, PurgedRows DEF FailClaim, RowChange, RowKept, RowPurged
  <2>4. CASE rec' = rec
    BY <1>6, <2>4 DEF FailClaim, RowChange, RowKept
  <2> QED BY <1>6, <2>2, <2>3, <2>4 DEF FailClaim
<1>7. ASSUME NEW w \in Workers, MarkFailed(w) PROVE RowChange(j)
  <2>1. th[w].key \in Keys BY <1>7, BusyThread DEF MarkFailed
  <2> QED BY <1>7, <2>1, FinishedRows DEF MarkFailed
<1>8. CASE Crash
  BY <1>8 DEF Crash, RowChange, RowKept
<1>9. CASE Restart
  <2>0. rec' = Reconciled BY <1>9 DEF Restart
  <2>1. CASE rec[j].status = "IN_PROGRESS"
    <3>1. rec[j] \in [status : {"IN_PROGRESS", "FAILED"}, body : Bodies,
                      result : {NULL}, claimed : Nat, expires : Nat \union {NULL}]
      BY <2>1 DEF TypeOK, Records, NoRecord
    <3>2. rec'[j] = [rec[j] EXCEPT !.status = "FAILED", !.expires = NULL]
      BY <2>0, <2>1 DEF Reconciled
    <3> QED BY <2>1, <3>1, <3>2 DEF RowChange, RowFinalized
  <2>2. CASE rec[j].status # "IN_PROGRESS"
    <3>1. rec'[j] = rec[j] BY <2>0, <2>2 DEF Reconciled
    <3> QED BY <3>1 DEF RowChange, RowKept
  <2> QED BY <2>1, <2>2
<1>10. CASE Tick
  BY <1>10 DEF Tick, RowChange, RowKept
<1>11. CASE UNCHANGED vars
  BY <1>11 DEF vars, RowChange, RowKept
<1> QED
  BY <1>1, <1>2, <1>3, <1>4, <1>5, <1>6, <1>7, <1>8, <1>9, <1>10, <1>11
  DEF Next, Claim, Step, ClaimConflict

-----------------------------------------------------------------------------
(* At most once *)

(* Rows keep a claim in the past and an expiry TTL after it. *)
LEMMA RowTimesStep ==
    ASSUME TypeOK, RowTimes, [Next]_vars
    PROVE  RowTimes'
<1> SUFFICES ASSUME NEW k \in Keys, rec'[k].status # "NONE"
             PROVE  /\ rec'[k].claimed <= now'
                    /\ \/ rec'[k].expires = rec'[k].claimed + TTL
                       \/ rec'[k].expires = NULL /\ rec'[k].status = "FAILED"
  BY DEF RowTimes
<1>1. now \in Nat /\ now' \in Nat /\ now <= now' /\ RowChange(k)
  BY RowChanges, ClockStep
<1>2. CASE RowKept(k)
  BY <1>1, <1>2, Row DEF RowKept, RowTimes
<1>3. CASE RowPurged(k)
  BY <1>3 DEF RowPurged, NoRecord
<1>4. CASE RowClaimed(k)
  BY <1>1, <1>4 DEF RowClaimed, NewRecord
<1>5. CASE RowFinalized(k)
  BY <1>1, <1>5, Row DEF RowFinalized, RowTimes
<1> QED BY <1>1, <1>2, <1>3, <1>4, <1>5 DEF RowChange

(* The only effect a step adds is committed under a row in progress, which
   that step completes: an operation's id is in no completed row before its
   commit. *)
LEMMA NewEffect ==
    ASSUME TypeOK, OpsFresh, [Next]_vars, NEW e \in effects', e \notin effects
    PROVE  /\ effects' = effects \union {e}
           /\ e.key \in Keys
           /\ e.claimed = rec[e.key].claimed
           /\ rec[e.key].status = "IN_PROGRESS"
           /\ rec'[e.key].status = "COMPLETED"
           /\ rec'[e.key].claimed = e.claimed
           /\ rec'[e.key].body = rec[e.key].body
           /\ \E w \in Workers : th[w].pc = "operating" /\ th[w].key = e.key
                                 /\ th[w].body = e.body /\ th[w].op = e.op
<1>1. PICK w \in Workers : Commit(w)
  BY DEF Next, Claim, Step, ClaimNew, ClaimConflict, ClaimReplay, CommitRefused,
         Raise, Finish, FailClaim, MarkFailed, StoreFault, Crash, Restart, Tick, vars
<1> DEFINE k == th[w].key
<1>2. k \in Keys /\ th[w].op \in Ops BY <1>1, BusyThread DEF Commit
<1>3. /\ e = [op |-> th[w].op, key |-> k, body |-> th[w].body,
               claimed |-> rec[k].claimed]
      /\ effects' = effects \union {e}
  BY <1>1 DEF Commit
<1>4. rec[k].status = "IN_PROGRESS"
  BY <1>1, <1>2 DEF Commit, CanFinish, OpsFresh
<1>5. rec'[k] = [rec[k] EXCEPT !.status = "COMPLETED", !.result = th[w].op]
  BY <1>1, <1>2, <1>4 DEF Commit, Finished, TypeOK
<1>6. rec[k] \in [status : {"IN_PROGRESS", "FAILED"}, body : Bodies,
                  result : {NULL}, claimed : Nat, expires : Nat \union {NULL}]
  BY <1>2, <1>4 DEF TypeOK, Records, NoRecord
<1>7. /\ rec'[k].status = "COMPLETED" /\ rec'[k].claimed = rec[k].claimed
      /\ rec'[k].body = rec[k].body
  BY <1>5, <1>6
<1> QED BY <1>1, <1>2, <1>3, <1>4, <1>7 DEF Commit

(* How a step changes one thread: it stays, moves on within its request, ends
   its request, or starts a new one. *)
ThreadChange(w) ==
    \/ th'[w] = th[w]
    \/ /\ th[w].pc # "idle"
       /\ th'[w].pc \in {"committed", "failing", "marking"}
       /\ th'[w].key = th[w].key /\ th'[w].body = th[w].body
       /\ th'[w].op = th[w].op /\ th'[w].claimed = th[w].claimed
    \/ th'[w] = Idle
    \/ /\ th[w].pc = "idle" /\ th'[w].pc = "operating"
       /\ nextOp' = nextOp + 1 /\ th'[w].op = nextOp'

(* A thread that moves on keeps its key, body, operation and claim. *)
LEMMA MovedThread ==
    ASSUME TypeOK, NEW w \in Workers, th[w].pc # "idle",
           NEW p \in {"committed", "failing", "marking"},
           th' = [th EXCEPT ![w].pc = p], NEW v \in Workers
    PROVE  ThreadChange(v)
<1>1. CASE v = w
  <2>1. th'[v] = [th[w] EXCEPT !.pc = p] BY <1>1 DEF TypeOK
  <2> QED BY <1>1, <2>1, BusyThread DEF ThreadChange
<1>2. CASE v # w
  BY <1>2 DEF TypeOK, ThreadChange
<1> QED BY <1>1, <1>2

(* Every step changes each thread in one of those ways. *)
LEMMA ThreadChanges ==
    ASSUME TypeOK, [Next]_vars
    PROVE  \A v \in Workers : ThreadChange(v)
<1> SUFFICES ASSUME NEW v \in Workers PROVE ThreadChange(v)
  OBVIOUS
<1>1. ASSUME NEW w \in Workers, NEW k \in Keys, NEW b \in Bodies,
             NEW t \in Stamps, ClaimNew(w, k, b, t)
      PROVE  ThreadChange(v)
  <2>1. CASE v = w BY <1>1, <2>1 DEF ClaimNew, ThreadChange, TypeOK
  <2>2. CASE v # w BY <1>1, <2>2 DEF ClaimNew, ThreadChange, TypeOK
  <2> QED BY <2>1, <2>2
<1>2. ASSUME NEW w \in Workers, Commit(w) PROVE ThreadChange(v)
  BY <1>2, MovedThread DEF Commit
<1>3. ASSUME NEW w \in Workers, CommitRefused(w) PROVE ThreadChange(v)
  BY <1>3, MovedThread DEF CommitRefused
<1>4. ASSUME NEW w \in Workers, Raise(w) PROVE ThreadChange(v)
  BY <1>4, MovedThread DEF Raise
<1>5. ASSUME NEW w \in Workers, th' = [th EXCEPT ![w] = Idle]
      PROVE  ThreadChange(v)
  BY <1>5 DEF ThreadChange, TypeOK
<1>6. ASSUME NEW w \in Workers, Finish(w) PROVE ThreadChange(v)
  <2>1. CASE th' = [th EXCEPT ![w].pc = "failing"]
    BY <1>6, <2>1, MovedThread DEF Finish
  <2> QED BY <1>5, <1>6, <2>1 DEF Finish
<1>7. ASSUME NEW w \in Workers, NEW t \in Stamps, FailClaim(w, t)
      PROVE  ThreadChange(v)
  <2>1. CASE th' = [th EXCEPT ![w].pc = "marking"]
    BY <1>7, <2>1, MovedThread DEF FailClaim
  <2> QED BY <1>5, <1>7, <2>1 DEF FailClaim
<1>8. ASSUME NEW w \in Workers, MarkFailed(w) \/ StoreFault(w)
      PROVE  ThreadChange(v)
  BY <1>5, <1>8 DEF MarkFailed, StoreFault
<1>9. CASE Crash
  BY <1>9 DEF Crash, ThreadChange
<1>10. CASE th' = th
  BY <1>10 DEF ThreadChange
<1> QED
  BY <1>1, <1>2, <1>3, <1>4, <1>6, <1>7, <1>8, <1>9, <1>10
  DEF Next, Claim, Step, ClaimConflict, ClaimReplay, Restart, Tick, vars

(* The result of a row after a step: what it was, none, or the id of an
   operation whose thread is past its commit. *)
LEMMA ResultChanges ==
    ASSUME TypeOK, [Next]_vars, NEW k \in Keys
    PROVE  \/ rec'[k].result = rec[k].result
           \/ rec'[k].result = NULL
           \/ \E w \in Workers : /\ th[w].pc \in {"operating", "committed"}
                                 /\ th'[w].pc # "operating"
                                 /\ rec'[k].result = th[w].op
<1>1. ASSUME NEW t \in Nat, rec' = Purged(t)
      PROVE  rec'[k].result \in {rec[k].result, NULL}
  BY <1>1 DEF Purged, NoRecord
<1>2. ASSUME NEW t \in Nat, NEW j, NEW b,
             rec' = [Purged(t) EXCEPT ![j] = NewRecord(b, t)]
      PROVE  rec'[k].result \in {rec[k].result, NULL}
  BY <1>2 DEF Purged, NewRecord, NoRecord
<1>3. ASSUME NEW j \in Keys, NEW s, NEW r, rec' = Finished(j, s, r)
      PROVE  rec'[k].result \in {rec[k].result, r}
  <2>1. CASE rec[j].status = "IN_PROGRESS" /\ j = k
    <3>1. rec'[k] = [rec[k] EXCEPT !.status = s, !.result = r]
      BY <1>3, <2>1 DEF Finished, TypeOK
    <3>2. rec[k] \in [status : {"IN_PROGRESS", "FAILED"}, body : Bodies,
                result : {NULL}, claimed : Nat, expires : Nat \union {NULL}]
      BY <2>1 DEF TypeOK, Records, NoRecord
    <3> QED BY <3>1, <3>2
  <2>2. CASE ~(rec[j].status = "IN_PROGRESS" /\ j = k)
    BY <1>3, <2>2 DEF Finished, TypeOK
  <2> QED BY <2>1, <2>2
<1>4. ASSUME NEW w \in Workers, Commit(w)
      PROVE  /\ rec'[k].result \in {rec[k].result, th[w].op}
             /\ th'[w].pc # "operating"
  <2>1. th[w].key \in Keys BY <1>4, BusyThread DEF Commit
  <2>2. rec'[k].result \in {rec[k].result, th[w].op}
    BY <1>3, <1>4, <2>1 DEF Commit
  <2> QED BY <1>4, <2>2 DEF Commit, TypeOK, Threads, Idle
<1>5. ASSUME NEW w \in Workers, Finish(w)
      PROVE  /\ rec'[k].result \in {rec[k].result, th[w].op}
             /\ th'[w].pc # "operating"
  <2>1. th[w].key \in Keys BY <1>5, BusyThread DEF Finish
  <2>2. rec'[k].result \in {rec[k].result, th[w].op}
    BY <1>3, <1>5, <2>1 DEF Finish
  <2>3. ThreadChange(w) /\ th[w].pc = "committed"
    BY <1>5, ThreadChanges DEF Finish
  <2> QED BY <2>2, <2>3 DEF ThreadChange, Idle
<1>6. ASSUME NEW w \in Workers, MarkFailed(w)
      PROVE  rec'[k].result \in {rec[k].result, NULL}
  <2>1. th[w].key \in Keys BY <1>6, BusyThread DEF MarkFailed
  <2> QED BY <1>3, <1>6, <2>1 DEF MarkFailed
<1>7. CASE Restart
  <2>1. rec' = Reconciled BY <1>7 DEF Restart
  <2>2. CASE rec[k].status = "IN_PROGRESS"
    <3>1. rec'[k] = [rec[k] EXCEPT !.status = "FAILED", !.expires = NULL]
      BY <2>1, <2>2 DEF Reconciled
    <3>2. rec[k] \in [status : {"IN_PROGRESS", "FAILED"}, body : Bodies,
                result : {NULL}, claimed : Nat, expires : Nat \union {NULL}]
      BY <2>2 DEF TypeOK, Records, NoRecord
    <3> QED BY <3>1, <3>2
  <2>3. CASE rec[k].status # "IN_PROGRESS"
    BY <2>1, <2>3 DEF Reconciled
  <2> QED BY <2>2, <2>3
<1>8. ASSUME NEW w \in Workers, NEW j \in Keys, NEW b \in Bodies,
             NEW t \in Stamps, ClaimNew(w, j, b, t) \/ ClaimReplay(w, j, b, t)
      PROVE  rec'[k].result \in {rec[k].result, NULL}
  BY <1>1, <1>2, <1>8, StampFacts DEF ClaimNew, ClaimReplay
<1>9. ASSUME NEW w \in Workers, NEW t \in Stamps, FailClaim(w, t)
      PROVE  rec'[k].result \in {rec[k].result, NULL}
  <2>1. t \in Nat BY StampFacts
  <2> QED BY <1>1, <1>2, <1>9, <2>1 DEF FailClaim
<1>10. CASE rec' = rec
  BY <1>10
<1> QED
  BY <1>4, <1>5, <1>6, <1>7, <1>8, <1>9, <1>10
  DEF Next, Claim, Step, Commit, Finish, ClaimConflict, CommitRefused, Raise,
      StoreFault, Crash, Tick, vars

(* The counter of operations only grows. *)
LEMMA CounterStep ==
    ASSUME TypeOK, [Next]_vars
    PROVE  nextOp \in Nat /\ nextOp' \in Nat /\ nextOp <= nextOp'
<1>1. nextOp \in Nat BY IdemAssumption DEF TypeOK
<1>2. nextOp' = nextOp \/ nextOp' = nextOp + 1
  BY DEF Next, Claim, Step, ClaimNew, ClaimConflict, ClaimReplay, Commit,
         CommitRefused, Raise, Finish, FailClaim, MarkFailed, StoreFault, Crash,
         Restart, Tick, vars
<1> QED BY <1>1, <1>2

(* Two threads do not start an operation in one step. *)
LEMMA OneStarts ==
    ASSUME TypeOK, [Next]_vars, NEW w \in Workers,
           th[w].pc = "idle", th'[w].pc = "operating"
    PROVE  \A v \in Workers : v # w => th'[v] = th[v]
<1>1. th' # th BY DEF TypeOK
<1>2. ASSUME NEW u \in Workers, NEW p, th[u].pc # "idle",
             th' = [th EXCEPT ![u].pc = p]
      PROVE  FALSE
  BY <1>2 DEF TypeOK
<1>3. ASSUME NEW u \in Workers, th' = [th EXCEPT ![u] = Idle]
      PROVE  FALSE
  BY <1>3 DEF TypeOK, Idle
<1>4. PICK u \in Workers, k \in Keys, b \in Bodies, t \in Stamps :
        ClaimNew(u, k, b, t)
  BY <1>1, <1>2, <1>3
  DEF Next, Claim, Step, ClaimConflict, ClaimReplay, Commit, CommitRefused, Raise,
      Finish, FailClaim, MarkFailed, StoreFault, Crash, Restart, Tick, vars, Idle
<1>5. u = w BY <1>4 DEF ClaimNew, TypeOK
<1> QED BY <1>4, <1>5 DEF ClaimNew, TypeOK

(* Operation ids stay fresh until their commit. *)
LEMMA OpsFreshStep ==
    ASSUME TypeOK, OpsFresh, [Next]_vars
    PROVE  OpsFresh'
<1>0. nextOp \in Nat /\ nextOp' \in Nat /\ nextOp <= nextOp'
  BY CounterStep
<1>1. ASSUME NEW w \in Workers, th'[w].pc # "idle"
      PROVE  th'[w].op <= nextOp'
  <2>1. ThreadChange(w) BY ThreadChanges
  <2>2. th[w].pc # "idle" => th[w].op \in Nat /\ th[w].op <= nextOp
    BY BusyThread DEF OpsFresh, Ops
  <2> QED BY <1>0, <1>1, <2>1, <2>2 DEF ThreadChange, Idle
<1>2. ASSUME NEW w \in Workers, th'[w].pc = "operating"
      PROVE  \/ th[w].pc = "operating" /\ th'[w] = th[w]
             \/ /\ th[w].pc = "idle" /\ th'[w].op = nextOp + 1
                /\ nextOp' = nextOp + 1
  <2>1. ThreadChange(w) BY ThreadChanges
  <2> QED BY <1>2, <2>1 DEF ThreadChange, Idle
<1>3. ASSUME NEW k \in Keys
      PROVE  rec[k].result \in Int /\ rec[k].result <= nextOp
  BY <1>3 DEF TypeOK, Records, NoRecord, Ops, NULL, OpsFresh
<1>4. ASSUME NEW k \in Keys
      PROVE  rec'[k].result \in Int /\ rec'[k].result <= nextOp
  <2>1. ASSUME NEW w \in Workers, th[w].pc \in {"operating", "committed"}
        PROVE  th[w].op \in Int /\ th[w].op <= nextOp
    BY <2>1, BusyThread DEF OpsFresh, Ops
  <2> QED BY <1>0, <1>3, <2>1, ResultChanges DEF NULL
<1>5. ASSUME NEW e \in effects'
      PROVE  /\ e.op \in Int /\ e.op <= nextOp
             /\ \/ e \in effects
                \/ \E w \in Workers : /\ th[w].pc = "operating"
                                      /\ th'[w].pc # "operating"
                                      /\ e.op = th[w].op
  <2>1. CASE e \in effects
    BY <2>1 DEF TypeOK, OpsFresh, Ops
  <2>2. CASE e \notin effects
    <3>1. PICK w \in Workers : Commit(w)
      BY <2>2
      DEF Next, Claim, Step, ClaimNew, ClaimConflict, ClaimReplay, CommitRefused,
          Raise, Finish, FailClaim, MarkFailed, StoreFault, Crash, Restart, Tick, vars
    <3>2. e.op = th[w].op /\ th[w].pc = "operating"
      BY <2>2, <3>1 DEF Commit
    <3>3. th'[w].pc # "operating"
      <4>1. th'[w] = [th[w] EXCEPT !.pc = "committed"]
        BY <3>1 DEF Commit, TypeOK
      <4> QED BY <3>2, <4>1, BusyThread
    <3>4. th[w].op \in Int /\ th[w].op <= nextOp
      BY <3>2, BusyThread DEF OpsFresh, Ops
    <3> QED BY <3>2, <3>3, <3>4
  <2> QED BY <2>1, <2>2
<1>6. ASSUME NEW w \in Workers, th'[w].pc = "operating",
             NEW v \in Workers, v # w, th'[v].pc # "idle"
      PROVE  th'[v].op # th'[w].op
  <2>1. CASE th[w].pc = "operating" /\ th'[w] = th[w]
    <3>1. th[w].op <= nextOp /\ th[w].op \in Nat
      BY <2>1, BusyThread DEF OpsFresh, Ops
    <3>2. th[v].pc # "idle" => th[v].op # th[w].op
      BY <1>6, <2>1 DEF OpsFresh
    <3>3. ThreadChange(v) BY ThreadChanges
    <3> QED BY <1>0, <1>6, <2>1, <3>1, <3>2, <3>3 DEF ThreadChange, Idle
  <2>2. CASE th[w].pc = "idle" /\ th'[w].op = nextOp + 1
    <3>1. th'[v] = th[v] BY <1>6, <2>2, OneStarts
    <3>2. th[v].op \in Nat /\ th[v].op <= nextOp
      BY <1>6, <3>1, BusyThread DEF OpsFresh, Ops
    <3> QED BY <1>0, <2>2, <3>1, <3>2
  <2> QED BY <1>2, <1>6, <2>1, <2>2
<1>7. ASSUME NEW w \in Workers, th'[w].pc = "operating", NEW k \in Keys
      PROVE  rec'[k].result # th'[w].op
  <2>1. CASE th[w].pc = "operating" /\ th'[w] = th[w]
    <3>1. th[w].op \in Nat BY <2>1, BusyThread DEF Ops
    <3>2. rec[k].result # th[w].op BY <2>1 DEF OpsFresh
    <3>3. ASSUME NEW v \in Workers, th[v].pc \in {"operating", "committed"},
                 th'[v].pc # "operating"
          PROVE  th[v].op # th[w].op
      BY <1>7, <2>1, <3>3 DEF OpsFresh
    <3> QED BY <2>1, <3>1, <3>2, <3>3, ResultChanges DEF NULL
  <2>2. CASE th'[w].op = nextOp + 1
    BY <1>0, <1>4, <2>2
  <2> QED BY <1>2, <1>7, <2>1, <2>2
<1>8. ASSUME NEW w \in Workers, th'[w].pc = "operating", NEW e \in effects'
      PROVE  e.op # th'[w].op
  <2>1. CASE th[w].pc = "operating" /\ th'[w] = th[w]
    <3>1. CASE e \in effects BY <2>1, <3>1 DEF OpsFresh
    <3>2. ASSUME NEW v \in Workers, th[v].pc = "operating",
                 th'[v].pc # "operating", e.op = th[v].op
          PROVE  e.op # th[w].op
      BY <1>8, <2>1, <3>2 DEF OpsFresh
    <3> QED BY <1>5, <1>8, <2>1, <3>1, <3>2
  <2>2. CASE th'[w].op = nextOp + 1
    BY <1>0, <1>5, <1>8, <2>2
  <2> QED BY <1>2, <1>8, <2>1, <2>2
<1>9. ASSUME NEW k \in Keys PROVE rec'[k].result <= nextOp'
  BY <1>0, <1>4
<1>10. ASSUME NEW e \in effects' PROVE e.op <= nextOp'
  BY <1>0, <1>5
<1> QED BY <1>1, <1>6, <1>7, <1>8, <1>9, <1>10 DEF OpsFresh

(* Effects stay covered: a purge happens after the retention, a new claim
   after a purge, and a commit completes the row it is made under. *)
LEMMA EffectsCoveredStep ==
    ASSUME TypeOK, RowTimes, OpsFresh, EffectsCovered, [Next]_vars
    PROVE  EffectsCovered'
<1> SUFFICES ASSUME NEW e \in effects'
    PROVE \/ rec'[e.key].status = "NONE" /\ e.claimed + TTL < now'
          \/ rec'[e.key].status \in {"COMPLETED", "FAILED"}
                /\ rec'[e.key].claimed = e.claimed
          \/ rec'[e.key].status # "NONE"
                /\ e.claimed + TTL < rec'[e.key].claimed + Lag
  BY DEF EffectsCovered
<1>1. CASE e \notin effects
  BY <1>1, NewEffect
<1>2. CASE e \in effects
  <2> DEFINE k == e.key
  <2>1. k \in Keys /\ e.claimed \in Nat
    BY <1>2 DEF TypeOK
  <2>2. now \in Nat /\ now' \in Nat /\ now <= now'
    BY ClockStep
  <2>3. TTL \in Nat /\ Lag \in Nat /\ Lag <= TTL
    BY IdemAssumption
  <2>4. rec[k].status # "NONE" =>
          /\ rec[k].claimed \in Nat
          /\ rec[k].claimed <= now
          /\ rec[k].expires = rec[k].claimed + TTL \/ rec[k].expires = NULL
    BY <2>1, Row DEF RowTimes
  <2>5. \/ rec[k].status = "NONE" /\ e.claimed + TTL < now
        \/ rec[k].status \in {"COMPLETED", "FAILED"} /\ rec[k].claimed = e.claimed
        \/ rec[k].status # "NONE" /\ e.claimed + TTL < rec[k].claimed + Lag
    BY <1>2 DEF EffectsCovered
  <2>6. rec[k].status = "NONE" => ~Expired(k)
    BY <2>1 DEF TypeOK, Records, NoRecord, Expired
  <2>7. rec[k].status = "NONE" \/ Expired(k) => e.claimed + TTL < now
    BY <2>1, <2>2, <2>3, <2>4, <2>5, <2>6 DEF Expired
  <2>8. CASE RowKept(k)
    BY <2>1, <2>2, <2>3, <2>5, <2>8 DEF RowKept
  <2>9. CASE RowPurged(k)
    BY <2>1, <2>2, <2>3, <2>7, <2>9 DEF RowPurged, NoRecord
  <2>10. CASE RowClaimed(k)
    BY <2>1, <2>2, <2>3, <2>7, <2>10 DEF RowClaimed, NewRecord
  <2>11. CASE RowFinalized(k)
    BY <2>5, <2>11 DEF RowFinalized
  <2> QED BY <2>1, <2>8, <2>9, <2>10, <2>11, RowChanges DEF RowChange
<1> QED BY <1>1, <1>2

(* A commit keeps at most once: the row it is made under was claimed a
   retention after every earlier effect. *)
LEMMA AtMostOnceStep ==
    ASSUME TypeOK, OpsFresh, EffectsCovered, AtMostOnce, [Next]_vars
    PROVE  AtMostOnce'
<1>1. ASSUME NEW e \in effects', e \notin effects, NEW f \in effects,
             e.key = f.key
      PROVE  f.claimed + TTL < e.claimed + Lag
  <2>1. rec[e.key].status = "IN_PROGRESS" /\ rec[e.key].claimed = e.claimed
    BY <1>1, NewEffect
  <2> QED BY <1>1, <2>1 DEF EffectsCovered
<1>2. ASSUME NEW e \in effects', NEW f \in effects', e # f
      PROVE  e \in effects \/ f \in effects
  BY <1>2, NewEffect
<1> QED BY <1>1, <1>2 DEF AtMostOnce

(* At most once (docs/API.md, retention of idempotency keys): however requests
   are retried, threads delayed and the process killed, two effects of one key
   are more than TTL - Lag seconds apart. *)
THEOREM AtMostOnceCorrect == Spec => []AtMostOnce
<1> DEFINE IInv == TypeOK /\ RowTimes /\ OpsFresh /\ EffectsCovered /\ AtMostOnce
<1>1. Init => IInv
  BY IdemAssumption
  DEF Init, TypeOK, RowTimes, OpsFresh, EffectsCovered, AtMostOnce, Records,
      Threads, NoRecord, Idle, NULL
<1>2. IInv /\ [Next]_vars => IInv'
  BY TypeStep, RowTimesStep, OpsFreshStep, EffectsCoveredStep, AtMostOnceStep
<1>3. IInv => AtMostOnce
  OBVIOUS
<1> QED BY <1>1, <1>2, <1>3, PTL DEF Spec

-----------------------------------------------------------------------------
(* Results and answers *)

(* A completed row changes only after it has expired, whatever the threads do
   that are late, fail or finish twice. *)
THEOREM ResultsRetained == Spec => ResultRetained
<1>1. ASSUME TypeOK, [Next]_vars, NEW k \in Keys,
             rec[k].status = "COMPLETED", rec'[k] # rec[k]
      PROVE  rec[k].expires < now
  <2>1. RowChange(k) BY <1>1, RowChanges
  <2> QED BY <1>1, <2>1
          DEF RowChange, RowKept, RowPurged, RowClaimed, RowFinalized, Expired
<1>2. TypeOK /\ [Next]_vars =>
        [\A k \in Keys : rec[k].status = "COMPLETED" /\ rec'[k] # rec[k]
                            => rec[k].expires < now]_vars
  BY <1>1
<1> QED BY <1>2, TypeCorrect, PTL DEF Spec, ResultRetained

(* Effects are never taken back. *)
LEMMA EffectsGrow ==
    ASSUME [Next]_vars
    PROVE  effects \subseteq effects'
BY DEF Next, Claim, Step, ClaimNew, ClaimConflict, ClaimReplay, Commit,
       CommitRefused, Raise, Finish, FailClaim, MarkFailed, StoreFault, Crash,
       Restart, Tick, vars

(* What finalizing does to the table, row by row. *)
LEMMA FinishedFacts ==
    ASSUME TypeOK, NEW k \in Keys, NEW s, NEW r, rec' = Finished(k, s, r)
    PROVE  /\ \A j \in Keys : j # k => rec'[j] = rec[j]
           /\ rec[k].status # "IN_PROGRESS" => rec'[k] = rec[k]
           /\ rec[k].status = "IN_PROGRESS" =>
                /\ rec'[k].status = s /\ rec'[k].result = r
                /\ rec'[k].body = rec[k].body /\ rec'[k].claimed = rec[k].claimed
<1>1. \A j \in Keys : j # k => rec'[j] = rec[j] BY DEF Finished, TypeOK
<1>2. rec[k].status # "IN_PROGRESS" => rec'[k] = rec[k] BY DEF Finished
<1>3. ASSUME rec[k].status = "IN_PROGRESS"
      PROVE  /\ rec'[k].status = s /\ rec'[k].result = r
             /\ rec'[k].body = rec[k].body /\ rec'[k].claimed = rec[k].claimed
  <2>1. rec'[k] = [rec[k] EXCEPT !.status = s, !.result = r]
    BY <1>3 DEF Finished, TypeOK
  <2>2. rec[k] \in [status : {"IN_PROGRESS", "FAILED"}, body : Bodies,
                    result : {NULL}, claimed : Nat, expires : Nat \union {NULL}]
    BY <1>3 DEF TypeOK, Records, NoRecord
  <2> QED BY <2>1, <2>2
<1> QED BY <1>1, <1>2, <1>3

(* A row is finalized by a thread that serves its key, or at the start of the
   service. *)
LEMMA FinalizedBy ==
    ASSUME TypeOK, [Next]_vars, NEW k \in Keys, rec[k].status = "IN_PROGRESS",
           rec'[k].status \in {"COMPLETED", "FAILED"}
    PROVE  \/ Restart
           \/ \E w \in Workers : /\ Commit(w) \/ Finish(w) \/ MarkFailed(w)
                                 /\ th[w].key = k
<1>1. ASSUME NEW t \in Stamps, NEW j, NEW b,
             rec' = Purged(t) \/ rec' = [Purged(t) EXCEPT ![j] = NewRecord(b, t)]
      PROVE  FALSE
  <2>1. t \in Nat BY StampFacts
  <2>2. Purged(t) \in [Keys -> Records] BY <2>1, PurgedType
  <2>3. rec'[k] = Purged(t)[k] \/ rec'[k] = NewRecord(b, t) BY <1>1, <2>2
  <2>4. Purged(t)[k] = rec[k] \/ Purged(t)[k] = NoRecord BY PurgedRows
  <2> QED BY <2>3, <2>4 DEF NewRecord, NoRecord
<1>2. ASSUME NEW w \in Workers, Commit(w) \/ Finish(w) \/ MarkFailed(w)
      PROVE  th[w].key = k
  <2>1. th[w].key \in Keys BY <1>2, BusyThread DEF Commit, Finish, MarkFailed
  <2>2. \/ rec' = rec
        \/ rec' = Finished(th[w].key, "COMPLETED", th[w].op)
        \/ rec' = Finished(th[w].key, "FAILED", NULL)
    BY <1>2 DEF Commit, Finish, MarkFailed
  <2> QED BY <2>1, <2>2, FinishedFacts
<1>3. ASSUME NEW w \in Workers, NEW t \in Stamps, FailClaim(w, t) PROVE FALSE
  BY <1>1, <1>3 DEF FailClaim
<1>4. ASSUME NEW w \in Workers, Claim(w) PROVE FALSE
  BY <1>1, <1>4 DEF Claim, ClaimNew, ClaimReplay, ClaimConflict, vars
<1>5. Restart \/ \E w \in Workers : Commit(w) \/ Finish(w) \/ MarkFailed(w)
  BY <1>3, <1>4 DEF Next, Step, CommitRefused, Raise, StoreFault, Crash, Tick, vars
<1> QED BY <1>2, <1>5

(* A start finalizes rows in progress as failures that never expire. *)
LEMMA ReconciledFacts ==
    ASSUME TypeOK, Restart, NEW k \in Keys
    PROVE  /\ rec[k].status # "IN_PROGRESS" => rec'[k] = rec[k]
           /\ rec[k].status = "IN_PROGRESS" =>
                rec'[k].status = "FAILED" /\ rec'[k].expires = NULL
<1>1. rec[k].status # "IN_PROGRESS" => rec'[k] = rec[k]
  BY DEF Restart, Reconciled
<1>2. ASSUME rec[k].status = "IN_PROGRESS"
      PROVE  rec'[k].status = "FAILED" /\ rec'[k].expires = NULL
  <2>1. rec'[k] = [rec[k] EXCEPT !.status = "FAILED", !.expires = NULL]
    BY <1>2 DEF Restart, Reconciled
  <2>2. rec[k] \in [status : {"IN_PROGRESS", "FAILED"}, body : Bodies,
                    result : {NULL}, claimed : Nat, expires : Nat \union {NULL}]
    BY <1>2 DEF TypeOK, Records, NoRecord
  <2> QED BY <2>1, <2>2
<1> QED BY <1>1, <1>2

(* A row becomes completed by the commit of an operation of its key, or by the
   second completion after such a commit. *)
LEMMA CompletedBy ==
    ASSUME TypeOK, [Next]_vars, NEW k \in Keys,
           rec'[k].status = "COMPLETED", rec'[k] # rec[k]
    PROVE  /\ rec[k].status = "IN_PROGRESS" /\ rec'[k].body = rec[k].body
           /\ \E w \in Workers : /\ Commit(w) \/ Finish(w)
                                 /\ th[w].key = k /\ rec'[k].result = th[w].op
<1>1. RowFinalized(k)
  <2>1. RowChange(k) BY RowChanges
  <2>2. ~RowKept(k) BY DEF RowKept
  <2>3. ~RowPurged(k) BY DEF RowPurged, NoRecord
  <2>4. ~RowClaimed(k)
    <3> SUFFICES ASSUME RowClaimed(k) PROVE FALSE OBVIOUS
    <3>1. PICK b \in Bodies, t \in Nat : rec'[k] = NewRecord(b, t)
      BY DEF RowClaimed
    <3>2. rec'[k].status = "IN_PROGRESS" BY <3>1 DEF NewRecord
    <3> QED BY <3>2
  <2> QED BY <2>1, <2>2, <2>3, <2>4 DEF RowChange
<1>2. rec[k].status = "IN_PROGRESS" /\ rec'[k].body = rec[k].body
  BY <1>1 DEF RowFinalized
<1>3. ~Restart BY <1>2, ReconciledFacts
<1>4. PICK w \in Workers : /\ Commit(w) \/ Finish(w) \/ MarkFailed(w)
                           /\ th[w].key = k
  BY <1>2, <1>3, FinalizedBy
<1>5. ~MarkFailed(w)
  <2> SUFFICES ASSUME MarkFailed(w) PROVE FALSE OBVIOUS
  <2>1. rec' = Finished(k, "FAILED", NULL) BY <1>4 DEF MarkFailed
  <2> QED BY <1>2, <2>1, FinishedFacts
<1>6. rec'[k].result = th[w].op
  <2>1. rec' = rec \/ rec' = Finished(k, "COMPLETED", th[w].op)
    BY <1>4, <1>5 DEF Commit, Finish
  <2> QED BY <1>2, <2>1, FinishedFacts
<1> QED BY <1>2, <1>4, <1>5, <1>6

(* An answer repeats a completed row of its key and body, or is given by a
   thread past its commit. *)
LEMMA NewReply ==
    ASSUME TypeOK, [Next]_vars, NEW r \in replies', r \notin replies
    PROVE  \/ /\ r.key \in Keys /\ rec[r.key].status = "COMPLETED"
              /\ rec[r.key].body = r.body /\ rec[r.key].result = r.op
           \/ \E w \in Workers : /\ th[w].pc = "committed" /\ th[w].key = r.key
                                 /\ th[w].body = r.body /\ th[w].op = r.op
<1>1. ASSUME NEW t \in Stamps, NEW k \in Keys, NEW b,
             Purged(t)[k].status = "COMPLETED", Purged(t)[k].body = b,
             r = [key |-> k, body |-> b, op |-> Purged(t)[k].result]
      PROVE  /\ r.key \in Keys /\ rec[r.key].status = "COMPLETED"
             /\ rec[r.key].body = r.body /\ rec[r.key].result = r.op
  BY <1>1, PurgedRows DEF NoRecord
<1>2. ASSUME NEW w \in Workers, NEW k \in Keys, NEW b \in Bodies,
             NEW t \in Stamps, ClaimReplay(w, k, b, t)
      PROVE  /\ r.key \in Keys /\ rec[r.key].status = "COMPLETED"
             /\ rec[r.key].body = r.body /\ rec[r.key].result = r.op
  BY <1>1, <1>2 DEF ClaimReplay, Answer
<1>3. ASSUME NEW w \in Workers, NEW t \in Stamps, FailClaim(w, t)
      PROVE  /\ r.key \in Keys /\ rec[r.key].status = "COMPLETED"
             /\ rec[r.key].body = r.body /\ rec[r.key].result = r.op
  <2>1. th[w].key \in Keys BY <1>3, BusyThread DEF FailClaim
  <2> QED BY <1>1, <1>3, <2>1 DEF FailClaim, Answer
<1>4. ASSUME NEW w \in Workers, Finish(w)
      PROVE  /\ th[w].pc = "committed" /\ th[w].key = r.key
             /\ th[w].body = r.body /\ th[w].op = r.op
  BY <1>4 DEF Finish, Answer
<1> QED
  BY <1>2, <1>3, <1>4
  DEF Next, Claim, Step, ClaimNew, ClaimConflict, Commit, CommitRefused, Raise,
      MarkFailed, StoreFault, Crash, Restart, Tick, vars

(* A commit puts the effect of the operation on record. *)
LEMMA CommitEffect ==
    ASSUME TypeOK, NEW w \in Workers, Commit(w)
    PROVE  \E e \in effects' : /\ e.op = th[w].op /\ e.key = th[w].key
                               /\ e.body = th[w].body
<1> DEFINE e == [op |-> th[w].op, key |-> th[w].key, body |-> th[w].body,
                 claimed |-> rec[th[w].key].claimed]
<1>1. e \in effects' BY DEF Commit
<1>2. e.op = th[w].op /\ e.key = th[w].key /\ e.body = th[w].body OBVIOUS
<1> QED BY <1>1, <1>2

(* Threads reach "committed" by their commit. *)
LEMMA CommittedBackedStep ==
    ASSUME TypeOK, CommittedBacked, [Next]_vars
    PROVE  CommittedBacked'
<1> SUFFICES ASSUME NEW w \in Workers, th'[w].pc = "committed"
             PROVE  \E e \in effects' : /\ e.op = th'[w].op
                                        /\ e.key = th'[w].key
                                        /\ e.body = th'[w].body
  BY DEF CommittedBacked
<1>1. CASE th'[w] = th[w] BY <1>1, EffectsGrow DEF CommittedBacked
<1>2. CASE th'[w] # th[w]
  <2>1. /\ th[w].pc # "idle" /\ th'[w].key = th[w].key
        /\ th'[w].body = th[w].body /\ th'[w].op = th[w].op
    BY <1>2, ThreadChanges DEF ThreadChange, Idle
  <2>2. ASSUME NEW u \in Workers, NEW x, th' = [th EXCEPT ![u] = x],
               x.pc # "committed"
        PROVE  FALSE
    BY <1>2, <2>2 DEF TypeOK
  <2>3. ASSUME NEW u \in Workers, NEW p, th' = [th EXCEPT ![u].pc = p],
               th[u].pc # "idle", p # "committed"
        PROVE  FALSE
    <3>1. th[u] \in [pc : {"operating", "committed", "failing", "marking"},
                     key : Keys, body : Bodies, op : Ops, claimed : Nat]
      BY <2>3, BusyThread
    <3>2. [th[u] EXCEPT !.pc = p].pc # "committed" BY <2>3, <3>1
    <3>3. th' = [th EXCEPT ![u] = [th[u] EXCEPT !.pc = p]] BY <2>3
    <3> QED BY <2>2, <3>2, <3>3
  <2>4. Idle.pc # "committed" BY DEF Idle
  <2>5. \E u \in Workers : Commit(u)
    <3>1. ASSUME NEW u \in Workers, Claim(u) PROVE FALSE
      BY <1>2, <2>2, <3>1 DEF Claim, ClaimNew, ClaimConflict, ClaimReplay, vars
    <3>2. ASSUME NEW u \in Workers, Finish(u) PROVE FALSE
      BY <2>2, <2>3, <2>4, <3>2 DEF Finish
    <3>3. ASSUME NEW u \in Workers, NEW t \in Stamps, FailClaim(u, t) PROVE FALSE
      BY <2>2, <2>3, <2>4, <3>3 DEF FailClaim
    <3>4. ASSUME NEW u \in Workers,
                 CommitRefused(u) \/ Raise(u) \/ MarkFailed(u) \/ StoreFault(u)
          PROVE  FALSE
      BY <2>2, <2>3, <2>4, <3>4 DEF CommitRefused, Raise, MarkFailed, StoreFault
    <3>5. ~Crash BY <2>4 DEF Crash
    <3> QED
      BY <1>2, <3>1, <3>2, <3>3, <3>4, <3>5 DEF Next, Step, Restart, Tick, vars
  <2>6. PICK u \in Workers : Commit(u) BY <2>5
  <2>7. u = w BY <1>2, <2>6 DEF Commit, TypeOK
  <2> QED BY <2>1, <2>6, <2>7, CommitEffect
<1> QED BY <1>1, <1>2

(* Every answer sent stands for a committed effect of its key, even when
   requests outlive the retention, the store fails and the process dies. *)
THEOREM RepliesAlwaysBacked == Spec => []RepliesBacked
<1> DEFINE IInv == TypeOK /\ ResultsBacked /\ CommittedBacked /\ RepliesBacked
<1>1. Init => IInv
  <2> SUFFICES ASSUME Init PROVE IInv OBVIOUS
  <2>1. TypeOK BY IdemAssumption DEF Init, TypeOK, Records, Threads
  <2> QED BY <2>1 DEF Init, ResultsBacked, CommittedBacked, RepliesBacked,
                      NoRecord, Idle
<1>2. IInv /\ [Next]_vars => IInv'
  <2> SUFFICES ASSUME IInv, [Next]_vars PROVE IInv' OBVIOUS
  <2>1. TypeOK' BY TypeStep
  <2>2. CommittedBacked' BY CommittedBackedStep
  <2>3. effects \subseteq effects' BY EffectsGrow
  <2>4. ASSUME NEW k \in Keys, rec'[k].status = "COMPLETED"
        PROVE  \E e \in effects' : e.op = rec'[k].result /\ e.key = k
    <3>1. CASE rec'[k] = rec[k] BY <2>3, <2>4, <3>1 DEF ResultsBacked
    <3>2. CASE rec'[k] # rec[k]
      <4>1. PICK w \in Workers : /\ Commit(w) \/ Finish(w)
                                 /\ th[w].key = k /\ rec'[k].result = th[w].op
        BY <2>4, <3>2, CompletedBy
      <4>2. CASE Commit(w) BY <4>1, <4>2, CommitEffect
      <4>3. CASE Finish(w) BY <2>3, <4>1, <4>3 DEF Finish, CommittedBacked
      <4> QED BY <4>1, <4>2, <4>3
    <3> QED BY <3>1, <3>2
  <2>5. ASSUME NEW r \in replies'
        PROVE  \E e \in effects' : e.op = r.op /\ e.key = r.key
    <3>1. CASE r \in replies BY <2>3, <3>1 DEF RepliesBacked
    <3>2. CASE r \notin replies
      BY <2>3, <3>2, NewReply DEF ResultsBacked, CommittedBacked
    <3> QED BY <3>1, <3>2
  <2> QED BY <2>1, <2>2, <2>4, <2>5 DEF ResultsBacked, RepliesBacked
<1>3. IInv => RepliesBacked OBVIOUS
<1> QED BY <1>1, <1>2, <1>3, PTL DEF Spec
-----------------------------------------------------------------------------
(* Requests that end within the retention *)

(* The row of a running request is not expired: a request is at most MaxOp
   old, and its row is kept for TTL. *)
LEMMA NotExpired ==
    ASSUME MaxOp <= TTL, TypeOK, RowTimes, RequestTimes, RowOwned,
           NEW w \in Workers, th[w].pc # "idle"
    PROVE  ~Expired(th[w].key)
<1>1. th[w].key \in Keys /\ th[w].claimed \in Nat BY BusyThread
<1>2. /\ rec[th[w].key].status \in {"IN_PROGRESS", "COMPLETED"}
      /\ rec[th[w].key].claimed = th[w].claimed
  BY DEF RowOwned
<1>3. rec[th[w].key].expires = th[w].claimed + TTL
  BY <1>1, <1>2 DEF RowTimes
<1>4. now \in Nat /\ now <= th[w].claimed + MaxOp
  BY IdemAssumption DEF RequestTimes, TypeOK
<1> QED BY <1>1, <1>3, <1>4, IdemAssumption DEF Expired

(* Hence a claim's DELETE leaves it alone. *)
LEMMA OwnRowKept ==
    ASSUME MaxOp <= TTL, TypeOK, RowTimes, RequestTimes, RowOwned,
           NEW w \in Workers, th[w].pc # "idle", NEW t \in Stamps
    PROVE  Purged(t)[th[w].key] = rec[th[w].key]
<1>1. th[w].key \in Keys BY BusyThread
<1> QED BY <1>1, NotExpired, PurgedRows

(* A thread changes by its own steps, by its claim, or in a crash. *)
LEMMA ChangedBy ==
    ASSUME TypeOK, [Next]_vars, NEW w \in Workers, th'[w] # th[w]
    PROVE  \/ Crash
           \/ Step(w)
           \/ \E k \in Keys, b \in Bodies, t \in Stamps : ClaimNew(w, k, b, t)
<1>1. ASSUME NEW u \in Workers, Step(u) PROVE u = w
  BY <1>1 DEF Step, Commit, CommitRefused, Raise, Finish, FailClaim, MarkFailed,
              StoreFault, TypeOK
<1>2. ASSUME NEW u \in Workers, NEW k \in Keys, NEW b \in Bodies,
             NEW t \in Stamps, ClaimNew(u, k, b, t)
      PROVE  u = w
  BY <1>2 DEF ClaimNew, TypeOK
<1> QED BY <1>1, <1>2 DEF Next, Claim, ClaimConflict, ClaimReplay, Restart, Tick, vars

(* A thread that starts has claimed its key, whose row was gone or expired. *)
LEMMA StartedBy ==
    ASSUME TypeOK, [Next]_vars, NEW w \in Workers,
           th[w].pc = "idle", th'[w].pc # "idle"
    PROVE  /\ now' = now /\ up' = up /\ up
           /\ \E k \in Keys, b \in Bodies, t \in Stamps :
                /\ rec[k].status = "NONE" \/ Expired(k)
                /\ rec'[k] = NewRecord(b, t)
                /\ th'[w] = [pc |-> "operating", key |-> k, body |-> b,
                             op |-> nextOp + 1, claimed |-> t]
<1>1. ~Crash BY DEF Crash, Idle
<1>2. ~Step(w)
  BY DEF Step, Commit, CommitRefused, Raise, Finish, FailClaim, MarkFailed,
         StoreFault
<1>3. PICK k \in Keys, b \in Bodies, t \in Stamps : ClaimNew(w, k, b, t)
  BY <1>1, <1>2, ChangedBy
<1>4. rec[k].status = "NONE" \/ Expired(k) BY <1>3, PurgedRows DEF ClaimNew
<1>5. Purged(t) \in [Keys -> Records] BY StampFacts, PurgedType
<1>6. rec'[k] = NewRecord(b, t) BY <1>3, <1>5 DEF ClaimNew
<1>7. th'[w] = [pc |-> "operating", key |-> k, body |-> b,
                op |-> nextOp + 1, claimed |-> t]
  BY <1>3 DEF ClaimNew, TypeOK
<1> QED BY <1>3, <1>4, <1>6, <1>7 DEF ClaimNew

(* Only a crash and a start change whether the service is up, only a tick the
   clock. *)
LEMMA StayingUp ==
    ASSUME [Next]_vars
    PROVE  /\ Crash \/ Restart \/ up' = up
           /\ Tick \/ now' = now
<1>1. ASSUME NEW w \in Workers, Claim(w) PROVE up' = up /\ now' = now
  BY <1>1, Zenon DEF Claim, ClaimNew, ClaimConflict, ClaimReplay, vars
<1>2. ASSUME NEW w \in Workers, Step(w) PROVE up' = up /\ now' = now
  BY <1>2, Zenon DEF Step, Commit, CommitRefused, Raise, Finish, FailClaim,
                     MarkFailed, StoreFault
<1>3. CASE UNCHANGED vars BY <1>3, Zenon DEF vars
<1>4. Tick => up' = up BY Zenon DEF Tick
<1>5. Crash \/ Restart => now' = now BY DEF Crash, Restart
<1> QED BY <1>1, <1>2, <1>3, <1>4, <1>5, Zenon DEF Next

(* A running request stays within MaxOp: the bound on time is the assumption
   that it does. *)
LEMMA RequestTimesStep ==
    ASSUME TypeOK, RequestTimes, [Next]_vars
    PROVE  RequestTimes'
<1> SUFFICES ASSUME NEW w \in Workers, th'[w].pc # "idle"
    PROVE up' /\ th'[w].claimed <= now' /\ now' <= th'[w].claimed + MaxOp
  BY DEF RequestTimes
<1>1. CASE th[w].pc # "idle"
  <2>1. th'[w].claimed = th[w].claimed /\ th[w].claimed \in Nat
    BY <1>1, ThreadChanges, BusyThread DEF ThreadChange, Idle
  <2>2. now \in Nat /\ up /\ th[w].claimed <= now /\ now <= th[w].claimed + MaxOp
    BY <1>1, IdemAssumption DEF RequestTimes, TypeOK
  <2>3. ~Crash BY DEF Crash, Idle
  <2>4. up' = up
    <3>1. ~Restart BY <2>2 DEF Restart
    <3> QED BY <2>3, <3>1, StayingUp, Zenon
  <2>5. CASE Tick BY <1>1, <2>1, <2>2, <2>4, <2>5, IdemAssumption DEF Tick
  <2>6. CASE ~Tick
    <3>1. now' = now BY <2>6, StayingUp
    <3> QED BY <2>1, <2>2, <2>4, <3>1
  <2> QED BY <2>5, <2>6
<1>2. CASE th[w].pc = "idle"
  <2>1. PICK k \in Keys, b \in Bodies, t \in Stamps :
          th'[w] = [pc |-> "operating", key |-> k, body |-> b,
                    op |-> nextOp + 1, claimed |-> t]
    BY <1>2, StartedBy
  <2>2. t \in Nat /\ t <= now /\ now <= t + Lag /\ now \in Nat
    BY StampFacts, ClockStep
  <2> QED BY <1>2, <2>1, <2>2, StartedBy, IdemAssumption
<1> QED BY <1>1, <1>2

(* The row of a thread that does not move stays as it is: nobody else
   finalizes it, and it does not expire. *)
LEMMA StillRow ==
    ASSUME MaxOp <= TTL, TypeOK, RowTimes, RequestTimes, RowOwned, [Next]_vars,
           NEW w \in Workers, th[w].pc # "idle", th'[w] = th[w]
    PROVE  rec'[th[w].key] = rec[th[w].key]
<1> DEFINE k == th[w].key
<1>1. k \in Keys BY BusyThread
<1>2. ~Expired(k) /\ rec[k].status # "NONE" BY NotExpired DEF RowOwned
<1>3. ~RowFinalized(k)
  <2> SUFFICES ASSUME RowFinalized(k) PROVE FALSE OBVIOUS
  <2>1. ~Restart BY DEF RequestTimes, Restart
  <2>2. PICK u \in Workers : /\ Commit(u) \/ Finish(u) \/ MarkFailed(u)
                             /\ th[u].key = k
    BY <1>1, <2>1, FinalizedBy DEF RowFinalized
  <2>3. th[u].pc # "idle" BY <2>2 DEF Commit, Finish, MarkFailed
  <2>4. u = w BY <2>2, <2>3 DEF RowOwned
  <2>5. th[w] \in [pc : {"operating", "committed", "failing", "marking"},
                   key : Keys, body : Bodies, op : Ops, claimed : Nat]
    BY BusyThread
  <2>6. ASSUME NEW p, p # th[w].pc, th' = [th EXCEPT ![w].pc = p] PROVE FALSE
    <3>1. th'[w] = [th[w] EXCEPT !.pc = p] BY <2>6 DEF TypeOK
    <3> QED BY <2>5, <2>6, <3>1
  <2>7. th' # [th EXCEPT ![w] = Idle] BY DEF TypeOK, Idle
  <2> QED BY <2>2, <2>4, <2>6, <2>7 DEF Commit, Finish, MarkFailed
<1>4. RowChange(k) BY <1>1, RowChanges
<1> QED BY <1>2, <1>3, <1>4 DEF RowChange, RowKept, RowPurged, RowClaimed

(* A thread that moves on finds its row in the state its step expects. *)
LEMMA MovedRow ==
    ASSUME MaxOp <= TTL, TypeOK, RowTimes, RequestTimes, RowOwned, [Next]_vars,
           NEW w \in Workers, th[w].pc # "idle", th'[w] # th[w],
           th'[w].pc # "idle"
    PROVE  LET r == rec'[th[w].key] IN
           /\ r.claimed = th[w].claimed /\ r.body = th[w].body
           /\ \/ th'[w].pc = "failing" /\ r.status \in {"IN_PROGRESS", "COMPLETED"}
              \/ th'[w].pc = "marking" /\ r.status = "IN_PROGRESS"
              \/ /\ th'[w].pc = "committed"
                 /\ r.status = "COMPLETED" /\ r.result = th[w].op
<1> DEFINE k == th[w].key
<1>1. k \in Keys BY BusyThread
<1>2. th[w] \in [pc : {"operating", "committed", "failing", "marking"},
                 key : Keys, body : Bodies, op : Ops, claimed : Nat]
  BY BusyThread
<1>3. /\ rec[k].status \in {"IN_PROGRESS", "COMPLETED"}
      /\ rec[k].claimed = th[w].claimed /\ rec[k].body = th[w].body
      /\ th[w].pc \in {"operating", "marking"} => rec[k].status = "IN_PROGRESS"
      /\ th[w].pc = "committed" =>
           rec[k].status = "COMPLETED" /\ rec[k].result = th[w].op
  BY DEF RowOwned
<1>4. ASSUME NEW p, th' = [th EXCEPT ![w].pc = p] PROVE th'[w].pc = p
  BY <1>2, <1>4 DEF TypeOK
<1>5. th' # [th EXCEPT ![w] = Idle] BY DEF TypeOK, Idle
<1>6. CASE Commit(w)
  <2>1. th[w].pc = "operating" /\ rec' = Finished(k, "COMPLETED", th[w].op)
    BY <1>6 DEF Commit
  <2>2. th'[w].pc = "committed" BY <1>4, <1>6 DEF Commit
  <2> QED BY <1>1, <1>3, <2>1, <2>2, FinishedFacts
<1>7. ~CommitRefused(w) BY <1>3 DEF CommitRefused, CanFinish
<1>8. CASE Raise(w)
  <2>1. th'[w].pc = "failing" /\ rec' = rec BY <1>4, <1>8 DEF Raise
  <2> QED BY <1>3, <2>1
<1>9. ~Finish(w) BY <1>3, <1>5 DEF Finish, CanFinish
<1>10. ASSUME NEW t \in Stamps, FailClaim(w, t)
       PROVE  /\ th'[w].pc = "marking" /\ rec'[k].status = "IN_PROGRESS"
              /\ rec'[k].claimed = th[w].claimed /\ rec'[k].body = th[w].body
  <2>1. Purged(t)[k] = rec[k] BY OwnRowKept
  <2>2. /\ th' = [th EXCEPT ![w].pc = "marking"] /\ rec' = Purged(t)
        /\ rec[k].status \in {"IN_PROGRESS", "FAILED"}
    BY <1>3, <1>5, <1>10, <2>1 DEF FailClaim
  <2> QED BY <1>3, <1>4, <2>1, <2>2
<1>11. ~MarkFailed(w) /\ ~StoreFault(w) BY <1>5 DEF MarkFailed, StoreFault
<1>12. ~Crash BY DEF Crash, Idle
<1>13. Step(w) BY <1>12, ChangedBy DEF ClaimNew
<1> QED BY <1>6, <1>7, <1>8, <1>9, <1>10, <1>11, <1>13 DEF Step

(* No two threads serve one key: a claim finds the row of a running request. *)
LEMMA OneServes ==
    ASSUME MaxOp <= TTL, TypeOK, RowTimes, RequestTimes, RowOwned, [Next]_vars,
           NEW w \in Workers, NEW v \in Workers, v # w,
           th'[w].pc # "idle", th'[v].pc # "idle"
    PROVE  th'[v].key # th'[w].key
<1>1. ASSUME NEW u \in Workers, th[u].pc # "idle", th'[u].pc # "idle"
      PROVE  th'[u].key = th[u].key
  BY <1>1, ThreadChanges DEF ThreadChange, Idle
<1>2. ASSUME NEW u \in Workers, NEW x \in Workers, u # x,
             th[u].pc = "idle", th'[u].pc # "idle",
             th[x].pc # "idle", th'[x].pc # "idle"
      PROVE  th'[u].key # th'[x].key
  <2>1. PICK k \in Keys, b \in Bodies, t \in Stamps :
          /\ rec[k].status = "NONE" \/ Expired(k)
          /\ th'[u] = [pc |-> "operating", key |-> k, body |-> b,
                       op |-> nextOp + 1, claimed |-> t]
    BY <1>2, StartedBy
  <2>2. ~Expired(th[x].key) /\ rec[th[x].key].status # "NONE"
    BY <1>2, NotExpired DEF RowOwned
  <2>3. th'[u].key = k BY <2>1
  <2>4. k # th[x].key BY <2>1, <2>2
  <2>5. th'[x].key = th[x].key BY <1>1, <1>2
  <2> QED BY <2>3, <2>4, <2>5
<1>3. ASSUME th[w].pc = "idle", th[v].pc = "idle" PROVE FALSE
  <2>1. PICK k \in Keys, b \in Bodies, t \in Stamps :
          th'[w] = [pc |-> "operating", key |-> k, body |-> b,
                    op |-> nextOp + 1, claimed |-> t]
    BY <1>3, StartedBy
  <2>2. th'[w].pc = "operating" BY <2>1
  <2> QED BY <1>3, <2>2, OneStarts
<1>4. CASE th[w].pc # "idle" /\ th[v].pc # "idle"
  BY <1>1, <1>4 DEF RowOwned
<1> QED BY <1>2, <1>3, <1>4

(* Threads keep their rows. *)
LEMMA RowOwnedStep ==
    ASSUME MaxOp <= TTL, TypeOK, RowTimes, RequestTimes, RowOwned, [Next]_vars
    PROVE  RowOwned'
<1> SUFFICES ASSUME NEW w \in Workers, th'[w].pc # "idle"
    PROVE LET r == rec'[th'[w].key] IN
          /\ r.status \in {"IN_PROGRESS", "COMPLETED"}
          /\ r.claimed = th'[w].claimed /\ r.body = th'[w].body
          /\ th'[w].pc \in {"operating", "marking"} => r.status = "IN_PROGRESS"
          /\ th'[w].pc = "committed" =>
               r.status = "COMPLETED" /\ r.result = th'[w].op
          /\ \A v \in Workers : v # w /\ th'[v].pc # "idle" =>
               th'[v].key # th'[w].key
  BY DEF RowOwned
<1>1. \A v \in Workers : v # w /\ th'[v].pc # "idle" => th'[v].key # th'[w].key
  BY OneServes
<1>2. CASE th[w].pc # "idle" /\ th'[w] = th[w]
  BY <1>1, <1>2, StillRow DEF RowOwned
<1>3. CASE th[w].pc # "idle" /\ th'[w] # th[w]
  <2>1. /\ th'[w].key = th[w].key /\ th'[w].body = th[w].body
        /\ th'[w].op = th[w].op /\ th'[w].claimed = th[w].claimed
    BY <1>3, ThreadChanges DEF ThreadChange, Idle
  <2> QED BY <1>1, <1>3, <2>1, MovedRow
<1>4. CASE th[w].pc = "idle"
  <2>1. PICK k \in Keys, b \in Bodies, t \in Stamps :
          /\ rec'[k] = NewRecord(b, t)
          /\ th'[w] = [pc |-> "operating", key |-> k, body |-> b,
                       op |-> nextOp + 1, claimed |-> t]
    BY <1>4, StartedBy
  <2> QED BY <1>1, <2>1 DEF NewRecord
<1> QED BY <1>2, <1>3, <1>4

(* What a crash cut short is not touched until the service starts, and never
   after that. *)
LEMMA InterruptedFailedStep ==
    ASSUME TypeOK, RowOwned, InterruptedFailed, [Next]_vars
    PROVE  InterruptedFailed'
<1> SUFFICES ASSUME NEW k \in interrupted'
    PROVE \/ ~up' /\ rec'[k].status = "IN_PROGRESS"
          \/ rec'[k].status = "FAILED" /\ rec'[k].expires = NULL
  BY DEF InterruptedFailed
<1>1. CASE k \notin interrupted
  <2>1. Crash
    BY <1>1 DEF Next, Claim, Step, ClaimNew, ClaimConflict, ClaimReplay, Commit,
      CommitRefused, Raise, Finish, FailClaim, MarkFailed, StoreFault, Restart,
      Tick, vars
  <2>2. PICK w \in Workers : th[w].pc = "operating" /\ th[w].key = k
    BY <1>1, <2>1 DEF Crash
  <2> QED BY <2>1, <2>2 DEF RowOwned, Crash
<1>2. CASE k \in interrupted
  <2>1. k \in Keys BY <1>2 DEF TypeOK
  <2>2. CASE ~up /\ rec[k].status = "IN_PROGRESS"
    <3>1. CASE Restart BY <2>1, <2>2, <3>1, ReconciledFacts
    <3>2. CASE ~Restart
      BY <2>2, <3>2
      DEF Next, Claim, Step, ClaimNew, ClaimConflict, ClaimReplay, Commit,
          CommitRefused, Raise, Finish, FailClaim, MarkFailed, StoreFault, Crash,
          Tick, vars
    <3> QED BY <3>1, <3>2
  <2>3. CASE rec[k].status = "FAILED" /\ rec[k].expires = NULL
    <3>1. RowChange(k) BY <2>1, RowChanges
    <3> QED BY <2>3, <3>1
            DEF RowChange, RowKept, RowPurged, RowClaimed, RowFinalized, Expired
  <2> QED BY <1>2, <2>2, <2>3 DEF InterruptedFailed
<1> QED BY <1>1, <1>2

(* A row is completed with the effect of its own body. *)
LEMMA BodiesBackedStep ==
    ASSUME TypeOK, RowOwned, BodiesBacked, [Next]_vars
    PROVE  BodiesBacked'
<1> SUFFICES ASSUME NEW k \in Keys, rec'[k].status = "COMPLETED"
    PROVE \E e \in effects' : /\ e.op = rec'[k].result /\ e.key = k
                              /\ e.body = rec'[k].body
  BY DEF BodiesBacked
<1>1. CASE rec'[k] = rec[k] BY <1>1, EffectsGrow DEF BodiesBacked
<1>2. CASE rec'[k] # rec[k]
  <2>1. rec[k].status = "IN_PROGRESS" /\ rec'[k].body = rec[k].body
    BY <1>2, CompletedBy
  <2>2. PICK w \in Workers : /\ Commit(w) \/ Finish(w)
                             /\ th[w].key = k /\ rec'[k].result = th[w].op
    BY <1>2, CompletedBy
  <2>3. ~Finish(w) BY <2>1, <2>2 DEF Finish, RowOwned
  <2>4. rec[k].body = th[w].body BY <2>2, <2>3 DEF Commit, RowOwned
  <2> QED BY <2>1, <2>2, <2>3, <2>4, CommitEffect
<1> QED BY <1>1, <1>2

(* An answer carries a result of its own body. *)
LEMMA RepliesMatchStep ==
    ASSUME TypeOK, RowOwned, BodiesBacked, RepliesMatchBody, [Next]_vars
    PROVE  RepliesMatchBody'
<1> SUFFICES ASSUME NEW r \in replies'
    PROVE \E e \in effects' : e.op = r.op /\ e.key = r.key /\ e.body = r.body
  BY DEF RepliesMatchBody
<1>1. effects \subseteq effects' BY EffectsGrow
<1>2. CASE r \in replies BY <1>1, <1>2 DEF RepliesMatchBody
<1>3. CASE r \notin replies
  <2>1. /\ r.key \in Keys /\ rec[r.key].status = "COMPLETED"
        /\ rec[r.key].body = r.body /\ rec[r.key].result = r.op
    <3>1. ASSUME NEW w \in Workers, th[w].pc = "committed"
          PROVE  /\ th[w].key \in Keys
                 /\ rec[th[w].key].status = "COMPLETED"
                 /\ rec[th[w].key].body = th[w].body
                 /\ rec[th[w].key].result = th[w].op
      BY <3>1, BusyThread DEF RowOwned
    <3> QED BY <1>3, <3>1, NewReply
  <2> QED BY <1>1, <2>1 DEF BodiesBacked
<1> QED BY <1>2, <1>3

(* The inductive invariant: threads own their rows. *)
LEMMA InTimeStep ==
    ASSUME MaxOp <= TTL, InTimeInv, [Next]_vars
    PROVE  InTimeInv'
<1>1. TypeOK' BY TypeStep DEF InTimeInv
<1>2. RowTimes' BY RowTimesStep DEF InTimeInv
<1>3. OpsFresh' BY OpsFreshStep DEF InTimeInv
<1>4. RequestTimes' BY RequestTimesStep DEF InTimeInv
<1>5. RowOwned' BY RowOwnedStep DEF InTimeInv
<1>6. InterruptedFailed' BY InterruptedFailedStep DEF InTimeInv
<1>7. BodiesBacked' BY BodiesBackedStep DEF InTimeInv
<1>8. RepliesMatchBody' BY RepliesMatchStep DEF InTimeInv
<1> QED BY <1>1, <1>2, <1>3, <1>4, <1>5, <1>6, <1>7, <1>8 DEF InTimeInv

(* It holds at the start. *)
LEMMA InTimeInit == Init => InTimeInv
<1> SUFFICES ASSUME Init PROVE InTimeInv OBVIOUS
<1>1. TypeOK BY IdemAssumption DEF Init, TypeOK, Records, Threads
<1> QED
  BY <1>1, IdemAssumption
  DEF Init, InTimeInv, RowTimes, OpsFresh, RequestTimes, RowOwned,
      InterruptedFailed, BodiesBacked, RepliesMatchBody, NoRecord, Idle, NULL

(* If no request outlives the retention of its key, every thread owns the row
   of its claim until it finalizes it, in the face of retries, crashes and
   store failures. *)
THEOREM InTimeAlways == ASSUME MaxOp <= TTL PROVE Spec => []InTimeInv
<1>1. InTimeInv /\ [Next]_vars => InTimeInv' BY InTimeStep
<1> QED BY <1>1, InTimeInit, PTL DEF Spec

(* Then two threads never execute the operation of one key at a time. *)
THEOREM OneOperates == ASSUME MaxOp <= TTL PROVE Spec => []MutualExclusion
<1>1. InTimeInv => MutualExclusion BY DEF InTimeInv, RowOwned, MutualExclusion
<1> QED BY <1>1, InTimeAlways, PTL

(* Then no client gets the result of another body (docs/API.md: "Changing the
   body under the same key returns a conflict."). *)
THEOREM AnswersMatchBody == ASSUME MaxOp <= TTL PROVE Spec => []RepliesMatchBody
<1>1. InTimeInv => RepliesMatchBody BY DEF InTimeInv
<1> QED BY <1>1, InTimeAlways, PTL

(* Then an operation a crash cut short never takes effect, before or after the
   reconciliation, however long the service runs. *)
THEOREM CutShortForGood == ASSUME MaxOp <= TTL PROVE Spec => InterruptedNeverRuns
<1>1. ASSUME InTimeInv, [Next]_vars, NEW e \in effects', e \notin effects
      PROVE  e.key \notin interrupted
  <2>1. TypeOK /\ OpsFresh BY <1>1 DEF InTimeInv
  <2>2. rec[e.key].status = "IN_PROGRESS" BY <1>1, <2>1, NewEffect
  <2>3. up
    <3>1. PICK w \in Workers : th[w].pc = "operating" BY <1>1, <2>1, NewEffect
    <3> QED BY <1>1, <3>1 DEF InTimeInv, RequestTimes
  <2> QED BY <1>1, <2>2, <2>3 DEF InTimeInv, InterruptedFailed
<1>2. InTimeInv /\ [Next]_vars =>
        [\A e \in effects' \ effects : e.key \notin interrupted]_vars
  BY <1>1
<1> QED BY <1>2, InTimeAlways, PTL DEF Spec, InterruptedNeverRuns

(* A row in progress keeps a thread that will finalize it. *)
LEMMA InProgressStep ==
    ASSUME MaxOp <= TTL, ~StoreFaults, InTimeInv, InProgressOwned, [Next]_vars
    PROVE  InProgressOwned'
<1> USE DEF InTimeInv
<1> SUFFICES ASSUME up', NEW k \in Keys, rec'[k].status = "IN_PROGRESS"
    PROVE \E w \in Workers : /\ th'[w].pc \in {"operating", "failing", "marking"}
                             /\ th'[w].key = k /\ th'[w].body = rec'[k].body
  BY DEF InProgressOwned
<1>1. RowChange(k) BY RowChanges
<1>2. ~RowPurged(k) /\ ~RowFinalized(k)
  BY DEF RowPurged, RowFinalized, NoRecord
<1>3. up
  <2> SUFFICES ASSUME ~up PROVE FALSE OBVIOUS
  <2>1. ~Crash BY DEF Crash
  <2>2. Restart BY <2>1, StayingUp
  <2> QED BY <2>2, ReconciledFacts
<1>4. CASE RowKept(k)
  <2>1. rec[k].status = "IN_PROGRESS" /\ rec'[k].body = rec[k].body
    BY <1>4 DEF RowKept
  <2>2. PICK w \in Workers : /\ th[w].pc \in {"operating", "failing", "marking"}
                             /\ th[w].key = k /\ th[w].body = rec[k].body
    BY <1>3, <2>1 DEF InProgressOwned
  <2>3. CASE th'[w] = th[w] BY <2>1, <2>2, <2>3
  <2>4. CASE th'[w] # th[w] /\ th'[w].pc # "idle"
    <3>1. /\ th'[w].key = k /\ th'[w].body = rec'[k].body
      BY <2>1, <2>2, <2>4, ThreadChanges DEF ThreadChange, Idle
    <3>2. th'[w].pc \in {"failing", "marking"} BY <2>2, <2>4, MovedRow
    <3> QED BY <3>1, <3>2
  <2>5. ASSUME th'[w] # th[w], th'[w].pc = "idle" PROVE FALSE
    <3>1. ~Crash BY DEF Crash
    <3>2. Step(w) BY <2>2, <2>5, <3>1, ChangedBy DEF ClaimNew
    <3>3. ASSUME NEW p, p # "idle", th' = [th EXCEPT ![w].pc = p] PROVE FALSE
      <4>1. th[w] \in [pc : {"operating", "committed", "failing", "marking"},
                       key : Keys, body : Bodies, op : Ops, claimed : Nat]
        BY <2>2, BusyThread
      <4> QED BY <2>5, <3>3, <4>1 DEF TypeOK
    <3>4. ~MarkFailed(w)
      <4> SUFFICES ASSUME MarkFailed(w) PROVE FALSE OBVIOUS
      <4>1. rec' = Finished(k, "FAILED", NULL) BY <2>2 DEF MarkFailed
      <4> QED BY <2>1, <4>1, FinishedFacts
    <3>5. ASSUME NEW t \in Stamps, FailClaim(w, t) PROVE FALSE
      <4>1. Purged(t)[k] = rec[k] BY <2>2, OwnRowKept
      <4> QED BY <2>1, <2>2, <3>3, <3>5, <4>1 DEF FailClaim
    <3> QED BY <2>2, <3>2, <3>3, <3>4, <3>5
            DEF Step, Commit, CommitRefused, Raise, Finish, StoreFault
  <2> QED BY <2>3, <2>4, <2>5
<1>5. CASE RowClaimed(k) /\ ~RowKept(k)
  <2>1. ASSUME NEW w \in Workers, th[w].pc # "idle" PROVE th[w].key # k
    BY <1>5, <2>1, NotExpired DEF RowClaimed, RowOwned
  <2>2. ASSUME NEW t \in Stamps, rec' = Purged(t) PROVE FALSE
    <3>1. rec'[k] = NoRecord BY <1>5, <2>2, PurgedRows DEF RowKept
    <3> QED BY <3>1 DEF NoRecord
  <2>3. ASSUME NEW t \in Stamps, NEW j \in Keys, NEW b, j # k,
               rec' = [Purged(t) EXCEPT ![j] = NewRecord(b, t)]
        PROVE  FALSE
    <3>1. rec'[k] = Purged(t)[k] BY <2>3 DEF Purged
    <3>2. rec'[k] = NoRecord BY <1>5, <3>1, PurgedRows DEF RowKept
    <3> QED BY <3>2 DEF NoRecord
  <2>4. ASSUME NEW w \in Workers, NEW t \in Stamps, FailClaim(w, t) PROVE FALSE
    <3>1. th[w].key \in Keys /\ th[w].key # k
      BY <2>1, <2>4, BusyThread DEF FailClaim
    <3> QED BY <1>5, <2>2, <2>3, <2>4, <3>1 DEF FailClaim, RowKept
  <2>5. ASSUME NEW w \in Workers, Commit(w) \/ Finish(w) \/ MarkFailed(w)
        PROVE  FALSE
    <3>1. th[w].key \in Keys /\ th[w].key # k
      BY <2>1, <2>5, BusyThread DEF Commit, Finish, MarkFailed
    <3>2. \/ rec' = rec
          \/ rec' = Finished(th[w].key, "COMPLETED", th[w].op)
          \/ rec' = Finished(th[w].key, "FAILED", NULL)
      BY <2>5 DEF Commit, Finish, MarkFailed
    <3> QED BY <1>5, <3>1, <3>2, FinishedFacts DEF RowKept
  <2>6. PICK w \in Workers, j \in Keys, b \in Bodies, t \in Stamps :
          ClaimNew(w, j, b, t)
    BY <1>3, <1>5, <2>2, <2>4, <2>5
    DEF Next, Claim, Step, ClaimConflict, ClaimReplay, CommitRefused, Raise,
        StoreFault, Crash, Restart, Tick, vars, RowKept
  <2>7. j = k BY <2>3, <2>6 DEF ClaimNew
  <2>8. rec'[k] = NewRecord(b, t) BY <2>6, <2>7 DEF ClaimNew, Purged
  <2>9. th'[w] = [pc |-> "operating", key |-> k, body |-> b,
                  op |-> nextOp + 1, claimed |-> t]
    BY <2>6, <2>7 DEF ClaimNew, TypeOK
  <2> QED BY <2>8, <2>9 DEF NewRecord
<1> QED BY <1>1, <1>2, <1>4, <1>5 DEF RowChange

(* If the store, moreover, does not fail while an error is recorded, no key is
   left in progress by a thread that is gone. *)
THEOREM InProgressAlwaysOwned ==
    ASSUME MaxOp <= TTL, ~StoreFaults PROVE Spec => []InProgressOwned
<1>1. Init => OwnedInv
  <2> SUFFICES ASSUME Init PROVE OwnedInv OBVIOUS
  <2>1. InProgressOwned BY DEF Init, InProgressOwned, NoRecord
  <2> QED BY <2>1, InTimeInit DEF OwnedInv
<1>2. OwnedInv /\ [Next]_vars => OwnedInv'
  BY InTimeStep, InProgressStep DEF OwnedInv
<1>3. OwnedInv => InProgressOwned BY DEF OwnedInv
<1> QED BY <1>1, <1>2, <1>3, PTL DEF Spec
=============================================================================
