------------------------- MODULE TrainingLeaseProofs -------------------------
(***************************************************************************)
(* Proofs about TrainingLease for every number of trainers, every lease    *)
(* duration and every number of episodes.                                  *)
(***************************************************************************)
EXTENDS TrainingLease, TLAPS

(* A timestamp is a natural number no later than the clock and at most Lag
   behind it. *)
LEMMA StampFacts ==
    ASSUME TypeOK, NEW s \in Stamps
    PROVE  s \in Nat /\ s <= now /\ now <= s + Lag /\ now \in Nat
BY LeaseAssumption DEF Stamps, TypeOK

(* The lease duration of a request is a natural number, at least the
   configured one. *)
LEMMA LeaseTTLFacts ==
    ASSUME NEW e \in 1..Episodes
    PROVE  LeaseTTL(e) \in Nat /\ LeaseSeconds <= LeaseTTL(e)
BY LeaseAssumption DEF LeaseTTL

(* What the type invariant says of a running operation. *)
LEMMA Running ==
    ASSUME TypeOK, NEW t \in Trainers, tr[t].pc # "idle"
    PROVE  tr[t] \in RunningOperations
BY DEF TypeOK, Operations, Resting

(* The acquisition of an operation, running or not, is a natural number. *)
LEMMA UidType ==
    ASSUME TypeOK, NEW t \in Trainers
    PROVE  tr[t].uid \in Nat /\ lease.token \in Nat
BY DEF TypeOK, Operations, RunningOperations, Resting

(* An operation that ends its training keeps everything but its place. *)
LEMMA EndsTraining ==
    ASSUME TypeOK, NEW t \in Trainers, tr[t].pc = "training",
           tr' = [tr EXCEPT ![t].pc = "releasing"]
    PROVE  /\ tr' \in [Trainers -> Operations]
           /\ tr'[t].pc = "releasing" /\ tr'[t].uid = tr[t].uid
           /\ \A o \in Trainers : o # t => tr'[o] = tr[o]
<1>1. tr'[t] = [tr[t] EXCEPT !.pc = "releasing"]
  BY DEF TypeOK
<1>2. tr[t] \in RunningOperations
  BY Running
<1>3. tr'[t] \in Operations /\ tr'[t].pc = "releasing" /\ tr'[t].uid = tr[t].uid
  BY <1>1, <1>2 DEF Operations, RunningOperations
<1> QED BY <1>3 DEF TypeOK

(* Reading the lease back changes the place and the token of the reader. *)
LEMMA ReadBackFacts ==
    ASSUME TypeOK, NEW t \in Trainers, ReadBack(t)
    PROVE  /\ tr' \in [Trainers -> Operations]
           /\ tr'[t].pc = "training" /\ tr'[t].uid = tr[t].uid
           /\ tr'[t].token = lease.token /\ tr'[t].beat = tr[t].beat
           /\ tr'[t].ttl = tr[t].ttl
           /\ \A o \in Trainers : o # t => tr'[o] = tr[o]
<1>1. tr[t] \in RunningOperations /\ lease.token \in Nat
  BY Running, UidType DEF ReadBack
<1>2. tr'[t] = [tr[t] EXCEPT !.pc = "training", !.token = lease.token]
  BY DEF TypeOK, ReadBack
<1>3. /\ tr'[t] \in Operations /\ tr'[t].pc = "training"
      /\ tr'[t].uid = tr[t].uid /\ tr'[t].token = lease.token
      /\ tr'[t].beat = tr[t].beat /\ tr'[t].ttl = tr[t].ttl
  BY <1>1, <1>2 DEF Operations, RunningOperations
<1> QED BY <1>3 DEF TypeOK, ReadBack

(* A heartbeat counts an episode and notes the time. *)
LEMMA BeatenFacts ==
    ASSUME TypeOK, NEW t \in Trainers, tr[t].pc = "training", tr[t].left > 0
    PROVE  /\ Beaten(t) \in Operations /\ Beaten(t).pc = "training"
           /\ Beaten(t).uid = tr[t].uid /\ Beaten(t).token = tr[t].token
           /\ Beaten(t).beat = now /\ Beaten(t).ttl = tr[t].ttl
<1>1. tr[t] \in RunningOperations
  BY Running
<1>2. tr[t].left - 1 \in 0..Episodes /\ now \in Nat
  BY <1>1, LeaseAssumption DEF TypeOK, RunningOperations
<1>3. /\ Beaten(t) \in Operations /\ Beaten(t).pc = tr[t].pc
      /\ Beaten(t).uid = tr[t].uid /\ Beaten(t).token = tr[t].token
      /\ Beaten(t).beat = now /\ Beaten(t).ttl = tr[t].ttl
  BY <1>1, <1>2 DEF Beaten, Operations, RunningOperations
<1> QED BY <1>3

(* The facts of fencing that hold together with the types. *)
FenceInv ==
    TypeOK /\ TokensIssued /\ HoldersUnique /\ UncommittedFresh /\ TokensUnique

(* Every step keeps the types and the facts of fencing. *)
LEMMA FenceStep == FenceInv /\ [Next]_vars => FenceInv'
<1> SUFFICES ASSUME FenceInv, [Next]_vars PROVE FenceInv'
  OBVIOUS
<1>0. TypeOK /\ TokensIssued /\ HoldersUnique /\ UncommittedFresh /\ TokensUnique
  BY DEF FenceInv
<1>1. ASSUME NEW t \in Trainers, NEW i \in TrainingIds, NEW e \in 1..Episodes,
             NEW s \in Stamps, Acquire(t, i, e, s)
      PROVE  FenceInv'
  <2>1. /\ lease.token \in Nat /\ lease.token + 1 \in Nat \ {0}
        /\ s \in Nat /\ now \in Nat /\ LeaseTTL(e) \in Nat
        /\ s + LeaseTTL(e) \in Nat /\ e \in 0..Episodes
    BY <1>0, StampFacts, LeaseTTLFacts, LeaseAssumption DEF TypeOK
  <2>2. lease' \in [holder : Trainers \union {None}, token : Nat, expires : Nat]
    BY <1>1, <2>1 DEF Acquire
  <2>3. tr' \in [Trainers -> Operations]
    BY <1>0, <1>1, <2>1 DEF Acquire, TypeOK, Operations, RunningOperations
  <2>4. TypeOK' BY <1>0, <1>1, <2>2, <2>3 DEF Acquire, TypeOK
  <2>5. lease'.token = lease.token + 1 /\ runs' = runs
    BY <1>1 DEF Acquire
  <2>6. tr'[t].uid = lease.token + 1
    BY <1>0, <1>1 DEF Acquire, TypeOK
  <2>7. \A o \in Trainers : o # t => tr'[o] = tr[o]
    BY <1>0, <1>1 DEF Acquire, TypeOK
  <2>8. \A o \in Trainers : tr[o].uid \in Nat /\ tr[o].uid <= lease.token
    BY <1>0, UidType DEF TokensIssued
  <2>9. \A r \in runs : r.token \in Nat /\ r.token <= lease.token /\ r.uid = r.token
    BY <1>0 DEF TypeOK, TokensIssued, TokensUnique
  <2>10. TokensIssued'
    BY <2>1, <2>5, <2>6, <2>7, <2>8, <2>9 DEF TokensIssued
  <2>11. HoldersUnique'
    BY <1>0, <2>1, <2>6, <2>7, <2>8 DEF HoldersUnique
  <2>12. UncommittedFresh'
    BY <1>0, <2>1, <2>5, <2>6, <2>7, <2>9 DEF UncommittedFresh
  <2>13. TokensUnique' BY <1>0, <2>5 DEF TokensUnique
  <2> QED BY <2>4, <2>10, <2>11, <2>12, <2>13 DEF FenceInv
<1>2. ASSUME NEW t \in Trainers, tr' \in [Trainers -> Operations],
             tr[t].pc # "idle", tr'[t].pc # "idle", tr'[t].uid = tr[t].uid,
             tr'[t].pc \in {"reading", "training"}
                => tr[t].pc \in {"reading", "training"},
             \A o \in Trainers : o # t => tr'[o] = tr[o],
             lease' \in [holder : Trainers \union {None}, token : Nat, expires : Nat],
             lease'.token = lease.token,
             UNCHANGED <<now, up, runs, leaked>>
      PROVE  FenceInv'
  <2>1. TypeOK' BY <1>0, <1>2 DEF TypeOK
  <2>2. TokensIssued' BY <1>0, <1>2 DEF TokensIssued
  <2>3. HoldersUnique' BY <1>0, <1>2 DEF HoldersUnique
  <2>4. UncommittedFresh' BY <1>0, <1>2 DEF UncommittedFresh
  <2>5. TokensUnique' BY <1>0, <1>2 DEF TokensUnique
  <2> QED BY <2>1, <2>2, <2>3, <2>4, <2>5 DEF FenceInv
<1>3. ASSUME NEW t \in Trainers, tr[t].pc = "training",
             tr' = [tr EXCEPT ![t].pc = "releasing"],
             UNCHANGED <<now, up, lease, runs, leaked>>
      PROVE  FenceInv'
  <2>1. /\ tr' \in [Trainers -> Operations]
        /\ tr'[t].pc = "releasing" /\ tr'[t].uid = tr[t].uid
        /\ \A o \in Trainers : o # t => tr'[o] = tr[o]
    BY <1>0, <1>3, EndsTraining
  <2>2. /\ lease' \in [holder : Trainers \union {None}, token : Nat, expires : Nat]
        /\ lease'.token = lease.token
    BY <1>0, <1>3 DEF TypeOK
  <2> QED BY <1>2, <1>3, <2>1, <2>2
<1>4. ASSUME NEW t \in Trainers, NEW s \in Stamps, Heartbeat(t, s)
      PROVE  FenceInv'
  <2>1. s \in Nat BY <1>0, StampFacts
  <2>2. /\ tr' \in [Trainers -> Operations]
        /\ tr'[t].pc = "training" /\ tr'[t].uid = tr[t].uid
        /\ \A o \in Trainers : o # t => tr'[o] = tr[o]
    BY <1>0, <1>4, BeatenFacts DEF Heartbeat, TypeOK
  <2>3. tr[t].ttl \in Nat /\ tr[t].pc = "training"
    BY <1>0, <1>4, Running DEF Heartbeat, RunningOperations
  <2>4. /\ lease' \in [holder : Trainers \union {None}, token : Nat, expires : Nat]
        /\ lease'.token = lease.token
    BY <1>0, <1>4, <2>1, <2>3 DEF Heartbeat, TypeOK
  <2>5. UNCHANGED <<now, up, runs, leaked>> BY <1>4 DEF Heartbeat
  <2> QED BY <1>2, <2>2, <2>3, <2>4, <2>5
<1>5. ASSUME NEW t \in Trainers, ReadBack(t) PROVE FenceInv'
  <2>1. /\ tr' \in [Trainers -> Operations]
        /\ tr'[t].pc = "training" /\ tr'[t].uid = tr[t].uid
        /\ \A o \in Trainers : o # t => tr'[o] = tr[o]
    BY <1>0, <1>5, ReadBackFacts
  <2>2. /\ lease' \in [holder : Trainers \union {None}, token : Nat, expires : Nat]
        /\ lease'.token = lease.token
    BY <1>0, <1>5 DEF ReadBack, TypeOK
  <2>3. tr[t].pc = "reading" /\ UNCHANGED <<now, up, runs, leaked>>
    BY <1>5 DEF ReadBack
  <2> QED BY <1>2, <2>1, <2>2, <2>3
<1>6. ASSUME NEW t \in Trainers, NEW s \in Stamps, Commit(t, s)
      PROVE  FenceInv'
  <2>1. /\ tr[t].pc = "training" /\ tr[t].uid = lease.token
        /\ tr[t].token = lease.token
    BY <1>6 DEF Commit, Renewable, Holds, IsHolder
  <2>2. s \in Nat /\ tr[t].ttl \in Nat /\ tr[t].token \in Nat /\ tr[t].uid \in Nat
        /\ tr[t].id \in TrainingIds
    BY <1>0, <2>1, StampFacts, Running DEF RunningOperations
  <2>3. /\ tr' \in [Trainers -> Operations]
        /\ tr'[t].pc = "releasing" /\ tr'[t].uid = tr[t].uid
        /\ \A o \in Trainers : o # t => tr'[o] = tr[o]
    BY <1>0, <1>6, <2>1, EndsTraining DEF Commit
  <2>4. /\ lease' \in [holder : Trainers \union {None}, token : Nat, expires : Nat]
        /\ lease'.token = lease.token
    BY <1>0, <1>6, <2>2 DEF Commit, TypeOK
  <2>5. PICK n : n = [id |-> tr[t].id, uid |-> tr[t].uid, token |-> tr[t].token]
    OBVIOUS
  <2>6. /\ n.uid = lease.token /\ n.token = lease.token /\ runs' = runs \union {n}
        /\ n \in [id : TrainingIds, uid : Nat, token : Nat]
    BY <1>6, <2>1, <2>2, <2>5 DEF Commit
  <2>7. TypeOK' BY <1>0, <1>6, <2>3, <2>4, <2>6 DEF Commit, TypeOK
  <2>8. TokensIssued'
    BY <1>0, <2>2, <2>1, <2>3, <2>4, <2>6 DEF TokensIssued
  <2>9. HoldersUnique' BY <1>0, <2>1, <2>3 DEF HoldersUnique
  <2>10. \A o \in Trainers : tr'[o].pc \in {"reading", "training"} =>
          /\ o # t /\ tr[o].pc \in {"reading", "training"}
          /\ tr'[o] = tr[o] /\ tr[o].uid # n.uid
    BY <1>0, <2>1, <2>3, <2>6 DEF HoldersUnique
  <2>11. UncommittedFresh' BY <1>0, <2>6, <2>10 DEF UncommittedFresh
  <2>12. \A q \in runs : q.uid # n.uid /\ q.token = q.uid
    BY <1>0, <2>1, <2>6 DEF UncommittedFresh, TokensUnique
  <2>13. TokensUnique' BY <1>0, <2>6, <2>12 DEF TokensUnique
  <2> QED BY <2>7, <2>8, <2>9, <2>11, <2>13 DEF FenceInv
<1>7. ASSUME NEW t \in Trainers, tr' = [tr EXCEPT ![t] = Resting],
             lease' \in [holder : Trainers \union {None}, token : Nat, expires : Nat],
             lease'.token = lease.token, leaked' \subseteq Nat,
             UNCHANGED <<now, up, runs>>
      PROVE  FenceInv'
  <2>1. /\ tr' \in [Trainers -> Operations]
        /\ tr'[t].pc = "idle" /\ tr'[t].uid = 0
        /\ \A o \in Trainers : o # t => tr'[o] = tr[o]
    BY <1>0, <1>7 DEF TypeOK, Operations, Resting
  <2>2. TypeOK' BY <1>0, <1>7, <2>1 DEF TypeOK
  <2>3. TokensIssued' BY <1>0, <1>7, <2>1, UidType DEF TokensIssued
  <2>4. HoldersUnique' BY <1>0, <2>1 DEF HoldersUnique
  <2>5. UncommittedFresh' BY <1>0, <1>7, <2>1 DEF UncommittedFresh
  <2>6. TokensUnique' BY <1>0, <1>7 DEF TokensUnique
  <2> QED BY <2>2, <2>3, <2>4, <2>5, <2>6 DEF FenceInv
<1>8. ASSUME NEW t \in Trainers, NEW s \in Stamps, Release(t, s)
      PROVE  FenceInv'
  <2>1. s \in Nat BY <1>0, StampFacts
  <2>2. /\ lease' \in [holder : Trainers \union {None}, token : Nat, expires : Nat]
        /\ lease'.token = lease.token
    BY <1>0, <1>8, <2>1 DEF Release, TypeOK
  <2>3. leaked' \subseteq Nat BY <1>0, <1>8 DEF Release, TypeOK
  <2> QED BY <1>7, <1>8, <2>2, <2>3 DEF Release
<1>9. ASSUME NEW t \in Trainers, ReleaseFault(t) \/ ReadBackFault(t)
      PROVE  FenceInv'
  <2>1. leaked' \subseteq Nat
    BY <1>0, <1>9, UidType DEF ReleaseFault, ReadBackFault, TypeOK
  <2>2. /\ lease' \in [holder : Trainers \union {None}, token : Nat, expires : Nat]
        /\ lease'.token = lease.token
    BY <1>0, <1>9 DEF ReleaseFault, ReadBackFault, TypeOK
  <2> QED BY <1>7, <1>9, <2>1, <2>2 DEF ReleaseFault, ReadBackFault
<1>10. CASE Crash
  <2>1. \A t \in Trainers : tr'[t] = Resting BY <1>10 DEF Crash
  <2>2. TypeOK' BY <1>0, <1>10 DEF Crash, TypeOK, Operations
  <2>3. TokensIssued' BY <1>0, <1>10, <2>1, UidType DEF Crash, TokensIssued, Resting
  <2>4. HoldersUnique' /\ UncommittedFresh'
    BY <2>1 DEF HoldersUnique, UncommittedFresh, Resting
  <2>5. TokensUnique' BY <1>0, <1>10 DEF Crash, TokensUnique
  <2> QED BY <2>2, <2>3, <2>4, <2>5 DEF FenceInv
<1>11. ASSUME NEW s \in Stamps, Restart(s) PROVE FenceInv'
  <2>1. s \in Nat BY <1>0, StampFacts
  <2>2. /\ lease' \in [holder : Trainers \union {None}, token : Nat, expires : Nat]
        /\ lease'.token = lease.token
    BY <1>0, <1>11, <2>1 DEF Restart, Reconciled, TypeOK
  <2>3. UNCHANGED <<now, tr, runs, leaked>> /\ up' = TRUE
    BY <1>11 DEF Restart
  <2> QED BY <1>0, <2>2, <2>3
    DEF FenceInv, TypeOK, TokensIssued, HoldersUnique, UncommittedFresh, TokensUnique
<1>12. CASE Tick
  BY <1>0, <1>12, LeaseAssumption
  DEF Tick, FenceInv, TypeOK, TokensIssued, HoldersUnique, UncommittedFresh,
      TokensUnique
<1>13. CASE UNCHANGED vars
  BY <1>0, <1>13
  DEF vars, FenceInv, TypeOK, TokensIssued, HoldersUnique, UncommittedFresh,
      TokensUnique
<1> QED
  BY <1>1, <1>3, <1>4, <1>5, <1>6, <1>8, <1>9, <1>10, <1>11, <1>12, <1>13
  DEF Next, Begin, Step, AcquireRefused, HeartbeatLost, CommitRefused, Abort

(* The types and the fencing facts hold from the start. *)
LEMMA FenceInit == Init => FenceInv
BY LeaseAssumption
DEF Init, FenceInv, TypeOK, TokensIssued, HoldersUnique, UncommittedFresh,
    TokensUnique, NoLease, Resting, Operations

(* The lease row, the operations and the recorded runs keep their shape. *)
THEOREM LeaseTypeCorrect == Spec => []TypeOK
<1>1. FenceInv => TypeOK BY DEF FenceInv
<1> QED BY <1>1, FenceInit, FenceStep, PTL DEF Spec

(* Every recorded run bears the fencing token of its own acquisition and shares
   it with no other, across expiries, takeovers, tokens read back late,
   crashes and restarts. *)
THEOREM TokensUniqueCorrect == Spec => []TokensUnique
<1>1. FenceInv => TokensUnique BY DEF FenceInv
<1> QED BY <1>1, FenceInit, FenceStep, PTL DEF Spec

(* A step that records a run does so under the row's own token, which no
   recorded run has. *)
LEMMA CommitFenced ==
    ASSUME FenceInv, Next, NEW r \in runs' \ runs, NEW q \in runs
    PROVE  q.token < r.token
<1>1. PICK t \in Trainers, s \in Stamps : Commit(t, s)
  BY DEF Next, Begin, Step, Acquire, AcquireRefused, Heartbeat, HeartbeatLost,
         CommitRefused, Abort, Release, ReleaseFault, ReadBack, ReadBackFault,
         Crash, Restart, Tick, vars
<1>2. r.token = tr[t].token BY <1>1 DEF Commit
<1>3. tr[t].token = lease.token /\ tr[t].uid = lease.token
  BY <1>1 DEF Commit, Renewable, Holds, IsHolder
<1>4. q.uid # tr[t].uid /\ q.token = q.uid
  BY <1>1 DEF Commit, FenceInv, UncommittedFresh, TokensUnique
<1>5. q.token \in Nat /\ q.token <= lease.token /\ lease.token \in Nat
  BY DEF FenceInv, TypeOK, TokensIssued
<1> QED BY <1>2, <1>3, <1>4, <1>5

(* Fencing (the comment on the final renewal in train_challenger): training
   runs are committed in strictly increasing order of their tokens. *)
THEOREM FencedCommitsCorrect == Spec => FencedCommits
<1>1. FenceInv /\ [Next]_vars =>
        [\A r \in runs' \ runs : \A q \in runs : q.token < r.token]_vars
  BY CommitFenced
<1> QED BY <1>1, FenceInit, FenceStep, PTL DEF Spec, FencedCommits

-----------------------------------------------------------------------------
(* A trainer loses its lease only by its own delay *)

KeepInv == FenceInv /\ DownQuiet /\ LeaseCovers

(* What LeaseCovers says of one operation o on a row l at a time n. *)
Covered(o, l, holder, n) ==
    o.pc \in {"reading", "training"} =>
        /\ LeaseSeconds <= o.ttl
        /\ o.pc = "training" /\ holder /\ l.token = o.uid => l.token = o.token
        /\ \/ /\ holder /\ l.token = o.uid
              /\ o.beat + LeaseSeconds <= l.expires + Lag
           \/ o.beat + LeaseSeconds <= n + Lag

(* LeaseCovers, one operation at a time. *)
LEMMA CoveredEach ==
    LeaseCovers <=>
        \A t \in Trainers : Covered(tr[t], lease, lease.holder = t, now)
BY DEF LeaseCovers, Covered, IsHolder, Holds

(* The same of the next state. *)
LEMMA CoveredEachNext ==
    LeaseCovers' <=>
        \A t \in Trainers : Covered(tr'[t], lease', lease'.holder = t, now')
BY DEF LeaseCovers, Covered, IsHolder, Holds

(* Every step keeps the facts that say why a trainer has, or lost, its lease. *)
LEMMA KeepStep == KeepInv /\ [Next]_vars => KeepInv'
<1> SUFFICES ASSUME KeepInv, [Next]_vars PROVE KeepInv'
  OBVIOUS
<1>0. TypeOK /\ HoldersUnique /\ DownQuiet BY DEF KeepInv, FenceInv
<1>1. FenceInv' BY FenceStep DEF KeepInv
<1>b. \A o \in Trainers : Covered(tr[o], lease, lease.holder = o, now)
  BY CoveredEach DEF KeepInv
<1> SUFFICES /\ DownQuiet'
             /\ \A o \in Trainers : Covered(tr'[o], lease', lease'.holder = o, now')
  BY <1>1, CoveredEachNext DEF KeepInv
<1>a. /\ now \in Nat /\ lease.expires \in Nat /\ lease.token \in Nat
      /\ \A o \in Trainers : tr[o].pc \in {"reading", "training"} =>
            tr[o].beat \in Nat /\ tr[o].ttl \in Nat
  BY <1>0, Running, LeaseAssumption DEF TypeOK, RunningOperations
<1>2. ASSUME NEW t \in Trainers, NEW i \in TrainingIds, NEW e \in 1..Episodes,
             NEW s \in Stamps, Acquire(t, i, e, s)
      PROVE  /\ DownQuiet'
             /\ \A o \in Trainers : Covered(tr'[o], lease', lease'.holder = o, now')
  <2>1. /\ s \in Nat /\ s <= now /\ now <= s + Lag
        /\ LeaseTTL(e) \in Nat /\ LeaseSeconds <= LeaseTTL(e)
    BY <1>0, StampFacts, LeaseTTLFacts
  <2>2. \A o \in Trainers : o # t => tr'[o] = tr[o]
    BY <1>0, <1>2 DEF Acquire, TypeOK
  <2>3. tr'[t] = [pc |-> "reading", id |-> i, uid |-> lease.token + 1,
                  token |-> 0, ttl |-> LeaseTTL(e), left |-> e, beat |-> now]
    BY <1>0, <1>2 DEF Acquire, TypeOK
  <2>4. lease' = [holder |-> t, token |-> lease.token + 1,
                  expires |-> s + LeaseTTL(e)]
    BY <1>2 DEF Acquire
  <2>5. now' = now /\ up' = up /\ up /\ (lease.holder = None \/ lease.expires <= s)
    BY <1>2 DEF Acquire, Free
  <2>6. ASSUME NEW o \in Trainers, o # t
        PROVE  Covered(tr'[o], lease', lease'.holder = o, now')
    <3>1. lease'.holder # o BY <2>4, <2>6
    <3>2. o # None BY LeaseAssumption
    <3>3. Covered(tr[o], lease, lease.holder = o, now) BY <1>b
    <3> QED BY <1>a, <2>1, <2>2, <2>5, <2>6, <3>1, <3>2, <3>3, LeaseAssumption
      DEF Covered
  <2>7. /\ lease'.holder = t /\ lease'.token = tr'[t].uid /\ tr'[t].pc = "reading"
        /\ LeaseSeconds <= tr'[t].ttl
        /\ tr'[t].beat + LeaseSeconds <= lease'.expires + Lag
    BY <1>a, <2>1, <2>3, <2>4, LeaseAssumption
  <2>8. Covered(tr'[t], lease', lease'.holder = t, now')
    BY <2>7 DEF Covered
  <2> QED BY <2>5, <2>6, <2>8 DEF DownQuiet
<1>3. ASSUME NEW t \in Trainers, NEW s \in Stamps, Heartbeat(t, s)
      PROVE  /\ DownQuiet'
             /\ \A o \in Trainers : Covered(tr'[o], lease', lease'.holder = o, now')
  <2>1. s \in Nat /\ now <= s + Lag BY <1>0, StampFacts
  <2>2. /\ tr[t].pc = "training" /\ up /\ up' = up /\ now' = now
        /\ lease.holder = t /\ lease.token = tr[t].uid /\ lease.token = tr[t].token
    BY <1>3 DEF Heartbeat, Renewable, Holds, IsHolder
  <2>3. /\ tr'[t].pc = "training" /\ tr'[t].token = tr[t].token
        /\ tr'[t].uid = tr[t].uid /\ tr'[t].beat = now /\ tr'[t].ttl = tr[t].ttl
        /\ \A o \in Trainers : o # t => tr'[o] = tr[o]
    BY <1>0, <1>3, BeatenFacts DEF Heartbeat, TypeOK
  <2>4. /\ lease'.holder = lease.holder /\ lease'.token = lease.token
        /\ lease'.expires = s + tr[t].ttl
    BY <1>0, <1>3 DEF Heartbeat, TypeOK
  <2>5. tr[t].ttl \in Nat /\ LeaseSeconds <= tr[t].ttl
    BY <1>a, <1>b, <2>2 DEF Covered
  <2>6. Covered(tr'[t], lease', lease'.holder = t, now')
    <3>1. /\ lease'.holder = t /\ lease'.token = tr'[t].uid
          /\ lease'.token = tr'[t].token /\ LeaseSeconds <= tr'[t].ttl
      BY <2>2, <2>3, <2>4, <2>5
    <3>2. tr'[t].beat + LeaseSeconds <= lease'.expires + Lag
      BY <1>a, <2>1, <2>3, <2>4, <2>5, LeaseAssumption
    <3> QED BY <3>1, <3>2 DEF Covered
  <2>7. ASSUME NEW o \in Trainers, o # t
        PROVE  Covered(tr'[o], lease', lease'.holder = o, now')
    <3>1. Covered(tr[o], lease, lease.holder = o, now) BY <1>b
    <3> QED BY <2>2, <2>3, <2>4, <2>7, <3>1 DEF Covered
  <2> QED BY <2>2, <2>6, <2>7 DEF DownQuiet
<1>4. ASSUME NEW t \in Trainers, up, UNCHANGED <<now, up>>,
             tr'[t].pc \notin {"reading", "training"},
             \A o \in Trainers : o # t => tr'[o] = tr[o],
             lease' = lease \/ (Holds(t) /\ lease'.holder \in {None, t})
      PROVE  /\ DownQuiet'
             /\ \A o \in Trainers : Covered(tr'[o], lease', lease'.holder = o, now')
  <2>1. ASSUME NEW o \in Trainers
        PROVE  Covered(tr'[o], lease', lease'.holder = o, now')
    <3>1. Covered(tr[o], lease, lease.holder = o, now) BY <1>b
    <3>2. CASE o = t BY <1>4, <3>2 DEF Covered
    <3>3. CASE o # t /\ lease' = lease BY <1>4, <3>1, <3>3
    <3>4. CASE o # t /\ Holds(t) /\ lease'.holder \in {None, t}
      <4>1. lease.holder # o /\ tr'[o] = tr[o] /\ now' = now
        BY <1>4, <3>4 DEF Holds, IsHolder
      <4>2. tr[o].pc \in {"reading", "training"} =>
              LeaseSeconds <= tr[o].ttl /\ tr[o].beat + LeaseSeconds <= now + Lag
        BY <3>1, <4>1 DEF Covered
      <4>3. lease'.holder # o BY <3>4, LeaseAssumption
      <4> QED BY <4>1, <4>2, <4>3 DEF Covered
    <3> QED BY <1>4, <3>2, <3>3, <3>4
  <2> QED BY <1>4, <2>1 DEF DownQuiet
<1>5. ASSUME NEW t \in Trainers, tr[t].pc = "training", up, UNCHANGED <<now, up>>,
             tr' = [tr EXCEPT ![t].pc = "releasing"],
             lease' = lease \/ (Holds(t) /\ lease'.holder \in {None, t})
      PROVE  /\ DownQuiet'
             /\ \A o \in Trainers : Covered(tr'[o], lease', lease'.holder = o, now')
  <2>1. /\ tr'[t].pc = "releasing"
        /\ \A o \in Trainers : o # t => tr'[o] = tr[o]
    BY <1>0, <1>5, EndsTraining
  <2> QED BY <1>4, <1>5, <2>1
<1>6. ASSUME NEW t \in Trainers, up, UNCHANGED <<now, up>>,
             tr' = [tr EXCEPT ![t] = Resting],
             lease' = lease \/ (Holds(t) /\ lease'.holder \in {None, t})
      PROVE  /\ DownQuiet'
             /\ \A o \in Trainers : Covered(tr'[o], lease', lease'.holder = o, now')
  <2>1. /\ tr'[t].pc = "idle"
        /\ \A o \in Trainers : o # t => tr'[o] = tr[o]
    BY <1>0, <1>6 DEF TypeOK, Resting
  <2> QED BY <1>4, <1>6, <2>1
<1>7. ASSUME NEW t \in Trainers, NEW s \in Stamps, Commit(t, s)
      PROVE  /\ DownQuiet'
             /\ \A o \in Trainers : Covered(tr'[o], lease', lease'.holder = o, now')
  <2>1. Holds(t) /\ lease'.holder = t
    BY <1>0, <1>7 DEF Commit, Renewable, Holds, IsHolder, TypeOK
  <2> QED BY <1>5, <1>7, <2>1 DEF Commit
<1>8. ASSUME NEW t \in Trainers, NEW s \in Stamps, Release(t, s)
      PROVE  /\ DownQuiet'
             /\ \A o \in Trainers : Covered(tr'[o], lease', lease'.holder = o, now')
  <2>1. lease' = lease \/ (Holds(t) /\ lease'.holder \in {None, t})
    BY <1>0, <1>8 DEF Release, TypeOK
  <2> QED BY <1>6, <1>8, <2>1 DEF Release
<1>9. ASSUME NEW t \in Trainers, ReadBack(t)
      PROVE  /\ DownQuiet'
             /\ \A o \in Trainers : Covered(tr'[o], lease', lease'.holder = o, now')
  <2>1. /\ tr'[t].pc = "training" /\ tr'[t].uid = tr[t].uid
        /\ tr'[t].token = lease.token /\ tr'[t].beat = tr[t].beat
        /\ tr'[t].ttl = tr[t].ttl
        /\ \A o \in Trainers : o # t => tr'[o] = tr[o]
    BY <1>0, <1>9, ReadBackFacts
  <2>2. up /\ UNCHANGED <<now, up, lease>> /\ tr[t].pc = "reading"
    BY <1>9 DEF ReadBack
  <2>3. Covered(tr'[t], lease', lease'.holder = t, now')
    BY <1>b, <2>1, <2>2 DEF Covered
  <2> QED BY <1>b, <2>1, <2>2, <2>3 DEF DownQuiet
<1>10. CASE Crash
  <2>1. up' = FALSE /\ \A o \in Trainers : tr'[o].pc = "idle"
    BY <1>10 DEF Crash, Resting
  <2> QED BY <2>1 DEF DownQuiet, Covered
<1>11. ASSUME NEW s \in Stamps, Restart(s)
       PROVE  /\ DownQuiet'
              /\ \A o \in Trainers : Covered(tr'[o], lease', lease'.holder = o, now')
  <2>1. up' = TRUE /\ \A o \in Trainers : tr'[o].pc = "idle"
    BY <1>0, <1>11 DEF Restart, DownQuiet
  <2> QED BY <2>1 DEF DownQuiet, Covered
<1>12. CASE Tick
  <2>1. now' = now + 1 /\ UNCHANGED <<up, lease, tr>>
    BY <1>12 DEF Tick
  <2>2. \A o \in Trainers : Covered(tr'[o], lease', lease'.holder = o, now')
    BY <1>a, <1>b, <2>1, LeaseAssumption DEF Covered
  <2> QED BY <1>0, <2>1, <2>2 DEF DownQuiet
<1>13. CASE UNCHANGED vars
  BY <1>0, <1>b, <1>13 DEF vars, DownQuiet
<1> QED
  BY <1>2, <1>3, <1>5, <1>6, <1>7, <1>8, <1>9, <1>10, <1>11, <1>12, <1>13
  DEF Next, Begin, Step, AcquireRefused, HeartbeatLost, CommitRefused, Abort,
      ReleaseFault, ReadBackFault

(* A trainer is fenced out only if it did not renew for the configured lease
   duration, less the lag of a timestamp: trainings that renew in time never
   overlap.  This is what lease_seconds has to be chosen for. *)
THEOREM TrainerKeepsLeaseCorrect == Spec => []TrainerKeepsLease
<1>1. Init => KeepInv
  BY FenceInit DEF KeepInv, Init, DownQuiet, LeaseCovers, Resting
<1>2. KeepInv => TrainerKeepsLease
  BY DEF KeepInv, LeaseCovers, TrainerKeepsLease, Holds
<1> QED BY <1>1, <1>2, KeepStep, PTL DEF Spec

(* A step that changes the holder of a held lease takes an expired one, is the
   holder's own release, or is the start of the service. *)
LEMMA HolderChanges ==
    ASSUME TypeOK, [Next]_vars, lease.holder # None,
           lease'.holder # lease.holder
    PROVE  \/ lease.expires <= now
           \/ ~up
           \/ /\ tr[lease.holder].pc = "releasing"
              /\ tr[lease.holder].uid = lease.token
<1>1. lease \in [holder : Trainers \union {None}, token : Nat, expires : Nat]
  BY DEF TypeOK
<1>2. ASSUME NEW x, lease' = [lease EXCEPT !.expires = x] PROVE FALSE
  BY <1>1, <1>2
<1>3. ASSUME NEW t \in Trainers, NEW i \in TrainingIds, NEW e \in 1..Episodes,
             NEW s \in Stamps, Acquire(t, i, e, s)
      PROVE  lease.expires <= now
  <2>1. s \in Nat /\ s <= now /\ now \in Nat BY StampFacts
  <2>2. lease.expires <= s BY <1>3 DEF Acquire, Free
  <2> QED BY <1>1, <2>1, <2>2
<1>4. ASSUME NEW t \in Trainers, NEW s \in Stamps, Release(t, s)
      PROVE  /\ tr[lease.holder].pc = "releasing"
             /\ tr[lease.holder].uid = lease.token
  <2>1. Holds(t) BY <1>4 DEF Release
  <2> QED BY <1>4, <2>1 DEF Release, Holds, IsHolder
<1> QED
  BY <1>2, <1>3, <1>4
  DEF Next, Begin, Step, AcquireRefused, Heartbeat, HeartbeatLost, Commit,
      CommitRefused, Abort, ReleaseFault, ReadBack, ReadBackFault, Crash, Restart,
      Tick, vars

(* A lease is lost by expiry, by the holder's own release or with the process,
   and in no other way: a fenced trainer's late release frees nobody else's
   lease, for any lease duration and number of trainers. *)
THEOREM LeaseNeverStolen == Spec => LeaseTakenOnlyWhenLost
<1>1. TypeOK /\ [Next]_vars =>
        [lease.holder # None /\ lease'.holder # lease.holder =>
            \/ lease.expires <= now
            \/ ~up
            \/ /\ tr[lease.holder].pc = "releasing"
               /\ tr[lease.holder].uid = lease.token]_vars
  BY HolderChanges
<1> QED BY <1>1, LeaseTypeCorrect, PTL DEF Spec, LeaseTakenOnlyWhenLost
=============================================================================
