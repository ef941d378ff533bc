------------------------- MODULE PolicyRegistryProofs -------------------------
(***************************************************************************)
(* Proofs about the champion registry, for any number of artifacts,        *)
(* subjects, threads and suites, any scores and any thresholds.            *)
(*                                                                         *)
(* Only CommitChange touches the audit table and the registry row; every   *)
(* other action moves at most one operation.  The operations carry what    *)
(* they have read (PromotionEvidence, RollbackEvidence), and the           *)
(* compare-and-swap of CommitChange turns the champion an operation        *)
(* expects into the champion it replaces.                                  *)
(***************************************************************************)
EXTENDS PolicyRegistry, TLAPS

(* The conjuncts that the temporal theorems need together. *)
Inv ==
    /\ TypeOK
    /\ OpWellFormed
    /\ PromotionEvidence
    /\ RollbackEvidence
    /\ AuditLineage
    /\ HiddenGatesHeld
    /\ RollbackToFormerChampion

(* What the invariant says of one operation, under the audit table and the
   suite as they are. *)
GoodOp(p) ==
    /\ p \in Operations
    /\ p.pc # "idle" =>
         /\ p.kind \in {"promote", "rollback"}
         /\ p.by \in Subjects
         /\ p.target \in Artifacts
         /\ p.pc # "commit" => p.kind = "promote"
    /\ p.kind = "promote" =>
         /\ p.pc \in {"paired", "commit"} =>
              /\ p.own \in Receipts
              /\ p.own.artifact = p.target
              /\ p.own.score >= Threshold
         /\ p.pc = "paired" /\ p.row # None => p.own.suite = suite \/ p.swapped
         /\ p.pc = "commit" /\ p.row # None =>
              /\ p.paired \in Receipts
              /\ p.paired.artifact = p.row
              /\ p.own.score >= p.paired.score
              /\ p.own.suite = p.paired.suite \/ p.swapped
    /\ p.pc # "idle" /\ p.kind = "rollback" =>
         \E h \in 1..Len(audit) :
            audit[h].artifact = p.row /\ audit[h].previous = p.target

(* Every action but CommitChange leaves the registry and its audit alone. *)
Quiet == UNCHANGED <<champion, audit>>

(* Training, evaluation and staleness move no operation. *)
Background ==
    \/ \E s \in Subjects, a \in Artifacts : Train(s, a)
    \/ \E a \in Artifacts : Evaluate(a)
    \/ \E r \in receipts : GrowStale(r)

(* What a thread reads or gives up, without a write. *)
Reading(t) ==
    \/ \E s \in Subjects, a \in Artifacts : CheckDuties(t, s, a)
    \/ ReadRow(t)
    \/ ReadModel(t)
    \/ \E r \in receipts : ValidateOwn(t, r) \/ ValidatePaired(t, r)
    \/ NoPairNeeded(t)
    \/ CommitSame(t)
    \/ \E s \in Subjects : ReadRollback(t, s)
    \/ Abandon(t)

-----------------------------------------------------------------------------
(* The next-state relation, split by what it may write. *)
LEMMA NextSplit ==
    Next => \/ Background
            \/ \E u \in Suites : ChangeSuite(u)
            \/ \E t \in Threads : Reading(t)
            \/ \E t \in Threads : CommitChange(t)
BY DEF Next, Background, Reading

(* The initial state satisfies every conjunct. *)
LEMMA InitInv == Init => Inv
<1> SUFFICES ASSUME Init PROVE Inv
  OBVIOUS
<1> USE RegistryAssumption DEF Init
<1>1. TypeOK
  BY DEF TypeOK, Operations, NoOp, Entries
<1>2. OpWellFormed /\ PromotionEvidence /\ RollbackEvidence
  BY DEF OpWellFormed, PromotionEvidence, RollbackEvidence, NoOp
<1>3. AuditLineage /\ HiddenGatesHeld /\ RollbackToFormerChampion
  BY DEF AuditLineage, HiddenGatesHeld, RollbackToFormerChampion, ChampionAt
<1> QED
  BY <1>1, <1>2, <1>3 DEF Inv

(* Whatever leaves the registry and its audit alone keeps their invariants. *)
LEMMA QuietStep ==
    Inv /\ Quiet =>
        /\ AuditLineage'
        /\ HiddenGatesHeld'
        /\ RollbackToFormerChampion'
BY DEF Inv, Quiet, AuditLineage, HiddenGatesHeld, RollbackToFormerChampion,
       ChampionAt

(* Background activity keeps the invariant. *)
LEMMA BackgroundStep == Inv /\ Background => Inv'
<1> SUFFICES ASSUME Inv, Background PROVE Inv'
  OBVIOUS
<1> USE RegistryAssumption
<1>1. Quiet /\ op' = op /\ suite' = suite
  BY DEF Background, Train, Evaluate, GrowStale, Quiet
<1>2. /\ producers' \in [Artifacts -> SUBSET Subjects]
      /\ suite' \in Suites
      /\ receipts' \subseteq Receipts
  <2> USE DEF Inv, TypeOK
  <2>1. CASE \E s \in Subjects, a \in Artifacts : Train(s, a)
    BY <2>1 DEF Train
  <2>2. CASE \E a \in Artifacts : Evaluate(a)
    BY <2>2 DEF Evaluate, Receipts
  <2>3. CASE \E r \in receipts : GrowStale(r)
    BY <2>3 DEF GrowStale
  <2> QED
    BY <1>1, <2>1, <2>2, <2>3 DEF Background
<1>3. TypeOK'
  BY <1>1, <1>2 DEF Inv, TypeOK, Quiet
<1>4. OpWellFormed' /\ PromotionEvidence' /\ RollbackEvidence'
  BY <1>1 DEF Inv, OpWellFormed, PromotionEvidence, RollbackEvidence, Quiet
<1> QED
  BY <1>1, <1>3, <1>4, QuietStep DEF Inv

(* A new suite keeps the invariant: the operations between their validations
   are marked, and nothing else of them changes. *)
LEMMA SuiteStep ==
    ASSUME Inv, NEW u \in Suites, ChangeSuite(u)
    PROVE  Inv'
<1>1. Quiet /\ UNCHANGED <<producers, receipts>> /\ suite' = u
  BY DEF ChangeSuite, Quiet
<1>2. ASSUME NEW t \in Threads
      PROVE  /\ op'[t] \in Operations
             /\ op'[t].pc = op[t].pc /\ op'[t].kind = op[t].kind
             /\ op'[t].by = op[t].by /\ op'[t].target = op[t].target
             /\ op'[t].row = op[t].row /\ op'[t].own = op[t].own
             /\ op'[t].paired = op[t].paired
             /\ op[t].pc = "paired" /\ op[t].row # None
                  => op'[t].swapped = (u # op[t].own.suite)
             /\ op[t].pc # "paired" => op'[t].swapped = op[t].swapped
  <2>1. op[t] \in Operations BY DEF Inv, TypeOK
  <2>2. CASE op[t].pc = "paired" /\ op[t].row # None
    <3>1. PICK b \in BOOLEAN : b = (u # op[t].own.suite) OBVIOUS
    <3>2. op'[t] = [op[t] EXCEPT !.swapped = b]
      BY <2>2, <3>1 DEF ChangeSuite
    <3> QED BY <2>1, <2>2, <3>1, <3>2 DEF Operations
  <2>3. CASE ~(op[t].pc = "paired" /\ op[t].row # None)
    BY <2>1, <2>3 DEF ChangeSuite
  <2> QED BY <2>2, <2>3
<1>3. op' \in [Threads -> Operations]
  BY <1>2 DEF ChangeSuite
<1>4. TypeOK' BY <1>1, <1>3 DEF Inv, TypeOK, Quiet
<1>5. OpWellFormed' /\ RollbackEvidence'
  BY <1>1, <1>2 DEF Inv, OpWellFormed, RollbackEvidence, Quiet
<1>6. PromotionEvidence'
  <2> SUFFICES ASSUME NEW t \in Threads, op'[t].kind = "promote"
               PROVE  /\ op'[t].pc \in {"paired", "commit"} =>
                           /\ op'[t].own \in Receipts
                           /\ op'[t].own.artifact = op'[t].target
                           /\ op'[t].own.score >= Threshold
                      /\ op'[t].pc = "paired" /\ op'[t].row # None =>
                           op'[t].own.suite = u \/ op'[t].swapped
                      /\ op'[t].pc = "commit" /\ op'[t].row # None =>
                           /\ op'[t].paired \in Receipts
                           /\ op'[t].paired.artifact = op'[t].row
                           /\ op'[t].own.score >= op'[t].paired.score
                           /\ \/ op'[t].own.suite = op'[t].paired.suite
                              \/ op'[t].swapped
    BY <1>1 DEF PromotionEvidence
  <2>1. op[t].kind = "promote" BY <1>2
  <2>2. op'[t].pc = "paired" /\ op'[t].row # None =>
          op'[t].own.suite = u \/ op'[t].swapped
    BY <1>2
  <2> QED BY <1>2, <2>1, <2>2 DEF Inv, PromotionEvidence
<1> QED
  BY <1>1, <1>4, <1>5, <1>6, QuietStep DEF Inv

(* Reading and giving up keep the invariant.  An operation that reads one more
   thing carries what it has read. *)
LEMMA ReadingStep ==
    ASSUME Inv, NEW t \in Threads, Reading(t)
    PROVE  Inv'
<1> USE RegistryAssumption
<1>1. Quiet /\ UNCHANGED <<producers, suite, receipts>>
  BY DEF Reading, CheckDuties, ReadRow, ReadModel, ValidateOwn, ValidatePaired,
         NoPairNeeded, CommitSame, ReadRollback, Abandon, Quiet
<1>2. \A o \in Threads \ {t} : op'[o] = op[o]
  BY DEF Reading, CheckDuties, ReadRow, ReadModel, ValidateOwn, ValidatePaired,
         NoPairNeeded, CommitSame, ReadRollback, Abandon, Inv, TypeOK
<1>3. GoodOp(op'[t])
  <2>0. /\ GoodOp(op[t])
        /\ op \in [Threads -> Operations]
        /\ champion.id \in Artifacts \union {None}
        /\ champion.gen = Len(audit)
        /\ receipts \subseteq Receipts
        /\ audit \in Seq(Entries)
    BY DEF Inv, TypeOK, OpWellFormed, PromotionEvidence, RollbackEvidence,
           AuditLineage, GoodOp
  <2>1. ASSUME op'[t] = NoOp PROVE GoodOp(op'[t])
    BY <2>1 DEF GoodOp, NoOp, Operations
  <2>2. CASE \E s \in Subjects, a \in Artifacts : CheckDuties(t, s, a)
    <3> PICK s \in Subjects, a \in Artifacts : CheckDuties(t, s, a)
      BY <2>2
    <3>1. op'[t] = [NoOp EXCEPT !.pc = "row", !.kind = "promote",
                                !.by = s, !.target = a]
      BY <2>0 DEF CheckDuties
    <3> QED
      BY <3>1 DEF GoodOp, NoOp, Operations
  <2>3. CASE ReadRow(t)
    <3>1. /\ op[t].pc = "row"
          /\ op'[t] = [op[t] EXCEPT !.pc = "model", !.row = champion.id]
      BY <2>0, <2>3 DEF ReadRow
    <3> QED
      BY <2>0, <3>1 DEF GoodOp, Operations
  <2>4. CASE ReadModel(t)
    <3>1. /\ op[t].pc = "model"
          /\ op'[t] = [op[t] EXCEPT !.pc = "hidden"]
      BY <2>0, <2>4 DEF ReadModel
    <3> QED
      BY <2>0, <3>1 DEF GoodOp, Operations
  <2>5. CASE \E r \in receipts : ValidateOwn(t, r)
    <3> PICK r \in receipts : ValidateOwn(t, r)
      BY <2>5
    <3>1. /\ op[t].pc = "hidden"
          /\ r.artifact = op[t].target
          /\ r.score >= Threshold /\ r.suite = suite
          /\ op'[t] = [op[t] EXCEPT !.pc = "paired", !.own = r]
      BY <2>0 DEF ValidateOwn, Bound
    <3> QED
      BY <2>0, <3>1 DEF GoodOp, Operations
  <2>6. CASE \E r \in receipts : ValidatePaired(t, r)
    <3> PICK r \in receipts : ValidatePaired(t, r)
      BY <2>6
    <3>1. /\ op[t].pc = "paired"
          /\ r.artifact = op[t].row /\ r.suite = suite
          /\ op[t].own.score >= r.score
          /\ op'[t] = [op[t] EXCEPT !.pc = "commit", !.paired = r]
      BY <2>0 DEF ValidatePaired, Bound
    <3> QED
      BY <2>0, <3>1 DEF GoodOp, Operations
  <2>7. CASE NoPairNeeded(t)
    <3>1. /\ op[t].pc = "paired"
          /\ op[t].row = None
          /\ op'[t] = [op[t] EXCEPT !.pc = "commit"]
      BY <2>0, <2>7 DEF NoPairNeeded
    <3> QED
      BY <2>0, <3>1 DEF GoodOp, Operations
  <2>8. CASE \E s \in Subjects : ReadRollback(t, s)
    <3> PICK s \in Subjects : ReadRollback(t, s)
      BY <2>8
    <3> DEFINE g == champion.gen
    <3>1. /\ champion.id # None
          /\ audit[g].artifact = champion.id
          /\ audit[g].previous # None
          /\ op'[t] = [NoOp EXCEPT !.pc = "commit", !.kind = "rollback",
                                   !.by = s, !.target = audit[g].previous,
                                   !.row = champion.id]
      BY <2>0 DEF ReadRollback
    <3>2. g \in 1..Len(audit)
      <4>1. g # 0
        BY <3>1 DEF Inv, AuditLineage, ChampionAt
      <4>2. Len(audit) \in Nat
        BY <2>0
      <4> QED
        BY <2>0, <4>1, <4>2
    <3>3. audit[g].previous \in Artifacts
      <4>1. audit[g] \in Entries
        BY <2>0, <3>2
      <4> QED
        BY <3>1, <4>1 DEF Entries
    <3>4. /\ op'[t] \in Operations
          /\ op'[t].pc = "commit" /\ op'[t].kind = "rollback"
          /\ op'[t].by \in Subjects /\ op'[t].target \in Artifacts
          /\ op'[t].row = champion.id /\ op'[t].target = audit[g].previous
      BY <2>0, <3>1, <3>3 DEF NoOp, Operations
    <3>5. \E h \in 1..Len(audit) :
            /\ audit[h].artifact = op'[t].row
            /\ audit[h].previous = op'[t].target
      BY <3>1, <3>2, <3>4
    <3> QED
      BY <3>4, <3>5 DEF GoodOp
  <2>9. CASE CommitSame(t) \/ Abandon(t)
    BY <2>0, <2>1, <2>9 DEF CommitSame, Abandon
  <2> QED
    BY <2>2, <2>3, <2>4, <2>5, <2>6, <2>7, <2>8, <2>9 DEF Reading
<1>4. op' \in [Threads -> Operations]
  <2>1. /\ op' = [op EXCEPT ![t] = op'[t]]
        /\ op \in [Threads -> Operations]
    BY DEF Reading, CheckDuties, ReadRow, ReadModel, ValidateOwn,
           ValidatePaired, NoPairNeeded, CommitSame, ReadRollback, Abandon,
           Inv, TypeOK
  <2> QED
    BY <1>3, <2>1 DEF GoodOp
<1>5. TypeOK'
  BY <1>1, <1>4 DEF Inv, TypeOK, Quiet
<1>6. \A o \in Threads : GoodOp(op'[o])
  <2>1. \A o \in Threads : GoodOp(op[o])
    BY DEF Inv, TypeOK, OpWellFormed, PromotionEvidence, RollbackEvidence, GoodOp
  <2> QED
    BY <1>2, <1>3, <2>1
<1>7. OpWellFormed'
  BY <1>6 DEF OpWellFormed, GoodOp
<1>8. PromotionEvidence'
  BY <1>1, <1>6 DEF PromotionEvidence, GoodOp
<1>9. RollbackEvidence'
  BY <1>1, <1>6 DEF RollbackEvidence, GoodOp, Quiet
<1> QED
  BY <1>1, <1>5, <1>7, <1>8, <1>9, QuietStep DEF Inv

(* The compare-and-swap keeps the invariant: the champion that is replaced is
   the one the operation expected and validated against. *)
LEMMA CommitStep ==
    ASSUME Inv, NEW t \in Threads, CommitChange(t)
    PROVE  Inv'
<1> USE RegistryAssumption
<1>0. PICK n \in Nat : n = Len(audit)
  BY DEF Inv, TypeOK
<1>00. PICK e : e = Entry(t)
  OBVIOUS
<1>1. /\ op[t].pc = "commit"
      /\ champion.id = op[t].row
      /\ op[t].target # champion.id
      /\ champion' = [id |-> op[t].target, gen |-> champion.gen + 1]
      /\ audit' = Append(audit, e)
      /\ op' = [op EXCEPT ![t] = NoOp]
      /\ UNCHANGED <<producers, suite, receipts>>
  BY <1>00 DEF CommitChange, Expected
<1>2. /\ op \in [Threads -> Operations]
      /\ audit \in Seq(Entries)
      /\ champion.gen = n
      /\ champion.id \in Artifacts \union {None}
  BY <1>0 DEF Inv, TypeOK, AuditLineage
<1>3. /\ op[t].kind \in {"promote", "rollback"}
      /\ op[t].by \in Subjects
      /\ op[t].target \in Artifacts
  BY <1>1 DEF Inv, OpWellFormed
<1>4. /\ e.artifact = op[t].target
      /\ e.previous = champion.id
      /\ e.kind = op[t].kind
      /\ e.own = op[t].own
      /\ e.paired = op[t].paired
      /\ e.swapped = op[t].swapped
  BY <1>00 DEF Entry
<1>5. e \in Entries
  BY <1>00, <1>2, <1>3 DEF Entry, Entries, Operations
<1>6. /\ audit' \in Seq(Entries)
      /\ Len(audit') = n + 1
      /\ audit'[n + 1] = e
      /\ \A g \in 1..n : audit'[g] = audit[g]
  BY <1>0, <1>1, <1>2, <1>5
<1>7. TypeOK'
  <2>1. op' \in [Threads -> Operations]
    BY <1>1, <1>2 DEF NoOp, Operations
  <2>2. champion' \in [id : Artifacts \union {None}, gen : Nat]
    BY <1>0, <1>1, <1>2, <1>3
  <2> QED
    BY <1>1, <1>6, <2>1, <2>2 DEF Inv, TypeOK
<1>8. OpWellFormed' /\ PromotionEvidence'
  BY <1>1, <1>2 DEF Inv, OpWellFormed, PromotionEvidence, NoOp
<1>9. RollbackEvidence'
  <2> SUFFICES ASSUME NEW o \in Threads, op'[o].pc # "idle",
                      op'[o].kind = "rollback"
               PROVE  \E h \in 1..Len(audit') :
                        /\ audit'[h].artifact = op'[o].row
                        /\ audit'[h].previous = op'[o].target
    BY DEF RollbackEvidence
  <2>1. o # t /\ op'[o] = op[o]
    BY <1>1, <1>2 DEF NoOp
  <2>2. PICK h \in 1..n : /\ audit[h].artifact = op[o].row
                          /\ audit[h].previous = op[o].target
    BY <1>0, <2>1 DEF Inv, RollbackEvidence
  <2>3. h \in 1..Len(audit') /\ audit'[h] = audit[h]
    BY <1>2, <1>6, <2>2
  <2> QED
    BY <2>1, <2>2, <2>3
<1>10. AuditLineage'
  <2>1. \A g \in 0..n : ChampionAt(g)' = ChampionAt(g)
    BY <1>2, <1>6 DEF ChampionAt
  <2>2. ChampionAt(n + 1)' = op[t].target
    BY <1>2, <1>4, <1>6 DEF ChampionAt
  <2>3. champion'.gen = Len(audit') /\ champion'.id = ChampionAt(n + 1)'
    BY <1>1, <1>2, <1>6, <2>2
  <2>4. ASSUME NEW g \in 1..Len(audit')
        PROVE  /\ audit'[g].previous = ChampionAt(g - 1)'
               /\ audit'[g].artifact # audit'[g].previous
    <3>1. CASE g \in 1..n
      BY <1>0, <1>6, <2>1, <3>1 DEF Inv, AuditLineage
    <3>2. CASE g = n + 1
      <4>1. champion.id = ChampionAt(n)
        BY <1>2 DEF Inv, AuditLineage
      <4> QED
        BY <1>1, <1>2, <1>4, <1>6, <2>1, <3>2, <4>1
    <3> QED
      BY <1>2, <1>6, <3>1, <3>2
  <2> QED
    BY <1>6, <2>3, <2>4 DEF AuditLineage
<1>11. HiddenGatesHeld'
  <2> SUFFICES ASSUME NEW g \in 1..Len(audit'), audit'[g].kind = "promote"
               PROVE  /\ audit'[g].own \in Receipts
                      /\ audit'[g].own.artifact = audit'[g].artifact
                      /\ audit'[g].own.score >= Threshold
                      /\ audit'[g].previous # None =>
                           /\ audit'[g].paired \in Receipts
                           /\ audit'[g].paired.artifact = audit'[g].previous
                           /\ audit'[g].own.score >= audit'[g].paired.score
                           /\ \/ audit'[g].own.suite = audit'[g].paired.suite
                              \/ audit'[g].swapped
    BY DEF HiddenGatesHeld
  <2>1. CASE g \in 1..n
    BY <1>0, <1>6, <2>1 DEF Inv, HiddenGatesHeld
  <2>2. CASE g = n + 1
    BY <1>1, <1>4, <1>6, <2>2 DEF Inv, PromotionEvidence
  <2> QED
    BY <1>2, <1>6, <2>1, <2>2
<1>12. RollbackToFormerChampion'
  <2> SUFFICES ASSUME NEW g \in 1..Len(audit'), audit'[g].kind = "rollback"
               PROVE  \E h \in 1..(g - 1) :
                        /\ audit'[h].artifact = audit'[g].previous
                        /\ audit'[h].previous = audit'[g].artifact
    BY DEF RollbackToFormerChampion
  <2>1. CASE g \in 1..n
    <3>1. PICK h \in 1..(g - 1) : /\ audit[h].artifact = audit[g].previous
                                  /\ audit[h].previous = audit[g].artifact
      BY <1>0, <1>6, <2>1 DEF Inv, RollbackToFormerChampion
    <3>2. h \in 1..n
      BY <1>0, <2>1
    <3>3. audit'[h] = audit[h] /\ audit'[g] = audit[g]
      BY <1>6, <2>1, <3>2
    <3> QED
      BY <3>1, <3>3
  <2>2. CASE g = n + 1
    <3>1. PICK h \in 1..n : /\ audit[h].artifact = op[t].row
                            /\ audit[h].previous = op[t].target
      BY <1>0, <1>1, <1>4, <1>6, <2>2 DEF Inv, RollbackEvidence
    <3>2. h \in 1..(g - 1) /\ audit'[h] = audit[h]
      BY <1>2, <1>6, <2>2, <3>1
    <3> QED
      BY <1>1, <1>4, <1>6, <2>2, <3>1, <3>2
  <2>3. g \in 1..n \/ g = n + 1
    BY <1>0, <1>6
  <2> QED
    BY <2>1, <2>2, <2>3
<1> QED
  BY <1>7, <1>8, <1>9, <1>10, <1>11, <1>12 DEF Inv

(* The invariant is inductive. *)
LEMMA NextInv == Inv /\ [Next]_vars => Inv'
<1>1. ASSUME Inv, UNCHANGED vars PROVE Inv'
  <2>1. Quiet /\ op' = op /\ UNCHANGED <<producers, suite, receipts>>
    BY <1>1 DEF vars, Quiet
  <2>2. TypeOK' /\ OpWellFormed' /\ PromotionEvidence' /\ RollbackEvidence'
    BY <1>1, <2>1 DEF Inv, TypeOK, OpWellFormed, PromotionEvidence,
       RollbackEvidence, Quiet
  <2> QED
    BY <1>1, <2>1, <2>2, QuietStep DEF Inv
<1> QED
  BY <1>1, NextSplit, BackgroundStep, SuiteStep, ReadingStep, CommitStep

LEMMA RegistryInvariant == Spec => []Inv
BY InitInv, NextInv, PTL DEF Spec

(* The rows of the registry and the operations under way have their types. *)
THEOREM RegistryTypeCorrect == Spec => []TypeOK
<1>1. Inv => TypeOK
  BY DEF Inv
<1> QED
  BY <1>1, RegistryInvariant, PTL

(* The promotion audit is one gapless chain that ends in the champion,
   whatever promotions and rollbacks race (promote_policy). *)
THEOREM AuditLineageCorrect == Spec => []AuditLineage
<1>1. Inv => AuditLineage
  BY DEF Inv
<1> QED
  BY <1>1, RegistryInvariant, PTL

(* No promotion is a hidden regression against the champion it replaced, even
   though promote reads the receipts outside its transaction, and the two
   scores it compared are of one suite, unless the suite file was replaced
   between its two validations. *)
THEOREM HiddenGatesCorrect == Spec => []HiddenGatesHeld
<1>1. Inv => HiddenGatesHeld
  BY DEF Inv
<1> QED
  BY <1>1, RegistryInvariant, PTL

(* A rollback installs an artifact that the replaced champion had once
   succeeded (rollback). *)
THEOREM RollbackCorrect == Spec => []RollbackToFormerChampion
<1>1. Inv => RollbackToFormerChampion
  BY DEF Inv
<1> QED
  BY <1>1, RegistryInvariant, PTL
=============================================================================
