---------------------------- MODULE PolicyRegistry ----------------------------
(***************************************************************************)
(* The champion registry of one policy family: ControlPlane.promote and    *)
(* rollback (control.py), promote_policy (store.py), the offline gate      *)
(* (learner.py), training runs and hidden-benchmark receipts as far as     *)
(* promotion reads them.                                                   *)
(*                                                                         *)
(* promote reads the producers, the champion row, the champion model and   *)
(* the receipts in separate statements, outside any transaction, and then  *)
(* commits in one transaction whose only check is that the champion's      *)
(* artifact id is the one it read.  Each of those reads is a step here.    *)
(***************************************************************************)
EXTENDS Integers, Sequences, FiniteSets

CONSTANTS
    Artifacts,     \* content-addressed policies that training can produce
    Subjects,      \* principals
    Threads,       \* request threads
    Suites,        \* contents the hidden benchmark file may have
    Summary,       \* offline evaluation of every artifact and of no champion
    Score,         \* hidden score (ppm) of every artifact on every suite
    MinDelta,      \* minimum_mean_reward_delta
    Threshold,     \* minimum_hidden_benchmark_score_ppm
    RequireSoD,    \* require_separation_of_duties
    MaxGen,        \* bound on the champion's generation
    MaxFresh,      \* bound on the receipts that are fresh at one time
    None           \* no champion, no predecessor, no receipt

ASSUME RegistryAssumption ==
    /\ None \notin Artifacts
    /\ MinDelta \in Nat \ {0} /\ Threshold \in Nat /\ MaxGen \in Nat
    /\ MaxFresh \in Nat
    /\ RequireSoD \in BOOLEAN
    /\ Summary \in [Artifacts \union {None} ->
                      [reward : Int, hard : Nat, abstained : Nat, evals : Nat]]
    /\ Score \in [Artifacts -> [Suites -> Nat]]

VARIABLES
    producers,   \* trained_by of the training_runs of each artifact; an
                 \*   artifact is registered once it has one
    suite,       \* what the hidden benchmark file holds now
    receipts,    \* hidden-benchmark receipts that are still fresh
    champion,    \* the champion_registry row: [id, gen]
    audit,       \* the promotion_audit table, by generation
    op           \* the promotion or rollback each thread executes

vars == <<producers, suite, receipts, champion, audit, op>>

Receipts == [artifact : Artifacts, suite : Suites, score : Nat]

NoOp == [pc |-> "idle", kind |-> "none", by |-> None, target |-> None,
         row |-> None, own |-> None, paired |-> None, swapped |-> FALSE]

Registered == {a \in Artifacts : producers[a] # {}}

Init ==
    /\ producers = [a \in Artifacts |-> {}]
    /\ suite \in Suites
    /\ receipts = {}
    /\ champion = [id |-> None, gen |-> 0]
    /\ audit = <<>>
    /\ op = [t \in Threads |-> NoOp]

-----------------------------------------------------------------------------
(* Gates *)

(* promotion_report: reward gain, no new hard failures, no more abstentions,
   at most 1.25 times the benchmark evaluations (and always at least one). *)
Accepted(old, new) ==
    LET o == Summary[old]
        n == Summary[new] IN
    /\ n.reward - o.reward >= MinDelta
    /\ n.hard <= o.hard
    /\ n.abstained <= o.abstained
    /\ 4 * n.evals <= 4 \/ 4 * n.evals <= 5 * o.evals

(* Mutant: a receipt of an obsolete suite is good enough. *)
BoundAnySuite(r, a) == r.artifact = a

(* _validate_promotion_benchmark: a fresh receipt bound to the artifact and to
   the suite that is in place now.  It also compares the fingerprint of the
   candidate, which can only refuse more; a redeployed candidate is the subject
   of Benchmark. *)
Bound(r, a) == r.artifact = a /\ r.suite = suite

(* The separation of duties check, on the producers known now. *)
DutiesSeparated(s, a) ==
    RequireSoD => producers[a] # {} /\ s \notin producers[a]

-----------------------------------------------------------------------------
(* Training runs, receipts and the suite *)

(* The final transaction of train_challenger: the artifact is registered if it
   is new (training is deterministic, so it may well exist), and the run and
   its producer are recorded. *)
Train(s, a) ==
    /\ producers' = [producers EXCEPT ![a] = @ \union {s}]
    /\ UNCHANGED <<suite, receipts, champion, audit, op>>

(* evaluate_hidden_benchmark commits a receipt for a registered artifact. *)
Evaluate(a) ==
    /\ a \in Registered
    /\ Cardinality(receipts) < MaxFresh
    /\ receipts' = receipts \union
         {[artifact |-> a, suite |-> suite, score |-> Score[a][suite]]}
    /\ UNCHANGED <<producers, suite, champion, audit, op>>

(* A receipt grows older than benchmark_receipt_max_age_seconds, or the
   aggregate inside it expires. *)
GrowStale(r) ==
    /\ receipts' = receipts \ {r}
    /\ UNCHANGED <<producers, suite, champion, audit, op>>

(* The operator installs another suite.  A promotion between its two
   validations is marked while the suite in place is not the one its own
   receipt is of (ghost). *)
ChangeSuite(u) ==
    /\ u # suite
    /\ suite' = u
    /\ op' = [t \in Threads |->
                IF op[t].pc = "paired" /\ op[t].row # None
                THEN [op[t] EXCEPT !.swapped = u # op[t].own.suite]
                ELSE op[t]]
    /\ UNCHANGED <<producers, receipts, champion, audit>>

-----------------------------------------------------------------------------
(* promote, one action per read and one for the transaction *)

(* The artifact row is read and the producers are checked. *)
CheckDuties(t, s, a) ==
    /\ op[t].pc = "idle"
    /\ a \in Registered
    /\ DutiesSeparated(s, a)
    /\ op' = [op EXCEPT ![t] = [NoOp EXCEPT !.pc = "row", !.kind = "promote",
                                            !.by = s, !.target = a]]
    /\ UNCHANGED <<producers, suite, receipts, champion, audit>>

(* champion_row = get_champion(...) *)
ReadRow(t) ==
    /\ op[t].pc = "row"
    /\ op' = [op EXCEPT ![t].pc = "model", ![t].row = champion.id]
    /\ UNCHANGED <<producers, suite, receipts, champion, audit>>

(* champion = _champion_model(...) reads the registry again; the offline gate
   compares the challenger with that model. *)
ReadModel(t) ==
    /\ op[t].pc = "model"
    /\ Accepted(champion.id, op[t].target)
    /\ op' = [op EXCEPT ![t].pc = "hidden"]
    /\ UNCHANGED <<producers, suite, receipts, champion, audit>>

(* The challenger's receipt is validated against the absolute threshold. *)
ValidateOwn(t, r) ==
    /\ op[t].pc = "hidden"
    /\ Bound(r, op[t].target)
    /\ r.score >= Threshold
    /\ op' = [op EXCEPT ![t].pc = "paired", ![t].own = r]
    /\ UNCHANGED <<producers, suite, receipts, champion, audit>>

(* With a champion, its receipt is validated too and must not be better. *)
ValidatePaired(t, r) ==
    /\ op[t].pc = "paired"
    /\ op[t].row # None
    /\ Bound(r, op[t].row)
    /\ op[t].own.score >= r.score
    /\ op' = [op EXCEPT ![t].pc = "commit", ![t].paired = r]
    /\ UNCHANGED <<producers, suite, receipts, champion, audit>>

NoPairNeeded(t) ==
    /\ op[t].pc = "paired"
    /\ op[t].row = None
    /\ op' = [op EXCEPT ![t].pc = "commit"]
    /\ UNCHANGED <<producers, suite, receipts, champion, audit>>

(* The audit row promote_policy inserts; the evidence of the decision is kept
   beside it. *)
Entry(t) ==
    [artifact |-> op[t].target, previous |-> champion.id, kind |-> op[t].kind,
     by |-> op[t].by, own |-> op[t].own, paired |-> op[t].paired,
     swapped |-> op[t].swapped]

(* Mutant: no compare-and-swap. *)
ExpectedAny(t) == TRUE

(* promote_policy's test: the champion is the expected artifact. *)
Expected(t) == champion.id = op[t].row

(* Mutant: a rollback gives back the generation it undoes. *)
CommitRewound(t) ==
    /\ op[t].pc = "commit"
    /\ Expected(t)
    /\ op[t].target # champion.id
    /\ champion.gen < MaxGen
    /\ champion' = [id |-> op[t].target,
                    gen |-> IF op[t].kind = "rollback" THEN champion.gen - 1
                            ELSE champion.gen + 1]
    /\ audit' = Append(audit, Entry(t))
    /\ op' = [op EXCEPT ![t] = NoOp]
    /\ UNCHANGED <<producers, suite, receipts>>

(* The transaction of promote or rollback: promote_policy and the event. *)
CommitChange(t) ==
    /\ op[t].pc = "commit"
    /\ Expected(t)
    /\ op[t].target # champion.id
    /\ champion.gen < MaxGen
    /\ champion' = [id |-> op[t].target, gen |-> champion.gen + 1]
    /\ audit' = Append(audit, Entry(t))
    /\ op' = [op EXCEPT ![t] = NoOp]
    /\ UNCHANGED <<producers, suite, receipts>>

(* The target is the champion already: the existing audit row is the answer. *)
CommitSame(t) ==
    /\ op[t].pc = "commit"
    /\ Expected(t)
    /\ op[t].target = champion.id
    /\ op' = [op EXCEPT ![t] = NoOp]
    /\ UNCHANGED <<producers, suite, receipts, champion, audit>>

(* Mutant: the first champion may be rolled back too. *)
ReadRollbackFirst(t, s) ==
    /\ op[t].pc = "idle"
    /\ champion.id # None
    /\ op' = [op EXCEPT ![t] =
                [NoOp EXCEPT !.pc = "commit", !.kind = "rollback", !.by = s,
                             !.target = audit[champion.gen].previous,
                             !.row = champion.id]]
    /\ UNCHANGED <<producers, suite, receipts, champion, audit>>

(* rollback reads the champion and the audit row of its generation.  That row
   is append-only, so reading it a moment later gives the same answer. *)
ReadRollback(t, s) ==
    /\ op[t].pc = "idle"
    /\ champion.id # None
    /\ audit[champion.gen].artifact = champion.id
    /\ audit[champion.gen].previous # None
    /\ op' = [op EXCEPT ![t] =
                [NoOp EXCEPT !.pc = "commit", !.kind = "rollback", !.by = s,
                             !.target = audit[champion.gen].previous,
                             !.row = champion.id]]
    /\ UNCHANGED <<producers, suite, receipts, champion, audit>>

(* A gate refuses, the compare-and-swap fails, anything else raises, or the
   process dies: nothing was written and the operation is over. *)
Abandon(t) ==
    /\ op[t].pc # "idle"
    /\ op' = [op EXCEPT ![t] = NoOp]
    /\ UNCHANGED <<producers, suite, receipts, champion, audit>>

Next ==
    \/ \E s \in Subjects, a \in Artifacts : Train(s, a)
    \/ \E a \in Artifacts : Evaluate(a)
    \/ \E r \in receipts : GrowStale(r)
    \/ \E u \in Suites : ChangeSuite(u)
    \/ \E t \in Threads :
         \/ \E s \in Subjects, a \in Artifacts : CheckDuties(t, s, a)
         \/ ReadRow(t)
         \/ ReadModel(t)
         \/ \E r \in receipts : ValidateOwn(t, r) \/ ValidatePaired(t, r)
         \/ NoPairNeeded(t)
         \/ CommitChange(t)
         \/ CommitSame(t)
         \/ \E s \in Subjects : ReadRollback(t, s)
         \/ Abandon(t)

Spec == Init /\ [][Next]_vars

-----------------------------------------------------------------------------
(* Properties *)

Operations ==
    [pc : {"idle", "row", "model", "hidden", "paired", "commit"},
     kind : {"none", "promote", "rollback"}, by : Subjects \union {None},
     target : Artifacts \union {None}, row : Artifacts \union {None},
     own : Receipts \union {None}, paired : Receipts \union {None},
     swapped : BOOLEAN]

Entries ==
    [artifact : Artifacts, previous : Artifacts \union {None},
     kind : {"promote", "rollback"}, by : Subjects,
     own : Receipts \union {None}, paired : Receipts \union {None},
     swapped : BOOLEAN]

(* The shape of the tables and of the operations under way. *)
TypeOK ==
    /\ producers \in [Artifacts -> SUBSET Subjects]
    /\ suite \in Suites
    /\ receipts \subseteq Receipts
    /\ champion \in [id : Artifacts \union {None}, gen : Nat]
    /\ audit \in Seq(Entries)
    /\ op \in [Threads -> Operations]

(* The artifact that was champion at generation g. *)
ChampionAt(g) == IF g = 0 THEN None ELSE audit[g].artifact

(* One audited chain: there is an audit row for every generation, each names
   its predecessor and replaces it, and the registry points to the last. *)
AuditLineage ==
    /\ champion.gen = Len(audit)
    /\ champion.id = ChampionAt(champion.gen)
    /\ \A g \in 1..Len(audit) :
         /\ audit[g].previous = ChampionAt(g - 1)
         /\ audit[g].artifact # audit[g].previous

(* No hidden regression: whatever happened between its reads and its commit, a
   promotion was validated with a receipt of its own artifact that meets the
   threshold, and with a receipt of the very champion it replaced, which was
   not better.  Both are of one suite ("on the same current suite", API.md),
   unless the suite file was replaced between the two validations: promote
   compares the scores and never the two suite digests. *)
HiddenGatesHeld ==
    \A g \in 1..Len(audit) : audit[g].kind = "promote" =>
        /\ audit[g].own \in Receipts
        /\ audit[g].own.artifact = audit[g].artifact
        /\ audit[g].own.score >= Threshold
        /\ audit[g].previous # None =>
             /\ audit[g].paired \in Receipts
             /\ audit[g].paired.artifact = audit[g].previous
             /\ audit[g].own.score >= audit[g].paired.score
             /\ audit[g].own.suite = audit[g].paired.suite \/ audit[g].swapped

(* A rollback goes to an artifact that the replaced one had succeeded as
   champion: never to one that was not champion before it. *)
RollbackToFormerChampion ==
    \A g \in 1..Len(audit) : audit[g].kind = "rollback" =>
        \E h \in 1..(g - 1) :
            /\ audit[h].artifact = audit[g].previous
            /\ audit[h].previous = audit[g].artifact

(* docs/RUNBOOK.md: "Rollback is an authorized compare-and-swap to the
   recorded prior champion": the one recorded for the replaced generation. *)
RollbackRestoresPrior ==
    \A g \in 1..Len(audit) : audit[g].kind = "rollback" =>
        g > 1 /\ audit[g].artifact = audit[g - 1].previous

(* docs/API.md: "Challenger producer and promoter must remain different
   subjects when separation of duties is enabled": at the moment a promotion
   takes effect its promoter is not a producer of the artifact. *)
SeparationOfDuties ==
    [][\A g \in (Len(audit) + 1)..Len(audit') :
          RequireSoD /\ audit'[g].kind = "promote"
              => audit'[g].by \notin producers[audit'[g].artifact]]_vars


-----------------------------------------------------------------------------
(* Strengthenings: what the operations under way know *)

(* An operation under way has a kind, a subject and an artifact to install,
   and the reads of a promotion are made by promotions only. *)
OpWellFormed ==
    \A t \in Threads : op[t].pc # "idle" =>
        /\ op[t].kind \in {"promote", "rollback"}
        /\ op[t].by \in Subjects
        /\ op[t].target \in Artifacts
        /\ op[t].pc # "commit" => op[t].kind = "promote"

(* A promotion past its first validation holds a receipt of its own artifact
   that meets the threshold; one that is ready to commit holds a receipt, no
   better, of the champion it expects. *)
PromotionEvidence ==
    \A t \in Threads : op[t].kind = "promote" =>
        /\ op[t].pc \in {"paired", "commit"} =>
             /\ op[t].own \in Receipts
             /\ op[t].own.artifact = op[t].target
             /\ op[t].own.score >= Threshold
        /\ op[t].pc = "paired" /\ op[t].row # None =>
             op[t].own.suite = suite \/ op[t].swapped
        /\ op[t].pc = "commit" /\ op[t].row # None =>
             /\ op[t].paired \in Receipts
             /\ op[t].paired.artifact = op[t].row
             /\ op[t].own.score >= op[t].paired.score
             /\ op[t].own.suite = op[t].paired.suite \/ op[t].swapped

(* A rollback under way goes back over a change that is on record. *)
RollbackEvidence ==
    \A t \in Threads : op[t].pc # "idle" /\ op[t].kind = "rollback" =>
        \E h \in 1..Len(audit) :
            /\ audit[h].artifact = op[t].row
            /\ audit[h].previous = op[t].target
=============================================================================
