------------------------------- MODULE Benchmark -------------------------------
(***************************************************************************)
(* evaluate_hidden_benchmark (control.py) with its quota, the controller's *)
(* client (hidden_benchmark.py) and the isolated worker                    *)
(* (workers/benchmark_worker.py), for one tenant.                          *)
(*                                                                         *)
(* The suite file and the candidate's files live outside the service: the  *)
(* operator may replace either while an evaluation is under way, and so    *)
(* may the modules the candidate imports, which its fingerprint does not   *)
(* cover.  The ledger row of a quota is not kept: module Budget checks     *)
(* that it equals what the reservations add up to.                         *)
(***************************************************************************)
EXTENDS Integers, FiniteSetsExt

CONSTANTS
    Threads,      \* request threads
    Keys,         \* idempotency keys
    Challengers,  \* registered policy artifacts
    Suites,       \* contents of the private suite file
    Images,       \* contents of the files of the candidate's command
    Modules,      \* contents of the package modules the candidate imports
    Weight,       \* weight_micros of each case, the same in every suite
    Passes,       \* Passes[i][m][s]: the cases of suite s that image i
                  \* solves with modules m
    Limit,        \* hidden_benchmark_attempt_limit
    Window,       \* hidden_benchmark_quota_window_seconds
    Retention,    \* how long an idempotency key is kept
    OpTime,       \* the longest evaluation, bounded by the worker's timeout
    MaxTime,      \* bound on the clock
    MaxFaults,    \* bound on the faults in a behaviour
    None          \* no key, suite, image ...

Cases == DOMAIN Weight

ASSUME BenchmarkAssumption ==
    /\ Limit \in Nat \ {0} /\ Window \in Nat \ {0}
    /\ Retention \in Nat /\ OpTime \in Nat
    /\ OpTime <= Retention   \* worker_timeout_seconds is far below a day
    /\ IsFiniteSet(Cases) /\ Cases # {}
    /\ \A c \in Cases : Weight[c] \in Nat \ {0}
    /\ \A i \in Images, m \in Modules, s \in Suites :
         Passes[i][m][s] \subseteq Cases
    /\ {"swap", "upgrade", "leak", "crash"} \intersect Images = {}

VARIABLES
    now,      \* the clock
    up,       \* is the service alive
    suite,    \* the suite file
    image,    \* the files of the candidate's command
    modules,  \* the modules it imports
    rows,     \* idempotency_records of the scope "hidden-benchmark"
    res,      \* budget_reservations, by quota and reservation id
    op,       \* the evaluation of each thread
    results,  \* the evidence receipts recorded
    leaked,   \* history: the reservations whose release failed
    faults    \* what happened so far: "swap", "upgrade", "leak", "crash", and
              \* the images replaced

vars ==
    <<now, up, suite, image, modules, rows, res, op, results, leaked, faults>>

NoReceipt == [nonce |-> None, suite |-> None, image |-> None,
              passed |-> 0, failed |-> 0, weighted |-> 0, ppm |-> 0]

NoWorker == [suite |-> None, image |-> None, todo |-> {}, solved |-> {}]

(* Three fields are history: repeated, the reservation was settled before;
   swapped, the suite was replaced between charge and load; used, the modules
   that ran a case. *)
Idle ==
    [pc |-> "idle", key |-> None, challenger |-> None, claimed |-> 0,
     quota |-> None, suite |-> None, image |-> None,
     worker |-> NoWorker, receipt |-> NoReceipt,
     repeated |-> FALSE, swapped |-> FALSE, used |-> {}]

(* expires_at; None is a row that never expires. *)
NoRow == [status |-> "NONE", expires |-> None]

Init ==
    /\ now = 0
    /\ up = TRUE
    /\ suite \in Suites /\ image \in Images /\ modules \in Modules
    /\ rows = [k \in Keys |-> NoRow]
    /\ res = <<>>
    /\ op = [t \in Threads |-> Idle]
    /\ results = {}
    /\ leaked = {}
    /\ faults = {}

Goto(t, pc) == op' = [op EXCEPT ![t].pc = pc]

(* An exception leaves client and worker: what they read is gone. *)
Raise(t, pc) ==
    op' = [op EXCEPT ![t] =
              [Idle EXCEPT !.pc = pc, !.key = op[t].key,
                           !.challenger = op[t].challenger,
                           !.claimed = op[t].claimed, !.quota = op[t].quota,
                           !.repeated = op[t].repeated]]

At(t, pc) == up /\ op[t].pc = pc

(* Each kind of fault happens at most once. *)
Fault(kind) ==
    /\ kind \notin faults /\ Cardinality(faults) < MaxFaults
    /\ faults' = faults \union {kind}

-----------------------------------------------------------------------------
(* The request: the idempotency key, the quota and its reservation *)

(* claim_idempotency first deletes what has expired. *)
Pruned ==
    [k \in Keys |-> IF rows[k].expires # None /\ rows[k].expires < now
                    THEN NoRow ELSE rows[k]]

Claim(t, k, ch) ==
    /\ At(t, "idle")
    /\ Pruned[k] = NoRow
    /\ rows' = [Pruned EXCEPT ![k] = [status |-> "IN_PROGRESS",
                                      expires |-> now + Retention]]
    /\ op' = [op EXCEPT ![t] =
                [Idle EXCEPT !.pc = "claimed", !.key = k, !.challenger = ch,
                             !.claimed = now]]
    /\ UNCHANGED <<now, up, suite, image, modules, res, results,
                  leaked, faults>>

(* The key is known: the stored answer, or 409. *)
Repeat(t, k) ==
    /\ At(t, "idle")
    /\ Pruned[k] # NoRow
    /\ rows' = Pruned
    /\ UNCHANGED <<now, up, suite, image, modules, res, op, results,
                  leaked, faults>>

(* opaque_suite_digest: a hash of the suite file as it is now. *)
SuiteDigest == suite

(* candidate_fingerprint: a hash of the files of the candidate's command as
   they are now: interpreter, script and artifact, not what the script
   imports. *)
Fingerprint == image

Quota(t) == <<op[t].challenger, SuiteDigest, now \div Window>>

(* "attempt:{idempotency_key}" *)
Reservation(t) == op[t].key

Held(q, status) == {r \in DOMAIN res : r[1] = q /\ res[r] = status}

(* Mutant: an attempt counts once it is consumed. *)
AttemptsConsumed(q) == Cardinality(Held(q, "CONSUMED"))

Attempts(q) ==
    Cardinality(Held(q, "RESERVED")) + Cardinality(Held(q, "CONSUMED"))

(* The digest of the suite names the quota.  reserve_budget is content with
   a reservation of that name, whatever its status: a key that is used again
   within the window of its first use meets that of the first. *)
Charge(t) ==
    LET r == <<Quota(t), Reservation(t)>> IN
    /\ At(t, "claimed")
    /\ r \in DOMAIN res \/ Attempts(Quota(t)) < Limit
    /\ res' = IF r \in DOMAIN res THEN res
              ELSE [x \in DOMAIN res \union {r} |->
                        IF x = r THEN "RESERVED" ELSE res[x]]
    /\ op' = [op EXCEPT ![t].pc = "charged", ![t].quota = Quota(t),
                        ![t].repeated = res'[r] # "RESERVED"]
    /\ UNCHANGED <<now, up, suite, image, modules, rows, results,
                  leaked, faults>>

(* BudgetExceededError, or the artifact does not load: before the try block. *)
Refuse(t) ==
    /\ At(t, "claimed")
    /\ Raise(t, "failing")
    /\ UNCHANGED <<now, up, suite, image, modules, rows, res, results,
                  leaked, faults>>

-----------------------------------------------------------------------------
(* HiddenBenchmarkClient.run and the worker *)

(* The client reads the suite's digest again and the candidate's fingerprint,
   and starts the worker. *)
Launch(t) ==
    /\ At(t, "charged")
    /\ op' = [op EXCEPT ![t].pc = "launched", ![t].suite = SuiteDigest,
                        ![t].image = Fingerprint]
    /\ UNCHANGED <<now, up, suite, image, modules, rows, res, results,
                  leaked, faults>>

(* The worker loads the suite and takes the fingerprint. *)
Load(t) ==
    /\ At(t, "launched")
    /\ op' = [op EXCEPT ![t].pc = "cases",
                        ![t].worker = [suite |-> suite, image |-> Fingerprint,
                                       todo |-> Cases, solved |-> {}]]
    /\ UNCHANGED <<now, up, suite, image, modules, rows, res, results,
                  leaked, faults>>

(* policy_candidate: the files and modules of the moment on suite s *)
CandidateSolves(s) == Passes[image][modules][s]

(* A fresh candidate process for the next case.  A solution counts unless the
   process is killed, times out or says too much. *)
RunCase(t) ==
    LET w == op[t].worker
        c == Min(w.todo) IN
    /\ At(t, "cases") /\ w.todo # {}
    /\ \E solved \in SUBSET ({c} \intersect CandidateSolves(w.suite)) :
         op' = [op EXCEPT ![t].worker.todo = @ \ {c},
                          ![t].worker.solved = @ \union solved,
                          ![t].used = @ \union {modules}]
    /\ UNCHANGED <<now, up, suite, image, modules, rows, res, results,
                  leaked, faults>>

(* A case of weight n is n points. *)
Sum(cases) == Cardinality(UNION {{c} \X (1..Weight[c]) : c \in cases})

Ppm(weighted) == (weighted * 1000000) \div Sum(Cases)

(* The worker's aggregate receipt *)
Aggregate(t) ==
    LET w == op[t].worker IN
    [nonce |-> op[t].key, suite |-> w.suite, image |-> w.image,
     passed |-> Cardinality(w.solved),
     failed |-> Cardinality(Cases \ w.solved),
     weighted |-> Sum(w.solved), ppm |-> Ppm(Sum(w.solved))]

(* Mutant: the worker does not look at the candidate again. *)
SignUnchecked(t) ==
    /\ At(t, "cases") /\ op[t].worker.todo = {}
    /\ op' = [op EXCEPT ![t].pc = "answered", ![t].worker = NoWorker,
                        ![t].receipt = Aggregate(t)]
    /\ UNCHANGED <<now, up, suite, image, modules, rows, res, results,
                  leaked, faults>>

(* The aggregate, signed only if the candidate is still the same. *)
Sign(t) ==
    /\ At(t, "cases") /\ op[t].worker.todo = {}
    /\ Fingerprint = op[t].worker.image
    /\ op' = [op EXCEPT ![t].pc = "answered", ![t].worker = NoWorker,
                        ![t].receipt = Aggregate(t)]
    /\ UNCHANGED <<now, up, suite, image, modules, rows, res, results,
                  leaked, faults>>

(* A check of the client or the worker fails, the worker times out, is
   cancelled, or says too much: an exception in the try block. *)
RunFails(t) ==
    /\ up /\ op[t].pc \in {"charged", "launched", "cases"}
    /\ Raise(t, "releasing")
    /\ UNCHANGED <<now, up, suite, image, modules, rows, res, results,
                  leaked, faults>>

(* validate_aggregate_receipt *)
Valid(t) ==
    LET r == op[t].receipt IN
    /\ r.nonce = op[t].key
    /\ r.suite = op[t].suite
    /\ r.image = op[t].image
    /\ r.passed + r.failed = Cardinality(Cases)
    /\ r.weighted <= Sum(Cases)
    /\ r.ppm = Ppm(r.weighted)

Validate(t) ==
    /\ At(t, "answered")
    /\ IF Valid(t) THEN Goto(t, "commit") ELSE Raise(t, "releasing")
    /\ UNCHANGED <<now, up, suite, image, modules, rows, res, results,
                  leaked, faults>>

-----------------------------------------------------------------------------
(* The final transaction and the error path *)

(* consume_budget and _complete_atomic do not raise. *)
Committable(t) ==
    /\ res[<<op[t].quota, Reservation(t)>>] # "RELEASED"
    /\ rows[op[t].key].status = "IN_PROGRESS"

(* The attempt is consumed, and the receipt, the event and the answer are
   stored, all or nothing. *)
Commit(t) ==
    /\ At(t, "commit")
    /\ Committable(t)
    /\ res' = [res EXCEPT ![<<op[t].quota, Reservation(t)>>] = "CONSUMED"]
    /\ results' = results \union
         {[key |-> op[t].key, at |-> now, quota |-> op[t].quota,
           suite |-> op[t].receipt.suite, image |-> op[t].receipt.image,
           ppm |-> op[t].receipt.ppm, repeated |-> op[t].repeated,
           swapped |-> op[t].swapped, used |-> op[t].used]}
    /\ rows' = [rows EXCEPT ![op[t].key].status = "COMPLETED"]
    /\ op' = [op EXCEPT ![t] = Idle]
    /\ UNCHANGED <<now, up, suite, image, modules, leaked, faults>>

(* The transaction raises, or the store fails. *)
CommitFails(t) ==
    /\ At(t, "commit")
    /\ Raise(t, "releasing")
    /\ UNCHANGED <<now, up, suite, image, modules, rows, res, results,
                  leaked, faults>>

(* Mutant: a failed attempt keeps its reservation. *)
ReleaseNothing(t) ==
    /\ At(t, "releasing")
    /\ Raise(t, "failing")
    /\ UNCHANGED <<now, up, suite, image, modules, rows, res, results,
                  leaked, faults>>

(* release_budget; that of a consumed reservation is a conflict, swallowed. *)
Release(t) ==
    /\ At(t, "releasing")
    /\ res' = [res EXCEPT ![<<op[t].quota, Reservation(t)>>] =
                                IF @ = "RESERVED" THEN "RELEASED" ELSE @]
    /\ Raise(t, "failing")
    /\ UNCHANGED <<now, up, suite, image, modules, rows, results,
                  leaked, faults>>

(* release_budget fails otherwise: nobody gives the attempt back. *)
ReleaseFails(t) ==
    /\ At(t, "releasing")
    /\ Fault("leak")
    /\ leaked' = leaked \union {<<op[t].quota, Reservation(t)>>}
    /\ Raise(t, "failing")
    /\ UNCHANGED <<now, up, suite, image, modules, rows, res, results>>

(* fail_idempotency *)
Fail(t) ==
    /\ At(t, "failing")
    /\ rows' = [rows EXCEPT ![op[t].key].status =
                                IF @ = "IN_PROGRESS" THEN "FAILED" ELSE @]
    /\ op' = [op EXCEPT ![t] = Idle]
    /\ UNCHANGED <<now, up, suite, image, modules, res, results,
                  leaked, faults>>

-----------------------------------------------------------------------------
(* The environment *)

(* No evaluation outlives OpTime. *)
Tick ==
    /\ now < MaxTime
    /\ \A t \in Threads : op[t] # Idle => now - op[t].claimed < OpTime
    /\ now' = now + 1
    /\ UNCHANGED <<up, suite, image, modules, rows, res, op, results,
                  leaked, faults>>

(* The operator replaces the suite; evaluations that are charged and have not
   loaded it are marked. *)
SwapSuite(s) ==
    /\ s # suite /\ Fault("swap")
    /\ suite' = s
    /\ op' = [t \in Threads |-> IF op[t].pc \in {"charged", "launched"}
                                THEN [op[t] EXCEPT !.swapped = TRUE]
                                ELSE op[t]]
    /\ UNCHANGED <<now, up, image, modules, rows, res, results, leaked>>

(* A release replaces the candidate's files; those it replaces are recorded as
   retired and do not come back. *)
Deploy(i) ==
    /\ i # image /\ i \notin faults /\ Fault(image)
    /\ image' = i
    /\ UNCHANGED <<now, up, suite, modules, rows, res, op, results, leaked>>

(* A release replaces the modules and leaves the script as it was. *)
Upgrade(m) ==
    /\ m # modules /\ Fault("upgrade")
    /\ modules' = m
    /\ UNCHANGED <<now, up, suite, image, rows, res, op, results, leaked>>

Crash ==
    /\ up /\ Fault("crash")
    /\ up' = FALSE
    /\ op' = [t \in Threads |-> Idle]
    /\ UNCHANGED <<now, suite, image, modules, rows, res, results, leaked>>

(* reconcile_startup: what was in progress has failed for good, what was
   reserved is released. *)
Restart ==
    /\ ~up
    /\ up' = TRUE
    /\ rows' = [k \in Keys |->
                    IF rows[k].status = "IN_PROGRESS"
                    THEN [status |-> "FAILED", expires |-> None] ELSE rows[k]]
    /\ res' = [r \in DOMAIN res |->
                    IF res[r] = "RESERVED" THEN "RELEASED" ELSE res[r]]
    /\ leaked' = {}
    /\ UNCHANGED <<now, suite, image, modules, op, results, faults>>

Evaluate(t) ==
    \/ \E k \in Keys, ch \in Challengers : Claim(t, k, ch)
    \/ \E k \in Keys : Repeat(t, k)
    \/ Charge(t) \/ Refuse(t)
    \/ Launch(t) \/ Load(t) \/ RunCase(t) \/ Sign(t) \/ RunFails(t)
    \/ Validate(t) \/ Commit(t) \/ CommitFails(t)
    \/ Release(t) \/ ReleaseFails(t) \/ Fail(t)

Next ==
    \/ \E t \in Threads : Evaluate(t)
    \/ \E s \in Suites : SwapSuite(s)
    \/ \E i \in Images : Deploy(i)
    \/ \E m \in Modules : Upgrade(m)
    \/ Tick \/ Crash \/ Restart

Spec == Init /\ [][Next]_vars

-----------------------------------------------------------------------------
(* Properties *)

(* A key is free again Retention + 1 after it was claimed, and an evaluation
   reads the clock for its window at most OpTime after the claim: with windows
   this narrow, no two evaluations under one key fall into the same window.
   hidden_benchmark_quota_window_seconds may be a whole day and is then not. *)
Narrow == Window + OpTime <= Retention + 1

(* What gets past the quota: the suite was replaced between the charge and the
   worker's look at it, or, in a wide window, the key was used before, its
   attempt is consumed and consume_budget finds nothing to do. *)
Uncharged(x) == x.swapped \/ (x.repeated /\ ~Narrow)

(* The quota holds across retries, crashes and leaked reservations: but for the
   uncharged, no more results are recorded for an artifact, the suite on the
   receipt and a time window than hidden_benchmark_attempt_limit allows. *)
QuotaRespected ==
    \A r \in results :
        Cardinality({x \in results : /\ ~Uncharged(x)
                                     /\ x.suite = r.suite
                                     /\ x.quota[1] = r.quota[1]
                                     /\ x.quota[3] = r.quota[3]}) <= Limit

(* The cases image i solves on suite s with one or the other of the modules,
   and the score they are worth *)
Solvable(i, used, s) == UNION {Passes[i][m][s] : m \in used}

Reach(i, used, s) == Ppm(Sum(Solvable(i, used, s)))

(* A recorded score is one the candidate earned: whatever was replaced while
   the worker ran, the score is no more than what the fingerprinted files reach
   on the suite the receipt names with the modules that were imported for its
   cases.  The fingerprint does not see these: more than one may have been. *)
ScoreEarned ==
    \A r \in results : r.ppm <= Reach(r.image, r.used, r.suite)

(* An attempt is used up exactly when a result was recorded for it: a failed,
   refused or interrupted evaluation gives its attempt back, and while the
   service is up a reservation is only held by an evaluation under way, or lost
   by a release that failed in the store, until the next start. *)
AttemptsAccounted ==
    /\ \A r \in DOMAIN res :
         res[r] = "CONSUMED" <=>
            \E x \in results : x.quota = r[1] /\ x.key = r[2]
    /\ up => \A r \in DOMAIN res \ leaked : res[r] = "RESERVED" =>
                \E t \in Threads : op[t].quota = r[1] /\ op[t].key = r[2]

-----------------------------------------------------------------------------
(* Strengthenings: what the code maintains so that the properties hold *)

Quotas == Challengers \X Suites \X Nat

(* The states in which an evaluation holds a reservation. *)
Holding == {"charged", "launched", "cases", "answered", "commit", "releasing"}

Workers ==
    [suite : Suites \union {None}, image : Images \union {None},
     todo : SUBSET Cases, solved : SUBSET Cases]

Receipts ==
    [nonce : Keys \union {None}, suite : Suites \union {None},
     image : Images \union {None},
     passed : Nat, failed : Nat, weighted : Nat, ppm : Nat]

Evaluations ==
    [pc : Holding \union {"claimed", "failing"}, key : Keys,
     challenger : Challengers, claimed : Nat, quota : Quotas \union {None},
     suite : Suites \union {None}, image : Images \union {None},
     worker : Workers, receipt : Receipts,
     repeated : BOOLEAN, swapped : BOOLEAN, used : SUBSET Modules]

Results ==
    [key : Keys, at : Nat, quota : Quotas, suite : Suites, image : Images,
     ppm : Nat, repeated : BOOLEAN, swapped : BOOLEAN, used : SUBSET Modules]

(* The shape of the tables and of the evaluations. *)
TypeOK ==
    /\ now \in Nat /\ up \in BOOLEAN
    /\ suite \in Suites /\ image \in Images /\ modules \in Modules
    /\ rows \in [Keys -> {NoRow} \union
                   [status : {"IN_PROGRESS", "COMPLETED", "FAILED"},
                    expires : Nat \union {None}]]
    /\ IsFiniteSet(DOMAIN res) /\ DOMAIN res \subseteq Quotas \X Keys
    /\ \A r \in DOMAIN res : res[r] \in {"RESERVED", "CONSUMED", "RELEASED"}
    /\ op \in [Threads -> {Idle} \union Evaluations]
    /\ results \subseteq Results

Running(t) == op[t].pc # "idle"

(* A key belongs to one evaluation, which ends before the key is free. *)
KeysOwned ==
    \A t \in Threads : Running(t) =>
        /\ up
        /\ op[t].claimed <= now /\ now <= op[t].claimed + OpTime
        /\ rows[op[t].key] = [status |-> "IN_PROGRESS",
                              expires |-> op[t].claimed + Retention]
        /\ \A u \in Threads : Running(u) /\ op[u].key = op[t].key => u = t

(* The first moment after the window of a quota *)
WindowEnd(q) == (q[3] + 1) * Window

(* A key that was charged to a narrow window is not free before its end, so
   that an evaluation never meets a reservation of an earlier one. *)
WindowsApart == Narrow =>
    /\ \A r \in DOMAIN res :
         \/ WindowEnd(r[1]) <= now
         \/ /\ rows[r[2]].status # "NONE"
            /\ \/ rows[r[2]].expires = None
               \/ WindowEnd(r[1]) <= rows[r[2]].expires + 1
    /\ \A t \in Threads : op[t].pc = "claimed" =>
         \A r \in DOMAIN res : r[2] = op[t].key => WindowEnd(r[1]) <= now
    /\ \A t \in Threads : ~op[t].repeated
    /\ \A x \in results : ~x.repeated

(* An evaluation that was charged holds its reservation unless that was settled
   before, and no other reservation is held while the service is up but those
   leaked. *)
Reserved ==
    /\ \A t \in Threads : op[t].pc \in Holding =>
         /\ op[t].quota \in Quotas
         /\ <<op[t].quota, op[t].key>> \in DOMAIN res
         /\ op[t].repeated <=> res[<<op[t].quota, op[t].key>>] # "RESERVED"
    /\ up => \A r \in DOMAIN res \ leaked : res[r] = "RESERVED" =>
         \E t \in Threads : /\ op[t].pc \in Holding
                            /\ op[t].quota = r[1] /\ op[t].key = r[2]

(* Unless it was marked, an evaluation runs the suite it was charged for. *)
SuiteCharged ==
    /\ \A t \in Threads : ~op[t].swapped =>
         /\ op[t].pc \in {"charged", "launched"} => suite = op[t].quota[2]
         /\ op[t].pc = "cases" => op[t].worker.suite = op[t].quota[2]
         /\ op[t].pc \in {"answered", "commit"} =>
              op[t].receipt.suite = op[t].quota[2]
    /\ \A x \in results : x.swapped \/ x.suite = x.quota[2]

(* The attempts that count against a quota *)
Active(q) == {r \in DOMAIN res : r[1] = q /\ res[r] # "RELEASED"}

WithinLimit == \A r \in DOMAIN res : Cardinality(Active(r[1])) <= Limit

(* A result has a consumed reservation, its own unless that was repeated. *)
ResultsPaid ==
    /\ \A x \in results :
         /\ <<x.quota, x.key>> \in DOMAIN res
         /\ res[<<x.quota, x.key>>] = "CONSUMED"
    /\ \A r \in DOMAIN res : res[r] = "CONSUMED" =>
         \E x \in results : x.quota = r[1] /\ x.key = r[2]
    /\ \A x, y \in results :
         /\ x.quota = y.quota /\ x.key = y.key
         /\ ~x.repeated /\ ~y.repeated
         => x = y

(* As long as the candidate is the one the worker fingerprinted, what it has
   solved is its own; an aggregate is signed only in that case. *)
HonestScores ==
    /\ image \notin faults
    /\ \A t \in Threads : op[t].pc = "cases" =>
         LET w == op[t].worker IN
         /\ w.suite \in Suites /\ w.image \in Images
         /\ w.image = image =>
              w.solved \subseteq Solvable(image, op[t].used, w.suite)
         /\ w.image # image => w.image \in faults
    /\ \A t \in Threads : op[t].pc \in {"answered", "commit"} =>
         LET r == op[t].receipt IN
         /\ r.suite \in Suites /\ r.image \in Images
         /\ r.ppm <= Reach(r.image, op[t].used, r.suite)
    /\ ScoreEarned

(* The inductive invariant of the hidden benchmark. *)
BenchmarkInv ==
    /\ TypeOK /\ KeysOwned /\ WindowsApart /\ Reserved /\ WithinLimit
    /\ ResultsPaid /\ SuiteCharged /\ HonestScores
=============================================================================
