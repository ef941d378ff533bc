# A TLA+ model of agent-tree-rl's control plane

agent-tree-rl is a single-process HTTP service that runs policy-guided decision
searches, trains challenger policies, evaluates them on a hidden benchmark and
promotes them to champion. All durable state is in one SQLite database behind
`SQLiteStore`; all operations go through `ControlPlane`. This directory models
the parts where concurrency, crashes, time and retries interact, checks them
with TLC on small instances, and proves their safety properties with TLAPS for
instances of any size.

## The system

| Component | State | Operations | Source |
|---|---|---|---|
| Idempotent requests | `idempotency_records` | claim, complete, fail, purge, reconcile | `store.py` 850-930, `control.py` 958-1004 |
| Training lease | `leases`, `training_runs` | acquire, renew per episode, fenced commit, release, reconcile | `store.py` 932-1038, 1259-1340; `control.py` 485-603; `learner.py` 65-91 |
| Champion registry | `champion_registry`, `promotion_audit`, `policy_artifacts`, hidden receipts | train, evaluate, promote, rollback | `control.py` 605-789, 865-956; `store.py` 1185-1473; `learner.py` 128-174 |
| Compute budget | `budgets`, `budget_reservations` | create, reserve, consume, release, reconcile | `store.py` 1049-1157, 417-505 |
| Hidden attempt quota | the same tables, a budget per artifact, suite and window | reserve, consume, release | `control.py` 361-483 |
| HTTP admission and drain | semaphores, drain flag, active count | admit, release, drain, cancel | `api.py` 190-250, 542-590; `cli.py` 388-451 |
| Process registry | owned child processes | spawn, signal, kill, cancel all | `process_registry.py` |
| Backup and restore | bundle, stage, marker file | create, restore, resume | `backup.py` |
| Receipts and replay guard | `receipt_nonces` | sign, verify, claim nonce | `crypto.py`, `store.py` |
| Engine | search tree, model statistics | legal moves, apply, PUCT, learn | `engine.py` |
| Evidence runner, benchmark worker | subprocesses | run, attest | `evidence.py`, `hidden_benchmark.py`, `workers/` |
| Configuration, secrets, artifact files, metrics, CLI | none or files | parsing, I/O | `config.py`, `secrets.py`, `artifacts.py`, `serde.py`, ... |

How they interact. A request thread is admitted by `api.py`, claims its
idempotency key, runs an operation that reads the store in several separate
transactions, and ends in one transaction that writes the effect, an audit
event, the budget's consumption and the idempotency result together. On an
error it releases what it holds and marks the key failed. Evidence and
benchmark requests own a subprocess through the process registry; a benchmark
worker owns candidates of its own through a registry of the same class. The
signal handler closes the admission gate, and `serve` waits, cancels through
the registry and waits again before the process ends. `reconcile_startup`, run
under an exclusive file lock before the service serves, closes whatever a dead
process left open. Backup and restore are commands of their own that share
only files with the service.

What is hard here: threads interleave between transactions; timestamps are
read before the lock is taken; keys and leases expire while their owner is
still at work; a crash may fall between any two transactions or two renames;
error paths may fail themselves; promotion compares values it read at
different times; a signal may meet any line of a request or of a worker; and
files that an evaluation depends on may be replaced under it. The `hazards` of
`PROJECT.json` list these places line by line with the properties aimed at
them.

What makes each part correct: an effect happens at most once per key and
answers stand for effects (requests); training runs commit in the order of
their fencing tokens (lease); the audit table is one gapless chain without a
hidden regression (registry); what is charged is what took effect (budget,
quota); nobody enters after the gate closed and the process ends (drain); a
child is owned until it is reaped and none that was killed or timed out passes
(processes); the data directory is wholly old or wholly new (restore); visits are conserved,
results are safe and learned in order (engine).

## Modules

Every store operation is one SQLite transaction (`BEGIN IMMEDIATE` under an
`RLock`, `store.py` 507-534), hence one atomic action. Everything between two
transactions of a thread may interleave. Each module has a `MC` module with the
symmetry sets and tables TLC needs.

**Idempotency** - `_idempotent` over the idempotency table. `rec` is the table
(status, body digest, result, claim and expiry times), `th` the request
threads: *operating* (claimed), *committed* (the operation's transaction with
`_complete_atomic` is through), *failing* and *marking* (the except branch).
Actions: `ClaimNew`/`ClaimConflict`/`ClaimReplay`, `Commit`/`CommitRefused`,
`Raise`, `Finish` (the second completion), `FailClaim` (the second claim) and
`MarkFailed`, `StoreFault`, `Crash`, `Restart` (reconciliation), `Tick`.
Operations are abstract; their results are distinct because they carry fresh
ids. `effects`, `replies` and `interrupted` are history variables.

**TrainingLease** - one lease row and the trainings that compete for it.
`Acquire` is the transaction of `acquire_lease`; `ReadBack` is the read of the
row with which that function ends (`store.py` 993), in a transaction of its own:
a trainer that stalls in between past its lease works with the token of its
successor, and when the read fails (`ReadBackFault`) the lease it acquired is
nobody's to release. Then come the heartbeat of each episode, the renewal inside the final transaction as the
fencing check, the finally block, and reconciliation that frees the lease but
keeps its token. A trainer thread and the number of its acquisition (`uid`)
stand for the uuid of the holder; `token` is what was read back. A training id belongs to one running operation at a time; that is what
Idempotency provides while requests end within the retention.

**PolicyRegistry** - promotion and rollback of one policy family, one action
per read (`CheckDuties`, `ReadRow`, `ReadModel`, `ValidateOwn`,
`ValidatePaired`) and one for the compare-and-swap (`CommitChange`,
`CommitSame`). Training, evaluation, stale receipts and a replaced suite run
beside them. Offline summaries and hidden scores are constants, because both
evaluations are deterministic. The audit entries carry the evidence the
operation used, and note in `swapped` that the suite was replaced between the
validations of the two receipts, so that properties can speak about it. `Bound`
leaves out the candidate fingerprint of a receipt (`control.py` 926-935), which
only allows more promotions.

**Budget** - the tenant's compute budget as decisions and trainings use it:
the row's two counters and the reservations, kept in step by hand in the code.
`CheckReserved` is the separate read in the finally block of a training. A
start refuses to go on when the ledger does not add up: `Balanced` compares the
row with the sums of the reservations, as its SQL does.

**Benchmark** - `evaluate_hidden_benchmark` from its key to its final
transaction: `Claim`/`Repeat` on the key, `Charge` (suite digest, window and
reservation), the client (`Launch`, `Validate`), the worker (`Load`, `RunCase`
per case, `Sign` after the second fingerprint), `Commit` and the error path
(`Release`, `ReleaseFails`, `Fail`). `suite`, `image` and `modules` are the
operator's files, which `SwapSuite`, `Deploy` and `Upgrade` replace at any
moment. `SuiteDigest` and `Fingerprint` are reads of the first two: the
fingerprint covers the files on the candidate's command line and not the package
modules it imports. `faults` records what went wrong so far: a swap, an upgrade,
a failed release, a crash, and each image that was replaced, which does not come
back. `Crash` and `Restart` are those of the service. Three fields of an
evaluation and its result are history: `repeated` (its reservation had been
settled by an earlier use of the key), `swapped` (the suite was replaced between
the charge and the worker's look at it) and `used` (the modules that ran a
case).

**Shutdown** - the service process as threads and children. `rq` is the handler
thread of each request (`arrived`, `checked`, `slotted`, `admitted`, then for
requests with a subprocess `collecting`, `reaping`, `retrying`, `finally`, then
`answered`, `released`), `child` its subprocess, `entries` and `accepting` the
registry, `worker` the registry and candidate inside a benchmark worker, `srv`
the main thread in `serve`. `admit_request` is three steps, because the lock is
released between its two looks at the gate; `cancel_all` is three steps during
which it holds the registry's lock (`Locked`). A worker's SIGTERM handler runs
between any two steps of its main thread, also inside `spawn`.

**DrainGate** - the abstract specification of that lifecycle in two variables:
requests enter only while the gate is open, a clean end leaves nobody inside,
and a closed gate leads to an end. `Shutdown` implements it: `inflight` is
the set of requests counted as active work, `phase` is computed from
`draining`, `srv` and `graceful`.

**Restore** - `create_bundle` beside a running service, then `restore_bundle`
and `_resume_restore` on an empty target. One step per file-system operation
that another process or a crash can tell apart. A database is known by the bundle
it comes from and a tree is the set of its artifacts, so a mixture shows and a
bundle without artifacts has an empty tree, over which `os.replace` puts another
without a word. A marker is torn between its creation and its content, and only
the restore that created it can write it. `Raise`, `RollBackRaise`,
`ResumeRaise`, `Crash` and `Damage` are the faults; the roll-back removes its
tree file by file, may fail in the middle and then unlinks the marker
nevertheless, as `rmtree` ignores errors. A resumption checks signature, manifest
and list of members of the bundle (`Listed`), and not the members' data again.
A crash is one of the process: a crash of the host is not modelled, as the
staging directories are not synced. `ServiceStart` is the service started on an
unfinished target, which nothing prevents. The ghosts note the situations the
command does not defend against: `torn` and `leftover`, a crash or an error in
the removal of the tree; `overlap`, two restores at a time; `joined`, a
resumption of a restore that still runs; `replaced`, a tree put over the empty
one of another restore; `intruded`, a service on an unfinished target.

**Fixture** - the scenario rules, gates, rewards and agent statistics of the
engine as pure operators over the default scenario and benchmark, in integer
hundredths. The table is taken over whole because `NeverUnsafe` compares rewards
and because the thresholds at which agents are benched depend on it. `FixtureAssumption` checks the constructor's rules on them, and
`FixtureArithmetic` states what the proofs need to know of the numbers.

**Search** - one policy model over time: `Construct` (a frozen copy),
`Simulate` (one pass of the loop), `Finish`, `Learn`/`LearnRefused`, `Shadow`
(which benches agents for good). `learned` keeps each result with the number of
shadow rounds the model had seen when it was learned. A tree node is its path and its visit count.
Where a float decides - which move is popped, which child is selected - any
choice is allowed, so the properties hold for every policy. Visits are counted
one by one (`VisitsBelow`), as the points of a case are in Benchmark: a sum is
the size of a set, which is easier to prove about.

Operators marked *Mutant* in the modules are plausible bugs of the definition
that follows them. `PROJECT.json` pairs each with the property that detects it.

## Runs

| Run | Bounds | Shows |
|---|---|---|
| `Idempotency_safe` | 2 threads, 2 keys, 2 bodies, 3 operations, retention 2, requests end within it, fair | mutual exclusion per key, owners for rows in progress, answers match bodies, crashed operations never run again, no key stays in progress |
| `Idempotency_overrun` | 3 threads, 1 key, 4 operations, requests up to 8 with retention 2, store faults | at most once per retention period, answers backed by effects, results never overwritten |
| `TrainingLease_fenced` | 2 trainers, 2 ids, 3 tokens, lease 3 to 4, time 6, any speed, store faults, fair | token order of commits, runs under their own unique tokens, no lease lost to a late release or to anything but delay, leases come back |
| `PolicyRegistry_safe` | 3 artifacts, 2 suites, 2 threads, 4 generations, 1 fresh receipt at a time | audit chain, no regression on the common suite of the receipts, rollback targets |
| `PolicyRegistry_duties`, `_rollback` | 4 artifacts, 2 threads, 1 and 5 generations | **violated**: see below |
| `Budget_ledger` | 3 threads, 3 reservations of 1 or 2 units, limit 3, store faults, fair | no overspending, exact charges, nothing reserved without an owner, everything settles, the service can restart |
| `Shutdown_drain` | 2 requests of any kind, 2 places for work, 1 for probes | exact admission, owned children, honest outcomes, no orphaned candidate, refinement of `DrainGate` |
| `Shutdown_cancelled` | 1 request | **violated**: a cancelled command passes |
| `Restore_crash` | 2 bundles, 2 restore processes, 1 artifact, 2 faults, fair | whole or without a database, never mixed, snapshots readable, reruns complete |
| `Search_learn` | 3 scenarios, budgets 4 and 9, 2 searches, shadow rounds 9 to 10 | conserved visits, safe and best results, own results accepted, learned in order |
| `Benchmark_quota` | 2 threads, 2 keys, 2 suites, 2 images, 2 versions of the modules, limit 1, window, retention and longest evaluation 2, time 3, 1 fault | quota, earned scores, accounted attempts |

The bounds are the smallest in which the cases of interest occur: time runs to
two retentions or lease durations; there are more operations or tokens than
threads, so that rows are reused; four generations let a champion be replaced,
come back and be replaced again. `Lag = 1` lets a timestamp be one second old
when its transaction runs. `MaxOp` (Idempotency) says how long a request may
run; the runs take it both at and above the retention. `MaxFresh`
(PolicyRegistry) bounds how many fresh receipts exist at a time, not how many are
issued; one is enough, because a validation looks at one receipt and an
evaluation, being deterministic, can be repeated in between. `StoreFaults` lets the store fail on error paths; what leaks then is
noted in the ghost `leaked`, and the liveness properties except exactly that.
Two requests are enough for every race of Shutdown: one
beside `serve`, one to hold the other place, the registry or the count; a third
takes part in no further kind of conflict. `MaxFaults = 2` in Restore lets a
crash be followed by an error of the rerun, or a restore crash and its bundle
be damaged; one artifact and two bundles are enough for a bundle without
artifacts beside one with. Nine shadow rounds are where the default thresholds are about to
bench an agent, so that the tenth changes what is legal between a search and
its learning; a budget of 4 ends before some scenarios are explored, one of 9
after. In Benchmark a limit of 1 with two keys makes every attempt contend; the clock
runs over two windows and one retention, and a window as long as the retention
lets a key come free in the window of its first use.
Deadlock is not checked, because every bound on time, tokens, operations or
generations ends the behaviours of the model.

Fairness: a thread that has begun an operation takes its next step (Python
schedules its threads and every wait in an operation has a timeout), and the
supervisor restarts a dead service (`deploy/agent-tree-rl.service`,
`Restart=on-failure`). In Shutdown only
the main thread is fair (`serve_forever` polls its stop flag, and both waits
have deadlines); clients, handlers and children may hang for ever, since the
body of a request is read without a timeout. In Restore a process that does not
crash goes on, and the operator reruns an interrupted command, as
`docs/RUNBOOK.md` 314-317 tells them to; crashes are bounded. New requests,
crashes and the clock are not fair. A
crash may recur for ever; the liveness properties hold nevertheless, because
each restart reconciles.

## What disagrees with the documentation

* `PolicyRegistry_duties`: producer and promoter "must remain different
  subjects" (`docs/API.md` 48-49). The check precedes the transaction.
* `PolicyRegistry_rollback`: rollback is a swap "to the recorded prior
  champion" (`docs/RUNBOOK.md` 265). The swap does not compare generations.

* `Shutdown_cancelled`: at the deadline the service terminates the children "then
  lets the request transaction fail closed" (`docs/RUNBOOK.md` 220-223). The
  evidence runner decides by deadline, output cap and return code alone: a
  command that exits with code 0 on SIGTERM is receipted as passed.

The first two need two operations to interleave within one promotion, the third
a command that handles SIGTERM and reports success.

## What the properties except, and why

Some properties hold only outside a stated situation. Each exception is visible
in the formula, and each situation is possible in the code:

* The idempotency properties of `Idempotency_safe` are about requests that end
  within the retention of their key. A request that runs for longer than a day
  loses its row; another may then claim the key with another body and be answered
  with the first body's result. `docs/API.md` 31-34 takes what happens after the
  24 hours out of the promise, so this is no disagreement; `Idempotency_overrun`
  checks what still holds.
* `LeaseComesBack` excepts a store that fails while the lease is read back or
  released; that lease comes back by expiry or at the next start.
* `HiddenGatesHeld` asks for both receipts to be of one suite, unless the suite
  was replaced between the two validations: each is compared with the suite file
  of its moment (`control.py` 913) and not with the other.
* `QuotaRespected` counts by the suite on the receipt and excepts two kinds of
  results (`Uncharged`). A suite replaced between the two hashes (`control.py`
  399, `hidden_benchmark.py` 632) leaves a receipt for the new suite charged to
  the old one. And in a window that is not `Narrow` - the default is 300 s, but
  `config.py` 318-324 allows the whole day of the retention - a key reused after
  its retention finds its consumed reservation in the same window, and its
  attempt is free; `docs/API.md` 31-34 warns of using a key again.
* `ScoreEarned` is about the modules that ran: a release that replaces
  `engine.py` under a running worker and leaves the candidate's script alone is
  not noticed by the fingerprint, and the score mixes both. And it is about
  replacements of the candidate's files that are not undone: files replaced and
  put back between the two fingerprints would not be noticed either, so `Deploy`
  does not bring a replaced image back.
* `AttemptsAccounted` excepts reservations whose release failed with more than a
  `ConflictError` (`control.py` 471-477); the next start releases them.
* `NoOrphanedCandidate` excepts a SIGTERM that meets the lines between the
  second look at `_accepting` and the registration, and a SIGKILL inside
  `Popen`. It says nothing of a worker killed by its timeout: SIGKILL runs no
  handler, and the candidate is in a session of its own.
* `PassedHonestly` leaves out a command that exits with code 0 on SIGTERM, which
  is the finding `Shutdown_cancelled`. A benchmark worker that handled the signal
  passes only if its last candidate was over by then: `main` looks at `CANCELLED`
  once more before it writes the receipt (`benchmark_worker.py` 258), and a
  signal after that look comes too late.
* `AllOrNothing` excepts overlapping restores and a service started on an
  unfinished target (it does not look for the marker); and it allows a tree
  without a database after a roll-back that could not remove it (`backup.py` 296
  ignores errors, and 298 unlinks the marker), which the next run refuses.
  `RestoreCompletes` excepts these, a crash inside the removal of the tree, and a
  bundle whose manifest, signature or list of members was altered. `NeverMixed`
  excepts the service, and overlap combined with a fault, with a resumption or
  with a replaced empty tree. Two of the ways are worth knowing, as
  `restore_bundle` takes no lock: with three restores, one resumes another that
  still runs, the marker it has read is unlinked, and the third installs the tree
  of another bundle; with two, one restores a bundle without artifacts, the other
  unlinks its marker in its except block, starts again and replaces the empty
  tree, and both rename their databases.
* Every gate of `evaluate` on hard failures is vacuous (`learner.py` 116): by
  `NeverUnsafe` a search hands out feasible results only.

## Proofs

The assumptions are the named ones of the component modules on their constants:
natural numbers, finite sets, model values apart, `Lag` at most the retention,
an evaluation no longer than the retention of its key. `FixtureArithmetic` is a closed formula without
constants: the rewards and costs of the 175 paths that the table of
moves allows, a computation that TLC carries out whenever it runs Search. None
bounds the number of threads, keys, requests,
artifacts or generations. Each strengthening was found by asking what a step
needs to know, was checked by TLC as an invariant on the instance of the run,
and stands at the end of the component's module. Every safety invariant and
action property of a passing run is a theorem.

*IdempotencyProofs.* Each action is first classified by what it does to a row
(`RowChange`: kept, purged, claimed, finalized) and to a thread
(`ThreadChange`), and the invariants are shown for the classes.
`AtMostOnceCorrect` needs `RowTimes` (a row expires one retention after its
claim, or never as a failure), `OpsFresh` (a thread's operation has a number of
its own) and `EffectsCovered` (every effect's key is covered by the row it was
committed under, by a later one, or its retention is over).
`RepliesAlwaysBacked` follows the results from the commit into the row and into
the answer (`ResultsBacked`, `CommittedBacked`); `ResultsRetained` follows from
the classes. These hold for requests of any length. The others hold when no
request outlives the retention, `MaxOp <= TTL`, which the theorems state as a
hypothesis. Then the row of a running request is never expired (`NotExpired`),
so that `RowOwned` is inductive: the thread has the row of its claim in the
state its next step expects, and no other thread serves its key.
`OneOperates`, `AnswersMatchBody`, `CutShortForGood` (with `InterruptedFailed`:
an interrupted row waits for the reconciliation or is failed for good) and, if
the store does not fail on the error path, `InProgressAlwaysOwned` follow.

*TrainingLeaseProofs.* `TokensUniqueCorrect` and `FencedCommitsCorrect` rest on
`TokensIssued` (no acquisition under way or on record is ahead of the row's
token), `HoldersUnique` (no two operations made the same acquisition) and
`UncommittedFresh`; a commit needs to be the row's holder with the row's token,
which is then the operation's own, and the row's token is the largest. A token
read back late fails both comparisons. `TrainerKeepsLeaseCorrect` needs
`LeaseCovers` (the lease of an operation runs `LeaseSeconds` from its acquisition
or last renewal, or that time is over, and while it is the holder it has read its
own token): another trainer can only take the row when it has expired.
`LeaseNeverStolen` needs types only: the conditions of the store's statements are
enough.

*PolicyRegistryProofs.* The next-state relation is split into background
steps, reads and the compare-and-swap. `PromotionEvidence` and
`RollbackEvidence` say what an operation under way has read, and that its own
receipt is of the current suite until the suite is replaced; the swap turns the
champion it expects into the champion it replaces, which gives
`AuditLineageCorrect`, `HiddenGatesCorrect` and `RollbackCorrect`.

*BudgetProofs.* `LedgerInv` joins the sums of the reservations (`Balanced`),
the limit (`WithinLimit`) and `OwnReservation`: an operation under way has a
reservation that nobody else settles. Without the last, a commit could consume
what was already released. Every action changes one reservation, or none, or
(reconciliation) all of them; the first kind moves one summand. The first part
of the module is what that takes of `SumFunctionOnSet`: the sum of a finite set
of natural numbers is one, depends on the values only, and changes by one value
when an index is added or removed. The fold behind it is unfolded by induction
on the cardinality. The induction theorems of the library take a predicate as a
parameter; `SetInduction` takes a set, and is proved from the least element of
a set of natural numbers.

*ShutdownProofs.* `ShutdownInv` counts: free places and admitted requests add
up to `Slots` in each pool, `active` is the number of admitted work requests,
which is shown with the cardinality theorems as one request enters or leaves
the set. The rest ties each thread to its child (`OwnChild`: an outcome is read
off a child that was reaped; `HandledFails`: a worker that handled SIGTERM ends
with code 0 only if it was writing its receipt), each registry entry to a thread or a kill
(`GivenUpKilled`), and each worker to its candidate (`DescendantsCancelled`).
`GateRefined` maps each step to a step
or a stutter of DrainGate: `Admit` is the only step in which a request enters,
and its second look at the gate is what makes it one.

*RestoreProofs.* `AloneInv` describes a target with one restore at a time and
any faults: a database comes with its tree, a tree without a database with a
marker unless its removal failed, and `InPlace` says what is in place and what is
staged at each line of the command. `CleanInv` describes any number of restores
without faults, resumptions and replaced trees: a marker belongs to a running
restore, and a tree that is in place stays. `AllOrNothing` and the two halves of
`NeverMixed` follow. The proof removed an exception (a torn marker does no harm
to `AllOrNothing`) and added one (`joined`, see above).

*BenchmarkProofs.* The quota is a bound on reservations (`WithinLimit`), and
each result that is not repeated is paid by a consumed reservation of its own
(`ResultsPaid`) on the suite it names unless it is swapped (`SuiteCharged`). An
attempt is free only if an evaluation meets a reservation that an earlier one
settled; `WindowsApart` says that a key charged to a narrow window is not free
before the window ends, so that this does not happen there, and `KeysOwned` that
an evaluation ends before its key is free. No assumption restricts the window:
for a wide one the theorem excepts repeated results. `HonestScores` follows the
solved cases from the candidate into the receipt: as long as the image is the
one the worker fingerprinted, its solutions are those of that image with the
modules that ran.

*SearchProofs.* The tree is first treated as a value, apart from the state: if
a tree is made of legal paths with all their prefixes (`LegalTree`) and its
counts are in order (`Counted`), then so is the tree after a simulation that
ends at a leaf. A node on the path of the simulation gains one visit and exactly
one of its children does too, also when the child is new (`VisitsOnPath`);
elsewhere nothing changes (`VisitsOffPath`). `SearchInv` adds that a result
handed out is one that `Accepts` looks for, but for the version (`ResultOK`),
from which `OwnResultsAreAccepted` follows, and that the best terminal was
handed out (`BestHandedOut`); that there is a best one takes a finite tree and
the order of `Better` to be transitive (`BestExists`). `ResultsAreSafe` adds
that a path with a commit has no abstention, since only the last phase holds
either. `LearnedOneByOne` is inductive with the version check of `Accepts`, which
compares the shadow rounds too.
`SimulationsEnd` shows that the loop of `run` is never stuck, which the runs do
not, because deadlock is not checked: among the nodes that selection reaches,
the longest has an untried move or none at all.

Model-checked only: the liveness properties (`NoKeyStuck`, `LeaseComesBack`,
`EverythingSettles`, `RestoreCompletes`) and the fairness part of
`ImplementsGate`, since fairness and ENABLED are outside the prover's reach.

## Plan

All modules of the plan and the proofs above are done. Liveness is left to the
model checker. What would come next is code that is not modelled at all: the
chain of audit events and the schema migrations.

## Not modelled

Cryptography, path and permission checks, JSON and file formats, HTTP parsing,
metrics and logging hold no state that these properties depend on; a signature
or digest is modelled by what it decides. The engine's floating-point priors,
values and weights are out of TLC's reach, so the quality of a search (that it
finds good moves, that learning improves) is not claimed, and
`predicted_greedy_baseline` and `evaluate` are left out. Sandbox limits of
subprocesses are operating-system behaviour. Schema migrations run once, alone.
A host crash that loses a directory entry which was renamed but not yet synced
(`control.py` 814) is not modelled. The example program repeats the engine, and
the release scripts are not part of the service. `PROJECT.json` lists every
component with its status.
