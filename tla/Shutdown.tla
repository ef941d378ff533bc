------------------------------- MODULE Shutdown -------------------------------
(***************************************************************************)
(* The service process from its first request to its exit: admission by    *)
(* two semaphores and the drain gate (api.py ProductionHTTPServer), the    *)
(* subprocesses that evidence and benchmark requests own through the       *)
(* ActiveProcessRegistry (process_registry.py, evidence.py,                *)
(* hidden_benchmark.py), the candidate a benchmark worker runs in a        *)
(* session of its own (workers/benchmark_worker.py), and the signal-driven *)
(* shutdown of serve with its two deadlines.                               *)
(*                                                                         *)
(* Requests are one-shot threads.  The registry lock is held across steps  *)
(* only by cancel_all, so every other locked section is one step that      *)
(* waits for ~Locked.  Deadlines may expire whenever they are armed.       *)
(***************************************************************************)
EXTENDS Integers, FiniteSets

CONSTANTS
    Requests,  \* the requests that may arrive
    Slots      \* max_workers and max_operational_workers, by pool

ASSUME SlotsAssumption ==
    /\ IsFiniteSet(Requests)
    /\ Slots \in [{"work", "operational"} -> Nat \ {0}]

VARIABLES
    draining,   \* the drain gate of the server (_draining)
    slots,      \* free places of the two semaphores
    active,     \* _active_work_requests
    rq,         \* the thread of each request
    child,      \* the subprocess of each request
    worker,     \* inside a benchmark worker: its registry and its candidate
    entries,    \* the registry: requests whose child it owns
    accepting,  \* the registry accepts new children
    srv,        \* the main thread, in serve
    graceful    \* what serve will return

vars == <<draining, slots, active, rq, child, worker, entries, accepting, srv,
          graceful>>

admission == <<draining, slots, active>>
processes == <<child, worker, entries, accepting>>
main      == <<srv, graceful>>

-----------------------------------------------------------------------------
(* State *)

(* "plain" is work without a subprocess: decisions, trainings, promotions,
   rollbacks, audit and champion reads, unmatched routes. *)
Kinds == {"operational", "plain", "evidence", "benchmark"}

Spawning == {"evidence", "benchmark"}

Pool(r) == IF rq[r].kind = "operational" THEN "operational" ELSE "work"

IsWork(r) == rq[r].kind # "operational"

NoRequest == [pc |-> "idle", kind |-> "plain", term |-> "none", rc |-> "none",
              outcome |-> "none"]

(* A child that runs, has exited and waits to be reaped, or is reaped; rc is
   its return code, killed says that SIGKILL was sent to its group. *)
NoChild == [st |-> "none", rc |-> "none", killed |-> FALSE]

(* The candidate is born (forked, not yet in the worker's registry), checked
   (past the second look at _accepting), or owned by that registry.  It is over
   when the worker has run its last one and writes its receipt. *)
NoWorker == [candidate |-> "none", open |-> TRUE, term |-> "none",
             raced |-> FALSE]

Init ==
    /\ draining = FALSE
    /\ slots = Slots
    /\ active = 0
    /\ rq = [r \in Requests |-> NoRequest]
    /\ child = [r \in Requests |-> NoChild]
    /\ worker = [r \in Requests |-> NoWorker]
    /\ entries = {}
    /\ accepting = TRUE
    /\ srv = "serving"
    /\ graceful = FALSE

(* The process is alive: its threads run, its locks exist. *)
Alive == srv # "closed"

(* cancel_all holds the registry lock from its first to its last step. *)
Locked == srv \in {"terminated", "killed"}

Goto(r, pc) == rq' = [rq EXCEPT ![r].pc = pc]

(* The handler leaves its try block with this outcome. *)
Finish(r, outcome) ==
    rq' = [rq EXCEPT ![r].pc = "answered", ![r].outcome = outcome]

(* The thread ends; of its answer only a success is remembered. *)
Done(r) ==
    rq' = [rq EXCEPT ![r] = [NoRequest EXCEPT
                !.pc = "done",
                !.outcome = IF rq[r].outcome = "passed" THEN "passed"
                            ELSE "none"]]

-----------------------------------------------------------------------------
(* Admission *)

(* The accept loop starts a thread for a connection; _match_route tells what
   it is. *)
Arrive(r, kind) ==
    /\ srv = "serving" /\ rq[r].pc = "idle"
    /\ rq' = [rq EXCEPT ![r].pc = "arrived", ![r].kind = kind]
    /\ UNCHANGED <<admission, processes, main>>

(* admit_request, first look at the gate. *)
CheckGate(r) ==
    /\ Alive /\ rq[r].pc = "arrived"
    /\ Goto(r, IF draining /\ IsWork(r) THEN "refused" ELSE "checked")
    /\ UNCHANGED <<admission, processes, main>>

(* Semaphore.acquire(blocking=False). *)
AcquireSlot(r) ==
    /\ Alive /\ rq[r].pc = "checked"
    /\ \/ /\ slots[Pool(r)] = 0
          /\ Goto(r, "refused")
          /\ UNCHANGED slots
       \/ /\ slots[Pool(r)] > 0
          /\ slots' = [slots EXCEPT ![Pool(r)] = @ - 1]
          /\ Goto(r, "slotted")
    /\ UNCHANGED <<draining, active, processes, main>>

(* Mutant: one look at the gate is enough. *)
AdmitUnchecked(r) ==
    /\ Alive /\ rq[r].pc = "slotted"
    /\ active' = IF IsWork(r) THEN active + 1 ELSE active
    /\ Goto(r, "admitted")
    /\ UNCHANGED <<draining, slots, processes, main>>

(* Mutant: a request that meets the closed gate keeps its place. *)
AdmitLeaky(r) ==
    /\ Alive /\ rq[r].pc = "slotted"
    /\ active' = IF IsWork(r) /\ ~draining THEN active + 1 ELSE active
    /\ Goto(r, IF draining /\ IsWork(r) THEN "refused" ELSE "admitted")
    /\ UNCHANGED <<draining, slots, processes, main>>

(* admit_request, second look at the gate, under the same lock as the count. *)
Admit(r) ==
    /\ Alive /\ rq[r].pc = "slotted"
    /\ \/ /\ draining /\ IsWork(r)
          /\ slots' = [slots EXCEPT !["work"] = @ + 1]
          /\ Goto(r, "refused")
          /\ UNCHANGED active
       \/ /\ ~(draining /\ IsWork(r))
          /\ active' = IF IsWork(r) THEN active + 1 ELSE active
          /\ Goto(r, "admitted")
          /\ UNCHANGED slots
    /\ UNCHANGED <<draining, processes, main>>

(* _dispatch answers: health, readiness, metrics, or a handler without a
   subprocess returned or raised.  The handler may wait for its client or
   its lock, so this step may never come. *)
Answer(r) ==
    /\ Alive /\ rq[r].pc = "admitted" /\ rq[r].kind \notin Spawning
    /\ Finish(r, "ok")
    /\ UNCHANGED <<admission, processes, main>>

(* Work is refused before its operation: token, role, key, length, JSON.
   Reading the body waits for the client without a timeout. *)
Malformed(r) ==
    /\ Alive /\ rq[r].pc = "admitted" /\ IsWork(r)
    /\ Finish(r, "invalid")
    /\ UNCHANGED <<admission, processes, main>>

(* release_admission: the semaphore first, *)
ReleaseSlot(r) ==
    /\ Alive /\ rq[r].pc = "answered"
    /\ slots' = [slots EXCEPT ![Pool(r)] = @ + 1]
    /\ IF IsWork(r) THEN Goto(r, "released") ELSE Done(r)
    /\ UNCHANGED <<draining, active, processes, main>>

(* then the count, which wakes the drain at zero. *)
ReleaseActive(r) ==
    /\ Alive /\ rq[r].pc = "released"
    /\ active' = active - 1
    /\ Done(r)
    /\ UNCHANGED <<draining, slots, processes, main>>

-----------------------------------------------------------------------------
(* Subprocesses of evidence and benchmark requests *)

(* The command, its directory, environment or artifacts break the policy of
   the runner, or its executable cannot be fingerprinted. *)
PolicyViolation(r) ==
    /\ Alive /\ rq[r].pc = "admitted" /\ rq[r].kind \in Spawning
    /\ Finish(r, "invalid")
    /\ UNCHANGED <<admission, processes, main>>

(* Mutant: the registry forgets to ask whether it is closed. *)
SpawnAlways(r) ==
    /\ Alive /\ ~Locked
    /\ rq[r].pc = "admitted" /\ rq[r].kind \in Spawning
    /\ child' = [child EXCEPT ![r].st = "running"]
    /\ entries' = entries \union {r}
    /\ Goto(r, "collecting")
    /\ UNCHANGED <<admission, worker, accepting, main>>

(* The request passed the runner's policy and the registry forks the child,
   whole under its lock; a closed registry raises. *)
Spawn(r) ==
    /\ Alive /\ ~Locked
    /\ rq[r].pc = "admitted" /\ rq[r].kind \in Spawning
    /\ \/ /\ accepting
          /\ child' = [child EXCEPT ![r] = [NoChild EXCEPT !.st = "running"]]
          /\ entries' = entries \union {r}
          /\ Goto(r, "collecting")
       \/ /\ ~accepting
          /\ Finish(r, "error")
          /\ UNCHANGED <<child, entries>>
    /\ UNCHANGED <<admission, worker, accepting, main>>

(* Popen raises OSError: an outcome that is signed and stored for evidence,
   a failure of a benchmark. *)
SpawnError(r) ==
    /\ Alive /\ ~Locked /\ accepting
    /\ rq[r].pc = "admitted" /\ rq[r].kind \in Spawning
    /\ \E answer \in IF rq[r].kind = "evidence"
                     THEN {"spawn_error", "executable_changed", "error"}
                     ELSE {"error"} : Finish(r, answer)
    /\ UNCHANGED <<admission, processes, main>>

(* ActiveProcessRegistry.signal with SIGKILL: only a group it still owns. *)
Killed(owned) ==
    [r \in Requests |-> IF r \in owned THEN [child[r] EXCEPT !.killed = TRUE]
                        ELSE child[r]]

(* Both pipes are at their end: the child is gone, or closed them early. *)
CollectEnd(r) ==
    /\ Alive /\ rq[r].pc = "collecting"
    /\ child[r].st # "running" \/ rq[r].kind = "evidence"
    /\ Goto(r, "reaping")
    /\ UNCHANGED <<admission, processes, main>>

(* The deadline passes, or the output exceeds its cap: SIGKILL, then at most
   two more seconds of reading. *)
CollectKill(r, why) ==
    /\ Alive /\ ~Locked /\ rq[r].pc = "collecting"
    /\ child' = Killed(entries \intersect {r})
    /\ rq' = [rq EXCEPT ![r].pc = "reaping", ![r].term = why]
    /\ UNCHANGED <<admission, worker, entries, accepting, main>>

(* Mutant: a child that is not owned any more counts as a success. *)
ReapedCodeZero(r) ==
    IF r \in entries /\ child[r].st = "running" THEN "killed"
    ELSE IF r \in entries THEN child[r].rc ELSE "zero"

(* The code kill_and_reap returns when the child dies in time: its own, that
   of SIGKILL, or the one cancel_all has already reaped. *)
ReapedCode(r) ==
    IF r \in entries /\ child[r].st = "running" THEN "killed" ELSE child[r].rc

(* kill_and_reap returns: the group was signalled before the leader is
   reaped, and ownership ends with the reaping. *)
Reap(r) ==
    /\ child' = [child EXCEPT ![r] =
                   IF r \in entries
                   THEN [st |-> "reaped", rc |-> ReapedCode(r),
                         killed |-> TRUE]
                   ELSE @]
    /\ entries' = entries \ {r}

(* kill_and_reap raises TimeoutExpired: signalled, unreaped, still owned. *)
ReapTimeout(r) ==
    /\ r \in entries /\ child[r].st = "running"
    /\ child' = Killed({r})
    /\ UNCHANGED entries

(* The end of collecting: evidence retries once, then every path runs the
   finally block, a raised TimeoutExpired ("error") included. *)
CollectReap(r) ==
    /\ Alive /\ ~Locked /\ rq[r].pc \in {"reaping", "retrying"}
    /\ \/ /\ Reap(r)
          /\ rq' = [rq EXCEPT ![r].pc = "finally", ![r].rc = ReapedCode(r)]
       \/ /\ ReapTimeout(r)
          /\ IF rq[r].pc = "reaping" /\ rq[r].kind = "evidence"
             THEN Goto(r, "retrying")
             ELSE rq' = [rq EXCEPT ![r].pc = "finally", ![r].outcome = "error"]
    /\ UNCHANGED <<admission, worker, accepting, main>>

(* The statuses _hash_artifact gives an artifact that can be signed for. *)
Artifacts == {"hashed", "problem"}

(* What EvidenceRunner.run reports, in its order of precedence; a benchmark
   request needs a worker that finished by itself with code 0. *)
Outcome(r, stable, artifacts) ==
    IF rq[r].outcome = "error" THEN "error"
    ELSE IF rq[r].kind = "benchmark"
         THEN IF rq[r].term = "none" /\ rq[r].rc = "zero" THEN "passed"
              ELSE "error"
    ELSE IF ~stable                 THEN "executable_changed"
    ELSE IF rq[r].term # "none"     THEN rq[r].term
    ELSE IF rq[r].rc # "zero"       THEN "failed"
    ELSE IF artifacts = "problem"   THEN "artifact_error"
    ELSE "passed"

(* What the request answers once the receipt is verified, countersigned and
   stored in one transaction, each of which may raise. *)
Recorded(outcome) == {outcome, "error"}

(* The finally block reaps whatever is still owned, then the outcome is
   signed and stored.  A second TimeoutExpired leaves the child owned. *)
Finally(r) ==
    /\ Alive /\ ~Locked /\ rq[r].pc = "finally"
    /\ \/ /\ Reap(r)
          /\ \E stable \in BOOLEAN, artifacts \in Artifacts :
               \E answer \in Recorded(Outcome(r, stable, artifacts)) :
                 Finish(r, answer)
       \/ /\ ReapTimeout(r)
          /\ Finish(r, "error")
    /\ UNCHANGED <<admission, worker, accepting, main>>

-----------------------------------------------------------------------------
(* The children themselves *)

(* A child exits by itself.  A worker ends between two candidates, and with
   code 2 if it was cancelled before its last look at CANCELLED. *)
ChildExit(r, rc) ==
    /\ child[r].st = "running" /\ ~child[r].killed
    /\ worker[r].candidate \in {"none", "over"}
    /\ rc = "zero" /\ worker[r].term = "handled" => worker[r].candidate = "over"
    /\ child' = [child EXCEPT ![r].st = "exited", ![r].rc = rc]
    /\ UNCHANGED <<admission, rq, worker, entries, accepting, main>>

(* SIGKILL takes effect. *)
ChildDies(r) ==
    /\ child[r].st = "running" /\ child[r].killed
    /\ child' = [child EXCEPT ![r].st = "exited", ![r].rc = "killed"]
    /\ UNCHANGED <<admission, rq, worker, entries, accepting, main>>

(* A worker that runs and is not being killed. *)
Working(r) ==
    /\ rq[r].kind = "benchmark"
    /\ child[r].st = "running" /\ ~child[r].killed

Candidate(r, state) ==
    /\ worker' = [worker EXCEPT ![r].candidate = state]
    /\ UNCHANGED <<admission, rq, child, entries, accepting, main>>

(* The worker's main thread, in ActiveProcessRegistry.spawn: Popen forks the
   candidate into its own session, *)
CandidateFork(r) ==
    /\ Working(r) /\ worker[r].candidate = "none" /\ worker[r].open
    /\ Candidate(r, "born")

(* Mutant: the second look at _accepting is left out. *)
CandidateCheckNone(r) ==
    /\ Working(r) /\ worker[r].candidate = "born"
    /\ Candidate(r, "checked")

(* a second look at _accepting kills it if the handler ran meanwhile, *)
CandidateCheck(r) ==
    /\ Working(r) /\ worker[r].candidate = "born"
    /\ Candidate(r, IF worker[r].open THEN "checked" ELSE "none")

(* and it becomes an entry. *)
CandidateRegister(r) ==
    /\ Working(r) /\ worker[r].candidate = "checked"
    /\ Candidate(r, "owned")

(* The candidate of one case ended and was reaped. *)
CandidateEnd(r) ==
    /\ Working(r) /\ worker[r].candidate = "owned"
    /\ Candidate(r, "none")

(* The worker's last look at CANCELLED: it goes on to write its receipt. *)
WriteReceipt(r) ==
    /\ Working(r) /\ worker[r].candidate = "none" /\ worker[r].term # "handled"
    /\ Candidate(r, "over")

(* cancel_descendants: the SIGTERM handler interrupts the worker's main
   thread wherever it is and cancels what the registry owns (the lock is
   re-entrant); raced: the candidate is past its check and not yet owned. *)
CancelDescendants(r) ==
    /\ Working(r) /\ worker[r].term = "pending"
    /\ worker' = [worker EXCEPT ![r] =
                    [candidate |-> IF @.candidate = "owned" THEN "none"
                                   ELSE @.candidate,
                     open |-> FALSE, term |-> "handled",
                     raced |-> @.candidate = "checked"]]
    /\ UNCHANGED <<admission, rq, child, entries, accepting, main>>

-----------------------------------------------------------------------------
(* Shutdown *)

(* request_shutdown, the handler of SIGTERM and SIGINT: the gate closes and a
   thread asks the accept loop to stop. *)
Signal ==
    /\ srv = "serving" /\ ~draining
    /\ draining' = TRUE
    /\ UNCHANGED <<slots, active, rq, processes, main>>

(* serve_forever returns or raises; begin_draining in the finally block. *)
StopServing ==
    /\ srv = "serving"
    /\ draining' = TRUE
    /\ srv' = "draining"
    /\ UNCHANGED <<slots, active, rq, processes, graceful>>

(* wait_for_drain sees no active request: a clean end. *)
Drained ==
    /\ srv = "draining" /\ active = 0
    /\ graceful' = TRUE
    /\ srv' = "closed"
    /\ UNCHANGED <<admission, rq, processes>>

(* The grace period expires: cancel_all closes the registry and sends
   SIGTERM to every owned group (which means nothing to one that has exited), *)
CancelTerm ==
    /\ srv = "draining" /\ active > 0
    /\ accepting' = FALSE
    /\ worker' = [r \in Requests |->
                    IF /\ r \in entries /\ child[r].st = "running"
                       /\ worker[r].term = "none"
                    THEN [worker[r] EXCEPT !.term = "pending"] ELSE worker[r]]
    /\ srv' = "terminated"
    /\ UNCHANGED <<admission, rq, child, entries, graceful>>

(* after the TERM window SIGKILL, before any of them is reaped, *)
CancelKill ==
    /\ srv = "terminated"
    /\ child' = Killed(entries)
    /\ srv' = "killed"
    /\ UNCHANGED <<admission, rq, worker, entries, accepting, graceful>>

(* and waits for each; those that do not die in time remain entries. *)
CancelReap ==
    /\ srv = "killed"
    /\ \E remaining \in SUBSET {r \in entries : child[r].st = "running"} :
         /\ entries' = remaining
         /\ child' = [r \in Requests |->
                        IF r \in entries \ remaining
                        THEN [child[r] EXCEPT !.st = "reaped",
                                              !.rc = ReapedCode(r)]
                        ELSE child[r]]
    /\ srv' = "cancelled"
    /\ UNCHANGED <<admission, rq, worker, accepting, graceful>>

(* The second wait_for_drain ends, in time or not, and the server closes:
   store and lock are released, daemon threads die with the process. *)
Close ==
    /\ srv = "cancelled"
    /\ srv' = "closed"
    /\ UNCHANGED <<admission, rq, processes, graceful>>

-----------------------------------------------------------------------------
Main ==
    \/ Drained
    \/ CancelTerm
    \/ CancelKill
    \/ CancelReap
    \/ Close

Thread(r) ==
    \/ CheckGate(r)
    \/ AcquireSlot(r)
    \/ Admit(r)
    \/ ReleaseSlot(r)
    \/ ReleaseActive(r)
    \/ CollectEnd(r)
    \/ \E why \in {"timeout", "output_limit"} : CollectKill(r, why)
    \/ CollectReap(r)
    \/ Finally(r)

Process(r) ==
    \/ \E rc \in {"zero", "nonzero"} : ChildExit(r, rc)
    \/ ChildDies(r)
    \/ CandidateFork(r)
    \/ CandidateCheck(r)
    \/ CandidateRegister(r)
    \/ CandidateEnd(r)
    \/ WriteReceipt(r)
    \/ CancelDescendants(r)

Next ==
    \/ \E r \in Requests :
         \/ \E kind \in Kinds : Arrive(r, kind)
         \/ Answer(r)
         \/ Malformed(r)
         \/ PolicyViolation(r)
         \/ Spawn(r)
         \/ SpawnError(r)
         \/ Thread(r)
         \/ Process(r)
    \/ Signal
    \/ StopServing
    \/ Main

Spec == Init /\ [][Next]_vars

(* The accept loop polls its stop flag and the deadlines of serve expire, so
   the main thread goes on once the gate is closed.  Nothing is assumed of
   clients, threads and children. *)
FairSpec ==
    /\ Spec
    /\ WF_vars(draining /\ StopServing)
    /\ WF_vars(Main)

-----------------------------------------------------------------------------
(* Properties *)

(* The requests that are counted as active work. *)
Inside == {r \in Requests :
             /\ IsWork(r)
             /\ rq[r].pc \in {"admitted", "collecting", "reaping", "retrying",
                              "finally", "answered", "released"}}

(* The requests that hold a place of a semaphore. *)
Holding(pool) == {r \in Requests :
                    /\ Pool(r) = pool
                    /\ rq[r].pc \in {"slotted", "admitted", "collecting",
                                     "reaping", "retrying", "finally",
                                     "answered"}}

Gate == INSTANCE DrainGate WITH
    inflight <- Inside,
    phase <- IF srv = "closed" THEN (IF graceful THEN "clean" ELSE "forced")
             ELSE IF draining THEN "draining" ELSE "open"

(* The server implements the drain gate: a request racing with the signal
   enters before the gate closes or not at all (the comment in admit_request),
   serve reports a graceful end only when every admitted request has finished,
   and once the gate is closed the process ends although clients, threads and
   children may hang. *)
ImplementsGate == Gate!Spec

(* Neither a refusal by the closed gate nor any way a request can end leaks or
   doubles a place of a semaphore or the active count: the count the drain
   waits for is exact, and it never underflows. *)
AdmissionExact ==
    /\ \A pool \in {"work", "operational"} :
         slots[pool] + Cardinality(Holding(pool)) = Slots[pool]
    /\ active = Cardinality(Inside)

(* The registry owns exactly the children that are not reaped, so no signal
   can reach a reused process id, and none escapes: when the process ends,
   every child it leaves has been sent SIGKILL. *)
ChildrenOwned ==
    /\ entries = {r \in Requests : child[r].st \in {"running", "exited"}}
    /\ srv = "closed" => \A r \in entries : child[r].killed

(* A receipt says "passed" only of a child that is reaped, exited with code 0
   before SIGKILL met it and within its deadline and its output cap, whoever
   reaped it first; and of a benchmark whose worker has handled the SIGTERM of
   the shutdown only when its last candidate was over by then. *)
PassedHonestly ==
    \A r \in Requests : rq[r].outcome = "passed" =>
        /\ rq[r].term = "none"
        /\ child[r].st = "reaped" /\ child[r].rc = "zero"
        /\ worker[r].term = "handled" => worker[r].candidate = "over"

(* docs/RUNBOOK.md, on the children still running at the shutdown deadline:
   the service "TERM/KILLs and reaps" them, "then lets the request transaction
   fail closed": a request whose child was running when SIGTERM was sent to it
   does not pass. *)
CancelledFailsClosed ==
    \A r \in Requests : worker[r].term # "none" => rq[r].outcome # "passed"

(* A worker that has handled SIGTERM leaves no running candidate behind when
   it dies, unless the signal met the lines between the second check and the
   registration of the candidate, or SIGKILL found it still inside Popen. *)
NoOrphanedCandidate ==
    \A r \in Requests :
        /\ worker[r].term = "handled" /\ ~worker[r].raced
        /\ child[r].st \in {"exited", "reaped"}
        => worker[r].candidate \in {"none", "born", "over"}

-----------------------------------------------------------------------------
(* Strengthenings: what the code maintains so that the properties hold *)

(* The steps of a thread while a child is its own. *)
Collecting == {"collecting", "reaping", "retrying", "finally"}

Codes == {"none", "zero", "nonzero", "killed"}

(* The shape of the threads, the children and the main thread. *)
TypeOK ==
    /\ draining \in BOOLEAN /\ accepting \in BOOLEAN /\ graceful \in BOOLEAN
    /\ slots \in [{"work", "operational"} -> Nat]
    /\ active \in Nat
    /\ rq \in [Requests ->
                 [pc : Collecting \union
                       {"idle", "arrived", "checked", "refused", "slotted",
                        "admitted", "answered", "released", "done"},
                  kind : Kinds, term : {"none", "timeout", "output_limit"},
                  rc : Codes,
                  outcome : {"none", "ok", "invalid", "error", "spawn_error",
                             "executable_changed", "timeout", "output_limit",
                             "failed", "artifact_error", "passed"}]]
    /\ child \in [Requests -> [st : {"none", "running", "exited", "reaped"},
                               rc : Codes, killed : BOOLEAN]]
    /\ worker \in [Requests ->
                     [candidate : {"none", "born", "checked", "owned", "over"},
                      open : BOOLEAN, term : {"none", "pending", "handled"},
                      raced : BOOLEAN]]
    /\ entries \subseteq Requests
    /\ srv \in {"serving", "draining", "terminated", "killed", "cancelled",
                "closed"}

(* The gate is closed before the main thread waits, and serve has not yet
   decided what to return. *)
GateClosed ==
    /\ srv # "serving" => draining
    /\ srv # "closed" => ~graceful

(* release_admission decrements the count only for work. *)
OnlyWorkCounted ==
    \A r \in Requests : rq[r].pc = "released" => IsWork(r)

(* The thread that reports an outcome looks at a child of its own: one that
   was forked, and was reaped with the code the thread remembers unless
   reaping raised. *)
OwnChild ==
    \A r \in Requests :
        /\ rq[r].pc \in Collecting =>
             rq[r].kind \in Spawning /\ child[r].st # "none"
        /\ rq[r].outcome # "none" =>
             rq[r].pc \in {"finally", "answered", "released", "done"}
        /\ rq[r].pc = "finally" =>
             \/ rq[r].outcome = "error"
             \/ /\ rq[r].outcome = "none"
                /\ child[r].st = "reaped" /\ child[r].rc = rq[r].rc

(* A child that its thread has given up is signalled, and so is every child
   once cancel_all has closed the registry and killed. *)
GivenUpKilled ==
    /\ \A r \in entries : rq[r].pc \in Collecting \/ child[r].killed
    /\ srv \in {"terminated", "killed", "cancelled"} => ~accepting
    /\ srv \in {"killed", "cancelled"} => \A r \in entries : child[r].killed

(* The first two lines of PassedHonestly. *)
SuccessReaped ==
    \A r \in Requests : rq[r].outcome = "passed" =>
        /\ rq[r].term = "none"
        /\ child[r].st = "reaped" /\ child[r].rc = "zero"

(* A child that runs has no return code, and a worker that handled SIGTERM
   ends with code 0 only if it was writing its receipt. *)
HandledFails ==
    \A r \in Requests :
        /\ child[r].st = "running" => child[r].rc = "none"
        /\ worker[r].term = "handled" /\ child[r].rc = "zero" =>
             worker[r].candidate = "over"

(* A worker that handled SIGTERM forks nothing more, and what it was running
   is gone. *)
DescendantsCancelled ==
    \A r \in Requests : worker[r].term = "handled" =>
        /\ ~worker[r].open
        /\ worker[r].raced \/ worker[r].candidate \in {"none", "born", "over"}

(* The inductive invariant of the service process. *)
ShutdownInv ==
    /\ TypeOK /\ AdmissionExact /\ ChildrenOwned /\ SuccessReaped
    /\ HandledFails /\ GateClosed /\ OnlyWorkCounted /\ OwnChild /\ GivenUpKilled
    /\ DescendantsCancelled
=============================================================================
