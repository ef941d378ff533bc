----------------------------- MODULE BenchmarkProofs -----------------------------
(***************************************************************************)
(* Proofs about Benchmark for every number of threads, keys, suites,       *)
(* cases and attempts: the quota holds, attempts are accounted for and a   *)
(* recorded score was earned.                                              *)
(***************************************************************************)
EXTENDS Benchmark, FiniteSetTheorems, TLAPS

(* An evaluation under way has a key and a challenger. *)
LEMMA RunningOp ==
    ASSUME TypeOK, NEW t \in Threads, Running(t)
    PROVE  op[t] \in Evaluations
BY DEF TypeOK, Running, Idle

LEMMA StatesFacts ==
    /\ "idle" \notin Holding /\ "claimed" \notin Holding
    /\ "failing" \notin Holding /\ "releasing" \in Holding
    /\ "charged" \in Holding /\ "launched" \in Holding /\ "cases" \in Holding
    /\ "answered" \in Holding /\ "commit" \in Holding
BY DEF Holding

(* One thread moves. *)
LEMMA OpMove ==
    ASSUME TypeOK, NEW t \in Threads, NEW e \in {Idle} \union Evaluations,
           op' = [op EXCEPT ![t] = e]
    PROVE  /\ op' \in [Threads -> {Idle} \union Evaluations]
           /\ op'[t] = e
           /\ \A u \in Threads : u # t => op'[u] = op[u]
BY DEF TypeOK

(* What is left of an evaluation when an exception leaves it. *)
LEMMA RaiseMove ==
    ASSUME TypeOK, NEW t \in Threads, Running(t), NEW p,
           p \in {"failing", "releasing"}, Raise(t, p)
    PROVE  /\ op' \in [Threads -> {Idle} \union Evaluations]
           /\ op'[t].pc = p /\ op'[t].key = op[t].key
           /\ op'[t].claimed = op[t].claimed /\ op'[t].quota = op[t].quota
           /\ op'[t].repeated = op[t].repeated
           /\ \A u \in Threads : u # t => op'[u] = op[u]
<1> DEFINE e == [Idle EXCEPT !.pc = p, !.key = op[t].key,
                             !.challenger = op[t].challenger,
                             !.claimed = op[t].claimed, !.quota = op[t].quota,
                             !.repeated = op[t].repeated]
<1>1. op[t] \in Evaluations BY RunningOp
<1>2. /\ op[t].key \in Keys /\ op[t].challenger \in Challengers
      /\ op[t].claimed \in Nat /\ op[t].quota \in Quotas \union {None}
      /\ op[t].repeated \in BOOLEAN
  BY <1>1 DEF Evaluations
<1>3. NoWorker \in Workers BY DEF NoWorker, Workers
<1>4. NoReceipt \in Receipts BY DEF NoReceipt, Receipts
<1>5. e \in Evaluations
  BY <1>2, <1>3, <1>4, StatesFacts DEF Idle, Evaluations
<1>6. op' = [op EXCEPT ![t] = e] BY DEF Raise
<1>7. /\ e.pc = p /\ e.key = op[t].key /\ e.claimed = op[t].claimed
      /\ e.quota = op[t].quota /\ e.repeated = op[t].repeated
  BY DEF Idle
<1> QED BY <1>5, <1>6, <1>7, OpMove

(* Sums of weights are natural numbers, the sum of more cases is no smaller,
   and that of all cases is positive. *)
LEMMA Sums ==
    /\ \A s \in SUBSET Cases : Sum(s) \in Nat
    /\ \A s, t \in SUBSET Cases : s \subseteq t => Sum(s) <= Sum(t)
    /\ Sum(Cases) > 0
<1> DEFINE Points(c) == {c} \X (1..Weight[c])
           All(s) == UNION {Points(c) : c \in s}
<1>1. ASSUME NEW c \in Cases PROVE IsFiniteSet(Points(c))
  <2>1. Weight[c] \in Int BY BenchmarkAssumption
  <2>2. IsFiniteSet(1..Weight[c]) BY <2>1, FS_Interval
  <2>3. IsFiniteSet({c}) BY FS_Singleton
  <2> QED BY <2>2, <2>3, FS_Product
<1>2. ASSUME NEW s \in SUBSET Cases PROVE IsFiniteSet(All(s))
  <2>1. IsFiniteSet(s) BY FS_Subset, BenchmarkAssumption
  <2> DEFINE f == [c \in s |-> Points(c)]
             P == {Points(c) : c \in s}
  <2>2. f \in Surjection(s, P) BY DEF Surjection
  <2>3. IsFiniteSet(P) BY <2>1, <2>2, FS_Surjection
  <2>4. \A x \in P : IsFiniteSet(x) BY <1>1
  <2> QED BY <2>3, <2>4, FS_UNION
<1>3. ASSUME NEW s \in SUBSET Cases PROVE Sum(s) \in Nat
  BY <1>2, FS_CardinalityType DEF Sum
<1>4. ASSUME NEW s \in SUBSET Cases, NEW t \in SUBSET Cases, s \subseteq t
      PROVE  Sum(s) <= Sum(t)
  <2>1. All(s) \subseteq All(t) BY <1>4
  <2>2. IsFiniteSet(All(t)) BY <1>2
  <2>3. Cardinality(All(s)) <= Cardinality(All(t)) BY <2>1, <2>2, FS_Subset
  <2> QED BY <2>3 DEF Sum
<1>5. Sum(Cases) > 0
  <2>1. PICK c : c \in Cases BY BenchmarkAssumption
  <2>2. <<c, 1>> \in Points(c) BY <2>1, BenchmarkAssumption
  <2>3. All(Cases) # {} BY <2>1, <2>2
  <2>4. Sum(Cases) # 0 BY <1>2, <2>3, FS_EmptySet DEF Sum
  <2> QED BY <1>3, <2>4
<1> QED BY <1>3, <1>4, <1>5

(* Integer division is monotone, *)
LEMMA DivMonotone ==
    ASSUME NEW a \in Nat, NEW b \in Nat, a <= b, NEW d \in Nat, d > 0
    PROVE  a \div d \in Nat /\ a \div d <= b \div d
OBVIOUS

(* and so are scores: solving more is worth no less. *)
LEMMA ScoresMonotone ==
    ASSUME NEW S \in SUBSET Cases, NEW T \in SUBSET Cases, S \subseteq T
    PROVE  Ppm(Sum(S)) \in Nat /\ Ppm(Sum(S)) <= Ppm(Sum(T))
<1>1. Sum(S) \in Nat /\ Sum(T) \in Nat /\ Sum(Cases) \in Nat /\ Sum(Cases) > 0
  BY Sums
<1>2. Sum(S) <= Sum(T) BY Sums
<1> DEFINE a == Sum(S) * 1000000
           b == Sum(T) * 1000000
<1>3. a \in Nat /\ b \in Nat /\ a <= b BY <1>1, <1>2
<1> HIDE DEF a, b
<1>4. a \div Sum(Cases) \in Nat /\ a \div Sum(Cases) <= b \div Sum(Cases)
  BY <1>1, <1>3, DivMonotone
<1> QED BY <1>4 DEF Ppm, a, b

(* The end of the window that a moment is in *)
LEMMA WindowBounds ==
    ASSUME NEW n \in Nat, NEW q, q[3] = n \div Window
    PROVE  /\ n \div Window \in Nat /\ WindowEnd(q) \in Nat
           /\ n < WindowEnd(q) /\ WindowEnd(q) <= n + Window
<1>1. Window \in Nat /\ Window > 0 BY BenchmarkAssumption
<1> DEFINE k == n \div Window
<1>2. k \in Nat /\ k * Window <= n /\ n < (k + 1) * Window BY <1>1, Z3
<1>3. (k + 1) * Window = k * Window + Window BY <1>1, <1>2
<1>4. k * Window \in Nat BY <1>1, <1>2
<1> QED BY <1>1, <1>2, <1>3, <1>4 DEF WindowEnd

(* The worker's aggregate is a receipt. *)
LEMMA AggregateType ==
    ASSUME TypeOK, NEW t \in Threads, Running(t)
    PROVE  Aggregate(t) \in Receipts
<1> DEFINE w == op[t].worker
<1>1. op[t].key \in Keys /\ w \in Workers BY RunningOp DEF Evaluations
<1>2. /\ w.suite \in Suites \union {None} /\ w.image \in Images \union {None}
      /\ w.solved \in SUBSET Cases
  BY <1>1 DEF Workers
<1> HIDE DEF w
<1>3. Cardinality(w.solved) \in Nat /\ Cardinality(Cases \ w.solved) \in Nat
  BY <1>2, FS_Subset, FS_CardinalityType, BenchmarkAssumption
<1>4. Sum(w.solved) \in Nat BY <1>2, Sums
<1>5. Ppm(Sum(w.solved)) \in Nat BY <1>2, ScoresMonotone
<1> QED BY <1>1, <1>2, <1>3, <1>4, <1>5 DEF Aggregate, Receipts, w

(* A step of the client, the worker or the error path before the reservation
   is touched: only the evaluation itself moves. *)
Inner(t) ==
    \/ Refuse(t) \/ Launch(t) \/ Load(t) \/ RunCase(t) \/ Sign(t)
    \/ RunFails(t) \/ Validate(t) \/ CommitFails(t)

(* It keeps key, time and quota, and what it holds. *)
LEMMA InnerMove ==
    ASSUME TypeOK, HonestScores, NEW t \in Threads, Inner(t)
    PROVE  /\ op' \in [Threads -> {Idle} \union Evaluations]
           /\ Running(t) /\ op'[t].pc \notin {"idle", "claimed"}
           /\ op'[t].pc \in Holding <=> op[t].pc \in Holding
           /\ op'[t].key = op[t].key /\ op'[t].claimed = op[t].claimed
           /\ op'[t].quota = op[t].quota /\ op'[t].repeated = op[t].repeated
           /\ \A u \in Threads : u # t => op'[u] = op[u]
           /\ UNCHANGED <<now, up, suite, image, modules, rows, res, results,
                          leaked, faults>>
<1> USE StatesFacts
<1>0. Running(t) /\ UNCHANGED <<now, up, suite, image, modules, rows, res, results,
                                leaked, faults>>
  BY DEF Inner, Running, At, Refuse, Launch, Load, RunCase, Sign, RunFails,
         Validate, CommitFails
<1>e. op[t] \in Evaluations BY <1>0, RunningOp
<1>t. suite \in Suites /\ image \in Images /\ modules \in Modules BY DEF TypeOK
<1>w. op[t].worker \in Workers BY <1>e DEF Evaluations
<1>1. CASE Refuse(t)
  BY <1>0, <1>1, RaiseMove DEF Refuse, At
<1>2. CASE Launch(t)
  <2> DEFINE e == [op[t] EXCEPT !.pc = "launched", !.suite = suite,
                                !.image = image]
  <2>1. op' = [op EXCEPT ![t] = e]
    BY <1>2 DEF Launch, SuiteDigest, Fingerprint
  <2>2. e \in Evaluations BY <1>e, <1>t DEF Evaluations
  <2>3. /\ e.pc = "launched" /\ e.key = op[t].key /\ e.claimed = op[t].claimed
        /\ e.quota = op[t].quota /\ e.repeated = op[t].repeated
    BY <1>e DEF Evaluations
  <2> HIDE DEF e
  <2> QED BY <1>0, <1>2, <2>1, <2>2, <2>3, OpMove DEF Launch, At
<1>3. CASE Load(t)
  <2> DEFINE w == [suite |-> suite, image |-> image, todo |-> Cases,
                   solved |-> {}]
             e == [op[t] EXCEPT !.pc = "cases", !.worker = w]
  <2>1. op' = [op EXCEPT ![t] = e] BY <1>3 DEF Load, Fingerprint
  <2>2. w \in Workers BY <1>t DEF Workers
  <2> HIDE DEF w
  <2>3. e \in Evaluations BY <1>e, <2>2 DEF Evaluations
  <2>4. /\ e.pc = "cases" /\ e.key = op[t].key /\ e.claimed = op[t].claimed
        /\ e.quota = op[t].quota /\ e.repeated = op[t].repeated
    BY <1>e DEF Evaluations
  <2> HIDE DEF e
  <2> QED BY <1>0, <1>3, <2>1, <2>3, <2>4, OpMove DEF Load, At
<1>4. CASE RunCase(t)
  <2> DEFINE c == Min(op[t].worker.todo)
  <2>1. PICK solved \in SUBSET ({c} \intersect CandidateSolves(op[t].worker.suite)) :
            op' = [op EXCEPT ![t].worker.todo = @ \ {c},
                             ![t].worker.solved = @ \union solved,
                             ![t].used = @ \union {modules}]
    BY <1>4 DEF RunCase
  <2> DEFINE w == [op[t].worker EXCEPT !.todo = @ \ {c},
                                       !.solved = @ \union solved]
             e == [op[t] EXCEPT !.worker = w, !.used = @ \union {modules}]
  <2>2. op' = [op EXCEPT ![t] = e] BY <2>1, <1>e DEF Evaluations, TypeOK
  <2>3. solved \subseteq Cases
    <3>1. op[t].worker.suite \in Suites BY <1>4 DEF RunCase, At, HonestScores
    <3> QED BY <1>t, <3>1, BenchmarkAssumption DEF CandidateSolves
  <2>4. w \in Workers BY <1>w, <2>3 DEF Workers
  <2> HIDE DEF w
  <2>5. e \in Evaluations BY <1>e, <1>t, <2>4 DEF Evaluations
  <2>6. /\ e.pc = op[t].pc /\ e.key = op[t].key /\ e.claimed = op[t].claimed
        /\ e.quota = op[t].quota /\ e.repeated = op[t].repeated
    BY <1>e DEF Evaluations
  <2> HIDE DEF e
  <2> QED BY <1>0, <1>4, <2>2, <2>5, <2>6, OpMove DEF RunCase, At
<1>5. CASE Sign(t)
  <2> DEFINE a == Aggregate(t)
             e == [op[t] EXCEPT !.pc = "answered", !.worker = NoWorker,
                                !.receipt = a]
  <2>1. op' = [op EXCEPT ![t] = e] BY <1>5 DEF Sign
  <2>2. a \in Receipts BY <1>0, AggregateType
  <2>3. NoWorker \in Workers BY DEF NoWorker, Workers
  <2> HIDE DEF a
  <2>4. e \in Evaluations BY <1>e, <2>2, <2>3 DEF Evaluations
  <2>5. /\ e.pc = "answered" /\ e.key = op[t].key /\ e.claimed = op[t].claimed
        /\ e.quota = op[t].quota /\ e.repeated = op[t].repeated
    BY <1>e DEF Evaluations
  <2> HIDE DEF e
  <2> QED BY <1>0, <1>5, <2>1, <2>4, <2>5, OpMove DEF Sign, At
<1>6. CASE RunFails(t)
  BY <1>0, <1>6, RaiseMove DEF RunFails
<1>7. CASE Validate(t)
  <2>1. CASE Valid(t)
    <3> DEFINE e == [op[t] EXCEPT !.pc = "commit"]
    <3>1. op' = [op EXCEPT ![t] = e] BY <1>7, <2>1 DEF Validate, Goto
    <3>2. e \in Evaluations BY <1>e DEF Evaluations
    <3>3. /\ e.pc = "commit" /\ e.key = op[t].key /\ e.claimed = op[t].claimed
          /\ e.quota = op[t].quota /\ e.repeated = op[t].repeated
      BY <1>e DEF Evaluations
    <3> HIDE DEF e
    <3> QED BY <1>0, <1>7, <3>1, <3>2, <3>3, OpMove DEF Validate, At
  <2>2. CASE ~Valid(t)
    BY <1>0, <1>7, <2>2, RaiseMove DEF Validate, At
  <2> QED BY <2>1, <2>2
<1>8. CASE CommitFails(t)
  BY <1>0, <1>8, RaiseMove DEF CommitFails, At
<1> QED BY <1>1, <1>2, <1>3, <1>4, <1>5, <1>6, <1>7, <1>8 DEF Inner

(* Such a step keeps the tables, and the evaluation its place in them. *)
LEMMA InnerStep ==
    ASSUME BenchmarkInv, NEW t \in Threads, Inner(t)
    PROVE  /\ TypeOK' /\ KeysOwned' /\ WindowsApart' /\ Reserved'
           /\ WithinLimit' /\ ResultsPaid'
<1>0. /\ TypeOK /\ KeysOwned /\ WindowsApart /\ Reserved /\ WithinLimit
      /\ ResultsPaid /\ SuiteCharged /\ HonestScores
  BY DEF BenchmarkInv
<1>1. /\ op' \in [Threads -> {Idle} \union Evaluations]
      /\ Running(t) /\ op'[t].pc \notin {"idle", "claimed"}
      /\ op'[t].pc \in Holding <=> op[t].pc \in Holding
      /\ op'[t].key = op[t].key /\ op'[t].claimed = op[t].claimed
      /\ op'[t].quota = op[t].quota /\ op'[t].repeated = op[t].repeated
      /\ \A u \in Threads : u # t => op'[u] = op[u]
      /\ UNCHANGED <<now, up, suite, image, modules, rows, res, results,
                     leaked, faults>>
  BY <1>0, InnerMove
<1>2. TypeOK' BY <1>0, <1>1 DEF TypeOK
<1>3. KeysOwned' BY <1>0, <1>1 DEF KeysOwned, Running
<1>4. WindowsApart' BY <1>0, <1>1 DEF WindowsApart, WindowEnd
<1>5. Reserved' BY <1>0, <1>1 DEF Reserved
<1>6. WithinLimit' BY <1>0, <1>1 DEF WithinLimit, Active
<1>7. ResultsPaid' BY <1>0, <1>1 DEF ResultsPaid
<1> QED BY <1>2, <1>3, <1>4, <1>5, <1>6, <1>7

(* The worker's answer is honest. *)
LEMMA HonestInner ==
    ASSUME BenchmarkInv, NEW t \in Threads, Inner(t)
    PROVE  HonestScores'
<1>0. TypeOK /\ HonestScores BY DEF BenchmarkInv
<1>1. /\ \A u \in Threads : u # t => op'[u] = op[u]
      /\ UNCHANGED <<image, results, leaked, faults>>
  BY <1>0, InnerMove
<1>2. ASSUME op'[t].pc = "cases" =>
               /\ op'[t].worker.suite \in Suites /\ op'[t].worker.image \in Images
               /\ op'[t].worker.image = image =>
                    op'[t].worker.solved \subseteq
                      Solvable(image, op'[t].used, op'[t].worker.suite)
               /\ op'[t].worker.image # image => op'[t].worker.image \in faults,
             op'[t].pc \in {"answered", "commit"} =>
               /\ op'[t].receipt.suite \in Suites
               /\ op'[t].receipt.image \in Images
               /\ op'[t].receipt.ppm <= Reach(op'[t].receipt.image, op'[t].used,
                                              op'[t].receipt.suite)
      PROVE  HonestScores'
  BY <1>0, <1>1, <1>2 DEF HonestScores, ScoreEarned
<1>e. Running(t) /\ op[t] \in Evaluations BY <1>0, InnerMove, RunningOp
<1>3. CASE op'[t].pc \in {"failing", "releasing", "launched"} BY <1>2, <1>3
<1>4. CASE Refuse(t) \/ RunFails(t) \/ CommitFails(t)
  BY <1>0, <1>e, <1>3, <1>4, RaiseMove DEF Refuse, RunFails, CommitFails
<1>5. CASE Launch(t)
  BY <1>0, <1>3, <1>5 DEF Launch, TypeOK
<1>6. CASE Load(t)
  <2>1. /\ op'[t].pc = "cases" /\ op'[t].worker.suite = suite
        /\ op'[t].worker.image = image /\ op'[t].worker.solved = {}
    BY <1>0, <1>6 DEF Load, Fingerprint, TypeOK
  <2> QED BY <1>0, <1>2, <2>1 DEF TypeOK
<1>7. CASE RunCase(t)
  <2> DEFINE w == op[t].worker
             c == Min(w.todo)
  <2>0. op[t].pc = "cases" BY <1>7 DEF RunCase, At
  <2>1. PICK solved \in SUBSET ({c} \intersect CandidateSolves(w.suite)) :
            op' = [op EXCEPT ![t].worker.todo = @ \ {c},
                             ![t].worker.solved = @ \union solved,
                             ![t].used = @ \union {modules}]
    BY <1>7 DEF RunCase
  <2>2. /\ op'[t].pc = "cases" /\ op'[t].worker.suite = w.suite
        /\ op'[t].worker.image = w.image
        /\ op'[t].worker.solved = w.solved \union solved
        /\ op'[t].used = op[t].used \union {modules}
    BY <1>0, <1>e, <2>0, <2>1 DEF TypeOK, Evaluations, Workers
  <2>3. /\ w.suite \in Suites /\ w.image \in Images
        /\ w.image = image =>
             w.solved \subseteq Solvable(image, op[t].used, w.suite)
        /\ w.image # image => w.image \in faults
    BY <1>0, <2>0 DEF HonestScores
  <2>4. solved \subseteq Passes[image][modules][w.suite] BY DEF CandidateSolves
  <2> HIDE DEF w, c
  <2>5. solved \subseteq Solvable(image, op[t].used \union {modules}, w.suite)
    BY <2>4 DEF Solvable
  <2>6. Solvable(image, op[t].used, w.suite)
          \subseteq Solvable(image, op[t].used \union {modules}, w.suite)
    BY DEF Solvable
  <2> QED BY <1>2, <2>2, <2>3, <2>5, <2>6
<1>8. CASE Sign(t)
  <2> DEFINE w == op[t].worker
             a == Aggregate(t)
  <2>1. op'[t].pc = "answered" /\ op'[t].receipt = a /\ op'[t].used = op[t].used
    BY <1>0, <1>e, <1>8 DEF Sign, TypeOK, Evaluations
  <2>2. a.suite = w.suite /\ a.image = w.image /\ a.ppm = Ppm(Sum(w.solved))
    BY DEF Aggregate
  <2>3. /\ w.suite \in Suites /\ w.image \in Images
        /\ w.solved \subseteq Solvable(w.image, op[t].used, w.suite)
    BY <1>0, <1>8 DEF Sign, At, Fingerprint, HonestScores
  <2> HIDE DEF w, a
  <2>4. op[t].used \subseteq Modules BY <1>e DEF Evaluations
  <2>5. Solvable(w.image, op[t].used, w.suite) \subseteq Cases
    BY <2>3, <2>4, BenchmarkAssumption DEF Solvable
  <2>6. Ppm(Sum(w.solved)) <= Reach(w.image, op[t].used, w.suite)
    BY <2>3, <2>5, ScoresMonotone DEF Reach
  <2> QED BY <1>2, <2>1, <2>2, <2>3, <2>6
<1>9. CASE Validate(t)
  <2>1. CASE Valid(t)
    <3>1. op[t].pc = "answered" /\ op'[t].receipt = op[t].receipt
          /\ op'[t].pc = "commit" /\ op'[t].used = op[t].used
      BY <1>0, <1>e, <1>9, <2>1 DEF Validate, Goto, At, TypeOK, Evaluations
    <3> QED BY <1>0, <1>2, <3>1 DEF HonestScores
  <2>2. CASE ~Valid(t)
    BY <1>0, <1>e, <1>3, <1>9, <2>2, RaiseMove DEF Validate
  <2> QED BY <2>1, <2>2
<1> QED BY <1>4, <1>5, <1>6, <1>7, <1>8, <1>9 DEF Inner

(* The worker runs the suite of the moment it loads it, and its receipt is of
   the suite it ran. *)
LEMMA SuiteInner ==
    ASSUME BenchmarkInv, NEW t \in Threads, Inner(t)
    PROVE  SuiteCharged'
<1>0. TypeOK /\ SuiteCharged /\ HonestScores BY DEF BenchmarkInv
<1>1. /\ \A u \in Threads : u # t => op'[u] = op[u]
      /\ op'[t].quota = op[t].quota
      /\ UNCHANGED <<suite, results>>
  BY <1>0, InnerMove
<1> DEFINE Good(e) ==
      ~e.swapped =>
         /\ e.pc \in {"charged", "launched"} => suite = e.quota[2]
         /\ e.pc = "cases" => e.worker.suite = e.quota[2]
         /\ e.pc \in {"answered", "commit"} => e.receipt.suite = e.quota[2]
<1>2. Good(op[t]) BY <1>0 DEF SuiteCharged
<1>3. ASSUME Good(op'[t]) PROVE SuiteCharged'
  BY <1>0, <1>1, <1>3 DEF SuiteCharged
<1>e. Running(t) /\ op[t] \in Evaluations BY <1>0, InnerMove, RunningOp
<1>w. op[t].worker \in Workers BY <1>e DEF Evaluations
<1>4. CASE op'[t].pc \in {"failing", "releasing"} BY <1>3, <1>4
<1>5. CASE Refuse(t) \/ RunFails(t) \/ CommitFails(t)
  BY <1>0, <1>e, <1>4, <1>5, RaiseMove DEF Refuse, RunFails, CommitFails
<1>6. CASE Launch(t)
  <2>1. /\ op[t].pc = "charged" /\ op'[t].pc = "launched"
        /\ op'[t].swapped = op[t].swapped
    BY <1>0, <1>e, <1>6 DEF Launch, At, TypeOK, Evaluations
  <2> QED BY <1>1, <1>2, <1>3, <2>1
<1>7. CASE Load(t)
  <2>1. /\ op[t].pc = "launched" /\ op'[t].pc = "cases"
        /\ op'[t].worker.suite = suite /\ op'[t].swapped = op[t].swapped
    BY <1>0, <1>e, <1>7 DEF Load, At, TypeOK, Evaluations
  <2> QED BY <1>1, <1>2, <1>3, <2>1
<1>8. CASE RunCase(t)
  <2>1. /\ op[t].pc = "cases" /\ op'[t].pc = "cases"
        /\ op'[t].worker.suite = op[t].worker.suite
        /\ op'[t].swapped = op[t].swapped
    BY <1>0, <1>e, <1>w, <1>8 DEF RunCase, At, TypeOK, Evaluations, Workers
  <2> QED BY <1>1, <1>2, <1>3, <2>1
<1>9. CASE Sign(t)
  <2>1. /\ op[t].pc = "cases" /\ op'[t].pc = "answered"
        /\ op'[t].receipt = Aggregate(t) /\ op'[t].swapped = op[t].swapped
    BY <1>0, <1>e, <1>9 DEF Sign, At, TypeOK, Evaluations
  <2>2. Aggregate(t).suite = op[t].worker.suite BY DEF Aggregate
  <2> QED BY <1>1, <1>2, <1>3, <2>1, <2>2
<1>10. CASE Validate(t)
  <2>1. CASE Valid(t)
    <3>1. /\ op[t].pc = "answered" /\ op'[t].receipt = op[t].receipt
          /\ op'[t].pc = "commit" /\ op'[t].swapped = op[t].swapped
      BY <1>0, <1>e, <1>10, <2>1 DEF Validate, Goto, At, TypeOK, Evaluations
    <3> QED BY <1>1, <1>2, <1>3, <3>1
  <2>2. CASE ~Valid(t)
    BY <1>0, <1>e, <1>4, <1>10, <2>2, RaiseMove DEF Validate
  <2> QED BY <2>1, <2>2
<1> QED BY <1>5, <1>6, <1>7, <1>8, <1>9, <1>10 DEF Inner

(* A reservation is that of a quota and a key. *)
LEMMA ReservationShape ==
    ASSUME TypeOK, NEW r \in DOMAIN res
    PROVE  /\ r[1] \in Quotas /\ r[2] \in Keys /\ r = <<r[1], r[2]>>
           /\ WindowEnd(r[1]) \in Nat
<1>1. r[1] \in Quotas /\ r[2] \in Keys /\ r = <<r[1], r[2]>> BY DEF TypeOK
<1>2. r[1][3] \in Nat BY <1>1 DEF Quotas
<1>3. Window \in Nat BY BenchmarkAssumption
<1> QED BY <1>1, <1>2, <1>3 DEF WindowEnd

(* Expired keys go, those of evaluations under way stay, and if windows are
   narrow a reservation under a key that goes is of a window that is over. *)
LEMMA PruneFacts ==
    ASSUME TypeOK, KeysOwned, WindowsApart
    PROVE  /\ Pruned \in [Keys -> {NoRow} \union
                   [status : {"IN_PROGRESS", "COMPLETED", "FAILED"},
                    expires : Nat \union {None}]]
           /\ \A t \in Threads : Running(t) =>
                /\ Pruned[op[t].key] = rows[op[t].key]
                /\ Pruned[op[t].key] # NoRow
           /\ Narrow => \A r \in DOMAIN res :
                \/ WindowEnd(r[1]) <= now
                \/ /\ Pruned[r[2]].status # "NONE"
                   /\ \/ Pruned[r[2]].expires = None
                      \/ WindowEnd(r[1]) <= Pruned[r[2]].expires + 1
<1>1. Pruned \in [Keys -> {NoRow} \union
                   [status : {"IN_PROGRESS", "COMPLETED", "FAILED"},
                    expires : Nat \union {None}]]
  BY DEF Pruned, TypeOK
<1>2. ASSUME NEW t \in Threads, Running(t)
      PROVE  /\ Pruned[op[t].key] = rows[op[t].key]
             /\ Pruned[op[t].key] # NoRow
  <2>1. op[t].key \in Keys /\ op[t].claimed \in Nat
    BY <1>2, RunningOp DEF Evaluations
  <2>2. /\ now <= op[t].claimed + OpTime
        /\ rows[op[t].key].expires = op[t].claimed + Retention
        /\ rows[op[t].key].status = "IN_PROGRESS"
    <3>1. /\ now <= op[t].claimed + OpTime
          /\ rows[op[t].key] = [status |-> "IN_PROGRESS",
                                expires |-> op[t].claimed + Retention]
      BY <1>2, Zenon DEF KeysOwned
    <3> QED BY <3>1
  <2>3. ~(rows[op[t].key].expires < now)
    BY <2>1, <2>2, BenchmarkAssumption DEF TypeOK
  <2>4. Pruned[op[t].key] = rows[op[t].key] BY <2>1, <2>3 DEF Pruned
  <2> QED BY <2>2, <2>4 DEF NoRow
<1>3. ASSUME Narrow, NEW r \in DOMAIN res
      PROVE  \/ WindowEnd(r[1]) <= now
             \/ /\ Pruned[r[2]].status # "NONE"
                /\ \/ Pruned[r[2]].expires = None
                   \/ WindowEnd(r[1]) <= Pruned[r[2]].expires + 1
  <2> DEFINE k == r[2]
  <2>1. k \in Keys /\ WindowEnd(r[1]) \in Nat BY ReservationShape
  <2>2. \/ WindowEnd(r[1]) <= now
        \/ /\ rows[k].status # "NONE"
           /\ \/ rows[k].expires = None
              \/ WindowEnd(r[1]) <= rows[k].expires + 1
    BY <1>3 DEF WindowsApart
  <2>3. CASE rows[k].expires # None /\ rows[k].expires < now
    <3>1. rows[k].expires \in Nat /\ now \in Nat
      BY <2>1, <2>3 DEF TypeOK, NoRow
    <3> QED BY <2>1, <2>2, <2>3, <3>1
  <2>4. CASE ~(rows[k].expires # None /\ rows[k].expires < now)
    <3>1. Pruned[k] = rows[k] BY <2>1, <2>4 DEF Pruned
    <3> QED BY <2>2, <3>1
  <2> QED BY <2>3, <2>4
<1> QED BY <1>1, <1>2, <1>3

(* A key is claimed by one evaluation. *)
LEMMA ClaimStep ==
    ASSUME BenchmarkInv, NEW t \in Threads, NEW k \in Keys,
           NEW ch \in Challengers, Claim(t, k, ch)
    PROVE  BenchmarkInv'
<1>0. /\ TypeOK /\ KeysOwned /\ WindowsApart /\ Reserved /\ WithinLimit
      /\ ResultsPaid /\ SuiteCharged /\ HonestScores
  BY DEF BenchmarkInv
<1> DEFINE e == [Idle EXCEPT !.pc = "claimed", !.key = k, !.challenger = ch,
                             !.claimed = now]
           row == [status |-> "IN_PROGRESS", expires |-> now + Retention]
<1>1. /\ up /\ ~Running(t) /\ Pruned[k] = NoRow
      /\ rows' = [Pruned EXCEPT ![k] = row]
      /\ op' = [op EXCEPT ![t] = e]
      /\ UNCHANGED <<now, up, suite, image, modules, res, results,
                     leaked, faults>>
  BY DEF Claim, At, Running
<1>2. now \in Nat BY <1>0 DEF TypeOK
<1>3. e \in Evaluations
  <2>1. NoWorker \in Workers BY DEF NoWorker, Workers
  <2>2. NoReceipt \in Receipts BY DEF NoReceipt, Receipts
  <2> QED BY <1>2, <2>1, <2>2 DEF Idle, Evaluations
<1>4. e.pc = "claimed" /\ e.key = k /\ e.claimed = now /\ ~e.repeated BY DEF Idle
<1> HIDE DEF e
<1>5. /\ op' \in [Threads -> {Idle} \union Evaluations]
      /\ op'[t].pc = "claimed" /\ op'[t].key = k /\ op'[t].claimed = now
      /\ ~op'[t].repeated
      /\ \A u \in Threads : u # t => op'[u] = op[u]
  BY <1>0, <1>1, <1>3, <1>4, OpMove
<1>6. /\ rows' \in [Keys -> {NoRow} \union
                   [status : {"IN_PROGRESS", "COMPLETED", "FAILED"},
                    expires : Nat \union {None}]]
      /\ rows'[k] = row /\ \A j \in Keys : j # k => rows'[j] = Pruned[j]
  <2>1. row \in [status : {"IN_PROGRESS", "COMPLETED", "FAILED"},
                 expires : Nat \union {None}]
    BY <1>2, BenchmarkAssumption
  <2> HIDE DEF row
  <2> QED BY <1>0, <1>1, <2>1, PruneFacts
<1>7. TypeOK' BY <1>0, <1>1, <1>5, <1>6 DEF TypeOK
<1>8. \A u \in Threads : Running(u) =>
         op[u].key \in Keys /\ op[u].key # k /\ u # t
         /\ rows'[op[u].key] = rows[op[u].key]
  <2> TAKE u \in Threads
  <2> HAVE Running(u)
  <2>1. op[u].key \in Keys BY <1>0, RunningOp DEF Evaluations
  <2> QED BY <1>0, <1>1, <1>6, <2>1, PruneFacts
<1>9. KeysOwned'
  <2>1. ASSUME NEW u \in Threads, Running(u)'
        PROVE  /\ up'
               /\ op'[u].claimed <= now' /\ now' <= op'[u].claimed + OpTime
               /\ rows'[op'[u].key] = [status |-> "IN_PROGRESS",
                                       expires |-> op'[u].claimed + Retention]
               /\ \A v \in Threads : Running(v)' /\ op'[v].key = op'[u].key
                                       => v = u
    <3>1. CASE u = t
      BY <1>1, <1>2, <1>5, <1>6, <1>8, <3>1, BenchmarkAssumption DEF Running
    <3>2. CASE u # t
      BY <1>0, <1>1, <1>5, <1>8, <2>1, <3>2 DEF KeysOwned, Running
    <3> QED BY <3>1, <3>2
  <2> QED BY <2>1 DEF KeysOwned
<1>10. Narrow => \A r \in DOMAIN res :
         /\ r[2] \in Keys
         /\ r[2] = k => WindowEnd(r[1]) <= now
         /\ \/ WindowEnd(r[1]) <= now
            \/ /\ Pruned[r[2]].status # "NONE"
               /\ \/ Pruned[r[2]].expires = None
                  \/ WindowEnd(r[1]) <= Pruned[r[2]].expires + 1
  BY <1>0, <1>1, PruneFacts, ReservationShape DEF NoRow
<1>11. WindowsApart'
  BY <1>0, <1>1, <1>5, <1>6, <1>10 DEF WindowsApart, WindowEnd
<1>12. Reserved'
  BY <1>0, <1>1, <1>5, StatesFacts DEF Reserved, Running
<1>13. WithinLimit' BY <1>0, <1>1 DEF WithinLimit, Active
<1>14. ResultsPaid' BY <1>0, <1>1 DEF ResultsPaid
<1>15. HonestScores'
  BY <1>0, <1>1, <1>5 DEF HonestScores, ScoreEarned
<1>16. SuiteCharged' BY <1>0, <1>1, <1>5 DEF SuiteCharged
<1> QED
  BY <1>7, <1>9, <1>11, <1>12, <1>13, <1>14, <1>15, <1>16 DEF BenchmarkInv

(* A repeated request only deletes what has expired. *)
LEMMA RepeatStep ==
    ASSUME BenchmarkInv, NEW t \in Threads, NEW k \in Keys, Repeat(t, k)
    PROVE  BenchmarkInv'
<1>0. /\ TypeOK /\ KeysOwned /\ WindowsApart /\ Reserved /\ WithinLimit
      /\ ResultsPaid /\ SuiteCharged /\ HonestScores
  BY DEF BenchmarkInv
<1>1. /\ rows' = Pruned
      /\ UNCHANGED <<now, up, suite, image, modules, res, op, results,
                     leaked, faults>>
  BY DEF Repeat
<1>2. TypeOK' BY <1>0, <1>1, PruneFacts DEF TypeOK
<1>3. KeysOwned' BY <1>0, <1>1, PruneFacts DEF KeysOwned, Running
<1>4. WindowsApart' BY <1>0, <1>1, PruneFacts DEF WindowsApart, WindowEnd
<1>5. Reserved' BY <1>0, <1>1 DEF Reserved
<1>6. WithinLimit' BY <1>0, <1>1 DEF WithinLimit, Active
<1>7. ResultsPaid' BY <1>0, <1>1 DEF ResultsPaid
<1>8. HonestScores' BY <1>0, <1>1 DEF HonestScores, ScoreEarned
<1>9. SuiteCharged' BY <1>0, <1>1 DEF SuiteCharged
<1> QED BY <1>2, <1>3, <1>4, <1>5, <1>6, <1>7, <1>8, <1>9 DEF BenchmarkInv

(* The attempts of a quota are a finite set, and Attempts counts them. *)
LEMMA AttemptsCount ==
    ASSUME TypeOK, NEW q
    PROVE  /\ IsFiniteSet(Active(q)) /\ Cardinality(Active(q)) \in Nat
           /\ Attempts(q) = Cardinality(Active(q))
<1>1. IsFiniteSet(DOMAIN res) BY DEF TypeOK
<1>2. /\ IsFiniteSet(Active(q)) /\ IsFiniteSet(Held(q, "RESERVED"))
      /\ IsFiniteSet(Held(q, "CONSUMED"))
  BY <1>1, FS_Subset DEF Active, Held
<1>3. Active(q) = Held(q, "RESERVED") \union Held(q, "CONSUMED")
  BY DEF Active, Held, TypeOK
<1>4. Held(q, "RESERVED") \intersect Held(q, "CONSUMED") = {} BY DEF Held
<1>5. Cardinality(Held(q, "RESERVED") \intersect Held(q, "CONSUMED")) = 0
  BY <1>4, FS_EmptySet
<1>6. Cardinality(Active(q)) = Cardinality(Held(q, "RESERVED"))
        + Cardinality(Held(q, "CONSUMED"))
        - Cardinality(Held(q, "RESERVED") \intersect Held(q, "CONSUMED"))
  BY <1>2, <1>3, FS_Union
<1>7. /\ Cardinality(Held(q, "RESERVED")) \in Nat
      /\ Cardinality(Held(q, "CONSUMED")) \in Nat
      /\ Cardinality(Active(q)) \in Nat
  BY <1>2, FS_CardinalityType
<1> QED BY <1>2, <1>5, <1>6, <1>7 DEF Attempts

(* The evaluation that is charged *)
LEMMA ChargeMove ==
    ASSUME BenchmarkInv, NEW t \in Threads, Charge(t), NEW q, q = Quota(t)
    PROVE  /\ up /\ op[t].pc = "claimed" /\ Running(t)
           /\ UNCHANGED <<now, up, suite, image, modules, rows, results, leaked,
                          faults>>
           /\ op' \in [Threads -> {Idle} \union Evaluations]
           /\ op'[t].pc = "charged" /\ op'[t].key = op[t].key /\ op'[t].quota = q
           /\ op'[t].claimed = op[t].claimed
           /\ op'[t].repeated <=> res'[<<q, op[t].key>>] # "RESERVED"
           /\ \A u \in Threads : u # t => op'[u] = op[u]
           /\ op[t].key \in Keys /\ op[t].claimed \in Nat /\ now \in Nat
           /\ q \in Quotas /\ q[2] = suite /\ WindowEnd(q) \in Nat
           /\ now < WindowEnd(q) /\ WindowEnd(q) <= now + Window
<1>0. TypeOK BY DEF BenchmarkInv
<1>1. /\ up /\ op[t].pc = "claimed" /\ Running(t)
      /\ UNCHANGED <<now, up, suite, image, modules, rows, results, leaked,
                     faults>>
  BY DEF Charge, At, Running
<1>e. op[t] \in Evaluations BY <1>0, <1>1, RunningOp
<1>2. /\ op[t].key \in Keys /\ op[t].challenger \in Challengers
      /\ op[t].claimed \in Nat /\ now \in Nat /\ suite \in Suites
  BY <1>0, <1>e DEF Evaluations, TypeOK
<1>3. q[3] = now \div Window /\ q[2] = suite BY DEF Quota, SuiteDigest
<1>4. /\ now \div Window \in Nat /\ WindowEnd(q) \in Nat
      /\ now < WindowEnd(q) /\ WindowEnd(q) <= now + Window
  BY <1>2, <1>3, WindowBounds
<1>5. q \in Quotas BY <1>2, <1>4 DEF Quota, SuiteDigest, Quotas
<1>b. PICK b \in BOOLEAN : b <=> res'[<<q, op[t].key>>] # "RESERVED" OBVIOUS
<1> DEFINE e == [op[t] EXCEPT !.pc = "charged", !.quota = q, !.repeated = b]
<1>6. op' = [op EXCEPT ![t] = e]
  <2>1. b = (res'[<<q, op[t].key>>] # "RESERVED") BY <1>b, Zenon
  <2> QED BY <2>1, Zenon DEF Charge, Reservation
<1>7. e \in Evaluations BY <1>e, <1>5, StatesFacts DEF Evaluations
<1>8. /\ e.pc = "charged" /\ e.key = op[t].key /\ e.quota = q
      /\ e.claimed = op[t].claimed /\ e.repeated = b
  BY <1>e DEF Evaluations
<1> HIDE DEF e
<1>9. /\ op' \in [Threads -> {Idle} \union Evaluations] /\ op'[t] = e
      /\ \A u \in Threads : u # t => op'[u] = op[u]
  BY <1>0, <1>6, <1>7, OpMove
<1>10. op'[t].repeated = b BY <1>8, <1>9
<1>11. op'[t].repeated <=> res'[<<q, op[t].key>>] # "RESERVED" BY <1>b, <1>10, Zenon
<1> QED BY <1>1, <1>2, <1>3, <1>4, <1>5, <1>8, <1>9, <1>11

(* A new attempt is charged only below the limit.  In a narrow window its
   reservation is new: an earlier evaluation under this key was charged to an
   earlier window. *)
LEMMA ChargeNew ==
    ASSUME BenchmarkInv, NEW t \in Threads, Charge(t),
           <<Quota(t), op[t].key>> \notin DOMAIN res
    PROVE  BenchmarkInv'
<1>0. /\ TypeOK /\ KeysOwned /\ WindowsApart /\ Reserved /\ WithinLimit
      /\ ResultsPaid /\ SuiteCharged /\ HonestScores
  BY DEF BenchmarkInv
<1>q. PICK q : q = Quota(t) OBVIOUS
<1> DEFINE k == op[t].key
           r == <<q, k>>
<1>1. /\ up /\ op[t].pc = "claimed" /\ Running(t)
      /\ UNCHANGED <<now, up, suite, image, modules, rows, results, leaked,
                     faults>>
      /\ k \in Keys /\ op[t].claimed \in Nat /\ now \in Nat
  BY <1>q, ChargeMove
<1>4. /\ WindowEnd(q) \in Nat /\ q \in Quotas /\ q[2] = suite
      /\ now < WindowEnd(q) /\ WindowEnd(q) <= now + Window
  BY <1>q, ChargeMove
<1>6. r \notin DOMAIN res BY <1>q
<1>7. /\ Attempts(q) < Limit
      /\ res' = [x \in DOMAIN res \union {r} |->
                    IF x = r THEN "RESERVED" ELSE res[x]]
  BY <1>q, <1>6 DEF Charge, Reservation
<1>9. /\ DOMAIN res' = DOMAIN res \union {r} /\ res'[r] = "RESERVED"
      /\ \A x \in DOMAIN res : res'[x] = res[x]
  BY <1>6, <1>7
<1>8. /\ op' \in [Threads -> {Idle} \union Evaluations]
      /\ op'[t].pc = "charged" /\ op'[t].key = k /\ op'[t].quota = q
      /\ op'[t].claimed = op[t].claimed /\ ~op'[t].repeated
      /\ \A u \in Threads : u # t => op'[u] = op[u]
  BY <1>q, <1>9, ChargeMove
<1>10. r[1] = q /\ r[2] = k OBVIOUS
<1>11. TypeOK'
  <2>1. IsFiniteSet(DOMAIN res') BY <1>0, <1>9, FS_AddElement DEF TypeOK
  <2>2. DOMAIN res' \subseteq Quotas \X Keys
    BY <1>0, <1>1, <1>4, <1>9 DEF TypeOK
  <2>3. \A x \in DOMAIN res' : res'[x] \in {"RESERVED", "CONSUMED", "RELEASED"}
    BY <1>0, <1>9 DEF TypeOK
  <2> QED BY <1>0, <1>1, <1>8, <2>1, <2>2, <2>3 DEF TypeOK
<1>12. KeysOwned' BY <1>0, <1>1, <1>8 DEF KeysOwned, Running
<1>13. /\ rows[k].status = "IN_PROGRESS"
       /\ Narrow => WindowEnd(q) <= rows[k].expires + 1
  <2>1. /\ now <= op[t].claimed + OpTime
        /\ rows[k] = [status |-> "IN_PROGRESS",
                      expires |-> op[t].claimed + Retention]
    BY <1>0, <1>1, Zenon DEF KeysOwned
  <2>2. rows[k].status = "IN_PROGRESS" /\ rows[k].expires = op[t].claimed + Retention
    BY <2>1
  <2> QED BY <1>1, <1>4, <2>1, <2>2, BenchmarkAssumption DEF Narrow
<1> HIDE DEF r, k
<1>14. WindowsApart'
  <2> SUFFICES ASSUME Narrow PROVE WindowsApart' BY DEF WindowsApart
  <2>1. \A u \in Threads : op'[u].pc = "claimed" => u # t /\ op[u].key # k
    BY <1>0, <1>1, <1>8 DEF KeysOwned, Running, k
  <2>2. ASSUME NEW x \in DOMAIN res'
        PROVE  \/ WindowEnd(x[1]) <= now
               \/ /\ rows[x[2]].status # "NONE"
                  /\ \/ rows[x[2]].expires = None
                     \/ WindowEnd(x[1]) <= rows[x[2]].expires + 1
    <3>1. CASE x = r BY <1>10, <1>13, <3>1
    <3>2. CASE x # r BY <1>0, <1>9, <3>2 DEF WindowsApart
    <3> QED BY <3>1, <3>2
  <2>3. ASSUME NEW u \in Threads, op'[u].pc = "claimed", NEW x \in DOMAIN res',
               x[2] = op'[u].key
        PROVE  WindowEnd(x[1]) <= now
    <3>1. u # t /\ op[u].key # k /\ op'[u] = op[u] BY <1>8, <2>1, <2>3
    <3>2. x # r BY <1>10, <2>3, <3>1
    <3> QED BY <1>0, <1>9, <2>3, <3>1, <3>2 DEF WindowsApart
  <2>4. \A u \in Threads : ~op'[u].repeated
    <3>1. \A u \in Threads : ~op[u].repeated BY <1>0 DEF WindowsApart
    <3> QED BY <1>8, <3>1
  <2>5. \A x \in results' : ~x.repeated BY <1>0, <1>1 DEF WindowsApart
  <2> QED BY <1>1, <2>2, <2>3, <2>4, <2>5 DEF WindowsApart, WindowEnd
<1>15. Reserved'
  <2>1. ASSUME NEW u \in Threads, op'[u].pc \in Holding
        PROVE  /\ op'[u].quota \in Quotas
               /\ <<op'[u].quota, op'[u].key>> \in DOMAIN res'
               /\ op'[u].repeated <=>
                    res'[<<op'[u].quota, op'[u].key>>] # "RESERVED"
    <3>1. CASE u = t BY <1>4, <1>8, <1>9, <3>1 DEF r
    <3>2. CASE u # t BY <1>0, <1>8, <1>9, <2>1, <3>2 DEF Reserved
    <3> QED BY <3>1, <3>2
  <2>2. ASSUME NEW x \in DOMAIN res' \ leaked, res'[x] = "RESERVED"
        PROVE  \E u \in Threads : /\ op'[u].pc \in Holding
                                  /\ op'[u].quota = x[1] /\ op'[u].key = x[2]
    <3>1. CASE x = r BY <1>8, <1>10, <3>1, StatesFacts
    <3>2. CASE x # r
      <4>1. x \in DOMAIN res \ leaked /\ res[x] = "RESERVED" BY <1>9, <2>2, <3>2
      <4>2. PICK u \in Threads : /\ op[u].pc \in Holding
                                 /\ op[u].quota = x[1] /\ op[u].key = x[2]
        BY <1>0, <1>1, <4>1 DEF Reserved
      <4>3. u # t BY <1>1, <4>2, StatesFacts
      <4> QED BY <1>8, <4>2, <4>3
    <3> QED BY <3>1, <3>2
  <2> QED BY <1>1, <2>1, <2>2 DEF Reserved
<1>16. WithinLimit'
  <2>1. ASSUME NEW x \in DOMAIN res' PROVE Cardinality(Active(x[1])') <= Limit
    <3>1. CASE x[1] = q
      <4>1. Active(q)' = Active(q) \union {r} BY <1>9, <1>10 DEF Active
      <4>2. r \notin Active(q) BY <1>6 DEF Active
      <4>3. /\ IsFiniteSet(Active(q)) /\ Cardinality(Active(q)) \in Nat
            /\ Attempts(q) = Cardinality(Active(q))
        BY <1>0, AttemptsCount
      <4>4. Cardinality(Active(q)') = Cardinality(Active(q)) + 1
        BY <4>1, <4>2, <4>3, FS_AddElement
      <4>5. Active(x[1])' = Active(q)' BY <3>1 DEF Active
      <4> QED BY <1>7, <4>3, <4>4, <4>5, BenchmarkAssumption
    <3>2. CASE x[1] # q
      <4>1. x \in DOMAIN res BY <1>9, <1>10, <3>2
      <4>2. Active(x[1])' = Active(x[1]) BY <1>9, <1>10, <3>2 DEF Active
      <4> QED BY <1>0, <4>1, <4>2 DEF WithinLimit
    <3> QED BY <3>1, <3>2
  <2> QED BY <2>1 DEF WithinLimit, Active
<1>17. ResultsPaid'
  BY <1>0, <1>1, <1>9 DEF ResultsPaid
<1>18. HonestScores'
  BY <1>0, <1>1, <1>8 DEF HonestScores, ScoreEarned
<1>19. SuiteCharged' BY <1>0, <1>1, <1>4, <1>8 DEF SuiteCharged
<1> QED
  BY <1>11, <1>12, <1>14, <1>15, <1>16, <1>17, <1>18, <1>19 DEF BenchmarkInv

(* A key that was used before in the same, wide window: the reservation is left
   as it is. *)
LEMMA ChargeAgain ==
    ASSUME BenchmarkInv, NEW t \in Threads, Charge(t),
           <<Quota(t), op[t].key>> \in DOMAIN res
    PROVE  BenchmarkInv'
<1>0. /\ TypeOK /\ KeysOwned /\ WindowsApart /\ Reserved /\ WithinLimit
      /\ ResultsPaid /\ SuiteCharged /\ HonestScores
  BY DEF BenchmarkInv
<1>q. PICK q : q = Quota(t) OBVIOUS
<1> DEFINE r == <<q, op[t].key>>
<1>1. /\ up /\ op[t].pc = "claimed" /\ Running(t)
      /\ UNCHANGED <<now, up, suite, image, modules, rows, results, leaked,
                     faults>>
      /\ WindowEnd(q) \in Nat /\ now < WindowEnd(q) /\ now \in Nat
      /\ q \in Quotas /\ q[2] = suite
  BY <1>q, ChargeMove
<1>2. r \in DOMAIN res /\ res' = res BY <1>q DEF Charge, Reservation
<1>3. /\ op' \in [Threads -> {Idle} \union Evaluations]
      /\ op'[t].pc = "charged" /\ op'[t].key = op[t].key /\ op'[t].quota = q
      /\ op'[t].claimed = op[t].claimed
      /\ op'[t].repeated <=> res[r] # "RESERVED"
      /\ \A u \in Threads : u # t => op'[u] = op[u]
  BY <1>q, <1>2, ChargeMove
<1>4. ~Narrow
  <2> SUFFICES ASSUME Narrow PROVE FALSE OBVIOUS
  <2>1. WindowEnd(r[1]) <= now BY <1>0, <1>1, <1>2 DEF WindowsApart
  <2> QED BY <1>1, <2>1
<1> HIDE DEF r
<1>5. TypeOK' BY <1>0, <1>1, <1>2, <1>3 DEF TypeOK
<1>6. KeysOwned' BY <1>0, <1>1, <1>3 DEF KeysOwned, Running
<1>7. WindowsApart' BY <1>4 DEF WindowsApart
<1>8. Reserved'
  <2>1. ASSUME NEW u \in Threads, op'[u].pc \in Holding
        PROVE  /\ op'[u].quota \in Quotas
               /\ <<op'[u].quota, op'[u].key>> \in DOMAIN res
               /\ op'[u].repeated <=>
                    res[<<op'[u].quota, op'[u].key>>] # "RESERVED"
    <3>1. CASE u = t BY <1>1, <1>2, <1>3, <3>1 DEF r
    <3>2. CASE u # t BY <1>0, <1>3, <2>1, <3>2 DEF Reserved
    <3> QED BY <3>1, <3>2
  <2>2. ASSUME NEW x \in DOMAIN res \ leaked, res[x] = "RESERVED"
        PROVE  \E u \in Threads : /\ op'[u].pc \in Holding
                                  /\ op'[u].quota = x[1] /\ op'[u].key = x[2]
    <3>1. PICK u \in Threads : /\ op[u].pc \in Holding
                               /\ op[u].quota = x[1] /\ op[u].key = x[2]
      BY <1>0, <1>1, <2>2 DEF Reserved
    <3>2. u # t BY <1>1, <3>1, StatesFacts
    <3> QED BY <1>3, <3>1, <3>2
  <2> QED BY <1>1, <1>2, <2>1, <2>2 DEF Reserved
<1>9. WithinLimit' BY <1>0, <1>2 DEF WithinLimit, Active
<1>10. ResultsPaid' BY <1>0, <1>1, <1>2 DEF ResultsPaid
<1>11. HonestScores'
  BY <1>0, <1>1, <1>3 DEF HonestScores, ScoreEarned
<1>12. SuiteCharged' BY <1>0, <1>1, <1>3 DEF SuiteCharged
<1> QED
  BY <1>5, <1>6, <1>7, <1>8, <1>9, <1>10, <1>11, <1>12 DEF BenchmarkInv

(* Reservations that only change their status, and none of them back: no quota
   gains an attempt. *)
LEMMA FewerAttempts ==
    ASSUME TypeOK, WithinLimit, DOMAIN res' = DOMAIN res,
           \A r \in DOMAIN res : res[r] = "RELEASED" => res'[r] = "RELEASED"
    PROVE  WithinLimit'
<1>1. ASSUME NEW r \in DOMAIN res PROVE Cardinality(Active(r[1])') <= Limit
  <2>1. Active(r[1])' \subseteq Active(r[1]) BY DEF Active
  <2>2. IsFiniteSet(Active(r[1])) BY AttemptsCount
  <2>3. /\ Cardinality(Active(r[1])') <= Cardinality(Active(r[1]))
        /\ IsFiniteSet(Active(r[1])')
    BY <2>1, <2>2, FS_Subset
  <2>4. Cardinality(Active(r[1])') \in Nat /\ Cardinality(Active(r[1])) \in Nat
    BY <2>2, <2>3, FS_CardinalityType
  <2>5. Cardinality(Active(r[1])) <= Limit BY DEF WithinLimit
  <2> QED BY <2>3, <2>4, <2>5, BenchmarkAssumption
<1> QED BY <1>1 DEF WithinLimit, Active

(* The reservation of an evaluation is consumed or released, and everybody
   else's is another one. *)
LEMMA SettleStep ==
    ASSUME BenchmarkInv, NEW t \in Threads, op[t].pc \in Holding, NEW status,
           status \in {"CONSUMED", "RELEASED"},
           res[<<op[t].quota, op[t].key>>] = "RELEASED" => status = "RELEASED",
           res' = [res EXCEPT ![<<op[t].quota, op[t].key>>] = status],
           op'[t].pc \in {"idle", "failing"},
           \A u \in Threads : u # t => op'[u] = op[u],
           up' = up, leaked' = leaked
    PROVE  /\ DOMAIN res' = DOMAIN res
           /\ <<op[t].quota, op[t].key>> \in DOMAIN res
           /\ op[t].quota \in Quotas /\ op[t].key \in Keys
           /\ res'[<<op[t].quota, op[t].key>>] = status
           /\ \A x \in DOMAIN res :
                x # <<op[t].quota, op[t].key>> => res'[x] = res[x]
           /\ Reserved' /\ WithinLimit'
<1>0. /\ TypeOK /\ KeysOwned /\ WindowsApart /\ Reserved /\ WithinLimit
      /\ ResultsPaid /\ SuiteCharged /\ HonestScores
  BY DEF BenchmarkInv
<1> DEFINE r == <<op[t].quota, op[t].key>>
<1>1. Running(t) BY StatesFacts DEF Running
<1>2. op[t].quota \in Quotas /\ r \in DOMAIN res
  BY <1>0 DEF Reserved
<1>3. op[t].key \in Keys BY <1>0, <1>1, RunningOp DEF Evaluations
<1>4. r[1] = op[t].quota /\ r[2] = op[t].key OBVIOUS
<1> HIDE DEF r
<1>5. /\ DOMAIN res' = DOMAIN res /\ res'[r] = status
      /\ \A x \in DOMAIN res : x # r => res'[x] = res[x]
  BY <1>2 DEF r
<1>6. Reserved'
  <2>1. ASSUME NEW u \in Threads, op'[u].pc \in Holding
        PROVE  /\ op'[u].quota \in Quotas
               /\ <<op'[u].quota, op'[u].key>> \in DOMAIN res'
               /\ op'[u].repeated <=>
                    res'[<<op'[u].quota, op'[u].key>>] # "RESERVED"
    <3>1. u # t /\ op'[u] = op[u] BY <2>1, StatesFacts
    <3>2. op[u].key # op[t].key
      BY <1>0, <1>1, <2>1, <3>1, StatesFacts DEF KeysOwned, Running
    <3>3. <<op[u].quota, op[u].key>> # r BY <3>2 DEF r
    <3> QED BY <1>0, <1>5, <2>1, <3>1, <3>3 DEF Reserved
  <2>2. ASSUME up, NEW x \in DOMAIN res \ leaked, res'[x] = "RESERVED"
        PROVE  \E u \in Threads : /\ op'[u].pc \in Holding
                                  /\ op'[u].quota = x[1] /\ op'[u].key = x[2]
    <3>1. x # r /\ res[x] = "RESERVED" BY <1>5, <2>2
    <3>2. PICK u \in Threads : /\ op[u].pc \in Holding
                               /\ op[u].quota = x[1] /\ op[u].key = x[2]
      BY <1>0, <2>2, <3>1 DEF Reserved
    <3>3. x = <<x[1], x[2]>> BY <1>0, ReservationShape
    <3>4. u # t BY <3>1, <3>2, <3>3 DEF r
    <3> QED BY <3>2, <3>4
  <2> QED BY <1>5, <2>1, <2>2 DEF Reserved
<1>7. WithinLimit' BY <1>0, <1>2, <1>5, FewerAttempts DEF r
<1> QED BY <1>2, <1>3, <1>5, <1>6, <1>7 DEF r

(* The answer to the own key is stored: other evaluations have other keys. *)
LEMMA KeyDone ==
    ASSUME BenchmarkInv, NEW t \in Threads, Running(t), NEW status,
           status \in {"COMPLETED", "FAILED"},
           rows' = [rows EXCEPT ![op[t].key].status = status],
           op'[t] = Idle,
           \A u \in Threads : u # t => op'[u] = op[u],
           DOMAIN res' = DOMAIN res, up' = up, now' = now,
           \A x \in results' : x \in results \/ x.repeated = op[t].repeated
    PROVE  /\ rows' \in [Keys -> {NoRow} \union
                   [status : {"IN_PROGRESS", "COMPLETED", "FAILED"},
                    expires : Nat \union {None}]]
           /\ KeysOwned' /\ WindowsApart'
<1>0. /\ TypeOK /\ KeysOwned /\ WindowsApart /\ Reserved /\ WithinLimit
      /\ ResultsPaid /\ SuiteCharged /\ HonestScores
  BY DEF BenchmarkInv
<1> DEFINE k == op[t].key
<1>1. k \in Keys /\ op[t].claimed \in Nat
  BY <1>0, RunningOp DEF Evaluations
<1>2. rows[k] = [status |-> "IN_PROGRESS",
                 expires |-> op[t].claimed + Retention]
  BY <1>0, Zenon DEF KeysOwned
<1>3. rows' = [rows EXCEPT ![k] = [status |-> status,
                                   expires |-> op[t].claimed + Retention]]
  <2>1. [rows[k] EXCEPT !.status = status]
          = [status |-> status, expires |-> op[t].claimed + Retention]
    BY <1>2
  <2>2. rows' = [rows EXCEPT ![k] = [rows[k] EXCEPT !.status = status]]
    OBVIOUS
  <2> QED BY <2>1, <2>2, Zenon
<1>4. /\ rows'[k].status = status /\ rows'[k].expires = rows[k].expires
      /\ \A j \in Keys : j # k => rows'[j] = rows[j]
  BY <1>0, <1>1, <1>2, <1>3 DEF TypeOK
<1>5. rows' \in [Keys -> {NoRow} \union
                   [status : {"IN_PROGRESS", "COMPLETED", "FAILED"},
                    expires : Nat \union {None}]]
  BY <1>0, <1>1, <1>3, BenchmarkAssumption DEF TypeOK
<1>i. op'[t].pc = "idle" /\ ~op'[t].repeated BY DEF Idle
<1>6. \A u \in Threads : Running(u) /\ u # t =>
         op[u].key \in Keys /\ op[u].key # k
  BY <1>0, RunningOp DEF KeysOwned, Evaluations
<1> HIDE DEF k
<1>7. KeysOwned'
  BY <1>0, <1>4, <1>6, <1>i DEF KeysOwned, Running
<1>8. WindowsApart'
  <2> SUFFICES ASSUME Narrow PROVE WindowsApart' BY DEF WindowsApart
  <2>1. ASSUME NEW r \in DOMAIN res
        PROVE  \/ WindowEnd(r[1]) <= now
               \/ /\ rows'[r[2]].status # "NONE"
                  /\ \/ rows'[r[2]].expires = None
                     \/ WindowEnd(r[1]) <= rows'[r[2]].expires + 1
    <3>1. r[2] \in Keys BY <1>0, ReservationShape
    <3>2. CASE r[2] = k BY <1>0, <1>4, <3>2 DEF WindowsApart
    <3>3. CASE r[2] # k BY <1>0, <1>4, <3>1, <3>3 DEF WindowsApart
    <3> QED BY <3>2, <3>3
  <2>2. ASSUME NEW u \in Threads, op'[u].pc = "claimed", NEW r \in DOMAIN res,
               r[2] = op'[u].key
        PROVE  WindowEnd(r[1]) <= now
    <3>1. u # t /\ op'[u] = op[u] BY <1>i, <2>2
    <3> QED BY <1>0, <2>2, <3>1 DEF WindowsApart
  <2>3. \A u \in Threads : ~op[u].repeated BY <1>0 DEF WindowsApart
  <2>4. \A u \in Threads : ~op'[u].repeated BY <1>i, <2>3
  <2>5. \A x \in results' : ~x.repeated BY <1>0, <2>3 DEF WindowsApart
  <2> QED BY <2>1, <2>2, <2>4, <2>5 DEF WindowsApart, WindowEnd
<1> QED BY <1>5, <1>7, <1>8

(* The final transaction: one result for one reservation, and its score is the
   worker's. *)
LEMMA CommitStep ==
    ASSUME BenchmarkInv, NEW t \in Threads, Commit(t)
    PROVE  BenchmarkInv'
<1>0. /\ TypeOK /\ KeysOwned /\ WindowsApart /\ Reserved /\ WithinLimit
      /\ ResultsPaid /\ SuiteCharged /\ HonestScores
  BY DEF BenchmarkInv
<1>q. PICK q, k : q = op[t].quota /\ k = op[t].key OBVIOUS
<1> DEFINE r == <<q, k>>
<1>1. /\ op[t].pc = "commit" /\ Running(t) /\ op[t].pc \in Holding
      /\ UNCHANGED <<now, up, suite, image, modules, leaked, faults>>
      /\ rows' = [rows EXCEPT ![op[t].key].status = "COMPLETED"]
      /\ res' = [res EXCEPT ![<<op[t].quota, op[t].key>>] = "CONSUMED"]
      /\ op' = [op EXCEPT ![t] = Idle]
  BY StatesFacts DEF Commit, At, Running, Reservation
<1>2. /\ op' \in [Threads -> {Idle} \union Evaluations]
      /\ op'[t] = Idle /\ op'[t].pc = "idle"
      /\ \A u \in Threads : u # t => op'[u] = op[u]
  BY <1>0, <1>1, OpMove DEF Idle
<1>c. res[<<op[t].quota, op[t].key>>] # "RELEASED"
  BY DEF Commit, Committable, Reservation
<1>3. /\ DOMAIN res' = DOMAIN res
      /\ r \in DOMAIN res /\ q \in Quotas /\ k \in Keys
      /\ res'[r] = "CONSUMED"
      /\ \A x \in DOMAIN res : x # r => res'[x] = res[x]
      /\ Reserved' /\ WithinLimit'
  BY <1>q, <1>1, <1>2, <1>c, SettleStep
<1> DEFINE rc == op[t].receipt
           x == [key |-> op[t].key, at |-> now, quota |-> op[t].quota,
                 suite |-> rc.suite, image |-> rc.image, ppm |-> rc.ppm,
                 repeated |-> op[t].repeated, swapped |-> op[t].swapped,
                 used |-> op[t].used]
<1>5. /\ rc.suite \in Suites /\ rc.image \in Images
      /\ rc.ppm <= Reach(rc.image, op[t].used, rc.suite)
  BY <1>0, <1>1 DEF HonestScores
<1>6. /\ rc \in Receipts /\ op[t].repeated \in BOOLEAN
      /\ op[t].swapped \in BOOLEAN /\ op[t].used \in SUBSET Modules
  BY <1>0, <1>1, RunningOp DEF Evaluations
<1>7. rc.ppm \in Nat BY <1>6 DEF Receipts
<1>8. results' = results \union {x} BY DEF Commit
<1> HIDE DEF rc
<1>9. /\ x.quota = q /\ x.key = k /\ x.image = rc.image /\ x.suite = rc.suite
      /\ x.ppm = rc.ppm /\ x.repeated = op[t].repeated
      /\ x.swapped = op[t].swapped /\ x.used = op[t].used
  BY <1>q
<1>10. x \in Results
  BY <1>0, <1>q, <1>3, <1>5, <1>6, <1>7 DEF TypeOK, Results
<1> HIDE DEF x
<1>4. /\ rows' \in [Keys -> {NoRow} \union
                   [status : {"IN_PROGRESS", "COMPLETED", "FAILED"},
                    expires : Nat \union {None}]]
      /\ KeysOwned' /\ WindowsApart'
  BY <1>1, <1>2, <1>3, <1>8, <1>9, KeyDone
<1>11. TypeOK'
  BY <1>0, <1>1, <1>2, <1>3, <1>4, <1>8, <1>10 DEF TypeOK
<1>12. ResultsPaid'
  <2>1. ~x.repeated => \A y \in results : <<y.quota, y.key>> # r
    <3>1. ~x.repeated => res[r] = "RESERVED"
      BY <1>0, <1>q, <1>1, <1>9 DEF Reserved
    <3> QED BY <1>0, <3>1 DEF ResultsPaid
  <2>2. ASSUME NEW y \in results'
        PROVE  /\ <<y.quota, y.key>> \in DOMAIN res'
               /\ res'[<<y.quota, y.key>>] = "CONSUMED"
    <3>1. CASE y = x BY <1>3, <1>9, <3>1
    <3>2. CASE y \in results
      <4>1. /\ <<y.quota, y.key>> \in DOMAIN res
            /\ res[<<y.quota, y.key>>] = "CONSUMED"
        BY <1>0, <3>2 DEF ResultsPaid
      <4> QED BY <1>3, <4>1
    <3> QED BY <1>8, <3>1, <3>2
  <2>3. ASSUME NEW c \in DOMAIN res, res'[c] = "CONSUMED"
        PROVE  \E y \in results' : y.quota = c[1] /\ y.key = c[2]
    <3>1. CASE c = r BY <1>8, <1>9, <3>1
    <3>2. CASE c # r
      <4>1. \E y \in results : y.quota = c[1] /\ y.key = c[2]
        BY <1>0, <1>3, <2>3, <3>2 DEF ResultsPaid
      <4> QED BY <1>8, <4>1
    <3> QED BY <3>1, <3>2
  <2>4. ASSUME NEW y \in results', NEW z \in results', y.quota = z.quota,
               y.key = z.key, ~y.repeated, ~z.repeated
        PROVE  y = z
    <3>1. CASE y = x \/ z = x BY <1>8, <1>9, <2>1, <2>4, <3>1
    <3>2. CASE y # x /\ z # x
      BY <1>0, <1>8, <2>4, <3>2 DEF ResultsPaid
    <3> QED BY <3>1, <3>2
  <2> QED BY <1>3, <2>2, <2>3, <2>4 DEF ResultsPaid
<1>13. HonestScores'
  <2>1. \A u \in Threads : op'[u].pc # "idle" => op'[u] = op[u] BY <1>2
  <2>2. ASSUME NEW y \in results' PROVE y.ppm <= Reach(y.image, y.used, y.suite)
    <3>1. CASE y = x BY <1>5, <1>9, <3>1
    <3>2. CASE y \in results BY <1>0, <3>2 DEF HonestScores, ScoreEarned
    <3> QED BY <1>8, <3>1, <3>2
  <2>3. ScoreEarned' BY <2>2 DEF ScoreEarned
  <2> QED BY <1>0, <1>1, <2>1, <2>3 DEF HonestScores
<1>14. SuiteCharged'
  <2>1. x.swapped \/ x.suite = x.quota[2]
    BY <1>0, <1>q, <1>1, <1>9 DEF SuiteCharged, rc
  <2>2. \A u \in Threads : op'[u].pc # "idle" => op'[u] = op[u] BY <1>2
  <2> QED BY <1>0, <1>1, <1>8, <2>1, <2>2 DEF SuiteCharged
<1> QED BY <1>3, <1>4, <1>11, <1>12, <1>13, <1>14 DEF BenchmarkInv

(* The error path gives the attempt back, *)
LEMMA ReleaseStep ==
    ASSUME BenchmarkInv, NEW t \in Threads, Release(t)
    PROVE  BenchmarkInv'
<1>0. /\ TypeOK /\ KeysOwned /\ WindowsApart /\ Reserved /\ WithinLimit
      /\ ResultsPaid /\ SuiteCharged /\ HonestScores
  BY DEF BenchmarkInv
<1> DEFINE r == <<op[t].quota, op[t].key>>
<1>1. /\ op[t].pc = "releasing" /\ Running(t) /\ op[t].pc \in Holding
      /\ UNCHANGED <<now, up, suite, image, modules, rows, results,
                     leaked, faults>>
      /\ Raise(t, "failing")
  BY StatesFacts DEF Release, At, Running
<1>2. /\ op' \in [Threads -> {Idle} \union Evaluations]
      /\ op'[t].pc = "failing" /\ op'[t].key = op[t].key
      /\ op'[t].claimed = op[t].claimed /\ op'[t].repeated = op[t].repeated
      /\ \A u \in Threads : u # t => op'[u] = op[u]
  BY <1>0, <1>1, RaiseMove
<1>3. r \in DOMAIN res BY <1>0, <1>1 DEF Reserved
<1> DEFINE status == IF res[r] = "RESERVED" THEN "RELEASED" ELSE res[r]
<1>4. /\ res' = [res EXCEPT ![r] = status]
      /\ status \in {"CONSUMED", "RELEASED"}
      /\ res[r] = "RELEASED" => status = "RELEASED"
  BY <1>0, <1>3 DEF Release, Reservation, TypeOK
<1>s. status = "CONSUMED" <=> res[r] = "CONSUMED" OBVIOUS
<1> HIDE DEF status
<1>5. /\ DOMAIN res' = DOMAIN res
      /\ res'[r] = status
      /\ \A x \in DOMAIN res : x # r => res'[x] = res[x]
      /\ Reserved' /\ WithinLimit'
  BY <1>1, <1>2, <1>4, SettleStep
<1> HIDE DEF r
<1>6. TypeOK' BY <1>0, <1>1, <1>2, <1>4, <1>5 DEF TypeOK
<1>7. KeysOwned' BY <1>0, <1>1, <1>2 DEF KeysOwned, Running
<1>8. WindowsApart'
  BY <1>0, <1>1, <1>2, <1>5 DEF WindowsApart, WindowEnd
<1>9. ResultsPaid'
  <2>1. \A x \in DOMAIN res : res'[x] = "CONSUMED" <=> res[x] = "CONSUMED"
    BY <1>5, <1>s
  <2> QED BY <1>0, <1>1, <1>5, <2>1 DEF ResultsPaid
<1>10. HonestScores' BY <1>0, <1>1, <1>2 DEF HonestScores, ScoreEarned
<1>11. SuiteCharged' BY <1>0, <1>1, <1>2 DEF SuiteCharged
<1> QED BY <1>5, <1>6, <1>7, <1>8, <1>9, <1>10, <1>11 DEF BenchmarkInv

(* or loses it in the store, *)
LEMMA ReleaseFailsStep ==
    ASSUME BenchmarkInv, NEW t \in Threads, ReleaseFails(t)
    PROVE  BenchmarkInv'
<1>0. /\ TypeOK /\ KeysOwned /\ WindowsApart /\ Reserved /\ WithinLimit
      /\ ResultsPaid /\ SuiteCharged /\ HonestScores
  BY DEF BenchmarkInv
<1> DEFINE r == <<op[t].quota, op[t].key>>
<1>1. /\ op[t].pc = "releasing" /\ Running(t)
      /\ UNCHANGED <<now, up, suite, image, modules, rows, res, results>>
      /\ Raise(t, "failing") /\ leaked' = leaked \union {r}
      /\ faults \subseteq faults' /\ image' \notin faults'
  BY <1>0, BenchmarkAssumption
  DEF ReleaseFails, At, Running, Reservation, Fault, HonestScores, TypeOK
<1>2. /\ op' \in [Threads -> {Idle} \union Evaluations]
      /\ op'[t].pc = "failing" /\ op'[t].key = op[t].key
      /\ op'[t].claimed = op[t].claimed /\ op'[t].repeated = op[t].repeated
      /\ \A u \in Threads : u # t => op'[u] = op[u]
  BY <1>0, <1>1, RaiseMove
<1>3. TypeOK' BY <1>0, <1>1, <1>2 DEF TypeOK
<1>4. KeysOwned' BY <1>0, <1>1, <1>2 DEF KeysOwned, Running
<1>5. WindowsApart' BY <1>0, <1>1, <1>2 DEF WindowsApart, WindowEnd
<1>6. Reserved'
  <2>1. ASSUME NEW u \in Threads, op'[u].pc \in Holding
        PROVE  op'[u] = op[u]
    BY <1>2, <2>1, StatesFacts
  <2>2. ASSUME up, NEW x \in DOMAIN res \ leaked', res[x] = "RESERVED"
        PROVE  \E u \in Threads : /\ op'[u].pc \in Holding
                                  /\ op'[u].quota = x[1] /\ op'[u].key = x[2]
    <3>1. x \in DOMAIN res \ leaked /\ x # r BY <1>1, <2>2
    <3>2. PICK u \in Threads : /\ op[u].pc \in Holding
                               /\ op[u].quota = x[1] /\ op[u].key = x[2]
      BY <1>0, <2>2, <3>1 DEF Reserved
    <3>3. x = <<x[1], x[2]>> BY <1>0, <3>1, ReservationShape
    <3>4. u # t BY <3>1, <3>2, <3>3
    <3> QED BY <1>2, <3>2, <3>4
  <2> HIDE DEF r
  <2> QED BY <1>0, <1>1, <2>1, <2>2 DEF Reserved
<1>7. WithinLimit' BY <1>0, <1>1 DEF WithinLimit, Active
<1>8. ResultsPaid' BY <1>0, <1>1 DEF ResultsPaid
<1>9. HonestScores'
  BY <1>0, <1>1, <1>2 DEF HonestScores, ScoreEarned
<1>10. SuiteCharged' BY <1>0, <1>1, <1>2 DEF SuiteCharged
<1> QED
  BY <1>3, <1>4, <1>5, <1>6, <1>7, <1>8, <1>9, <1>10 DEF BenchmarkInv

(* and then the key its answer. *)
LEMMA FailStep ==
    ASSUME BenchmarkInv, NEW t \in Threads, Fail(t)
    PROVE  BenchmarkInv'
<1>0. /\ TypeOK /\ KeysOwned /\ WindowsApart /\ Reserved /\ WithinLimit
      /\ ResultsPaid /\ SuiteCharged /\ HonestScores
  BY DEF BenchmarkInv
<1>1. /\ op[t].pc = "failing" /\ Running(t)
      /\ UNCHANGED <<now, up, suite, image, modules, res, results,
                     leaked, faults>>
      /\ op' = [op EXCEPT ![t] = Idle]
  BY DEF Fail, At, Running
<1>2. /\ op' \in [Threads -> {Idle} \union Evaluations]
      /\ op'[t] = Idle /\ op'[t].pc = "idle"
      /\ \A u \in Threads : u # t => op'[u] = op[u]
  BY <1>0, <1>1, OpMove DEF Idle
<1>3. rows[op[t].key] = [status |-> "IN_PROGRESS",
                         expires |-> op[t].claimed + Retention]
  BY <1>0, <1>1, Zenon DEF KeysOwned
<1>4. rows[op[t].key].status = "IN_PROGRESS" BY <1>3
<1>5. rows' = [rows EXCEPT ![op[t].key].status = "FAILED"]
  BY <1>4 DEF Fail
<1>6. /\ rows' \in [Keys -> {NoRow} \union
                   [status : {"IN_PROGRESS", "COMPLETED", "FAILED"},
                    expires : Nat \union {None}]]
      /\ KeysOwned' /\ WindowsApart'
  BY <1>1, <1>2, <1>5, KeyDone
<1>7. TypeOK' BY <1>0, <1>1, <1>2, <1>6 DEF TypeOK
<1>8. Reserved' BY <1>0, <1>1, <1>2, StatesFacts DEF Reserved
<1>9. WithinLimit' BY <1>0, <1>1 DEF WithinLimit, Active
<1>10. ResultsPaid' BY <1>0, <1>1 DEF ResultsPaid
<1>11. HonestScores' BY <1>0, <1>1, <1>2 DEF HonestScores, ScoreEarned
<1>12. SuiteCharged' BY <1>0, <1>1, <1>2 DEF SuiteCharged
<1> QED BY <1>6, <1>7, <1>8, <1>9, <1>10, <1>11, <1>12 DEF BenchmarkInv

(* Time passes, but not beyond what an evaluation may take. *)
LEMMA TickStep ==
    ASSUME BenchmarkInv, Tick
    PROVE  BenchmarkInv'
<1>0. /\ TypeOK /\ KeysOwned /\ WindowsApart /\ Reserved /\ WithinLimit
      /\ ResultsPaid /\ SuiteCharged /\ HonestScores
  BY DEF BenchmarkInv
<1>1. /\ now \in Nat /\ now' = now + 1
      /\ UNCHANGED <<up, suite, image, modules, rows, res, op, results,
                     leaked, faults>>
  BY <1>0 DEF Tick, TypeOK
<1>2. \A t \in Threads : Running(t) =>
         op[t].claimed \in Nat /\ now + 1 <= op[t].claimed + OpTime
  <2> TAKE t \in Threads
  <2> HAVE Running(t)
  <2>1. op[t].claimed \in Nat BY <1>0, RunningOp DEF Evaluations
  <2>2. op[t] # Idle BY DEF Running, Idle
  <2>3. now - op[t].claimed < OpTime BY <2>2 DEF Tick
  <2> QED BY <1>1, <2>1, <2>3, BenchmarkAssumption
<1>3. TypeOK' BY <1>0, <1>1 DEF TypeOK
<1>4. KeysOwned'
  <2>1. \A t \in Threads : Running(t) => op[t].claimed <= now
    BY <1>0 DEF KeysOwned
  <2>2. \A t \in Threads : Running(t) =>
           /\ op[t].claimed <= now' /\ now' <= op[t].claimed + OpTime
    BY <1>1, <1>2, <2>1
  <2> QED BY <1>0, <1>1, <2>2 DEF KeysOwned, Running
<1>5. \A r \in DOMAIN res : WindowEnd(r[1]) <= now => WindowEnd(r[1]) <= now'
  BY <1>0, <1>1, ReservationShape
<1>6. WindowsApart'
  BY <1>0, <1>1, <1>5 DEF WindowsApart, WindowEnd
<1>7. Reserved' BY <1>0, <1>1 DEF Reserved
<1>8. WithinLimit' BY <1>0, <1>1 DEF WithinLimit, Active
<1>9. ResultsPaid' BY <1>0, <1>1 DEF ResultsPaid
<1>10. HonestScores' BY <1>0, <1>1 DEF HonestScores, ScoreEarned
<1>11. SuiteCharged' BY <1>0, <1>1 DEF SuiteCharged
<1> QED BY <1>3, <1>4, <1>6, <1>7, <1>8, <1>9, <1>10, <1>11 DEF BenchmarkInv

(* The operator replaces the suite: the evaluations that have yet to load it
   are marked, and nothing else about them changes. *)
LEMMA SwapStep ==
    ASSUME BenchmarkInv, NEW s \in Suites, SwapSuite(s)
    PROVE  BenchmarkInv'
<1>0. /\ TypeOK /\ KeysOwned /\ WindowsApart /\ Reserved /\ WithinLimit
      /\ ResultsPaid /\ SuiteCharged /\ HonestScores
  BY DEF BenchmarkInv
<1>1. /\ suite' \in Suites
      /\ UNCHANGED <<now, up, image, modules, rows, res, results, leaked>>
      /\ faults \subseteq faults' /\ image' \notin faults'
  BY <1>0, BenchmarkAssumption DEF SwapSuite, Fault, TypeOK, HonestScores
<1> DEFINE marked(t) == op[t].pc \in {"charged", "launched"}
<1>2. ASSUME NEW t \in Threads
      PROVE  /\ op'[t] \in {Idle} \union Evaluations
             /\ op'[t].pc = op[t].pc /\ op'[t].key = op[t].key
             /\ op'[t].claimed = op[t].claimed /\ op'[t].quota = op[t].quota
             /\ op'[t].worker = op[t].worker /\ op'[t].receipt = op[t].receipt
             /\ op'[t].repeated = op[t].repeated /\ op'[t].used = op[t].used
             /\ op'[t].swapped <=> op[t].swapped \/ marked(t)
  <2>0. op[t] \in {Idle} \union Evaluations BY <1>0 DEF TypeOK
  <2>1. CASE marked(t)
    <3>1. op'[t] = [op[t] EXCEPT !.swapped = TRUE] BY <2>1 DEF SwapSuite
    <3>2. op[t] \in Evaluations BY <2>0, <2>1 DEF Idle
    <3>3. [op[t] EXCEPT !.swapped = TRUE] \in Evaluations
      BY <3>2 DEF Evaluations
    <3>4. op'[t].swapped BY <3>1, <3>2 DEF Evaluations
    <3> QED BY <2>1, <3>1, <3>2, <3>3, <3>4 DEF Evaluations
  <2>2. CASE ~marked(t)
    <3>1. op'[t] = op[t] BY <2>2 DEF SwapSuite
    <3> QED BY <2>0, <2>2, <3>1
  <2> QED BY <2>1, <2>2
<1> HIDE DEF marked
<1>3. TypeOK'
  <2>1. op' = [t \in Threads |-> op'[t]] BY DEF SwapSuite
  <2>2. op' \in [Threads -> {Idle} \union Evaluations] BY <1>2, <2>1
  <2> QED BY <1>0, <1>1, <2>2 DEF TypeOK
<1>4. KeysOwned' BY <1>0, <1>1, <1>2 DEF KeysOwned, Running
<1>5. WindowsApart' BY <1>0, <1>1, <1>2 DEF WindowsApart, WindowEnd
<1>6. Reserved' BY <1>0, <1>1, <1>2 DEF Reserved
<1>7. WithinLimit' BY <1>0, <1>1 DEF WithinLimit, Active
<1>8. ResultsPaid' BY <1>0, <1>1 DEF ResultsPaid
<1>9. HonestScores'
  BY <1>0, <1>1, <1>2 DEF HonestScores, ScoreEarned
<1>10. SuiteCharged' BY <1>0, <1>1, <1>2 DEF SuiteCharged, marked
<1> QED
  BY <1>3, <1>4, <1>5, <1>6, <1>7, <1>8, <1>9, <1>10 DEF BenchmarkInv

(* Or the candidate's files, and a worker that began with the old ones cannot
   sign any more; or the modules, which no fingerprint covers. *)
LEMMA ReplaceStep ==
    ASSUME BenchmarkInv,
           (\E i \in Images : Deploy(i)) \/ (\E m \in Modules : Upgrade(m))
    PROVE  BenchmarkInv'
<1>0. /\ TypeOK /\ KeysOwned /\ WindowsApart /\ Reserved /\ WithinLimit
      /\ ResultsPaid /\ SuiteCharged /\ HonestScores
  BY DEF BenchmarkInv
<1>1. /\ image' \in Images /\ modules' \in Modules
      /\ UNCHANGED <<now, up, suite, rows, res, op, results, leaked>>
      /\ \/ UNCHANGED image /\ faults \subseteq faults'
         \/ image \in faults' /\ faults \subseteq faults' /\ image' # image
      /\ image' \notin faults'
  BY <1>0, BenchmarkAssumption
  DEF Upgrade, Deploy, Fault, TypeOK, HonestScores
<1>2. TypeOK' BY <1>0, <1>1 DEF TypeOK
<1>3. KeysOwned' BY <1>0, <1>1 DEF KeysOwned, Running
<1>4. WindowsApart' BY <1>0, <1>1 DEF WindowsApart, WindowEnd
<1>5. Reserved' BY <1>0, <1>1 DEF Reserved
<1>6. WithinLimit' BY <1>0, <1>1 DEF WithinLimit, Active
<1>7. ResultsPaid' BY <1>0, <1>1 DEF ResultsPaid
<1>8. HonestScores'
  BY <1>0, <1>1 DEF HonestScores, ScoreEarned
<1>9. SuiteCharged' BY <1>0, <1>1 DEF SuiteCharged
<1> QED BY <1>2, <1>3, <1>4, <1>5, <1>6, <1>7, <1>8, <1>9 DEF BenchmarkInv

(* The service dies, *)
LEMMA CrashStep ==
    ASSUME BenchmarkInv, Crash
    PROVE  BenchmarkInv'
<1>0. /\ TypeOK /\ KeysOwned /\ WindowsApart /\ Reserved /\ WithinLimit
      /\ ResultsPaid /\ SuiteCharged /\ HonestScores
  BY DEF BenchmarkInv
<1>1. /\ up' = FALSE /\ op' = [t \in Threads |-> Idle]
      /\ \A t \in Threads : op'[t].pc = "idle" /\ ~op'[t].repeated
      /\ UNCHANGED <<now, suite, image, modules, rows, res, results, leaked>>
      /\ image' \notin faults'
  BY <1>0, BenchmarkAssumption DEF Crash, Idle, Fault, TypeOK, HonestScores
<1>2. TypeOK' BY <1>0, <1>1 DEF TypeOK
<1>3. KeysOwned' BY <1>0, <1>1 DEF KeysOwned, Running
<1>4. WindowsApart' BY <1>0, <1>1 DEF WindowsApart, WindowEnd
<1>5. Reserved' BY <1>0, <1>1, StatesFacts DEF Reserved
<1>6. WithinLimit' BY <1>0, <1>1 DEF WithinLimit, Active
<1>7. ResultsPaid' BY <1>0, <1>1 DEF ResultsPaid
<1>8. HonestScores' BY <1>0, <1>1 DEF HonestScores, ScoreEarned
<1>9. SuiteCharged' BY <1>0, <1>1 DEF SuiteCharged
<1> QED BY <1>2, <1>3, <1>4, <1>5, <1>6, <1>7, <1>8, <1>9 DEF BenchmarkInv

(* and starts again: nothing runs, so what is reserved is nobody's. *)
LEMMA RestartStep ==
    ASSUME BenchmarkInv, Restart
    PROVE  BenchmarkInv'
<1>0. /\ TypeOK /\ KeysOwned /\ WindowsApart /\ Reserved /\ WithinLimit
      /\ ResultsPaid /\ SuiteCharged /\ HonestScores
  BY DEF BenchmarkInv
<1> DEFINE failed == [status |-> "FAILED", expires |-> None]
<1>1. /\ up' = TRUE /\ UNCHANGED <<now, suite, image, modules, op, results, faults>>
      /\ rows' = [k \in Keys |-> IF rows[k].status = "IN_PROGRESS"
                                 THEN failed ELSE rows[k]]
      /\ res' = [r \in DOMAIN res |->
                    IF res[r] = "RESERVED" THEN "RELEASED" ELSE res[r]]
  BY DEF Restart
<1>2. \A t \in Threads : op[t].pc = "idle"
  BY <1>0 DEF Restart, KeysOwned, Running
<1>3. failed \in [status : {"IN_PROGRESS", "COMPLETED", "FAILED"},
                  expires : Nat \union {None}]
  OBVIOUS
<1>4. failed.status # "NONE" /\ failed.expires = None OBVIOUS
<1> HIDE DEF failed
<1>5. /\ DOMAIN res' = DOMAIN res
      /\ \A r \in DOMAIN res :
           res'[r] = IF res[r] = "RESERVED" THEN "RELEASED" ELSE res[r]
  BY <1>1
<1>6. TypeOK'
  <2>1. rows' \in [Keys -> {NoRow} \union
                   [status : {"IN_PROGRESS", "COMPLETED", "FAILED"},
                    expires : Nat \union {None}]]
    BY <1>0, <1>1, <1>3 DEF TypeOK
  <2> QED BY <1>0, <1>1, <1>5, <2>1 DEF TypeOK
<1>7. KeysOwned' BY <1>1, <1>2 DEF KeysOwned, Running
<1>8. WindowsApart'
  <2> SUFFICES ASSUME Narrow PROVE WindowsApart' BY DEF WindowsApart
  <2>1. ASSUME NEW r \in DOMAIN res
        PROVE  \/ WindowEnd(r[1]) <= now
               \/ /\ rows'[r[2]].status # "NONE"
                  /\ \/ rows'[r[2]].expires = None
                     \/ WindowEnd(r[1]) <= rows'[r[2]].expires + 1
    <3>1. r[2] \in Keys BY <1>0, ReservationShape
    <3>2. rows'[r[2]] = failed \/ rows'[r[2]] = rows[r[2]] BY <1>1, <3>1
    <3> QED BY <1>0, <1>4, <3>2 DEF WindowsApart
  <2>2. /\ \A t \in Threads : ~op[t].repeated
        /\ \A x \in results : ~x.repeated
    BY <1>0 DEF WindowsApart
  <2> QED BY <1>1, <1>2, <1>5, <2>1, <2>2 DEF WindowsApart, WindowEnd
<1>9. Reserved' BY <1>1, <1>2, <1>5, StatesFacts DEF Reserved
<1>10. WithinLimit' BY <1>0, <1>5, FewerAttempts
<1>11. ResultsPaid' BY <1>0, <1>1, <1>5 DEF ResultsPaid
<1>12. HonestScores' BY <1>0, <1>1 DEF HonestScores, ScoreEarned
<1>13. SuiteCharged' BY <1>0, <1>1 DEF SuiteCharged
<1> QED
  BY <1>6, <1>7, <1>8, <1>9, <1>10, <1>11, <1>12, <1>13 DEF BenchmarkInv

(* The inductive invariant is inductive. *)
LEMMA BenchmarkStep ==
    ASSUME BenchmarkInv, [Next]_vars
    PROVE  BenchmarkInv'
<1>1. ASSUME NEW t \in Threads, Evaluate(t) PROVE BenchmarkInv'
  <2>1. CASE Inner(t) BY <2>1, InnerStep, HonestInner, SuiteInner DEF BenchmarkInv
  <2>2. CASE Charge(t) BY <2>2, ChargeNew, ChargeAgain
  <2> QED
    BY <1>1, <2>1, <2>2, ClaimStep, RepeatStep, CommitStep, ReleaseStep,
       ReleaseFailsStep, FailStep DEF Evaluate, Inner
<1>2. CASE UNCHANGED vars
  BY <1>2 DEF vars, BenchmarkInv, TypeOK, KeysOwned, Running, WindowsApart,
              WindowEnd, Reserved, WithinLimit, Active, ResultsPaid,
              HonestScores, ScoreEarned, SuiteCharged
<1> QED
  BY <1>1, <1>2, TickStep, SwapStep, ReplaceStep, CrashStep, RestartStep DEF Next

(* Nothing is recorded and nothing runs at the start. *)
LEMMA BenchmarkStart == Init => BenchmarkInv
<1> SUFFICES ASSUME Init PROVE BenchmarkInv OBVIOUS
<1>1. DOMAIN res = {} BY DEF Init
<1>2. \A t \in Threads : 
         op[t] = Idle /\ op[t].pc = "idle" /\ ~op[t].repeated
  BY DEF Init, Idle
<1>3. TypeOK BY <1>1, FS_EmptySet DEF Init, TypeOK
<1> QED
  BY <1>1, <1>2, <1>3, StatesFacts
  DEF Init, BenchmarkInv, KeysOwned, Running, WindowsApart, Reserved,
      WithinLimit, ResultsPaid, SuiteCharged, HonestScores, ScoreEarned

(* The inductive invariant always holds. *)
THEOREM BenchmarkAlways == Spec => []BenchmarkInv
BY BenchmarkStart, BenchmarkStep, PTL DEF Spec

(* But for what gets past the quota, no more results are recorded for an
   artifact, the suite on the receipt and a window than the attempt limit
   allows: each result is paid by a reservation of its own, in the quota of the
   suite it ran, and the reservations of a quota never exceed the limit. *)
THEOREM QuotaAlwaysRespected == Spec => []QuotaRespected
<1>1. ASSUME BenchmarkInv, NEW r \in results
      PROVE  Cardinality({x \in results : /\ ~Uncharged(x)
                                          /\ x.suite = r.suite
                                          /\ x.quota[1] = r.quota[1]
                                          /\ x.quota[3] = r.quota[3]}) <= Limit
  <2> DEFINE S == {x \in results : /\ ~Uncharged(x)
                                   /\ x.suite = r.suite
                                   /\ x.quota[1] = r.quota[1]
                                   /\ x.quota[3] = r.quota[3]}
             q == <<r.quota[1], r.suite, r.quota[3]>>
             f == [x \in S |-> <<x.quota, x.key>>]
  <2>0. TypeOK /\ WithinLimit /\ ResultsPaid /\ WindowsApart /\ SuiteCharged
    BY <1>1 DEF BenchmarkInv
  <2>1. ASSUME NEW x \in S
        PROVE  x \in results /\ x.quota = q /\ ~x.repeated
    <3>1. x \in results /\ ~x.swapped /\ ~x.repeated
      BY <2>0 DEF Uncharged, WindowsApart
    <3>2. x.quota \in Quotas BY <2>0, <3>1 DEF TypeOK, Results
    <3>3. x.quota = <<x.quota[1], x.quota[2], x.quota[3]>> BY <3>2 DEF Quotas
    <3>4. x.quota[2] = r.suite BY <2>0, <3>1 DEF SuiteCharged
    <3> QED BY <3>1, <3>3, <3>4
  <2> HIDE DEF S, q
  <2>2. f \in [S -> Active(q)] BY <2>0, <2>1 DEF ResultsPaid, Active
  <2>3. \A x, y \in S : f[x] = f[y] => x = y BY <2>0, <2>1 DEF ResultsPaid
  <2>4. f \in Injection(S, Active(q)) BY <2>2, <2>3 DEF Injection, IsInjective
  <2>5. IsFiniteSet(Active(q)) /\ Cardinality(Active(q)) \in Nat
    BY <2>0, AttemptsCount
  <2>6. IsFiniteSet(S) /\ Cardinality(S) <= Cardinality(Active(q))
    BY <2>4, <2>5, FS_Injection
  <2>7. Cardinality(S) \in Nat BY <2>6, FS_CardinalityType
  <2>8. CASE S = {}
    <3>1. Cardinality(S) = 0 BY <2>8, FS_EmptySet
    <3> QED BY <3>1, BenchmarkAssumption DEF S
  <2>9. CASE S # {}
    <3>1. PICK x \in S : TRUE BY <2>9
    <3>2. <<q, x.key>> \in DOMAIN res BY <2>0, <2>1, <3>1 DEF ResultsPaid
    <3>3. Cardinality(Active(q)) <= Limit BY <2>0, <3>2 DEF WithinLimit
    <3> QED BY <2>5, <2>6, <2>7, <3>3, BenchmarkAssumption DEF S
  <2> QED BY <2>8, <2>9
<1>2. BenchmarkInv => QuotaRespected BY <1>1 DEF QuotaRespected
<1> QED BY <1>2, BenchmarkAlways, PTL

(* An attempt is used up exactly when a result was recorded for it, and while
   the service is up only an evaluation under way holds a reservation, or one
   was lost by a release that failed in the store. *)
THEOREM AttemptsAlwaysAccounted == Spec => []AttemptsAccounted
<1>1. ASSUME BenchmarkInv PROVE AttemptsAccounted
  <2>0. TypeOK /\ Reserved /\ ResultsPaid BY <1>1 DEF BenchmarkInv
  <2>1. ASSUME NEW r \in DOMAIN res, NEW x \in results, x.quota = r[1],
               x.key = r[2]
        PROVE  res[r] = "CONSUMED"
    BY <2>0, <2>1, ReservationShape DEF ResultsPaid
  <2> QED BY <2>0, <2>1 DEF AttemptsAccounted, Reserved, ResultsPaid
<1> QED BY <1>1, BenchmarkAlways, PTL

(* A recorded score is no more than what the fingerprinted files reach on the
   suite the receipt names with the modules imported for its cases, whatever the
   operator replaces meanwhile and however often, as long as files that were
   replaced do not come back: putting the old ones back in time would go
   unnoticed. *)
THEOREM ScoresEarned == Spec => []ScoreEarned
<1>1. BenchmarkInv => ScoreEarned BY DEF BenchmarkInv, HonestScores
<1> QED BY <1>1, BenchmarkAlways, PTL
=============================================================================
