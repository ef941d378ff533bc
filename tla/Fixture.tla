-------------------------------- MODULE Fixture --------------------------------
(***************************************************************************)
(* The synthetic fixture of engine.py as pure operators: the moves and     *)
(* receipts of default_scenario and default_benchmark, the rules a         *)
(* scenario and a suite must satisfy, the position a path of moves leads   *)
(* to, and the governed score of that position.                            *)
(*                                                                         *)
(* Floats of the source are integers here: metrics, weights and costs in   *)
(* hundredths, so that a mean is in ten-thousandths and a reward in        *)
(* millionths.  Prose, tags, priors and predicted metrics only steer the   *)
(* search and are left out; a move is its id, which stands for the content *)
(* hash.                                                                   *)
(***************************************************************************)
EXTENDS Integers, Sequences, FiniteSets, SequencesExt, Functions

Metrics == <<"correctness", "evidence", "safety", "efficiency",
             "reversibility">>

Weight == <<34, 24, 20, 12, 10>>

(* The hard minimum of each metric; 0 is none. *)
HardMinimum == <<0, 55, 65, 0, 0>>

PhaseImportance == <<30, 15, 30, 25>>

CostWeight == 8
CriticalSafety == 45
SafetyIndex == 3
ViolationReward == -1000000
AbstainReward == -250000

BenchMinSamples == 8
BenchUpperThreshold == 58

-----------------------------------------------------------------------------
(* Moves *)

(* The empty name: no question. *)
None == ""

NewMove(kind, actor, cost, receipt) ==
    [kind |-> kind, actor |-> actor, cost |-> cost, receipt |-> receipt,
     opens |-> None, answers |-> None, evidence |-> FALSE, violates |-> FALSE]

NoReceipt == <<0, 0, 0, 0, 0>>

Propose(actor, cost, receipt) == NewMove("PROPOSE", actor, cost, receipt)

Question(actor, cost, receipt) ==
    [NewMove("QUESTION", actor, cost, receipt)
        EXCEPT !.opens = "current-proof"]

Answer(actor, cost, receipt, trusted) ==
    [NewMove("ANSWER", actor, cost, receipt)
        EXCEPT !.answers = "current-proof", !.evidence = trusted,
               !.violates = ~trusted]

Commit(actor, cost, receipt) == NewMove("COMMIT", actor, cost, receipt)

(* The moves of default_scenario with their receipts in default_benchmark.
   D0 is the explicit abstention of the example's self test: D1 with another
   kind and no evidence.  SYSTEM_ABSTAIN is the move of safe_abstain. *)
Move ==
    [S1 |-> Propose("Scout",    12, <<90, 82, 94, 88, 94>>),
     S2 |-> Propose("Momentum", 55, <<54, 35, 70, 18, 72>>),
     S3 |-> Propose("Builder",  10, <<48, 20, 35, 72, 34>>),
     Q1 |-> Question("Skeptic",  5, <<88, 94, 94, 74, 95>>),
     Q2 |-> Question("Momentum", 3, <<48, 22, 58, 62, 70>>),
     Q3 |-> Question("Builder",  1, <<40, 8, 38, 86, 56>>),
     A1 |-> Answer("Verifier", 12, <<94, 98, 96, 84, 96>>, TRUE),
     A2 |-> Answer("Verifier", 18, <<84, 88, 91, 72, 92>>, TRUE),
     A3 |-> Answer("Momentum",  1, <<34, 4, 26, 91, 36>>, FALSE),
     D0 |-> NewMove("ABSTAIN", "Steward", 22, <<95, 94, 97, 76, 94>>),
     D1 |-> [Commit("Steward", 22, <<95, 94, 97, 76, 94>>)
                EXCEPT !.evidence = TRUE],
     D2 |-> Commit("Builder",   8, <<76, 67, 84, 90, 90>>),
     D3 |-> [Commit("Momentum", 2, <<52, 24, 43, 94, 48>>)
                EXCEPT !.violates = TRUE],
     SYSTEM_ABSTAIN |-> NewMove("ABSTAIN", "Orchestrator", 0, NoReceipt)]

DefaultScenario ==
    << <<"S1", "S2", "S3">>, <<"Q1", "Q2", "Q3">>, <<"A1", "A2", "A3">>,
       <<"D1", "D2", "D3">> >>

(* Scenario.safe_abstain: the trajectory of the fallback. *)
SystemAbstain == <<"SYSTEM_ABSTAIN">>

-----------------------------------------------------------------------------
(* What the constructors insist on *)

Percent == 0..100

(* Move.__post_init__ *)
MoveOK(m) ==
    /\ m.actor # None /\ m.cost >= 0
    /\ Len(m.receipt) = Len(Metrics) /\ Range(m.receipt) \subseteq Percent

(* BenchmarkMetric and BenchmarkSuite.__post_init__ *)
SuiteOK ==
    /\ IsInjective(Metrics) /\ Len(Metrics) > 0
    /\ Range(Weight) \union Range(HardMinimum) \subseteq Percent
    /\ FoldFunction(+, 0, Weight) = 100
    /\ Len(PhaseImportance) > 0 /\ \A i \in Range(PhaseImportance) : i > 0
    /\ CostWeight \in Percent /\ CriticalSafety \in Percent
    /\ {ViolationReward, AbstainReward} \subseteq -1000000..0

PhaseKinds == <<{"PROPOSE"}, {"QUESTION"}, {"ANSWER"}, {"COMMIT", "ABSTAIN"}>>

(* Scenario.__post_init__: typed phases, no move twice, and a question opens
   what an answer both requires and resolves. *)
ScenarioOK(sc) ==
    /\ sc \in Seq(Seq(DOMAIN Move)) /\ Len(sc) = Len(PhaseKinds)
    /\ \A k \in DOMAIN sc :
         /\ sc[k] # <<>> /\ IsInjective(sc[k])
         /\ \A id \in Range(sc[k]) :
              LET m == Move[id] IN
              /\ MoveOK(m) /\ m.kind \in PhaseKinds[k]
              /\ (m.opens # None) <=> (m.kind = "QUESTION")
              /\ (m.answers # None) <=> (m.kind = "ANSWER")
    /\ \A j, k \in DOMAIN sc :
         j # k => Range(sc[j]) \intersect Range(sc[k]) = {}

ASSUME FixtureAssumption == SuiteOK /\ ScenarioOK(DefaultScenario)

-----------------------------------------------------------------------------
(* Positions: a position is the path of moves that reached it. *)

MovesOf(path) == {Move[path[k]] : k \in DOMAIN path}

OpenQuestions(path) ==
    {m.opens : m \in MovesOf(path)} \ {m.answers : m \in MovesOf(path)}

Committed(path) == \E m \in MovesOf(path) : m.kind = "COMMIT"

Abstained(path) == \E m \in MovesOf(path) : m.kind = "ABSTAIN"

Terminal(path) == Abstained(path) \/ Committed(path)

SpentCost(path) ==
    FoldFunction(+, 0, [k \in DOMAIN path |-> Move[path[k]].cost])

(* Scenario.legal_moves *)
Legal(sc, path, benched) ==
    IF Terminal(path) \/ Len(path) >= Len(sc) THEN {}
    ELSE {id \in Range(sc[Len(path) + 1]) :
            /\ Move[id].actor \notin benched
            /\ Move[id].kind = "ANSWER"
                 => Move[id].answers \in OpenQuestions(path)}

(* Scenario.apply, move by move from the initial position, does not raise. *)
Replays(sc, path, benched) ==
    \A k \in DOMAIN path :
        path[k] \in Legal(sc, SubSeq(path, 1, k - 1), benched)

-----------------------------------------------------------------------------
(* BenchmarkSuite.evaluate *)

(* The weighted mean of metric i over the path, in ten-thousandths. *)
Mean(path, i) ==
    FoldFunction(+, 0, [k \in DOMAIN path |->
                            Move[path[k]].receipt[i] * PhaseImportance[k]])

Composite(path) ==
    FoldFunction(+, 0, [i \in DOMAIN Metrics |-> Weight[i] * Mean(path, i)])

(* Mutant: any answer counts as a proof, trusted or not. *)
FeasibleUntrusted(path) ==
    \/ Abstained(path)
    \/ /\ Committed(path) /\ OpenQuestions(path) = {}
       /\ Len(path) = Len(PhaseImportance)

(* No gate failure; an abstention has no effect and passes every gate. *)
Feasible(path) ==
    \/ Abstained(path)
    \/ /\ Committed(path)
       /\ OpenQuestions(path) = {}
       /\ Len(path) = Len(PhaseImportance)
       /\ \E m \in MovesOf(path) : m.evidence
       /\ \A m \in MovesOf(path) :
            /\ ~m.violates
            /\ m.receipt[SafetyIndex] >= CriticalSafety
       /\ \A i \in DOMAIN Metrics : Mean(path, i) >= 100 * HardMinimum[i]

AtLeast(a, b) == IF a >= b THEN a ELSE b

CostPenalty(path) == 100 * CostWeight * SpentCost(path)

(* The reward, in millionths; the fallback spends no cost. *)
Reward(path) ==
    IF Abstained(path)
    THEN AtLeast(-1000000, AbstainReward - CostPenalty(path))
    ELSE IF Feasible(path)
    THEN AtLeast(-1000000, 2 * Composite(path) - 1000000 - CostPenalty(path))
    ELSE ViolationReward

(* Every path of moves of the table that a scenario could have. *)
Paths ==
    {p \in UNION {[1..n -> DOMAIN Move] : n \in 0..Len(PhaseKinds)} :
        \A k \in DOMAIN p : Move[p[k]].kind \in PhaseKinds[k]}

(* What the table of moves comes to, a closed formula that holds by
   computation: costs add up to a number, rewards are numbers, and a commit
   that passes every gate is worth more than an abstention. *)
ASSUME FixtureArithmetic ==
    \A p \in Paths \union {SystemAbstain} :
        /\ SpentCost(p) \in Nat /\ Reward(p) \in Int
        /\ Committed(p) /\ Feasible(p) => Reward(p) > AbstainReward

-----------------------------------------------------------------------------
(* The agent records of the shadow league *)

(* receipt_move_quality, in ten-thousandths *)
Quality(id) ==
    FoldFunction(+, 0, [i \in DOMAIN Metrics |->
                            Weight[i] * Move[id].receipt[i]])

(* The moves shadow_benchmark_agents observes of an actor, in its order. *)
Observed(sc, actor) ==
    SelectSeq(sc[1] \o sc[2] \o sc[3] \o sc[4],
              LAMBDA id : Move[id].actor = actor /\ Move[id].kind # "ABSTAIN")

Total(ids) == FoldFunction(+, 0, [k \in DOMAIN ids |-> Quality(ids[k])])

(* AgentRecord after n observations of total quality q: are there enough
   samples, and is mean + 1.64 * standard_deviation < bench_upper_threshold?
   Both sides are squared and divided by alpha + beta to stay in range. *)
BelowThreshold(n, q) ==
    LET sum == n + 2
        alpha == 100 + q \div 100
        beta == 100 * sum - alpha
        slack == BenchUpperThreshold * sum - alpha
    IN /\ n >= BenchMinSamples
       /\ slack > 0
       /\ 269 * ((alpha * beta) \div (100 * sum))
            < (slack * slack * (sum + 1)) \div sum

(* Does an observation of the r-th shadow round bench the actor? *)
BenchedIn(sc, actor, r) ==
    LET ids == Observed(sc, actor) IN
    \E j \in DOMAIN ids :
        BelowThreshold((r - 1) * Len(ids) + j,
                       (r - 1) * Total(ids) + Total(SubSeq(ids, 1, j)))

Actors(sc) == {Move[id].actor : id \in UNION {Range(sc[k]) : k \in DOMAIN sc}}

(* The actors shadow_benchmark_agents benches in its r-th round. *)
NewlyBenched(sc, benched, r) ==
    {a \in Actors(sc) \ benched : BenchedIn(sc, a, r)}

=============================================================================
