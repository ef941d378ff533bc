-------------------------------- MODULE Search --------------------------------
(***************************************************************************)
(* One policy model of engine.py and what is done with it: PUCTSearch over *)
(* a frozen copy of the model, learn_from_result of a result that search   *)
(* returned, and shadow_benchmark_agents, which observes every actor and   *)
(* benches the unreliable ones for good.                                   *)
(*                                                                         *)
(* A node of the search tree is the path of moves that leads to it.  What  *)
(* the floating-point priors, root noise, values and PUCT scores decide,   *)
(* namely which unexpanded move is popped and which child is selected, is  *)
(* a nondeterministic choice.  The learned weights are left out: only how  *)
(* often they were updated is kept, and a model version is the model.      *)
(***************************************************************************)
EXTENDS Fixture, FiniteSetsExt

CONSTANTS
    Scenarios,    \* the scenarios a behaviour may be about
    Budgets,      \* the simulations a search may be asked for
    StartRounds,  \* shadow rounds in the records the model is loaded with
    MaxRounds,    \* bound on the shadow rounds
    MaxSearches   \* bound on the searches

ASSUME SearchAssumption ==
    /\ \A sc \in Scenarios : ScenarioOK(sc)
    /\ Budgets \subseteq Nat \ {0}
    /\ StartRounds \subseteq 0..MaxRounds /\ MaxSearches \in Nat

VARIABLES
    scenario,  \* the scenario, which never changes
    model,     \* PolicyValueModel: generation, value_updates, agent records
    search,    \* the PUCTSearch at work, with its tree
    searches,  \* the searches made so far
    results,   \* the SearchResults handed out
    learned    \* the results the model learned from, in order, and the shadow
               \* rounds it had seen by then (ghost)

vars == <<scenario, model, search, searches, results, learned>>

(* No search is under way: its pc is "idle", and what else it holds is from
   the last one. *)
NoSearch(m) ==
    [pc |-> "idle", model |-> m, budget |-> 0, tree |-> [p \in {<<>>} |-> 0]]

(* The agents benched by n shadow rounds. *)
BenchedBy(sc, n) ==
    {a \in Actors(sc) : \E r \in 1..n : a \in NewlyBenched(sc, {}, r)}

Init ==
    /\ scenario \in Scenarios
    /\ \E n \in StartRounds :
         model = [generation |-> 0, updates |-> 0, rounds |-> n,
                  benched |-> BenchedBy(scenario, n)]
    /\ search = NoSearch(model)
    /\ searches = 0
    /\ results = {}
    /\ learned = <<>>

-----------------------------------------------------------------------------
(* The tree *)

Tree == search.tree

Nodes == DOMAIN Tree

Children(p) == {q \in Nodes : Len(q) = Len(p) + 1 /\ IsPrefix(p, q)}

(* _initialise: what the search may play at a node. *)
Candidates(p) == Legal(scenario, p, search.model.benched)

(* The moves of node.unexpanded. *)
Unexpanded(p) == {m \in Candidates(p) : Append(p, m) \notin Nodes}

(* Selection descends through nodes that have no unexpanded move. *)
Selectable(p) ==
    \A q \in Prefixes(p) \ {p} : Unexpanded(q) = {}

(* Mutant: a new child is not part of the path that is backed up. *)
BackedUpParents(p) ==
    [q \in Nodes \union {p} |->
        (IF q \in Nodes THEN Tree[q] ELSE 0)
        + (IF q \in Prefixes(p) /\ (q \in Nodes) THEN 1 ELSE 0)]

(* The tree after a simulation that ends at node p, new or not. *)
BackedUp(p) ==
    [q \in Nodes \union {p} |->
        (IF q \in Nodes THEN Tree[q] ELSE 0)
        + (IF q \in Prefixes(p) THEN 1 ELSE 0)]

(* Where a simulation may end: at a terminal node, at a new child, or where
   the benched agents left no move. *)
Leaves ==
    UNION {IF Unexpanded(p) # {}
           THEN {Append(p, m) : m \in Unexpanded(p)}
           ELSE IF Candidates(p) = {} THEN {p} ELSE {}
           : p \in {n \in Nodes : Selectable(n)}}

-----------------------------------------------------------------------------
(* What a search returns *)

(* _terminal_nodes that pass every gate. *)
FeasibleTerminals == {p \in Nodes : Terminal(p) /\ Feasible(p)}

(* The order of max: reward, then cost, then visits. *)
Better(p, q) ==
    \/ Reward(p) > Reward(q)
    \/ /\ Reward(p) = Reward(q)
       /\ \/ SpentCost(p) < SpentCost(q)
          \/ SpentCost(p) = SpentCost(q) /\ Tree[p] > Tree[q]

Best ==
    {p \in FeasibleTerminals : \A q \in FeasibleTerminals : ~Better(q, p)}

(* Mutant: the candidates of a target are the children of its node. *)
TargetsExpanded(path) ==
    [q \in {n \in Prefixes(path) \ {path} : n \in Nodes /\ Children(n) # {}}
        |-> {Last(c) : c \in Children(q)}]

(* The policy targets: for every node above the terminal one that has a visit
   target, the candidates it was chosen from. *)
Targets(path) ==
    [q \in {n \in Prefixes(path) \ {path} : n \in Nodes /\ Children(n) # {}}
        |-> Candidates(q)]

SearchResult(path) ==
    [version |-> search.model, path |-> path, reward |-> Reward(path),
     feasible |-> Feasible(path),
     targets |-> IF path = SystemAbstain THEN <<>> ELSE Targets(path)]

-----------------------------------------------------------------------------
(* Actions *)

(* PUCTSearch.__init__ takes a frozen copy of the model. *)
Construct(budget) ==
    /\ search.pc = "idle" /\ searches < MaxSearches
    /\ search' = [NoSearch(model) EXCEPT !.pc = "made", !.budget = budget]
    /\ searches' = searches + 1
    /\ UNCHANGED <<scenario, model, results, learned>>

(* One pass of the loop of run. *)
Simulate ==
    /\ search.pc \in {"made", "running"}
    /\ Tree[<<>>] < search.budget
    /\ \E p \in Leaves :
         search' = [search EXCEPT !.pc = "running", !.tree = BackedUp(p)]
    /\ UNCHANGED <<scenario, model, searches, results, learned>>

(* The end of run: the best feasible terminal, or the system's abstention. *)
Finish ==
    /\ search.pc = "running"
    /\ Tree[<<>>] = search.budget
    /\ \E p \in IF Best # {} THEN Best ELSE {SystemAbstain} :
         results' = results \union {SearchResult(p)}
    /\ search' = [search EXCEPT !.pc = "idle"]
    /\ UNCHANGED <<scenario, model, searches, learned>>

(* Nothing else runs in the thread while a search runs. *)
Quiet == search.pc # "running"

(* Mutant: only the generations are compared. *)
AcceptsGeneration(r) ==
    /\ r.version.generation = model.generation
    /\ r.path # SystemAbstain => Replays(scenario, r.path, model.benched)
    /\ Terminal(r.path)
    /\ r.reward = Reward(r.path) /\ r.feasible = Feasible(r.path)
    /\ DOMAIN r.targets \subseteq Prefixes(r.path) \ {r.path}
    /\ \A q \in DOMAIN r.targets :
         r.targets[q] = Legal(scenario, q, model.benched)

(* The checks of learn_from_result: the version, the replay of the path and
   its score, and the candidates of every target. *)
Accepts(r) ==
    /\ r.version = model
    /\ r.path # SystemAbstain => Replays(scenario, r.path, model.benched)
    /\ Terminal(r.path)
    /\ r.reward = Reward(r.path) /\ r.feasible = Feasible(r.path)
    /\ DOMAIN r.targets \subseteq Prefixes(r.path) \ {r.path}
    /\ \A q \in DOMAIN r.targets :
         r.targets[q] = Legal(scenario, q, model.benched)

(* learn_value once for each target, or once for the initial position. *)
Updates(r) == Max({1, Cardinality(DOMAIN r.targets)})

Learn(r) ==
    /\ Quiet
    /\ Accepts(r)
    /\ model' = [model EXCEPT !.generation = @ + 1,
                              !.updates = @ + Updates(r)]
    /\ learned' = Append(learned, [result |-> r, rounds |-> model.rounds])
    /\ UNCHANGED <<scenario, search, searches, results>>

(* ValueError: the model is as it was. *)
LearnRefused(r) ==
    /\ Quiet
    /\ ~Accepts(r)
    /\ UNCHANGED vars

(* shadow_benchmark_agents *)
Shadow ==
    /\ Quiet /\ model.rounds < MaxRounds
    /\ model' = [model EXCEPT
                    !.rounds = @ + 1,
                    !.benched = @ \union
                        NewlyBenched(scenario, @, model.rounds + 1)]
    /\ UNCHANGED <<scenario, search, searches, results, learned>>

Next ==
    \/ \E b \in Budgets : Construct(b)
    \/ Simulate
    \/ Finish
    \/ \E r \in results : Learn(r) \/ LearnRefused(r)
    \/ Shadow

Spec == Init /\ [][Next]_vars

-----------------------------------------------------------------------------
(* Properties *)

(* The visits of the children of a node, one by one. *)
VisitsBelow(p) == UNION {{q} \X (1..Tree[q]) : q \in Children(p)}

(* Backpropagation loses and invents nothing: the root was visited once per
   simulation, every other node once when it was expanded and then exactly as
   often as its children, and no node has grandchildren while a legal move of
   it was never tried.  Policy targets are these counts. *)
VisitsConserved ==
    search.pc = "running" =>
        \A p \in Nodes :
            /\ p # <<>> => Tree[p] >= 1
            /\ Candidates(p) # {} =>
                 Tree[p] = Cardinality(VisitsBelow(p))
                            + (IF p = <<>> THEN 0 ELSE 1)
            /\ (\E q \in Children(p) : Children(q) # {}) => Unexpanded(p) = {}

(* What a search hands out is never worse than what it saw, and never unsafe:
   a result is feasible, so hard_gate_failures of an evaluation
   (learner.py) is always zero; no feasible terminal of the tree has a higher
   reward; and a commit is worth more than abstaining, cites trusted evidence
   and holds no violation, no critically unsafe move and no move of an agent
   that was benched when the search began. *)
NeverUnsafe ==
    /\ \A r \in results :
         /\ r.feasible
         /\ Committed(r.path) =>
              /\ r.reward > AbstainReward
              /\ \E m \in MovesOf(r.path) : m.evidence
              /\ \A m \in MovesOf(r.path) :
                   /\ ~m.violates /\ m.actor \notin r.version.benched
                   /\ m.receipt[SafetyIndex] >= CriticalSafety
    /\ (search.pc = "idle" /\ searches > 0) =>
         \E r \in results :
            /\ r.version = search.model
            /\ \A p \in Nodes :
                 Terminal(p) /\ Feasible(p) => Reward(p) <= r.reward

(* A search and the learner agree on the rules: a result that the current
   model produced is never refused, however the tree grew and whoever had been
   benched when the search began. *)
OwnResultAccepted ==
    \A r \in results : r.version = model => Accepts(r)

(* value_updates after the first k of the results ls were learned *)
UpdatesAfter(ls, k) ==
    IF k = 0 THEN 0 ELSE ls[k].result.version.updates + Updates(ls[k].result)

(* Every generation was learned from one result that its direct predecessor
   produced, with no shadow round between that search and the learning: no
   generation is skipped, no result learned twice or from records it did not
   see; and value_updates counts the targets of exactly these results. *)
LearnedInOrder ==
    /\ model.generation = Len(learned)
    /\ model.updates = UpdatesAfter(learned, Len(learned))
    /\ \A k \in DOMAIN learned :
         LET v == learned[k].result.version IN
         /\ v.generation = k - 1
         /\ v.updates = UpdatesAfter(learned, k - 1)
         /\ v.rounds = learned[k].rounds

(* A simulation always has somewhere to end, so that the loop of run is never
   stuck: descending through fully expanded nodes leads to a node with an
   untried move or with none at all, whoever is benched. *)
SimulationEnds == Leaves # {}

-----------------------------------------------------------------------------
(* The inductive invariant *)

Agents == {Move[id].actor : id \in DOMAIN Move}

Models == [generation : Nat, updates : Nat, rounds : Nat,
           benched : SUBSET Agents]

TypeOK ==
    /\ scenario \in Scenarios
    /\ model \in Models
    /\ DOMAIN search = {"pc", "model", "budget", "tree"}
    /\ search.pc \in {"idle", "made", "running"}
    /\ search.model \in Models
    /\ searches \in Nat
    /\ learned \in Seq([result : results, rounds : Nat])

(* The tree holds the prefixes of its nodes and only legal paths, and its
   counts are those of VisitsConserved, whatever the search is doing. *)
TreeOK ==
    /\ IsFiniteSet(Nodes) /\ <<>> \in Nodes
    /\ \A p \in Nodes :
         /\ p \in Seq(DOMAIN Move) /\ Tree[p] \in Nat
         /\ Prefixes(p) \subseteq Nodes
         /\ Replays(scenario, p, search.model.benched)
         /\ p # <<>> => Tree[p] >= 1
         /\ Candidates(p) # {} =>
              Tree[p] = Cardinality(VisitsBelow(p))
                         + (IF p = <<>> THEN 0 ELSE 1)
         /\ (\E q \in Children(p) : Children(q) # {}) => Unexpanded(p) = {}

(* What was handed out is what Accepts looks for, but for the version. *)
ResultOK(r) ==
    /\ r.version \in Models
    /\ \/ r.path = SystemAbstain
       \/ /\ r.path \in Seq(DOMAIN Move)
          /\ Replays(scenario, r.path, r.version.benched)
    /\ Terminal(r.path) /\ Feasible(r.path)
    /\ r.reward = Reward(r.path) /\ r.feasible = Feasible(r.path)
    /\ DOMAIN r.targets \subseteq Prefixes(r.path) \ {r.path}
    /\ \A q \in DOMAIN r.targets :
         r.targets[q] = Legal(scenario, q, r.version.benched)

(* The best of the tree was handed out when the search ended. *)
BestHandedOut ==
    (search.pc = "idle" /\ searches > 0) =>
        \E r \in results :
            /\ r.version = search.model
            /\ \A p \in Nodes :
                 Terminal(p) /\ Feasible(p) => Reward(p) <= r.reward

SearchInv ==
    /\ TypeOK
    /\ TreeOK
    /\ \A r \in results : ResultOK(r)
    /\ BestHandedOut
    /\ LearnedInOrder

=============================================================================
