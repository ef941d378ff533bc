------------------------------ MODULE MCBenchmark ------------------------------
EXTENDS Benchmark, TLC

CONSTANTS i1, i2, m1, m2

MCWeight == <<1, 2>>

(* Each image solves one case with each of the modules: a run that mixed the
   images could claim both, and one that mixes the modules does. *)
MCPasses ==
    [i \in Images |-> [m \in Modules |-> [s \in Suites |->
        IF (i = i1) = (m = m1) THEN {1} ELSE {2}]]]

Symmetry ==
    Permutations(Threads) \union Permutations(Keys) \union Permutations(Suites)

=============================================================================
