--------------------------- MODULE MCPolicyRegistry ---------------------------
(* PolicyRegistry with four artifacts that improve on one another, for TLC. *)
EXTENDS PolicyRegistry, TLC

CONSTANTS a1, a2, a3, a4

(* Rewards in thousandths: each artifact gains 30 on the one before it, so the
   offline gate (20) accepts every step up and no step down. *)
MCSummary ==
    [x \in Artifacts \union {None} |->
        [reward |-> CASE x = None -> 0 [] x = a1 -> 30 [] x = a2 -> 60
                      [] x = a3 -> 90 [] x = a4 -> 120,
         hard |-> IF x = None THEN 1 ELSE 0, abstained |-> 0, evals |-> 8]]

(* Hidden scores: all meet the threshold on the first suite, but a4, the best
   on the offline gate, may replace neither a2 nor a3; a1 fails on a
   second suite and a4 is no worse than a2 and a3 there. *)
FirstSuite == CHOOSE u \in Suites : TRUE

MCScore ==
    [a \in Artifacts |-> [u \in Suites |->
        IF u = FirstSuite THEN (IF a \in {a1, a4} THEN 6 ELSE 7)
        ELSE IF a = a1 THEN 5 ELSE IF a = a2 THEN 6 ELSE 7]]

(* Threads and subjects are interchangeable. *)
Symmetry == Permutations(Threads) \union Permutations(Subjects)
=============================================================================
