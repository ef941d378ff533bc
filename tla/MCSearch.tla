------------------------------- MODULE MCSearch -------------------------------
EXTENDS Search

(* The first scenario has a critically unsafe proposal (S3), an unverified
   answer whose actor is benched after ten rounds (A3), a commit and an
   explicit abstention; the second has no feasible commit, and no legal
   answer once Momentum is benched; the third has feasible commits of
   different rewards. *)
MCScenarios ==
    { << <<"S1", "S3">>, <<"Q1">>, <<"A1", "A3">>, <<"D1", "D0">> >>,
      << <<"S1">>, <<"Q1">>, <<"A3">>, <<"D1", "D2">> >>,
      << <<"S1">>, <<"Q1", "Q2">>, <<"A1", "A2">>, <<"D1", "D2", "D3">> >> }

=============================================================================
