SPECIFICATION Spec

CONSTANTS
    Scenarios <- MCScenarios
    Budgets = {4, 9}
    StartRounds = {9}
    MaxRounds = 10
    MaxSearches = 2

INVARIANTS
    VisitsConserved
    NeverUnsafe
    OwnResultAccepted
    LearnedInOrder

CHECK_DEADLOCK FALSE
