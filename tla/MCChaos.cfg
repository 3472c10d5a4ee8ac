\* Two clients with up to three requests per driver, two scenarios one after the
\* other in every combination, every way a scenario can end.
CONSTANTS
    Workers = {c1, c2}
    MaxOutcomes = 3
    MaxScenarios = 2
SYMMETRY Symmetry
SPECIFICATION ChaosSpec
CHECK_DEADLOCK FALSE
INVARIANTS
    GreenIsClean
    NothingLeftBehind
