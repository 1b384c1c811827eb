\* Two nodes, two iterations, gains that include none at all.
CONSTANTS
    N = 2
    MaxDC = 4
    Slope = 3
    Gains <- Rows
    Targets <- Lights
    Averages <- SomePairs
    Iterations = 2
    Grid <- Squares
SPECIFICATION Spec
INVARIANTS
    BestIsFeasible
    FindsIfPossible
    BestIsMinimum
CHECK_DEADLOCK FALSE
