\* As before, with the minimum at the boundary at zero.
CONSTANTS
    N = 2
    MaxDC = 4
    Slope = 3
    Gains <- Rows
    Targets <- Lights
    Averages <- SomePairs
    Iterations = 2
    Grid <- Squares
SPECIFICATION Spec
INVARIANTS
    CornerIsMinimum
CHECK_DEADLOCK FALSE
