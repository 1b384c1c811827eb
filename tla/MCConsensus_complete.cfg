\* Three boards, three iterations; the bus loses solutions.
CONSTANTS
    N = 3
    Iterations = 3
    Delay = 2
    Lossy <- SolutionsLost
SPECIFICATION FairSpec
INVARIANTS
    IInv
    CopiesExact
    OthersHaveIt
    Agreement
PROPERTIES
    ExchangeSpec
    Completes
