\* Two boards, one iteration; the bus may lose an acknowledgement.
CONSTANTS
    N = 2
    Iterations = 1
    Delay = 1
    Lossy <- AcknowledgementsLost
SPECIFICATION FairSpec
PROPERTIES
    EveryNodeHasEverySolution
