\* Two boards, three commands typed at any time.
CONSTANTS
    N = 2
    Lossy = {}
    Iterations = 2
    Delay = 2
    Samples = 1
    Wait = 1
    WaitLed = 2
    Settle = 2
    MaxCommands = 3
SPECIFICATION FairSpec
INVARIANTS
    TypeOK
    CommandsTakeEffect
    NoCrossTalk
    NoControlWhileMeasuring
    SameConsensus
PROPERTIES
    Recovers
CHECK_DEADLOCK FALSE
