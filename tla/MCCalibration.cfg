\* Three boards, two duty cycles; boards start apart and the bus loses SYNs.
CONSTANTS
    N = 3
    Lossy <- RequestsLost
    Samples = 2
    Wait = 2
    WaitLed = 3
    Settle = 2
    MaxSkew = 1
SPECIFICATION FairSpec
INVARIANTS
    DarkIsDark
    SamplesIdeal
    OneLamp
PROPERTIES
    Calibrates
