\* Two endpoints, two lines from the server, two lines typed.
CONSTANTS
    Endpoints = 2
    MaxReceived = 2
    MaxTyped = 2
SPECIFICATION FairSpec
INVARIANTS
    TriesAll
PROPERTIES
    GivesUp
    WindsDown
CHECK_DEADLOCK FALSE
