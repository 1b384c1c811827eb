\* Two requests and two updates of a stream.
CONSTANTS
    MaxRequests = 2
    MaxUpdates = 2
SPECIFICATION FairSpec
INVARIANTS
    AnswersInOrder
    OneOwner
PROPERTIES
    Answered
    Released
CHECK_DEADLOCK FALSE
