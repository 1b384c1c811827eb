\* Two desks: two packets, a reset, two sessions.
CONSTANTS
    N = 2
    Session = {s1, s2}
    Epoch = 3
    Modulus = 16
    MaxTime = 2
    MaxPackets = 2
    MaxResets = 1
SYMMETRY Sessions
SPECIFICATION Spec
INVARIANTS
    LogInOrder
    ComfortOverLog
    LatestReport
    StreamsForward
