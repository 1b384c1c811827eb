\* Two desks, three entries, a minute of one millisecond; half of the range is three.
CONSTANTS
    N = 2
    Minute = 1
    Modulus = 6
    MaxTime = 5
    MaxEntries = 3
    Lux = {0, 1, 2}
    Ref = {1}
    Duty = {0, 1}
    Other = {1}
    Word <- Words
SPECIFICATION Spec
INVARIANTS
    EnergyIsIntegral
    LastMinuteIsRun
    TotalsAgree
    RefusedHasNoEffect
