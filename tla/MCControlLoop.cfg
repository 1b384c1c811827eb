\* Three measurements, two references and one torn between them.
CONSTANTS
    KP = 1
    K2 = 1
    FF0 = 1
    BFF <- Intercept
    SatMin = 0
    SatMax = 4
    DeadZone = 1
    Lux = {0, 2, 4}
    Factors <- SomeFactors
    Ref = {0, 3}
    Torn = {4}
    MaxLux = 4
    Recovery = 3
    MaxLoose = 2
SPECIFICATION Spec
INVARIANTS
    NeverInverted
    WindupBounded
    Unwinds
PROPERTIES
    RestInDeadzone
