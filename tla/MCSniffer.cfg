\* Bytes of two bits, frames of up to four bytes.
CONSTANTS
    Bits = 2
    Word = 16
    MaxBytes = 4
    MaxQueue = 2
    MidFrame = TRUE
SPECIFICATION Spec
INVARIANTS
    InStep
PROPERTIES
    TapSpec
