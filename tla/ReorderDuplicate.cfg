SPECIFICATION Spec
CONSTANTS
    Modulus = 8
    Stream = 4
    Timeout = 2
    Lag = 1
    Capacity = 4
    InOrderStart = TRUE
    Duplicates = TRUE
INVARIANTS
    GivenUpForHeld
