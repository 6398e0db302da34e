SPECIFICATION FairSpec
CONSTANTS
    Modulus = 8
    Stream = 5
    Timeout = 3
    Lag = 2
    Capacity = 5
    InOrderStart = TRUE
    Duplicates = FALSE
INVARIANTS
    TypeOK
    FreedOnce
    GivenUpForHeld
    DroppedOnlyLate
PROPERTIES
    DeliversInOrder
    OutputRises
    NothingOverdue
    NotHeldForever
