SPECIFICATION FairSpec
CONSTANTS
    Bonding = FALSE
    s1 = s1
    s2 = s2
    ip1 = ip1
    ip2 = ip2
    Sessions = {s1}
    NoSession = NoSession
    Anycast = anycast
    Offer <- OneHaap
    ConfInterval = 0
    ConfRetries = 0
    MaxMissed = 1
    AcceptsClosed = TRUE
    FilterLists <- NoFilterList
    DeviceFaults <- NotSkipped
    MaxTime = 6
INVARIANTS
    TypeOK
    NoDeviceLeft
    KnownDeviceExists
PROPERTIES
    ExitsThisPass
    TerminationHonoured
