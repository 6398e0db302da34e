SPECIFICATION Spec
CONSTANTS
    Bonding = TRUE
    s1 = s1
    s2 = s2
    ip1 = ip1
    ip2 = ip2
    Sessions = {s1, s2}
    NoSession = NoSession
    Anycast = anycast
    Offer <- OwnImpatient
    ConfInterval = 0
    ConfRetries = 0
    MaxMissed = 255
    AcceptsClosed = TRUE
    FilterLists <- NoFilterList
    DeviceFaults <- NoFaults
    MaxTime = 4
VIEW Unhistoric
INVARIANTS
    TunnelsShareSession
    SessionIffUp
    JoinNamesSession
    StatsReset
PROPERTIES
    SessionStable
    KeepsPromise
