SPECIFICATION FairSpec
CONSTANTS
    Sessions = {s1}
    NoSession = NoSession
    LeaseTimes <- OneSecond
    Faults <- AllFaults
INVARIANTS
    UsersHaveDevice
    LeaseHasSession
    ClientOrLease
    NoStrayClient
    AnnouncedIffHeld
PROPERTIES
    DownAfterUp
    LostWithSession
    BoundIsTaken
