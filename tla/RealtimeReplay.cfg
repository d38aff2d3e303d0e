CONSTANTS
    Limit = 2
    MaxEvents = 4
    MaxDials = 2
    MaxFaults = 1
SPECIFICATION FairSpec
INVARIANTS
    TypeOK
    SessionComplete
    CursorsWereSeen
PROPERTIES
    EventuallyHandled
CHECK_DEADLOCK FALSE
