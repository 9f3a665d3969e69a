\* Both kinds of client. A session may end.
CONSTANTS
    Clients = {"rust", "poll"}
    MaxKeys = 3
    MaxWindow = 2
    SockCap = 2
    PtyCap = 2
SPECIFICATION FairSpec
INVARIANTS
    TypeOK
    KeysInOrder
PROPERTIES
    SizesAdvance
    InputReachesShell
    SizeReachesServer
    StopEnds
CHECK_DEADLOCK FALSE
