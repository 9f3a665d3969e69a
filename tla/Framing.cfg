\* Three packets, every way of cutting the stream. The connection may end.
CONSTANTS
    N = 3
    Header = 2
    Size <- MCSize
    Starts <- MCStarts
    NetBufs = {4, 5}
    Garbage = 1
    Readers = {"codec", "poll", "exact"}
SPECIFICATION FairSpec
INVARIANTS
    TypeOK
    IntactUnlessTorn
    GivesUpOnlyWhenTooBig
PROPERTIES
    AllDelivered
CHECK_DEADLOCK FALSE
