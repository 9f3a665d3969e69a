\* The Rust client: a read timeout in the middle of a packet. The connection may end.
CONSTANTS
    N = 3
    Header = 2
    Size <- MCSize
    Starts <- MCStarts
    NetBufs = {4, 5}
    Garbage = 1
    Readers = {"exact"}
SPECIFICATION Spec
INVARIANTS
    FramesIntact
CHECK_DEADLOCK FALSE
