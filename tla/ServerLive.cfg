\* Escape sequences no longer than the burst, half-byte tokens, a
\* resize or input, a client that may stop reading. The session may stop.
CONSTANTS
    MaxBytes = 6
    MaxChunk = 3
    Cap = 4
    Burst = 4
    TokenUnit = 2
    Rate = 1
    Elapsed = {1, 3}
    CompressMin = 6
    AtomicSizes = {5}
    MaxAtomic = 5
    SafeAt <- EscapeSafeAt
    Boundary <- EscapeBoundary
    WireCap = 1
    MaxPackets = 1
    MayPanic = FALSE
    MayReject = FALSE
SPECIFICATION FairSpec
PROPERTIES
    OutputReachesClient
    SessionEnds
CHECK_DEADLOCK FALSE
