\* Bytes 2 to 4 are one escape sequence; the shell never exits within the
\* counterexample. The session may stop.
CONSTANTS
    MaxBytes = 6
    MaxChunk = 3
    Cap = 2
    Burst = 3
    TokenUnit = 2
    Rate = 1
    Elapsed = {1, 3}
    CompressMin = 2
    AtomicSizes = {1, 4}
    MaxAtomic = 4
    SafeAt <- EscapeSafeAt
    Boundary <- EscapeBoundary
    WireCap = 2
    MaxPackets = 0
    MayPanic = FALSE
    MayReject = FALSE
SPECIFICATION Spec
PROPERTIES
    SyncUntilExit
CHECK_DEADLOCK FALSE
