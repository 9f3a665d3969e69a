\* Escape sequences, a resize, panics of the vt100 library, bad packets and
\* a client that may quit at any time. The session may stop.
CONSTANTS
    MaxBytes = 6
    MaxChunk = 3
    Cap = 2
    Burst = 3
    TokenUnit = 2
    Rate = 1
    Elapsed = {0, 1, 3}
    CompressMin = 2
    AtomicSizes = {1, 4}
    MaxAtomic = 4
    SafeAt <- EscapeSafeAt
    Boundary <- EscapeBoundary
    WireCap = 2
    MaxPackets = 1
    MayPanic = TRUE
    MayReject = TRUE
SPECIFICATION Spec
INVARIANTS
    TypeOK
    FramesAdvance
    OverdraftIsBounded
PROPERTIES
    ShownAdvances
CHECK_DEADLOCK FALSE
