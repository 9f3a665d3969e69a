\* Two overflows, any window, fractions of tokens, any time in send(). The session
\* may stop.
CONSTANTS
    MaxBytes = 6
    MaxChunk = 3
    Cap = 2
    Burst = 2
    TokenUnit = 2
    Rate = 3
    Elapsed <- AnyElapsed
    CompressMin = 6
    AtomicSizes = {1, 4}
    MaxAtomic = 4
    SafeAt <- EscapeSafeAt
    Boundary <- EscapeBoundary
    WireCap = 1
    MaxPackets = 0
    MayPanic = FALSE
    MayReject = FALSE
    MaxTime = 4
SPECIFICATION RateSpec
INVARIANTS
    TokensConserved
    WindowBound
CHECK_DEADLOCK FALSE
