\* Plain text, sized before the first output: the screen promise, up to the exit
\* of the shell.
\* The session may stop.
CONSTANTS
    MaxBytes = 7
    MaxChunk = 3
    Cap = 2
    Burst = 3
    TokenUnit = 2
    Rate = 1
    Elapsed = {1, 3}
    CompressMin = 2
    AtomicSizes = {1, 4}
    MaxAtomic = 4
    SafeAt <- TextAt
    Boundary <- TextAt
    WireCap = 2
    MaxPackets = 1
    MayPanic = FALSE
    MayReject = TRUE
SPECIFICATION EarlySizeSpec
INVARIANTS
    DropsAreOwed
    NoHoles
    RawFramesFit
    ExitDrains
PROPERTIES
    SyncUntilExit
CHECK_DEADLOCK FALSE
