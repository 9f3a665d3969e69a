\* The three clients, with signals. A client may be gone.
CONSTANTS
    Clients = {"rust", "c", "cpp"}
    MaxAttempts = 3
    MaySignal = TRUE
    Rates = {0, 50, 2000}
SPECIFICATION FairSpec
INVARIANTS
    TypeOK
    OrphansExplained
    StraysExplained
    TerminalRestored
PROPERTIES
    LaunchDecides
    ServerEnds
CHECK_DEADLOCK FALSE
