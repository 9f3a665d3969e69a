\* Every input is finished, so the run stops.
CONSTANTS
    MaxPieces = 3
    MaxPayload = 15
    U32 = 1073741824
    DecompressRoom = 12
SPECIFICATION Spec
INVARIANTS
    SplitMatches
    StripMatches
    StripUnchunked
    PacketsExact
    ClientsAgree
CHECK_DEADLOCK FALSE
