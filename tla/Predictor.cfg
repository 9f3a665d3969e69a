\* Both threads, both pages, cut sequences, lines of four cells.
CONSTANTS
    Chars = {"x"}
    Blank = "."
    Width = 4
    MaxRead = 1
SPECIFICATION Spec
INVARIANTS
    TypeOK
    EchoIsOverlay
    SuspendedOnAlternatePage
