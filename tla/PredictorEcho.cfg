\* Both threads, both pages, cut sequences, lines of three cells.
CONSTANTS
    Chars = {"x"}
    Blank = "."
    Width = 3
    MaxRead = 1
SPECIFICATION Spec
INVARIANTS
    EchoSettles
