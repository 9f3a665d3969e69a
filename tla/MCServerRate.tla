----------------------------- MODULE MCServerRate -----------------------------
(* ServerRate on a stream whose bytes 2 to 4 are one escape sequence.  Ticks
   may follow each other at once, as they do after a long wait in send(). *)
EXTENDS ServerRate

EscapeSafeAt   == {0} \cup 4 .. MaxBytes
EscapeBoundary == {0, 1} \cup 4 .. MaxBytes
AnyElapsed     == 0 .. MaxTime
=============================================================================
