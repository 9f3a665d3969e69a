--------------------------- MODULE MCServerSession ---------------------------
(***************************************************************************)
(* Streams of terminal output for the small instances of ServerSession.     *)
(* In a text stream every byte is a character.  In an escape               *)
(* stream byte 1 is a character, bytes 2 to 4 are one sequence (ESC [ m) and *)
(* the rest is text; find_safe_split_point records a point before a          *)
(* character and after a sequence, but none right before an ESC.             *)
(***************************************************************************)
EXTENDS ServerSession

TextAt         == 0 .. MaxBytes
EscapeSafeAt   == {0} \cup 4 .. MaxBytes
EscapeBoundary == {0, 1} \cup 4 .. MaxBytes
=============================================================================
