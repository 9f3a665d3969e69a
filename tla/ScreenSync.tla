------------------------------ MODULE ScreenSync ------------------------------
(***************************************************************************)
(* What a session promises the user: the client's terminal shows a screen   *)
(* the remote application really produced, possibly an old one, and never   *)
(* goes back.  Output may be skipped on the way (flood protection), but the *)
(* terminal never shows a mixture.                                          *)
(***************************************************************************)
EXTENDS Integers

Garbled == -1

VARIABLES
    screen,   \* number of bytes the application has printed
    exited,   \* the application has exited
    shown     \* the terminal shows the screen of the first shown bytes

Init == screen = 0 /\ exited = FALSE /\ shown = 0

Output ==
    /\ ~exited
    /\ screen' \in Nat /\ screen' > screen
    /\ UNCHANGED <<exited, shown>>

Exit ==
    /\ ~exited
    /\ exited' = TRUE
    /\ UNCHANGED <<screen, shown>>

Show ==
    /\ shown # Garbled
    /\ shown' \in Nat /\ shown <= shown' /\ shown' <= screen
    /\ UNCHANGED <<screen, exited>>

\* The last words of the application may arrive out of context.
SpoilAtExit ==
    /\ exited
    /\ shown' = Garbled
    /\ UNCHANGED <<screen, exited>>

Next == Output \/ Exit \/ Show

\* The promise up to the application's exit.
UntilExitSpec == Init /\ [][Next \/ SpoilAtExit]_<<screen, exited, shown>>
=============================================================================
