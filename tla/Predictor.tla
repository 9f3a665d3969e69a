------------------------------ MODULE Predictor ------------------------------
(***************************************************************************)
(* Local echo of the Rust client (src/predictive.rs) and the two threads     *)
(* that share it: the stdin thread draws typed characters at the cursor of   *)
(* the terminal, the receiver thread inspects each frame under the lock of   *)
(* the predictor and writes it to the terminal after it has released that    *)
(* lock (src/client.rs).                                                     *)
(*                                                                         *)
(* A terminal is abstracted to the page it shows and, of the main page, the  *)
(* line with the cursor; what a full-screen application draws on the         *)
(* alternate page is left out.  A frame is one or two commands.  An escape   *)
(* sequence may be cut between two frames ("half", "rest").  Row, column and *)
(* epoch of a prediction, and the vt100 screen they are compared with, only  *)
(* decide how many predictions count as confirmed: that number is left open, *)
(* also after set_size, which puts an empty screen in its place.             *)
(***************************************************************************)
EXTENDS Integers, Sequences

CONSTANTS
    Chars,     \* printable characters
    Blank,     \* the content of an empty cell
    Width,     \* bound: cells of a line; no line reaches the right margin
    MaxRead    \* bound: bytes of one read of stdin

ASSUME PredictorAssumption ==
    /\ Blank \notin Chars
    /\ Width \in Nat \ {0} /\ MaxRead \in Nat \ {0}

VARIABLES
    enabled,      \* --predict was given
    suspended,    \* suspend_predictions
    predictions,  \* the characters predicted and neither confirmed nor erased
    todo,         \* bytes of the current read that handle_keystroke has not done
    frame,        \* the frame inspected and not yet written (NoFrame if none)
    srv,          \* the screen after all the frames shown
    term,         \* the user's terminal
    blur,         \* history: why the line may not be what the server drew
    skew,         \* history: a switch of pages never reached the terminal
    blind         \* history: the last switch of pages was not recognised

keyVars  == <<suspended, predictions>>
history  == <<blur, skew, blind>>
vars     == <<enabled, keyVars, todo, frame, srv, term, history>>

Pages == {"main", "alt"}
Cells == 0 .. Width - 1

NoLine == [text |-> [i \in Cells |-> Blank], col |-> 0]
NewScreen == [page |-> "main", mid |-> "none", line |-> NoLine]

\* A change of the line takes place on the main page only.
WithLine(s, l) == IF s.page = "main" THEN [s EXCEPT !.line = l] ELSE s

-----------------------------------------------------------------------------
(* What a terminal does with a command *)

\* "half" is the first part of a sequence that switches pages, "rest" its end.
Command == [op : {"put"}, ch : Chars]
           \cup [op : {"left", "clear", "rest", "none"}]
           \cup [op : {"switch", "half"}, to : Pages]

None == [op |-> "none"]

Put(l, c) == [text |-> [l.text EXCEPT ![l.col] = c], col |-> l.col + 1]
Left(l)   == [l EXCEPT !.col = IF @ = 0 THEN 0 ELSE @ - 1]

SwitchTo(s, p) == [s EXCEPT !.page = p, !.mid = "none"]

Apply(s, c) ==
    CASE c.op = "put"    -> WithLine(s, Put(s.line, c.ch))
      [] c.op = "left"   -> WithLine(s, Left(s.line))
      [] c.op = "clear"  -> WithLine(s, NoLine)
      [] c.op = "switch" -> SwitchTo(s, c.to)
      [] c.op = "half"   -> [s EXCEPT !.mid = c.to]
      [] c.op = "rest"   -> IF s.mid \in Pages THEN SwitchTo(s, s.mid) ELSE s
      [] OTHER           -> s

Shown(s, f) == Apply(Apply(s, f.first), f.second)

\* "\b \b", n times: the cursor goes back and leaves blanks.
Erase(l, n) ==
    LET to == IF l.col > n THEN l.col - n ELSE 0
        from == IF l.col = 0 THEN 0 ELSE l.col - 1
    IN  IF n = 0 THEN l
        ELSE [text |-> [i \in Cells |-> IF to <= i /\ i <= from THEN Blank ELSE l.text[i]],
              col |-> to]

\* The line with the predictions drawn over it.
Overlay(l, ps) ==
    [text |-> [i \in Cells |-> IF l.col <= i /\ i < l.col + Len(ps)
                               THEN ps[i - l.col + 1] ELSE l.text[i]],
     col |-> l.col + Len(ps)]

-----------------------------------------------------------------------------
(* Frames *)

\* skips: the frame repaints after output that contained a switch of pages was
\* discarded (flood protection of the server).  bound: two commands in one frame
\* only where the client looks at both.
Frame ==
    {f \in [first : Command, second : Command, skips : BOOLEAN] :
        /\ \/ f.second = None
           \/ f.first.op = "clear" /\ f.second.op = "put"
           \/ f.first.op \in {"switch", "rest"} /\ f.second.op \in {"switch", "half"}
        /\ f.skips => f.first.op = "clear"}
NoFrame == [first |-> None, second |-> None, skips |-> FALSE]

Commands(f) == {f.first, f.second}

\* A sequence that was cut goes on where it was cut.
Possible(f) == f # NoFrame /\ (f.first.op = "rest" <=> srv.mid # "none")

\* bound: what the frame draws fits in the line
Fits(f) ==
    \A c \in Commands(f) : c.op = "put" =>
        srv.line.col < Width /\ term.line.col < Width

\* contains_subslice finds whole sequences only.
Sees(f, p) == [op |-> "switch", to |-> p] \in Commands(f)
SeesClear(f) == [op |-> "clear"] \in Commands(f)

\* The frame completes a switch of pages; the predictor misses it, or takes the
\* terminal to be on the alternate page although it has left it again.
Switches(f) == f.first.op = "rest" \/ \E p \in Pages : Sees(f, p)
Misread(f) ==
    \/ ~Sees(f, "alt") /\ ~Sees(f, "main")
    \/ Sees(f, "alt") /\ f.second = [op |-> "switch", to |-> "main"]

-----------------------------------------------------------------------------
Init ==
    /\ enabled \in BOOLEAN
    /\ suspended = FALSE /\ predictions = <<>> /\ todo = <<>>
    /\ frame = NoFrame
    /\ srv = NewScreen /\ term = NewScreen
    /\ blur = {} /\ skew = FALSE /\ blind = FALSE

\* A local write of the client: it ends a sequence the terminal was reading.
Draw(l) == term' = [WithLine(term, l) EXCEPT !.mid = "none"]
Tear == skew' = (skew \/ term.mid # "none")
Smudge(why) == blur' = IF term.page = "main" THEN blur \cup why ELSE blur

\* The last n of the predictions stand on text of the server.
Overtyped(n) ==
    LET l == srv.line
        k == Len(predictions)
    IN  \E i \in l.col + k - n .. l.col + k - 1 : i \in Cells /\ l.text[i] # Blank

\* The last n predictions are erased from the terminal.
Unpredict(n) ==
    IF n = 0 THEN UNCHANGED <<term, skew, blur>>
    ELSE /\ Draw(Erase(term.line, n))
         /\ Tear
         /\ Smudge(IF Overtyped(n) THEN {"overtyped"} ELSE {})

\* clear_predictions
ClearPredictions ==
    /\ predictions' = <<>>
    /\ Unpredict(Len(predictions))

-----------------------------------------------------------------------------
(* The stdin thread: handle_keystroke, under the lock *)

\* "control" is Enter or any other byte that is not printable.
Keys == Chars \cup {"erase", "control"}

Typing == enabled /\ ~suspended /\ todo = <<>>

ReadKeys(keys) ==
    /\ Typing
    /\ term.line.col + MaxRead < Width /\ Len(predictions) + MaxRead < Width
    /\ todo' = keys
    /\ UNCHANGED <<enabled, keyVars, frame, srv, term, history>>

\* An ESC anywhere in the read.
ReadEscape ==
    /\ Typing
    /\ ClearPredictions
    /\ UNCHANGED <<enabled, suspended, todo, frame, srv, blind>>

NextKey == todo # <<>> /\ todo' = Tail(todo)

KeyChar ==
    /\ NextKey /\ Head(todo) \in Chars
    /\ predictions' = Append(predictions, Head(todo))
    /\ Draw(Put(term.line, Head(todo)))
    /\ Tear
    /\ UNCHANGED <<enabled, suspended, frame, srv, blur, blind>>

KeyErase ==
    /\ NextKey /\ Head(todo) = "erase"
    /\ IF predictions = <<>> THEN UNCHANGED <<predictions, term, skew, blur>>
       ELSE /\ predictions' = SubSeq(predictions, 1, Len(predictions) - 1)
            /\ Unpredict(1)
    /\ UNCHANGED <<enabled, suspended, frame, srv, blind>>

\* Faulty variant: reset_predictions in place of clear_predictions.
KeyControlResets ==
    /\ NextKey /\ Head(todo) = "control"
    /\ predictions' = <<>>
    /\ UNCHANGED <<enabled, suspended, frame, srv, term, history>>

KeyControl ==
    /\ NextKey /\ Head(todo) = "control"
    /\ ClearPredictions
    /\ UNCHANGED <<enabled, suspended, frame, srv, blind>>

-----------------------------------------------------------------------------
(* The receiver: inspect_server_frame and clear_predictions, under the lock *)

\* Culling with the first n predictions confirmed: the rest is truncated, then
\* the confirmed ones are drained.
Cull(ps, n) ==
    LET kept == SubSeq(ps, 1, n)
    IN  SubSeq(kept, n + 1, Len(kept))

\* A frame that enters the alternate page erases; what other frames leave in the
\* list is erased by the receiver.
Kept(f, n) ==
    IF Sees(f, "alt") THEN predictions
    ELSE IF Sees(f, "main") \/ SeesClear(f) THEN <<>>
    ELSE Cull(predictions, n)

\* Faulty variant: leaving the alternate page is looked for first.
SuspendMainFirst(f) ==
    suspended' = IF Sees(f, "main") THEN FALSE
                 ELSE IF Sees(f, "alt") THEN TRUE ELSE suspended

Suspend(f) ==
    suspended' = IF Sees(f, "alt") THEN TRUE
                 ELSE IF Sees(f, "main") THEN FALSE ELSE suspended

Unlocked == frame = NoFrame /\ todo = <<>>

\* Faulty variant: predictions survive the switch to the alternate page.
InspectKeeps(f, n) ==
    /\ Unlocked /\ enabled
    /\ Possible(f) /\ Fits(f)
    /\ Suspend(f)
    /\ predictions' = Kept(f, n)
    /\ frame' = f
    /\ blind' = (f.skips \/ IF Switches(f) THEN Misread(f) ELSE blind)
    /\ UNCHANGED <<enabled, todo, srv, term, skew, blur>>

Inspect(f, n) ==
    /\ Unlocked /\ enabled
    /\ Possible(f) /\ Fits(f)
    /\ Suspend(f)
    /\ predictions' = <<>>
    /\ LET k == Len(Kept(f, n)) IN
       IF k = 0
       THEN /\ Smudge(IF predictions = <<>> THEN {} ELSE {"culled"})
            /\ UNCHANGED <<term, skew>>
       ELSE Unpredict(k)
    /\ frame' = f
    /\ blind' = (f.skips \/ IF Switches(f) THEN Misread(f) ELSE blind)
    /\ UNCHANGED <<enabled, todo, srv>>

\* Without --predict the frame is not inspected.
Pass(f) ==
    /\ Unlocked /\ ~enabled
    /\ Possible(f) /\ Fits(f)
    /\ frame' = f
    /\ UNCHANGED <<enabled, keyVars, todo, srv, term, history>>

\* stdout.write_all(raw), after the lock has been released.
Show ==
    /\ frame # NoFrame
    /\ srv' = LET s == IF frame.skips
                       THEN SwitchTo(srv, IF srv.page = "main" THEN "alt" ELSE "main")
                       ELSE srv
              IN  Shown(s, frame)
    /\ term' = Shown(term, frame)
    /\ skew' = (skew \/ frame.skips)
    /\ blur' = IF predictions # <<>> THEN blur \cup {"raced"}
               ELSE IF term.page = "main" /\ SeesClear(frame) THEN {} ELSE blur
    /\ frame' = NoFrame
    /\ UNCHANGED <<enabled, keyVars, todo, blind>>

-----------------------------------------------------------------------------
Stdin == \/ \E k \in 1 .. MaxRead : \E keys \in [1 .. k -> Keys] : ReadKeys(keys)
         \/ ReadEscape \/ KeyChar \/ KeyErase \/ KeyControl
Receiver == \/ \E f \in Frame : Pass(f) \/ \E n \in 0 .. Len(predictions) : Inspect(f, n)
            \/ Show

Next == Stdin \/ Receiver

Spec == Init /\ [][Next]_vars

-----------------------------------------------------------------------------
\* Every variable keeps its type; nothing is predicted without --predict or
\* while the predictor is suspended.
TypeOK ==
    /\ {enabled, suspended, skew, blind} \subseteq BOOLEAN
    /\ predictions \in Seq(Chars) /\ todo \in Seq(Keys)
    /\ frame \in Frame
    /\ {srv, term} \subseteq
          [page : Pages, mid : Pages \cup {"none"},
           line : [text : [Cells -> Chars \cup {Blank}], col : 0 .. Width]]
    /\ blur \subseteq {"culled", "raced", "overtyped"}
    /\ ~enabled \/ suspended => predictions = <<>> /\ todo = <<>>

\* The terminal shows the server's line with the outstanding predictions drawn
\* over it, and every erased one is gone without a trace, unless, since the page
\* was last cleared, a frame has culled a prediction (which stays on the
\* terminal), a key was handled between the inspection and the writing of a
\* frame, or a prediction that covered text was erased.
EchoIsOverlay ==
    ~skew =>
        /\ term.page = srv.page /\ term.mid = srv.mid
        /\ blur = {} =>
              term.line = IF srv.page = "main" THEN Overlay(srv.line, predictions)
                          ELSE srv.line

\* Predictions are suspended exactly while the application is on the alternate
\* page, unless the last switch was cut between two frames, was discarded by the
\* flood protection, or came in one frame after a switch to the alternate page.
SuspendedOnAlternatePage ==
    enabled /\ frame = NoFrame /\ ~blind => (suspended <=> srv.page = "alt")

\* When no prediction is outstanding and no frame is half shown, the terminal
\* shows the server's screen: frames take predictions back without a trace.
EchoSettles ==
    predictions = <<>> /\ todo = <<>> /\ frame = NoFrame /\ ~skew =>
        term.line = srv.line
=============================================================================
