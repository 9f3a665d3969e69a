--------------------------- MODULE PredictorProofs ---------------------------
(***************************************************************************)
(* Proofs about Predictor: what the local echo leaves on the terminal, for   *)
(* any characters, any width of the line and reads of any length.            *)
(***************************************************************************)
EXTENDS Predictor, SequenceTheorems, TLAPS

Line   == [text : [Cells -> Chars \cup {Blank}], col : 0 .. Width]
Screen == [page : Pages, mid : Pages \cup {"none"}, line : Line]

(* A command draws, a frame draws.                                             *)
Draws(c) == c.op = "put"
Inks(f)  == Draws(f.first) \/ Draws(f.second)

(* What has been read and what has been inspected fits in the line: a frame    *)
(* that draws was checked before the keys that came between were read.         *)
Room ==
    /\ term.line.col + Len(todo) <= Width
    /\ Inks(frame) =>
          srv.line.col < Width /\ term.line.col + Len(todo) < Width

(* The predictor runs ahead of the terminal by one frame: it is suspended as   *)
(* the page will be that the frame under way leads to.                         *)
PageInv ==
    enabled =>
        /\ frame.skips => blind
        /\ ~blind => (suspended <=> Shown(srv, frame).page = "alt")

(* The parts of TypeOK.                                                        *)
Flags == {enabled, suspended, skew, blind} \subseteq BOOLEAN
Shapes ==
    /\ predictions \in Seq(Chars) /\ todo \in Seq(Keys) /\ frame \in Frame
    /\ srv \in Screen /\ term \in Screen
    /\ blur \subseteq {"culled", "raced", "overtyped"}
Idle == ~enabled \/ suspended => predictions = <<>> /\ todo = <<>>

PredictInv == TypeOK /\ Room /\ EchoIsOverlay /\ PageInv

-----------------------------------------------------------------------------
(* Lines.                                                                    *)

\* The two ends of the line, and the empty line.
LEMMA LineFacts ==
    /\ 0 \in 0 .. Width /\ NoLine \in Line /\ NoLine.col = 0
    /\ NewScreen \in Screen
BY PredictorAssumption DEF NoLine, NewScreen, Line, Screen, Pages, Cells

\* A character is put in the line, and the cursor moves by one.
LEMMA PutFacts ==
    ASSUME NEW l \in Line, NEW c \in Chars, l.col < Width
    PROVE  Put(l, c) \in Line /\ Put(l, c).col = l.col + 1
BY PredictorAssumption DEF Put, Line, Cells

LEMMA LeftFacts ==
    ASSUME NEW l \in Line
    PROVE  Left(l) \in Line /\ Left(l).col <= l.col
<1>1. l.col \in Nat /\ l.col <= Width
  BY PredictorAssumption DEF Line
<1>2. Left(l).col = (IF l.col = 0 THEN 0 ELSE l.col - 1) /\ Left(l).text = l.text
  BY DEF Left, Line
<1>3. Left(l) = [text |-> l.text, col |-> IF l.col = 0 THEN 0 ELSE l.col - 1]
  BY DEF Left, Line
<1> QED BY <1>1, <1>2, <1>3, PredictorAssumption DEF Line

LEMMA EraseFacts ==
    ASSUME NEW l \in Line, NEW n \in Nat
    PROVE  Erase(l, n) \in Line /\ Erase(l, n).col <= l.col
BY PredictorAssumption DEF Erase, Line, Cells

\* Where the cursor is after n steps back, and one cell more in a stretch of them.
LEMMA Cursor ==
    ASSUME NEW a \in Nat, NEW k \in Nat
    PROVE  /\ \A n \in 1 .. k : /\ (IF a + k > n THEN a + k - n ELSE 0) = a + (k - n)
                                /\ (IF a + k = 0 THEN 0 ELSE a + k - 1) = a + k - 1
           /\ \A i \in Int : i # a + k /\ ~(a <= i /\ i < a + k)
                              => ~(a <= i /\ i < a + (k + 1))
OBVIOUS

\* The predictions end where the next character is drawn: to draw it is to
\* predict one more.
LEMMA PutOverlay ==
    ASSUME NEW l \in Line, NEW ps \in Seq(Chars), NEW c \in Chars,
           l.col + Len(ps) < Width
    PROVE  Put(Overlay(l, ps), c) = Overlay(l, Append(ps, c))
<1> DEFINE o == Overlay(l, ps)
           qs == Append(ps, c)
           k == Len(ps)
<1>1. /\ k \in Nat /\ Len(qs) = k + 1 /\ qs[k + 1] = c
      /\ \A i \in 1 .. k : qs[i] = ps[i]
      /\ l.col \in Nat
  BY PredictorAssumption DEF Line
<1>2. o.col = l.col + k /\ Put(o, c).col = (l.col + k) + 1
  BY DEF Overlay, Put
<1>3. [o.text EXCEPT ![o.col] = c]
        = [i \in Cells |-> IF l.col <= i /\ i < l.col + Len(qs)
                           THEN qs[i - l.col + 1] ELSE l.text[i]]
  <2>1. /\ o.text = [i \in Cells |-> IF l.col <= i /\ i < l.col + k
                                      THEN ps[i - l.col + 1] ELSE l.text[i]]
        /\ o.col \in Cells
    BY <1>1, <1>2, PredictorAssumption DEF Overlay, Cells
  <2>2. ASSUME NEW i \in Cells
        PROVE  [o.text EXCEPT ![o.col] = c][i]
                 = IF l.col <= i /\ i < l.col + Len(qs) THEN qs[i - l.col + 1] ELSE l.text[i]
    <3>0. i \in Int
      BY DEF Cells
    <3>1. CASE i = l.col + k
      BY <1>1, <1>2, <2>1, <3>1
    <3>2. CASE i # l.col + k
      <4>1. [o.text EXCEPT ![o.col] = c][i]
              = IF l.col <= i /\ i < l.col + k THEN ps[i - l.col + 1] ELSE l.text[i]
        BY <1>2, <2>1, <3>2
      <4> HIDE DEF o, qs, k
      <4>2. CASE l.col <= i /\ i < l.col + k
        <5>1. i - l.col + 1 \in 1 .. k
          BY <1>1, <3>0, <4>2
        <5> QED BY <1>1, <3>0, <4>1, <4>2, <5>1
      <4>3. CASE ~(l.col <= i /\ i < l.col + k)
        <5>1. ~(l.col <= i /\ i < l.col + Len(qs))
          BY <1>1, <3>0, <3>2, <4>3, Cursor
        <5> QED BY <4>1, <4>3, <5>1
      <4> QED BY <4>2, <4>3
    <3> QED BY <3>1, <3>2
  <2> QED BY <2>1, <2>2
<1>4. /\ Put(o, c) = [text |-> [o.text EXCEPT ![o.col] = c], col |-> (l.col + k) + 1]
      /\ l.col + Len(qs) = (l.col + k) + 1
  BY <1>1, <1>2 DEF Put
<1>5. Put(o, c) = Overlay(l, qs)
  BY <1>3, <1>4 DEF Overlay
<1> QED BY <1>5

\* Nothing predicted, nothing drawn.
LEMMA OverlayNothing ==
    ASSUME NEW l \in Line
    PROVE  Overlay(l, <<>>) = l
<1>1. l.col \in Nat /\ l = [text |-> l.text, col |-> l.col]
      /\ l.text = [i \in Cells |-> l.text[i]]
  BY PredictorAssumption DEF Line
<1>2. \A i \in Cells : ~(l.col <= i /\ i < l.col + 0)
  BY <1>1 DEF Cells
<1>3. Overlay(l, <<>>).text = [i \in Cells |-> l.text[i]] /\ Overlay(l, <<>>).col = l.col
  BY <1>1, <1>2 DEF Overlay
<1>4. Overlay(l, <<>>) = [text |-> Overlay(l, <<>>).text, col |-> Overlay(l, <<>>).col]
  BY DEF Overlay
<1> QED BY <1>1, <1>3, <1>4

\* To erase the last n predictions is to draw the others only, where the
\* server has no text under them.
LEMMA EraseDrawn ==
    ASSUME NEW text, NEW a \in Nat, NEW ps \in Seq(Chars), NEW n \in 1 .. Len(ps),
           \A i \in a + Len(ps) - n .. a + Len(ps) - 1 : i \in Cells => text[i] = Blank
    PROVE  LET l == [text |-> text, col |-> a]
           IN  Erase(Overlay(l, ps), n) = Overlay(l, SubSeq(ps, 1, Len(ps) - n))
<1> DEFINE l == [text |-> text, col |-> a]
           k == Len(ps)
           qs == SubSeq(ps, 1, k - n)
           drawn == [i \in Cells |-> IF a <= i /\ i < a + k THEN ps[i - a + 1] ELSE text[i]]
<1>1. k \in Nat /\ n \in 1 .. k /\ n \in Nat /\ n # 0 /\ n <= k
  OBVIOUS
<1>2. Len(qs) = k - n /\ \A i \in 1 .. k - n : qs[i] = ps[i]
  BY <1>1
<1>3. Overlay(l, ps) = [text |-> drawn, col |-> a + k]
  BY DEF Overlay
<1>4. Overlay(l, qs)
        = [text |-> [i \in Cells |-> IF a <= i /\ i < a + (k - n) THEN qs[i - a + 1] ELSE text[i]],
           col |-> a + (k - n)]
  BY <1>2 DEF Overlay
<1>5. /\ (IF a + k > n THEN a + k - n ELSE 0) = a + (k - n)
      /\ (IF a + k = 0 THEN 0 ELSE a + k - 1) = a + k - 1
  BY <1>1, Cursor
<1>6. Erase([text |-> drawn, col |-> a + k], n)
        = [text |-> [i \in Cells |-> IF a + (k - n) <= i /\ i <= a + k - 1
                                      THEN Blank ELSE drawn[i]],
           col |-> a + (k - n)]
  <2> HIDE DEF k, drawn
  <2> QED BY <1>1, <1>5 DEF Erase
<1>7. ASSUME NEW i \in Cells
      PROVE  (IF a + (k - n) <= i /\ i <= a + k - 1 THEN Blank ELSE drawn[i])
               = (IF a <= i /\ i < a + (k - n) THEN qs[i - a + 1] ELSE text[i])
  <2>1. i \in Int /\ drawn[i] = IF a <= i /\ i < a + k THEN ps[i - a + 1] ELSE text[i]
    BY DEF Cells
  <2>2. \A j \in a + k - n .. a + k - 1 : j \in Cells => text[j] = Blank
    OBVIOUS
  <2> HIDE DEF k, qs, drawn
  <2>3. CASE a + (k - n) <= i /\ i <= a + k - 1
    <3>1. i \in a + k - n .. a + k - 1 /\ ~(i < a + (k - n))
      BY <1>1, <2>1, <2>3
    <3> QED BY <2>2, <2>3, <3>1
  <2>4. CASE a <= i /\ i < a + (k - n)
    <3>1. i - a + 1 \in 1 .. k - n /\ i < a + k /\ ~(a + (k - n) <= i)
      BY <1>1, <2>1, <2>4
    <3> QED BY <1>2, <2>1, <2>4, <3>1
  <2>5. CASE i < a \/ a + k - 1 < i
    <3>1. /\ ~(a <= i /\ i < a + k) /\ ~(a <= i /\ i < a + (k - n))
          /\ ~(a + (k - n) <= i /\ i <= a + k - 1)
      BY <1>1, <2>1, <2>5
    <3> QED BY <2>1, <3>1
  <2> QED BY <1>1, <2>1, <2>3, <2>4, <2>5
<1>8. Erase([text |-> drawn, col |-> a + k], n) = Overlay(l, qs)
  <2> HIDE DEF k, qs, drawn, l
  <2> QED BY <1>4, <1>6, <1>7
<1> QED BY <1>3, <1>8

LEMMA EraseOverlay ==
    ASSUME NEW l \in Line, NEW ps \in Seq(Chars), NEW n \in 1 .. Len(ps),
           \A i \in l.col + Len(ps) - n .. l.col + Len(ps) - 1 :
               i \in Cells => l.text[i] = Blank
    PROVE  Erase(Overlay(l, ps), n) = Overlay(l, SubSeq(ps, 1, Len(ps) - n))
<1>1. l.col \in Nat /\ l = [text |-> l.text, col |-> l.col]
  BY PredictorAssumption DEF Line
<1> QED BY <1>1, EraseDrawn

-----------------------------------------------------------------------------
(* Commands and frames.                                                      *)

\* The fields that a command has.
LEMMA CommandFacts ==
    ASSUME NEW c \in Command
    PROVE  /\ c.op \in {"put", "left", "clear", "rest", "none", "switch", "half"}
           /\ Draws(c) => c.ch \in Chars
           /\ c.op \in {"switch", "half"} => c.to \in Pages
           /\ c.op = "clear" => c = [op |-> "clear"]
           /\ c.op = "switch" => c = [op |-> "switch", to |-> c.to]
BY DEF Command, Draws

LEMMA ScreenFacts ==
    ASSUME NEW s \in Screen
    PROVE  /\ s.page \in Pages /\ s.mid \in Pages \cup {"none"} /\ s.line \in Line
           /\ s.line.col \in Nat /\ s.line.col <= Width
           /\ s = [page |-> s.page, mid |-> s.mid, line |-> s.line]
BY PredictorAssumption DEF Screen, Line

\* A change of the line leaves the rest of the screen alone.
LEMMA WithLineFacts ==
    ASSUME NEW s \in Screen, NEW l \in Line
    PROVE  /\ WithLine(s, l) \in Screen
           /\ WithLine(s, l).page = s.page /\ WithLine(s, l).mid = s.mid
           /\ WithLine(s, l).line = IF s.page = "main" THEN l ELSE s.line
BY DEF WithLine, Screen

LEMMA SwitchToFacts ==
    ASSUME NEW s \in Screen, NEW p \in Pages
    PROVE  /\ SwitchTo(s, p) \in Screen /\ SwitchTo(s, p).page = p
           /\ SwitchTo(s, p).mid = "none" /\ SwitchTo(s, p).line = s.line
BY DEF SwitchTo, Screen

\* What a command does to the page, to a cut sequence and to the line.
PageAfter(s, c) ==
    IF c.op = "switch" THEN c.to
    ELSE IF c.op = "rest" /\ s.mid \in Pages THEN s.mid ELSE s.page
MidAfter(s, c) ==
    IF c.op = "half" THEN c.to
    ELSE IF c.op \in {"switch", "rest"} THEN "none" ELSE s.mid
LineAfter(s, c) ==
    IF s.page # "main" THEN s.line
    ELSE IF Draws(c) THEN Put(s.line, c.ch)
    ELSE IF c.op = "left" THEN Left(s.line)
    ELSE IF c.op = "clear" THEN NoLine ELSE s.line

LEMMA ApplyFacts ==
    ASSUME NEW s \in Screen, NEW c \in Command, Draws(c) => s.line.col < Width
    PROVE  /\ Apply(s, c) \in Screen
           /\ Apply(s, c).page = PageAfter(s, c)
           /\ Apply(s, c).mid = MidAfter(s, c)
           /\ Apply(s, c).line = LineAfter(s, c)
           /\ Apply(s, c).line.col <= s.line.col + IF Draws(c) THEN 1 ELSE 0
<1> DEFINE t == Apply(s, c)
<1>1. /\ s.page \in Pages /\ s.mid \in Pages \cup {"none"} /\ s.line \in Line
      /\ s.line.col \in Nat
  BY ScreenFacts
<1>2. CASE Draws(c)
  <2>1. Apply(s, c) = WithLine(s, Put(s.line, c.ch))
    BY <1>2 DEF Apply, Draws
  <2>2. Put(s.line, c.ch) \in Line /\ Put(s.line, c.ch).col = s.line.col + 1
    BY <1>1, <1>2, CommandFacts, PutFacts
  <2>3. /\ t \in Screen /\ t.page = s.page /\ t.mid = s.mid
        /\ t.line = IF s.page = "main" THEN Put(s.line, c.ch) ELSE s.line
    BY <2>1, <2>2, WithLineFacts
  <2>4. t.line.col <= s.line.col + 1
    BY <1>1, <2>2, <2>3
  <2>5. PageAfter(s, c) = s.page /\ MidAfter(s, c) = s.mid
        /\ LineAfter(s, c) = IF s.page = "main" THEN Put(s.line, c.ch) ELSE s.line
    BY <1>2 DEF PageAfter, MidAfter, LineAfter, Draws
  <2> QED BY <1>2, <2>3, <2>4, <2>5
<1>3. CASE c.op = "left"
  <2>1. Apply(s, c) = WithLine(s, Left(s.line)) /\ ~Draws(c)
    BY <1>3 DEF Apply, Draws
  <2>2. Left(s.line) \in Line /\ Left(s.line).col <= s.line.col
    BY <1>1, LeftFacts
  <2>3. /\ t \in Screen /\ t.page = s.page /\ t.mid = s.mid
        /\ t.line = IF s.page = "main" THEN Left(s.line) ELSE s.line
    BY <2>1, <2>2, WithLineFacts
  <2>4. t.line.col <= s.line.col + 0
    BY <1>1, <2>2, <2>3 DEF Line
  <2>5. PageAfter(s, c) = s.page /\ MidAfter(s, c) = s.mid
        /\ LineAfter(s, c) = IF s.page = "main" THEN Left(s.line) ELSE s.line
    BY <1>3 DEF PageAfter, MidAfter, LineAfter, Draws
  <2> QED BY <2>1, <2>3, <2>4, <2>5
<1>4. CASE c.op = "clear"
  <2>1. Apply(s, c) = WithLine(s, NoLine) /\ ~Draws(c)
    BY <1>4 DEF Apply, Draws
  <2>3. /\ t \in Screen /\ t.page = s.page /\ t.mid = s.mid
        /\ t.line = IF s.page = "main" THEN NoLine ELSE s.line
    BY <2>1, LineFacts, WithLineFacts
  <2>4. t.line.col <= s.line.col + 0
    BY <1>1, <2>3, LineFacts
  <2>5. PageAfter(s, c) = s.page /\ MidAfter(s, c) = s.mid
        /\ LineAfter(s, c) = IF s.page = "main" THEN NoLine ELSE s.line
    BY <1>4 DEF PageAfter, MidAfter, LineAfter, Draws
  <2> QED BY <2>1, <2>3, <2>4, <2>5
<1>5. ASSUME c.op \in {"switch", "half", "rest", "none"},
             t \in Screen, t.page = PageAfter(s, c), t.mid = MidAfter(s, c),
             t.line = s.line
      PROVE  t.line = LineAfter(s, c) /\ t.line.col <= s.line.col + IF Draws(c) THEN 1 ELSE 0
  <2>1. ~Draws(c) /\ LineAfter(s, c) = s.line
    BY <1>5 DEF Draws, LineAfter
  <2> QED BY <1>1, <1>5, <2>1
<1>6. CASE c.op = "switch"
  <2>1. Apply(s, c) = SwitchTo(s, c.to) /\ c.to \in Pages
    BY <1>6, CommandFacts DEF Apply
  <2>2. t \in Screen /\ t.page = c.to /\ t.mid = "none" /\ t.line = s.line
    BY <2>1, SwitchToFacts
  <2>3. PageAfter(s, c) = c.to /\ MidAfter(s, c) = "none"
    BY <1>6 DEF PageAfter, MidAfter
  <2> QED BY <1>5, <1>6, <2>2, <2>3
<1>7. CASE c.op = "half"
  <2>1. Apply(s, c) = [s EXCEPT !.mid = c.to] /\ c.to \in Pages
    BY <1>7, CommandFacts DEF Apply
  <2>2. t \in Screen /\ t.page = s.page /\ t.mid = c.to /\ t.line = s.line
    BY <2>1 DEF Screen
  <2>3. PageAfter(s, c) = s.page /\ MidAfter(s, c) = c.to
    BY <1>7 DEF PageAfter, MidAfter
  <2> QED BY <1>5, <1>7, <2>2, <2>3
<1>8. CASE c.op = "rest"
  <2>1. Apply(s, c) = IF s.mid \in Pages THEN SwitchTo(s, s.mid) ELSE s
    BY <1>8 DEF Apply
  <2>2. PageAfter(s, c) = (IF s.mid \in Pages THEN s.mid ELSE s.page) /\ MidAfter(s, c) = "none"
    BY <1>8 DEF PageAfter, MidAfter
  <2>3. CASE s.mid \in Pages
    <3>1. t \in Screen /\ t.page = s.mid /\ t.mid = "none" /\ t.line = s.line
      BY <2>1, <2>3, SwitchToFacts
    <3> QED BY <1>5, <1>8, <2>2, <2>3, <3>1
  <2>4. CASE s.mid \notin Pages
    <3>1. t = s /\ s.mid = "none"
      BY <1>1, <2>1, <2>4
    <3> QED BY <1>5, <1>8, <2>2, <2>4, <3>1
  <2> QED BY <2>3, <2>4
<1>9. CASE c.op = "none"
  <2>1. t = s
    BY <1>9 DEF Apply
  <2>2. PageAfter(s, c) = s.page /\ MidAfter(s, c) = s.mid
    BY <1>9 DEF PageAfter, MidAfter
  <2> QED BY <1>5, <1>9, <2>1, <2>2
<1> QED BY <1>2, <1>3, <1>4, <1>6, <1>7, <1>8, <1>9, CommandFacts DEF Draws

\* Which commands come together.
LEMMA FrameFacts ==
    ASSUME NEW f \in Frame
    PROVE  /\ f.first \in Command /\ f.second \in Command /\ f.skips \in BOOLEAN
           /\ \/ f.second.op = "none"
              \/ f.first.op = "clear" /\ Draws(f.second)
              \/ f.first.op \in {"switch", "rest"} /\ f.second.op \in {"switch", "half"}
           /\ f.skips => f.first.op = "clear"
           /\ SeesClear(f) => f.first.op = "clear"
<1>1. /\ f.first \in Command /\ f.second \in Command /\ f.skips \in BOOLEAN
      /\ \/ f.second = None
         \/ f.first.op = "clear" /\ f.second.op = "put"
         \/ f.first.op \in {"switch", "rest"} /\ f.second.op \in {"switch", "half"}
      /\ f.skips => f.first.op = "clear"
  BY DEF Frame
<1>2. None.op = "none"
  BY DEF None
<1>3. SeesClear(f) => f.first.op = "clear" \/ f.second.op = "clear"
  BY DEF SeesClear, Commands
<1> QED BY <1>1, <1>2, <1>3 DEF Draws

LEMMA NoFrameFacts ==
    /\ NoFrame \in Frame /\ ~NoFrame.skips
    /\ ~Inks(NoFrame)
    /\ \A s : Shown(s, NoFrame) = s
<1>1. None \in Command /\ None.op = "none"
  BY DEF None, Command
<1>2. NoFrame.first = None /\ NoFrame.second = None /\ NoFrame.skips = FALSE
  BY DEF NoFrame
<1>3. NoFrame \in Frame
  BY <1>1, <1>2 DEF Frame, NoFrame
<1>4. \A s : Apply(s, None) = s
  BY <1>1 DEF Apply
<1> QED BY <1>1, <1>2, <1>3, <1>4 DEF Draws, Inks, Shown

\* A frame needs room for one character at most.
LEMMA ShownFacts ==
    ASSUME NEW s \in Screen, NEW f \in Frame, Inks(f) => s.line.col < Width
    PROVE  /\ Apply(s, f.first) \in Screen /\ f.first \in Command /\ f.second \in Command
           /\ Draws(f.first) => s.line.col < Width
           /\ Draws(f.second) => Apply(s, f.first).line.col < Width
           /\ Shown(s, f) \in Screen
           /\ Shown(s, f).line.col <= s.line.col + IF Inks(f) THEN 1 ELSE 0
<1> DEFINE t == Apply(s, f.first)
           u == Apply(t, f.second)
<1>1. f.first \in Command /\ f.second \in Command
  BY FrameFacts
<1>2. t \in Screen /\ t.line.col <= s.line.col + IF Draws(f.first) THEN 1 ELSE 0
  BY <1>1, ApplyFacts DEF Inks
<1>3. s.line.col \in Nat /\ t.line.col \in Nat
  BY <1>2, ScreenFacts
<1>4. ~(Draws(f.first) /\ Draws(f.second))
  BY FrameFacts DEF Draws
<1>5. Draws(f.second) => t.line.col < Width
  BY <1>2, <1>3, <1>4, PredictorAssumption DEF Inks
<1>6. u \in Screen /\ u.line.col <= t.line.col + IF Draws(f.second) THEN 1 ELSE 0
  BY <1>1, <1>2, <1>5, ApplyFacts
<1>7. u.line.col \in Nat
  BY <1>6, ScreenFacts
<1>8. u.line.col <= s.line.col + IF Inks(f) THEN 1 ELSE 0
  BY <1>2, <1>3, <1>4, <1>6, <1>7 DEF Inks
<1> QED BY <1>1, <1>2, <1>5, <1>6, <1>8 DEF Shown, Inks

\* Screens on the same page and at the same place of a sequence stay so; equal
\* lines stay equal, and a frame that clears the page makes them equal.
LEMMA ShownAgree ==
    ASSUME NEW s \in Screen, NEW t \in Screen, NEW f \in Frame,
           Inks(f) => s.line.col < Width /\ t.line.col < Width,
           s.page = t.page, s.mid = t.mid
    PROVE  /\ Shown(s, f).page = Shown(t, f).page /\ Shown(s, f).mid = Shown(t, f).mid
           /\ s.line = t.line \/ (s.page = "main" /\ f.first.op = "clear")
              => Shown(s, f).line = Shown(t, f).line
<1> DEFINE s1 == Apply(s, f.first)
           t1 == Apply(t, f.first)
<1>1. /\ f.first \in Command /\ f.second \in Command
      /\ s1 \in Screen /\ (Draws(f.first) => s.line.col < Width)
      /\ Draws(f.second) => s1.line.col < Width
      /\ t1 \in Screen /\ (Draws(f.first) => t.line.col < Width)
      /\ Draws(f.second) => t1.line.col < Width
  BY ShownFacts
<1>2. /\ s1.page = PageAfter(s, f.first) /\ s1.mid = MidAfter(s, f.first)
      /\ t1.page = PageAfter(t, f.first) /\ t1.mid = MidAfter(t, f.first)
      /\ s1.line = LineAfter(s, f.first) /\ t1.line = LineAfter(t, f.first)
  BY <1>1, ApplyFacts
<1>3. s1.page = t1.page /\ s1.mid = t1.mid
  BY <1>2 DEF PageAfter, MidAfter
<1>4. /\ Shown(s, f).page = PageAfter(s1, f.second) /\ Shown(s, f).mid = MidAfter(s1, f.second)
      /\ Shown(t, f).page = PageAfter(t1, f.second) /\ Shown(t, f).mid = MidAfter(t1, f.second)
      /\ Shown(s, f).line = LineAfter(s1, f.second) /\ Shown(t, f).line = LineAfter(t1, f.second)
  BY <1>1, ApplyFacts DEF Shown
<1>5. Shown(s, f).page = Shown(t, f).page /\ Shown(s, f).mid = Shown(t, f).mid
  BY <1>3, <1>4 DEF PageAfter, MidAfter
<1>6. ASSUME s.line = t.line \/ (s.page = "main" /\ f.first.op = "clear")
      PROVE  Shown(s, f).line = Shown(t, f).line
  <2>1. s1.line = t1.line
    BY <1>2, <1>6 DEF LineAfter, Draws
  <2> QED BY <1>3, <1>4, <2>1 DEF LineAfter
<1> QED BY <1>5, <1>6

\* contains_subslice tells the page that a frame leads to, unless the frame
\* completes a cut sequence or leaves the alternate page it has entered.
LEMMA ShownPage ==
    ASSUME NEW s \in Screen, NEW f \in Frame, Inks(f) => s.line.col < Width
    PROVE  /\ ~Switches(f) => Shown(s, f).page = s.page
           /\ Switches(f) /\ ~Misread(f) =>
                 (Shown(s, f).page = "alt" <=> Sees(f, "alt"))
           /\ ~Switches(f) => ~Sees(f, "alt") /\ ~Sees(f, "main")
<1> DEFINE s1 == Apply(s, f.first)
<1>1. /\ f.first \in Command /\ f.second \in Command
      /\ s1.page = PageAfter(s, f.first)
      /\ Shown(s, f).page = PageAfter(s1, f.second)
  BY ShownFacts, ApplyFacts DEF Shown
<1>2. ASSUME NEW p \in Pages
      PROVE  /\ Sees(f, p) <=> (\/ f.first.op = "switch" /\ f.first.to = p
                                \/ f.second.op = "switch" /\ f.second.to = p)
             /\ (f.second = [op |-> "switch", to |-> p]
                  <=> f.second.op = "switch" /\ f.second.to = p)
  <2>1. ASSUME NEW c \in Command
        PROVE  c = [op |-> "switch", to |-> p] <=> (c.op = "switch" /\ c.to = p)
    <3>1. c.op = "switch" => c = [op |-> "switch", to |-> c.to]
      BY CommandFacts
    <3> QED BY <3>1
  <2>2. Sees(f, p) <=> (\/ f.first = [op |-> "switch", to |-> p]
                        \/ f.second = [op |-> "switch", to |-> p])
    BY DEF Sees, Commands
  <2> QED BY <1>1, <2>1, <2>2
<1>3. "alt" \in Pages /\ "main" \in Pages /\ \A p \in Pages : p = "alt" \/ p = "main"
  BY DEF Pages
<1>4. /\ f.first.op = "switch" => f.first.to \in Pages
      /\ f.second.op = "switch" => f.second.to \in Pages
  BY <1>1, CommandFacts
<1>5. \/ f.second.op = "none"
      \/ f.first.op = "clear" /\ f.second.op = "put"
      \/ f.first.op \in {"switch", "rest"} /\ f.second.op \in {"switch", "half"}
  BY FrameFacts DEF Draws
<1>6. Switches(f) <=> f.first.op \in {"rest", "switch"}
  <2>1. f.second.op = "switch" => f.first.op \in {"rest", "switch"}
    BY <1>5
  <2>2. Switches(f) => f.first.op \in {"rest", "switch"}
    BY <1>2, <2>1 DEF Switches
  <2>3. f.first.op = "switch" => Sees(f, f.first.to)
    BY <1>2, <1>4
  <2> QED BY <1>4, <2>2, <2>3 DEF Switches
<1>7. ASSUME ~Switches(f)
      PROVE  Shown(s, f).page = s.page /\ ~Sees(f, "alt") /\ ~Sees(f, "main")
  <2>1. f.first.op \notin {"rest", "switch"} /\ f.second.op \notin {"rest", "switch"}
    BY <1>5, <1>6, <1>7
  <2>2. Shown(s, f).page = s.page
    BY <1>1, <2>1 DEF PageAfter
  <2> QED BY <1>2, <1>3, <2>1, <2>2
<1>8. ASSUME Switches(f), ~Misread(f)
      PROVE  Shown(s, f).page = "alt" <=> Sees(f, "alt")
  <2>1. /\ Sees(f, "alt") \/ Sees(f, "main")
        /\ ~(Sees(f, "alt") /\ f.second.op = "switch" /\ f.second.to = "main")
    BY <1>2, <1>3, <1>8 DEF Misread
  <2>2. CASE f.second.op = "switch"
    <3>1. Shown(s, f).page = f.second.to
      BY <1>1, <2>2 DEF PageAfter
    <3> QED BY <1>2, <1>3, <1>4, <2>1, <2>2, <3>1
  <2>3. CASE f.second.op # "switch"
    <3>1. f.second.op # "rest" /\ f.first.op = "switch"
      BY <1>2, <1>3, <1>5, <2>1, <2>3
    <3>2. Shown(s, f).page = f.first.to
      BY <1>1, <2>3, <3>1 DEF PageAfter
    <3> QED BY <1>2, <1>3, <1>4, <2>1, <2>3, <3>1, <3>2
  <2> QED BY <2>2, <2>3
<1> QED BY <1>7, <1>8
-----------------------------------------------------------------------------
(* Types.                                                                    *)

LEMMA TypeParts == TypeOK <=> Flags /\ Shapes /\ Idle
BY DEF TypeOK, Flags, Shapes, Idle, Screen, Line

LEMMA TypePartsNext == TypeOK' <=> Flags' /\ Shapes' /\ Idle'
BY DEF TypeOK, Flags, Shapes, Idle, Screen, Line

\* Drawing keeps the page and ends a sequence.
LEMMA DrawFacts ==
    ASSUME term \in Screen, NEW l \in Line, Draw(l)
    PROVE  /\ term' \in Screen
           /\ term'.page = term.page /\ term'.mid = "none"
           /\ term'.line = IF term.page = "main" THEN l ELSE term.line
<1> DEFINE w == WithLine(term, l)
<1>1. /\ w \in Screen /\ w.page = term.page
      /\ w.line = IF term.page = "main" THEN l ELSE term.line
  BY WithLineFacts
<1>2. term' = [w EXCEPT !.mid = "none"]
  BY DEF Draw
<1> HIDE DEF w
<1> QED BY <1>1, <1>2 DEF Screen

\* What erasing the last predictions does.
LEMMA UnpredictFacts ==
    ASSUME Shapes, Flags, NEW n \in Nat \ {0}, Unpredict(n)
    PROVE  /\ term' \in Screen
           /\ term'.page = term.page /\ term'.mid = "none"
           /\ term'.line = IF term.page = "main" THEN Erase(term.line, n) ELSE term.line
           /\ term'.line.col <= term.line.col
           /\ skew' = (skew \/ term.mid # "none")
           /\ blur' \subseteq {"culled", "raced", "overtyped"}
           /\ blur' = {} => blur = {} /\ (term.page = "main" => ~Overtyped(n))
<1>1. /\ Draw(Erase(term.line, n)) /\ Tear
      /\ Smudge(IF Overtyped(n) THEN {"overtyped"} ELSE {})
  BY DEF Unpredict
<1>2. term \in Screen /\ term.line \in Line /\ term.line.col \in Nat
  BY ScreenFacts DEF Shapes
<1>3. Erase(term.line, n) \in Line /\ Erase(term.line, n).col <= term.line.col
  BY <1>2, EraseFacts
<1>4. /\ term' \in Screen
      /\ term'.page = term.page /\ term'.mid = "none"
      /\ term'.line = IF term.page = "main" THEN Erase(term.line, n) ELSE term.line
  BY <1>1, <1>2, <1>3, DrawFacts
<1>5. term'.line.col <= term.line.col
  BY <1>2, <1>3, <1>4
<1>6. skew' = (skew \/ term.mid # "none")
  BY <1>1 DEF Tear
<1>7. blur' = IF term.page = "main" THEN blur \cup (IF Overtyped(n) THEN {"overtyped"} ELSE {})
              ELSE blur
  BY <1>1 DEF Smudge
<1>8. /\ blur' \subseteq {"culled", "raced", "overtyped"}
      /\ blur' = {} => blur = {} /\ (term.page = "main" => ~Overtyped(n))
  BY <1>7 DEF Shapes
<1> QED BY <1>4, <1>5, <1>6, <1>8

\* Whatever number of predictions a frame confirms, none is left in the list: the
\* unconfirmed ones are truncated, then the confirmed ones drained, so no
\* prediction outlives a frame that was inspected (inspect_server_frame).
THEOREM CullLeavesNothing ==
    ASSUME NEW S, NEW ps \in Seq(S), NEW n \in 0 .. Len(ps)
    PROVE  Cull(ps, n) = <<>>
<1>1. SubSeq(ps, 1, n) \in Seq(S) /\ Len(SubSeq(ps, 1, n)) = n
  OBVIOUS
<1> QED BY <1>1 DEF Cull

\* The list keeps what the receiver erases afterwards: all of it, or nothing.
LEMMA KeptFacts ==
    ASSUME Shapes, NEW f \in Frame, NEW n \in 0 .. Len(predictions)
    PROVE  Kept(f, n) = predictions \/ Kept(f, n) = <<>>
<1>1. predictions \in Seq(Chars)
  BY DEF Shapes
<1>2. Cull(predictions, n) = <<>>
  BY <1>1, CullLeavesNothing
<1> QED BY <1>2 DEF Kept

\* Predictions are taken back: types, and the room on the terminal.
LEMMA ClearTypes ==
    ASSUME Shapes, Flags, ClearPredictions
    PROVE  /\ predictions' = <<>>
           /\ term' \in Screen /\ term'.line.col <= term.line.col
           /\ skew' \in BOOLEAN
           /\ blur' \subseteq {"culled", "raced", "overtyped"}
<1>1. predictions' = <<>> /\ Len(predictions) \in Nat
  BY DEF ClearPredictions, Shapes
<1>2. CASE Len(predictions) = 0
  <2>1. term' = term /\ skew' = skew /\ blur' = blur
    BY <1>2 DEF ClearPredictions, Unpredict
  <2>2. term.line.col \in Nat
    BY ScreenFacts DEF Shapes
  <2> QED BY <1>1, <2>1, <2>2 DEF Shapes, Flags
<1>3. CASE Len(predictions) # 0
  <2>1. Unpredict(Len(predictions)) /\ Len(predictions) \in Nat \ {0}
    BY <1>1, <1>3 DEF ClearPredictions
  <2> QED BY <1>1, <2>1, UnpredictFacts
<1> QED BY <1>2, <1>3

\* What holds of the terminal where the bytes of a read are handled one by one.
LEMMA NextKeyFacts ==
    ASSUME Shapes, Idle, Flags, Room, NextKey
    PROVE  /\ enabled /\ ~suspended
           /\ todo' \in Seq(Keys) /\ Len(todo) \in Nat /\ Len(todo') = Len(todo) - 1
           /\ term.line \in Line /\ term.line.col \in Nat
           /\ term.line.col < Width
           /\ Inks(frame) => srv.line.col < Width /\ term.line.col + Len(todo) < Width
<1>1. todo # <<>> /\ todo' = Tail(todo) /\ todo \in Seq(Keys)
  BY DEF NextKey, Shapes
<1>2. /\ Len(todo) \in Nat \ {0}
      /\ todo' \in Seq(Keys) /\ Len(todo') = Len(todo) - 1
  BY <1>1
<1>3. enabled /\ ~suspended
  BY <1>1 DEF Idle
<1>4. term.line \in Line /\ term.line.col \in Nat
  BY ScreenFacts DEF Shapes
<1> QED BY <1>2, <1>3, <1>4, PredictorAssumption DEF Room

\* The stdin thread keeps the types and stays in the line.
LEMMA StdinTypes ==
    ASSUME Shapes, Idle, Flags, Room, Stdin
    PROVE  Shapes' /\ Idle' /\ Flags' /\ Room'
<1>1. term.line \in Line /\ term.line.col \in Nat /\ srv \in Screen /\ Len(todo) \in Nat
  BY ScreenFacts DEF Shapes
<1>2. ASSUME NEW k \in 1 .. MaxRead, NEW keys \in [1 .. k -> Keys], ReadKeys(keys)
      PROVE  Shapes' /\ Idle' /\ Flags' /\ Room'
  <2>1. /\ enabled' = enabled /\ suspended' = suspended /\ predictions' = predictions
        /\ frame' = frame /\ srv' = srv /\ term' = term
        /\ blur' = blur /\ skew' = skew /\ blind' = blind
        /\ todo' = keys /\ enabled /\ ~suspended
        /\ term.line.col + MaxRead < Width
    BY <1>2 DEF ReadKeys, Typing, keyVars, history
  <2>2. keys \in Seq(Keys) /\ Len(keys) = k
    BY PredictorAssumption
  <2>3. Shapes' /\ Idle'
    BY <2>1, <2>2 DEF Shapes, Idle
  <2>4. Flags'
    BY <2>1 DEF Flags
  <2>5. Room'
    BY <1>1, <2>1, <2>2, PredictorAssumption DEF Room
  <2> QED BY <2>3, <2>4, <2>5
<1>3. CASE ReadEscape
  <2>1. /\ enabled' = enabled /\ suspended' = suspended /\ todo' = todo
        /\ frame' = frame /\ srv' = srv /\ blind' = blind
        /\ ClearPredictions
    BY <1>3 DEF ReadEscape
  <2>2. /\ predictions' = <<>> /\ term' \in Screen /\ term'.line.col <= term.line.col
        /\ skew' \in BOOLEAN /\ blur' \subseteq {"culled", "raced", "overtyped"}
    BY <2>1, ClearTypes
  <2>3. Shapes' /\ Idle'
    BY <2>1, <2>2 DEF Shapes, Idle
  <2>4. Flags'
    BY <2>1, <2>2 DEF Flags
  <2>5. term'.line.col \in Nat
    BY <2>2, ScreenFacts
  <2>6. Room'
    BY <1>1, <2>1, <2>2, <2>5, PredictorAssumption DEF Room
  <2> QED BY <2>3, <2>4, <2>6
<1>4. CASE KeyChar
  <2>1. /\ enabled' = enabled /\ suspended' = suspended
        /\ frame' = frame /\ srv' = srv /\ blind' = blind /\ blur' = blur
        /\ NextKey /\ Head(todo) \in Chars /\ Draw(Put(term.line, Head(todo)))
        /\ predictions' = Append(predictions, Head(todo))
        /\ skew' = (skew \/ term.mid # "none")
    BY <1>4 DEF KeyChar, Tear
  <2>2. /\ enabled /\ ~suspended
        /\ todo' \in Seq(Keys) /\ Len(todo) \in Nat /\ Len(todo') = Len(todo) - 1
        /\ term.line.col < Width
        /\ Inks(frame) => srv.line.col < Width /\ term.line.col + Len(todo) < Width
    BY <2>1, NextKeyFacts
  <2>3. /\ Put(term.line, Head(todo)) \in Line
        /\ Put(term.line, Head(todo)).col = term.line.col + 1
    BY <1>1, <2>1, <2>2, PutFacts
  <2>4. /\ term' \in Screen
        /\ term'.line = IF term.page = "main" THEN Put(term.line, Head(todo)) ELSE term.line
    BY <2>1, <2>3, DrawFacts DEF Shapes
  <2>5. predictions' \in Seq(Chars)
    BY <2>1 DEF Shapes
  <2>6. Shapes' /\ Idle'
    BY <2>1, <2>2, <2>4, <2>5 DEF Shapes, Idle
  <2>7. Flags'
    BY <2>1 DEF Flags
  <2>8. term'.line.col <= term.line.col + 1 /\ term'.line.col \in Nat
    BY <1>1, <2>3, <2>4
  <2>9. Room'
    <3>1. /\ Width \in Nat /\ term.line.col \in Nat /\ term.line.col + Len(todo) <= Width
          /\ (Inks(frame') <=> Inks(frame)) /\ srv'.line.col = srv.line.col
      BY <1>1, <2>1, PredictorAssumption DEF Room
    <3>2. term'.line.col + Len(todo') <= term.line.col + Len(todo) /\ Len(todo') \in Nat
      <4>1. Len(todo') \in Nat
        BY <2>2
      <4>2. Len(todo) \in Nat /\ Len(todo') = Len(todo) - 1
        BY <2>2
      <4> QED BY <2>8, <3>1, <4>1, <4>2
    <3>3. term'.line.col + Len(todo') <= Width
      BY <2>2, <2>8, <3>1, <3>2
    <3>4. Inks(frame') =>
              srv'.line.col < Width /\ term'.line.col + Len(todo') < Width
      BY <2>2, <2>8, <3>1, <3>2
    <3> QED BY <3>3, <3>4 DEF Room
  <2> QED BY <2>6, <2>7, <2>9
<1>5. CASE KeyErase
  <2>1. /\ enabled' = enabled /\ suspended' = suspended
        /\ frame' = frame /\ srv' = srv /\ blind' = blind /\ NextKey
    BY <1>5 DEF KeyErase
  <2>2. /\ enabled /\ ~suspended
        /\ todo' \in Seq(Keys) /\ Len(todo) \in Nat /\ Len(todo') = Len(todo) - 1
        /\ Inks(frame) => srv.line.col < Width /\ term.line.col + Len(todo) < Width
    BY <2>1, NextKeyFacts
  <2>3. /\ predictions' \in Seq(Chars)
        /\ term' \in Screen /\ term'.line.col <= term.line.col
        /\ skew' \in BOOLEAN /\ blur' \subseteq {"culled", "raced", "overtyped"}
    <3>1. CASE predictions = <<>>
      <4>1. predictions' = predictions /\ term' = term /\ skew' = skew /\ blur' = blur
        BY <1>5, <3>1 DEF KeyErase
      <4> QED BY <1>1, <4>1 DEF Shapes, Flags
    <3>2. CASE predictions # <<>>
      <4>1. Unpredict(1) /\ predictions' = SubSeq(predictions, 1, Len(predictions) - 1)
        BY <1>5, <3>2 DEF KeyErase
      <4>2. predictions' \in Seq(Chars)
        BY <3>2, <4>1 DEF Shapes
      <4>3. /\ term' \in Screen /\ term'.line.col <= term.line.col
            /\ skew' = (skew \/ term.mid # "none")
            /\ blur' \subseteq {"culled", "raced", "overtyped"}
        BY <4>1, UnpredictFacts
      <4> QED BY <4>2, <4>3
    <3> QED BY <3>1, <3>2
  <2>4. Shapes' /\ Idle'
    BY <2>1, <2>2, <2>3 DEF Shapes, Idle
  <2>5. Flags'
    BY <2>1, <2>3 DEF Flags
  <2>6. term'.line.col \in Nat
    BY <2>3, ScreenFacts
  <2>7. Room'
    BY <1>1, <2>1, <2>2, <2>3, <2>6, PredictorAssumption DEF Room
  <2> QED BY <2>4, <2>5, <2>7
<1>6. CASE KeyControl
  <2>1. /\ enabled' = enabled /\ suspended' = suspended
        /\ frame' = frame /\ srv' = srv /\ blind' = blind /\ NextKey
        /\ ClearPredictions
    BY <1>6 DEF KeyControl
  <2>2. /\ enabled /\ ~suspended
        /\ todo' \in Seq(Keys) /\ Len(todo) \in Nat /\ Len(todo') = Len(todo) - 1
        /\ Inks(frame) => srv.line.col < Width /\ term.line.col + Len(todo) < Width
    BY <2>1, NextKeyFacts
  <2>3. /\ predictions' = <<>> /\ term' \in Screen /\ term'.line.col <= term.line.col
        /\ skew' \in BOOLEAN /\ blur' \subseteq {"culled", "raced", "overtyped"}
    BY <2>1, ClearTypes
  <2>4. Shapes' /\ Idle'
    BY <2>1, <2>2, <2>3 DEF Shapes, Idle
  <2>5. Flags'
    BY <2>1, <2>3 DEF Flags
  <2>6. term'.line.col \in Nat
    BY <2>3, ScreenFacts
  <2>7. Room'
    BY <1>1, <2>1, <2>2, <2>3, <2>6, PredictorAssumption DEF Room
  <2> QED BY <2>4, <2>5, <2>7
<1> QED BY <1>2, <1>3, <1>4, <1>5, <1>6 DEF Stdin

\* What the inspection of a frame does: it takes back every prediction, erased
\* from the terminal or left there.
LEMMA InspectFacts ==
    ASSUME Shapes, NEW f \in Frame, NEW n \in 0 .. Len(predictions), Inspect(f, n)
    PROVE  /\ enabled /\ frame = NoFrame /\ todo = <<>>
           /\ Inks(f) => srv.line.col < Width /\ term.line.col < Width
           /\ predictions' = <<>> /\ frame' = f
           /\ enabled' = enabled /\ todo' = todo /\ srv' = srv
           /\ \/ Len(predictions) # 0 /\ Unpredict(Len(predictions))
              \/ /\ term' = term /\ skew' = skew
                 /\ Smudge(IF predictions = <<>> THEN {} ELSE {"culled"})
<1>1. /\ enabled /\ frame = NoFrame /\ todo = <<>> /\ Fits(f)
      /\ predictions' = <<>> /\ frame' = f
      /\ enabled' = enabled /\ todo' = todo /\ srv' = srv
  BY DEF Inspect, Unlocked
<1>2. Inks(f) => srv.line.col < Width /\ term.line.col < Width
  BY <1>1 DEF Fits, Inks, Draws, Commands
<1>3. /\ Len(Kept(f, n)) # 0 => Unpredict(Len(Kept(f, n)))
      /\ Len(Kept(f, n)) = 0 => /\ term' = term /\ skew' = skew
                                 /\ Smudge(IF predictions = <<>> THEN {} ELSE {"culled"})
  BY DEF Inspect
<1>4. Kept(f, n) = predictions \/ Kept(f, n) = <<>>
  BY KeptFacts
<1>5. CASE Kept(f, n) = predictions
  BY <1>1, <1>2, <1>3, <1>5
<1>6. CASE Kept(f, n) = <<>>
  BY <1>1, <1>2, <1>3, <1>6
<1> QED BY <1>4, <1>5, <1>6

\* The receiver keeps the types and stays in the line.
LEMMA ReceiverTypes ==
    ASSUME Shapes, Idle, Flags, Room, Receiver
    PROVE  Shapes' /\ Idle' /\ Flags' /\ Room'
<1>1. /\ term.line \in Line /\ term.line.col \in Nat /\ srv \in Screen /\ term \in Screen
      /\ srv.line.col \in Nat /\ Len(todo) \in Nat
  BY ScreenFacts DEF Shapes
<1>2. ASSUME NEW f \in Frame, Pass(f)
      PROVE  Shapes' /\ Idle' /\ Flags' /\ Room'
  <2>1. /\ enabled' = enabled /\ suspended' = suspended /\ predictions' = predictions
        /\ todo' = todo /\ srv' = srv /\ term' = term
        /\ blur' = blur /\ skew' = skew /\ blind' = blind
        /\ frame' = f /\ Fits(f) /\ todo = <<>>
    BY <1>2 DEF Pass, Unlocked, keyVars, history
  <2>2. Inks(f) => srv.line.col < Width /\ term.line.col < Width
    BY <2>1 DEF Fits, Inks, Draws, Commands
  <2>3. Shapes' /\ Idle'
    BY <2>1 DEF Shapes, Idle
  <2>4. Flags'
    BY <2>1 DEF Flags
  <2>5. Room'
    BY <1>1, <2>1, <2>2 DEF Room
  <2> QED BY <2>3, <2>4, <2>5
<1>3. ASSUME NEW f \in Frame, NEW n \in 0 .. Len(predictions), Inspect(f, n)
      PROVE  Shapes' /\ Idle' /\ Flags' /\ Room'
  <2>1. /\ enabled /\ frame = NoFrame /\ todo = <<>>
        /\ Inks(f) => srv.line.col < Width /\ term.line.col < Width
        /\ predictions' = <<>> /\ frame' = f
        /\ enabled' = enabled /\ todo' = todo /\ srv' = srv
        /\ \/ Len(predictions) # 0 /\ Unpredict(Len(predictions))
           \/ /\ term' = term /\ skew' = skew
              /\ Smudge(IF predictions = <<>> THEN {} ELSE {"culled"})
    BY <1>3, InspectFacts
  <2>2. /\ term' \in Screen /\ term'.line.col <= term.line.col
        /\ skew' \in BOOLEAN /\ blur' \subseteq {"culled", "raced", "overtyped"}
    <3>1. CASE Len(predictions) # 0 /\ Unpredict(Len(predictions))
      <4>1. Len(predictions) \in Nat \ {0}
        BY <3>1 DEF Shapes
      <4> QED BY <3>1, <4>1, UnpredictFacts
    <3>2. CASE /\ term' = term /\ skew' = skew
               /\ Smudge(IF predictions = <<>> THEN {} ELSE {"culled"})
      <4>1. term' \in Screen /\ term'.line.col <= term.line.col
        BY <1>1, <3>2
      <4>2. skew' \in BOOLEAN
        BY <3>2 DEF Flags
      <4>3. blur' \subseteq {"culled", "raced", "overtyped"}
        BY <3>2 DEF Smudge, Shapes
      <4> QED BY <4>1, <4>2, <4>3
    <3> QED BY <2>1, <3>1, <3>2
  <2>3. Shapes' /\ Idle'
    BY <2>1, <2>2 DEF Shapes, Idle
  <2>4. Flags'
    <3>1. suspended' \in BOOLEAN
      BY <1>3 DEF Inspect, Suspend, Flags
    <3>2. blind' \in BOOLEAN
      BY <1>3, FrameFacts DEF Inspect, Switches, Misread, Flags
    <3> QED BY <2>1, <2>2, <3>1, <3>2 DEF Flags
  <2>5. term'.line.col \in Nat
    BY <2>2, ScreenFacts
  <2>6. Room'
    BY <1>1, <2>1, <2>2, <2>5, PredictorAssumption DEF Room
  <2> QED BY <2>3, <2>4, <2>6
<1>4. CASE Show
  <2> DEFINE s == IF frame.skips
                  THEN SwitchTo(srv, IF srv.page = "main" THEN "alt" ELSE "main") ELSE srv
  <2>1. /\ enabled' = enabled /\ suspended' = suspended /\ predictions' = predictions
        /\ todo' = todo /\ blind' = blind /\ frame' = NoFrame
        /\ srv' = Shown(s, frame) /\ term' = Shown(term, frame)
        /\ skew' = (skew \/ frame.skips)
        /\ blur' \in {blur \cup {"raced"}, {}, blur}
    BY <1>4 DEF Show, keyVars
  <2>2. s \in Screen /\ s.line = srv.line
    BY <1>1, SwitchToFacts DEF Pages
  <2>3. /\ frame \in Frame
        /\ Inks(frame) => srv.line.col < Width /\ term.line.col + Len(todo) < Width
    BY DEF Room, Shapes
  <2>4. Inks(frame) => term.line.col < Width /\ s.line.col < Width
    BY <1>1, <2>2, <2>3, PredictorAssumption
  <2>5. /\ srv' \in Screen /\ term' \in Screen
        /\ term'.line.col <= term.line.col + IF Inks(frame) THEN 1 ELSE 0
    BY <1>1, <2>1, <2>2, <2>3, <2>4, ShownFacts
  <2>6. Shapes' /\ Idle'
    BY <2>1, <2>5, NoFrameFacts DEF Shapes, Idle
  <2>7. Flags'
    <3>1. skew' \in BOOLEAN
      BY <2>1
    <3> QED BY <2>1, <3>1 DEF Flags
  <2>8. term'.line.col \in Nat
    BY <2>5, ScreenFacts
  <2>9. term.line.col + Len(todo) <= Width
    BY DEF Room
  <2>10. Room'
    BY <1>1, <2>1, <2>3, <2>5, <2>8, <2>9, NoFrameFacts, PredictorAssumption DEF Room
  <2> QED BY <2>6, <2>7, <2>10
<1> QED BY <1>2, <1>3, <1>4 DEF Receiver
-----------------------------------------------------------------------------
(* The echo.                                                                 *)

\* The last predictions are erased without a trace.
LEMMA UnpredictEcho ==
    ASSUME Shapes, Flags, EchoIsOverlay,
           NEW n \in 1 .. Len(predictions), Unpredict(n),
           predictions' = SubSeq(predictions, 1, Len(predictions) - n), srv' = srv
    PROVE  EchoIsOverlay'
<1> SUFFICES ASSUME ~skew'
             PROVE  /\ term'.page = srv.page /\ term'.mid = srv.mid
                    /\ blur' = {} =>
                          term'.line = IF srv.page = "main" THEN Overlay(srv.line, predictions')
                                       ELSE srv.line
  BY DEF EchoIsOverlay
<1>1. predictions \in Seq(Chars) /\ n \in Nat \ {0} /\ n <= Len(predictions)
  BY DEF Shapes
<1>2. /\ term'.page = term.page /\ term'.mid = "none"
      /\ term'.line = IF term.page = "main" THEN Erase(term.line, n) ELSE term.line
      /\ skew' = (skew \/ term.mid # "none")
      /\ blur' = {} => blur = {} /\ (term.page = "main" => ~Overtyped(n))
  BY <1>1, UnpredictFacts
<1>3. ~skew /\ term.mid = "none"
  BY <1>2
<1>4. /\ term.page = srv.page /\ term.mid = srv.mid
      /\ blur = {} => term.line = IF srv.page = "main" THEN Overlay(srv.line, predictions)
                                  ELSE srv.line
  BY <1>3 DEF EchoIsOverlay
<1>5. ASSUME blur' = {}, srv.page = "main"
      PROVE  term'.line = Overlay(srv.line, predictions')
  <2>1. term.line = Overlay(srv.line, predictions) /\ ~Overtyped(n)
        /\ term'.line = Erase(term.line, n)
    BY <1>2, <1>4, <1>5
  <2>2. term.line \in Line /\ srv.line \in Line
    BY ScreenFacts DEF Shapes
  <2>3. \A i \in srv.line.col + Len(predictions) - n .. srv.line.col + Len(predictions) - 1 :
            i \in Cells => srv.line.text[i] = Blank
    BY <2>1 DEF Overtyped
  <2> QED BY <1>1, <2>1, <2>2, <2>3, EraseOverlay
<1> QED BY <1>2, <1>3, <1>4, <1>5

LEMMA ClearEcho ==
    ASSUME Shapes, Flags, EchoIsOverlay, ClearPredictions, srv' = srv
    PROVE  EchoIsOverlay'
<1>1. predictions' = <<>> /\ predictions \in Seq(Chars) /\ Len(predictions) \in Nat
  BY DEF ClearPredictions, Shapes
<1>2. CASE Len(predictions) = 0
  <2>1. term' = term /\ skew' = skew /\ blur' = blur
    BY <1>2 DEF ClearPredictions, Unpredict
  <2>2. predictions' = predictions
    BY <1>1, <1>2
  <2> QED BY <2>1, <2>2 DEF EchoIsOverlay
<1>3. CASE Len(predictions) # 0
  <2>1. Unpredict(Len(predictions)) /\ Len(predictions) \in 1 .. Len(predictions)
    BY <1>1, <1>3 DEF ClearPredictions
  <2>2. predictions' = SubSeq(predictions, 1, Len(predictions) - Len(predictions))
    BY <1>1
  <2> QED BY <2>1, <2>2, UnpredictEcho
<1> QED BY <1>2, <1>3

LEMMA StdinEcho ==
    ASSUME Shapes, Idle, Flags, Room, EchoIsOverlay, Stdin
    PROVE  EchoIsOverlay'
<1>1. ASSUME NEW k \in 1 .. MaxRead, NEW keys \in [1 .. k -> Keys], ReadKeys(keys)
      PROVE  EchoIsOverlay'
  BY <1>1 DEF ReadKeys, keyVars, history, EchoIsOverlay
<1>2. CASE ReadEscape
  BY <1>2, ClearEcho DEF ReadEscape
<1>3. CASE KeyChar
  <2>1. /\ srv' = srv /\ blur' = blur
        /\ NextKey /\ Head(todo) \in Chars /\ Draw(Put(term.line, Head(todo)))
        /\ predictions' = Append(predictions, Head(todo))
        /\ skew' = (skew \/ term.mid # "none")
    BY <1>3 DEF KeyChar, Tear
  <2>2. /\ term \in Screen /\ term.line \in Line /\ srv.line \in Line
        /\ predictions \in Seq(Chars) /\ term.line.col < Width
    BY <2>1, NextKeyFacts, ScreenFacts DEF Shapes
  <2>3. /\ term'.page = term.page /\ term'.mid = "none"
        /\ term'.line = IF term.page = "main" THEN Put(term.line, Head(todo)) ELSE term.line
    BY <2>1, <2>2, PutFacts, DrawFacts
  <2> SUFFICES ASSUME ~skew'
               PROVE  /\ term'.page = srv.page /\ term'.mid = srv.mid
                      /\ blur = {} =>
                            term'.line = IF srv.page = "main" THEN Overlay(srv.line, predictions')
                                         ELSE srv.line
    BY <2>1 DEF EchoIsOverlay
  <2>4. ~skew /\ term.mid = "none"
    BY <2>1
  <2>5. /\ term.page = srv.page /\ term.mid = srv.mid
        /\ blur = {} => term.line = IF srv.page = "main" THEN Overlay(srv.line, predictions)
                                    ELSE srv.line
    BY <2>4 DEF EchoIsOverlay
  <2>6. ASSUME blur = {}, srv.page = "main"
        PROVE  term'.line = Overlay(srv.line, predictions')
    <3>1. term.line = Overlay(srv.line, predictions) /\ term'.line = Put(term.line, Head(todo))
      BY <2>3, <2>5, <2>6
    <3>2. srv.line.col + Len(predictions) < Width
      BY <2>2, <3>1 DEF Overlay
    <3> QED BY <2>1, <2>2, <3>1, <3>2, PutOverlay
  <2> QED BY <2>3, <2>4, <2>5, <2>6
<1>4. CASE KeyErase
  <2>1. CASE predictions = <<>>
    BY <1>4, <2>1 DEF KeyErase, EchoIsOverlay
  <2>2. CASE predictions # <<>>
    <3>1. /\ Unpredict(1) /\ srv' = srv
          /\ predictions' = SubSeq(predictions, 1, Len(predictions) - 1)
      BY <1>4, <2>2 DEF KeyErase
    <3>2. 1 \in 1 .. Len(predictions)
      BY <2>2 DEF Shapes
    <3> QED BY <3>1, <3>2, UnpredictEcho
  <2> QED BY <2>1, <2>2
<1>5. CASE KeyControl
  BY <1>5, ClearEcho DEF KeyControl
<1> QED BY <1>1, <1>2, <1>3, <1>4, <1>5 DEF Stdin

LEMMA ReceiverEcho ==
    ASSUME Shapes, Idle, Flags, Room, EchoIsOverlay, Receiver
    PROVE  EchoIsOverlay'
<1>1. ASSUME NEW f \in Frame, Pass(f) PROVE EchoIsOverlay'
  BY <1>1 DEF Pass, keyVars, history, EchoIsOverlay
<1>2. ASSUME NEW f \in Frame, NEW n \in 0 .. Len(predictions), Inspect(f, n)
      PROVE  EchoIsOverlay'
  <2>1. /\ predictions' = <<>> /\ srv' = srv
        /\ \/ Len(predictions) # 0 /\ Unpredict(Len(predictions))
           \/ /\ term' = term /\ skew' = skew
              /\ Smudge(IF predictions = <<>> THEN {} ELSE {"culled"})
    BY <1>2, InspectFacts
  <2>2. CASE Len(predictions) # 0 /\ Unpredict(Len(predictions))
    BY <2>1, <2>2, ClearEcho DEF ClearPredictions
  <2>3. CASE /\ term' = term /\ skew' = skew
             /\ Smudge(IF predictions = <<>> THEN {} ELSE {"culled"})
    <3>1. blur' = IF term.page = "main"
                  THEN blur \cup (IF predictions = <<>> THEN {} ELSE {"culled"}) ELSE blur
      BY <2>3 DEF Smudge
    <3>2. blur' = {} => blur = {} /\ (term.page = "main" => predictions' = predictions)
      BY <2>1, <3>1
    <3> QED BY <2>1, <2>3, <3>2 DEF EchoIsOverlay
  <2> QED BY <2>1, <2>2, <2>3
<1>3. CASE Show
  <2>1. /\ predictions' = predictions /\ term' = Shown(term, frame)
        /\ skew' = (skew \/ frame.skips)
        /\ ~frame.skips => srv' = Shown(srv, frame)
        /\ blur' = IF predictions # <<>> THEN blur \cup {"raced"}
                   ELSE IF term.page = "main" /\ SeesClear(frame) THEN {} ELSE blur
    BY <1>3 DEF Show, keyVars
  <2> SUFFICES ASSUME ~skew'
               PROVE  /\ term'.page = srv'.page /\ term'.mid = srv'.mid
                      /\ blur' = {} =>
                            term'.line = IF srv'.page = "main"
                                         THEN Overlay(srv'.line, predictions') ELSE srv'.line
    BY DEF EchoIsOverlay
  <2>2. ~skew /\ srv' = Shown(srv, frame)
    BY <2>1
  <2>3. /\ term.page = srv.page /\ term.mid = srv.mid
        /\ blur = {} => term.line = IF srv.page = "main" THEN Overlay(srv.line, predictions)
                                    ELSE srv.line
    BY <2>2 DEF EchoIsOverlay
  <2>4. /\ frame \in Frame /\ term \in Screen /\ srv \in Screen
        /\ srv.line \in Line /\ term.line.col \in Nat /\ Len(todo) \in Nat
    BY ScreenFacts DEF Shapes
  <2>5. Inks(frame) => term.line.col < Width /\ srv.line.col < Width
    <3>1. Inks(frame) => srv.line.col < Width /\ term.line.col + Len(todo) < Width
      BY DEF Room
    <3> QED BY <2>4, <3>1, PredictorAssumption
  <2>6. /\ term'.page = srv'.page /\ term'.mid = srv'.mid
        /\ term.line = srv.line \/ (term.page = "main" /\ frame.first.op = "clear")
           => term'.line = srv'.line
    BY <2>1, <2>2, <2>3, <2>4, <2>5, ShownAgree
  <2>7. ASSUME blur' = {}
        PROVE  term'.line = srv'.line /\ predictions' = <<>>
    <3>1. predictions = <<>> /\ predictions' = <<>>
      BY <2>1, <2>7
    <3>2. CASE term.page = "main" /\ SeesClear(frame)
      BY <2>4, <2>6, <3>1, <3>2, FrameFacts
    <3>3. CASE ~(term.page = "main" /\ SeesClear(frame))
      <4>1. blur = {}
        BY <2>1, <2>7, <3>1, <3>3
      <4>2. term.line = srv.line
        BY <2>3, <2>4, <3>1, <4>1, OverlayNothing
      <4> QED BY <2>6, <3>1, <4>2
    <3> QED BY <3>2, <3>3
  <2>8. srv'.line \in Line
    BY <2>2, <2>4, <2>5, ShownFacts, ScreenFacts
  <2> QED BY <2>6, <2>7, <2>8, OverlayNothing
<1> QED BY <1>1, <1>2, <1>3 DEF Receiver

-----------------------------------------------------------------------------
(* The pages.                                                                *)

LEMMA PageStep ==
    ASSUME Shapes, Idle, Flags, Room, PageInv, Next
    PROVE  PageInv'
<1>1. ASSUME enabled' = enabled, suspended' = suspended, frame' = frame, srv' = srv,
             blind' = blind
      PROVE  PageInv'
  BY <1>1 DEF PageInv
<1>2. CASE Stdin
  <2>1. /\ enabled' = enabled /\ suspended' = suspended /\ frame' = frame /\ srv' = srv
        /\ blind' = blind
    BY <1>2 DEF Stdin, ReadKeys, ReadEscape, KeyChar, KeyErase, KeyControl, keyVars, history
  <2> QED BY <1>1, <2>1
<1>3. ASSUME NEW f \in Frame, Pass(f) PROVE PageInv'
  BY <1>3 DEF Pass, PageInv
<1>4. ASSUME NEW f \in Frame, NEW n \in 0 .. Len(predictions), Inspect(f, n)
      PROVE  PageInv'
  <2>1. /\ enabled /\ frame = NoFrame /\ frame' = f /\ srv' = srv
        /\ Inks(f) => srv.line.col < Width /\ term.line.col < Width
    BY <1>4, InspectFacts
  <2>2. /\ suspended' = (IF Sees(f, "alt") THEN TRUE
                         ELSE IF Sees(f, "main") THEN FALSE ELSE suspended)
        /\ blind' = (f.skips \/ IF Switches(f) THEN Misread(f) ELSE blind)
    BY <1>4 DEF Inspect, Suspend
  <2>3. ~blind => (suspended <=> srv.page = "alt")
    <3>1. Shown(srv, frame) = srv
      BY <2>1, NoFrameFacts
    <3> QED BY <2>1, <3>1 DEF PageInv
  <2>4. /\ ~Switches(f) => Shown(srv, f).page = srv.page
        /\ Switches(f) /\ ~Misread(f) => (Shown(srv, f).page = "alt" <=> Sees(f, "alt"))
        /\ ~Switches(f) => ~Sees(f, "alt") /\ ~Sees(f, "main")
    BY <2>1, ShownPage DEF Shapes
  <2>5. f.skips => blind'
    BY <2>2
  <2>6. ASSUME ~blind' PROVE suspended' <=> Shown(srv, f).page = "alt"
    <3>1. CASE Switches(f)
      <4>1. ~Misread(f)
        BY <2>2, <2>6, <3>1
      <4>2. Sees(f, "alt") \/ Sees(f, "main")
        BY <4>1 DEF Misread
      <4> QED BY <2>2, <2>4, <3>1, <4>1, <4>2
    <3>2. CASE ~Switches(f)
      <4>1. ~blind /\ suspended' = suspended
        BY <2>2, <2>4, <2>6, <3>2
      <4> QED BY <2>3, <2>4, <3>2, <4>1
    <3> QED BY <3>1, <3>2
  <2> QED BY <2>1, <2>5, <2>6 DEF PageInv
<1>5. CASE Show
  <2>1. /\ enabled' = enabled /\ suspended' = suspended /\ blind' = blind /\ frame' = NoFrame
        /\ ~frame.skips => srv' = Shown(srv, frame)
    BY <1>5 DEF Show, keyVars
  <2>2. Shown(srv', frame') = srv' /\ ~frame'.skips
    BY <2>1, NoFrameFacts
  <2> QED BY <2>1, <2>2 DEF PageInv
<1> QED BY <1>2, <1>3, <1>4, <1>5 DEF Next, Receiver

-----------------------------------------------------------------------------
LEMMA PredictInit == Init => PredictInv
<1> SUFFICES ASSUME Init PROVE PredictInv
  OBVIOUS
<1>1. /\ enabled \in BOOLEAN /\ suspended = FALSE /\ predictions = <<>> /\ todo = <<>>
      /\ frame = NoFrame /\ srv = NewScreen /\ term = NewScreen
      /\ blur = {} /\ skew = FALSE /\ blind = FALSE
  BY DEF Init
<1>2. /\ NewScreen \in Screen /\ NewScreen.page = "main" /\ NewScreen.line = NoLine
      /\ NoLine \in Line /\ NoLine.col = 0
  BY LineFacts DEF NewScreen
<1>3. Shapes /\ Idle
  BY <1>1, <1>2, NoFrameFacts DEF Shapes, Idle
<1>4. Flags
  BY <1>1 DEF Flags
<1>5. Room
  BY <1>1, <1>2, NoFrameFacts, PredictorAssumption DEF Room
<1>6. EchoIsOverlay
  BY <1>1, <1>2, OverlayNothing DEF EchoIsOverlay
<1>7. PageInv
  BY <1>1, <1>2, NoFrameFacts DEF PageInv
<1> QED BY <1>3, <1>4, <1>5, <1>6, <1>7, TypeParts DEF PredictInv

LEMMA PredictNext == PredictInv /\ [Next]_vars => PredictInv'
<1> SUFFICES ASSUME PredictInv, [Next]_vars PROVE PredictInv'
  OBVIOUS
<1>1. Shapes /\ Idle /\ Flags /\ Room /\ EchoIsOverlay /\ PageInv
  BY TypeParts DEF PredictInv
<1>2. CASE Next
  <2>1. Shapes' /\ Idle' /\ Flags' /\ Room' /\ EchoIsOverlay'
    BY <1>1, <1>2, StdinTypes, ReceiverTypes, StdinEcho, ReceiverEcho DEF Next
  <2>2. PageInv'
    BY <1>1, <1>2, PageStep
  <2> QED BY <2>1, <2>2, TypePartsNext DEF PredictInv
<1>3. CASE UNCHANGED vars
  <2>1. /\ enabled' = enabled /\ suspended' = suspended /\ predictions' = predictions
        /\ todo' = todo /\ frame' = frame /\ srv' = srv /\ term' = term
        /\ blur' = blur /\ skew' = skew /\ blind' = blind
    BY <1>3 DEF vars, keyVars, history
  <2>2. Shapes' /\ Idle' /\ Room' /\ PageInv' /\ EchoIsOverlay'
    BY <1>1, <2>1 DEF Shapes, Idle, Room, PageInv, EchoIsOverlay
  <2>3. Flags'
    BY <1>1, <2>1 DEF Flags
  <2> QED BY <2>2, <2>3, TypePartsNext DEF PredictInv
<1> QED BY <1>2, <1>3

\* The inductive invariant of the predictor, the two threads interleaved in any
\* way (predictive.rs, handle_keystroke and inspect_server_frame; client.rs, the
\* stdin and the receiver thread).
THEOREM PredictInvariant == Spec => []PredictInv
BY PredictInit, PredictNext, PTL DEF Spec

\* Every variable keeps its type, and nothing is predicted without --predict or
\* on the alternate page as the predictor knows it.
THEOREM PredictorTypes == Spec => []TypeOK
<1>1. PredictInv => TypeOK
  BY DEF PredictInv
<1> QED BY <1>1, PredictInvariant, PTL

\* The terminal shows the server's line with the outstanding predictions over it,
\* unless one of the three races or losses that EchoIsOverlay names has happened
\* since the page was cleared.
THEOREM EchoIsTheOverlay == Spec => []EchoIsOverlay
<1>1. PredictInv => EchoIsOverlay
  BY DEF PredictInv
<1> QED BY <1>1, PredictInvariant, PTL

\* Predictions are suspended exactly while the application is on the alternate
\* page, unless the last switch was cut, discarded or followed by another in the
\* same frame (inspect_server_frame, contains_subslice).
THEOREM SuspendedWithThePage == Spec => []SuspendedOnAlternatePage
<1>1. PredictInv => SuspendedOnAlternatePage
  <2> SUFFICES ASSUME PredictInv, enabled, frame = NoFrame, ~blind
               PROVE  suspended <=> srv.page = "alt"
    BY DEF SuspendedOnAlternatePage
  <2>1. Shown(srv, frame) = srv
    BY NoFrameFacts
  <2> QED BY <2>1 DEF PredictInv, PageInv
<1> QED BY <1>1, PredictInvariant, PTL

=============================================================================
