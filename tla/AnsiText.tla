------------------------------ MODULE AnsiText ------------------------------
(***************************************************************************)
(* The byte-level algorithms of ansi.rs.  A buffer is a sequence of byte     *)
(* values; a position is a count of bytes from its start, as the code's      *)
(* indices are, so that byte i + 1 of the sequence is buf[i] of the code.    *)
(***************************************************************************)
EXTENDS Integers, Sequences, FiniteSets, FiniteSetsExt, SequencesExt

Esc == 27
Bel == 7
Bsl == 92
Csi == 91
Osc == 93
Dcs == 80

\* 0x40..=0x7E: the bytes that end a control sequence.
FinalByte == 64 .. 126
\* The mutant takes every byte for the start of a character.
StartsCharAny(b) == TRUE
\* The bytes find_safe_split_point takes for the start of a character.
StartsChar(b) == b < 128 \/ b >= 192

\* The position after the first final byte at position i or later, or none.
CsiEnd(buf, i) == {j \in i + 1 .. Len(buf) : buf[j] \in FinalByte}

\* The mutant knows only BEL.
StringStopBel(buf, j) == buf[j] = Bel
\* A string (OSC, DCS) ends with BEL or with the two bytes ESC \.
StringStop(buf, j) ==
    \/ buf[j] = Bel
    \/ buf[j] = Esc /\ j < Len(buf) /\ buf[j + 1] = Bsl

\* The positions after the terminators at position i or later.
StringEnd(buf, i) ==
    {IF buf[j] = Bel THEN j ELSE j + 1 :
        j \in {k \in i + 1 .. Len(buf) : StringStop(buf, k)}}

\* Where a loop that scans for one of `ends` leaves its index.
ScanTo(ends, buf) == IF ends = {} THEN Len(buf) ELSE Min(ends)

\* Where find_safe_split_point stops scanning the sequence whose ESC is at
\* position i.  Only CSI and OSC are known; anything else is two bytes.
SequenceEnd(buf, i) ==
    IF i + 1 >= Len(buf) THEN Len(buf)
    ELSE CASE buf[i + 2] = Csi -> ScanTo(CsiEnd(buf, i + 2), buf)
           [] buf[i + 2] = Osc -> ScanTo(StringEnd(buf, i + 2), buf)
           [] OTHER -> i + 2

\* safe_points at position i and later: before each character, after each
\* sequence, and the end; `from` holds those of the later positions.
SafeFrom(buf, from, i) ==
    IF i = Len(buf) THEN {i}
    ELSE IF buf[i + 1] = Esc
         THEN LET e == SequenceEnd(buf, i) IN {e} \cup from[e]
         ELSE (IF StartsChar(buf[i + 1]) THEN {i} ELSE {}) \cup from[i + 1]
SafePoints(buf) ==
    LET from[i \in 0 .. Len(buf)] == SafeFrom(buf, from, i)
    IN  {0} \cup from[0]

\* find_safe_split_point.
Split(buf, target) ==
    IF target >= Len(buf) THEN Len(buf)
    ELSE IF target = 0 THEN 0
    ELSE Max({p \in SafePoints(buf) : p <= target})

-----------------------------------------------------------------------------
\* contains_subslice.
ContainsSubslice(s, needle) ==
    \E i \in 0 .. Len(s) - Len(needle) : SubSeq(s, i + 1, i + Len(needle)) = needle

\* The sequences strip_terminal_queries_stateful removes, ESC included.
OscQuery(sub) ==
    \/ \E p \in {<<49, 48, 59>>, <<49, 49, 59>>, <<49, 50, 59>>, <<52, 59>>} :
           IsPrefix(<<Esc, Osc>> \o p, sub)                \* "10;" "11;" "12;" "4;"
    \/ ContainsSubslice(sub, <<63>>)                               \* '?'
DcsQuery(sub) == ContainsSubslice(sub, <<36>>)                     \* '$', and so "$q"
CsiQuery(sub) ==
    LET body == SubSeq(sub, 3, Len(sub))
    IN  \/ body \in {<<99>>, <<48, 99>>, <<62, 99>>, <<62, 48, 99>>, <<62, 49, 99>>,
                     <<61, 99>>, <<61, 48, 99>>,           \* c 0c >c >0c >1c =c =0c
                     <<62, 113>>, <<113>>, <<54, 110>>}    \* >q q 6n
        \/ body[1] = 63 /\ Last(body) \in {99, 110}        \* ?...c ?...n

\* How the sequence that starts at position i ends, and what makes it a query.
Ends(buf, i) ==
    IF buf[i + 2] = Csi THEN CsiEnd(buf, i + 2) ELSE StringEnd(buf, i + 2)
IsQuery(sub) ==
    CASE sub[2] = Osc -> OscQuery(sub)
      [] sub[2] = Dcs -> DcsQuery(sub)
      [] sub[2] = Csi -> CsiQuery(sub)

\* The data ends before it is known what the sequence at position i is.
Unfinished(buf, i) ==
    \/ i + 1 = Len(buf)
    \/ buf[i + 2] \in {Osc, Dcs, Csi} /\ Ends(buf, i) = {}

\* The mutant forgets the unfinished sequence.
RestForgotten(buf, i) == <<>>
\* data[i..].
Rest(buf, i) == SubSeq(buf, i + 1, Len(buf))

\* strip_terminal_queries_stateful: the cleaned bytes, and the rest that the
\* caller has to put in front of the next data; from position i on, when `from`
\* holds them for the later positions.
StripFrom(buf, from, i) ==
    IF i = Len(buf) THEN [clean |-> <<>>, rest |-> <<>>]
    ELSE LET keep == [from[i + 1] EXCEPT !.clean = <<buf[i + 1]>> \o @]
             end  == Min(Ends(buf, i))
         IN  CASE buf[i + 1] # Esc -> keep
               [] buf[i + 1] = Esc /\ Unfinished(buf, i) ->
                      [clean |-> <<>>, rest |-> Rest(buf, i)]
               [] OTHER ->
                      IF /\ buf[i + 2] \in {Osc, Dcs, Csi}
                         /\ IsQuery(SubSeq(buf, i + 1, end))
                      THEN from[end] ELSE keep
Strip(buf) ==
    LET from[i \in 0 .. Len(buf)] == StripFrom(buf, from, i)
    IN  from[0]
=============================================================================
