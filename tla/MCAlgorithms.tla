---------------------------- MODULE MCAlgorithms ----------------------------
(***************************************************************************)
(* The pure algorithms on bounded inputs, against reference definitions.     *)
(* A run grows one input: terminal output piece by piece ("ansi"), or the    *)
(* payload of a packet byte by byte ("packet").                              *)
(***************************************************************************)
EXTENDS AnsiText, Packets

CONSTANTS
    MaxPieces,    \* pieces of terminal output
    MaxPayload    \* bytes of a payload

VARIABLES job, pieces, payload
vars == <<job, pieces, payload>>

\* Whole pieces that the terminal answers, and whole pieces that it shows:
\* x, a two-byte character, BEL, ESC 7, a colour, window titles.
Queries == {<<27, 91, 99>>, <<27, 91, 63, 54, 110>>, <<27, 91, 54, 110>>,
            <<27, 93, 52, 59, 7>>, <<27, 93, 63, 27, 92>>}
Shown   == {<<120>>, <<195, 169>>, <<7>>, <<27, 55>>, <<27, 91, 109>>,
            <<27, 93, 120, 7>>, <<27, 93, 120, 27, 92>>}
\* DCS strings: a query, and one that is shown.
DcsQueries == {<<27, 80, 36, 113, 27, 92>>}
DcsShown   == {<<27, 80, 120, 27, 92>>}
\* Sequences cut off, as a program that was killed leaves them.
Broken  == {<<27>>, <<27, 91>>, <<27, 93>>, <<27, 80>>}

Init == job \in {"ansi", "packet"} /\ pieces = <<>> /\ payload = <<>>

AddPiece ==
    /\ job = "ansi" /\ Len(pieces) < MaxPieces
    /\ \E p \in Queries \cup Shown \cup DcsQueries \cup DcsShown \cup Broken : pieces' = Append(pieces, p)
    /\ UNCHANGED <<job, payload>>

\* The next byte: a tag; the flag of a frame; the length of a handshake's key,
\* its bytes, which may be a character, a part of one or none, and what follows
\* the shortest handshake and an unknown tag; or 0 and 1.
Bytes ==
    LET n == Len(payload)
    IN  CASE n = 0 -> 0 .. 7
          [] n = 9 /\ payload[1] = 5 -> 0 .. 2
          [] n = 2 /\ payload[1] = 6 -> 0 .. 3
          [] n \in 3 .. 5 /\ payload[1] = 6 -> {1, 169, 195, 226}
          [] n >= 10 /\ payload[1] = 6 -> {0}
          [] n > 0 /\ payload[1] \notin 1 .. 6 -> {0}
          [] OTHER -> {0, 1}

AddByte ==
    /\ job = "packet" /\ Len(payload) < MaxPayload
    /\ \E b \in Bytes : payload' = Append(payload, b)
    /\ UNCHANGED <<job, pieces>>

Next == AddPiece \/ AddByte
Spec == Init /\ [][Next]_vars

-----------------------------------------------------------------------------
Stream == FlattenSeq(pieces)
Cut(k) == Len(FlattenSeq(SubSeq(pieces, 1, k)))
IsSequence(k) == pieces[k][1] = Esc

\* Where the output may be cut: after a whole piece.  The code never cuts
\* between a character and the sequence that follows it.
SafeCuts ==
    {Cut(k) : k \in {k \in 0 .. Len(pieces) :
        k \in 1 .. Len(pieces) - 1 => IsSequence(k) \/ ~IsSequence(k + 1)}}

\* Pieces that find_safe_split_point knows; DCS strings are not known to it.
Known == \A k \in DOMAIN pieces : pieces[k] \in Shown \cup Queries

\* find_safe_split_point (ansi.rs:13), however much of the output is in the
\* buffer, cuts at the last place that the tokens allow and that is safe or the
\* end of the buffer: so a character or a sequence is cut only where the read
\* has already cut it, and only when the tokens allow the whole buffer.
SplitMatches ==
    Known => \A n \in 0 .. Len(Stream) : \A target \in 0 .. n + 1 :
        Split(SubSeq(Stream, 1, n), target)
            = Max({c \in (SafeCuts \cup {n}) \cap 0 .. n : c <= target})

\* What is left of a piece.
Kept(p) == IF p \in Queries \cup DcsQueries THEN <<>> ELSE p

\* strip_terminal_queries_stateful (ansi.rs:78) removes the queries and nothing
\* else from output made of whole sequences.
StripMatches ==
    (\A k \in DOMAIN pieces : pieces[k] \notin Broken) =>
        Strip(Stream) = [clean |-> FlattenSeq([k \in DOMAIN pieces |-> Kept(pieces[k])]),
                         rest  |-> <<>>]

\* The same bytes come out wherever the stream is cut into two reads, when the
\* rest is put in front of the second read: what is cleaned does not depend on
\* how the network delivers it.
StripUnchunked ==
    \A n \in 0 .. Len(Stream) :
        LET first  == Strip(SubSeq(Stream, 1, n))
            second == Strip(first.rest \o SubSeq(Stream, n + 1, Len(Stream)))
        IN  Strip(Stream) = [clean |-> first.clean \o second.clean, rest |-> second.rest]

\* Packets to send; the payload so far serves as data, as the key when it is a
\* string, and as what follows.
Samples ==
    LET eight == <<0, 1, 0, 0, 1, 1, 0, 1>>
    IN  {ClientInput(payload), ClientResize(1, 256), Ping(eight), Pong(eight),
         ServerFrame(eight, TRUE, payload), ServerFrame(eight, FALSE, payload)}
        \cup {ClientHandshake(k, 257, 2) : k \in {payload} \cap {Lossy(payload)}}

\* The payload is one that serialize writes: a frame's flag is 0 or 1, and the
\* key of a handshake is UTF-8.
Canonical ==
    LET p == Deserialize(payload)
    IN  /\ p.tag = 5 => payload[10] \in {0, 1}
        /\ p.tag = 6 => p.key = Slice(payload, 3, 3 + FromBe16(Slice(payload, 1, 3)))

\* The packet takes the first m bytes: fewer are an error, more are ignored.
Takes(m) ==
    \A n \in 0 .. Len(payload) :
        Deserialize(SubSeq(payload, 1, n)) = IF n < m THEN Err ELSE Deserialize(payload)

\* Packet::deserialize (protocol.rs:115) reads a packet from a definite number of
\* bytes, so a truncated packet is always an error, never a different packet; from
\* a payload that serialize (protocol.rs:67) can write, from exactly the bytes that
\* serialize writes for the packet.  Every packet that is encoded and decoded,
\* whatever bytes follow it, comes back.
PacketsExact ==
    /\ LET p == Deserialize(payload)
       IN  p # Err =>
               /\ \E m \in 1 .. Len(payload) : Takes(m)
               /\ Canonical => IsPrefix(Serialize(p), payload) /\ Takes(Len(Serialize(p)))
    /\ \A p \in Samples :
           LET wire == Encode(p) \o payload
           IN  Deserialize(Slice(wire, 4, 4 + FromBe32(Slice(wire, 0, 4)))) = p

\* The C and the C++ client write what the Rust client writes for a payload q, but
\* nothing for a compressed frame of less than 10 bytes or of more than
\* DecompressRoom, nor, in C, when there is no memory to decompress it.
Alike(q, gz, memory) ==
    LET p      == Deserialize(q)
        packed == p.tag = 5 /\ p.compressed
        fits   == packed => Len(p.data) >= 10 /\ Len(gz.data) <= DecompressRoom
    IN  /\ HandleServerPacketCpp(q, gz) = IF fits THEN RenderRust(q, gz) ELSE Dropped
        /\ ProcessPacketC(q, gz, memory) =
               IF fits /\ (packed => memory) THEN RenderRust(q, gz) ELSE Dropped

\* What the decoder may make of a compressed frame.
Inflated == {Dropped, Writes(payload)}

\* The three clients agree on every payload and on every frame: the C and C++
\* readers (mosh_tcp_client.c:197, mosh_tcp_client.cpp:245) find what the Rust
\* client finds, and the same bytes reach the terminal, with the exceptions of Alike.
ClientsAgree ==
    LET p == Deserialize(payload)
    IN  /\ DeserializePacketCpp(payload) = IF p.tag = 6 THEN Err ELSE p
        /\ \A q \in {payload} \cup {Serialize(s) : s \in {s \in Samples : s.tag = 5}} :
               \A gz \in Inflated, memory \in BOOLEAN : Alike(q, gz, memory)
=============================================================================
