------------------------------- MODULE Framing -------------------------------
(***************************************************************************)
(* Reading length-prefixed packets from a TCP stream, by the three readers   *)
(* of the repository:                                                       *)
(*   "codec"  PacketCodec::decode under tokio's Framed (server)              *)
(*   "poll"   the net_buf loop of the C and C++ clients                      *)
(*   "exact"  read_packet of the Rust client: two read_exact calls on a      *)
(*            socket with a 500 ms read timeout                              *)
(* The stream is abstracted to byte positions: packet k occupies the bytes   *)
(* after Starts[k], Header bytes of length and then Size[k] bytes of payload.*)
(* TCP delivers the bytes in order, in pieces of any size.                   *)
(***************************************************************************)
EXTENDS Integers, Sequences

CONSTANTS
    N,         \* packets in the stream
    Header,    \* bytes of the length prefix (4 in the code)
    Size,      \* payload length of each packet
    Starts,    \* stream position before each packet, and after the last
    NetBufs,   \* values of BUFFER_SIZE to consider (C and C++ clients)
    Garbage,   \* what a length read at a wrong position decodes to
    Readers    \* the readers to consider

ASSUME FramingAssumption ==
    /\ N \in Nat /\ Header \in Nat \ {0} /\ Garbage \in Nat
    /\ NetBufs \subseteq Nat \ {0}
    /\ Size \in [1 .. N -> Nat] /\ Starts \in [1 .. N + 1 -> Nat]
    /\ Starts[1] = 0
    /\ \A k \in 1 .. N : Starts[k + 1] = Starts[k] + Header + Size[k]
    \* (which follows from the line above, by induction)
    /\ \A j, k \in 1 .. N + 1 : j < k => Starts[j] < Starts[k]
    /\ Readers \subseteq {"codec", "poll", "exact"}

VARIABLES
    reader,     \* which reader this is
    netBuf,     \* BUFFER_SIZE
    sent,       \* bytes that have arrived at the reader's socket
    closed,     \* the peer has closed the connection
    reset,      \* the peer has closed it with a reset
    taken,      \* bytes the reader has taken from the socket
    base,       \* where the reader believes the current packet to start
    part,       \* "exact" only: which read_exact call it is in
    delivered,  \* payloads handed on, as intervals of the stream
    ended,      \* the reader has given up the connection
    torn        \* history: a timeout has discarded part of a packet

config == <<reader, netBuf>>
vars == <<config, sent, closed, reset, taken, base, part, delivered, ended, torn>>

Total == Starts[N + 1]

\* The length decoded from the Header bytes after position p.
LengthAt(p) ==
    IF \E k \in 1 .. N : Starts[k] = p
    THEN Size[CHOOSE k \in 1 .. N : Starts[k] = p]
    ELSE Garbage

Interval(p, n) == [from |-> p + Header, to |-> p + Header + n]

Init ==
    /\ reader \in Readers /\ netBuf \in NetBufs
    /\ sent = 0 /\ closed = FALSE /\ reset = FALSE
    /\ taken = 0 /\ base = 0 /\ part = "length"
    /\ delivered = <<>>
    /\ ended = FALSE /\ torn = FALSE

-----------------------------------------------------------------------------
(* The network and the peer *)

Arrive(n) ==
    /\ ~closed /\ sent + n <= Total
    /\ sent' = sent + n
    /\ UNCHANGED <<config, closed, reset, taken, base, part, delivered, ended, torn>>

\* A reset happens when the peer closes with input it has not read.
PeerClose(hard) ==
    /\ ~closed
    /\ closed' = TRUE /\ reset' = hard
    /\ UNCHANGED <<config, sent, taken, base, part, delivered, ended, torn>>

\* Faulty variant: the next packet is looked for a header too early.
DeliverNoHeader(n) ==
    /\ delivered' = Append(delivered, Interval(base, n))
    /\ base' = base + n

Deliver(n) ==
    /\ delivered' = Append(delivered, Interval(base, n))
    /\ base' = base + Header + n

-----------------------------------------------------------------------------
(* "codec" and "poll": bytes (base, taken] are buffered; complete packets are  *)
(* taken out before the socket is read again.                                 *)

Buffered == reader \in {"codec", "poll"} /\ ~ended

\* Faulty variant: the length prefix is not counted.
CompleteShort == taken - base >= Header /\ taken - base >= LengthAt(base)

Complete == taken - base >= Header /\ taken - base >= Header + LengthAt(base)

Decode ==
    /\ Buffered /\ Complete
    /\ Deliver(LengthAt(base))
    /\ UNCHANGED <<config, sent, closed, reset, taken, part, ended, torn>>

\* The C and C++ buffer is fixed; BytesMut grows.
Room(n) == reader = "poll" => taken + n - base <= netBuf

Fill(n) ==
    /\ Buffered /\ ~Complete
    /\ taken + n <= sent /\ Room(n)
    /\ taken' = taken + n
    /\ UNCHANGED <<config, sent, closed, reset, base, part, delivered, ended, torn>>

\* Faulty variant: the end of the stream is taken before the buffer is decoded.
StreamEndEarly ==
    /\ Buffered /\ closed
    /\ taken = sent
    /\ ended' = TRUE
    /\ UNCHANGED <<config, sent, closed, reset, taken, base, part, delivered, torn>>

StreamEnd ==
    /\ Buffered /\ ~Complete
    /\ closed /\ taken = sent
    /\ ended' = TRUE
    /\ UNCHANGED <<config, sent, closed, reset, taken, base, part, delivered, torn>>

\* Faulty variant: one byte of the buffer is never used.
BufferFullEarly ==
    /\ Buffered /\ ~Complete
    /\ reader = "poll" /\ taken - base >= netBuf - 1
    /\ sent > taken \/ closed
    /\ ended' = TRUE
    /\ UNCHANGED <<config, sent, closed, reset, taken, base, part, delivered, torn>>

\* With a full buffer the clients read 0 bytes and take that for the end.
BufferFull ==
    /\ Buffered /\ ~Complete
    /\ reader = "poll" /\ taken - base = netBuf
    /\ sent > taken \/ closed
    /\ ended' = TRUE
    /\ UNCHANGED <<config, sent, closed, reset, taken, base, part, delivered, torn>>

\* POLLHUP or POLLERR: the clients leave after one read, with whatever the
\* socket still holds unread.
HangUp ==
    /\ Buffered /\ ~Complete
    /\ reader = "poll" /\ reset
    /\ ended' = TRUE
    /\ UNCHANGED <<config, sent, closed, reset, taken, base, part, delivered, torn>>

-----------------------------------------------------------------------------
(* "exact": read_exact for the length, then for the body.                     *)

Exact == reader = "exact" /\ ~ended

PartEnd == IF part = "length" THEN base + Header
           ELSE base + Header + LengthAt(base)

ReadSome(n) ==
    /\ Exact
    /\ taken + n <= sent /\ taken + n <= PartEnd
    /\ taken' = taken + n
    /\ UNCHANGED <<config, sent, closed, reset, base, part, delivered, ended, torn>>

LengthRead ==
    /\ Exact /\ part = "length" /\ taken = PartEnd
    /\ part' = "body"
    /\ UNCHANGED <<config, sent, closed, reset, taken, base, delivered, ended, torn>>

BodyRead ==
    /\ Exact /\ part = "body" /\ taken = PartEnd
    /\ Deliver(LengthAt(base))
    /\ part' = "length"
    /\ UNCHANGED <<config, sent, closed, reset, taken, ended, torn>>

\* Packet::deserialize refuses what is not a packet.
BodyRejected ==
    /\ Exact /\ part = "body" /\ taken = PartEnd
    /\ \A k \in 1 .. N : Starts[k] # base
    /\ ended' = TRUE
    /\ UNCHANGED <<config, sent, closed, reset, taken, base, part, delivered, torn>>

\* read_exact fails with WouldBlock or TimedOut; the loop calls read_packet
\* again, which expects a length where the stream has the rest of a packet.
Timeout ==
    /\ Exact /\ ~closed
    /\ taken = sent /\ taken < PartEnd
    /\ taken # base
    /\ base' = taken /\ part' = "length"
    /\ torn' = TRUE
    /\ UNCHANGED <<config, sent, closed, reset, taken, delivered, ended>>

UnexpectedEof ==
    /\ Exact /\ closed
    /\ taken = sent /\ taken < PartEnd
    /\ ended' = TRUE
    /\ UNCHANGED <<config, sent, closed, reset, taken, base, part, delivered, torn>>

-----------------------------------------------------------------------------
Network == (\E n \in 1 .. Total : Arrive(n)) \/ (\E hard \in BOOLEAN : PeerClose(hard))

BufferedReader ==
    \/ Decode \/ StreamEnd \/ BufferFull \/ HangUp
    \/ \E n \in 1 .. Total : Fill(n)

ExactReader ==
    \/ LengthRead \/ BodyRead \/ BodyRejected \/ Timeout \/ UnexpectedEof
    \/ \E n \in 1 .. Total : ReadSome(n)

Next == Network \/ BufferedReader \/ ExactReader

Spec == Init /\ [][Next]_vars

\* The reader's loop runs whenever its socket is readable or times out.
FairSpec == Spec /\ WF_vars(BufferedReader) /\ WF_vars(ExactReader)

-----------------------------------------------------------------------------
\* The reader holds a stretch of what has arrived: no packet is taken out
\* before its last byte is there.
TypeOK ==
    /\ reader \in Readers /\ netBuf \in NetBufs
    /\ sent \in 0 .. Total /\ taken \in 0 .. sent /\ base \in 0 .. taken
    /\ closed \in BOOLEAN /\ ended \in BOOLEAN /\ torn \in BOOLEAN
    /\ reset \in BOOLEAN
    /\ part \in {"length", "body"}
    /\ delivered \in Seq([from : Nat, to : Nat])

PacketAt(k) == Interval(Starts[k], Size[k])

InOrder ==
    \A i \in 1 .. Len(delivered) : i <= N /\ delivered[i] = PacketAt(i)

\* However TCP cuts the stream, the payloads handed on are the packets sent,
\* whole, in order and without repetition, unless a read timeout has struck in
\* the middle of a packet.
IntactUnlessTorn == ~torn => InOrder

TooBig(k) == Header + Size[k] > netBuf

\* A reader gives the connection up before the peer does only at a packet that
\* does not fit in BUFFER_SIZE: every packet that just fits gets through, and
\* so do all packets before the one that does not.
GivesUpOnlyWhenTooBig ==
    ended /\ ~closed /\ ~torn =>
        /\ reader = "poll"
        /\ Len(delivered) < N /\ TooBig(Len(delivered) + 1)

\* Once the whole stream has arrived, every packet is handed on, unless a
\* timeout has torn one, a reset has cut the stream off, or one does not fit.
AllDelivered ==
    (sent = Total) ~>
        \/ Len(delivered) = N
        \/ torn \/ reset
        \/ reader = "poll" /\ \E k \in 1 .. N : TooBig(k)

\* The framing is interpreted identically by all clients.
FramesIntact == InOrder
=============================================================================
