------------------------------ MODULE Packets ------------------------------
(***************************************************************************)
(* Packet::serialize and Packet::deserialize byte by byte, the codec's      *)
(* encode, and the readers and writers of the same format in the C and C++   *)
(* clients.  u16 and u32 are numbers, written big endian; a u64 is kept as   *)
(* its eight bytes.  A slice outside the data, which panics in Rust, is an   *)
(* error of TLC.                                                            *)
(***************************************************************************)
EXTENDS Integers, Sequences, FiniteSetsExt

CONSTANTS
    U32,           \* 2^32, where a sum of the C and C++ clients wraps around (bound: TLC's
                   \* integers end at 2^31; no sum of a run comes near it)
    DecompressRoom \* DECOMPRESS_BUFFER_SIZE: 256 KB (bound: a few bytes in a run)

ASSUME U32Assumption == U32 \in Nat \ {0}
ASSUME RoomAssumption == DecompressRoom \in Nat

Be16(n) == <<(n \div 256) % 256, n % 256>>
Be32(n) == Be16((n \div 256) \div 256) \o Be16(n)
FromBe16(b) == 256 * b[1] + b[2]
FromBe32(b) == 256 * (256 * (256 * b[1] + b[2]) + b[3]) + b[4]

\* src[a..b] and src[a..] of the code.
Slice(s, a, b) == SubSeq(s, a + 1, b)
From(s, a) == SubSeq(s, a + 1, Len(s))

ClientInput(d)           == [tag |-> 1, data |-> d]
ClientResize(r, c)       == [tag |-> 2, rows |-> r, cols |-> c]
Ping(t)                  == [tag |-> 3, timestamp |-> t]
Pong(t)                  == [tag |-> 4, timestamp |-> t]
ServerFrame(q, z, d)     == [tag |-> 5, seq |-> q, compressed |-> z, data |-> d]
ClientHandshake(k, r, c) == [tag |-> 6, key |-> k, rows |-> r, cols |-> c]
Err == [tag |-> 0]

\* Packet::serialize.  Be16 cuts the key's length to 16 bits.
Serialize(p) ==
    <<p.tag>> \o
    CASE p.tag = 1 -> Be32(Len(p.data)) \o p.data
      [] p.tag = 2 -> Be16(p.rows) \o Be16(p.cols)
      [] p.tag \in {3, 4} -> p.timestamp
      [] p.tag = 5 -> p.seq \o <<IF p.compressed THEN 1 ELSE 0>>
                        \o Be32(Len(p.data)) \o p.data
      [] p.tag = 6 -> Be16(Len(p.key)) \o p.key \o Be16(p.rows) \o Be16(p.cols)

\* PacketCodec::encode, and write_packet of the client.
Encode(p) == Be32(Len(Serialize(p))) \o Serialize(p)

\* The body of a packet of each tag; every early return is an Err.
DeserializeInput(src) ==
    IF Len(src) < 4 THEN Err
    ELSE LET len == FromBe32(Slice(src, 0, 4))
         IN  IF Len(src) - 4 < len THEN Err ELSE ClientInput(Slice(src, 4, 4 + len))
DeserializeResize(src) ==
    IF Len(src) < 4 THEN Err
    ELSE ClientResize(FromBe16(Slice(src, 0, 2)), FromBe16(Slice(src, 2, 4)))
DeserializeTime(src, t) ==
    IF Len(src) < 8 THEN Err ELSE [tag |-> t, timestamp |-> Slice(src, 0, 8)]

\* String::from_utf8_lossy: U+FFFD stands for every longest run of bytes that
\* starts a character and does not finish it, and for every byte that starts none.
CharLen(b) ==
    IF b < 128 THEN 1 ELSE IF b \in 194 .. 223 THEN 2
    ELSE IF b \in 224 .. 239 THEN 3 ELSE IF b \in 240 .. 244 THEN 4 ELSE 0
Second(b) ==
    IF b = 224 THEN 160 .. 191 ELSE IF b = 237 THEN 128 .. 159
    ELSE IF b = 240 THEN 144 .. 191 ELSE IF b = 244 THEN 128 .. 143 ELSE 128 .. 191
Run(s, i) ==
    Max({1} \cup {n \in 2 .. CharLen(s[i + 1]) :
        /\ i + n <= Len(s) /\ s[i + 2] \in Second(s[i + 1])
        /\ \A j \in 3 .. n : s[i + j] \in 128 .. 191})
Lossy(s) ==
    LET from[i \in 0 .. Len(s)] ==
            IF i = Len(s) THEN <<>>
            ELSE (IF Run(s, i) = CharLen(s[i + 1]) THEN Slice(s, i, i + Run(s, i))
                  ELSE <<239, 191, 189>>) \o from[i + Run(s, i)]
    IN  from[0]

\* The mutants take a frame whose data has not arrived in full, and read the
\* window size of a handshake from where the key starts.
DeserializeFrameShort(src) ==
    IF Len(src) < 13 THEN Err
    ELSE ServerFrame(Slice(src, 0, 8), src[9] # 0, From(src, 13))
DeserializeFrame(src) ==
    IF Len(src) < 13 THEN Err
    ELSE LET len == FromBe32(Slice(src, 9, 13))
         IN  IF Len(src) - 13 < len THEN Err
             ELSE ServerFrame(Slice(src, 0, 8), src[9] # 0, Slice(src, 13, 13 + len))
DeserializeHandshakeAtKey(src) ==
    IF Len(src) < 2 THEN Err
    ELSE LET n == FromBe16(Slice(src, 0, 2))
         IN  IF Len(src) - 2 < n + 4 THEN Err
             ELSE ClientHandshake(Lossy(Slice(src, 2, 2 + n)),
                                  FromBe16(Slice(src, 2, 4)), FromBe16(Slice(src, 4, 6)))
DeserializeHandshake(src) ==
    IF Len(src) < 2 THEN Err
    ELSE LET n == FromBe16(Slice(src, 0, 2))
         IN  IF Len(src) - 2 < n + 4 THEN Err
             ELSE ClientHandshake(Lossy(Slice(src, 2, 2 + n)),
                                  FromBe16(Slice(src, 2 + n, 4 + n)),
                                  FromBe16(Slice(src, 4 + n, 6 + n)))

\* Packet::deserialize.  What follows the packet is ignored.
Deserialize(payload) ==
    IF payload = <<>> THEN Err
    ELSE LET src == From(payload, 1)
         IN  CASE payload[1] = 1 -> DeserializeInput(src)
               [] payload[1] = 2 -> DeserializeResize(src)
               [] payload[1] = 3 -> DeserializeTime(src, 3)
               [] payload[1] = 4 -> DeserializeTime(src, 4)
               [] payload[1] = 5 -> DeserializeFrame(src)
               [] payload[1] = 6 -> DeserializeHandshake(src)
               [] OTHER -> Err

-----------------------------------------------------------------------------
\* The frame that process_packet of the C client finds, if any.  It knows only tag 5.
FrameC(payload) ==
    IF payload = <<>> \/ payload[1] # 5 \/ Len(payload) < 14 THEN Err
    ELSE LET len == FromBe32(Slice(payload, 10, 14))
         IN  IF (14 + len) % U32 > Len(payload) THEN Err
             ELSE ServerFrame(Slice(payload, 1, 9), payload[10] # 0,
                              Slice(payload, 14, 14 + len))

\* deserialize_packet of the C++ client.  It does not know the handshake.
DeserializePacketCpp(payload) ==
    IF payload = <<>> THEN Err
    ELSE LET body == From(payload, 1)
             DataAt(a) == FromBe32(Slice(body, a, a + 4))
         IN  CASE payload[1] = 1 /\ Len(body) >= 4 /\ Len(body) >= (4 + DataAt(0)) % U32 ->
                      ClientInput(Slice(body, 4, 4 + DataAt(0)))
               [] payload[1] = 2 /\ Len(body) >= 4 ->
                      ClientResize(256 * body[1] + body[2], 256 * body[3] + body[4])
               [] payload[1] = 3 /\ Len(body) >= 8 -> Ping(Slice(body, 0, 8))
               [] payload[1] = 4 /\ Len(body) >= 8 -> Pong(Slice(body, 0, 8))
               [] payload[1] = 5 /\ Len(body) >= 13 /\ Len(body) >= (13 + DataAt(9)) % U32 ->
                      ServerFrame(Slice(body, 0, 8), body[9] # 0,
                                  Slice(body, 13, 13 + DataAt(9)))
               [] OTHER -> Err

-----------------------------------------------------------------------------
(* What is written to the terminal for a payload.  The decoders (flate2, puff) *)
(* are external: gz is what they make of the data of a compressed frame, the    *)
(* same for both, as it is for every stream that the server's encoder writes.   *)

Dropped   == [ok |-> FALSE, data |-> <<>>]
Writes(d) == [ok |-> TRUE, data |-> d]

\* The receiver of the Rust client, with decompress_data.
RenderRust(payload, gz) ==
    LET p == Deserialize(payload)
    IN  IF p.tag # 5 THEN Dropped ELSE IF p.compressed THEN gz ELSE Writes(p.data)

\* decompress_frame of the C and C++ clients: the output has a fixed size.
DecompressFrame(data, gz) ==
    IF Len(data) < 10 \/ Len(gz.data) > DecompressRoom THEN Dropped ELSE gz

\* handle_server_packet of the C++ client.
HandleServerPacketCpp(payload, gz) ==
    LET p == DeserializePacketCpp(payload)
    IN  IF p.tag # 5 THEN Dropped
        ELSE IF p.compressed THEN DecompressFrame(p.data, gz) ELSE Writes(p.data)

\* process_packet of the C client; memory: malloc finds the room to decompress.
ProcessPacketC(payload, gz, memory) ==
    LET f == FrameC(payload)
    IN  IF f = Err THEN Dropped
        ELSE IF ~f.compressed THEN Writes(f.data)
        ELSE IF memory THEN DecompressFrame(f.data, gz) ELSE Dropped
=============================================================================
