---------------------------- MODULE PacketsProofs ----------------------------
(***************************************************************************)
(* Proofs about Packets: reading and writing the packets of the protocol,    *)
(* for payloads of any content.  No state is involved: the theorems hold of  *)
(* whatever the variable payload is.  Of Lossy they use nothing but that it   *)
(* is a function of the key: what it computes is left to TLC.                *)
(***************************************************************************)
EXTENDS MCAlgorithms, SequenceTheorems, TLAPS

Byte == 0 .. 255

-----------------------------------------------------------------------------
(* Slices.                                                                   *)

LEMMA SliceFacts ==
    ASSUME NEW S, NEW s \in Seq(S), NEW a \in Nat, NEW b \in Nat, a <= b, b <= Len(s)
    PROVE  /\ Slice(s, a, b) \in Seq(S) /\ Len(Slice(s, a, b)) = b - a
           /\ \A i \in 1 .. b - a : Slice(s, a, b)[i] = s[a + i]
<1>1. \A i \in a + 1 .. b : s[i] \in S
  OBVIOUS
<1> DEFINE t == SubSeq(s, a + 1, b)
<1>2. /\ t \in Seq(S) /\ Len(t) = IF a + 1 <= b THEN b - (a + 1) + 1 ELSE 0
      /\ \A i \in 1 .. b - (a + 1) + 1 : t[i] = s[(a + 1) + i - 1]
  BY <1>1, SubSeqProperties
<1> HIDE DEF t
<1>3. Len(t) = b - a /\ \A i \in 1 .. b - a : t[i] = s[a + i]
  BY <1>2
<1> QED BY <1>2, <1>3 DEF Slice, t

\* A slice is recognised by its elements.
LEMMA SliceIs ==
    ASSUME NEW S, NEW s \in Seq(S), NEW t \in Seq(S), NEW a \in Nat, NEW b \in Nat,
           a <= b, b <= Len(s)
    PROVE  b - a = Len(t) /\ (\A i \in 1 .. Len(t) : s[a + i] = t[i]) => Slice(s, a, b) = t
<1> DEFINE u == Slice(s, a, b)
<1>1. u \in Seq(S) /\ Len(u) = b - a /\ \A i \in 1 .. b - a : u[i] = s[a + i]
  BY SliceFacts
<1> HIDE DEF u
<1>2. ASSUME b - a = Len(t), \A i \in 1 .. Len(t) : s[a + i] = t[i]
      PROVE  Len(u) = Len(t) /\ \A i \in 1 .. Len(u) : u[i] = t[i]
  BY <1>1, <1>2
<1>3. ASSUME b - a = Len(t), \A i \in 1 .. Len(t) : s[a + i] = t[i]
      PROVE  u = t
  BY <1>1, <1>2, <1>3, SeqEqual
<1> QED BY <1>3 DEF u

\* The bytes from a to b.
Field(s, a, b) ==
    /\ Slice(s, a, b) \in Seq(Byte) /\ Len(Slice(s, a, b)) = b - a
    /\ \A i \in 1 .. b - a : Slice(s, a, b)[i] = s[a + i]
LEMMA IsField ==
    ASSUME NEW s \in Seq(Byte), NEW a \in Nat, NEW b \in Nat, a <= b, b <= Len(s)
    PROVE  Field(s, a, b)
BY SliceFacts DEF Field

\* What follows the first byte.
LEMMA FromFacts ==
    ASSUME NEW S, NEW s \in Seq(S), s # <<>>
    PROVE  /\ From(s, 1) \in Seq(S) /\ Len(From(s, 1)) = Len(s) - 1
           /\ \A i \in 1 .. Len(s) - 1 : From(s, 1)[i] = s[i + 1]
<1>1. /\ 1 \in Nat /\ Len(s) \in Nat /\ 1 <= Len(s) /\ Len(s) <= Len(s)
      /\ From(s, 1) = Slice(s, 1, Len(s))
  BY DEF From, Slice
<1>2. /\ Slice(s, 1, Len(s)) \in Seq(S) /\ Len(Slice(s, 1, Len(s))) = Len(s) - 1
      /\ \A i \in 1 .. Len(s) - 1 : Slice(s, 1, Len(s))[i] = s[1 + i]
  BY <1>1, SliceFacts, Zenon
<1>3. \A i \in 1 .. Len(s) - 1 : 1 + i = i + 1
  OBVIOUS
<1> QED BY <1>1, <1>2, <1>3

\* The offsets of the Rust and C++ readers, which skip the tag, and those of the
\* C reader, which counts from it.
LEMMA SliceFrom ==
    ASSUME NEW S, NEW s \in Seq(S), NEW a \in Nat, NEW b \in Nat, a <= b, b < Len(s)
    PROVE  Slice(From(s, 1), a, b) = Slice(s, a + 1, b + 1)
<1> DEFINE t == Slice(s, a + 1, b + 1)
<1>1. Len(s) \in Nat /\ s # <<>> /\ a + 1 \in Nat /\ b + 1 \in Nat /\ a + 1 <= b + 1 /\ b + 1 <= Len(s)
  OBVIOUS
<1>2. t \in Seq(S) /\ Len(t) = b - a /\ \A i \in 1 .. b - a : t[i] = s[(a + 1) + i]
  <2>1. /\ t \in Seq(S) /\ Len(t) = (b + 1) - (a + 1)
        /\ \A i \in 1 .. (b + 1) - (a + 1) : t[i] = s[(a + 1) + i]
    BY <1>1, SliceFacts
  <2>2. (b + 1) - (a + 1) = b - a
    OBVIOUS
  <2> QED BY <2>1, <2>2
<1>3. /\ From(s, 1) \in Seq(S) /\ Len(From(s, 1)) = Len(s) - 1
      /\ \A i \in 1 .. Len(s) - 1 : From(s, 1)[i] = s[i + 1]
  BY <1>1, FromFacts
<1> HIDE DEF t
<1>4. b - a = Len(t) /\ b <= Len(From(s, 1))
  BY <1>1, <1>2, <1>3
<1>5. ASSUME NEW i \in 1 .. Len(t) PROVE From(s, 1)[a + i] = t[i]
  <2>1. i \in 1 .. b - a /\ a + i \in 1 .. Len(s) - 1 /\ (a + i) + 1 = (a + 1) + i
    BY <1>1, <1>2
  <2>2. From(s, 1)[a + i] = s[(a + i) + 1]
    BY <1>3, <2>1
  <2> QED BY <1>2, <2>1, <2>2
<1>6. Slice(From(s, 1), a, b) = t
  BY <1>2, <1>3, <1>4, <1>5, SliceIs
<1> QED BY <1>6 DEF t

\* Big-endian numbers of bytes.
LEMMA FromBeFacts ==
    ASSUME NEW s \in Seq(Byte)
    PROVE  /\ Len(s) >= 2 => FromBe16(s) \in Nat /\ FromBe16(s) < 256 * 256
           /\ Len(s) >= 4 => FromBe32(s) \in Nat
<1>1. Len(s) \in Nat /\ \A i \in 1 .. Len(s) : s[i] \in Byte
  OBVIOUS
<1>2. ASSUME Len(s) >= 2 PROVE FromBe16(s) \in Nat /\ FromBe16(s) < 256 * 256
  <2>1. s[1] \in Byte /\ s[2] \in Byte
    BY <1>1, <1>2
  <2> DEFINE x == s[1]
             y == s[2]
  <2> HIDE DEF x, y
  <2>2. x \in Byte /\ y \in Byte
    BY <2>1 DEF x, y
  <2>3. 256 * x + y \in Nat /\ 256 * x + y < 256 * 256
    BY <2>2, SMT DEF Byte
  <2> QED BY <2>3 DEF FromBe16, x, y
<1>3. ASSUME Len(s) >= 4 PROVE FromBe32(s) \in Nat
  <2>1. s[1] \in Byte /\ s[2] \in Byte /\ s[3] \in Byte /\ s[4] \in Byte
    BY <1>1, <1>3
  <2> DEFINE w == s[1]
             x == s[2]
             y == s[3]
             z == s[4]
  <2> HIDE DEF w, x, y, z
  <2>2. w \in Byte /\ x \in Byte /\ y \in Byte /\ z \in Byte
    BY <2>1 DEF w, x, y, z
  <2>3. 256 * (256 * (256 * w + x) + y) + z \in Nat
    BY <2>2, SMT DEF Byte
  <2> QED BY <2>3 DEF FromBe32, w, x, y, z
<1> QED BY <1>2, <1>3
LEMMA FieldFacts ==
    ASSUME NEW p \in Seq(Byte), NEW a \in Nat, NEW b \in Nat, a <= b, b <= Len(p)
    PROVE  /\ b - a >= 2 => FromBe16(Slice(p, a, b)) \in Nat /\ FromBe16(Slice(p, a, b)) < 256 * 256
           /\ b - a >= 4 => FromBe32(Slice(p, a, b)) \in Nat
<1> DEFINE s == Slice(p, a, b)
<1>1. s \in Seq(Byte) /\ Len(s) = b - a
  BY SliceFacts
<1> HIDE DEF s
<1>2. (b - a >= 2 => Len(s) >= 2) /\ (b - a >= 4 => Len(s) >= 4)
  BY <1>1
<1> QED BY <1>1, <1>2, FromBeFacts DEF s

-----------------------------------------------------------------------------
(* The readers.                                                              *)

\* Which reader a tag leads to.
LEMMA Dispatch ==
    ASSUME NEW p, p # <<>>
    PROVE  /\ p[1] = 1 => Deserialize(p) = DeserializeInput(From(p, 1))
           /\ p[1] = 2 => Deserialize(p) = DeserializeResize(From(p, 1))
           /\ p[1] = 3 => Deserialize(p) = DeserializeTime(From(p, 1), 3)
           /\ p[1] = 4 => Deserialize(p) = DeserializeTime(From(p, 1), 4)
           /\ p[1] = 5 => Deserialize(p) = DeserializeFrame(From(p, 1))
           /\ p[1] = 6 => Deserialize(p) = DeserializeHandshake(From(p, 1))
           /\ p[1] \notin 1 .. 6 => Deserialize(p) = Err
<1> USE DEF Deserialize
<1>1. p[1] = 1 => Deserialize(p) = DeserializeInput(From(p, 1))
  OBVIOUS
<1>2. p[1] = 2 => Deserialize(p) = DeserializeResize(From(p, 1))
  OBVIOUS
<1>3. p[1] = 3 => Deserialize(p) = DeserializeTime(From(p, 1), 3)
  OBVIOUS
<1>4. p[1] = 4 => Deserialize(p) = DeserializeTime(From(p, 1), 4)
  OBVIOUS
<1>5. p[1] = 5 => Deserialize(p) = DeserializeFrame(From(p, 1))
  OBVIOUS
<1>6. p[1] = 6 => Deserialize(p) = DeserializeHandshake(From(p, 1))
  OBVIOUS
<1>7. p[1] \notin 1 .. 6 => Deserialize(p) = Err
  OBVIOUS
<1> QED BY <1>1, <1>2, <1>3, <1>4, <1>5, <1>6, <1>7

\* A reader yields a packet of its own tag or an error.
LEMMA Tags ==
    ASSUME NEW src, NEW t
    PROVE  /\ DeserializeInput(src) = Err \/ DeserializeInput(src).tag = 1
           /\ DeserializeResize(src) = Err \/ DeserializeResize(src).tag = 2
           /\ DeserializeTime(src, t) = Err \/ DeserializeTime(src, t).tag = t
           /\ DeserializeFrame(src) = Err \/ DeserializeFrame(src).tag = 5
           /\ DeserializeHandshake(src) = Err \/ DeserializeHandshake(src).tag = 6
           /\ Err.tag = 0
<1>1. Err.tag = 0
  BY DEF Err
<1>2. DeserializeInput(src) = Err \/ DeserializeInput(src).tag = 1
  BY DEF DeserializeInput, ClientInput
<1>3. DeserializeResize(src) = Err \/ DeserializeResize(src).tag = 2
  BY DEF DeserializeResize, ClientResize
<1>4. DeserializeTime(src, t) = Err \/ DeserializeTime(src, t).tag = t
  BY DEF DeserializeTime
<1>5. DeserializeFrame(src) = Err \/ DeserializeFrame(src).tag = 5
  BY DEF DeserializeFrame, ServerFrame
<1>6. DeserializeHandshake(src) = Err \/ DeserializeHandshake(src).tag = 6
  BY DEF DeserializeHandshake, ClientHandshake
<1> QED BY <1>1, <1>2, <1>3, <1>4, <1>5, <1>6

\* The tag of the packet is the first byte.
LEMMA TagRead ==
    ASSUME NEW p, p # <<>>, Deserialize(p) # Err
    PROVE  Deserialize(p).tag = p[1]
<1> DEFINE q == Deserialize(p)
<1>1. CASE p[1] = 1
  <2>1. q = DeserializeInput(From(p, 1))
    BY <1>1, Dispatch
  <2> QED BY <1>1, <2>1, Tags
<1>2. CASE p[1] = 2
  <2>1. q = DeserializeResize(From(p, 1))
    BY <1>2, Dispatch
  <2> QED BY <1>2, <2>1, Tags
<1>3. CASE p[1] = 3
  <2>1. q = DeserializeTime(From(p, 1), 3)
    BY <1>3, Dispatch
  <2> QED BY <1>3, <2>1, Tags
<1>4. CASE p[1] = 4
  <2>1. q = DeserializeTime(From(p, 1), 4)
    BY <1>4, Dispatch
  <2> QED BY <1>4, <2>1, Tags
<1>5. CASE p[1] = 5
  <2>1. q = DeserializeFrame(From(p, 1))
    BY <1>5, Dispatch
  <2> QED BY <1>5, <2>1, Tags
<1>6. CASE p[1] = 6
  <2>1. q = DeserializeHandshake(From(p, 1))
    BY <1>6, Dispatch
  <2> QED BY <1>6, <2>1, Tags
<1>7. p[1] \in {1, 2, 3, 4, 5, 6}
  <2>1. p[1] \in 1 .. 6
    BY Dispatch
  <2> QED BY <2>1
<1> QED BY <1>1, <1>2, <1>3, <1>4, <1>5, <1>6, <1>7

\* The C reader takes a frame as the Rust one does, and so does the C++ one.
LEMMA FrameAlike ==
    ASSUME NEW p \in Seq(Byte), p # <<>>, p[1] = 5,
           Len(p) >= 14 => 14 + FromBe32(Slice(p, 10, 14)) < U32
    PROVE  /\ FrameC(p) = DeserializeFrame(From(p, 1))
           /\ DeserializePacketCpp(p) = DeserializeFrame(From(p, 1))
<1> DEFINE src == From(p, 1)
           len == FromBe32(Slice(p, 10, 14))
<1>1. /\ Len(p) \in Nat /\ src \in Seq(Byte) /\ Len(src) = Len(p) - 1
      /\ \A i \in 1 .. Len(p) - 1 : src[i] = p[i + 1]
  BY FromFacts
<1> HIDE DEF src
<1>2. CASE Len(p) < 14
  <2>1. Len(src) < 13
    BY <1>1, <1>2
  <2>2. FrameC(p) = Err
    BY <1>2 DEF FrameC
  <2>3. DeserializeFrame(src) = Err
    BY <2>1 DEF DeserializeFrame
  <2>4. ~(Len(src) >= 13)
    BY <1>1, <2>1
  <2>5. DeserializePacketCpp(p) = Err
    BY <2>4 DEF DeserializePacketCpp, src
  <2> QED BY <2>2, <2>3, <2>5 DEF src
<1>3. CASE Len(p) >= 14
  <2>1. /\ Slice(src, 9, 13) = Slice(p, 10, 14) /\ Slice(src, 0, 8) = Slice(p, 1, 9)
        /\ src[9] = p[10]
    <3>1. Slice(From(p, 1), 9, 13) = Slice(p, 9 + 1, 13 + 1)
      BY <1>1, <1>3, SliceFrom
    <3>2. Slice(From(p, 1), 0, 8) = Slice(p, 0 + 1, 8 + 1)
      BY <1>1, <1>3, SliceFrom
    <3>3. src[9] = p[10]
      BY <1>1, <1>3
    <3> QED BY <3>1, <3>2, <3>3 DEF src
  <2>2. len \in Nat /\ 14 + len < U32
    <3>1. 10 \in Nat /\ 14 \in Nat /\ 10 <= 14 /\ 14 <= Len(p)
      BY <1>1, <1>3
    <3>2. 14 - 10 >= 4
      OBVIOUS
    <3>3. len \in Nat
      BY <3>1, <3>2, FieldFacts
    <3> QED BY <1>3, <3>3
  <2> HIDE DEF len
  <2>3. (14 + len) % U32 = 14 + len /\ (13 + len) % U32 = 13 + len
    BY <2>2, U32Assumption
  <2>4. CASE 14 + len > Len(p)
    <3>1. Len(src) - 13 < len /\ ~(Len(src) < 13) /\ ~(Len(src) >= 13 + len)
      BY <1>1, <1>3, <2>2, <2>4
    <3>2. FrameC(p) = Err
      BY <1>3, <2>3, <2>4 DEF FrameC, len
    <3>3. DeserializeFrame(src) = Err
      BY <2>1, <3>1 DEF DeserializeFrame, len
    <3>4. DeserializePacketCpp(p) = Err
      BY <2>1, <2>3, <3>1 DEF DeserializePacketCpp, src, len
    <3> QED BY <3>2, <3>3, <3>4 DEF src
  <2>5. CASE ~(14 + len > Len(p))
    <3>1. /\ ~(Len(src) - 13 < len) /\ ~(Len(src) < 13)
          /\ Len(src) >= 13 + len /\ Len(src) >= 13 /\ ~(Len(p) < 14)
      BY <1>1, <1>3, <2>2, <2>5
    <3>2. Slice(src, 13, 13 + len) = Slice(p, 14, 14 + len)
      <4>1. 13 + len \in Nat /\ 13 <= 13 + len /\ 13 + len < Len(p)
        BY <1>1, <2>2, <2>5
      <4>2. Slice(From(p, 1), 13, 13 + len) = Slice(p, 13 + 1, (13 + len) + 1)
        BY <4>1, SliceFrom
      <4>3. 13 + 1 = 14 /\ (13 + len) + 1 = 14 + len
        BY <2>2
      <4> QED BY <4>2, <4>3 DEF src
    <3> DEFINE f == ServerFrame(Slice(p, 1, 9), p[10] # 0, Slice(p, 14, 14 + len))
    <3>3. FrameC(p) = f
      BY <2>3, <2>5, <3>1 DEF FrameC, len
    <3>4. DeserializeFrame(src) = f
      BY <2>1, <3>1, <3>2 DEF DeserializeFrame, len
    <3>5. DeserializePacketCpp(p) = ServerFrame(Slice(src, 0, 8), src[9] # 0, Slice(src, 13, 13 + len))
      BY <2>1, <2>3, <3>1 DEF DeserializePacketCpp, src, len
    <3> QED BY <2>1, <3>2, <3>3, <3>4, <3>5 DEF src
  <2> QED BY <2>4, <2>5
<1> QED BY <1>1, <1>2, <1>3

\* The C++ reader takes keystrokes as the Rust one does.
LEMMA InputAlike ==
    ASSUME NEW p \in Seq(Byte), p # <<>>, p[1] = 1,
           Len(p) >= 5 => 4 + FromBe32(Slice(p, 1, 5)) < U32
    PROVE  DeserializePacketCpp(p) = DeserializeInput(From(p, 1))
<1> DEFINE src == From(p, 1)
           len == FromBe32(Slice(src, 0, 4))
<1>1. /\ Len(p) \in Nat /\ src \in Seq(Byte) /\ Len(src) = Len(p) - 1
  BY FromFacts
<1>2. CASE Len(p) < 5
  <2> HIDE DEF src
  <2>1. Len(src) < 4 /\ ~(Len(src) >= 4)
    BY <1>1, <1>2
  <2>2. DeserializeInput(src) = Err
    BY <2>1 DEF DeserializeInput
  <2>3. DeserializePacketCpp(p) = Err
    BY <2>1 DEF DeserializePacketCpp, src
  <2> QED BY <2>2, <2>3 DEF src
<1>3. CASE Len(p) >= 5
  <2>1. len = FromBe32(Slice(p, 1, 5))
    <3>1. Slice(From(p, 1), 0, 4) = Slice(p, 0 + 1, 4 + 1)
      BY <1>1, <1>3, SliceFrom
    <3> QED BY <3>1
  <2> HIDE DEF src
  <2>2. len \in Nat /\ 4 + len < U32
    <3>1. 0 \in Nat /\ 4 \in Nat /\ 0 <= 4 /\ 4 <= Len(src)
      BY <1>1, <1>3
    <3>2. 4 - 0 >= 4
      OBVIOUS
    <3>3. len \in Nat
      BY <1>1, <3>1, <3>2, FieldFacts
    <3> QED BY <1>3, <2>1, <3>3
  <2> HIDE DEF len
  <2>3. (4 + len) % U32 = 4 + len
    BY <2>2, U32Assumption
  <2>4. CASE Len(src) - 4 < len
    <3>1. ~(Len(src) >= 4 + len) /\ ~(Len(src) < 4)
      BY <1>1, <1>3, <2>2, <2>4
    <3>2. DeserializeInput(src) = Err
      BY <2>4, <3>1 DEF DeserializeInput, len
    <3>3. DeserializePacketCpp(p) = Err
      BY <2>3, <3>1 DEF DeserializePacketCpp, src, len
    <3> QED BY <3>2, <3>3 DEF src
  <2>5. CASE ~(Len(src) - 4 < len)
    <3>1. Len(src) >= 4 + len /\ Len(src) >= 4 /\ ~(Len(src) < 4)
      BY <1>1, <1>3, <2>2, <2>5
    <3>2. DeserializeInput(src) = ClientInput(Slice(src, 4, 4 + len))
      BY <2>5, <3>1 DEF DeserializeInput, len
    <3>3. DeserializePacketCpp(p) = ClientInput(Slice(src, 4, 4 + len))
      BY <2>3, <3>1 DEF DeserializePacketCpp, src, len
    <3> QED BY <3>2, <3>3 DEF src
  <2> QED BY <2>4, <2>5
<1> QED BY <1>1, <1>2, <1>3

\* The packets of fixed size, and those the C++ client does not know.
LEMMA FixedAlike ==
    ASSUME NEW p \in Seq(Byte), p # <<>>
    PROVE  /\ p[1] = 2 => DeserializePacketCpp(p) = DeserializeResize(From(p, 1))
           /\ p[1] = 3 => DeserializePacketCpp(p) = DeserializeTime(From(p, 1), 3)
           /\ p[1] = 4 => DeserializePacketCpp(p) = DeserializeTime(From(p, 1), 4)
           /\ p[1] \notin 1 .. 5 => DeserializePacketCpp(p) = Err
           /\ p[1] # 5 => FrameC(p) = Err
<1> DEFINE src == From(p, 1)
<1>1. src \in Seq(Byte) /\ Len(src) \in Nat
  BY FromFacts
<1> HIDE DEF src
<1>2. (Len(src) >= 4 <=> ~(Len(src) < 4)) /\ (Len(src) >= 8 <=> ~(Len(src) < 8))
  BY <1>1
<1>3. ASSUME p[1] = 2 PROVE DeserializePacketCpp(p) = DeserializeResize(src)
  <2>1. CASE Len(src) >= 4
    <3>1. /\ Slice(src, 0, 2)[1] = src[1] /\ Slice(src, 0, 2)[2] = src[2]
          /\ Slice(src, 2, 4)[1] = src[3] /\ Slice(src, 2, 4)[2] = src[4]
      <4>1. 0 \in Nat /\ 2 \in Nat /\ 4 \in Nat /\ 0 <= 2 /\ 2 <= 4 /\ 2 <= Len(src) /\ 4 <= Len(src)
        BY <1>1, <2>1
      <4>2. Field(src, 0, 2) /\ Field(src, 2, 4)
        BY <1>1, <4>1, IsField
      <4> QED BY <4>2 DEF Field
    <3>2. DeserializePacketCpp(p) = ClientResize(256 * src[1] + src[2], 256 * src[3] + src[4])
      BY <1>3, <2>1 DEF DeserializePacketCpp, src
    <3>3. DeserializeResize(src) = ClientResize(256 * src[1] + src[2], 256 * src[3] + src[4])
      BY <1>2, <2>1, <3>1 DEF DeserializeResize, FromBe16
    <3> QED BY <3>2, <3>3
  <2>2. CASE ~(Len(src) >= 4)
    <3>1. DeserializePacketCpp(p) = Err
      BY <1>3, <2>2 DEF DeserializePacketCpp, src
    <3> QED BY <1>2, <2>2, <3>1 DEF DeserializeResize
  <2> QED BY <2>1, <2>2
<1>4. ASSUME p[1] = 3 PROVE DeserializePacketCpp(p) = DeserializeTime(src, 3)
  <2>1. DeserializePacketCpp(p) = IF Len(src) >= 8 THEN Ping(Slice(src, 0, 8)) ELSE Err
    BY <1>4 DEF DeserializePacketCpp, src
  <2> QED BY <1>2, <2>1 DEF DeserializeTime, Ping
<1>5. ASSUME p[1] = 4 PROVE DeserializePacketCpp(p) = DeserializeTime(src, 4)
  <2>1. DeserializePacketCpp(p) = IF Len(src) >= 8 THEN Pong(Slice(src, 0, 8)) ELSE Err
    BY <1>5 DEF DeserializePacketCpp, src
  <2> QED BY <1>2, <2>1 DEF DeserializeTime, Pong
<1>6. p[1] \notin 1 .. 5 => DeserializePacketCpp(p) = Err
  BY DEF DeserializePacketCpp
<1>7. p[1] # 5 => FrameC(p) = Err
  BY DEF FrameC
<1> QED BY <1>3, <1>4, <1>5, <1>6, <1>7 DEF src

\* The sums that the C and C++ readers compare with the length of the payload
\* stay below 2^32.
NoWrap(p) ==
    /\ p # <<>> /\ p[1] = 1 /\ Len(p) >= 5 => 4 + FromBe32(Slice(p, 1, 5)) < U32
    /\ p # <<>> /\ p[1] = 5 /\ Len(p) >= 14 => 14 + FromBe32(Slice(p, 10, 14)) < U32

\* The C and the C++ reader find in a payload what the Rust client finds.
LEMMA FoundAlike ==
    ASSUME NEW q \in Seq(Byte), NoWrap(q)
    PROVE  /\ FrameC(q) = IF Deserialize(q).tag = 5 THEN Deserialize(q) ELSE Err
           /\ DeserializePacketCpp(q) = IF Deserialize(q).tag = 6 THEN Err ELSE Deserialize(q)
<1> DEFINE p == Deserialize(q)
           src == From(q, 1)
<1>1. Err.tag = 0
  BY Tags
<1>2. CASE q = <<>>
  <2>1. p = Err /\ FrameC(q) = Err /\ DeserializePacketCpp(q) = Err
    BY <1>2 DEF Deserialize, FrameC, DeserializePacketCpp
  <2> QED BY <1>1, <2>1
<1>3. CASE q # <<>>
  <2> HIDE DEF p
  <2>1. CASE q[1] = 1
    <3>1. p = DeserializeInput(src) /\ DeserializePacketCpp(q) = p
      BY <1>3, <2>1, Dispatch, InputAlike DEF NoWrap, p
    <3>2. FrameC(q) = Err /\ (p = Err \/ p.tag = 1)
      BY <1>3, <2>1, <3>1, FixedAlike, Tags
    <3> QED BY <1>1, <3>1, <3>2 DEF p
  <2>2. CASE q[1] = 2
    <3>1. p = DeserializeResize(src) /\ DeserializePacketCpp(q) = p
      BY <1>3, <2>2, Dispatch, FixedAlike DEF p
    <3>2. FrameC(q) = Err /\ (p = Err \/ p.tag = 2)
      BY <1>3, <2>2, <3>1, FixedAlike, Tags
    <3> QED BY <1>1, <3>1, <3>2 DEF p
  <2>3. CASE q[1] = 3
    <3>1. p = DeserializeTime(src, 3) /\ DeserializePacketCpp(q) = p
      BY <1>3, <2>3, Dispatch, FixedAlike DEF p
    <3>2. FrameC(q) = Err /\ (p = Err \/ p.tag = 3)
      BY <1>3, <2>3, <3>1, FixedAlike, Tags
    <3> QED BY <1>1, <3>1, <3>2 DEF p
  <2>4. CASE q[1] = 4
    <3>1. p = DeserializeTime(src, 4) /\ DeserializePacketCpp(q) = p
      BY <1>3, <2>4, Dispatch, FixedAlike DEF p
    <3>2. FrameC(q) = Err /\ (p = Err \/ p.tag = 4)
      BY <1>3, <2>4, <3>1, FixedAlike, Tags
    <3> QED BY <1>1, <3>1, <3>2 DEF p
  <2>5. CASE q[1] = 5
    <3>1. /\ p = DeserializeFrame(src) /\ DeserializePacketCpp(q) = p
          /\ FrameC(q) = p
      BY <1>3, <2>5, Dispatch, FrameAlike DEF NoWrap, p
    <3>2. p = Err \/ p.tag = 5
      BY <3>1, Tags
    <3> QED BY <1>1, <3>1, <3>2 DEF p
  <2>6. CASE q[1] = 6
    <3>1. p = DeserializeHandshake(src)
      BY <1>3, <2>6, Dispatch DEF p
    <3>2. /\ DeserializePacketCpp(q) = Err /\ FrameC(q) = Err
          /\ p = Err \/ p.tag = 6
      BY <1>3, <2>6, <3>1, FixedAlike, Tags
    <3> QED BY <1>1, <3>1, <3>2 DEF p
  <2>7. CASE q[1] \notin 1 .. 6
    <3>1. p = Err
      BY <1>3, <2>7, Dispatch DEF p
    <3>2. q[1] \notin 1 .. 5 /\ q[1] # 5
      BY <2>7
    <3>3. DeserializePacketCpp(q) = Err /\ FrameC(q) = Err
      BY <1>3, <3>2, FixedAlike
    <3> QED BY <1>1, <3>1, <3>3 DEF p
  <2>8. q[1] \in 1 .. 6 => q[1] \in {1, 2, 3, 4, 5, 6}
    OBVIOUS
  <2> QED BY <2>1, <2>2, <2>3, <2>4, <2>5, <2>6, <2>7, <2>8
<1> QED BY <1>2, <1>3

-----------------------------------------------------------------------------
(* Slices of sequences put together.                                         *)

\* The slice at the start of a concatenation ...
LEMMA SliceHead ==
    ASSUME NEW S, NEW t \in Seq(S), NEW u \in Seq(S)
    PROVE  Slice(t \o u, 0, Len(t)) = t
<1> DEFINE w == t \o u
<1>1. /\ w \in Seq(S) /\ Len(w) = Len(t) + Len(u)
      /\ \A i \in 1 .. Len(t) + Len(u) : w[i] = IF i <= Len(t) THEN t[i] ELSE u[i - Len(t)]
  BY ConcatProperties
<1> HIDE DEF w
<1>2. /\ Len(t) \in Nat /\ 0 \in Nat /\ 0 <= Len(t) /\ Len(t) <= Len(w) /\ Len(t) - 0 = Len(t)
      /\ \A i \in 1 .. Len(t) : w[0 + i] = t[i]
  BY <1>1
<1>3. Slice(w, 0, Len(t)) = t
  BY <1>1, <1>2, SliceIs, Zenon
<1> QED BY <1>3 DEF w

\* ... and the one in its middle.
LEMMA SliceMiddle ==
    ASSUME NEW S, NEW s \in Seq(S), NEW t \in Seq(S), NEW u \in Seq(S)
    PROVE  Slice(s \o (t \o u), Len(s), Len(s) + Len(t)) = t
<1> DEFINE v == t \o u
           w == s \o v
<1>1. /\ v \in Seq(S) /\ Len(v) = Len(t) + Len(u)
      /\ \A i \in 1 .. Len(t) + Len(u) : v[i] = IF i <= Len(t) THEN t[i] ELSE u[i - Len(t)]
  BY ConcatProperties
<1>6. s \in Seq(S) /\ v \in Seq(S)
  BY <1>1
<1> HIDE DEF v
<1>2. /\ w \in Seq(S) /\ Len(w) = Len(s) + Len(v)
      /\ \A i \in 1 .. Len(s) + Len(v) : w[i] = IF i <= Len(s) THEN s[i] ELSE v[i - Len(s)]
  BY <1>6, ConcatProperties
<1> HIDE DEF w
<1> DEFINE a == Len(s)
           b == Len(s) + Len(t)
<1>3. a \in Nat /\ b \in Nat /\ a <= b /\ b <= Len(w) /\ b - a = Len(t) /\ Len(u) \in Nat
  BY <1>1, <1>2
<1>4. ASSUME NEW i \in 1 .. Len(t) PROVE w[a + i] = t[i]
  <2>1. /\ a + i \in 1 .. Len(s) + Len(v) /\ ~(a + i <= Len(s)) /\ (a + i) - Len(s) = i
        /\ i \in 1 .. Len(t) + Len(u) /\ i <= Len(t)
    BY <1>1, <1>3
  <2> HIDE DEF a
  <2> QED BY <1>1, <1>2, <2>1
<1> HIDE DEF a, b
<1>5. Slice(w, a, b) = t
  BY <1>2, <1>3, <1>4, SliceIs
<1> QED BY <1>5 DEF w, v, a, b

\* Slices that meet.
Meet(s, a, b, c) == Slice(s, a, b) \o Slice(s, b, c) = Slice(s, a, c)
LEMMA Adjacent ==
    ASSUME NEW s \in Seq(Byte), NEW a \in Nat, NEW b \in Nat, NEW c \in Nat,
           a <= b, b <= c, c <= Len(s)
    PROVE  Meet(s, a, b, c)
<1>1. a + 1 \in 1 .. Len(s) + 1 /\ b \in (a + 1) - 1 .. Len(s) /\ c \in b .. Len(s)
  OBVIOUS
<1>2. SubSeq(s, a + 1, b) \o SubSeq(s, b + 1, c) = SubSeq(s, a + 1, c)
  BY <1>1, ConcatAdjacentSubSeq
<1> QED BY <1>2 DEF Meet, Slice

-----------------------------------------------------------------------------
(* Numbers and their bytes.                                                  *)

\* The numbers of 16 and of 32 bits.
Word == {n \in Nat : n \div 256 < 256}
DWord == {n \in Nat : ((n \div 256) \div 256) \div 256 < 256}

LEMMA DivMod ==
    ASSUME NEW n \in Nat
    PROVE  n \div 256 \in Nat /\ n % 256 \in Byte /\ n = 256 * (n \div 256) + (n % 256)
<1>1. n \div 256 \in Nat
  OBVIOUS
<1>2. n % 256 \in Byte
  BY DEF Byte
<1>3. n = 256 * (n \div 256) + (n % 256)
  OBVIOUS
<1> QED BY <1>1, <1>2, <1>3
LEMMA DivModOf ==
    ASSUME NEW q \in Nat, NEW r \in Byte
    PROVE  (256 * q + r) \div 256 = q /\ (256 * q + r) % 256 = r
BY DEF Byte

\* The bytes of a number of 16 and of 32 bits, one by one.
TwoBytes(n) ==
    /\ Be16(n) \in Seq(Byte) /\ Len(Be16(n)) = 2
    /\ Be16(n)[1] = (n \div 256) % 256 /\ Be16(n)[2] = n % 256
    /\ n \in Word => FromBe16(Be16(n)) = n
FourBytes(n) ==
    /\ Be32(n) \in Seq(Byte) /\ Len(Be32(n)) = 4
    /\ Be32(n)[1] = (((n \div 256) \div 256) \div 256) % 256
    /\ Be32(n)[2] = ((n \div 256) \div 256) % 256
    /\ Be32(n)[3] = (n \div 256) % 256 /\ Be32(n)[4] = n % 256

LEMMA Be16Facts ==
    ASSUME NEW n \in Nat
    PROVE  TwoBytes(n)
<1> DEFINE q == n \div 256
           x == q % 256
           y == n % 256
<1>1. q \in Nat /\ y \in Byte /\ n = 256 * q + y
  BY DivMod
<1> HIDE DEF q, y
<1>2. q \div 256 \in Nat /\ x \in Byte /\ q = 256 * (q \div 256) + x
  BY <1>1, DivMod
<1> HIDE DEF x
<1>3. n \in Word => 256 * x + y = n
  <2>1. n \in Word => q < 256
    BY DEF Word, q
  <2>2. q < 256 => q = x
    BY <1>1 DEF x
  <2> QED BY <1>1, <2>1, <2>2
<1>4. /\ <<x, y>> \in Seq(Byte) /\ Len(<<x, y>>) = 2
      /\ <<x, y>>[1] = x /\ <<x, y>>[2] = y
  BY <1>1, <1>2
<1>5. Be16(n) = <<x, y>>
  BY DEF Be16, q, x, y
<1>6. FromBe16(Be16(n)) = 256 * x + y
  BY <1>4, <1>5 DEF FromBe16
<1> QED BY <1>3, <1>4, <1>5, <1>6 DEF TwoBytes, q, x, y

LEMMA Be32Bytes ==
    ASSUME NEW n \in Nat
    PROVE  FourBytes(n)
<1> DEFINE m == (n \div 256) \div 256
           s == Be16(m)
           t == Be16(n)
           u == s \o t
<1>1. n \div 256 \in Nat
  BY DivMod
<1>2. m \in Nat
  BY <1>1, DivMod
<1>3. Be32(n) = u
  BY DEF Be32
<1> HIDE DEF m
<1>4. /\ s \in Seq(Byte) /\ Len(s) = 2 /\ s[1] = (m \div 256) % 256 /\ s[2] = m % 256
  <2>1. TwoBytes(m)
    BY <1>2, Be16Facts
  <2> QED BY <1>2, <2>1 DEF TwoBytes
<1>5. /\ t \in Seq(Byte) /\ Len(t) = 2 /\ t[1] = (n \div 256) % 256 /\ t[2] = n % 256
  <2>1. TwoBytes(n)
    BY Be16Facts
  <2> QED BY <2>1 DEF TwoBytes
<1>9. s \in Seq(Byte) /\ t \in Seq(Byte)
  BY <1>4, <1>5
<1> HIDE DEF s, t
<1>6. /\ u \in Seq(Byte) /\ Len(u) = Len(s) + Len(t)
      /\ \A i \in 1 .. Len(s) + Len(t) : u[i] = IF i <= Len(s) THEN s[i] ELSE t[i - Len(s)]
  BY <1>9, ConcatProperties
<1> HIDE DEF u
<1>7. Len(u) = 4 /\ \A i \in 1 .. 4 : u[i] = IF i <= 2 THEN s[i] ELSE t[i - 2]
  BY <1>4, <1>5, <1>6
<1>8. u[1] = s[1] /\ u[2] = s[2] /\ u[3] = t[1] /\ u[4] = t[2]
  BY <1>7
<1> QED BY <1>3, <1>4, <1>5, <1>6, <1>7, <1>8 DEF FourBytes, m

LEMMA Be32Facts ==
    ASSUME NEW n \in DWord
    PROVE  FromBe32(Be32(n)) = n
<1> DEFINE a == n \div 256
           m == a \div 256
           b == m \div 256
           w == b % 256
           x == m % 256
           y == a % 256
           z == n % 256
<1>1. n \in Nat
  BY DEF DWord
<1>2. a \in Nat /\ z \in Byte /\ n = 256 * a + z
  BY <1>1, DivMod
<1>3. /\ Be32(n)[1] = w /\ Be32(n)[2] = x /\ Be32(n)[3] = y /\ Be32(n)[4] = z
  <2>1. FourBytes(n)
    BY <1>1, Be32Bytes
  <2> QED BY <1>1, <2>1 DEF FourBytes
<1> HIDE DEF a, z
<1>4. m \in Nat /\ y \in Byte /\ a = 256 * m + y
  BY <1>2, DivMod
<1> HIDE DEF m, y
<1>5. b \in Nat /\ x \in Byte /\ m = 256 * b + x
  BY <1>4, DivMod
<1> HIDE DEF b, x
<1>6. b \div 256 \in Nat /\ w \in Byte /\ b = 256 * (b \div 256) + w
  BY <1>5, DivMod
<1> HIDE DEF w
<1>7. b < 256
  BY DEF DWord, b, m, a
<1>8. b = w
  BY <1>5, <1>7 DEF w
<1>9. 256 * (256 * (256 * w + x) + y) + z = n
  BY <1>2, <1>4, <1>5, <1>8
<1> QED BY <1>3, <1>9 DEF FromBe32

\* The number of some bytes, written again, gives the bytes.
LEMMA Be16Back ==
    ASSUME NEW s \in Seq(Byte), Len(s) = 2
    PROVE  FromBe16(s) \in Word /\ Be16(FromBe16(s)) = s
<1>1. \A i \in 1 .. Len(s) : s[i] \in Byte
  OBVIOUS
<1> DEFINE x == s[1]
           y == s[2]
           n == 256 * x + y
<1>2. x \in Byte /\ y \in Byte
  BY <1>1
<1>3. FromBe16(s) = n
  BY DEF FromBe16
<1> HIDE DEF x, y
<1>4. x \in Nat /\ n \in Nat /\ x < 256 /\ x % 256 = x
  BY <1>2 DEF Byte
<1>5. n \div 256 = x /\ n % 256 = y
  BY <1>2, <1>4, DivModOf
<1>9. n \in Word
  BY <1>4, <1>5 DEF Word
<1> HIDE DEF n
<1>6. /\ Be16(n) \in Seq(Byte) /\ Len(Be16(n)) = 2
      /\ Be16(n)[1] = x /\ Be16(n)[2] = y
  <2>1. TwoBytes(n)
    BY <1>4, <1>5, Be16Facts
  <2> QED BY <1>4, <1>5, <2>1 DEF TwoBytes
<1>7. Len(Be16(n)) = Len(s) /\ \A i \in 1 .. Len(Be16(n)) : Be16(n)[i] = s[i]
  <2>1. \A i \in 1 .. 2 : i = 1 \/ i = 2
    OBVIOUS
  <2> QED BY <1>6, <2>1 DEF x, y
<1>8. Be16(n) = s
  BY <1>6, <1>7, SeqEqual
<1> QED BY <1>3, <1>8, <1>9

LEMMA Be32Back ==
    ASSUME NEW s \in Seq(Byte), Len(s) = 4
    PROVE  FromBe32(s) \in DWord /\ Be32(FromBe32(s)) = s
<1>1. \A i \in 1 .. Len(s) : s[i] \in Byte
  BY ElementOfSeq
<1> DEFINE w == s[1]
           x == s[2]
           y == s[3]
           z == s[4]
           m == 256 * w + x
           a == 256 * m + y
           n == 256 * a + z
           u == Be32(n)
<1>2. w \in Byte /\ x \in Byte /\ y \in Byte /\ z \in Byte
  BY <1>1
<1>3. FromBe32(s) = n
  BY DEF FromBe32
<1> HIDE DEF w, x, y, z
<1>4. w \in Nat /\ m \in Nat /\ a \in Nat /\ n \in Nat /\ w < 256 /\ w % 256 = w
  BY <1>2 DEF Byte
<1>5. m \div 256 = w /\ m % 256 = x
  BY <1>2, <1>4, DivModOf
<1> HIDE DEF m
<1>6. a \div 256 = m /\ a % 256 = y
  BY <1>2, <1>4, DivModOf
<1> HIDE DEF a
<1>7. n \div 256 = a /\ n % 256 = z
  BY <1>2, <1>4, DivModOf
<1>11. n \in DWord
  BY <1>4, <1>5, <1>6, <1>7 DEF DWord
<1> HIDE DEF n
<1>8. u \in Seq(Byte) /\ Len(u) = 4 /\ u[1] = w /\ u[2] = x /\ u[3] = y /\ u[4] = z
  <2>1. (n \div 256) \div 256 = m
    BY <1>6, <1>7
  <2>2. /\ u \in Seq(Byte) /\ Len(u) = 4
        /\ u[1] = (((n \div 256) \div 256) \div 256) % 256
        /\ u[2] = ((n \div 256) \div 256) % 256
        /\ u[3] = (n \div 256) % 256 /\ u[4] = n % 256
    <3>1. n \in Nat
      BY <1>4
    <3>2. FourBytes(n)
      BY <3>1, Be32Bytes
    <3> QED BY <3>2 DEF FourBytes
  <2> HIDE DEF u
  <2>3. u[1] = w /\ u[2] = x
    <3>1. u[1] = (m \div 256) % 256 /\ u[2] = m % 256
      BY <2>1, <2>2, Zenon
    <3>2. u[1] = w % 256
      BY <1>5, <3>1, Zenon
    <3> QED BY <1>4, <1>5, <3>1, <3>2, Zenon
  <2>4. u[3] = y /\ u[4] = z
    BY <1>6, <1>7, <2>2, Zenon
  <2> QED BY <2>2, <2>3, <2>4
<1> HIDE DEF u
<1>9. Len(u) = Len(s) /\ \A i \in 1 .. Len(u) : u[i] = s[i]
  <2>1. \A i \in 1 .. 4 : i = 1 \/ i = 2 \/ i = 3 \/ i = 4
    OBVIOUS
  <2> QED BY <1>8, <2>1 DEF w, x, y, z
<1>10. u = s
  BY <1>8, <1>9, SeqEqual
<1> QED BY <1>3, <1>10, <1>11 DEF u

-----------------------------------------------------------------------------
(* What serialize writes is read back.                                       *)

\* The packets that the program can hold: the fields have the width of their
\* types, a length fits the field that it is written to, and a key is UTF-8, as
\* every String is.
U64 == {t \in Seq(Byte) : Len(t) = 8}
Data == {d \in Seq(Byte) : Len(d) \in DWord}
Key == {k \in Seq(Byte) : Len(k) \in Word /\ Lossy(k) = k}
Packet ==
    {ClientInput(d) : d \in Data} \cup {ClientResize(r, c) : r \in Word, c \in Word}
      \cup {Ping(t) : t \in U64} \cup {Pong(t) : t \in U64}
      \cup {ServerFrame(q, z, d) : q \in U64, z \in BOOLEAN, d \in Data}
      \cup {ClientHandshake(k, r, c) : k \in Key, r \in Word, c \in Word}

\* The body of each packet, after the tag.
Flag(z) == <<IF z THEN 1 ELSE 0>>
InputBody(d) == Be32(Len(d)) \o d
ResizeBody(r, c) == Be16(r) \o Be16(c)
FrameBody(q, z, d) == ((q \o Flag(z)) \o Be32(Len(d))) \o d
HandshakeBody(k, r, c) == ((Be16(Len(k)) \o k) \o Be16(r)) \o Be16(c)

LEMMA SerializeIs ==
    /\ \A d : Serialize(ClientInput(d)) = <<1>> \o InputBody(d)
    /\ \A r, c : Serialize(ClientResize(r, c)) = <<2>> \o ResizeBody(r, c)
    /\ \A t : Serialize(Ping(t)) = <<3>> \o t /\ Serialize(Pong(t)) = <<4>> \o t
    /\ \A q, z, d : Serialize(ServerFrame(q, z, d)) = <<5>> \o FrameBody(q, z, d)
    /\ \A k, r, c : Serialize(ClientHandshake(k, r, c)) = <<6>> \o HandshakeBody(k, r, c)
<1>1. \A d : Serialize(ClientInput(d)) = <<1>> \o InputBody(d)
  BY DEF Serialize, ClientInput, InputBody
<1>2. \A r, c : Serialize(ClientResize(r, c)) = <<2>> \o ResizeBody(r, c)
  BY DEF Serialize, ClientResize, ResizeBody
<1>3. \A t : Serialize(Ping(t)) = <<3>> \o t /\ Serialize(Pong(t)) = <<4>> \o t
  BY DEF Serialize, Ping, Pong
<1>4. \A q, z, d : Serialize(ServerFrame(q, z, d)) = <<5>> \o FrameBody(q, z, d)
  BY DEF Serialize, ServerFrame, FrameBody, Flag
<1>5. \A k, r, c : Serialize(ClientHandshake(k, r, c)) = <<6>> \o HandshakeBody(k, r, c)
  BY DEF Serialize, ClientHandshake, HandshakeBody
<1> QED BY <1>1, <1>2, <1>3, <1>4, <1>5

\* Concatenation is associative.
Regroups(s, t, u) == (s \o t) \o u = s \o (t \o u)
LEMMA Regroup ==
    ASSUME NEW s \in Seq(Byte), NEW t \in Seq(Byte), NEW u \in Seq(Byte)
    PROVE  Regroups(s, t, u)
BY ConcatAssociative DEF Regroups

LEMMA Lengths ==
    ASSUME NEW S, NEW s \in Seq(S), NEW t \in Seq(S)
    PROVE  s \o t \in Seq(S) /\ Len(s \o t) = Len(s) + Len(t)
BY ConcatProperties

\* The tag is the first byte and the body follows it.
TagThenBody(t, b, r) ==
    LET w == (<<t>> \o b) \o r
    IN  w \in Seq(Byte) /\ w # <<>> /\ w[1] = t /\ From(w, 1) = b \o r
LEMMA Tagged ==
    ASSUME NEW t \in Byte, NEW b \in Seq(Byte), NEW r \in Seq(Byte)
    PROVE  TagThenBody(t, b, r)
<1> DEFINE h == <<t>>
           c == b \o r
           w == (h \o b) \o r
           n == <<>>
<1>1. h \in Seq(Byte) /\ Len(h) = 1 /\ h[1] = t /\ n \in Seq(Byte)
  OBVIOUS
<1> HIDE DEF h, n
<1>2. c \in Seq(Byte) /\ Len(c) \in Nat
  BY Lengths
<1>3. w = h \o c /\ c \o n = c
  <2>1. Regroups(h, b, r)
    BY <1>1, Regroup
  <2>2. c \o n = c
    BY <1>2, ConcatEmptySeq DEF n
  <2> QED BY <2>1, <2>2 DEF Regroups
<1> HIDE DEF w, c
<1>4. /\ w \in Seq(Byte) /\ Len(w) = Len(h) + Len(c)
      /\ \A i \in 1 .. Len(h) + Len(c) : w[i] = IF i <= Len(h) THEN h[i] ELSE c[i - Len(h)]
  BY <1>1, <1>2, <1>3, ConcatProperties
<1>5. Len(w) = 1 + Len(c) /\ w[1] = t /\ w # <<>>
  <2>1. Len(w) = 1 + Len(c) /\ w[1] = t
    BY <1>1, <1>2, <1>4
  <2> QED BY <1>2, <2>1
<1>6. Slice(h \o (c \o n), Len(h), Len(h) + Len(c)) = c
  BY <1>1, <1>2, SliceMiddle
<1>7. Slice(w, 1, Len(w)) = c
  BY <1>1, <1>3, <1>5, <1>6
<1>8. From(w, 1) = c
  BY <1>7 DEF From, Slice
<1> QED BY <1>4, <1>5, <1>8 DEF TagThenBody, w, c, h

LEMMA ReadInput ==
    ASSUME NEW d \in Data, NEW r \in Seq(Byte)
    PROVE  InputBody(d) \in Seq(Byte) /\ DeserializeInput(InputBody(d) \o r) = ClientInput(d)
<1> DEFINE h == Be32(Len(d))
           t == d \o r
           src == (h \o d) \o r
<1>1. d \in Seq(Byte) /\ Len(d) \in DWord /\ Len(d) \in Nat
  BY DEF Data
<1>2. h \in Seq(Byte) /\ Len(h) = 4 /\ FromBe32(h) = Len(d)
  <2>1. h \in Seq(Byte) /\ Len(h) = 4
    <3>1. FourBytes(Len(d))
      BY <1>1, Be32Bytes
    <3> QED BY <1>1, <3>1 DEF FourBytes
  <2>2. FromBe32(h) = Len(d)
    BY <1>1, Be32Facts
  <2> QED BY <2>1, <2>2
<1> HIDE DEF h
<1>3. h \o d \in Seq(Byte) /\ t \in Seq(Byte) /\ Len(t) = Len(d) + Len(r)
  BY <1>1, <1>2, Lengths
<1>4. src = h \o t
  <2>1. Regroups(h, d, r)
    BY <1>1, <1>2, Regroup
  <2> QED BY <2>1 DEF Regroups
<1>5. Len(src) = 4 + Len(t)
  <2>1. Len(h \o t) = Len(h) + Len(t)
    BY <1>2, <1>3, Lengths
  <2> QED BY <1>2, <1>4, <2>1
<1>6. Slice(src, 0, 4) = h
  BY <1>2, <1>3, <1>4, SliceHead
<1>7. Slice(src, 4, 4 + Len(d)) = d
  <2>1. Slice(h \o (d \o r), Len(h), Len(h) + Len(d)) = d
    BY <1>1, <1>2, SliceMiddle
  <2> QED BY <1>2, <1>4, <2>1
<1>8. ~(Len(src) < 4) /\ ~(Len(src) - 4 < Len(d))
  BY <1>1, <1>3, <1>5
<1> HIDE DEF src
<1>9. DeserializeInput(src) = ClientInput(d)
  BY <1>2, <1>6, <1>7, <1>8 DEF DeserializeInput
<1> QED BY <1>3, <1>9 DEF InputBody, src, h

LEMMA ReadResize ==
    ASSUME NEW x \in Word, NEW y \in Word, NEW r \in Seq(Byte)
    PROVE  /\ ResizeBody(x, y) \in Seq(Byte)
           /\ DeserializeResize(ResizeBody(x, y) \o r) = ClientResize(x, y)
<1> DEFINE g == Be16(x)
           h == Be16(y)
           src == (g \o h) \o r
<1>1. x \in Nat /\ y \in Nat
  BY DEF Word
<1>2. g \in Seq(Byte) /\ Len(g) = 2 /\ FromBe16(g) = x
  <2>1. TwoBytes(x)
    BY <1>1, Be16Facts
  <2> QED BY <1>1, <2>1 DEF TwoBytes
<1>3. h \in Seq(Byte) /\ Len(h) = 2 /\ FromBe16(h) = y
  <2>1. TwoBytes(y)
    BY <1>1, Be16Facts
  <2> QED BY <1>1, <2>1 DEF TwoBytes
<1> HIDE DEF g, h
<1>4. /\ g \o h \in Seq(Byte) /\ h \o r \in Seq(Byte)
      /\ Len(g \o h) = Len(g) + Len(h)
  BY <1>2, <1>3, Lengths
<1>5. src = g \o (h \o r) /\ Len(src) = Len(g \o h) + Len(r)
  <2>1. Regroups(g, h, r)
    BY <1>2, <1>3, Regroup
  <2>2. Len(src) = Len(g \o h) + Len(r)
    BY <1>4, Lengths
  <2> QED BY <2>1, <2>2 DEF Regroups
<1>6. Slice(src, 0, 2) = g
  BY <1>2, <1>4, <1>5, SliceHead
<1>7. Slice(src, 2, 4) = h
  <2>1. Slice(src, Len(g), Len(g) + Len(h)) = h
    <3>1. Slice(g \o (h \o r), Len(g), Len(g) + Len(h)) = h
      BY <1>2, <1>3, SliceMiddle
    <3> QED BY <1>5, <3>1
  <2> QED BY <1>2, <1>3, <2>1
<1>8. ~(Len(src) < 4)
  BY <1>2, <1>3, <1>4, <1>5
<1> HIDE DEF src
<1>9. DeserializeResize(src) = ClientResize(x, y)
  BY <1>2, <1>3, <1>6, <1>7, <1>8 DEF DeserializeResize
<1> QED BY <1>4, <1>9 DEF ResizeBody, src, g, h

LEMMA ReadTime ==
    ASSUME NEW t \in U64, NEW r \in Seq(Byte)
    PROVE  /\ t \in Seq(Byte)
           /\ DeserializeTime(t \o r, 3) = Ping(t) /\ DeserializeTime(t \o r, 4) = Pong(t)
<1> DEFINE src == t \o r
<1>1. t \in Seq(Byte) /\ Len(t) = 8
  BY DEF U64
<1>2. Len(src) = 8 + Len(r) /\ Len(r) \in Nat
  <2>1. Len(src) = Len(t) + Len(r)
    BY <1>1, Lengths
  <2> HIDE DEF src
  <2> QED BY <1>1, <2>1
<1>3. Slice(src, 0, 8) = t
  BY <1>1, SliceHead
<1> HIDE DEF src
<1>4. ~(Len(src) < 8)
  BY <1>2
<1>5. DeserializeTime(src, 3) = Ping(t) /\ DeserializeTime(src, 4) = Pong(t)
  BY <1>3, <1>4 DEF DeserializeTime, Ping, Pong
<1> QED BY <1>1, <1>5 DEF src

\* Four fields in a row, and what follows them: where each of them is found.
InARow(s, t, u, v, r) ==
    LET body == ((s \o t) \o u) \o v
        w    == body \o r
    IN  /\ body \in Seq(Byte) /\ w \in Seq(Byte)
        /\ Len(w) = (((Len(s) + Len(t)) + Len(u)) + Len(v)) + Len(r)
        /\ Slice(w, 0, Len(s)) = s
        /\ Slice(w, Len(s), Len(s) + Len(t)) = t
        /\ Slice(w, Len(s) + Len(t), (Len(s) + Len(t)) + Len(u)) = u
        /\ Slice(w, (Len(s) + Len(t)) + Len(u), ((Len(s) + Len(t)) + Len(u)) + Len(v)) = v
LEMMA Row ==
    ASSUME NEW s \in Seq(Byte), NEW t \in Seq(Byte), NEW u \in Seq(Byte), NEW v \in Seq(Byte),
           NEW r \in Seq(Byte)
    PROVE  InARow(s, t, u, v, r)
<1> DEFINE a == Len(s)
           b == a + Len(t)
           c == b + Len(u)
           e == c + Len(v)
           st == s \o t
           stu == st \o u
           stuv == stu \o v
           w == stuv \o r
           vr == v \o r
           uvr == u \o vr
           tuvr == t \o uvr
<1>1. st \in Seq(Byte) /\ Len(st) = b
  BY Lengths
<1>2. vr \in Seq(Byte)
  BY Lengths
<1> HIDE DEF b, st, vr
<1>3. stu \in Seq(Byte) /\ Len(stu) = c
  BY <1>1, Lengths
<1>4. uvr \in Seq(Byte)
  BY <1>2, Lengths
<1> HIDE DEF c, stu, uvr
<1>5. stuv \in Seq(Byte) /\ Len(stuv) = e
  BY <1>3, Lengths
<1>6. tuvr \in Seq(Byte)
  BY <1>4, Lengths
<1> HIDE DEF e, stuv, tuvr
<1>7. w \in Seq(Byte) /\ Len(w) = e + Len(r)
  BY <1>5, Lengths
<1>8. w = stu \o vr
  <2>1. Regroups(stu, v, r)
    BY <1>3, Regroup
  <2> QED BY <2>1 DEF Regroups, stuv, vr
<1>9. w = st \o uvr
  <2>1. Regroups(st, u, vr)
    BY <1>1, <1>2, Regroup
  <2> QED BY <1>8, <2>1 DEF Regroups, stu, uvr
<1>10. w = s \o tuvr
  <2>1. Regroups(s, t, uvr)
    BY <1>4, Regroup
  <2> QED BY <1>9, <2>1 DEF Regroups, st, tuvr
<1> HIDE DEF w
<1>11. Slice(w, 0, a) = s
  BY <1>6, <1>10, SliceHead
<1>12. Slice(w, a, b) = t
  BY <1>4, <1>10, SliceMiddle DEF tuvr, b
<1>13. Slice(w, b, c) = u
  <2>1. Slice(st \o (u \o vr), Len(st), Len(st) + Len(u)) = u
    BY <1>1, <1>2, SliceMiddle
  <2> QED BY <1>1, <1>9, <2>1 DEF uvr, c
<1>14. Slice(w, c, e) = v
  <2>1. Slice(stu \o (v \o r), Len(stu), Len(stu) + Len(v)) = v
    BY <1>3, SliceMiddle
  <2> QED BY <1>3, <1>8, <2>1 DEF vr, e
<1> QED BY <1>5, <1>7, <1>11, <1>12, <1>13, <1>14 DEF InARow, w, stuv, stu, st, e, c, b

LEMMA ReadFrame ==
    ASSUME NEW q \in U64, NEW z \in BOOLEAN, NEW d \in Data, NEW r \in Seq(Byte)
    PROVE  /\ FrameBody(q, z, d) \in Seq(Byte)
           /\ DeserializeFrame(FrameBody(q, z, d) \o r) = ServerFrame(q, z, d)
<1> DEFINE f == Flag(z)
           h == Be32(Len(d))
           body == ((q \o f) \o h) \o d
           src == body \o r
<1>1. q \in Seq(Byte) /\ Len(q) = 8 /\ d \in Seq(Byte) /\ Len(d) \in DWord /\ Len(d) \in Nat
  BY DEF U64, Data
<1>2. h \in Seq(Byte) /\ Len(h) = 4
  <2>1. FourBytes(Len(d))
    BY <1>1, Be32Bytes
  <2> QED BY <1>1, <2>1 DEF FourBytes
<1>3. FromBe32(h) = Len(d)
  BY <1>1, Be32Facts
<1>4. f \in Seq(Byte) /\ Len(f) = 1 /\ f[1] \in Byte /\ (f[1] # 0 <=> z)
  BY DEF Flag, Byte
<1> HIDE DEF f, h
<1>5. /\ body \in Seq(Byte) /\ src \in Seq(Byte)
      /\ Len(src) = (((Len(q) + Len(f)) + Len(h)) + Len(d)) + Len(r)
      /\ Slice(src, 0, Len(q)) = q
      /\ Slice(src, Len(q), Len(q) + Len(f)) = f
      /\ Slice(src, Len(q) + Len(f), (Len(q) + Len(f)) + Len(h)) = h
      /\ Slice(src, (Len(q) + Len(f)) + Len(h), ((Len(q) + Len(f)) + Len(h)) + Len(d)) = d
  <2>1. q \in Seq(Byte) /\ f \in Seq(Byte) /\ h \in Seq(Byte) /\ d \in Seq(Byte)
    BY <1>1, <1>2, <1>4
  <2>2. InARow(q, f, h, d, r)
    BY <2>1, Row
  <2> QED BY <2>2 DEF InARow
<1> HIDE DEF body, src
<1>6. Len(q) + Len(f) = 9 /\ (Len(q) + Len(f)) + Len(h) = 13
  BY <1>1, <1>2, <1>4
<1>7. /\ Slice(src, 0, 8) = q /\ Slice(src, 8, 9) = f /\ Slice(src, 9, 13) = h
      /\ Slice(src, 13, 13 + Len(d)) = d /\ Len(src) = (13 + Len(d)) + Len(r)
  BY <1>1, <1>5, <1>6
<1>8. Len(r) \in Nat /\ ~(Len(src) < 13) /\ ~(Len(src) - 13 < Len(d)) /\ 9 <= Len(src)
  BY <1>1, <1>7
<1>9. src[9] = f[1]
  <2>1. 8 \in Nat /\ 9 \in Nat /\ 8 <= 9 /\ 1 \in 1 .. 9 - 8 /\ 8 + 1 = 9
    OBVIOUS
  <2>2. Field(src, 8, 9)
    BY <1>5, <1>8, <2>1, IsField
  <2>3. \A i \in 1 .. 9 - 8 : Slice(src, 8, 9)[i] = src[8 + i]
    BY <2>2 DEF Field
  <2> QED BY <1>7, <2>1, <2>3
<1>10. (src[9] # 0) = z
  BY <1>4, <1>9
<1>11. DeserializeFrame(src) = ServerFrame(q, z, d)
  BY <1>3, <1>7, <1>8, <1>10 DEF DeserializeFrame
<1> QED BY <1>5, <1>11 DEF FrameBody, src, body, f, h

LEMMA ReadHandshake ==
    ASSUME NEW k \in Key, NEW x \in Word, NEW y \in Word, NEW r \in Seq(Byte)
    PROVE  /\ HandshakeBody(k, x, y) \in Seq(Byte)
           /\ DeserializeHandshake(HandshakeBody(k, x, y) \o r) = ClientHandshake(k, x, y)
<1> DEFINE n == Be16(Len(k))
           g == Be16(x)
           h == Be16(y)
           body == ((n \o k) \o g) \o h
           src == body \o r
           len == Len(k)
<1>1. /\ k \in Seq(Byte) /\ len \in Word /\ len \in Nat /\ x \in Nat /\ y \in Nat
      /\ Lossy(k) = k
  BY DEF Key, Word
<1>2. n \in Seq(Byte) /\ Len(n) = 2 /\ FromBe16(n) = len
  <2>1. TwoBytes(len)
    BY <1>1, Be16Facts
  <2> QED BY <1>1, <2>1 DEF TwoBytes
<1>3. g \in Seq(Byte) /\ Len(g) = 2 /\ FromBe16(g) = x
  <2>1. TwoBytes(x)
    BY <1>1, Be16Facts
  <2> QED BY <1>1, <2>1 DEF TwoBytes
<1>4. h \in Seq(Byte) /\ Len(h) = 2 /\ FromBe16(h) = y
  <2>1. TwoBytes(y)
    BY <1>1, Be16Facts
  <2> QED BY <1>1, <2>1 DEF TwoBytes
<1> HIDE DEF n, g, h
<1>5. /\ body \in Seq(Byte)
      /\ Len(src) = (((Len(n) + Len(k)) + Len(g)) + Len(h)) + Len(r)
      /\ Slice(src, 0, Len(n)) = n
      /\ Slice(src, Len(n), Len(n) + Len(k)) = k
      /\ Slice(src, Len(n) + Len(k), (Len(n) + Len(k)) + Len(g)) = g
      /\ Slice(src, (Len(n) + Len(k)) + Len(g), ((Len(n) + Len(k)) + Len(g)) + Len(h)) = h
  <2>1. n \in Seq(Byte) /\ k \in Seq(Byte) /\ g \in Seq(Byte) /\ h \in Seq(Byte)
    BY <1>1, <1>2, <1>3, <1>4
  <2>2. InARow(n, k, g, h, r)
    BY <2>1, Row
  <2> QED BY <2>2 DEF InARow
<1> HIDE DEF body, src
<1>6. /\ Len(n) + Len(k) = 2 + len /\ (Len(n) + Len(k)) + Len(g) = 4 + len
      /\ ((Len(n) + Len(k)) + Len(g)) + Len(h) = 6 + len
  BY <1>1, <1>2, <1>3, <1>4
<1>7. /\ Slice(src, 0, 2) = n /\ Slice(src, 2, 2 + len) = k
      /\ Slice(src, 2 + len, 4 + len) = g /\ Slice(src, 4 + len, 6 + len) = h
      /\ Len(src) = (6 + len) + Len(r)
  BY <1>2, <1>5, <1>6
<1>8. Len(r) \in Nat /\ ~(Len(src) < 2) /\ ~(Len(src) - 2 < len + 4)
  BY <1>1, <1>7
<1> HIDE DEF len
<1>9. DeserializeHandshake(src) = ClientHandshake(k, x, y)
  BY <1>1, <1>2, <1>3, <1>4, <1>7, <1>8 DEF DeserializeHandshake
<1> QED BY <1>5, <1>9 DEF HandshakeBody, src, body, n, g, h

\* Every packet that serialize writes is read back, whatever follows it.
LEMMA WrittenIsRead ==
    ASSUME NEW p \in Packet, NEW r \in Seq(Byte)
    PROVE  Serialize(p) \in Seq(Byte) /\ Deserialize(Serialize(p) \o r) = p /\ p # Err
<1>1. ASSUME NEW t \in 1 .. 6, NEW b \in Seq(Byte)
      PROVE  LET s == <<t>> \o b
             IN  /\ s \in Seq(Byte) /\ s \o r # <<>> /\ (s \o r)[1] = t
                 /\ From(s \o r, 1) = b \o r
  <2>1. t \in Byte /\ <<t>> \in Seq(Byte)
    BY DEF Byte
  <2>2. <<t>> \o b \in Seq(Byte)
    BY <2>1, Lengths
  <2>3. TagThenBody(t, b, r)
    BY <2>1, Tagged
  <2> QED BY <2>2, <2>3 DEF TagThenBody
<1>2. CASE \E d \in Data : p = ClientInput(d)
  <2>1. PICK d \in Data : p = ClientInput(d)
    BY <1>2
  <2>2. InputBody(d) \in Seq(Byte) /\ DeserializeInput(InputBody(d) \o r) = p
    BY <2>1, ReadInput
  <2>3. Serialize(p) = <<1>> \o InputBody(d)
    BY <2>1, SerializeIs
  <2>4. p # Err
    BY <2>1 DEF ClientInput, Err
  <2>5. /\ Serialize(p) \in Seq(Byte) /\ Serialize(p) \o r # <<>> /\ (Serialize(p) \o r)[1] = 1
        /\ From(Serialize(p) \o r, 1) = InputBody(d) \o r
    BY <1>1, <2>2, <2>3
  <2> QED BY <2>2, <2>4, <2>5, Dispatch
<1>3. CASE \E x, y \in Word : p = ClientResize(x, y)
  <2>1. PICK x \in Word, y \in Word : p = ClientResize(x, y)
    BY <1>3
  <2>2. ResizeBody(x, y) \in Seq(Byte) /\ DeserializeResize(ResizeBody(x, y) \o r) = p
    BY <2>1, ReadResize
  <2>3. Serialize(p) = <<2>> \o ResizeBody(x, y)
    BY <2>1, SerializeIs
  <2>4. p # Err
    BY <2>1 DEF ClientResize, Err
  <2>5. /\ Serialize(p) \in Seq(Byte) /\ Serialize(p) \o r # <<>> /\ (Serialize(p) \o r)[1] = 2
        /\ From(Serialize(p) \o r, 1) = ResizeBody(x, y) \o r
    BY <1>1, <2>2, <2>3
  <2> QED BY <2>2, <2>4, <2>5, Dispatch
<1>4. CASE \E t \in U64 : p = Ping(t)
  <2>1. PICK t \in U64 : p = Ping(t)
    BY <1>4
  <2>2. t \in Seq(Byte) /\ DeserializeTime(t \o r, 3) = p
    BY <2>1, ReadTime
  <2>3. Serialize(p) = <<3>> \o t
    BY <2>1, SerializeIs
  <2>4. p # Err
    BY <2>1 DEF Ping, Err
  <2>5. /\ Serialize(p) \in Seq(Byte) /\ Serialize(p) \o r # <<>> /\ (Serialize(p) \o r)[1] = 3
        /\ From(Serialize(p) \o r, 1) = t \o r
    BY <1>1, <2>2, <2>3
  <2> QED BY <2>2, <2>4, <2>5, Dispatch
<1>5. CASE \E t \in U64 : p = Pong(t)
  <2>1. PICK t \in U64 : p = Pong(t)
    BY <1>5
  <2>2. t \in Seq(Byte) /\ DeserializeTime(t \o r, 4) = p
    BY <2>1, ReadTime
  <2>3. Serialize(p) = <<4>> \o t
    BY <2>1, SerializeIs
  <2>4. p # Err
    BY <2>1 DEF Pong, Err
  <2>5. /\ Serialize(p) \in Seq(Byte) /\ Serialize(p) \o r # <<>> /\ (Serialize(p) \o r)[1] = 4
        /\ From(Serialize(p) \o r, 1) = t \o r
    BY <1>1, <2>2, <2>3
  <2> QED BY <2>2, <2>4, <2>5, Dispatch
<1>6. CASE \E q \in U64, z \in BOOLEAN, d \in Data : p = ServerFrame(q, z, d)
  <2>1. PICK q \in U64, z \in BOOLEAN, d \in Data : p = ServerFrame(q, z, d)
    BY <1>6
  <2>2. FrameBody(q, z, d) \in Seq(Byte) /\ DeserializeFrame(FrameBody(q, z, d) \o r) = p
    BY <2>1, ReadFrame
  <2>3. Serialize(p) = <<5>> \o FrameBody(q, z, d)
    BY <2>1, SerializeIs
  <2>4. p # Err
    BY <2>1 DEF ServerFrame, Err
  <2>5. /\ Serialize(p) \in Seq(Byte) /\ Serialize(p) \o r # <<>> /\ (Serialize(p) \o r)[1] = 5
        /\ From(Serialize(p) \o r, 1) = FrameBody(q, z, d) \o r
    BY <1>1, <2>2, <2>3
  <2> QED BY <2>2, <2>4, <2>5, Dispatch
<1>7. CASE \E k \in Key, x, y \in Word : p = ClientHandshake(k, x, y)
  <2>1. PICK k \in Key, x \in Word, y \in Word : p = ClientHandshake(k, x, y)
    BY <1>7
  <2>2. HandshakeBody(k, x, y) \in Seq(Byte) /\ DeserializeHandshake(HandshakeBody(k, x, y) \o r) = p
    BY <2>1, ReadHandshake
  <2>3. Serialize(p) = <<6>> \o HandshakeBody(k, x, y)
    BY <2>1, SerializeIs
  <2>4. p # Err
    BY <2>1 DEF ClientHandshake, Err
  <2>5. /\ Serialize(p) \in Seq(Byte) /\ Serialize(p) \o r # <<>> /\ (Serialize(p) \o r)[1] = 6
        /\ From(Serialize(p) \o r, 1) = HandshakeBody(k, x, y) \o r
    BY <1>1, <2>2, <2>3
  <2> QED BY <2>2, <2>4, <2>5, Dispatch
<1> QED BY <1>2, <1>3, <1>4, <1>5, <1>6, <1>7 DEF Packet

\* A packet that the codec encodes is decoded as it was, whatever bytes follow it
\* on the connection (protocol.rs, encode, decode, serialize, deserialize).
THEOREM RoundTrip ==
    ASSUME NEW p \in Packet, Len(Serialize(p)) \in DWord, NEW rest \in Seq(Byte)
    PROVE  LET wire == Encode(p) \o rest
           IN  Deserialize(Slice(wire, 4, 4 + FromBe32(Slice(wire, 0, 4)))) = p
<1> DEFINE s == Serialize(p)
           h == Be32(Len(s))
           wire == (h \o s) \o rest
           n == <<>>
<1>1. n \in Seq(Byte)
  OBVIOUS
<1>2. s \in Seq(Byte) /\ Deserialize(s \o n) = p
  BY <1>1, WrittenIsRead
<1>3. s \o n = s
  BY <1>2, ConcatEmptySeq
<1>4. Encode(p) \o rest = wire
  BY DEF Encode
<1> HIDE DEF s, n
<1>5. Len(s) \in Nat /\ Len(s) \in DWord
  BY <1>2 DEF s
<1>6. h \in Seq(Byte) /\ Len(h) = 4
  <2>1. FourBytes(Len(s))
    BY <1>5, Be32Bytes
  <2> QED BY <1>5, <2>1 DEF FourBytes
<1>7. FromBe32(h) = Len(s)
  BY <1>5, Be32Facts
<1> HIDE DEF h
<1>8. wire = h \o (s \o rest) /\ s \o rest \in Seq(Byte)
  <2>1. Regroups(h, s, rest)
    BY <1>2, <1>6, Regroup
  <2>2. s \o rest \in Seq(Byte)
    BY <1>2, Lengths
  <2> QED BY <2>1, <2>2 DEF Regroups
<1> HIDE DEF wire
<1>9. Slice(wire, 0, 4) = h
  BY <1>6, <1>8, SliceHead
<1>10. Slice(wire, 4, 4 + Len(s)) = s
  <2>1. Slice(h \o (s \o rest), Len(h), Len(h) + Len(s)) = s
    BY <1>2, <1>6, SliceMiddle
  <2> QED BY <1>6, <1>8, <2>1
<1>11. Deserialize(Slice(wire, 4, 4 + FromBe32(Slice(wire, 0, 4)))) = p
  BY <1>2, <1>3, <1>7, <1>9, <1>10
<1> QED BY <1>4, <1>11

-----------------------------------------------------------------------------
(* What is read is what serialize writes.                                    *)

\* src starts with body.
Starts(src, body) == \E k \in 0 .. Len(src) : body = Slice(src, 0, k)

\* What each reader accepts is what serialize writes.
LEMMA InputWritten ==
    ASSUME NEW src \in Seq(Byte), DeserializeInput(src) # Err
    PROVE  \E d \in Data : DeserializeInput(src) = ClientInput(d) /\ Starts(src, InputBody(d))
<1> DEFINE h == Slice(src, 0, 4)
           len == FromBe32(h)
           d == Slice(src, 4, 4 + len)
<1>1. Len(src) \in Nat /\ 0 \in Nat /\ 4 \in Nat /\ 0 <= 4 /\ 4 - 0 = 4
  OBVIOUS
<1>2. ~(Len(src) < 4) /\ 4 <= Len(src)
  <2>1. ~(Len(src) < 4)
    BY DEF DeserializeInput
  <2> QED BY <1>1, <2>1
<1>3. h \in Seq(Byte) /\ Len(h) = 4
  <2>1. Field(src, 0, 4)
    BY <1>1, <1>2, IsField
  <2> QED BY <1>1, <1>2, <2>1 DEF Field
<1>4. ~(Len(src) - 4 < len) /\ DeserializeInput(src) = ClientInput(d)
  BY <1>2 DEF DeserializeInput
<1> HIDE DEF h
<1>5. len \in DWord /\ Be32(len) = h
  BY <1>3, Be32Back
<1>6. len \in Nat
  BY <1>5 DEF DWord
<1> HIDE DEF len
<1>7. 4 + len \in Nat /\ 4 <= 4 + len /\ 4 + len <= Len(src) /\ (4 + len) - 4 = len
  BY <1>1, <1>2, <1>4, <1>6
<1>8. d \in Seq(Byte) /\ Len(d) = len
  <2>1. Field(src, 4, 4 + len)
    BY <1>1, <1>7, IsField
  <2> QED BY <1>1, <1>7, <2>1 DEF Field
<1>9. h \o d = Slice(src, 0, 4 + len)
  <2>1. Meet(src, 0, 4, 4 + len)
    BY <1>1, <1>7, Adjacent
  <2> QED BY <2>1 DEF Meet, h
<1> HIDE DEF d
<1>10. d \in Data /\ InputBody(d) = Slice(src, 0, 4 + len)
  BY <1>5, <1>8, <1>9 DEF Data, InputBody
<1>11. 4 + len \in 0 .. Len(src)
  BY <1>1, <1>7
<1> QED BY <1>4, <1>10, <1>11 DEF Starts

LEMMA ResizeWritten ==
    ASSUME NEW src \in Seq(Byte), DeserializeResize(src) # Err
    PROVE  \E r \in Word, c \in Word :
               DeserializeResize(src) = ClientResize(r, c) /\ Starts(src, ResizeBody(r, c))
<1> DEFINE g == Slice(src, 0, 2)
           h == Slice(src, 2, 4)
<1>1. Len(src) \in Nat /\ 0 \in Nat /\ 2 \in Nat /\ 4 \in Nat /\ 0 <= 2 /\ 2 <= 4 /\ 2 - 0 = 2 /\ 4 - 2 = 2
  OBVIOUS
<1>2. ~(Len(src) < 4) /\ 2 <= Len(src) /\ 4 <= Len(src) /\ 4 \in 0 .. Len(src)
  <2>1. ~(Len(src) < 4)
    BY DEF DeserializeResize
  <2> QED BY <1>1, <2>1
<1>3. g \in Seq(Byte) /\ Len(g) = 2
  <2>1. Field(src, 0, 2)
    BY <1>1, <1>2, IsField
  <2> QED BY <1>1, <1>2, <2>1 DEF Field
<1>4. h \in Seq(Byte) /\ Len(h) = 2
  <2>1. Field(src, 2, 4)
    BY <1>1, <1>2, IsField
  <2> QED BY <1>1, <1>2, <2>1 DEF Field
<1>5. g \o h = Slice(src, 0, 4)
  <2>1. Meet(src, 0, 2, 4)
    BY <1>1, <1>2, Adjacent
  <2> QED BY <2>1 DEF Meet
<1>6. DeserializeResize(src) = ClientResize(FromBe16(g), FromBe16(h))
  BY <1>2 DEF DeserializeResize
<1> HIDE DEF g, h
<1>7. /\ FromBe16(g) \in Word /\ FromBe16(h) \in Word
      /\ Be16(FromBe16(g)) = g /\ Be16(FromBe16(h)) = h
  BY <1>3, <1>4, Be16Back
<1>8. Starts(src, ResizeBody(FromBe16(g), FromBe16(h)))
  BY <1>2, <1>5, <1>7 DEF Starts, ResizeBody
<1> QED BY <1>6, <1>7, <1>8

LEMMA TimeWritten ==
    ASSUME NEW src \in Seq(Byte), NEW n \in {3, 4}, DeserializeTime(src, n) # Err
    PROVE  \E t \in U64 : DeserializeTime(src, n) = [tag |-> n, timestamp |-> t] /\ Starts(src, t)
<1> DEFINE t == Slice(src, 0, 8)
<1>1. Len(src) \in Nat /\ 0 \in Nat /\ 8 \in Nat /\ 0 <= 8 /\ 8 - 0 = 8
  OBVIOUS
<1>2. ~(Len(src) < 8) /\ 8 <= Len(src) /\ 8 \in 0 .. Len(src)
  <2>1. ~(Len(src) < 8)
    BY DEF DeserializeTime
  <2> QED BY <1>1, <2>1
<1>3. t \in Seq(Byte) /\ Len(t) = 8
  <2>1. Field(src, 0, 8)
    BY <1>1, <1>2, IsField
  <2> QED BY <1>1, <1>2, <2>1 DEF Field
<1>4. DeserializeTime(src, n) = [tag |-> n, timestamp |-> t]
  BY <1>2 DEF DeserializeTime
<1> QED BY <1>2, <1>3, <1>4 DEF Starts, U64

LEMMA FrameWritten ==
    ASSUME NEW src \in Seq(Byte), DeserializeFrame(src) # Err, src[9] \in {0, 1}
    PROVE  \E q \in U64, z \in BOOLEAN, d \in Data :
               DeserializeFrame(src) = ServerFrame(q, z, d) /\ Starts(src, FrameBody(q, z, d))
<1> DEFINE q == Slice(src, 0, 8)
           f == Slice(src, 8, 9)
           h == Slice(src, 9, 13)
           len == FromBe32(h)
           d == Slice(src, 13, 13 + len)
           z == src[9] # 0
<1>1. /\ Len(src) \in Nat /\ 0 \in Nat /\ 8 \in Nat /\ 9 \in Nat /\ 13 \in Nat
      /\ 0 <= 8 /\ 8 <= 9 /\ 9 <= 13 /\ 0 <= 9 /\ 0 <= 13
  OBVIOUS
<1>2. ~(Len(src) < 13) /\ 8 <= Len(src) /\ 9 <= Len(src) /\ 13 <= Len(src)
  <2>1. ~(Len(src) < 13)
    BY DEF DeserializeFrame
  <2> QED BY <1>1, <2>1
<1>3. q \in Seq(Byte) /\ Len(q) = 8
  <2>1. Field(src, 0, 8)
    BY <1>1, <1>2, IsField
  <2> QED BY <1>1, <1>2, <2>1 DEF Field
<1>4. f \in Seq(Byte) /\ Len(f) = 1 /\ f[1] = src[9]
  <2>1. Field(src, 8, 9)
    BY <1>1, <1>2, IsField
  <2> QED BY <1>1, <1>2, <2>1 DEF Field
<1>5. h \in Seq(Byte) /\ Len(h) = 4
  <2>1. Field(src, 9, 13)
    BY <1>1, <1>2, IsField
  <2> QED BY <1>1, <1>2, <2>1 DEF Field
<1>6. ~(Len(src) - 13 < len) /\ DeserializeFrame(src) = ServerFrame(q, z, d)
  BY <1>2 DEF DeserializeFrame
<1>7. q \o f = Slice(src, 0, 9) /\ Slice(src, 0, 9) \o h = Slice(src, 0, 13)
  <2>1. Meet(src, 0, 8, 9) /\ Meet(src, 0, 9, 13)
    BY <1>1, <1>2, Adjacent
  <2> QED BY <2>1 DEF Meet
<1>8. f = Flag(z)
  <2> DEFINE g == Flag(z)
  <2>1. g \in Seq(Byte) /\ Len(g) = 1 /\ g[1] = IF z THEN 1 ELSE 0
    BY DEF Flag, Byte
  <2>2. g[1] = f[1]
    BY <1>4, <2>1
  <2> HIDE DEF g, f
  <2>3. Len(f) = Len(g) /\ \A i \in 1 .. Len(f) : f[i] = g[i]
    <3>1. \A i \in 1 .. 1 : i = 1
      OBVIOUS
    <3> QED BY <1>4, <2>1, <2>2, <3>1
  <2> QED BY <1>4, <2>1, <2>3, SeqEqual DEF g
<1> HIDE DEF q, f, h, z
<1>9. len \in DWord /\ Be32(len) = h
  BY <1>5, Be32Back
<1>10. len \in Nat
  BY <1>9 DEF DWord
<1> HIDE DEF len
<1>11. /\ 13 + len \in Nat /\ 13 <= 13 + len /\ 13 + len <= Len(src)
       /\ (13 + len) - 13 = len /\ 13 + len \in 0 .. Len(src)
  BY <1>1, <1>2, <1>6, <1>10
<1>12. d \in Seq(Byte) /\ Len(d) = len
  <2>1. Field(src, 13, 13 + len)
    BY <1>1, <1>11, IsField
  <2> QED BY <1>1, <1>11, <2>1 DEF Field
<1>13. Slice(src, 0, 13) \o d = Slice(src, 0, 13 + len)
  <2>1. Meet(src, 0, 13, 13 + len)
    BY <1>1, <1>11, Adjacent
  <2> QED BY <2>1 DEF Meet
<1> HIDE DEF d
<1>14. q \in U64 /\ z \in BOOLEAN /\ d \in Data
  BY <1>3, <1>9, <1>12 DEF U64, Data, z
<1>15. FrameBody(q, z, d) = Slice(src, 0, 13 + len)
  BY <1>7, <1>8, <1>9, <1>12, <1>13 DEF FrameBody
<1> QED BY <1>6, <1>11, <1>14, <1>15 DEF Starts

\* The key after its length, as it is on the wire.
WireKey(src) == Slice(src, 2, 2 + FromBe16(Slice(src, 0, 2)))
LEMMA HandshakeWritten ==
    ASSUME NEW src \in Seq(Byte), DeserializeHandshake(src) # Err,
           Lossy(WireKey(src)) = WireKey(src)
    PROVE  \E k \in Key, r \in Word, c \in Word :
               /\ DeserializeHandshake(src) = ClientHandshake(k, r, c)
               /\ Starts(src, HandshakeBody(k, r, c))
<1> DEFINE h == Slice(src, 0, 2)
           n == FromBe16(h)
           k == Slice(src, 2, 2 + n)
           x == Slice(src, 2 + n, 4 + n)
           y == Slice(src, 4 + n, 6 + n)
<1>1. Len(src) \in Nat /\ 0 \in Nat /\ 2 \in Nat /\ 0 <= 2
  OBVIOUS
<1>2. ~(Len(src) < 2) /\ 2 <= Len(src)
  <2>1. ~(Len(src) < 2)
    BY DEF DeserializeHandshake
  <2> QED BY <1>1, <2>1
<1>3. h \in Seq(Byte) /\ Len(h) = 2
  <2>1. Field(src, 0, 2)
    BY <1>1, <1>2, IsField
  <2> QED BY <1>1, <1>2, <2>1 DEF Field
<1>4. /\ ~(Len(src) - 2 < n + 4)
      /\ DeserializeHandshake(src) = ClientHandshake(Lossy(k), FromBe16(x), FromBe16(y))
      /\ Lossy(k) = k
  BY <1>2 DEF DeserializeHandshake, WireKey
<1> HIDE DEF h
<1>5. n \in Word /\ Be16(n) = h
  BY <1>3, Be16Back
<1>6. n \in Nat
  BY <1>5 DEF Word
<1> HIDE DEF n
<1>7. /\ 2 + n \in Nat /\ 4 + n \in Nat /\ 6 + n \in Nat /\ 6 + n \in 0 .. Len(src)
      /\ 0 <= 2 + n /\ 0 <= 4 + n /\ 2 <= 2 + n /\ 2 + n <= 4 + n /\ 4 + n <= 6 + n
      /\ 2 + n <= Len(src) /\ 4 + n <= Len(src) /\ 6 + n <= Len(src)
      /\ (2 + n) - 2 = n /\ (4 + n) - (2 + n) = 2 /\ (6 + n) - (4 + n) = 2
  BY <1>1, <1>2, <1>4, <1>6
<1>8. k \in Seq(Byte) /\ Len(k) = n
  <2>1. Field(src, 2, 2 + n)
    BY <1>1, <1>7, IsField
  <2> QED BY <1>1, <1>7, <2>1 DEF Field
<1>9. x \in Seq(Byte) /\ Len(x) = 2
  <2>1. Field(src, 2 + n, 4 + n)
    BY <1>7, IsField
  <2> QED BY <1>7, <2>1 DEF Field
<1>10. y \in Seq(Byte) /\ Len(y) = 2
  <2>1. Field(src, 4 + n, 6 + n)
    BY <1>7, IsField
  <2> QED BY <1>7, <2>1 DEF Field
<1>11. h \o k = Slice(src, 0, 2 + n)
  <2>1. Meet(src, 0, 2, 2 + n)
    BY <1>1, <1>7, Adjacent
  <2> QED BY <2>1 DEF Meet, h
<1>12. Slice(src, 0, 2 + n) \o x = Slice(src, 0, 4 + n)
  <2>1. Meet(src, 0, 2 + n, 4 + n)
    BY <1>1, <1>7, Adjacent
  <2> QED BY <2>1 DEF Meet
<1>13. Slice(src, 0, 4 + n) \o y = Slice(src, 0, 6 + n)
  <2>1. Meet(src, 0, 4 + n, 6 + n)
    BY <1>1, <1>7, Adjacent
  <2> QED BY <2>1 DEF Meet
<1> HIDE DEF k, x, y
<1>14. /\ FromBe16(x) \in Word /\ FromBe16(y) \in Word
       /\ Be16(FromBe16(x)) = x /\ Be16(FromBe16(y)) = y
  BY <1>9, <1>10, Be16Back
<1>15. k \in Key
  BY <1>4, <1>5, <1>8 DEF Key
<1>16. HandshakeBody(k, FromBe16(x), FromBe16(y)) = Slice(src, 0, 6 + n)
  BY <1>5, <1>8, <1>11, <1>12, <1>13, <1>14 DEF HandshakeBody
<1> QED BY <1>4, <1>7, <1>14, <1>15, <1>16 DEF Starts

\* A sequence is the slice of all of it; the start of a start is a start.
LEMMA SliceWhole ==
    ASSUME NEW s \in Seq(Byte)
    PROVE  Slice(s, 0, Len(s)) = s
<1>1. <<>> \in Seq(Byte) /\ s \o <<>> = s
  BY ConcatEmptySeq
<1>2. Slice(s \o <<>>, 0, Len(s)) = s
  BY <1>1, SliceHead
<1> QED BY <1>1, <1>2
LEMMA SliceSlice ==
    ASSUME NEW s \in Seq(Byte), NEW n \in 0 .. Len(s), NEW j \in 0 .. n
    PROVE  Slice(Slice(s, 0, n), 0, j) = Slice(s, 0, j)
<1> DEFINE t == Slice(s, 0, j)
           u == Slice(s, j, n)
<1>1. /\ Len(s) \in Nat /\ 0 \in Nat /\ n \in Nat /\ j \in Nat /\ 0 <= j /\ j <= n
      /\ n <= Len(s) /\ j <= Len(s) /\ j - 0 = j
  OBVIOUS
<1>2. Field(s, 0, j) /\ Field(s, j, n)
  BY <1>1, IsField
<1>3. t \in Seq(Byte) /\ Len(t) = j /\ u \in Seq(Byte)
  BY <1>1, <1>2 DEF Field
<1>4. t \o u = Slice(s, 0, n)
  <2>1. Meet(s, 0, j, n)
    BY <1>1, Adjacent
  <2> QED BY <2>1 DEF Meet
<1> HIDE DEF t, u
<1>5. Slice(t \o u, 0, Len(t)) = t
  BY <1>3, SliceHead
<1> QED BY <1>3, <1>4, <1>5 DEF t

\* The tag and a start of what follows it are a start of the payload.
LEMMA StartsTagged ==
    ASSUME NEW p \in Seq(Byte), p # <<>>, NEW body, Starts(From(p, 1), body)
    PROVE  Starts(p, <<p[1]>> \o body)
<1> DEFINE src == From(p, 1)
           h == <<p[1]>>
<1>1. PICK k \in 0 .. Len(src) : body = Slice(src, 0, k)
  BY DEF Starts
<1>2. Len(p) \in Nat /\ Len(src) = Len(p) - 1
  BY FromFacts
<1> HIDE DEF src
<1>3. /\ k \in Nat /\ 0 \in Nat /\ 1 \in Nat /\ k + 1 \in Nat /\ 0 <= k /\ k < Len(p)
      /\ 0 <= 1 /\ 1 <= k + 1 /\ k + 1 <= Len(p) /\ 1 <= Len(p) /\ k + 1 \in 0 .. Len(p)
  BY <1>2
<1>4. body = Slice(p, 1, k + 1)
  <2>1. Slice(From(p, 1), 0, k) = Slice(p, 0 + 1, k + 1)
    BY <1>3, SliceFrom
  <2> QED BY <1>1, <2>1 DEF src
<1>5. Slice(p, 0, 1) = h
  <2>1. h \in Seq(Byte) /\ Len(h) = 1 /\ h[1] = p[1]
    <3>1. p[1] \in Byte
      <4>1. 1 \in 1 .. Len(p)
        BY <1>3
      <4> QED BY <4>1, ElementOfSeq
    <3> QED BY <3>1
  <2>2. Field(p, 0, 1)
    BY <1>3, IsField
  <2> DEFINE g == Slice(p, 0, 1)
  <2>3. g \in Seq(Byte) /\ Len(g) = 1 /\ g[1] = p[1]
    BY <2>2 DEF Field
  <2> HIDE DEF g, h
  <2>4. Len(g) = Len(h) /\ \A i \in 1 .. Len(g) : g[i] = h[i]
    <3>1. \A i \in 1 .. 1 : i = 1
      OBVIOUS
    <3> QED BY <2>1, <2>3, <3>1
  <2>5. g = h
    BY <2>1, <2>3, <2>4, SeqEqual
  <2> QED BY <2>5 DEF g, h
<1>6. Slice(p, 0, 1) \o Slice(p, 1, k + 1) = Slice(p, 0, k + 1)
  <2>1. Meet(p, 0, 1, k + 1)
    BY <1>3, Adjacent
  <2> QED BY <2>1 DEF Meet
<1> QED BY <1>3, <1>4, <1>5, <1>6 DEF Starts

\* The flag of a frame is one that serialize writes.
FlagWritten(p) == p # <<>> /\ p[1] = 5 /\ Len(p) >= 10 => p[10] \in {0, 1}

\* So is the key of a handshake.
KeyWritten(p) ==
    p # <<>> /\ p[1] = 6 /\ Deserialize(p) # Err
        => Lossy(WireKey(From(p, 1))) = WireKey(From(p, 1))

\* What deserialize accepts of what serialize can write is a packet, and starts
\* with what serialize writes for it.
LEMMA ReadIsWritten ==
    ASSUME NEW p \in Seq(Byte), FlagWritten(p), KeyWritten(p), Deserialize(p) # Err
    PROVE  Deserialize(p) \in Packet /\ Starts(p, Serialize(Deserialize(p)))
<1> DEFINE q == Deserialize(p)
           src == From(p, 1)
<1>1. p # <<>>
  BY DEF Deserialize
<1>2. src \in Seq(Byte) /\ Len(src) = Len(p) - 1 /\ \A i \in 1 .. Len(p) - 1 : src[i] = p[i + 1]
  BY <1>1, FromFacts
<1>3. \A body : Starts(src, body) => Starts(p, <<p[1]>> \o body)
  BY <1>1, StartsTagged
<1> HIDE DEF src, q
<1>4. q # Err
  BY DEF q
<1>5. CASE p[1] = 1
  <2>1. q = DeserializeInput(src)
    BY <1>1, <1>5, Dispatch DEF q, src
  <2>2. PICK d \in Data : q = ClientInput(d) /\ Starts(src, InputBody(d))
    BY <1>2, <1>4, <2>1, InputWritten
  <2>3. Serialize(q) = <<p[1]>> \o InputBody(d)
    BY <1>5, <2>2, SerializeIs
  <2>4. q \in Packet
    BY <2>2 DEF Packet
  <2> QED BY <1>3, <2>2, <2>3, <2>4 DEF q
<1>6. CASE p[1] = 2
  <2>1. q = DeserializeResize(src)
    BY <1>1, <1>6, Dispatch DEF q, src
  <2>2. PICK r \in Word, c \in Word : q = ClientResize(r, c) /\ Starts(src, ResizeBody(r, c))
    BY <1>2, <1>4, <2>1, ResizeWritten
  <2>3. Serialize(q) = <<p[1]>> \o ResizeBody(r, c)
    BY <1>6, <2>2, SerializeIs
  <2>4. q \in Packet
    BY <2>2 DEF Packet
  <2> QED BY <1>3, <2>2, <2>3, <2>4 DEF q
<1>7. CASE p[1] = 3
  <2>1. q = DeserializeTime(src, 3)
    BY <1>1, <1>7, Dispatch DEF q, src
  <2>2. PICK t \in U64 : q = [tag |-> 3, timestamp |-> t] /\ Starts(src, t)
    BY <1>2, <1>4, <2>1, TimeWritten
  <2>3. q = Ping(t)
    BY <2>2 DEF Ping
  <2>4. Serialize(q) = <<p[1]>> \o t
    BY <1>7, <2>3, SerializeIs
  <2>5. q \in Packet
    BY <2>3 DEF Packet
  <2> QED BY <1>3, <2>2, <2>4, <2>5 DEF q
<1>8. CASE p[1] = 4
  <2>1. q = DeserializeTime(src, 4)
    BY <1>1, <1>8, Dispatch DEF q, src
  <2>2. PICK t \in U64 : q = [tag |-> 4, timestamp |-> t] /\ Starts(src, t)
    BY <1>2, <1>4, <2>1, TimeWritten
  <2>3. q = Pong(t)
    BY <2>2 DEF Pong
  <2>4. Serialize(q) = <<p[1]>> \o t
    BY <1>8, <2>3, SerializeIs
  <2>5. q \in Packet
    BY <2>3 DEF Packet
  <2> QED BY <1>3, <2>2, <2>4, <2>5 DEF q
<1>9. CASE p[1] = 5
  <2>1. q = DeserializeFrame(src)
    BY <1>1, <1>9, Dispatch DEF q, src
  <2>2. src[9] \in {0, 1}
    <3>1. ~(Len(src) < 13)
      BY <1>4, <2>1 DEF DeserializeFrame
    <3>2. Len(p) \in Nat /\ Len(p) >= 10 /\ 9 \in 1 .. Len(p) - 1 /\ 9 + 1 = 10
      BY <1>2, <3>1
    <3> QED BY <1>1, <1>2, <1>9, <3>2 DEF FlagWritten
  <2>3. PICK s \in U64, z \in BOOLEAN, d \in Data :
            q = ServerFrame(s, z, d) /\ Starts(src, FrameBody(s, z, d))
    BY <1>2, <1>4, <2>1, <2>2, FrameWritten
  <2>4. Serialize(q) = <<p[1]>> \o FrameBody(s, z, d)
    BY <1>9, <2>3, SerializeIs
  <2>5. q \in Packet
    BY <2>3 DEF Packet
  <2> QED BY <1>3, <2>3, <2>4, <2>5 DEF q
<1>10. CASE p[1] = 6
  <2>1. q = DeserializeHandshake(src)
    BY <1>1, <1>10, Dispatch DEF q, src
  <2>2. PICK k \in Key, r \in Word, c \in Word :
            q = ClientHandshake(k, r, c) /\ Starts(src, HandshakeBody(k, r, c))
    <3>1. Lossy(WireKey(src)) = WireKey(src)
      BY <1>1, <1>4, <1>10 DEF KeyWritten, q, src
    <3> QED BY <1>2, <1>4, <2>1, <3>1, HandshakeWritten
  <2>3. Serialize(q) = <<p[1]>> \o HandshakeBody(k, r, c)
    BY <1>10, <2>2, SerializeIs
  <2>4. q \in Packet
    BY <2>2 DEF Packet
  <2> QED BY <1>3, <2>2, <2>3, <2>4 DEF q
<1>11. p[1] \in {1, 2, 3, 4, 5, 6}
  <2>1. p[1] \in 1 .. 6
    BY <1>1, <1>4, Dispatch DEF q
  <2> QED BY <2>1
<1> QED BY <1>5, <1>6, <1>7, <1>8, <1>9, <1>10, <1>11

\* A sequence of n bytes.
Sized(s, n) == s \in Seq(Byte) /\ Len(s) = n
LEMMA SizedConcat ==
    ASSUME NEW s, NEW t, NEW m \in Nat, NEW n \in Nat
    PROVE  Sized(s, m) /\ Sized(t, n) => Sized(s \o t, m + n)
BY Lengths DEF Sized

\* The packets of the run are packets.
LEMMA SamplesArePackets ==
    ASSUME payload \in Seq(Byte), Len(payload) \in Word
    PROVE  \A p \in Samples : p \in Packet /\ Len(Serialize(p)) \in DWord
<1> DEFINE eight == <<0, 1, 0, 0, 1, 1, 0, 1>>
           len == Len(payload)
<1>1. eight \in U64
  BY DEF U64, Byte
<1> HIDE DEF eight
<1>2. eight \in Seq(Byte) /\ Len(eight) = 8
  BY <1>1 DEF U64
<1>3. len \in Nat /\ len \div 256 < 256
  BY DEF Word
<1>4. \A n \in 0 .. len + 20 : n \in DWord
  <2> SUFFICES ASSUME NEW n \in 0 .. len + 20 PROVE n \in DWord
    OBVIOUS
  <2> DEFINE a == n \div 256
             b == a \div 256
  <2>1. n \in Nat /\ len = 256 * (len \div 256) + (len % 256) /\ len % 256 \in Byte
    BY <1>3, DivMod
  <2>2. len \div 256 \in Nat
    BY <1>3, DivMod
  <2>3. a \in Nat /\ n % 256 \in Byte /\ n = 256 * a + (n % 256)
    BY <2>1, DivMod
  <2> DEFINE c == len \div 256
             x == len % 256
             y == n % 256
  <2> HIDE DEF a, c, x, y
  <2>4. a <= 257
    <3>1. /\ c \in Nat /\ c < 256 /\ x \in Byte /\ y \in Byte /\ len = 256 * c + x /\ n = 256 * a + y
          /\ n <= len + 20
      BY <1>3, <2>1, <2>2, <2>3 DEF c, x, y
    <3> HIDE DEF len
    <3> QED BY <2>3, <3>1 DEF Byte
  <2>5. b \in Nat /\ a % 256 \in Byte /\ a = 256 * b + (a % 256)
    BY <2>3, DivMod
  <2> HIDE DEF b
  <2>6. b <= 1
    BY <2>3, <2>4, <2>5 DEF Byte
  <2>7. b \div 256 < 256
    BY <2>5, <2>6
  <2> QED BY <2>1, <2>7 DEF DWord, a, b
<1>5. /\ payload \in Data /\ (Lossy(payload) = payload => payload \in Key)
      /\ 1 \in Word /\ 256 \in Word /\ 257 \in Word /\ 2 \in Word
  <2>1. len \in DWord
    BY <1>3, <1>4
  <2>2. 1 \in Word /\ 2 \in Word
    BY DEF Word
  <2>3. 256 \in Word /\ 257 \in Word
    BY DEF Word
  <2> QED BY <2>1, <2>2, <2>3 DEF Data, Key
<1>6. ASSUME NEW t \in 1 .. 6, NEW b, NEW n \in 0 .. len + 13
      PROVE  Sized(b, n) => Len(<<t>> \o b) \in DWord
  <2>1. Sized(<<t>>, 1)
    BY DEF Sized, Byte
  <2>2. 1 \in Nat /\ n \in Nat /\ 1 + n \in 0 .. len + 20
    BY <1>3
  <2>3. Sized(b, n) => Sized(<<t>> \o b, 1 + n)
    BY <2>1, <2>2, SizedConcat
  <2> QED BY <1>4, <2>2, <2>3 DEF Sized
<1>7. /\ Sized(payload, len) /\ Sized(eight, 8) /\ Sized(Be32(len), 4)
      /\ \A n \in Nat : Sized(Be16(n), 2)
      /\ \A z \in BOOLEAN : Sized(Flag(z), 1)
  <2>1. Sized(payload, len) /\ Sized(eight, 8)
    BY <1>2 DEF Sized
  <2>2. Sized(Be32(len), 4)
    <3>1. FourBytes(len)
      BY <1>3, Be32Bytes
    <3> QED BY <1>3, <3>1 DEF FourBytes, Sized
  <2>3. \A n \in Nat : Sized(Be16(n), 2)
    <3>1. \A n \in Nat : TwoBytes(n)
      BY Be16Facts
    <3> QED BY <3>1 DEF TwoBytes, Sized
  <2>4. \A z \in BOOLEAN : Sized(Flag(z), 1)
    BY DEF Sized, Flag, Byte
  <2> QED BY <2>1, <2>2, <2>3, <2>4
<1> HIDE DEF len
<1>8. ClientInput(payload) \in Packet /\ Len(Serialize(ClientInput(payload))) \in DWord
  <2>1. Sized(Be32(len) \o payload, 4 + len) /\ 4 + len \in 0 .. len + 13
    BY <1>3, <1>7, SizedConcat
  <2> DEFINE body == Be32(len) \o payload
  <2>2. Serialize(ClientInput(payload)) = <<1>> \o body
    <3>1. \A d : Serialize(ClientInput(d)) = <<1>> \o InputBody(d)
      BY SerializeIs
    <3>2. Serialize(ClientInput(payload)) = <<1>> \o InputBody(payload)
      BY <3>1
    <3> QED BY <3>2 DEF InputBody, len
  <2>3. Sized(body, 4 + len)
    BY <2>1
  <2> HIDE DEF body
  <2>5. Len(<<1>> \o body) \in DWord
    BY <1>6, <2>1, <2>3
  <2>4. ClientInput(payload) \in Packet
    BY <1>5 DEF Packet
  <2> QED BY <2>2, <2>4, <2>5
<1>9. ClientResize(1, 256) \in Packet /\ Len(Serialize(ClientResize(1, 256))) \in DWord
  <2>1. Sized(Be16(1), 2) /\ Sized(Be16(256), 2)
    BY <1>7
  <2>2. Sized(Be16(1) \o Be16(256), 2 + 2) /\ 2 + 2 \in 0 .. len + 13
    BY <1>3, <2>1, SizedConcat
  <2> DEFINE body == Be16(1) \o Be16(256)
  <2>3. Serialize(ClientResize(1, 256)) = <<2>> \o body
    <3>1. \A r, c : Serialize(ClientResize(r, c)) = <<2>> \o ResizeBody(r, c)
      BY SerializeIs
    <3>2. Serialize(ClientResize(1, 256)) = <<2>> \o ResizeBody(1, 256)
      BY <3>1
    <3> QED BY <3>2 DEF ResizeBody
  <2>6. Sized(body, 2 + 2)
    BY <2>2
  <2> HIDE DEF body
  <2>4. Len(<<2>> \o body) \in DWord
    BY <1>6, <2>2, <2>6
  <2>5. ClientResize(1, 256) \in Packet
    BY <1>5 DEF Packet
  <2> QED BY <2>3, <2>4, <2>5
<1>10. /\ Ping(eight) \in Packet /\ Len(Serialize(Ping(eight))) \in DWord
       /\ Pong(eight) \in Packet /\ Len(Serialize(Pong(eight))) \in DWord
  <2>1. 8 \in 0 .. len + 13
    BY <1>3
  <2>2. Len(<<3>> \o eight) \in DWord /\ Len(<<4>> \o eight) \in DWord
    BY <1>6, <1>7, <2>1
  <2>3. Serialize(Ping(eight)) = <<3>> \o eight /\ Serialize(Pong(eight)) = <<4>> \o eight
    BY SerializeIs
  <2>4. Ping(eight) \in Packet /\ Pong(eight) \in Packet
    BY <1>1 DEF Packet
  <2> QED BY <2>2, <2>3, <2>4
<1>11. ASSUME NEW z \in BOOLEAN
       PROVE  /\ ServerFrame(eight, z, payload) \in Packet
              /\ Len(Serialize(ServerFrame(eight, z, payload))) \in DWord
  <2> DEFINE f == Flag(z)
             h == Be32(len)
             body == ((eight \o f) \o h) \o payload
  <2>1. Sized(f, 1) /\ Sized(h, 4)
    BY <1>7
  <2>2. Serialize(ServerFrame(eight, z, payload)) = <<5>> \o body
    <3>1. Serialize(ServerFrame(eight, z, payload)) = <<5>> \o FrameBody(eight, z, payload)
      <4>1. \A q, y, d : Serialize(ServerFrame(q, y, d)) = <<5>> \o FrameBody(q, y, d)
        BY SerializeIs
      <4> QED BY <4>1
    <3> QED BY <3>1 DEF FrameBody, len
  <2>3. ServerFrame(eight, z, payload) \in Packet
    BY <1>1, <1>5 DEF Packet
  <2> HIDE DEF f, h
  <2>4. Sized(eight \o f, 8 + 1)
    BY <1>7, <2>1, SizedConcat
  <2>5. Sized((eight \o f) \o h, (8 + 1) + 4)
    BY <2>1, <2>4, SizedConcat
  <2>6. Sized(body, ((8 + 1) + 4) + len) /\ ((8 + 1) + 4) + len \in 0 .. len + 13
    BY <1>3, <1>7, <2>5, SizedConcat
  <2> HIDE DEF body
  <2>7. Len(<<5>> \o body) \in DWord
    BY <1>6, <2>6
  <2> QED BY <2>2, <2>3, <2>7
<1>12. ASSUME Lossy(payload) = payload
       PROVE  /\ ClientHandshake(payload, 257, 2) \in Packet
              /\ Len(Serialize(ClientHandshake(payload, 257, 2))) \in DWord
  <2> DEFINE n == Be16(len)
             x == Be16(257)
             y == Be16(2)
             body == ((n \o payload) \o x) \o y
  <2>1. Sized(n, 2) /\ Sized(x, 2) /\ Sized(y, 2)
    BY <1>3, <1>7
  <2>2. Serialize(ClientHandshake(payload, 257, 2)) = <<6>> \o body
    <3>1. Serialize(ClientHandshake(payload, 257, 2)) = <<6>> \o HandshakeBody(payload, 257, 2)
      <4>1. \A k, r, c : Serialize(ClientHandshake(k, r, c)) = <<6>> \o HandshakeBody(k, r, c)
        BY SerializeIs
      <4> QED BY <4>1
    <3> QED BY <3>1 DEF HandshakeBody, len
  <2>3. ClientHandshake(payload, 257, 2) \in Packet
    BY <1>5, <1>12 DEF Packet
  <2> HIDE DEF n, x, y
  <2>4. Sized(n \o payload, 2 + len) /\ 2 + len \in Nat
    BY <1>3, <1>7, <2>1, SizedConcat
  <2>5. Sized((n \o payload) \o x, (2 + len) + 2) /\ (2 + len) + 2 \in Nat
    BY <2>1, <2>4, SizedConcat
  <2>6. Sized(body, ((2 + len) + 2) + 2) /\ ((2 + len) + 2) + 2 \in 0 .. len + 13
    BY <1>3, <2>1, <2>5, SizedConcat
  <2> HIDE DEF body
  <2>7. Len(<<6>> \o body) \in DWord
    BY <1>6, <2>6
  <2> QED BY <2>2, <2>3, <2>7
<1> DEFINE Fits(p) == p \in Packet /\ Len(Serialize(p)) \in DWord
<1>13. /\ Fits(ClientInput(payload)) /\ Fits(ClientResize(1, 256)) /\ Fits(Ping(eight))
       /\ Fits(Pong(eight)) /\ (Lossy(payload) = payload => Fits(ClientHandshake(payload, 257, 2)))
       /\ Fits(ServerFrame(eight, TRUE, payload)) /\ Fits(ServerFrame(eight, FALSE, payload))
  BY <1>8, <1>9, <1>10, <1>11, <1>12
<1>14. Samples = {ClientInput(payload), ClientResize(1, 256), Ping(eight), Pong(eight),
                  ServerFrame(eight, TRUE, payload), ServerFrame(eight, FALSE, payload)}
                 \cup {ClientHandshake(k, 257, 2) : k \in {payload} \cap {Lossy(payload)}}
  BY DEF Samples, eight
<1> HIDE DEF Fits
<1>15. ASSUME NEW p \in Samples PROVE Fits(p)
  <2>1. \/ p = ClientInput(payload) \/ p = ClientResize(1, 256) \/ p = Ping(eight) \/ p = Pong(eight)
        \/ p = ServerFrame(eight, TRUE, payload) \/ p = ServerFrame(eight, FALSE, payload)
        \/ \E k \in {payload} \cap {Lossy(payload)} : p = ClientHandshake(k, 257, 2)
    BY <1>14, Zenon
  <2>2. ASSUME NEW k \in {payload} \cap {Lossy(payload)}, p = ClientHandshake(k, 257, 2)
        PROVE  Lossy(payload) = payload /\ p = ClientHandshake(payload, 257, 2)
    BY <2>2, Zenon
  <2> QED BY <1>13, <2>1, <2>2, Zenon
<1> QED BY <1>15 DEF Fits

-----------------------------------------------------------------------------
(* A packet is read from a definite number of bytes.                         *)

\* u is the first n bytes of s.
Heads(u, s, n) ==
    /\ u \in Seq(Byte) /\ Len(u) = n /\ \A i \in 1 .. n : u[i] = s[i]
    /\ \A a, b \in Nat : a <= b /\ b <= n => Slice(u, a, b) = Slice(s, a, b)
LEMMA HeadFacts ==
    ASSUME NEW s \in Seq(Byte), NEW n \in 0 .. Len(s)
    PROVE  Heads(Slice(s, 0, n), s, n)
<1> DEFINE u == Slice(s, 0, n)
<1>1. Len(s) \in Nat /\ n \in Nat /\ 0 \in Nat /\ 0 <= n /\ n <= Len(s) /\ n - 0 = n
  OBVIOUS
<1>2. u \in Seq(Byte) /\ Len(u) = n /\ \A i \in 1 .. n : u[i] = s[i]
  <2>1. Field(s, 0, n)
    BY <1>1, IsField
  <2>2. \A i \in 1 .. n : 0 + i = i
    BY <1>1
  <2> QED BY <1>1, <2>1, <2>2 DEF Field
<1> HIDE DEF u
<1>3. ASSUME NEW a \in Nat, NEW b \in Nat, a <= b, b <= n
      PROVE  Slice(u, a, b) = Slice(s, a, b)
  <2> DEFINE t == Slice(s, a, b)
  <2>1. b <= Len(s) /\ b <= Len(u)
    BY <1>1, <1>2, <1>3
  <2>2. t \in Seq(Byte) /\ Len(t) = b - a /\ \A i \in 1 .. b - a : t[i] = s[a + i]
    <3>1. Field(s, a, b)
      BY <1>3, <2>1, IsField
    <3> QED BY <3>1 DEF Field
  <2> HIDE DEF t
  <2>3. \A i \in 1 .. b - a : u[a + i] = t[i]
    <3>1. \A i \in 1 .. b - a : a + i \in 1 .. n
      BY <1>1, <1>3
    <3> QED BY <1>2, <2>2, <3>1
  <2>4. Slice(u, a, b) = t
    BY <1>2, <1>3, <2>1, <2>2, <2>3, SliceIs
  <2> QED BY <2>4 DEF t
<1> QED BY <1>2, <1>3 DEF Heads, u

\* Each reader needs a definite part of what follows the tag.
LEMMA InputTakes ==
    ASSUME NEW src \in Seq(Byte), DeserializeInput(src) # Err
    PROVE  \E m \in 0 .. Len(src) : \A n \in 0 .. Len(src) :
               DeserializeInput(Slice(src, 0, n)) = IF n < m THEN Err ELSE DeserializeInput(src)
<1> DEFINE len == FromBe32(Slice(src, 0, 4))
<1>1. Len(src) \in Nat /\ ~(Len(src) < 4) /\ 4 <= Len(src)
  <2>1. ~(Len(src) < 4)
    BY DEF DeserializeInput
  <2> QED BY <2>1
<1>2. ~(Len(src) - 4 < len) /\ DeserializeInput(src) = ClientInput(Slice(src, 4, 4 + len))
  BY <1>1 DEF DeserializeInput
<1>3. len \in Nat
  <2>1. 0 \in Nat /\ 4 \in Nat /\ 0 <= 4 /\ 4 - 0 >= 4
    OBVIOUS
  <2> QED BY <1>1, <2>1, FieldFacts
<1>4. ASSUME NEW n \in 0 .. Len(src)
      PROVE  DeserializeInput(Slice(src, 0, n))
                 = IF n < 4 + len THEN Err ELSE DeserializeInput(src)
  <2> DEFINE u == Slice(src, 0, n)
  <2>1. Heads(u, src, n) /\ n \in Nat
    BY HeadFacts
  <2> HIDE DEF u
  <2>2. Len(u) = n
    BY <2>1 DEF Heads
  <2>3. CASE n < 4
    <3>1. DeserializeInput(u) = Err
      BY <2>2, <2>3 DEF DeserializeInput
    <3>2. n < 4 + len
      BY <1>3, <2>1, <2>3
    <3> QED BY <3>1, <3>2 DEF u
  <2>4. CASE ~(n < 4)
    <3>1. FromBe32(Slice(u, 0, 4)) = len
      <4>1. 0 \in Nat /\ 4 \in Nat /\ 0 <= 4 /\ 4 <= n
        BY <2>1, <2>4
      <4> QED BY <2>1, <4>1 DEF Heads
    <3> HIDE DEF len
    <3>2. DeserializeInput(u) = IF n - 4 < len THEN Err ELSE ClientInput(Slice(u, 4, 4 + len))
      BY <2>2, <2>4, <3>1 DEF DeserializeInput
    <3>3. n - 4 < len <=> n < 4 + len
      BY <1>3, <2>1
    <3>4. ~(n < 4 + len) => Slice(u, 4, 4 + len) = Slice(src, 4, 4 + len)
      <4>1. 4 \in Nat /\ 4 + len \in Nat /\ 4 <= 4 + len /\ (~(n < 4 + len) => 4 + len <= n)
        BY <1>3, <2>1
      <4> QED BY <2>1, <4>1 DEF Heads
    <3> QED BY <1>2, <3>2, <3>3, <3>4 DEF u
  <2> QED BY <2>3, <2>4
<1>5. 4 + len \in 0 .. Len(src)
  BY <1>1, <1>2, <1>3
<1> QED BY <1>4, <1>5

LEMMA ResizeTakes ==
    ASSUME NEW src \in Seq(Byte), DeserializeResize(src) # Err
    PROVE  \E m \in 0 .. Len(src) : \A n \in 0 .. Len(src) :
               DeserializeResize(Slice(src, 0, n)) = IF n < m THEN Err ELSE DeserializeResize(src)
<1>1. Len(src) \in Nat /\ ~(Len(src) < 4) /\ 4 \in 0 .. Len(src)
  <2>1. ~(Len(src) < 4)
    BY DEF DeserializeResize
  <2> QED BY <2>1
<1>2. ASSUME NEW n \in 0 .. Len(src)
      PROVE  DeserializeResize(Slice(src, 0, n)) = IF n < 4 THEN Err ELSE DeserializeResize(src)
  <2> DEFINE u == Slice(src, 0, n)
  <2>1. Heads(u, src, n) /\ n \in Nat
    BY HeadFacts
  <2> HIDE DEF u
  <2>2. Len(u) = n
    BY <2>1 DEF Heads
  <2>3. ~(n < 4) => Slice(u, 0, 2) = Slice(src, 0, 2) /\ Slice(u, 2, 4) = Slice(src, 2, 4)
    <3>1. /\ 0 \in Nat /\ 2 \in Nat /\ 4 \in Nat /\ 0 <= 2 /\ 2 <= 4
          /\ ~(n < 4) => 2 <= n /\ 4 <= n
      BY <2>1
    <3> QED BY <2>1, <3>1 DEF Heads
  <2> QED BY <1>1, <2>2, <2>3 DEF DeserializeResize, u
<1> QED BY <1>1, <1>2

LEMMA TimeTakes ==
    ASSUME NEW src \in Seq(Byte), NEW t, DeserializeTime(src, t) # Err
    PROVE  \E m \in 0 .. Len(src) : \A n \in 0 .. Len(src) :
               DeserializeTime(Slice(src, 0, n), t) = IF n < m THEN Err ELSE DeserializeTime(src, t)
<1>1. Len(src) \in Nat /\ ~(Len(src) < 8) /\ 8 \in 0 .. Len(src)
  <2>1. ~(Len(src) < 8)
    BY DEF DeserializeTime
  <2> QED BY <2>1
<1>2. ASSUME NEW n \in 0 .. Len(src)
      PROVE  DeserializeTime(Slice(src, 0, n), t) = IF n < 8 THEN Err ELSE DeserializeTime(src, t)
  <2> DEFINE u == Slice(src, 0, n)
  <2>1. Heads(u, src, n) /\ n \in Nat
    BY HeadFacts
  <2> HIDE DEF u
  <2>2. Len(u) = n
    BY <2>1 DEF Heads
  <2>3. ~(n < 8) => Slice(u, 0, 8) = Slice(src, 0, 8)
    <3>1. 0 \in Nat /\ 8 \in Nat /\ 0 <= 8 /\ (~(n < 8) => 8 <= n)
      BY <2>1
    <3> QED BY <2>1, <3>1 DEF Heads
  <2> QED BY <1>1, <2>2, <2>3 DEF DeserializeTime, u
<1> QED BY <1>1, <1>2

LEMMA FrameTakes ==
    ASSUME NEW src \in Seq(Byte), DeserializeFrame(src) # Err
    PROVE  \E m \in 0 .. Len(src) : \A n \in 0 .. Len(src) :
               DeserializeFrame(Slice(src, 0, n)) = IF n < m THEN Err ELSE DeserializeFrame(src)
<1> DEFINE len == FromBe32(Slice(src, 9, 13))
           F(d) == ServerFrame(Slice(src, 0, 8), src[9] # 0, d)
<1>1. Len(src) \in Nat /\ ~(Len(src) < 13) /\ 13 <= Len(src)
  <2>1. ~(Len(src) < 13)
    BY DEF DeserializeFrame
  <2> QED BY <2>1
<1>2. ~(Len(src) - 13 < len) /\ DeserializeFrame(src) = F(Slice(src, 13, 13 + len))
  BY <1>1 DEF DeserializeFrame
<1>3. len \in Nat
  <2>1. 9 \in Nat /\ 13 \in Nat /\ 9 <= 13 /\ 13 - 9 >= 4
    OBVIOUS
  <2> QED BY <1>1, <2>1, FieldFacts
<1>4. ASSUME NEW n \in 0 .. Len(src)
      PROVE  DeserializeFrame(Slice(src, 0, n))
                 = IF n < 13 + len THEN Err ELSE DeserializeFrame(src)
  <2> DEFINE u == Slice(src, 0, n)
  <2>1. Heads(u, src, n) /\ n \in Nat
    BY HeadFacts
  <2> HIDE DEF u
  <2>2. Len(u) = n
    BY <2>1 DEF Heads
  <2>3. CASE n < 13
    <3>1. DeserializeFrame(u) = Err
      BY <2>2, <2>3 DEF DeserializeFrame
    <3>2. n < 13 + len
      BY <1>3, <2>1, <2>3
    <3> QED BY <3>1, <3>2 DEF u
  <2>4. CASE ~(n < 13)
    <3>1. FromBe32(Slice(u, 9, 13)) = len /\ Slice(u, 0, 8) = Slice(src, 0, 8) /\ u[9] = src[9]
      <4>1. /\ 0 \in Nat /\ 8 \in Nat /\ 9 \in Nat /\ 13 \in Nat /\ 0 <= 8 /\ 9 <= 13 /\ 8 <= n
            /\ 13 <= n /\ 9 \in 1 .. n
        BY <2>1, <2>4
      <4> QED BY <2>1, <4>1 DEF Heads
    <3> HIDE DEF len
    <3>2. DeserializeFrame(u) = IF n - 13 < len THEN Err ELSE F(Slice(u, 13, 13 + len))
      BY <2>2, <2>4, <3>1 DEF DeserializeFrame
    <3>3. n - 13 < len <=> n < 13 + len
      BY <1>3, <2>1
    <3>4. ~(n < 13 + len) => Slice(u, 13, 13 + len) = Slice(src, 13, 13 + len)
      <4>1. 13 \in Nat /\ 13 + len \in Nat /\ 13 <= 13 + len /\ (~(n < 13 + len) => 13 + len <= n)
        BY <1>3, <2>1
      <4> QED BY <2>1, <4>1 DEF Heads
    <3> QED BY <1>2, <3>2, <3>3, <3>4 DEF u
  <2> QED BY <2>3, <2>4
<1>5. 13 + len \in 0 .. Len(src)
  BY <1>1, <1>2, <1>3
<1> QED BY <1>4, <1>5

LEMMA HandshakeTakes ==
    ASSUME NEW src \in Seq(Byte), DeserializeHandshake(src) # Err
    PROVE  \E m \in 0 .. Len(src) : \A n \in 0 .. Len(src) :
               DeserializeHandshake(Slice(src, 0, n))
                   = IF n < m THEN Err ELSE DeserializeHandshake(src)
<1> DEFINE len == FromBe16(Slice(src, 0, 2))
           H(k, x, y) == ClientHandshake(Lossy(k), FromBe16(x), FromBe16(y))
<1>1. Len(src) \in Nat /\ ~(Len(src) < 2) /\ 2 <= Len(src)
  <2>1. ~(Len(src) < 2)
    BY DEF DeserializeHandshake
  <2> QED BY <2>1
<1>2. /\ ~(Len(src) - 2 < len + 4)
      /\ DeserializeHandshake(src) = H(Slice(src, 2, 2 + len), Slice(src, 2 + len, 4 + len),
                                       Slice(src, 4 + len, 6 + len))
  BY <1>1 DEF DeserializeHandshake
<1>3. len \in Nat
  <2>1. 0 \in Nat /\ 2 \in Nat /\ 0 <= 2 /\ 2 - 0 >= 2
    OBVIOUS
  <2> QED BY <1>1, <2>1, FieldFacts
<1>4. ASSUME NEW n \in 0 .. Len(src)
      PROVE  DeserializeHandshake(Slice(src, 0, n))
                 = IF n < 6 + len THEN Err ELSE DeserializeHandshake(src)
  <2> DEFINE u == Slice(src, 0, n)
  <2>1. Heads(u, src, n) /\ n \in Nat
    BY HeadFacts
  <2> HIDE DEF u
  <2>2. Len(u) = n
    BY <2>1 DEF Heads
  <2>3. CASE n < 2
    <3>1. DeserializeHandshake(u) = Err
      BY <2>2, <2>3 DEF DeserializeHandshake
    <3>2. n < 6 + len
      BY <1>3, <2>1, <2>3
    <3> QED BY <3>1, <3>2 DEF u
  <2>4. CASE ~(n < 2)
    <3>1. FromBe16(Slice(u, 0, 2)) = len
      <4>1. 0 \in Nat /\ 2 \in Nat /\ 0 <= 2 /\ 2 <= n
        BY <2>1, <2>4
      <4> QED BY <2>1, <4>1 DEF Heads
    <3> HIDE DEF len
    <3>2. DeserializeHandshake(u)
              = IF n - 2 < len + 4 THEN Err
                ELSE H(Slice(u, 2, 2 + len), Slice(u, 2 + len, 4 + len), Slice(u, 4 + len, 6 + len))
      BY <2>2, <2>4, <3>1 DEF DeserializeHandshake
    <3>3. n - 2 < len + 4 <=> n < 6 + len
      BY <1>3, <2>1
    <3>4. ASSUME ~(n < 6 + len)
          PROVE  /\ Slice(u, 2, 2 + len) = Slice(src, 2, 2 + len)
                 /\ Slice(u, 2 + len, 4 + len) = Slice(src, 2 + len, 4 + len)
                 /\ Slice(u, 4 + len, 6 + len) = Slice(src, 4 + len, 6 + len)
      <4>1. /\ 2 \in Nat /\ 2 + len \in Nat /\ 4 + len \in Nat /\ 6 + len \in Nat
            /\ 2 <= 2 + len /\ 2 + len <= 4 + len /\ 4 + len <= 6 + len
            /\ 2 + len <= n /\ 4 + len <= n /\ 6 + len <= n
        BY <1>3, <2>1, <3>4
      <4> QED BY <2>1, <4>1 DEF Heads
    <3> HIDE DEF H
    <3> QED BY <1>2, <3>2, <3>3, <3>4 DEF u
  <2> QED BY <2>3, <2>4
<1>5. 6 + len \in 0 .. Len(src)
  BY <1>1, <1>2, <1>3
<1> QED BY <1>4, <1>5

\* Whatever the payload is, a packet in it is read from its first m bytes.
LEMMA TakesSome ==
    ASSUME payload \in Seq(Byte), Deserialize(payload) # Err
    PROVE  \E m \in 1 .. Len(payload) : Takes(m)
<1> DEFINE src == From(payload, 1)
           t == payload[1]
           R(s) == CASE t = 1 -> DeserializeInput(s)
                     [] t = 2 -> DeserializeResize(s)
                     [] t = 3 -> DeserializeTime(s, 3)
                     [] t = 4 -> DeserializeTime(s, 4)
                     [] t = 5 -> DeserializeFrame(s)
                     [] t = 6 -> DeserializeHandshake(s)
<1>1. payload # <<>>
  BY DEF Deserialize
<1>2. src \in Seq(Byte) /\ Len(payload) \in Nat /\ Len(src) = Len(payload) - 1
  BY <1>1, FromFacts
<1>3. t \in {1, 2, 3, 4, 5, 6}
  <2>1. t \in 1 .. 6
    BY <1>1, Dispatch
  <2> QED BY <2>1
<1> HIDE DEF t, src
<1>4. ASSUME NEW p, p # <<>>, p[1] = t
      PROVE  Deserialize(p) = R(From(p, 1))
  <2>1. CASE t = 1
    BY <1>4, <2>1, Dispatch
  <2>2. CASE t = 2
    BY <1>4, <2>2, Dispatch
  <2>3. CASE t = 3
    BY <1>4, <2>3, Dispatch
  <2>4. CASE t = 4
    BY <1>4, <2>4, Dispatch
  <2>5. CASE t = 5
    BY <1>4, <2>5, Dispatch
  <2>6. CASE t = 6
    BY <1>4, <2>6, Dispatch
  <2> QED BY <1>3, <2>1, <2>2, <2>3, <2>4, <2>5, <2>6
<1>5. Deserialize(payload) = R(src)
  BY <1>1, <1>4 DEF t, src
<1>6. \E m \in 0 .. Len(src) : \A n \in 0 .. Len(src) :
          R(Slice(src, 0, n)) = IF n < m THEN Err ELSE R(src)
  <2>1. CASE t = 1
    <3>1. DeserializeInput(src) # Err
      BY <1>5, <2>1
    <3> QED BY <1>2, <2>1, <3>1, InputTakes
  <2>2. CASE t = 2
    <3>1. DeserializeResize(src) # Err
      BY <1>5, <2>2
    <3> QED BY <1>2, <2>2, <3>1, ResizeTakes
  <2>3. CASE t = 3
    <3>1. DeserializeTime(src, 3) # Err
      BY <1>5, <2>3
    <3> QED BY <1>2, <2>3, <3>1, TimeTakes
  <2>4. CASE t = 4
    <3>1. DeserializeTime(src, 4) # Err
      BY <1>5, <2>4
    <3> QED BY <1>2, <2>4, <3>1, TimeTakes
  <2>5. CASE t = 5
    <3>1. DeserializeFrame(src) # Err
      BY <1>5, <2>5
    <3> QED BY <1>2, <2>5, <3>1, FrameTakes
  <2>6. CASE t = 6
    <3>1. DeserializeHandshake(src) # Err
      BY <1>5, <2>6
    <3> QED BY <1>2, <2>6, <3>1, HandshakeTakes
  <2> QED BY <1>3, <2>1, <2>2, <2>3, <2>4, <2>5, <2>6
<1> HIDE DEF R
<1>7. PICK m \in 0 .. Len(src) : \A n \in 0 .. Len(src) :
          R(Slice(src, 0, n)) = IF n < m THEN Err ELSE R(src)
  BY <1>6
<1>8. ASSUME NEW n \in 0 .. Len(payload)
      PROVE  Deserialize(SubSeq(payload, 1, n)) = IF n < m + 1 THEN Err ELSE Deserialize(payload)
  <2> DEFINE u == Slice(payload, 0, n)
  <2>1. u = SubSeq(payload, 1, n)
    BY DEF Slice
  <2>2. Heads(u, payload, n) /\ n \in Nat /\ m \in Nat
    BY <1>2, HeadFacts
  <2> HIDE DEF u
  <2>3. u \in Seq(Byte) /\ Len(u) = n /\ \A i \in 1 .. n : u[i] = payload[i]
    BY <2>2 DEF Heads
  <2>4. CASE n = 0
    <3>1. u = <<>>
      BY <2>3, <2>4
    <3>2. Deserialize(u) = Err
      BY <3>1 DEF Deserialize
    <3>3. n < m + 1
      BY <2>2, <2>4
    <3> QED BY <2>1, <3>2, <3>3
  <2>5. CASE n # 0
    <3>1. u # <<>> /\ u[1] = t
      BY <2>2, <2>3, <2>5 DEF t
    <3>2. /\ n - 1 \in Nat /\ n - 1 \in 0 .. Len(src) /\ 0 \in Nat /\ 1 \in Nat /\ 0 <= n - 1
          /\ n - 1 < n /\ n - 1 < Len(payload) /\ (n - 1) + 1 = n /\ 1 <= n /\ n <= n
      BY <1>2, <2>2, <2>5
    <3>3. From(u, 1) = Slice(src, 0, n - 1)
      <4>1. From(u, 1) = Slice(u, 1, n)
        BY <2>3 DEF From, Slice
      <4>2. Slice(u, 1, n) = Slice(payload, 1, n)
        BY <2>2, <3>2 DEF Heads
      <4>3. Slice(From(payload, 1), 0, n - 1) = Slice(payload, 0 + 1, (n - 1) + 1)
        BY <3>2, SliceFrom
      <4> QED BY <3>2, <4>1, <4>2, <4>3 DEF src
    <3>4. Deserialize(u) = IF n - 1 < m THEN Err ELSE R(src)
      BY <1>4, <1>7, <3>1, <3>2, <3>3
    <3>5. n - 1 < m <=> n < m + 1
      BY <2>2
    <3> QED BY <1>5, <2>1, <3>4, <3>5
  <2> QED BY <2>4, <2>5
<1>9. m + 1 \in 1 .. Len(payload)
  BY <1>2
<1> QED BY <1>8, <1>9 DEF Takes

\* The bytes of the payload that a handshake is read from hold its key.
LEMMA KeyHeads ==
    ASSUME NEW src \in Seq(Byte), NEW n \in 0 .. Len(src),
           DeserializeHandshake(Slice(src, 0, n)) # Err
    PROVE  WireKey(Slice(src, 0, n)) = WireKey(src)
<1> DEFINE u == Slice(src, 0, n)
           len == FromBe16(Slice(u, 0, 2))
<1>1. Heads(u, src, n) /\ n \in Nat
  BY HeadFacts
<1>2. DeserializeHandshake(u) # Err
  OBVIOUS
<1> HIDE DEF u
<1>3. Len(u) = n /\ u \in Seq(Byte)
  BY <1>1 DEF Heads
<1>4. ~(n < 2) /\ ~(n - 2 < len + 4)
  BY <1>2, <1>3 DEF DeserializeHandshake
<1>5. 0 \in Nat /\ 2 \in Nat /\ 0 <= 2 /\ 2 <= n /\ 2 - 0 >= 2
  BY <1>1, <1>4
<1>6. Slice(u, 0, 2) = Slice(src, 0, 2)
  BY <1>1, <1>5 DEF Heads
<1>7. len \in Nat
  BY <1>3, <1>5, FieldFacts
<1> HIDE DEF len
<1>8. 2 + len \in Nat /\ 2 <= 2 + len /\ 2 + len <= n
  BY <1>1, <1>4, <1>7
<1>9. Slice(u, 2, 2 + len) = Slice(src, 2, 2 + len)
  BY <1>1, <1>5, <1>8 DEF Heads
<1> QED BY <1>6, <1>9 DEF WireKey, len, u

\* What serialize can have written has a flag and a key that it writes.
LEMMA CanonicalWritten ==
    ASSUME payload \in Seq(Byte), Deserialize(payload) # Err, Canonical
    PROVE  FlagWritten(payload) /\ KeyWritten(payload)
<1> DEFINE p == Deserialize(payload)
           src == From(payload, 1)
<1>1. payload # <<>> /\ Len(payload) \in Nat
  BY DEF Deserialize
<1>2. ASSUME payload[1] = 5 PROVE payload[10] \in {0, 1}
  <2>1. p = DeserializeFrame(src)
    BY <1>1, <1>2, Dispatch
  <2>2. p.tag = 5
    BY <2>1, Tags
  <2> QED BY <2>2 DEF Canonical
<1>3. ASSUME payload[1] = 6 PROVE Lossy(WireKey(src)) = WireKey(src)
  <2>1. p = DeserializeHandshake(src) /\ p # Err
    BY <1>1, <1>3, Dispatch
  <2>2. p.tag = 6
    BY <2>1, Tags
  <2> DEFINE len == FromBe16(Slice(src, 0, 2))
  <2>3. src \in Seq(Byte) /\ Len(src) = Len(payload) - 1
    BY <1>1, FromFacts
  <2>4. ~(Len(src) < 2) /\ ~(Len(src) - 2 < len + 4) /\ p.key = Lossy(Slice(src, 2, 2 + len))
    BY <2>1 DEF DeserializeHandshake, ClientHandshake
  <2>5. Slice(src, 0, 2) = Slice(payload, 1, 3)
    <3>1. 0 \in Nat /\ 2 \in Nat /\ 0 <= 2 /\ 2 < Len(payload)
      BY <1>1, <2>3, <2>4
    <3>2. Slice(From(payload, 1), 0, 2) = Slice(payload, 0 + 1, 2 + 1)
      BY <3>1, SliceFrom
    <3> QED BY <3>2
  <2>6. len \in Nat
    <3>1. 0 \in Nat /\ 2 \in Nat /\ 0 <= 2 /\ 2 <= Len(src) /\ 2 - 0 >= 2
      BY <1>1, <2>3, <2>4
    <3> QED BY <2>3, <3>1, FieldFacts
  <2>7. p.key = Slice(payload, 3, 3 + len)
    BY <2>2, <2>5 DEF Canonical
  <2> HIDE DEF len
  <2>8. Slice(src, 2, 2 + len) = Slice(payload, 3, 3 + len)
    <3>1. 2 \in Nat /\ 2 + len \in Nat /\ 2 <= 2 + len /\ 2 + len < Len(payload)
      BY <1>1, <2>3, <2>4, <2>6
    <3>2. Slice(From(payload, 1), 2, 2 + len) = Slice(payload, 2 + 1, (2 + len) + 1)
      BY <3>1, SliceFrom
    <3>3. 2 + 1 = 3 /\ (2 + len) + 1 = 3 + len
      BY <2>6
    <3> QED BY <3>2, <3>3
  <2>9. WireKey(src) = Slice(src, 2, 2 + len)
    BY DEF WireKey, len
  <2> HIDE DEF src, p
  <2> QED BY <2>4, <2>7, <2>8, <2>9
<1> QED BY <1>2, <1>3 DEF FlagWritten, KeyWritten

\* Whatever the payload is, deserialize reads a packet from a definite number of
\* its bytes, so a truncated packet is an error; if serialize can have written it,
\* from exactly what serialize writes for the packet; and the packets of the run
\* come back from the wire (protocol.rs, serialize, deserialize).
THEOREM ReadersExact ==
    ASSUME payload \in Seq(Byte), Len(payload) \in Word
    PROVE  PacketsExact
<1>1. ASSUME NEW p \in Samples
      PROVE  LET wire == Encode(p) \o payload
             IN  Deserialize(Slice(wire, 4, 4 + FromBe32(Slice(wire, 0, 4)))) = p
  BY SamplesArePackets, RoundTrip
<1> DEFINE p == Deserialize(payload)
           s == Serialize(p)
<1>2. ASSUME p # Err
      PROVE  \E m \in 1 .. Len(payload) : Takes(m)
  BY <1>2, TakesSome
<1>3. ASSUME p # Err, Canonical
      PROVE  IsPrefix(s, payload) /\ Takes(Len(s))
  <2>1. FlagWritten(payload) /\ KeyWritten(payload)
    BY <1>3, CanonicalWritten
  <2>2. p \in Packet /\ Starts(payload, s)
    BY <1>3, <2>1, ReadIsWritten
  <2> HIDE DEF s
  <2>3. PICK k \in 0 .. Len(payload) : s = Slice(payload, 0, k)
    BY <2>2 DEF Starts
  <2>4. Len(payload) \in Nat /\ k \in Nat
    OBVIOUS
  <2>5. Heads(s, payload, k)
    BY <2>3, HeadFacts
  <2>6. s \in Seq(Byte) /\ Len(s) = k
    BY <2>5 DEF Heads
  <2>7. IsPrefix(s, payload)
    BY <2>3, <2>4, <2>6 DEF IsPrefix, Slice
  <2>8. PICK m \in 1 .. Len(payload) : Takes(m)
    BY <1>2, <1>3
  <2>9. k >= m
    <3>1. Deserialize(s) = p
      <4>1. <<>> \in Seq(Byte) /\ s \o <<>> = s
        BY <2>6, ConcatEmptySeq
      <4> QED BY <2>2, <4>1, WrittenIsRead DEF s
    <3>2. Deserialize(SubSeq(payload, 1, k)) = p
      BY <2>3, <3>1 DEF Slice
    <3>3. Deserialize(SubSeq(payload, 1, k)) = IF k < m THEN Err ELSE p
      BY <2>8 DEF Takes
    <3>4. ~(k < m)
      BY <1>3, <3>2, <3>3
    <3> QED BY <2>4, <3>4
  <2>10. k <= m
    <3> DEFINE t == Slice(payload, 0, m)
    <3>1. Heads(t, payload, m) /\ m \in Nat /\ m \in 0 .. Len(payload) /\ ~(m < m) /\ 1 \in 1 .. m
      BY <2>4, HeadFacts
    <3>2. Deserialize(t) = p
      <4>1. Deserialize(SubSeq(payload, 1, m)) = p
        BY <2>8, <3>1 DEF Takes
      <4> QED BY <4>1 DEF Slice
    <3>3. t \in Seq(Byte) /\ Len(t) = m /\ \A i \in 1 .. m : t[i] = payload[i]
      BY <3>1 DEF Heads
    <3>4. t # <<>> /\ t[1] = payload[1]
      BY <3>1, <3>3
    <3>5. payload # <<>>
      BY <1>3 DEF Deserialize
    <3> DEFINE src == From(payload, 1)
               u == From(t, 1)
    <3>6. u = Slice(src, 0, m - 1) /\ m - 1 \in 0 .. Len(src) /\ src \in Seq(Byte)
      <4>1. src \in Seq(Byte) /\ Len(src) = Len(payload) - 1
        BY <3>5, FromFacts
      <4>2. /\ m - 1 \in Nat /\ m - 1 \in 0 .. Len(src) /\ 0 \in Nat /\ 1 \in Nat /\ 0 <= m - 1
            /\ m - 1 < Len(payload) /\ (m - 1) + 1 = m /\ 1 <= m /\ m <= m
        BY <2>4, <4>1
      <4>3. From(t, 1) = Slice(t, 1, m)
        BY <3>3 DEF From, Slice
      <4>4. Slice(t, 1, m) = Slice(payload, 1, m)
        BY <3>1, <4>2 DEF Heads
      <4>5. Slice(From(payload, 1), 0, m - 1) = Slice(payload, 0 + 1, (m - 1) + 1)
        BY <4>2, SliceFrom
      <4> QED BY <4>1, <4>2, <4>3, <4>4, <4>5
    <3> HIDE DEF t
    <3>7. FlagWritten(t)
      <4>1. ASSUME t[1] = 5, Len(t) >= 10 PROVE t[10] \in {0, 1}
        <5>1. payload[1] = 5 /\ t[10] = payload[10] /\ Len(payload) >= 10
          BY <2>4, <3>1, <3>3, <3>4, <4>1
        <5> QED BY <2>1, <3>5, <5>1 DEF FlagWritten
      <4> QED BY <4>1 DEF FlagWritten
    <3>8. KeyWritten(t)
      <4>1. ASSUME t[1] = 6 PROVE Lossy(WireKey(u)) = WireKey(u)
        <5>1. Deserialize(t) = DeserializeHandshake(u)
          BY <3>4, <4>1, Dispatch
        <5>2. DeserializeHandshake(u) # Err
          BY <1>3, <3>2, <5>1
        <5>3. WireKey(u) = WireKey(src)
          BY <3>6, <5>2, KeyHeads
        <5>4. Lossy(WireKey(src)) = WireKey(src)
          BY <1>3, <2>1, <3>4, <3>5, <4>1 DEF KeyWritten
        <5> QED BY <5>3, <5>4
      <4> QED BY <4>1 DEF KeyWritten
    <3>9. Starts(t, s)
      BY <1>3, <3>2, <3>3, <3>7, <3>8, ReadIsWritten DEF s
    <3>10. PICK j \in 0 .. m : s = Slice(t, 0, j)
      BY <3>3, <3>9 DEF Starts
    <3>11. Heads(s, t, j)
      BY <3>3, <3>10, HeadFacts
    <3> QED BY <2>6, <3>11 DEF Heads
  <2>11. m = k
    BY <2>4, <2>9, <2>10
  <2> QED BY <2>6, <2>7, <2>8, <2>11
<1> QED BY <1>1, <1>2, <1>3 DEF PacketsExact

-----------------------------------------------------------------------------
(* The three clients.                                                        *)

\* What the clients write for a payload differs only where Alike says so.
LEMMA WrittenAlike ==
    ASSUME NEW q \in Seq(Byte), NoWrap(q), NEW gz, NEW memory \in BOOLEAN,
           Len(gz.data) \in Nat
    PROVE  Alike(q, gz, memory)
<1> DEFINE p == Deserialize(q)
<1>1. /\ FrameC(q) = IF p.tag = 5 THEN p ELSE Err
      /\ DeserializePacketCpp(q) = IF p.tag = 6 THEN Err ELSE p
  BY FoundAlike
<1>2. Err.tag = 0
  BY Tags
<1>3. CASE p.tag # 5
  <2>1. RenderRust(q, gz) = Dropped
    BY <1>3 DEF RenderRust
  <2>2. HandleServerPacketCpp(q, gz) = Dropped
    BY <1>1, <1>2, <1>3 DEF HandleServerPacketCpp
  <2>3. ProcessPacketC(q, gz, memory) = Dropped
    BY <1>1, <1>3 DEF ProcessPacketC
  <2> QED BY <2>1, <2>2, <2>3 DEF Alike
<1>4. CASE p.tag = 5
  <2>1. DeserializePacketCpp(q) = p /\ FrameC(q) = p /\ p # Err
    BY <1>1, <1>2, <1>4
  <2>2. Len(p.data) \in Nat
    <3>1. q # <<>> /\ q[1] = 5 /\ p = DeserializeFrame(From(q, 1))
      <4>1. q # <<>>
        BY <2>1 DEF Deserialize
      <4>2. p.tag = q[1]
        BY <2>1, <4>1, TagRead
      <4>3. q[1] = 5
        BY <1>4, <4>2
      <4> QED BY <4>1, <4>3, Dispatch
    <3> DEFINE src == From(q, 1)
               len == FromBe32(Slice(src, 9, 13))
    <3>2. src \in Seq(Byte) /\ Len(src) \in Nat
      BY <3>1, FromFacts
    <3>3. DeserializeFrame(src) # Err
      BY <2>1, <3>1
    <3>4. ~(Len(src) < 13) /\ ~(Len(src) - 13 < len) /\ p.data = Slice(src, 13, 13 + len)
      BY <3>1, <3>3 DEF DeserializeFrame, ServerFrame
    <3>5. len \in Nat
      <4>1. 9 \in Nat /\ 13 \in Nat /\ 9 <= 13 /\ 13 <= Len(src) /\ 13 - 9 >= 4
        BY <3>2, <3>4
      <4> QED BY <3>2, <4>1, FieldFacts
    <3> HIDE DEF src, len
    <3>6. 13 \in Nat /\ 13 + len \in Nat /\ 13 <= 13 + len /\ 13 + len <= Len(src)
      BY <3>2, <3>4, <3>5
    <3>7. Slice(src, 13, 13 + len) \in Seq(Byte)
      <4>1. Field(src, 13, 13 + len)
        BY <3>2, <3>6, IsField
      <4> QED BY <4>1 DEF Field
    <3> QED BY <3>4, <3>7
  <2> HIDE DEF p
  <2>3. RenderRust(q, gz) = IF p.compressed THEN gz ELSE Writes(p.data)
    BY <1>4 DEF RenderRust, p
  <2>4. HandleServerPacketCpp(q, gz)
            = IF p.compressed THEN DecompressFrame(p.data, gz) ELSE Writes(p.data)
    BY <1>4, <2>1 DEF HandleServerPacketCpp
  <2>5. ProcessPacketC(q, gz, memory)
            = IF ~p.compressed THEN Writes(p.data)
              ELSE IF memory THEN DecompressFrame(p.data, gz) ELSE Dropped
    BY <2>1 DEF ProcessPacketC
  <2>6. DecompressFrame(p.data, gz)
            = IF Len(p.data) >= 10 /\ Len(gz.data) <= DecompressRoom THEN gz ELSE Dropped
    <3>1. Len(p.data) < 10 <=> ~(Len(p.data) >= 10)
      BY <2>2
    <3>2. Len(gz.data) > DecompressRoom <=> ~(Len(gz.data) <= DecompressRoom)
      BY RoomAssumption
    <3> QED BY <3>1, <3>2 DEF DecompressFrame
  <2> QED BY <1>4, <2>3, <2>4, <2>5, <2>6 DEF Alike, p
<1> QED BY <1>3, <1>4

\* Whatever the payload is, the C and the C++ client find the packet that the Rust
\* client finds in it, or all of them none, and write the same bytes to the
\* terminal, for it and for the frames of the run, except where Alike says so
\* (protocol.rs, deserialize; client.rs:289; mosh_tcp_client.c, process_packet;
\* mosh_tcp_client.cpp, deserialize_packet and handle_server_packet).
THEOREM ReadersAgree ==
    ASSUME payload \in Seq(Byte), Len(payload) \in Word, NoWrap(payload),
           \A p \in Samples : NoWrap(Serialize(p))
    PROVE  ClientsAgree
<1>1. DeserializePacketCpp(payload)
          = IF Deserialize(payload).tag = 6 THEN Err ELSE Deserialize(payload)
  BY FoundAlike
<1>2. ASSUME NEW q \in {payload} \cup {Serialize(p) : p \in {p \in Samples : p.tag = 5}}
      PROVE  q \in Seq(Byte) /\ NoWrap(q)
  <2>1. CASE q = payload
    BY <2>1
  <2>2. CASE q # payload
    <3>1. PICK p \in Samples : q = Serialize(p)
      BY <1>2, <2>2
    <3>2. p \in Packet
      BY <3>1, SamplesArePackets
    <3>3. <<>> \in Seq(Byte)
      OBVIOUS
    <3> QED BY <3>1, <3>2, <3>3, WrittenIsRead
  <2> QED BY <2>1, <2>2
<1>3. ASSUME NEW gz \in Inflated PROVE Len(gz.data) \in Nat
  BY DEF Inflated, Dropped, Writes
<1>4. ASSUME NEW q \in {payload} \cup {Serialize(p) : p \in {p \in Samples : p.tag = 5}},
             NEW gz \in Inflated, NEW memory \in BOOLEAN
      PROVE  Alike(q, gz, memory)
  BY <1>2, <1>3, WrittenAlike
<1> QED BY <1>1, <1>4 DEF ClientsAgree
=============================================================================
