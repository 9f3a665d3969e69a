---------------------------- MODULE FramingProofs ----------------------------
(***************************************************************************)
(* Proofs about Framing, for every stream of packets, every buffer size and  *)
(* every way TCP cuts the stream.                                           *)
(***************************************************************************)
EXTENDS Framing, TLAPS

(* The reader stands at the start of the packet after the last one it handed   *)
(* on, unless a timeout has made it lose its place.                            *)
AtPacket ==
    ~torn => /\ Len(delivered) <= N
             /\ base = Starts[Len(delivered) + 1]

FramingInv ==
    /\ TypeOK /\ AtPacket /\ IntactUnlessTorn /\ GivesUpOnlyWhenTooBig
    /\ reset => closed

\* At the start of packet k the length decoded is that of packet k.
LEMMA LengthAtPacket ==
    ASSUME NEW k \in 1 .. N
    PROVE  LengthAt(Starts[k]) = Size[k]
<1> DEFINE j == CHOOSE i \in 1 .. N : Starts[i] = Starts[k]
<1>1. j \in 1 .. N /\ Starts[j] = Starts[k]
  OBVIOUS
<1>2. j = k
  <2>1. j \in 1 .. N + 1 /\ k \in 1 .. N + 1
    BY <1>1, FramingAssumption
  <2>2. ~(j < k) /\ ~(k < j)
    <3>1. j < k => Starts[j] < Starts[k]
      BY <2>1, FramingAssumption
    <3>2. k < j => Starts[k] < Starts[j]
      BY <2>1, FramingAssumption
    <3> HIDE DEF j
    <3>3. Starts[j] \in Nat /\ Starts[k] \in Nat
      BY <2>1, FramingAssumption
    <3> QED BY <1>1, <3>1, <3>2, <3>3
  <2> HIDE DEF j
  <2> QED BY <2>1, <2>2, FramingAssumption
<1>3. LengthAt(Starts[k]) = Size[j]
  BY DEF LengthAt
<1> QED BY <1>2, <1>3

\* Stream positions: where packets start and end, and that none starts at Total.
LEMMA Positions ==
    /\ Total \in Nat
    /\ \A k \in 1 .. N + 1 : Starts[k] \in Nat
    /\ \A k \in 1 .. N : /\ Size[k] \in Nat
                         /\ Starts[k + 1] = Starts[k] + Header + Size[k]
                         /\ k + 1 \in 1 .. N + 1 /\ k \in 1 .. N + 1
BY FramingAssumption DEF Total

\* Every length decoded is a natural number.
LEMMA LengthIsNat == \A p : LengthAt(p) \in Nat
BY FramingAssumption DEF LengthAt

\* A reader that holds the header of a packet, at a place where it has not lost
\* the stream, has not yet handed on the last packet.
LEMMA PacketLeft ==
    ASSUME FramingInv, ~torn, taken - base >= Header
    PROVE  /\ Len(delivered) + 1 \in 1 .. N
           /\ LengthAt(base) = Size[Len(delivered) + 1]
           /\ base = Starts[Len(delivered) + 1]
<1> DEFINE n == Len(delivered)
<1>1. n \in Nat /\ n <= N /\ base = Starts[n + 1]
  BY DEF FramingInv, TypeOK, AtPacket
<1>2. taken \in Nat /\ base \in Nat /\ taken <= Total /\ Total \in Nat
  BY Positions DEF FramingInv, TypeOK
<1>3. n # N
  <2> SUFFICES ASSUME n = N PROVE FALSE
    OBVIOUS
  <2>1. base = Total
    BY <1>1 DEF Total
  <2> QED BY <2>1, <1>2, FramingAssumption
<1>4. n + 1 \in 1 .. N
  <2>1. N \in Nat
    BY FramingAssumption
  <2> HIDE DEF n
  <2> QED BY <1>1, <1>3, <2>1
<1> QED BY <1>1, <1>4, LengthAtPacket

\* Handing a packet on keeps the reader at a packet, and what it hands on is
\* the next packet sent.
LEMMA DeliverKeeps ==
    ASSUME FramingInv, ~ended, Deliver(LengthAt(base)),
           taken - base >= Header, base + Header + LengthAt(base) <= taken,
           torn' = torn, ended' = ended, closed' = closed, reset' = reset,
           taken' = taken, sent' = sent, config' = config,
           part' \in {"length", "body"}
    PROVE  FramingInv'
<1> DEFINE n == Len(delivered)
<1> USE DEF FramingInv
<1>1. LengthAt(base) \in Nat
  BY LengthIsNat
<1>2. base \in Nat /\ taken \in Nat /\ n \in Nat /\ Header \in Nat \ {0}
  BY FramingAssumption, Positions DEF TypeOK
<1>3. TypeOK'
  <2>1. Interval(base, LengthAt(base)) \in [from : Nat, to : Nat]
    BY <1>1, <1>2 DEF Interval
  <2>2. delivered' \in Seq([from : Nat, to : Nat])
    BY <2>1 DEF Deliver, TypeOK
  <2>3. base' \in 0 .. taken
    BY <1>1, <1>2 DEF Deliver
  <2> QED BY <2>2, <2>3 DEF TypeOK, config
<1>4. ~torn => /\ n + 1 \in 1 .. N
               /\ base' = Starts[n + 2]
               /\ Interval(base, LengthAt(base)) = PacketAt(n + 1)
  <2> SUFFICES ASSUME ~torn
               PROVE  /\ n + 1 \in 1 .. N
                      /\ base' = Starts[n + 2]
                      /\ Interval(base, LengthAt(base)) = PacketAt(n + 1)
    OBVIOUS
  <2>1. n + 1 \in 1 .. N /\ LengthAt(base) = Size[n + 1] /\ base = Starts[n + 1]
    BY PacketLeft
  <2>2. Starts[(n + 1) + 1] = Starts[n + 1] + Header + Size[n + 1]
    BY <2>1, Positions
  <2> QED BY <1>2, <2>1, <2>2 DEF Deliver, PacketAt
<1>5. /\ Len(delivered') = n + 1
      /\ delivered'[n + 1] = Interval(base, LengthAt(base))
      /\ \A i \in 1 .. n : delivered'[i] = delivered[i]
  BY DEF Deliver, TypeOK
<1>6. AtPacket'
  BY <1>2, <1>4, <1>5 DEF AtPacket
<1>7. IntactUnlessTorn'
  <2> SUFFICES ASSUME ~torn, NEW i \in 1 .. Len(delivered')
               PROVE  i <= N /\ delivered'[i] = PacketAt(i)
    BY DEF IntactUnlessTorn, InOrder, PacketAt, Interval
  <2>1. CASE i = n + 1
    BY <2>1, <1>2, <1>4, <1>5
  <2>2. CASE i \in 1 .. n
    BY <2>2, <1>5 DEF IntactUnlessTorn, InOrder
  <2> QED BY <1>2, <1>5, <2>1, <2>2
<1>8. GivesUpOnlyWhenTooBig'
  BY DEF GivesUpOnlyWhenTooBig
<1> QED BY <1>3, <1>6, <1>7, <1>8

\* A step that hands nothing on and neither moves nor ends the reader.
LEMMA QuietKeeps ==
    ASSUME FramingInv, TypeOK', UNCHANGED <<config, base, delivered, torn, ended>>,
           closed => closed', reset' => closed'
    PROVE  FramingInv'
<1> USE DEF FramingInv, config
<1>1. AtPacket'
  BY DEF AtPacket
<1>2. IntactUnlessTorn'
  BY DEF IntactUnlessTorn, InOrder, PacketAt, Interval
<1>3. GivesUpOnlyWhenTooBig'
  BY DEF GivesUpOnlyWhenTooBig, TooBig
<1> QED BY <1>1, <1>2, <1>3

\* A step by which the reader gives up, for a reason the property allows.
LEMMA EndKeeps ==
    ASSUME FramingInv, ended' = TRUE,
           UNCHANGED <<config, sent, closed, reset, taken, base, part, delivered, torn>>,
           ~closed /\ ~torn => /\ reader = "poll"
                               /\ Len(delivered) < N /\ TooBig(Len(delivered) + 1)
    PROVE  FramingInv'
<1> USE DEF FramingInv, config
<1>1. TypeOK'
  BY DEF TypeOK
<1>2. AtPacket'
  BY DEF AtPacket
<1>3. IntactUnlessTorn'
  BY DEF IntactUnlessTorn, InOrder, PacketAt, Interval
<1>4. GivesUpOnlyWhenTooBig'
  BY DEF GivesUpOnlyWhenTooBig, TooBig
<1> QED BY <1>1, <1>2, <1>3, <1>4

\* Every step preserves the invariant.
LEMMA FramingStep == FramingInv /\ [Next]_vars => FramingInv'
<1> SUFFICES ASSUME FramingInv, [Next]_vars PROVE FramingInv'
  OBVIOUS
<1>0. /\ Header \in Nat \ {0} /\ netBuf \in Nat \ {0}
      /\ base \in Nat /\ taken \in Nat /\ sent \in Nat
      /\ base <= taken /\ taken <= sent /\ sent <= Total /\ Total \in Nat
      /\ LengthAt(base) \in Nat
  BY FramingAssumption, Positions, LengthIsNat DEF FramingInv, TypeOK
<1>1. ASSUME NEW n \in 1 .. Total, Arrive(n) PROVE FramingInv'
  <2>1. TypeOK'
    BY <1>0, <1>1 DEF Arrive, FramingInv, TypeOK, config
  <2> QED BY <1>1, <2>1, QuietKeeps DEF Arrive, FramingInv
<1>2. ASSUME NEW hard \in BOOLEAN, PeerClose(hard) PROVE FramingInv'
  <2>1. TypeOK'
    BY <1>2 DEF PeerClose, FramingInv, TypeOK, config
  <2> QED BY <1>2, <2>1, QuietKeeps DEF PeerClose
<1>3. CASE Decode
  <2>1. taken - base >= Header /\ base + Header + LengthAt(base) <= taken
    BY <1>0, <1>3 DEF Decode, Complete
  <2> QED BY <1>3, <2>1, DeliverKeeps DEF Decode, Buffered, FramingInv, TypeOK
<1>4. CASE StreamEnd
  BY <1>4, EndKeeps DEF StreamEnd
<1>5. CASE BufferFull
  <2>1. taken - base = netBuf /\ ~Complete
    BY <1>5 DEF BufferFull
  <2>2. ASSUME ~torn PROVE Len(delivered) < N /\ TooBig(Len(delivered) + 1)
    <3> DEFINE n == Len(delivered)
    <3>1. n \in Nat /\ n <= N /\ base = Starts[n + 1]
      BY <2>2 DEF FramingInv, TypeOK, AtPacket
    <3>2. n # N
      BY <2>1, <3>1, <1>0 DEF Total
    <3>3. n + 1 \in 1 .. N
      BY <3>1, <3>2, FramingAssumption
    <3>4. LengthAt(base) = Size[n + 1]
      BY <3>1, <3>3, LengthAtPacket
    <3>5. netBuf < Header + Size[n + 1]
      <4>1. Size[n + 1] \in Nat
        BY <3>3, Positions
      <4> QED BY <1>0, <2>1, <3>4, <4>1 DEF Complete
    <3>6. Size[n + 1] \in Nat
      BY <3>3, Positions
    <3> QED BY <1>0, <3>1, <3>2, <3>5, <3>6, FramingAssumption DEF TooBig
  <2> QED BY <1>5, <2>2, EndKeeps DEF BufferFull
<1>6. CASE HangUp
  BY <1>6, EndKeeps DEF HangUp, FramingInv
<1>7. ASSUME NEW n \in 1 .. Total, Fill(n) PROVE FramingInv'
  <2>1. TypeOK'
    BY <1>0, <1>7 DEF Fill, FramingInv, TypeOK, config
  <2> QED BY <1>7, <2>1, QuietKeeps DEF Fill, FramingInv
<1>8. CASE LengthRead
  <2>1. TypeOK'
    BY <1>8 DEF LengthRead, FramingInv, TypeOK, config
  <2> QED BY <1>8, <2>1, QuietKeeps DEF LengthRead, FramingInv
<1>9. CASE BodyRead
  <2>1. taken = base + Header + LengthAt(base)
    BY <1>9 DEF BodyRead, PartEnd
  <2>2. taken - base >= Header /\ base + Header + LengthAt(base) <= taken
    BY <1>0, <2>1
  <2> QED BY <1>9, <2>2, DeliverKeeps DEF BodyRead, Exact
<1>10. CASE BodyRejected
  <2>1. taken = base + Header + LengthAt(base)
    BY <1>10 DEF BodyRejected, PartEnd
  <2>2. taken - base >= Header
    BY <1>0, <2>1
  <2>3. torn
    BY <1>10, <2>2, PacketLeft DEF BodyRejected
  <2> QED BY <1>10, <2>3, EndKeeps DEF BodyRejected
<1>11. CASE Timeout
  <2>1. TypeOK'
    BY <1>0, <1>11 DEF Timeout, FramingInv, TypeOK, config
  <2> QED BY <1>11, <2>1
        DEF Timeout, FramingInv, AtPacket, IntactUnlessTorn, GivesUpOnlyWhenTooBig
<1>12. CASE UnexpectedEof
  BY <1>12, EndKeeps DEF UnexpectedEof
<1>13. ASSUME NEW n \in 1 .. Total, ReadSome(n) PROVE FramingInv'
  <2>1. TypeOK'
    BY <1>0, <1>13 DEF ReadSome, FramingInv, TypeOK, config
  <2> QED BY <1>13, <2>1, QuietKeeps DEF ReadSome, FramingInv
<1>14. CASE UNCHANGED vars
  <2>1. TypeOK'
    BY <1>14 DEF vars, FramingInv, TypeOK, config
  <2> QED BY <1>14, <2>1, QuietKeeps DEF vars, FramingInv
<1> QED BY <1>1, <1>2, <1>3, <1>4, <1>5, <1>6, <1>7, <1>8, <1>9, <1>10, <1>11,
           <1>12, <1>13, <1>14 DEF Next, Network, BufferedReader, ExactReader

\* The readers start at the first packet.
LEMMA FramingInit == Init => FramingInv
<1> SUFFICES ASSUME Init PROVE FramingInv
  OBVIOUS
<1>1. TypeOK
  <2>1. sent \in 0 .. Total /\ taken \in 0 .. sent /\ base \in 0 .. taken
    BY Positions DEF Init
  <2>2. delivered \in Seq([from : Nat, to : Nat])
    BY DEF Init
  <2> QED BY <2>1, <2>2 DEF Init, TypeOK
<1>2. AtPacket
  BY FramingAssumption DEF Init, AtPacket
<1>3. IntactUnlessTorn /\ GivesUpOnlyWhenTooBig /\ (reset => closed)
  BY DEF Init, IntactUnlessTorn, InOrder, GivesUpOnlyWhenTooBig
<1> QED BY <1>1, <1>2, <1>3 DEF FramingInv

\* The readers' place in the stream is a packet boundary for ever, unless a
\* timeout tears a packet.
THEOREM FramingInvariant == Spec => []FramingInv
BY FramingInit, FramingStep, PTL DEF Spec

\* Every reader holds a stretch of what has arrived: it takes a packet out only
\* once its last byte is there, and never more than was sent.
THEOREM FramingTypes == Spec => []TypeOK
<1>1. FramingInv => TypeOK
  BY DEF FramingInv
<1> QED BY <1>1, FramingInvariant, PTL

\* Whatever pieces TCP delivers, the packets handed on are the packets sent, in
\* order and whole (PacketCodec::decode, the C and C++ loops; read_packet as
\* long as no timeout strikes inside a packet).
THEOREM Intact == Spec => []IntactUnlessTorn
<1>1. FramingInv => IntactUnlessTorn
  BY DEF FramingInv
<1> QED BY <1>1, FramingInvariant, PTL

\* For every BUFFER_SIZE, the C and C++ clients leave a live connection only at a
\* packet larger than the buffer; the other readers never do.
THEOREM GivesUp == Spec => []GivesUpOnlyWhenTooBig
<1>1. FramingInv => GivesUpOnlyWhenTooBig
  BY DEF FramingInv
<1> QED BY <1>1, FramingInvariant, PTL
=============================================================================
