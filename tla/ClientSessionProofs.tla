------------------------- MODULE ClientSessionProofs -------------------------
(***************************************************************************)
(* Proofs about ClientSession: the keystrokes and window sizes between the   *)
(* keyboard and the PTY, for any number of keystrokes and size changes and   *)
(* any capacity of the sockets and the PTY.                                 *)
(***************************************************************************)
EXTENDS ClientSession, SequenceTheorems, TLAPS

(* Where the threads are.  The Rust client has no poll loop, the others have   *)
(* neither a sender nor a channel, and nothing is under way before the         *)
(* handshake.                                                                  *)
Places ==
    /\ client = "rust" =>
          /\ inPc \in {"hello", "greet", "spawn", "top", "read", "done"}
          /\ sendPc \in {"off", "top", "recv", "write", "done"}
          /\ inPc \in {"hello", "greet", "spawn"} => sendPc = "off" /\ queue = <<>>
    /\ client = "poll" =>
          /\ inPc \in {"hello", "greet", "top", "ioctl", "poll", "write"}
          /\ sendPc \in {"off", "eof"}
          /\ queue = <<>>
    /\ inPc \in {"hello", "greet"} => sock = <<>> /\ srvSize = -1

IsSize(p) == p.kind = "size"

(* The sizes of s lie between lo and hi and never get older.                   *)
Rising(s, lo, hi) ==
    \A i \in 1 .. Len(s) :
        IsSize(s[i]) =>
            /\ lo <= s[i].size /\ s[i].size <= hi
            /\ \A j \in 1 .. i : IsSize(s[j]) => s[j].size <= s[i].size

(* No keystroke of s lies behind n.                                            *)
UpTo(s, n) == \A i \in 1 .. Len(s) : IsKeys(s[i]) => s[i].to <= n

(* What is under way, as long as the connection is open.                       *)
PipeInv ==
    srvOpen =>
        /\ Gapless(Pipeline, got) /\ UpTo(Pipeline, taken)
        /\ EndsAt(Pipeline, Len(Pipeline) + 1, got, taken)
        /\ Rising(Pipeline, srvSize, window)

ClientInv == TypeOK /\ Places /\ PipeInv

-----------------------------------------------------------------------------
(* Sequences of packets.                                                     *)

\* Packets are not the mark of an empty hand, and their numbers are numbers.
LEMMA PacketFacts ==
    ASSUME NEW p \in Packet
    PROVE  /\ p # NoPacket
           /\ IsKeys(p) => p.from \in Nat /\ p.to \in Nat /\ ~IsSize(p)
           /\ IsSize(p) => p.size \in Nat /\ ~IsKeys(p)
BY DEF Packet, NoPacket, Eot, IsKeys, IsSize

\* The packets that the clients make.
LEMMA PacketsMade ==
    ASSUME NEW a \in Nat, NEW b \in Nat
    PROVE  /\ Keys(a, b) \in Packet /\ IsKeys(Keys(a, b)) /\ ~IsSize(Keys(a, b))
           /\ Keys(a, b).from = a /\ Keys(a, b).to = b
           /\ Size(a) \in Packet /\ IsSize(Size(a)) /\ ~IsKeys(Size(a)) /\ Size(a).size = a
           /\ Eot \in Packet /\ ~IsKeys(Eot) /\ ~IsSize(Eot)
BY DEF Packet, Keys, Size, Eot, IsKeys, IsSize

\* Where keystrokes end depends on the packets before that place only.
LEMMA EndsPrefix ==
    ASSUME NEW s, NEW t, NEW i \in Nat, NEW lo, NEW n, EndsAt(s, i, lo, n),
           \A j \in 1 .. i - 1 : t[j] = s[j]
    PROVE  EndsAt(t, i, lo, n)
<1>1. CASE n = lo /\ \A j \in 1 .. i - 1 : ~IsKeys(s[j])
  BY <1>1 DEF EndsAt
<1>2. CASE \E j \in 1 .. i - 1 : /\ IsKeys(s[j]) /\ n = s[j].to
                                 /\ \A k \in j + 1 .. i - 1 : ~IsKeys(s[k])
  <2>1. PICK j \in 1 .. i - 1 : /\ IsKeys(s[j]) /\ n = s[j].to
                                /\ \A k \in j + 1 .. i - 1 : ~IsKeys(s[k])
    BY <1>2
  <2>2. \A k \in j + 1 .. i - 1 : k \in 1 .. i - 1
    BY <2>1
  <2>3. IsKeys(t[j]) /\ n = t[j].to /\ \A k \in j + 1 .. i - 1 : ~IsKeys(t[k])
    BY <2>1, <2>2
  <2> QED BY <2>3 DEF EndsAt
<1> QED BY <1>1, <1>2 DEF EndsAt

\* One more packet at the end: keystrokes have to go on where they ended.
LEMMA GrowKeys ==
    ASSUME NEW s \in Seq(Packet), NEW p \in Packet, NEW lo \in Nat, NEW hi \in Nat,
           NEW end \in Nat,
           Gapless(s, lo), UpTo(s, hi), EndsAt(s, Len(s) + 1, lo, hi),
           IF IsKeys(p) THEN p.from = hi /\ p.to = end /\ hi < end ELSE end = hi
    PROVE  LET t == Append(s, p)
           IN  Gapless(t, lo) /\ UpTo(t, end) /\ EndsAt(t, Len(t) + 1, lo, end)
<1> DEFINE t == Append(s, p)
           L == Len(s)
<1>1. /\ L \in Nat /\ Len(t) = L + 1 /\ t[L + 1] = p
      /\ \A i \in 1 .. L : t[i] = s[i] /\ s[i] \in Packet
  OBVIOUS
<1> HIDE DEF t, L
<1>2. EndsAt(t, L + 1, lo, hi)
  <2>1. EndsAt(s, L + 1, lo, hi) /\ \A j \in 1 .. (L + 1) - 1 : t[j] = s[j]
    BY <1>1 DEF L
  <2> QED BY <1>1, <2>1, EndsPrefix
<1>3. Gapless(t, lo)
  <2> SUFFICES ASSUME NEW i \in 1 .. Len(t), IsKeys(t[i])
               PROVE  EndsAt(t, i, lo, t[i].from) /\ t[i].from < t[i].to
    BY DEF Gapless
  <2>1. CASE i \in 1 .. L
    <3>1. EndsAt(s, i, lo, s[i].from) /\ s[i].from < s[i].to /\ t[i] = s[i]
      BY <1>1, <2>1 DEF Gapless, L
    <3>2. \A j \in 1 .. i - 1 : t[j] = s[j]
      BY <1>1, <2>1
    <3>3. EndsAt(t, i, lo, s[i].from)
      BY <2>1, <3>1, <3>2, EndsPrefix
    <3> QED BY <3>1, <3>3
  <2>2. CASE i = L + 1
    BY <1>1, <1>2, <2>2
  <2> QED BY <1>1, <2>1, <2>2
<1>4. UpTo(t, end)
  <2> SUFFICES ASSUME NEW i \in 1 .. Len(t), IsKeys(t[i]) PROVE t[i].to <= end
    BY DEF UpTo
  <2>1. CASE i \in 1 .. L
    <3>1. s[i].to <= hi /\ s[i].to \in Nat /\ t[i] = s[i]
      BY <1>1, <2>1, PacketFacts DEF UpTo, L
    <3> QED BY <3>1
  <2>2. CASE i = L + 1
    BY <1>1, <2>2
  <2> QED BY <1>1, <2>1, <2>2
<1>5. EndsAt(t, Len(t) + 1, lo, end)
  <2>1. CASE IsKeys(p)
    <3>1. L + 1 \in 1 .. (L + 2) - 1 /\ \A k \in (L + 1) + 1 .. (L + 2) - 1 : ~IsKeys(t[k])
      BY <1>1
    <3>2. IsKeys(t[L + 1]) /\ end = t[L + 1].to
      BY <1>1, <2>1
    <3>3. Len(t) + 1 = L + 2
      BY <1>1
    <3> QED BY <3>1, <3>2, <3>3 DEF EndsAt
  <2>2. CASE ~IsKeys(p)
    <3>1. CASE hi = lo /\ \A j \in 1 .. (L + 1) - 1 : ~IsKeys(t[j])
      <4>1. \A j \in 1 .. (Len(t) + 1) - 1 : ~IsKeys(t[j])
        BY <1>1, <2>2, <3>1
      <4> QED BY <2>2, <3>1, <4>1 DEF EndsAt
    <3>2. CASE \E j \in 1 .. (L + 1) - 1 :
                   /\ IsKeys(t[j]) /\ hi = t[j].to
                   /\ \A k \in j + 1 .. (L + 1) - 1 : ~IsKeys(t[k])
      <4>1. PICK j \in 1 .. (L + 1) - 1 :
                   /\ IsKeys(t[j]) /\ hi = t[j].to
                   /\ \A k \in j + 1 .. (L + 1) - 1 : ~IsKeys(t[k])
        BY <3>2
      <4>2. /\ j \in 1 .. (Len(t) + 1) - 1
            /\ \A k \in j + 1 .. (Len(t) + 1) - 1 : ~IsKeys(t[k])
        BY <1>1, <2>2, <4>1
      <4> QED BY <2>2, <4>1, <4>2 DEF EndsAt
    <3> QED BY <1>2, <3>1, <3>2 DEF EndsAt
  <2> QED BY <2>1, <2>2
<1> QED BY <1>3, <1>4, <1>5 DEF t

\* One more packet at the end: a size has to be as new as all before it.
LEMMA GrowSizes ==
    ASSUME NEW s \in Seq(Packet), NEW p \in Packet, NEW lo \in Int, NEW m \in Nat,
           NEW hi \in Nat, m <= hi,
           Rising(s, lo, m), IsSize(p) => p.size = m /\ lo <= m
    PROVE  Rising(Append(s, p), lo, hi)
<1> DEFINE t == Append(s, p)
           L == Len(s)
<1>1. /\ L \in Nat /\ Len(t) = L + 1 /\ t[L + 1] = p
      /\ \A i \in 1 .. L : t[i] = s[i] /\ s[i] \in Packet
  OBVIOUS
<1> HIDE DEF t, L
<1>2. ASSUME NEW i \in 1 .. L + 1, IsSize(t[i])
      PROVE  /\ lo <= t[i].size /\ t[i].size <= hi
             /\ \A j \in 1 .. i : IsSize(t[j]) => t[j].size <= t[i].size
  <2>1. CASE i \in 1 .. L
    <3>1. /\ lo <= s[i].size /\ s[i].size <= m
          /\ \A j \in 1 .. i : IsSize(s[j]) => s[j].size <= s[i].size
      BY <1>1, <1>2, <2>1 DEF Rising, L
    <3>2. s[i].size \in Nat /\ t[i] = s[i]
      BY <1>1, <1>2, <2>1, PacketFacts
    <3> QED BY <1>1, <2>1, <3>1, <3>2
  <2>2. CASE i = L + 1
    <3>1. t[i].size = m /\ lo <= m
      BY <1>1, <1>2, <2>2
    <3>2. ASSUME NEW j \in 1 .. i, IsSize(t[j]) PROVE t[j].size <= m
      BY <1>1, <2>2, <3>1, <3>2 DEF Rising, L
    <3> QED BY <3>1, <3>2
  <2> QED BY <1>1, <2>1, <2>2
<1> QED BY <1>1, <1>2 DEF Rising, t

\* The first packet leaves.
LEMMA ShrinkKeys ==
    ASSUME NEW s \in Seq(Packet), s # <<>>, NEW lo \in Nat, NEW hi \in Nat,
           NEW new \in Nat, new = IF IsKeys(Head(s)) THEN Head(s).to ELSE lo,
           Gapless(s, lo), UpTo(s, hi), EndsAt(s, Len(s) + 1, lo, hi)
    PROVE  LET t == Tail(s)
           IN  /\ Gapless(t, new) /\ UpTo(t, hi) /\ EndsAt(t, Len(t) + 1, new, hi)
               /\ IsKeys(Head(s)) => Head(s).from = lo /\ lo < new /\ new <= hi
<1> DEFINE t == Tail(s)
           L == Len(t)
<1>1. /\ L \in Nat /\ Len(s) = L + 1 /\ s[1] = Head(s)
      /\ \A i \in 1 .. L : t[i] = s[i + 1]
  OBVIOUS
<1> HIDE DEF t, L
<1>2. ASSUME NEW i \in 1 .. L + 1, NEW n, EndsAt(s, i + 1, lo, n)
      PROVE  EndsAt(t, i, new, n)
  <2>1. CASE n = lo /\ \A j \in 1 .. (i + 1) - 1 : ~IsKeys(s[j])
    <3>1. new = lo
      BY <1>1, <2>1
    <3>2. \A j \in 1 .. i - 1 : ~IsKeys(t[j])
      BY <1>1, <2>1
    <3> QED BY <2>1, <3>1, <3>2 DEF EndsAt
  <2>2. CASE \E j \in 1 .. (i + 1) - 1 :
                 /\ IsKeys(s[j]) /\ n = s[j].to
                 /\ \A k \in j + 1 .. (i + 1) - 1 : ~IsKeys(s[k])
    <3>1. PICK j \in 1 .. (i + 1) - 1 :
                 /\ IsKeys(s[j]) /\ n = s[j].to
                 /\ \A k \in j + 1 .. (i + 1) - 1 : ~IsKeys(s[k])
      BY <2>2
    <3>2. CASE j = 1
      <4>1. n = new
        BY <1>1, <3>1, <3>2
      <4>2. \A k \in 1 .. i - 1 : ~IsKeys(t[k])
        BY <1>1, <3>1, <3>2
      <4> QED BY <4>1, <4>2 DEF EndsAt
    <3>3. CASE j # 1
      <4>1. j - 1 \in 1 .. i - 1 /\ t[j - 1] = s[j]
        BY <1>1, <3>1, <3>3
      <4>2. \A k \in (j - 1) + 1 .. i - 1 : ~IsKeys(t[k])
        BY <1>1, <3>1, <3>3
      <4> QED BY <3>1, <4>1, <4>2 DEF EndsAt
    <3> QED BY <3>2, <3>3
  <2> QED BY <1>2, <2>1, <2>2 DEF EndsAt
<1>3. Gapless(t, new)
  <2> SUFFICES ASSUME NEW i \in 1 .. L, IsKeys(t[i])
               PROVE  EndsAt(t, i, new, t[i].from) /\ t[i].from < t[i].to
    BY DEF Gapless, L
  <2>1. i + 1 \in 1 .. Len(s) /\ t[i] = s[i + 1] /\ i \in 1 .. L + 1
    BY <1>1
  <2>2. EndsAt(s, i + 1, lo, s[i + 1].from) /\ s[i + 1].from < s[i + 1].to
    BY <2>1 DEF Gapless
  <2> QED BY <1>2, <2>1, <2>2
<1>4. UpTo(t, hi)
  BY <1>1 DEF UpTo, L
<1>5. EndsAt(t, L + 1, new, hi)
  <2>1. EndsAt(s, (L + 1) + 1, lo, hi) /\ L + 1 \in 1 .. L + 1
    BY <1>1
  <2> QED BY <1>2, <2>1
<1>6. ASSUME IsKeys(Head(s)) PROVE Head(s).from = lo /\ lo < new /\ new <= hi
  <2>1. 1 \in 1 .. Len(s) /\ IsKeys(s[1]) /\ new = s[1].to
    BY <1>1, <1>6
  <2>2. EndsAt(s, 1, lo, s[1].from) /\ s[1].from < s[1].to
    BY <2>1 DEF Gapless
  <2>3. s[1].from = lo
    BY <2>2 DEF EndsAt
  <2> QED BY <1>1, <2>1, <2>2, <2>3 DEF UpTo
<1> QED BY <1>3, <1>4, <1>5, <1>6 DEF t, L

\* The first packet leaves: the sizes behind it are as new as it is.
LEMMA ShrinkSizes ==
    ASSUME NEW s \in Seq(Packet), s # <<>>, NEW lo \in Int, NEW hi \in Nat,
           NEW new \in Int, new = IF IsSize(Head(s)) THEN Head(s).size ELSE lo,
           Rising(s, lo, hi)
    PROVE  Rising(Tail(s), new, hi) /\ lo <= new /\ (IsSize(Head(s)) => new <= hi)
<1> DEFINE t == Tail(s)
           L == Len(t)
<1>1. /\ L \in Nat /\ Len(s) = L + 1 /\ s[1] = Head(s)
      /\ \A i \in 1 .. L : t[i] = s[i + 1]
  OBVIOUS
<1> HIDE DEF t, L
<1>2. lo <= new /\ (IsSize(Head(s)) => new <= hi)
  <2>1. 1 \in 1 .. Len(s)
    BY <1>1
  <2> QED BY <1>1, <2>1 DEF Rising
<1>3. ASSUME NEW i \in 1 .. L, IsSize(t[i])
      PROVE  /\ new <= t[i].size /\ t[i].size <= hi
             /\ \A j \in 1 .. i : IsSize(t[j]) => t[j].size <= t[i].size
  <2>1. i + 1 \in 1 .. Len(s) /\ t[i] = s[i + 1] /\ 1 \in 1 .. i + 1
    BY <1>1
  <2>2. /\ lo <= s[i + 1].size /\ s[i + 1].size <= hi
        /\ \A j \in 1 .. i + 1 : IsSize(s[j]) => s[j].size <= s[i + 1].size
    BY <1>3, <2>1 DEF Rising
  <2>3. new <= t[i].size
    BY <1>1, <2>1, <2>2
  <2>4. ASSUME NEW j \in 1 .. i, IsSize(t[j]) PROVE t[j].size <= t[i].size
    <3>1. j + 1 \in 1 .. i + 1 /\ t[j] = s[j + 1]
      BY <1>1
    <3> QED BY <2>1, <2>2, <2>4, <3>1
  <2> QED BY <2>1, <2>2, <2>3, <2>4
<1> QED BY <1>2, <1>3 DEF Rising, t, L

-----------------------------------------------------------------------------
(* The pipeline, and the ways in which it changes.                           *)

\* A sequence is its head followed by its tail.
LEMMA HeadThenTail ==
    ASSUME NEW S, NEW s \in Seq(S), s # <<>>
    PROVE  <<Head(s)>> \o Tail(s) = s
<1>1. /\ Head(s) \in S /\ Tail(s) \in Seq(S) /\ <<Head(s)>> \in Seq(S)
      /\ Len(<<Head(s)>>) = 1
  OBVIOUS
<1> DEFINE t == <<Head(s)>> \o Tail(s)
<1>2. t \in Seq(S) /\ Len(t) = Len(s) /\ \A i \in 1 .. Len(t) : t[i] = s[i]
  BY <1>1
<1> HIDE DEF t
<1>3. t = s
  BY <1>2, SeqEqual
<1> QED BY <1>3 DEF t

\* The head of a concatenation leaves its first part.
LEMMA TailOfConcat ==
    ASSUME NEW S, NEW s \in Seq(S), NEW u \in Seq(S), s # <<>>
    PROVE  /\ s \o u \in Seq(S) /\ s \o u # <<>>
           /\ Head(s \o u) = Head(s) /\ Tail(s \o u) = Tail(s) \o u
<1>1. /\ s \o u \in Seq(S) /\ Len(s \o u) = Len(s) + Len(u) /\ Len(s) \in Nat \ {0}
      /\ Len(u) \in Nat
      /\ \A i \in 1 .. Len(s) + Len(u) : (s \o u)[i] = IF i <= Len(s) THEN s[i]
                                                       ELSE u[i - Len(s)]
  BY ConcatProperties, EmptySeq
<1>2. s \o u # <<>> /\ Head(s \o u) = Head(s)
  BY <1>1
<1>3. Tail(s) \in Seq(S) /\ Tail(s) \o u \in Seq(S) /\ Tail(s \o u) \in Seq(S)
  BY <1>1, <1>2
<1>4. /\ Len(Tail(s)) = Len(s) - 1
      /\ Len(Tail(s) \o u) = (Len(s) - 1) + Len(u)
      /\ Len(Tail(s \o u)) = (Len(s) - 1) + Len(u)
  BY <1>1, <1>2, <1>3
<1>5. ASSUME NEW i \in 1 .. (Len(s) - 1) + Len(u)
      PROVE  Tail(s \o u)[i] = (Tail(s) \o u)[i]
  <2>1. Tail(s \o u)[i] = (s \o u)[i + 1]
    BY <1>1, <1>2, <1>4
  <2>2. (s \o u)[i + 1] = IF i + 1 <= Len(s) THEN s[i + 1] ELSE u[(i + 1) - Len(s)]
    BY <1>1
  <2>3. (Tail(s) \o u)[i] = IF i <= Len(Tail(s)) THEN Tail(s)[i] ELSE u[i - Len(Tail(s))]
    BY <1>3, <1>4, ConcatProperties
  <2>4. i <= Len(s) - 1 => Tail(s)[i] = s[i + 1]
    BY <1>1, <1>4
  <2>5. i - Len(Tail(s)) = (i + 1) - Len(s)
    BY <1>1, <1>4
  <2> QED BY <1>1, <1>4, <2>1, <2>2, <2>3, <2>4, <2>5
<1>6. Tail(s \o u) = Tail(s) \o u
  BY <1>3, <1>4, <1>5, SeqEqual
<1> QED BY <1>1, <1>2, <1>6

Held == IF hold = NoPacket THEN <<>> ELSE <<hold>>

PipeTypes ==
    sock \in Seq(Packet) /\ queue \in Seq(Packet) /\ hold \in Packet \cup {NoPacket}

\* The pipeline is a sequence of packets.
LEMMA PipeType ==
    ASSUME PipeTypes
    PROVE  /\ Held \in Seq(Packet) /\ sock \o Held \in Seq(Packet)
           /\ Pipeline = (sock \o Held) \o queue /\ Pipeline \in Seq(Packet)
           /\ hold = NoPacket => sock \o Held = sock
<1>1. Held \in Seq(Packet)
  BY DEF PipeTypes, Held
<1>2. sock \o Held \in Seq(Packet)
  BY <1>1 DEF PipeTypes
<1>3. Pipeline = (sock \o Held) \o queue
  BY DEF Pipeline, Held
<1>4. hold = NoPacket => sock \o Held = sock
  BY ConcatEmptySeq DEF Held, PipeTypes
<1> QED BY <1>1, <1>2, <1>3, <1>4 DEF PipeTypes

\* A packet put in the channel is the last of the pipeline.
LEMMA PipeQueued ==
    ASSUME PipeTypes, NEW p \in Packet, queue' = Append(queue, p),
           UNCHANGED <<sock, hold>>
    PROVE  Pipeline' = Append(Pipeline, p)
<1> DEFINE front == sock \o Held
<1>1. front \in Seq(Packet) /\ queue \in Seq(Packet) /\ <<p>> \in Seq(Packet)
  BY PipeType DEF PipeTypes
<1>2. Pipeline' = front \o queue' /\ Pipeline = front \o queue
  BY DEF Pipeline, Held
<1> HIDE DEF front
<1>3. queue' = queue \o <<p>>
  BY <1>1, AppendIsConcat
<1>4. Pipeline' = (front \o queue) \o <<p>>
  BY <1>1, <1>2, <1>3, ConcatAssociative
<1>5. front \o queue \in Seq(Packet)
  BY <1>1
<1> QED BY <1>2, <1>4, <1>5, AppendIsConcat

\* So is a packet taken in hand by a client without a channel.
LEMMA PipeInHand ==
    ASSUME PipeTypes, hold = NoPacket, NEW p \in Packet, hold' = p,
           queue = <<>>, UNCHANGED <<sock, queue>>
    PROVE  Pipeline' = Append(Pipeline, p)
<1>1. p # NoPacket
  BY PacketFacts
<1>2. Pipeline' = (sock \o <<p>>) \o <<>>
  BY <1>1 DEF Pipeline
<1>3. Pipeline = sock
  <2>1. Pipeline = sock \o queue
    BY PipeType
  <2> QED BY <2>1, ConcatEmptySeq DEF PipeTypes
<1>4. sock \o <<p>> = Append(sock, p) /\ Append(sock, p) \in Seq(Packet)
  BY AppendIsConcat DEF PipeTypes
<1> QED BY <1>2, <1>3, <1>4, ConcatEmptySeq

\* The handshake is the first packet of the pipeline.
LEMMA PipeGreeted ==
    ASSUME PipeTypes, hold = NoPacket, queue = <<>>, NEW p \in Packet,
           sock' = Append(sock, p), UNCHANGED <<hold, queue>>
    PROVE  Pipeline' = Append(Pipeline, p)
<1>1. Pipeline = sock \o <<>> /\ sock \in Seq(Packet)
  BY PipeType DEF PipeTypes
<1>2. Pipeline' = (Append(sock, p) \o <<>>) \o <<>> /\ Append(sock, p) \in Seq(Packet)
  BY DEF Pipeline, PipeTypes
<1> QED BY <1>1, <1>2, ConcatEmptySeq

\* Taking a packet from the channel, or writing it, moves it along the pipeline.
LEMMA PipeMoves ==
    ASSUME PipeTypes,
           \/ /\ hold = NoPacket /\ queue # <<>> /\ sock' = sock
              /\ hold' = Head(queue) /\ queue' = Tail(queue)
           \/ /\ hold # NoPacket /\ hold' = NoPacket
              /\ sock' = Append(sock, hold) /\ queue' = queue
    PROVE  Pipeline' = Pipeline
<1>1. CASE /\ hold = NoPacket /\ queue # <<>> /\ sock' = sock
           /\ hold' = Head(queue) /\ queue' = Tail(queue)
  <2>1. Head(queue) \in Packet /\ Tail(queue) \in Seq(Packet) /\ <<Head(queue)>> \in Seq(Packet)
    BY <1>1 DEF PipeTypes
  <2>2. Pipeline' = (sock \o <<Head(queue)>>) \o Tail(queue)
    BY <1>1, <2>1, PacketFacts DEF Pipeline
  <2>3. Pipeline' = sock \o (<<Head(queue)>> \o Tail(queue))
    BY <2>1, <2>2, ConcatAssociative DEF PipeTypes
  <2>4. Pipeline' = sock \o queue
    BY <1>1, <2>3, HeadThenTail DEF PipeTypes
  <2> QED BY <1>1, <2>4, PipeType
<1>2. CASE /\ hold # NoPacket /\ hold' = NoPacket
           /\ sock' = Append(sock, hold) /\ queue' = queue
  <2>1. hold \in Packet /\ sock \in Seq(Packet)
    BY <1>2 DEF PipeTypes
  <2>2. Append(sock, hold) = sock \o <<hold>> /\ Append(sock, hold) \in Seq(Packet)
    BY <2>1, AppendIsConcat
  <2>3. Pipeline' = (Append(sock, hold) \o <<>>) \o queue
    BY <1>2 DEF Pipeline
  <2>4. Pipeline = (sock \o <<hold>>) \o queue
    BY <1>2 DEF Pipeline
  <2> QED BY <2>2, <2>3, <2>4, ConcatEmptySeq
<1> QED BY <1>1, <1>2

\* The server takes the first packet of the pipeline.
LEMMA PipeTaken ==
    ASSUME PipeTypes, sock # <<>>, sock' = Tail(sock), UNCHANGED <<hold, queue>>
    PROVE  /\ Pipeline # <<>> /\ Head(Pipeline) = Head(sock)
           /\ Pipeline' = Tail(Pipeline)
<1>1. Held \in Seq(Packet) /\ sock \in Seq(Packet) /\ queue \in Seq(Packet)
  BY PipeType DEF PipeTypes
<1>2. /\ sock \o Held \in Seq(Packet) /\ sock \o Held # <<>>
      /\ Head(sock \o Held) = Head(sock) /\ Tail(sock \o Held) = Tail(sock) \o Held
  BY <1>1, TailOfConcat
<1>3. Pipeline = (sock \o Held) \o queue /\ Pipeline' = (Tail(sock) \o Held) \o queue
  BY DEF Pipeline, Held
<1>4. /\ (sock \o Held) \o queue # <<>>
      /\ Head((sock \o Held) \o queue) = Head(sock \o Held)
      /\ Tail((sock \o Held) \o queue) = Tail(sock \o Held) \o queue
  BY <1>1, <1>2, TailOfConcat
<1> QED BY <1>2, <1>3, <1>4

\* Nothing is added or taken, or the connection closes.
LEMMA InvKept ==
    ASSUME TypeOK, PipeInv, srvOpen' => srvOpen /\ Pipeline' = Pipeline,
           UNCHANGED <<got, taken, srvSize>>, window' \in Nat, window <= window'
    PROVE  PipeInv'
<1> SUFFICES ASSUME srvOpen' PROVE PipeInv'
  BY DEF PipeInv
<1>1. /\ Pipeline' = Pipeline /\ Gapless(Pipeline, got) /\ UpTo(Pipeline, taken)
      /\ EndsAt(Pipeline, Len(Pipeline) + 1, got, taken)
      /\ Rising(Pipeline, srvSize, window)
  BY DEF PipeInv
<1>2. Pipeline \in Seq(Packet) /\ window \in Nat
  BY PipeType DEF PipeTypes, TypeOK
<1>3. ASSUME NEW i \in 1 .. Len(Pipeline), IsSize(Pipeline[i])
      PROVE  Pipeline[i].size <= window'
  <2>1. Pipeline[i].size \in Nat /\ Pipeline[i].size <= window
    BY <1>1, <1>2, <1>3, PacketFacts DEF Rising
  <2> QED BY <1>2, <2>1
<1>4. Rising(Pipeline, srvSize, window')
  BY <1>1, <1>3 DEF Rising
<1> QED BY <1>1, <1>4 DEF PipeInv

\* A packet is added at the keyboard's end.
LEMMA InvGrows ==
    ASSUME TypeOK, PipeInv, NEW p \in Packet, Pipeline' = Append(Pipeline, p),
           UNCHANGED <<got, srvSize, srvOpen, window>>, taken' \in Nat,
           IF IsKeys(p) THEN p.from = taken /\ p.to = taken' /\ taken < taken'
           ELSE taken' = taken,
           NEW m \in Nat, m <= window, srvOpen => Rising(Pipeline, srvSize, m),
           IsSize(p) => p.size = m /\ srvSize <= m
    PROVE  PipeInv'
<1> SUFFICES ASSUME srvOpen PROVE PipeInv'
  BY DEF PipeInv
<1>1. /\ Gapless(Pipeline, got) /\ UpTo(Pipeline, taken)
      /\ EndsAt(Pipeline, Len(Pipeline) + 1, got, taken)
      /\ Rising(Pipeline, srvSize, m)
  BY DEF PipeInv
<1>2. /\ Pipeline \in Seq(Packet) /\ window \in Nat /\ got \in Nat /\ taken \in Nat
      /\ srvSize \in Int
  BY PipeType, SessionAssumption DEF PipeTypes, TypeOK
<1>3. /\ Gapless(Append(Pipeline, p), got) /\ UpTo(Append(Pipeline, p), taken')
      /\ EndsAt(Append(Pipeline, p), Len(Append(Pipeline, p)) + 1, got, taken')
  BY <1>1, <1>2, GrowKeys
<1>4. Rising(Append(Pipeline, p), srvSize, window)
  BY <1>1, <1>2, GrowSizes
<1> QED BY <1>3, <1>4 DEF PipeInv

\* The server takes a packet: it sets the size, or passes the keystrokes on.
LEMMA InvShrinks ==
    ASSUME TypeOK, PipeInv, srvOpen, Pipeline # <<>>, Pipeline' = Tail(Pipeline),
           UNCHANGED <<taken, srvOpen, window>>,
           got' = IF IsKeys(Head(Pipeline)) THEN Head(Pipeline).to ELSE got,
           srvSize' = IF IsSize(Head(Pipeline)) THEN Head(Pipeline).size ELSE srvSize
    PROVE  /\ PipeInv' /\ got' \in got .. taken
           /\ srvSize <= srvSize' /\ srvSize' \in -1 .. window
<1>1. /\ Gapless(Pipeline, got) /\ UpTo(Pipeline, taken)
      /\ EndsAt(Pipeline, Len(Pipeline) + 1, got, taken)
      /\ Rising(Pipeline, srvSize, window)
  BY DEF PipeInv
<1>2. /\ Pipeline \in Seq(Packet) /\ window \in Nat /\ got \in Nat /\ taken \in Nat
      /\ got <= taken /\ srvSize \in -1 .. window
  BY PipeType, SessionAssumption DEF PipeTypes, TypeOK
<1>3. Head(Pipeline) \in Packet
  BY <1>2
<1>4. got' \in Nat /\ srvSize' \in Int /\ srvSize \in Int
  BY <1>2, <1>3, PacketFacts
<1>5. /\ Gapless(Tail(Pipeline), got') /\ UpTo(Tail(Pipeline), taken)
      /\ EndsAt(Tail(Pipeline), Len(Tail(Pipeline)) + 1, got', taken)
      /\ IsKeys(Head(Pipeline)) => got < got' /\ got' <= taken
  BY <1>1, <1>2, <1>4, ShrinkKeys
<1>6. /\ Rising(Tail(Pipeline), srvSize', window) /\ srvSize <= srvSize'
      /\ IsSize(Head(Pipeline)) => srvSize' <= window
  BY <1>1, <1>2, <1>4, ShrinkSizes
<1>7. PipeInv'
  BY <1>5, <1>6 DEF PipeInv
<1>8. got' \in got .. taken
  BY <1>2, <1>4, <1>5
<1>9. srvSize' \in -1 .. window
  BY <1>2, <1>4, <1>6
<1> QED BY <1>6, <1>7, <1>8, <1>9

-----------------------------------------------------------------------------
(* The parts of the type invariant.                                          *)

Flags ==
    /\ ctrlQ \in BOOLEAN /\ winch \in BOOLEAN /\ running \in BOOLEAN
    /\ ended \in BOOLEAN /\ srvOpen \in BOOLEAN

Counters ==
    /\ typed \in 0 .. MaxKeys /\ taken \in 0 .. typed
    /\ got \in 0 .. taken /\ shellRead \in 0 .. got
    /\ window \in 0 .. MaxWindow /\ known \in 0 .. window /\ srvSize \in -1 .. window

Control ==
    /\ client \in Clients
    /\ stdin \in {"open", "eof", "error"}
    /\ inPc \in {"hello", "greet", "spawn", "top", "read", "ioctl", "poll", "write", "done"}
    /\ sendPc \in {"off", "top", "recv", "write", "eof", "done"}
    /\ hold = NoPacket <=> ~Writing

\* The type invariant is the conjunction of these.
LEMMA TypeParts ==
    /\ TypeOK <=> Flags /\ Counters /\ Control /\ PipeTypes
    /\ TypeOK' <=> Flags' /\ Counters' /\ Control' /\ PipeTypes'
<1>1. TypeOK <=> Flags /\ Counters /\ Control /\ PipeTypes
  BY DEF TypeOK, Flags, Counters, Control, PipeTypes
<1>2. TypeOK' <=> Flags' /\ Counters' /\ Control' /\ PipeTypes'
  BY DEF TypeOK, Flags, Counters, Control, PipeTypes
<1> QED BY <1>1, <1>2

\* Every step gives a flag a truth value.
LEMMA FlagsStep == Flags /\ [Next]_vars => Flags'
<1> SUFFICES ASSUME Flags, [Next]_vars PROVE Flags'
  OBVIOUS
<1> USE DEF Flags, userVars, sendVars, srvVars
<1>1. CASE User
  BY <1>1, Zenon DEF User, Type, TypeCtrlQ, ResizeWindow, Signal, CloseStdin
<1>2. CASE Hello
  BY <1>2, Zenon DEF Hello, HelloSize, HelloSend, SpawnThreads
<1>3. CASE Stdin
  BY <1>3, Zenon DEF Stdin, StdinSize, StdinTop, StdinQuit, StdinEof, StdinError, StdinRead
<1>4. CASE Sender
  BY <1>4, Zenon DEF Sender, SendTop, SendRecv, SendHangUp, SendWrite, SendError
<1>5. CASE ReceiverLeaves
  BY <1>5, Zenon DEF ReceiverLeaves
<1>6. CASE PollLoop
  BY <1>6, Zenon DEF PollLoop, PollTop, PollIoctl, PollEof, PollIdle, PollWrite,
                     PollWriteError, PollLeaves, PollStdin
<1>7. CASE Server \/ SrvCloses \/ ShellReads
  BY <1>7, Zenon DEF Server, SrvSize, SrvKeys, SrvEot, SrvCloses, ShellReads
<1>8. CASE UNCHANGED vars
  BY <1>8, Zenon DEF vars
<1> QED BY <1>1, <1>2, <1>3, <1>4, <1>5, <1>6, <1>7, <1>8 DEF Next

\* Whoever writes has a packet to write, and only the one thread writes.
LEMMA HandFull ==
    ASSUME Control, Places, PipeTypes
    PROVE  /\ client \in {"rust", "poll"}
           /\ sendPc = "write" => client = "rust" /\ hold \in Packet /\ hold # NoPacket
           /\ inPc = "write" => client = "poll" /\ hold \in Packet /\ hold # NoPacket
BY SessionAssumption DEF Control, Places, PipeTypes, Writing

\* The channel, the hand and the socket hold packets only.
LEMMA PipeTypesStep ==
    PipeTypes /\ Counters /\ Control /\ Places /\ [Next]_vars => PipeTypes'
<1> SUFFICES ASSUME PipeTypes, Counters, Control, Places, [Next]_vars PROVE PipeTypes'
  OBVIOUS
<1> USE DEF PipeTypes, userVars, sendVars, srvVars
<1>0. window \in Nat /\ known \in Nat /\ taken \in Nat
  BY SessionAssumption DEF Counters
<1>p. Size(window) \in Packet /\ Size(known) \in Packet /\ Eot \in Packet
  BY <1>0, PacketsMade
<1>1. CASE User
  BY <1>1 DEF User, Type, TypeCtrlQ, ResizeWindow, Signal, CloseStdin
<1>2. CASE Hello
  <2>1. CASE HelloSend
    BY <1>p, <2>1 DEF HelloSend
  <2> QED BY <1>2, <2>1 DEF Hello, HelloSize, SpawnThreads
<1>3. CASE StdinSize
  <2>1. queue' = queue \/ queue' = Append(queue, Size(window))
    BY <1>3 DEF StdinSize, StdinTop
  <2>2. UNCHANGED <<sock, hold>>
    BY <1>3 DEF StdinSize, StdinTop
  <2> QED BY <1>p, <2>1, <2>2
<1>4. CASE StdinQuit \/ StdinEof \/ StdinError
  BY <1>4 DEF StdinQuit, StdinEof, StdinError
<1>5. ASSUME NEW n \in 1 .. MaxKeys, StdinRead(n) PROVE PipeTypes'
  <2>1. Keys(taken, taken + n) \in Packet
    BY <1>0, PacketsMade
  <2> QED BY <1>5, <2>1 DEF StdinRead
<1>6. CASE Sender
  <2>1. CASE SendTop \/ SendHangUp \/ SendError
    BY <2>1 DEF SendTop, SendHangUp, SendError
  <2>2. CASE SendRecv
    BY <2>2 DEF SendRecv
  <2>3. CASE SendWrite
    <3>1. hold \in Packet /\ sock' = Append(sock, hold)
      BY <2>3, HandFull DEF SendWrite
    <3> QED BY <2>3, <3>1 DEF SendWrite
  <2> QED BY <1>6, <2>1, <2>2, <2>3 DEF Sender
<1>7. CASE ReceiverLeaves
  BY <1>7 DEF ReceiverLeaves
<1>8. CASE PollTop \/ PollIoctl \/ PollEof \/ PollIdle \/ PollLeaves
  <2>1. CASE PollIoctl \/ PollEof
    BY <1>p, <2>1 DEF PollIoctl, PollEof
  <2> QED BY <1>8, <2>1 DEF PollTop, PollIdle, PollLeaves
<1>9. CASE PollWrite \/ PollWriteError
  <2>1. CASE PollWrite
    <3>1. hold \in Packet /\ sock' = Append(sock, hold)
      BY <2>1, HandFull DEF PollWrite
    <3> QED BY <2>1, <3>1 DEF PollWrite
  <2> QED BY <1>9, <2>1 DEF PollWriteError
<1>10. ASSUME NEW n \in 1 .. MaxKeys, PollStdin(n) PROVE PipeTypes'
  <2>1. Keys(taken, taken + n) \in Packet
    BY <1>0, PacketsMade
  <2> QED BY <1>10, <2>1 DEF PollStdin
<1>11. CASE Server \/ SrvCloses \/ ShellReads
  <2>1. CASE Server
    <3>1. sock # <<>> /\ sock' = Tail(sock) /\ UNCHANGED sendVars
      BY <2>1 DEF Server, SrvSize, SrvKeys, SrvEot
    <3> QED BY <3>1
  <2> QED BY <1>11, <2>1 DEF SrvCloses, ShellReads
<1>12. CASE UNCHANGED vars
  BY <1>12 DEF vars
<1> QED
  BY <1>1, <1>2, <1>3, <1>4, <1>5, <1>6, <1>7, <1>8, <1>9, <1>10, <1>11, <1>12
  DEF Next, Stdin, PollLoop

\* Every thread moves between its own places, and holds a packet while it writes.
LEMMA ControlStep ==
    PipeTypes /\ Counters /\ Control /\ Places /\ [Next]_vars => Control' /\ Places'
<1> SUFFICES ASSUME PipeTypes, Counters, Control, Places, [Next]_vars
             PROVE  Control' /\ Places'
  OBVIOUS
<1>0. window \in Nat /\ known \in Nat /\ taken \in Nat
  BY SessionAssumption DEF Counters
<1>c. client \in {"rust", "poll"}
  BY HandFull
<1> USE DEF Control, Places, Writing, userVars, sendVars, srvVars
<1>1. CASE User
  BY <1>1 DEF User, Type, TypeCtrlQ, ResizeWindow, Signal, CloseStdin
<1>2. CASE Hello
  BY <1>c, <1>2 DEF Hello, HelloSize, HelloSend, SpawnThreads
<1>3. CASE StdinSize
  BY <1>c, <1>3 DEF StdinSize, StdinTop
<1>4. CASE StdinQuit \/ StdinEof \/ StdinError
  BY <1>4 DEF StdinQuit, StdinEof, StdinError
<1>5. ASSUME NEW n \in 1 .. MaxKeys, StdinRead(n) PROVE Control' /\ Places'
  BY <1>5 DEF StdinRead
<1>6. CASE SendTop \/ SendHangUp \/ SendError \/ SendWrite
  BY <1>c, <1>6 DEF SendTop, SendHangUp, SendWrite, SendError
<1>7. CASE SendRecv
  <2>1. Head(queue) \in Packet /\ Head(queue) # NoPacket
    BY <1>7, PacketFacts DEF SendRecv, PipeTypes
  <2> QED BY <1>c, <1>7, <2>1 DEF SendRecv
<1>8. CASE ReceiverLeaves
  BY <1>8 DEF ReceiverLeaves
<1>9. CASE PollTop \/ PollIdle \/ PollLeaves
  BY <1>c, <1>9 DEF PollTop, PollIdle, PollLeaves
<1>10. CASE PollIoctl \/ PollEof
  <2>1. Size(window) # NoPacket /\ Eot # NoPacket
    BY <1>0, PacketsMade, PacketFacts
  <2> QED BY <1>c, <1>10, <2>1 DEF PollIoctl, PollEof
<1>11. CASE PollWrite \/ PollWriteError
  BY <1>c, <1>11 DEF PollWrite, PollWriteError
<1>12. ASSUME NEW n \in 1 .. MaxKeys, PollStdin(n) PROVE Control' /\ Places'
  <2>1. Keys(taken, taken + n) # NoPacket
    BY <1>0, PacketsMade, PacketFacts
  <2> QED BY <1>c, <1>12, <2>1 DEF PollStdin
<1>13. CASE Server \/ SrvCloses \/ ShellReads
  BY <1>13 DEF Server, SrvSize, SrvKeys, SrvEot, SrvCloses, ShellReads
<1>14. CASE UNCHANGED vars
  BY <1>14 DEF vars
<1> QED
  BY <1>1, <1>2, <1>3, <1>4, <1>5, <1>6, <1>7, <1>8, <1>9, <1>10, <1>11, <1>12,
     <1>13, <1>14
  DEF Next, Stdin, Sender, PollLoop

-----------------------------------------------------------------------------
(* The invariant.                                                            *)

\* Nothing is under way when a client starts.
LEMMA ClientInit == Init => ClientInv
<1> SUFFICES ASSUME Init PROVE ClientInv
  OBVIOUS
<1>1. Flags
  BY Zenon DEF Init, Flags
<1>2. Counters
  BY SessionAssumption DEF Init, Counters
<1>3. Control /\ Places
  BY SessionAssumption DEF Init, Control, Places, Writing
<1>4. PipeTypes
  BY DEF Init, PipeTypes
<1>5. PipeInv
  <2>1. Pipeline = <<>> /\ Len(Pipeline) = 0
    BY DEF Init, Pipeline
  <2> QED BY <2>1 DEF Init, PipeInv, Gapless, UpTo, EndsAt, Rising
<1> QED BY <1>1, <1>2, <1>3, <1>4, <1>5, TypeParts DEF ClientInv

\* Every step keeps the counters in order and what is under way in sequence, and
\* never takes the size at the server back.
LEMMA StreamStep ==
    ASSUME ClientInv, [Next]_vars
    PROVE  Counters' /\ PipeInv' /\ srvSize <= srvSize'
<1>t. TypeOK /\ Flags /\ Counters /\ Control /\ Places /\ PipeTypes /\ PipeInv
  BY TypeParts DEF ClientInv
<1>n. /\ typed \in Nat /\ taken \in Nat /\ got \in Nat /\ shellRead \in Nat
      /\ window \in Nat /\ known \in Nat /\ srvSize \in -1 .. window /\ srvSize \in Int
      /\ known <= window
  BY <1>t, SessionAssumption DEF Counters
<1>h. /\ client \in {"rust", "poll"}
      /\ sendPc = "write" => hold # NoPacket /\ hold \in Packet
      /\ inPc = "write" => hold # NoPacket /\ hold \in Packet
      /\ inPc \in {"poll", "ioctl"} => hold = NoPacket /\ queue = <<>>
      /\ inPc = "greet" => hold = NoPacket /\ queue = <<>>
      /\ sendPc = "recv" => hold = NoPacket
  BY <1>t, HandFull DEF Control, Places, Writing
<1> USE DEF userVars, sendVars, srvVars
\* steps that add nothing and take nothing
<1>k. ASSUME srvOpen' => srvOpen /\ Pipeline' = Pipeline,
             UNCHANGED <<got, taken, srvSize, shellRead>>,
             window' \in window .. MaxWindow,
             typed' \in typed .. MaxKeys, known' \in {known, window}
      PROVE  Counters' /\ PipeInv' /\ srvSize <= srvSize'
  <2>1. window' \in Nat /\ window <= window'
    BY <1>k, <1>n, SessionAssumption
  <2>2. PipeInv'
    BY <1>k, <1>t, <2>1, InvKept
  <2>3. Counters'
    BY <1>k, <1>t, <1>n, SessionAssumption DEF Counters
  <2> QED BY <1>k, <1>n, <2>2, <2>3
<1>u. ASSUME srvOpen' => srvOpen /\ Pipeline' = Pipeline,
             UNCHANGED <<got, taken, srvSize, shellRead, window, typed>>,
             known' \in {known, window}
      PROVE  Counters' /\ PipeInv' /\ srvSize <= srvSize'
  BY <1>k, <1>u, <1>t, <1>n, SessionAssumption DEF Counters
<1>s. ASSUME UNCHANGED <<sock, hold, queue>> PROVE Pipeline' = Pipeline
  BY <1>s DEF Pipeline
\* steps that add a size at the end
<1>w. ASSUME Pipeline' = Append(Pipeline, Size(window)), known' \in {known, window},
             UNCHANGED <<got, taken, srvSize, srvOpen, shellRead, window, typed>>
      PROVE  Counters' /\ PipeInv' /\ srvSize <= srvSize'
  <2>1. /\ Size(window) \in Packet /\ ~IsKeys(Size(window))
        /\ Size(window).size = window
    BY <1>n, PacketsMade
  <2>2. srvOpen => Rising(Pipeline, srvSize, window)
    BY <1>t DEF PipeInv
  <2>3. taken' \in Nat /\ window <= window /\ srvSize <= window
    BY <1>n, <1>w
  <2>4. PipeInv'
    BY <1>t, <1>n, <1>w, <2>1, <2>2, <2>3, InvGrows
  <2>5. Counters'
    BY <1>t, <1>n, <1>w, SessionAssumption DEF Counters
  <2> QED BY <1>n, <1>w, <2>4, <2>5
\* steps that add keystrokes at the end
<1>y. ASSUME NEW n \in 1 .. MaxKeys, taken + n <= typed, taken' = taken + n,
             Pipeline' = Append(Pipeline, Keys(taken, taken + n)),
             UNCHANGED <<got, srvSize, srvOpen, shellRead, window, known, typed>>
      PROVE  Counters' /\ PipeInv' /\ srvSize <= srvSize'
  <2> DEFINE p == Keys(taken, taken + n)
  <2>1. p \in Packet /\ IsKeys(p) /\ ~IsSize(p) /\ p.from = taken /\ p.to = taken'
    BY <1>n, <1>y, PacketsMade
  <2>2. srvOpen => Rising(Pipeline, srvSize, window)
    BY <1>t DEF PipeInv
  <2>3. taken' \in Nat /\ taken < taken' /\ window <= window
    BY <1>n, <1>y
  <2> HIDE DEF p
  <2>4. PipeInv'
    <3>1. Pipeline' = Append(Pipeline, p) /\ UNCHANGED <<got, srvSize, srvOpen, window>>
      BY <1>y DEF p
    <3> QED BY <1>t, <1>n, <2>1, <2>2, <2>3, <3>1, InvGrows
  <2>5. Counters'
    BY <1>t, <1>n, <1>y, SessionAssumption DEF Counters
  <2> QED BY <1>n, <1>y, <2>4, <2>5
<1>1. CASE Type
  <2>1. /\ UNCHANGED <<sock, hold, queue, got, taken, srvSize, shellRead, window, known, srvOpen>>
        /\ typed < MaxKeys /\ typed' = typed + 1
    BY <1>1 DEF Type
  <2>2. window' \in window .. MaxWindow /\ typed' \in typed .. MaxKeys
    BY <1>t, <1>n, <2>1, SessionAssumption DEF Counters
  <2> QED BY <1>k, <1>s, <2>1, <2>2
<1>2. CASE ResizeWindow
  <2>1. /\ UNCHANGED <<sock, hold, queue, got, taken, srvSize, shellRead, typed, known, srvOpen>>
        /\ window < MaxWindow /\ window' = window + 1
    BY <1>2 DEF ResizeWindow
  <2>2. window' \in window .. MaxWindow /\ typed' \in typed .. MaxKeys
    BY <1>t, <1>n, <2>1, SessionAssumption DEF Counters
  <2> QED BY <1>k, <1>s, <2>1, <2>2
<1>3. CASE \/ TypeCtrlQ \/ Signal \/ \E how \in {"eof", "error"} : CloseStdin(how)
           \/ HelloSize \/ SpawnThreads \/ StdinQuit \/ StdinEof \/ StdinError
  <2>1. /\ UNCHANGED <<sock, hold, queue, got, taken, srvSize, shellRead, typed, window, srvOpen>>
        /\ known' \in {known, window}
    BY <1>3 DEF TypeCtrlQ, Signal, CloseStdin, HelloSize, SpawnThreads, StdinQuit,
                StdinEof, StdinError
  <2> QED BY <1>u, <1>s, <2>1
<1>4. CASE HelloSend
  <2>1. /\ sock' = Append(sock, Size(known)) /\ inPc = "greet"
        /\ UNCHANGED <<hold, queue, got, taken, srvSize, srvOpen, shellRead, window, typed, known>>
    BY <1>4 DEF HelloSend
  <2>2. Size(known) \in Packet /\ ~IsKeys(Size(known)) /\ Size(known).size = known
    BY <1>n, PacketsMade
  <2>3. Pipeline' = Append(Pipeline, Size(known))
    BY <1>t, <1>h, <2>1, <2>2, PipeGreeted
  <2>4. sock = <<>> /\ srvSize = -1
    BY <1>t, <2>1 DEF Places
  <2>5. Rising(Pipeline, srvSize, known)
    <3>1. Pipeline = <<>>
      BY <1>h, <2>1, <2>4 DEF Pipeline
    <3> QED BY <3>1 DEF Rising
  <2>6. PipeInv'
    <3>1. taken' \in Nat /\ srvSize <= known
      BY <1>n, <2>1, <2>4
    <3> QED BY <1>t, <1>n, <2>1, <2>2, <2>3, <2>5, <3>1, InvGrows
  <2>7. Counters'
    BY <1>t, <2>1 DEF Counters
  <2> QED BY <1>n, <2>1, <2>6, <2>7
<1>5. CASE StdinSize
  <2>1. /\ UNCHANGED <<sock, hold, got, taken, srvSize, srvOpen, shellRead, window, typed>>
        /\ known' \in {known, window}
        /\ queue' = queue \/ queue' = Append(queue, Size(window))
    BY <1>5 DEF StdinSize, StdinTop
  <2>2. CASE queue' = queue
    BY <1>u, <1>s, <2>1, <2>2
  <2>3. CASE queue' = Append(queue, Size(window))
    <3>1. Size(window) \in Packet
      BY <1>n, PacketsMade
    <3>2. Pipeline' = Append(Pipeline, Size(window))
      BY <1>t, <2>1, <2>3, <3>1, PipeQueued
    <3> QED BY <1>w, <2>1, <3>2
  <2> QED BY <2>1, <2>2, <2>3
<1>6. ASSUME NEW n \in 1 .. MaxKeys, StdinRead(n)
      PROVE  Counters' /\ PipeInv' /\ srvSize <= srvSize'
  <2>1. /\ queue' = Append(queue, Keys(taken, taken + n))
        /\ UNCHANGED <<sock, hold, got, srvSize, srvOpen, shellRead, window, known, typed>>
        /\ taken' = taken + n /\ taken + n <= typed
    BY <1>6 DEF StdinRead
  <2>2. Keys(taken, taken + n) \in Packet
    BY <1>n, PacketsMade
  <2>3. Pipeline' = Append(Pipeline, Keys(taken, taken + n))
    BY <1>t, <2>1, <2>2, PipeQueued
  <2> QED BY <1>y, <2>1, <2>3
<1>7. CASE SendTop \/ SendHangUp \/ ReceiverLeaves
  <2>1. UNCHANGED <<sock, hold, queue, got, taken, srvSize, srvOpen, shellRead, window, typed, known>>
    BY <1>7 DEF SendTop, SendHangUp, ReceiverLeaves
  <2> QED BY <1>u, <1>s, <2>1
<1>8. CASE SendRecv \/ SendWrite \/ PollWrite
  <2>1. /\ UNCHANGED <<got, taken, srvSize, srvOpen, shellRead, window, typed, known>>
        /\ \/ /\ hold = NoPacket /\ queue # <<>> /\ sock' = sock
              /\ hold' = Head(queue) /\ queue' = Tail(queue)
           \/ /\ hold # NoPacket /\ hold' = NoPacket
              /\ sock' = Append(sock, hold) /\ queue' = queue
    BY <1>h, <1>8 DEF SendRecv, SendWrite, PollWrite
  <2>2. Pipeline' = Pipeline
    BY <1>t, <2>1, PipeMoves
  <2> QED BY <1>u, <2>1, <2>2
<1>9. CASE SendError \/ PollWriteError \/ SrvCloses
  <2>1. ~srvOpen' /\ UNCHANGED <<got, taken, srvSize, shellRead, window, typed, known>>
    BY <1>9 DEF SendError, PollWriteError, SrvCloses
  <2> QED BY <1>u, <2>1
<1>10. CASE PollTop \/ PollIdle \/ PollLeaves
  <2>1. UNCHANGED <<sock, hold, queue, got, taken, srvSize, srvOpen, shellRead, window, typed, known>>
    BY <1>10 DEF PollTop, PollIdle, PollLeaves
  <2> QED BY <1>u, <1>s, <2>1
<1>11. CASE PollIoctl
  <2>1. /\ hold' = Size(window) /\ hold = NoPacket /\ queue = <<>>
        /\ UNCHANGED <<sock, queue, got, taken, srvSize, srvOpen, shellRead, window, typed, known>>
    BY <1>h, <1>11 DEF PollIoctl
  <2>2. Size(window) \in Packet
    BY <1>n, PacketsMade
  <2>3. Pipeline' = Append(Pipeline, Size(window))
    BY <1>t, <2>1, <2>2, PipeInHand
  <2> QED BY <1>w, <2>1, <2>3
<1>12. ASSUME NEW n \in 1 .. MaxKeys, PollStdin(n)
       PROVE  Counters' /\ PipeInv' /\ srvSize <= srvSize'
  <2>1. /\ hold' = Keys(taken, taken + n) /\ hold = NoPacket /\ queue = <<>>
        /\ UNCHANGED <<sock, queue, got, srvSize, srvOpen, shellRead, window, known, typed>>
        /\ taken' = taken + n /\ taken + n <= typed
    BY <1>h, <1>12 DEF PollStdin
  <2>2. Keys(taken, taken + n) \in Packet
    BY <1>n, PacketsMade
  <2>3. Pipeline' = Append(Pipeline, Keys(taken, taken + n))
    BY <1>t, <2>1, <2>2, PipeInHand
  <2> QED BY <1>y, <2>1, <2>3
<1>13. CASE PollEof
  <2>1. /\ hold' = Eot /\ hold = NoPacket /\ queue = <<>>
        /\ UNCHANGED <<sock, queue, got, taken, srvSize, srvOpen, shellRead, window, typed, known>>
    BY <1>h, <1>13 DEF PollEof
  <2>2. Eot \in Packet /\ ~IsKeys(Eot) /\ ~IsSize(Eot)
    BY <1>n, PacketsMade
  <2>3. Pipeline' = Append(Pipeline, Eot)
    BY <1>t, <2>1, <2>2, PipeInHand
  <2>4. srvOpen => Rising(Pipeline, srvSize, window)
    BY <1>t DEF PipeInv
  <2>5. PipeInv'
    <3>1. taken' \in Nat /\ window <= window
      BY <1>n, <2>1
    <3> QED BY <1>t, <1>n, <2>1, <2>2, <2>3, <2>4, <3>1, InvGrows
  <2>6. Counters'
    BY <1>t, <2>1 DEF Counters
  <2> QED BY <1>n, <2>1, <2>5, <2>6
<1>14. CASE Server
  <2>1. /\ srvOpen /\ sock # <<>> /\ sock' = Tail(sock)
        /\ UNCHANGED <<hold, queue, taken, srvOpen, shellRead, window, typed, known>>
        /\ got' = IF IsKeys(Head(sock)) THEN Head(sock).to ELSE got
        /\ srvSize' = IF IsSize(Head(sock)) THEN Head(sock).size ELSE srvSize
    BY <1>14 DEF Server, SrvSize, SrvKeys, SrvEot, IsKeys, IsSize
  <2>2. Pipeline # <<>> /\ Head(Pipeline) = Head(sock) /\ Pipeline' = Tail(Pipeline)
    BY <1>t, <2>1, PipeTaken
  <2>3. /\ PipeInv' /\ got' \in got .. taken
        /\ srvSize <= srvSize' /\ srvSize' \in -1 .. window
    BY <1>t, <2>1, <2>2, InvShrinks
  <2>4. Counters'
    BY <1>t, <1>n, <2>1, <2>3 DEF Counters
  <2> QED BY <2>3, <2>4
<1>15. CASE ShellReads
  <2>1. /\ UNCHANGED <<sock, hold, queue, got, taken, srvSize, srvOpen, window, typed, known>>
        /\ shellRead' = got
    BY <1>15 DEF ShellReads
  <2>2. PipeInv'
    BY <1>t, <1>n, <1>s, <2>1, InvKept
  <2>3. Counters'
    BY <1>t, <1>n, <2>1 DEF Counters
  <2> QED BY <1>n, <2>1, <2>2, <2>3
<1>16. CASE UNCHANGED vars
  <2>1. UNCHANGED <<sock, hold, queue, got, taken, srvSize, srvOpen, shellRead, window, typed, known>>
    BY <1>16 DEF vars
  <2> QED BY <1>u, <1>s, <2>1
<1> QED
  BY <1>1, <1>2, <1>3, <1>4, <1>5, <1>6, <1>7, <1>8, <1>9, <1>10, <1>11, <1>12,
     <1>13, <1>14, <1>15, <1>16
  DEF Next, User, Hello, Stdin, Sender, PollLoop

\* Every step preserves the invariant.
LEMMA ClientStep == ClientInv /\ [Next]_vars => ClientInv'
BY TypeParts, FlagsStep, PipeTypesStep, ControlStep, StreamStep DEF ClientInv

\* The invariant holds throughout a session.
THEOREM ClientInvariant == Spec => []ClientInv
BY ClientInit, ClientStep, PTL DEF Spec

\* Every variable keeps its type; the PTY gets no keystroke that was not typed,
\* and the server no size that the window never had.
THEOREM ClientTypes == Spec => []TypeOK
<1>1. ClientInv => TypeOK
  BY DEF ClientInv
<1> QED BY <1>1, ClientInvariant, PTL

\* In the three threads of the Rust client as in the poll loop of the C and C++
\* clients, no keystroke is lost, repeated or overtaken on its way to the PTY.
THEOREM KeystrokesInOrder == Spec => []KeysInOrder
<1>1. ClientInv => KeysInOrder
  BY DEF ClientInv, PipeInv, KeysInOrder
<1> QED BY <1>1, ClientInvariant, PTL

\* However the window changes, a size set at the server is never replaced by an
\* older one.
THEOREM SizesNeverGoBack == Spec => SizesAdvance
<1>1. ClientInv /\ [Next]_vars => [srvSize <= srvSize']_srvSize
  BY StreamStep
<1> QED BY <1>1, ClientInvariant, PTL DEF Spec, SizesAdvance
=============================================================================
