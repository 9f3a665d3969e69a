--------------------------- MODULE AnsiTextProofs ---------------------------
(***************************************************************************)
(* Proofs about AnsiText: where find_safe_split_point cuts and what          *)
(* strip_terminal_queries_stateful removes, for output of any length.  Both  *)
(* functions are recursive; induction is over how much of the buffer is      *)
(* left, in the form "a set of numbers that is not empty has a least one".   *)
(***************************************************************************)
EXTENDS MCAlgorithms, WellFoundedInduction, SequenceTheorems, TLAPS

-----------------------------------------------------------------------------
(* Least and greatest elements.                                              *)

LEMMA Least ==
    ASSUME NEW T, T \subseteq Nat, T # {}
    PROVE  \E x \in T : \A y \in T : x <= y
<1> DEFINE less == OpToRel(<, Nat)
<1>1. IsWellFoundedOn(less, Nat)
  BY NatLessThanWellFounded, Zenon
<1>2. \A x, y \in Nat : y < x => <<y, x>> \in less
  BY DEF OpToRel
<1> HIDE DEF less
<1>3. PICK x \in T : \A y \in T : ~ (<<y, x>> \in less)
  BY <1>1, WFMin
<1>4. \A y \in T : y \in Nat /\ x \in Nat /\ ~ (y < x)
  BY <1>2, <1>3
<1>5. \A y \in T : x <= y
  BY <1>4
<1> QED BY <1>5

LEMMA MinIsLeast ==
    ASSUME NEW T, T \subseteq Nat, T # {}
    PROVE  Min(T) \in T /\ \A y \in T : Min(T) <= y
BY Least DEF Min

\* A least element is recognised.
LEMMA MinIs ==
    ASSUME NEW T, T \subseteq Nat, NEW m \in T, \A y \in T : m <= y
    PROVE  Min(T) = m
<1>1. Min(T) \in T /\ \A y \in T : Min(T) <= y
  BY MinIsLeast
<1>2. m \in Nat /\ Min(T) \in Nat /\ m <= Min(T) /\ Min(T) <= m
  BY <1>1
<1> QED BY <1>2

\* What holds of 0 and of k + 1 whenever it holds of k, up to n, holds up to n.
LEMMA Induction ==
    ASSUME NEW n \in Nat, NEW T, 0 \in T,
           \A k \in 0 .. n - 1 : k \in T => k + 1 \in T
    PROVE  \A k \in 0 .. n : k \in T
<1> DEFINE U == {k \in 0 .. n : k \notin T}
<1> SUFFICES ASSUME U # {} PROVE FALSE
  OBVIOUS
<1>1. U \subseteq Nat
  OBVIOUS
<1>2. PICK x \in U : \A y \in U : x <= y
  BY <1>1, Least
<1>3. x # 0 /\ x \in 0 .. n /\ x \notin T
  OBVIOUS
<1>4. x - 1 \in 0 .. n - 1 /\ x - 1 \in 0 .. n /\ ~ (x <= x - 1) /\ (x - 1) + 1 = x
  BY <1>3
<1>5. x - 1 \in T
  BY <1>2, <1>4
<1> QED BY <1>3, <1>4, <1>5

\* What holds of a position whenever it holds of all later ones holds of all.
LEMMA Backwards ==
    ASSUME NEW n \in Nat, NEW T,
           \A i \in 0 .. n : (\A j \in i + 1 .. n : j \in T) => i \in T
    PROVE  \A i \in 0 .. n : i \in T
<1> DEFINE U == {k \in 0 .. n : n - k \notin T}
<1>0. SUFFICES U = {}
  <2> SUFFICES ASSUME NEW i \in 0 .. n, i \notin T PROVE U # {}
    OBVIOUS
  <2>1. n - i \in 0 .. n /\ n - (n - i) = i
    OBVIOUS
  <2> QED BY <2>1
<1> SUFFICES ASSUME U # {} PROVE FALSE
  OBVIOUS
<1>1. U \subseteq Nat
  OBVIOUS
<1>2. PICK x \in U : \A y \in U : x <= y
  BY <1>1, Least
<1>3. n - x \in 0 .. n /\ n - x \notin T
  OBVIOUS
<1>4. \A j \in (n - x) + 1 .. n : j \in T
  <2> TAKE j \in (n - x) + 1 .. n
  <2>1. n - j \in 0 .. n /\ n - (n - j) = j /\ ~ (x <= n - j)
    OBVIOUS
  <2> QED BY <1>2, <2>1
<1> QED BY <1>3, <1>4

-----------------------------------------------------------------------------
(* The scans stay inside the buffer and always advance.                      *)

LEMMA StringEndInside ==
    ASSUME NEW S, NEW buf \in Seq(S), NEW i \in Nat
    PROVE  StringEnd(buf, i) \subseteq i + 1 .. Len(buf)
<1> SUFFICES ASSUME NEW k \in i + 1 .. Len(buf), StringStop(buf, k)
             PROVE  (IF buf[k] = Bel THEN k ELSE k + 1) \in i + 1 .. Len(buf)
  BY DEF StringEnd
<1>1. Len(buf) \in Nat /\ k \in Nat
  OBVIOUS
<1>2. buf[k] # Bel => k < Len(buf)
  BY DEF StringStop
<1> QED BY <1>1, <1>2

LEMMA EndsInside ==
    ASSUME NEW S, NEW buf \in Seq(S), NEW i \in Nat
    PROVE  Ends(buf, i) \subseteq i + 3 .. Len(buf) /\ Ends(buf, i) \subseteq Nat
<1>1. i + 2 \in Nat /\ (i + 2) + 1 = i + 3
  OBVIOUS
<1>2. StringEnd(buf, i + 2) \subseteq (i + 2) + 1 .. Len(buf)
  BY <1>1, StringEndInside
<1>3. CsiEnd(buf, i + 2) \subseteq (i + 2) + 1 .. Len(buf)
  BY DEF CsiEnd
<1>4. Ends(buf, i) \subseteq i + 3 .. Len(buf)
  BY <1>1, <1>2, <1>3 DEF Ends
<1>5. i + 3 .. Len(buf) \subseteq Nat
  OBVIOUS
<1> QED BY <1>4, <1>5

LEMMA MinEndInside ==
    ASSUME NEW S, NEW buf \in Seq(S), NEW i \in Nat, Ends(buf, i) # {}
    PROVE  Min(Ends(buf, i)) \in i + 3 .. Len(buf)
BY EndsInside, MinIsLeast

LEMMA ScanToInside ==
    ASSUME NEW S, NEW buf \in Seq(S), NEW i \in Nat, i <= Len(buf),
           NEW ends, ends \subseteq i + 1 .. Len(buf)
    PROVE  ScanTo(ends, buf) \in i .. Len(buf)
<1>1. ends \subseteq Nat
  OBVIOUS
<1>2. CASE ends = {}
  BY <1>2 DEF ScanTo
<1>3. CASE ends # {}
  <2>1. Min(ends) \in i + 1 .. Len(buf)
    BY <1>1, <1>3, MinIsLeast
  <2> QED BY <1>3, <2>1 DEF ScanTo
<1> QED BY <1>2, <1>3

\* The scan of find_safe_split_point goes on after the ESC, inside the buffer.
LEMMA SequenceEndInside ==
    ASSUME NEW S, NEW buf \in Seq(S), NEW i \in 0 .. Len(buf) - 1
    PROVE  SequenceEnd(buf, i) \in i + 1 .. Len(buf)
<1>1. CASE i + 1 >= Len(buf)
  BY <1>1 DEF SequenceEnd
<1>2. CASE ~ (i + 1 >= Len(buf))
  <2>1. i + 2 \in Nat /\ i + 2 <= Len(buf)
    BY <1>2
  <2>2. StringEnd(buf, i + 2) \subseteq (i + 2) + 1 .. Len(buf)
    BY <2>1, StringEndInside
  <2>3. CsiEnd(buf, i + 2) \subseteq (i + 2) + 1 .. Len(buf)
    BY DEF CsiEnd
  <2>4. /\ ScanTo(StringEnd(buf, i + 2), buf) \in i + 2 .. Len(buf)
        /\ ScanTo(CsiEnd(buf, i + 2), buf) \in i + 2 .. Len(buf)
    BY <2>1, <2>2, <2>3, ScanToInside
  <2>5. SequenceEnd(buf, i) \in i + 2 .. Len(buf)
    BY <1>2, <2>1, <2>4 DEF SequenceEnd
  <2> QED BY <2>1, <2>5
<1> QED BY <1>1, <1>2

-----------------------------------------------------------------------------
(* The recursive functions exist: each position only needs the later ones.   *)

\* The function that SafePoints and Strip choose.
SafeScan(buf)  == CHOOSE f : f = [i \in 0 .. Len(buf) |-> SafeFrom(buf, f, i)]
StripScan(buf) == CHOOSE f : f = [i \in 0 .. Len(buf) |-> StripFrom(buf, f, i)]

LEMMA SafeFromLater ==
    ASSUME NEW S, NEW buf \in Seq(S), NEW i \in 0 .. Len(buf), NEW f, NEW g,
           \A j \in i + 1 .. Len(buf) : f[j] = g[j]
    PROVE  SafeFrom(buf, f, i) = SafeFrom(buf, g, i)
<1>1. CASE i = Len(buf)
  BY <1>1 DEF SafeFrom
<1>2. CASE i # Len(buf)
  <2>1. i \in 0 .. Len(buf) - 1 /\ i + 1 \in i + 1 .. Len(buf)
    BY <1>2
  <2>2. SequenceEnd(buf, i) \in i + 1 .. Len(buf)
    BY <2>1, SequenceEndInside
  <2>3. f[SequenceEnd(buf, i)] = g[SequenceEnd(buf, i)] /\ f[i + 1] = g[i + 1]
    BY <2>1, <2>2
  <2> QED BY <1>2, <2>3 DEF SafeFrom
<1> QED BY <1>1, <1>2

LEMMA StripFromLater ==
    ASSUME NEW S, NEW buf \in Seq(S), NEW i \in 0 .. Len(buf), NEW f, NEW g,
           \A j \in i + 1 .. Len(buf) : f[j] = g[j]
    PROVE  StripFrom(buf, f, i) = StripFrom(buf, g, i)
<1>1. CASE i = Len(buf)
  BY <1>1 DEF StripFrom
<1>2. CASE i # Len(buf)
  <2>1. i \in Nat /\ i + 1 \in i + 1 .. Len(buf)
    BY <1>2
  <2>2. f[i + 1] = g[i + 1]
    BY <2>1
  <2>3. CASE buf[i + 1] = Esc => Unfinished(buf, i) \/ buf[i + 2] \notin {Osc, Dcs, Csi}
    BY <1>2, <2>2, <2>3 DEF StripFrom
  <2>4. CASE buf[i + 1] = Esc /\ ~Unfinished(buf, i) /\ buf[i + 2] \in {Osc, Dcs, Csi}
    <3>1. Ends(buf, i) # {}
      BY <2>4 DEF Unfinished
    <3>2. Min(Ends(buf, i)) \in i + 3 .. Len(buf)
      BY <2>1, <3>1, MinEndInside
    <3>3. Min(Ends(buf, i)) \in i + 1 .. Len(buf)
      BY <2>1, <3>2
    <3>4. f[Min(Ends(buf, i))] = g[Min(Ends(buf, i))]
      BY <3>3
    <3> QED BY <1>2, <2>2, <2>4, <3>4 DEF StripFrom
  <2> QED BY <2>3, <2>4
<1> QED BY <1>1, <1>2

\* A function that is as the recursion asks from position n - k on is extended
\* to position n - k - 1.
LEMMA SafeScanExists ==
    ASSUME NEW S, NEW buf \in Seq(S)
    PROVE  \E f : f = [i \in 0 .. Len(buf) |-> SafeFrom(buf, f, i)]
<1> DEFINE n == Len(buf)
           T == {k \in 0 .. n : \E f : f = [i \in n - k .. n |-> SafeFrom(buf, f, i)]}
<1>0. n \in Nat
  OBVIOUS
<1>1. 0 \in T
  <2> DEFINE f == [i \in n - 0 .. n |-> {i}]
  <2>1. \A i \in n - 0 .. n : f[i] = SafeFrom(buf, f, i)
    BY <1>0 DEF SafeFrom
  <2>2. f = [i \in n - 0 .. n |-> SafeFrom(buf, f, i)]
    BY <2>1
  <2> HIDE DEF f
  <2> QED BY <1>0, <2>2
<1>2. ASSUME NEW k \in 0 .. n - 1, k \in T
      PROVE  k + 1 \in T
  <2>1. PICK f : f = [i \in n - k .. n |-> SafeFrom(buf, f, i)]
    BY <1>2
  <2> DEFINE m == n - (k + 1)
             g == [i \in m .. n |-> IF i = m THEN SafeFrom(buf, f, i) ELSE f[i]]
  <2>2. m \in 0 .. n /\ \A i \in m .. n : i = m \/ i \in n - k .. n
    BY <1>0
  <2>3. \A i \in m .. n : g[i] = SafeFrom(buf, f, i)
    BY <2>1, <2>2
  <2>4. \A i \in m .. n : \A j \in i + 1 .. n : f[j] = g[j]
    BY <2>2
  <2> HIDE DEF g
  <2>5. \A i \in m .. n : SafeFrom(buf, f, i) = SafeFrom(buf, g, i)
    <3> TAKE i \in m .. n
    <3>1. i \in 0 .. Len(buf) /\ \A j \in i + 1 .. Len(buf) : f[j] = g[j]
      BY <1>0, <2>2, <2>4
    <3> QED BY <3>1, SafeFromLater
  <2>6. g = [i \in m .. n |-> SafeFrom(buf, g, i)]
    BY <2>3, <2>5 DEF g
  <2> QED BY <1>0, <2>6
<1> HIDE DEF T
<1>3. \A k \in 0 .. n : k \in T
  BY <1>0, <1>1, <1>2, Induction
<1>4. n \in T /\ n - n = 0
  BY <1>0, <1>3
<1> QED BY <1>4 DEF T

LEMMA StripScanExists ==
    ASSUME NEW S, NEW buf \in Seq(S)
    PROVE  \E f : f = [i \in 0 .. Len(buf) |-> StripFrom(buf, f, i)]
<1> DEFINE n == Len(buf)
           T == {k \in 0 .. n : \E f : f = [i \in n - k .. n |-> StripFrom(buf, f, i)]}
<1>0. n \in Nat
  OBVIOUS
<1>1. 0 \in T
  <2> DEFINE f == [i \in n - 0 .. n |-> [clean |-> <<>>, rest |-> <<>>]]
  <2>1. \A i \in n - 0 .. n : f[i] = StripFrom(buf, f, i)
    BY <1>0 DEF StripFrom
  <2>2. f = [i \in n - 0 .. n |-> StripFrom(buf, f, i)]
    BY <2>1
  <2> HIDE DEF f
  <2> QED BY <1>0, <2>2
<1>2. ASSUME NEW k \in 0 .. n - 1, k \in T
      PROVE  k + 1 \in T
  <2>1. PICK f : f = [i \in n - k .. n |-> StripFrom(buf, f, i)]
    BY <1>2
  <2> DEFINE m == n - (k + 1)
             g == [i \in m .. n |-> IF i = m THEN StripFrom(buf, f, i) ELSE f[i]]
  <2>2. m \in 0 .. n /\ \A i \in m .. n : i = m \/ i \in n - k .. n
    BY <1>0
  <2>3. \A i \in m .. n : g[i] = StripFrom(buf, f, i)
    BY <2>1, <2>2
  <2>4. \A i \in m .. n : \A j \in i + 1 .. n : f[j] = g[j]
    BY <2>2
  <2> HIDE DEF g
  <2>5. \A i \in m .. n : StripFrom(buf, f, i) = StripFrom(buf, g, i)
    <3> TAKE i \in m .. n
    <3>1. i \in 0 .. Len(buf) /\ \A j \in i + 1 .. Len(buf) : f[j] = g[j]
      BY <1>0, <2>2, <2>4
    <3> QED BY <3>1, StripFromLater
  <2>6. g = [i \in m .. n |-> StripFrom(buf, g, i)]
    BY <2>3, <2>5 DEF g
  <2> QED BY <1>0, <2>6
<1> HIDE DEF T
<1>3. \A k \in 0 .. n : k \in T
  BY <1>0, <1>1, <1>2, Induction
<1>4. n \in T /\ n - n = 0
  BY <1>0, <1>3
<1> QED BY <1>4 DEF T

\* What the two functions are at a position, and that the algorithms use them.
LEMMA SafeUnfold ==
    ASSUME NEW S, NEW buf \in Seq(S)
    PROVE  /\ SafePoints(buf) = {0} \cup SafeScan(buf)[0]
           /\ \A i \in 0 .. Len(buf) : SafeScan(buf)[i] = SafeFrom(buf, SafeScan(buf), i)
<1>1. SafeScan(buf) = [i \in 0 .. Len(buf) |-> SafeFrom(buf, SafeScan(buf), i)]
  BY SafeScanExists DEF SafeScan
<1>2. SafePoints(buf) = {0} \cup SafeScan(buf)[0]
  BY DEF SafePoints, SafeScan
<1> QED BY <1>1, <1>2

LEMMA StripUnfold ==
    ASSUME NEW S, NEW buf \in Seq(S)
    PROVE  /\ Strip(buf) = StripScan(buf)[0]
           /\ \A i \in 0 .. Len(buf) : StripScan(buf)[i] = StripFrom(buf, StripScan(buf), i)
<1>1. StripScan(buf) = [i \in 0 .. Len(buf) |-> StripFrom(buf, StripScan(buf), i)]
  BY StripScanExists DEF StripScan
<1>2. Strip(buf) = StripScan(buf)[0]
  BY DEF Strip, StripScan
<1> QED BY <1>1, <1>2

-----------------------------------------------------------------------------
(* What strip_terminal_queries_stateful computes at a position.              *)

Kinds == {Osc, Dcs, Csi}
Nothing == [clean |-> <<>>, rest |-> <<>>]
Cleaned(S) == [clean : Seq(S), rest : Seq(S)]
Keep(b, c) == [clean |-> <<b>> \o c.clean, rest |-> c.rest]

LEMMA RestFacts ==
    ASSUME NEW S, NEW buf \in Seq(S), NEW i \in 0 .. Len(buf)
    PROVE  /\ Rest(buf, i) \in Seq(S) /\ Len(Rest(buf, i)) = Len(buf) - i
           /\ \A k \in 1 .. Len(buf) - i : Rest(buf, i)[k] = buf[i + k]
<1> DEFINE t == SubSeq(buf, i + 1, Len(buf))
<1>1. \A k \in i + 1 .. Len(buf) : buf[k] \in S
  OBVIOUS
<1>2. /\ t \in Seq(S)
      /\ Len(t) = IF i + 1 <= Len(buf) THEN Len(buf) - (i + 1) + 1 ELSE 0
      /\ \A k \in 1 .. Len(buf) - (i + 1) + 1 : t[k] = buf[(i + 1) + k - 1]
  BY <1>1, SubSeqProperties
<1> HIDE DEF t
<1>3. Len(t) = Len(buf) - i /\ \A k \in 1 .. Len(buf) - i : t[k] = buf[i + k]
  BY <1>2
<1> QED BY <1>2, <1>3 DEF Rest, t

LEMMA KeepIs ==
    ASSUME NEW S, NEW c \in Cleaned(S), NEW b
    PROVE  [c EXCEPT !.clean = <<b>> \o @] = Keep(b, c)
<1> DEFINE bytes == <<b>> \o c.clean
<1> HIDE DEF bytes
<1>1. [c EXCEPT !.clean = bytes] = [clean |-> bytes, rest |-> c.rest]
  BY DEF Cleaned
<1> QED BY <1>1 DEF bytes, Keep

\* The cases of the scan f at position i.
ByCases(f, buf, i) ==
    /\ buf[i + 1] # Esc => f[i] = Keep(buf[i + 1], f[i + 1])
    /\ buf[i + 1] = Esc /\ Unfinished(buf, i) =>
           f[i] = [clean |-> <<>>, rest |-> Rest(buf, i)]
    /\ buf[i + 1] = Esc /\ ~Unfinished(buf, i) /\ buf[i + 2] \notin Kinds =>
           f[i] = Keep(buf[i + 1], f[i + 1])
    /\ buf[i + 1] = Esc /\ ~Unfinished(buf, i) /\ buf[i + 2] \in Kinds =>
           f[i] = IF IsQuery(SubSeq(buf, i + 1, Min(Ends(buf, i))))
                  THEN f[Min(Ends(buf, i))] ELSE Keep(buf[i + 1], f[i + 1])
LEMMA StripCases ==
    ASSUME NEW S, NEW buf \in Seq(S), NEW i \in 0 .. Len(buf) - 1,
           StripScan(buf)[i + 1] \in Cleaned(S)
    PROVE  ByCases(StripScan(buf), buf, i)
<1> DEFINE f == StripScan(buf)
           keep == [f[i + 1] EXCEPT !.clean = <<buf[i + 1]>> \o @]
<1>1. f[i] = StripFrom(buf, f, i) /\ i # Len(buf)
  BY StripUnfold
<1>2. keep = Keep(buf[i + 1], f[i + 1])
  BY KeepIs
<1> HIDE DEF f
<1>3. f[i] = CASE buf[i + 1] # Esc -> keep
               [] buf[i + 1] = Esc /\ Unfinished(buf, i) ->
                      [clean |-> <<>>, rest |-> Rest(buf, i)]
               [] OTHER ->
                      IF /\ buf[i + 2] \in {Osc, Dcs, Csi}
                         /\ IsQuery(SubSeq(buf, i + 1, Min(Ends(buf, i))))
                      THEN f[Min(Ends(buf, i))] ELSE keep
  BY <1>1 DEF StripFrom
<1> HIDE DEF keep
<1>4. ByCases(f, buf, i)
  BY <1>2, <1>3 DEF ByCases, Kinds
<1> QED BY <1>4 DEF f

LEMMA StripAtEnd ==
    ASSUME NEW S, NEW buf \in Seq(S)
    PROVE  StripScan(buf)[Len(buf)] = Nothing
<1>1. Len(buf) \in 0 .. Len(buf)
  OBVIOUS
<1>2. StripScan(buf)[Len(buf)] = StripFrom(buf, StripScan(buf), Len(buf))
  BY <1>1, StripUnfold
<1> QED BY <1>2 DEF StripFrom, Nothing

LEMMA KeepCleaned ==
    ASSUME NEW S, NEW b \in S, NEW c \in Cleaned(S)
    PROVE  Keep(b, c) \in Cleaned(S)
BY DEF Keep, Cleaned

LEMMA StripCleaned ==
    ASSUME NEW S, NEW buf \in Seq(S)
    PROVE  \A i \in 0 .. Len(buf) : StripScan(buf)[i] \in Cleaned(S)
<1> DEFINE n == Len(buf)
           f == StripScan(buf)
           T == {i \in 0 .. n : f[i] \in Cleaned(S)}
<1>0. n \in Nat
  OBVIOUS
<1>1. ASSUME NEW i \in 0 .. n, \A j \in i + 1 .. n : j \in T
      PROVE  i \in T
  <2>1. CASE i = n
    <3>1. Nothing \in Cleaned(S)
      BY DEF Nothing, Cleaned
    <3> QED BY <2>1, <3>1, StripAtEnd
  <2>2. CASE i # n
    <3>1. i \in 0 .. n - 1 /\ i + 1 \in i + 1 .. n /\ i \in Nat
      BY <2>2
    <3>2. f[i + 1] \in Cleaned(S) /\ buf[i + 1] \in S
      BY <1>1, <3>1
    <3>3. Keep(buf[i + 1], f[i + 1]) \in Cleaned(S)
      BY <3>2, KeepCleaned
    <3>4. [clean |-> <<>>, rest |-> Rest(buf, i)] \in Cleaned(S)
      BY RestFacts DEF Cleaned
    <3>5. ASSUME ~Unfinished(buf, i), buf[i + 2] \in Kinds
          PROVE  f[Min(Ends(buf, i))] \in Cleaned(S)
      <4>1. Ends(buf, i) # {}
        BY <3>5 DEF Unfinished, Kinds
      <4>2. Min(Ends(buf, i)) \in i + 3 .. n
        BY <3>1, <4>1, MinEndInside
      <4>3. Min(Ends(buf, i)) \in i + 1 .. n
        BY <3>1, <4>2
      <4> QED BY <1>1, <4>3
    <3>6. ByCases(f, buf, i)
      BY <3>1, <3>2, StripCases
    <3> HIDE DEF f
    <3>7. f[i] \in Cleaned(S)
      BY <3>3, <3>4, <3>5, <3>6 DEF ByCases
    <3> QED BY <3>7
  <2> QED BY <2>1, <2>2
<1> HIDE DEF T
<1>2. \A i \in 0 .. n : i \in T
  BY <1>0, <1>1, Backwards
<1> QED BY <1>2 DEF T

-----------------------------------------------------------------------------
(* Reading a part of the buffer: what a scan finds depends on the bytes it   *)
(* reads only, and not on what comes before or after them.                   *)

\* b is what stands in a from position d on.
Window(b, a, d) ==
    /\ d \in Nat /\ d + Len(b) <= Len(a)
    /\ \A k \in 1 .. Len(b) : b[k] = a[d + k]

LEMMA WindowCsiEnd ==
    ASSUME NEW S, NEW a \in Seq(S), NEW b \in Seq(S), NEW d, Window(b, a, d),
           NEW i \in Nat, NEW e \in Nat, e <= Len(b)
    PROVE  e \in CsiEnd(b, i) <=> d + e \in CsiEnd(a, d + i)
<1>1. d \in Nat /\ Len(b) \in Nat /\ Len(a) \in Nat /\ d + Len(b) <= Len(a)
  BY DEF Window
<1>2. e \in i + 1 .. Len(b) <=> d + e \in (d + i) + 1 .. Len(a)
  BY <1>1
<1>3. e \in i + 1 .. Len(b) => b[e] = a[d + e]
  BY DEF Window
<1> QED BY <1>2, <1>3 DEF CsiEnd

LEMMA WindowStop ==
    ASSUME NEW S, NEW a \in Seq(S), NEW b \in Seq(S), NEW d, Window(b, a, d),
           NEW k \in 1 .. Len(b)
    PROVE  /\ b[k] = Bel => (StringStop(b, k) /\ StringStop(a, d + k))
           /\ k < Len(b) => (StringStop(b, k) <=> StringStop(a, d + k))
<1>1. d \in Nat /\ Len(b) \in Nat /\ Len(a) \in Nat /\ d + Len(b) <= Len(a)
  BY DEF Window
<1>2. b[k] = a[d + k]
  BY DEF Window
<1>3. ASSUME k < Len(b) PROVE b[k + 1] = a[(d + k) + 1] /\ d + k < Len(a)
  <2>1. k + 1 \in 1 .. Len(b) /\ d + (k + 1) = (d + k) + 1 /\ d + k < Len(a)
    BY <1>1, <1>3
  <2> QED BY <2>1 DEF Window
<1> QED BY <1>2, <1>3 DEF StringStop

\* The terminator whose last byte is at e starts there (BEL) or one before.
LEMMA StringEndStops ==
    ASSUME NEW S, NEW buf \in Seq(S), NEW i \in Nat, NEW e \in Nat
    PROVE  e \in StringEnd(buf, i) <=>
               \/ e \in i + 1 .. Len(buf) /\ buf[e] = Bel
               \/ /\ e - 1 \in i + 1 .. Len(buf) /\ buf[e - 1] # Bel
                  /\ StringStop(buf, e - 1)
<1>1. ASSUME e \in StringEnd(buf, i)
      PROVE  \/ e \in i + 1 .. Len(buf) /\ buf[e] = Bel
             \/ e - 1 \in i + 1 .. Len(buf) /\ buf[e - 1] # Bel /\ StringStop(buf, e - 1)
  <2>1. PICK k \in i + 1 .. Len(buf) :
            StringStop(buf, k) /\ e = IF buf[k] = Bel THEN k ELSE k + 1
    BY <1>1 DEF StringEnd
  <2>2. CASE buf[k] = Bel
    BY <2>1, <2>2
  <2>3. CASE buf[k] # Bel
    <3>1. e - 1 = k
      BY <2>1, <2>3
    <3> QED BY <2>1, <2>3, <3>1
  <2> QED BY <2>2, <2>3
<1>2. ASSUME e \in i + 1 .. Len(buf), buf[e] = Bel
      PROVE  e \in StringEnd(buf, i)
  BY <1>2 DEF StringEnd, StringStop
<1>3. ASSUME e - 1 \in i + 1 .. Len(buf), buf[e - 1] # Bel, StringStop(buf, e - 1)
      PROVE  e \in StringEnd(buf, i)
  <2>1. e = (e - 1) + 1
    OBVIOUS
  <2> DEFINE k == e - 1
  <2> HIDE DEF k
  <2>2. e = IF buf[k] = Bel THEN k ELSE k + 1
    BY <1>3, <2>1 DEF k
  <2> QED BY <1>3, <2>2 DEF StringEnd, k
<1> QED BY <1>1, <1>2, <1>3

LEMMA WindowStringEnd ==
    ASSUME NEW S, NEW a \in Seq(S), NEW b \in Seq(S), NEW d, Window(b, a, d),
           NEW i \in Nat, NEW e \in Nat, e <= Len(b)
    PROVE  e \in StringEnd(b, i) <=> d + e \in StringEnd(a, d + i)
<1>1. d \in Nat /\ Len(b) \in Nat /\ Len(a) \in Nat /\ d + Len(b) <= Len(a)
  BY DEF Window
<1>2. e \in i + 1 .. Len(b) <=> d + e \in (d + i) + 1 .. Len(a)
  BY <1>1
<1>3. e \in i + 1 .. Len(b) => b[e] = a[d + e]
  BY DEF Window
<1>4. e - 1 \in i + 1 .. Len(b) <=> (d + e) - 1 \in (d + i) + 1 .. Len(a)
  BY <1>1
<1>5. ASSUME e - 1 \in i + 1 .. Len(b)
      PROVE  /\ b[e - 1] = a[(d + e) - 1]
             /\ StringStop(b, e - 1) <=> StringStop(a, (d + e) - 1)
  <2>1. e - 1 \in 1 .. Len(b) /\ e - 1 < Len(b) /\ d + (e - 1) = (d + e) - 1
    BY <1>1, <1>5
  <2>2. b[e - 1] = a[d + (e - 1)]
    BY <2>1 DEF Window
  <2>3. StringStop(b, e - 1) <=> StringStop(a, d + (e - 1))
    BY <2>1, WindowStop
  <2> QED BY <2>1, <2>2, <2>3
<1>6. d + e \in Nat /\ d + i \in Nat
  BY <1>1
<1>7. d + e \in StringEnd(a, d + i) <=>
          \/ d + e \in (d + i) + 1 .. Len(a) /\ a[d + e] = Bel
          \/ /\ (d + e) - 1 \in (d + i) + 1 .. Len(a) /\ a[(d + e) - 1] # Bel
             /\ StringStop(a, (d + e) - 1)
  BY <1>6, StringEndStops
<1>8. e \in StringEnd(b, i) <=>
          \/ e \in i + 1 .. Len(b) /\ b[e] = Bel
          \/ e - 1 \in i + 1 .. Len(b) /\ b[e - 1] # Bel /\ StringStop(b, e - 1)
  BY StringEndStops
<1> QED BY <1>2, <1>3, <1>4, <1>5, <1>7, <1>8

LEMMA WindowEnds ==
    ASSUME NEW S, NEW a \in Seq(S), NEW b \in Seq(S), NEW d, Window(b, a, d),
           NEW i \in Nat, i + 2 <= Len(b), NEW e \in Nat, e <= Len(b)
    PROVE  e \in Ends(b, i) <=> d + e \in Ends(a, d + i)
<1>1. i + 2 \in Nat /\ d \in Nat /\ (d + i) + 2 = d + (i + 2) /\ i + 2 \in 1 .. Len(b)
  BY DEF Window
<1>2. b[i + 2] = a[(d + i) + 2]
  BY <1>1 DEF Window
<1>3. e \in CsiEnd(b, i + 2) <=> d + e \in CsiEnd(a, d + (i + 2))
  BY <1>1, WindowCsiEnd
<1>4. e \in StringEnd(b, i + 2) <=> d + e \in StringEnd(a, d + (i + 2))
  BY <1>1, WindowStringEnd
<1> QED BY <1>1, <1>2, <1>3, <1>4 DEF Ends

\* A terminator that the window holds is the first one in the buffer too.
SameEnd(b, a, d, i) == Ends(a, d + i) # {} /\ Min(Ends(a, d + i)) = d + Min(Ends(b, i))
LEMMA WindowMin ==
    ASSUME NEW S, NEW a \in Seq(S), NEW b \in Seq(S), NEW d, Window(b, a, d),
           NEW i \in Nat, i + 2 <= Len(b), Ends(b, i) # {}
    PROVE  SameEnd(b, a, d, i)
<1> DEFINE m == Min(Ends(b, i))
<1>1. d \in Nat /\ Len(b) \in Nat /\ d + i \in Nat
  BY DEF Window
<1>2. Ends(b, i) \subseteq i + 3 .. Len(b) /\ Ends(b, i) \subseteq Nat
  BY EndsInside
<1>3. m \in Ends(b, i) /\ \A y \in Ends(b, i) : m <= y
  BY <1>2, MinIsLeast
<1> HIDE DEF m
<1>4. m \in Nat /\ m <= Len(b)
  BY <1>2, <1>3
<1>5. d + m \in Ends(a, d + i)
  BY <1>3, <1>4, WindowEnds
<1>6. Ends(a, d + i) \subseteq (d + i) + 3 .. Len(a) /\ Ends(a, d + i) \subseteq Nat
  BY <1>1, EndsInside
<1>7. \A y \in Ends(a, d + i) : d + m <= y
  <2> TAKE y \in Ends(a, d + i)
  <2>1. y \in Nat /\ y - d \in Nat /\ d + (y - d) = y
    BY <1>1, <1>6
  <2>2. CASE y - d <= Len(b)
    <3>1. y - d \in Ends(b, i)
      BY <2>1, <2>2, WindowEnds
    <3>2. m <= y - d
      BY <1>3, <3>1
    <3> QED BY <1>1, <1>4, <2>1, <3>2
  <2>3. CASE ~ (y - d <= Len(b))
    BY <1>1, <1>4, <2>1, <2>3
  <2> QED BY <2>2, <2>3
<1>8. Min(Ends(a, d + i)) = d + m
  BY <1>5, <1>6, <1>7, MinIs
<1> QED BY <1>5, <1>8 DEF m, SameEnd

LEMMA PartFacts ==
    ASSUME NEW S, NEW buf \in Seq(S), NEW i \in Nat, NEW e \in Nat, i <= e, e <= Len(buf)
    PROVE  /\ SubSeq(buf, i + 1, e) \in Seq(S) /\ Len(SubSeq(buf, i + 1, e)) = e - i
           /\ \A k \in 1 .. e - i : SubSeq(buf, i + 1, e)[k] = buf[i + k]
<1> DEFINE t == SubSeq(buf, i + 1, e)
<1>1. \A k \in i + 1 .. e : buf[k] \in S
  OBVIOUS
<1>2. /\ t \in Seq(S)
      /\ Len(t) = IF i + 1 <= e THEN e - (i + 1) + 1 ELSE 0
      /\ \A k \in 1 .. e - (i + 1) + 1 : t[k] = buf[(i + 1) + k - 1]
  BY <1>1, SubSeqProperties
<1> HIDE DEF t
<1>3. Len(t) = e - i /\ \A k \in 1 .. e - i : t[k] = buf[i + k]
  BY <1>2
<1> QED BY <1>2, <1>3 DEF t

SamePart(b, a, d, i, e) == SubSeq(b, i + 1, e) = SubSeq(a, (d + i) + 1, d + e)
LEMMA WindowPart ==
    ASSUME NEW S, NEW a \in Seq(S), NEW b \in Seq(S), NEW d, Window(b, a, d),
           NEW i \in Nat, NEW e \in Nat, i <= e, e <= Len(b)
    PROVE  SamePart(b, a, d, i, e)
<1> DEFINE s == SubSeq(b, i + 1, e)
           t == SubSeq(a, (d + i) + 1, d + e)
<1>1. /\ d + i \in Nat /\ d + e \in Nat /\ d + i <= d + e /\ d + e <= Len(a)
      /\ d \in Nat /\ (d + e) - (d + i) = e - i
  BY DEF Window
<1>2. s \in Seq(S) /\ Len(s) = e - i /\ \A k \in 1 .. e - i : s[k] = b[i + k]
  BY PartFacts
<1>3. /\ t \in Seq(S) /\ Len(t) = (d + e) - (d + i)
      /\ \A k \in 1 .. (d + e) - (d + i) : t[k] = a[(d + i) + k]
  BY <1>1, PartFacts
<1> HIDE DEF s, t
<1>4. \A k \in 1 .. e - i : b[i + k] = a[(d + i) + k]
  <2> TAKE k \in 1 .. e - i
  <2>1. i + k \in 1 .. Len(b) /\ d + (i + k) = (d + i) + k
    BY <1>1
  <2> QED BY <2>1 DEF Window
<1>5. Len(s) = Len(t) /\ \A k \in 1 .. Len(s) : s[k] = t[k]
  BY <1>1, <1>2, <1>3, <1>4
<1>6. s = t
  BY <1>2, <1>3, <1>5, SeqEqual
<1> QED BY <1>6 DEF s, t, SamePart

LEMMA WindowByte ==
    ASSUME NEW a, NEW b, NEW d, Window(b, a, d), NEW i \in Nat
    PROVE  /\ i + 1 \in 1 .. Len(b) => b[i + 1] = a[(d + i) + 1]
           /\ i + 2 \in 1 .. Len(b) => b[i + 2] = a[(d + i) + 2]
<1>1. d + (i + 1) = (d + i) + 1 /\ d + (i + 2) = (d + i) + 2
  BY DEF Window
<1> QED BY <1>1 DEF Window

\* The window at the end of the buffer: the same data is missing.
LEMMA SuffixUnfinished ==
    ASSUME NEW S, NEW a \in Seq(S), NEW b \in Seq(S), NEW d, Window(b, a, d),
           d + Len(b) = Len(a), NEW i \in 0 .. Len(b) - 1
    PROVE  Unfinished(b, i) <=> Unfinished(a, d + i)
<1>1. /\ d \in Nat /\ Len(b) \in Nat /\ i \in Nat /\ d + i \in Nat
      /\ i + 1 = Len(b) <=> (d + i) + 1 = Len(a)
  BY DEF Window
<1>2. CASE i + 1 = Len(b)
  BY <1>1, <1>2 DEF Unfinished
<1>3. CASE i + 1 # Len(b)
  <2>1. i + 2 <= Len(b) /\ i + 2 \in 1 .. Len(b)
    BY <1>1, <1>3
  <2>2. b[i + 2] = a[(d + i) + 2]
    BY <1>1, <2>1, WindowByte
  <2>3. ASSUME Ends(b, i) # {} PROVE Ends(a, d + i) # {}
    BY <1>1, <2>1, <2>3, WindowMin DEF SameEnd
  <2>4. ASSUME Ends(a, d + i) # {} PROVE Ends(b, i) # {}
    <3>1. PICK y \in Ends(a, d + i) : TRUE
      BY <2>4
    <3>2. y \in (d + i) + 3 .. Len(a)
      BY <1>1, EndsInside
    <3>3. y - d \in Nat /\ y - d <= Len(b) /\ d + (y - d) = y
      BY <1>1, <3>2
    <3>4. y - d \in Ends(b, i)
      BY <1>1, <2>1, <3>1, <3>3, WindowEnds
    <3> QED BY <3>4
  <2> QED BY <1>1, <1>3, <2>2, <2>3, <2>4 DEF Unfinished
<1> QED BY <1>2, <1>3

LEMMA SuffixRest ==
    ASSUME NEW S, NEW a \in Seq(S), NEW b \in Seq(S), NEW d, Window(b, a, d),
           d + Len(b) = Len(a), NEW i \in 0 .. Len(b)
    PROVE  Rest(b, i) = Rest(a, d + i)
<1>1. i \in Nat /\ Len(b) \in Nat /\ i <= Len(b)
  OBVIOUS
<1>2. SamePart(b, a, d, i, Len(b))
  BY <1>1, WindowPart
<1> QED BY <1>2 DEF Rest, SamePart

\* What the scan computes from a position on is what it computes for the data
\* that is left there.
LEMMA SuffixStrip ==
    ASSUME NEW S, NEW a \in Seq(S), NEW b \in Seq(S), NEW d, Window(b, a, d),
           d + Len(b) = Len(a)
    PROVE  \A i \in 0 .. Len(b) : StripScan(b)[i] = StripScan(a)[d + i]
<1> DEFINE n == Len(b)
           f == StripScan(a)
           g == StripScan(b)
           T == {i \in 0 .. n : g[i] = f[d + i]}
<1>0. n \in Nat /\ d \in Nat /\ d + n = Len(a)
  BY DEF Window
<1>1. \A i \in 0 .. n : g[i] \in Cleaned(S)
  BY StripCleaned
<1>2. \A i \in 0 .. d + n : f[i] \in Cleaned(S)
  BY <1>0, StripCleaned
<1>3. ASSUME NEW i \in 0 .. n, \A j \in i + 1 .. n : j \in T
      PROVE  i \in T
  <2>1. CASE i = n
    BY <1>0, <2>1, StripAtEnd
  <2>2. CASE i # n
    <3>1. /\ i \in 0 .. n - 1 /\ d + i \in 0 .. Len(a) - 1 /\ i + 1 \in 0 .. n
          /\ i + 1 \in i + 1 .. n /\ i \in Nat /\ (d + i) + 1 = d + (i + 1)
          /\ (d + i) + 1 \in 0 .. d + n /\ d + i \in Nat
      BY <1>0, <2>2
    <3>2. g[i + 1] = f[(d + i) + 1] /\ b[i + 1] = a[(d + i) + 1]
      BY <1>3, <3>1, WindowByte
    <3>3. Rest(b, i) = Rest(a, d + i) /\ (Unfinished(b, i) <=> Unfinished(a, d + i))
      BY <3>1, SuffixRest, SuffixUnfinished
    <3>4. ASSUME ~Unfinished(b, i)
          PROVE  i + 2 <= n /\ b[i + 2] = a[(d + i) + 2]
      <4>1. i + 1 # n
        BY <3>4 DEF Unfinished
      <4>2. i + 2 <= n /\ i + 2 \in 1 .. n
        BY <3>1, <4>1
      <4>3. d + (i + 2) = (d + i) + 2
        BY <1>0, <3>1
      <4>4. b[i + 2] = a[d + (i + 2)]
        BY <4>2 DEF Window
      <4> QED BY <4>2, <4>3, <4>4
    <3>5. ASSUME ~Unfinished(b, i), b[i + 2] \in Kinds
          PROVE  /\ g[Min(Ends(b, i))] = f[Min(Ends(a, d + i))]
                 /\ SubSeq(b, i + 1, Min(Ends(b, i)))
                      = SubSeq(a, (d + i) + 1, Min(Ends(a, d + i)))
      <4>1. Ends(b, i) # {}
        BY <3>5 DEF Unfinished, Kinds
      <4>2. Min(Ends(b, i)) \in i + 3 .. n
        BY <3>1, <4>1, MinEndInside
      <4>3. Min(Ends(a, d + i)) = d + Min(Ends(b, i))
        BY <3>1, <3>4, <3>5, <4>1, WindowMin DEF SameEnd
      <4> DEFINE m == Min(Ends(b, i))
      <4> HIDE DEF m
      <4>4. m \in i + 1 .. n /\ m \in Nat /\ i <= m /\ m <= n
        BY <3>1, <4>2 DEF m
      <4>5. g[m] = f[d + m]
        BY <1>3, <4>4
      <4>6. SamePart(b, a, d, i, m)
        BY <3>1, <4>4, WindowPart
      <4> QED BY <4>3, <4>5, <4>6 DEF m, SamePart
    <3>6. g[i + 1] \in Cleaned(S) /\ f[(d + i) + 1] \in Cleaned(S)
      BY <1>1, <1>2, <3>1
    <3>7. ByCases(f, a, d + i) /\ ByCases(g, b, i)
      BY <3>1, <3>6, StripCases
    <3> HIDE DEF f, g
    <3>8. CASE b[i + 1] # Esc
      BY <3>2, <3>7, <3>8 DEF ByCases
    <3>9. CASE b[i + 1] = Esc /\ Unfinished(b, i)
      BY <3>2, <3>3, <3>7, <3>9 DEF ByCases
    <3>10. CASE b[i + 1] = Esc /\ ~Unfinished(b, i) /\ b[i + 2] \notin Kinds
      BY <3>2, <3>3, <3>4, <3>7, <3>10 DEF ByCases
    <3>11. CASE b[i + 1] = Esc /\ ~Unfinished(b, i) /\ b[i + 2] \in Kinds
      BY <3>2, <3>3, <3>4, <3>5, <3>7, <3>11 DEF ByCases
    <3> QED BY <3>8, <3>9, <3>10, <3>11
  <2> QED BY <2>1, <2>2
<1> HIDE DEF T
<1>4. \A i \in 0 .. n : i \in T
  BY <1>0, <1>3, Backwards
<1> QED BY <1>4 DEF T

LEMMA RestWindow ==
    ASSUME NEW S, NEW a \in Seq(S), NEW i \in 0 .. Len(a)
    PROVE  /\ Window(Rest(a, i), a, i) /\ i + Len(Rest(a, i)) = Len(a)
           /\ Strip(Rest(a, i)) = StripScan(a)[i]
<1> DEFINE b == Rest(a, i)
<1>1. /\ b \in Seq(S) /\ Len(b) = Len(a) - i
      /\ \A k \in 1 .. Len(a) - i : b[k] = a[i + k]
  BY RestFacts
<1> HIDE DEF b
<1>2. Window(b, a, i) /\ i + Len(b) = Len(a)
  BY <1>1 DEF Window
<1>3. 0 \in 0 .. Len(b) /\ i + 0 = i
  BY <1>1
<1>4. \A j \in 0 .. Len(b) : StripScan(b)[j] = StripScan(a)[i + j]
  BY <1>1, <1>2, SuffixStrip
<1>5. Strip(b) = StripScan(b)[0]
  BY <1>1, StripUnfold
<1> QED BY <1>2, <1>3, <1>4, <1>5 DEF b

LEMMA PrefixWindow ==
    ASSUME NEW S, NEW a \in Seq(S), NEW n \in 0 .. Len(a)
    PROVE  /\ SubSeq(a, 1, n) \in Seq(S) /\ Len(SubSeq(a, 1, n)) = n
           /\ Window(SubSeq(a, 1, n), a, 0)
           /\ \A k \in 1 .. n : SubSeq(a, 1, n)[k] = a[k]
<1> DEFINE p == SubSeq(a, 1, n)
<1>1. 0 \in Nat /\ n \in Nat /\ 0 <= n /\ n <= Len(a) /\ 0 + 1 = 1 /\ n - 0 = n
  OBVIOUS
<1>2. /\ SubSeq(a, 0 + 1, n) \in Seq(S) /\ Len(SubSeq(a, 0 + 1, n)) = n - 0
      /\ \A k \in 1 .. n - 0 : SubSeq(a, 0 + 1, n)[k] = a[0 + k]
  BY <1>1, PartFacts
<1>3. p \in Seq(S) /\ Len(p) = n /\ \A k \in 1 .. n : p[k] = a[0 + k]
  BY <1>1, <1>2
<1> HIDE DEF p
<1>4. Window(p, a, 0)
  BY <1>1, <1>3 DEF Window
<1>5. \A k \in 1 .. n : p[k] = a[k]
  BY <1>1, <1>3
<1> QED BY <1>3, <1>4, <1>5 DEF p

\* What is left of the first read and the second read are what is left of all.
LEMMA RestsJoin ==
    ASSUME NEW S, NEW a \in Seq(S), NEW n \in 0 .. Len(a), NEW i \in 0 .. n
    PROVE  Rest(SubSeq(a, 1, n), i) \o Rest(a, n) = Rest(a, i)
<1> DEFINE p == SubSeq(a, 1, n)
           r == Rest(p, i)
           t == Rest(a, n)
           u == Rest(a, i)
<1>1. p \in Seq(S) /\ Len(p) = n /\ \A k \in 1 .. n : p[k] = a[k]
  BY PrefixWindow
<1> HIDE DEF p
<1>2. r \in Seq(S) /\ Len(r) = n - i /\ \A k \in 1 .. n - i : r[k] = p[i + k]
  BY <1>1, RestFacts
<1>3. t \in Seq(S) /\ Len(t) = Len(a) - n /\ \A k \in 1 .. Len(a) - n : t[k] = a[n + k]
  BY RestFacts
<1>4. i \in 0 .. Len(a)
  OBVIOUS
<1>5. u \in Seq(S) /\ Len(u) = Len(a) - i /\ \A k \in 1 .. Len(a) - i : u[k] = a[i + k]
  BY <1>4, RestFacts
<1> HIDE DEF r, t, u
<1>7. \A k \in 1 .. n - i : r[k] = a[i + k]
  BY <1>1, <1>2
<1>8. Len(r \o t) = Len(u) /\ r \o t \in Seq(S)
  <2>1. r \o t \in Seq(S) /\ Len(r \o t) = Len(r) + Len(t)
    BY <1>2, <1>3, ConcatProperties
  <2> QED BY <1>2, <1>3, <1>5, <2>1
<1>9. \A k \in 1 .. Len(r \o t) : (r \o t)[k] = u[k]
  <2> TAKE k \in 1 .. Len(r \o t)
  <2>1. k \in 1 .. Len(a) - i /\ Len(r) = n - i
    BY <1>2, <1>5, <1>8
  <2>2. CASE k <= n - i
    <3>1. (r \o t)[k] = r[k] /\ k \in 1 .. n - i
      BY <1>2, <1>3, <2>1, <2>2
    <3> QED BY <1>5, <1>7, <2>1, <3>1
  <2>3. CASE k > n - i
    <3>1. (r \o t)[k] = t[k - (n - i)] /\ k - (n - i) \in 1 .. Len(a) - n
      BY <1>2, <1>3, <2>1, <2>3
    <3>2. n + (k - (n - i)) = i + k
      BY <2>1
    <3> QED BY <1>3, <1>5, <2>1, <3>1, <3>2
  <2> QED BY <2>1, <2>2, <2>3
<1>10. r \o t = u
  BY <1>5, <1>8, <1>9, SeqEqual
<1> QED BY <1>10 DEF r, t, u, p

Regroups(s, t, u) == (s \o t) \o u = s \o (t \o u)
LEMMA Regroup ==
    ASSUME NEW S, NEW s \in Seq(S), NEW t \in Seq(S), NEW u \in Seq(S)
    PROVE  Regroups(s, t, u)
BY ConcatAssociative DEF Regroups

\* Two reads: what comes of the first, then of its rest and the second.
Join(c, d) == [clean |-> c.clean \o d.clean, rest |-> d.rest]

LEMMA KeepJoin ==
    ASSUME NEW S, NEW b \in S, NEW c \in Cleaned(S), NEW d \in Cleaned(S)
    PROVE  Keep(b, Join(c, d)) = Join(Keep(b, c), d) /\ Keep(b, c).rest = c.rest
<1>1. <<b>> \in Seq(S) /\ c.clean \in Seq(S) /\ d.clean \in Seq(S)
  BY DEF Cleaned
<1>2. Regroups(<<b>>, c.clean, d.clean)
  BY <1>1, Regroup
<1>3. <<b>> \o (c.clean \o d.clean) = (<<b>> \o c.clean) \o d.clean
  BY <1>2 DEF Regroups
<1> QED BY <1>3 DEF Keep, Join

LEMMA StripInTwo ==
    ASSUME NEW S, NEW a \in Seq(S), NEW n \in 0 .. Len(a), NEW i \in 0 .. n
    PROVE  LET c == StripScan(SubSeq(a, 1, n))[i]
           IN  StripScan(a)[i] = Join(c, Strip(c.rest \o Rest(a, n)))
<1> DEFINE p == SubSeq(a, 1, n)
           f == StripScan(p)
           h == StripScan(a)
           D(j) == Strip(f[j].rest \o Rest(a, n))
           T == {j \in 0 .. n : h[j] = Join(f[j], D(j))}
<1>0. /\ n \in Nat /\ p \in Seq(S) /\ Len(p) = n /\ Window(p, a, 0) /\ n <= Len(a)
      /\ \A k \in 1 .. n : p[k] = a[k]
  BY PrefixWindow
<1> HIDE DEF p
<1>1. \A j \in 0 .. n : f[j] \in Cleaned(S)
  BY <1>0, StripCleaned
<1>2. \A j \in 0 .. Len(a) : h[j] \in Cleaned(S)
  BY StripCleaned
<1>3. Rest(a, n) \in Seq(S)
  BY RestFacts
<1>4. \A j \in 0 .. n : D(j) \in Cleaned(S)
  <2> TAKE j \in 0 .. n
  <2> DEFINE w == f[j].rest \o Rest(a, n)
  <2>1. f[j].rest \in Seq(S)
    BY <1>1 DEF Cleaned
  <2>2. w \in Seq(S)
    BY <1>3, <2>1
  <2> HIDE DEF w
  <2>3. 0 \in 0 .. Len(w)
    BY <2>2
  <2>4. Strip(w) \in Cleaned(S)
    BY <2>2, <2>3, StripUnfold, StripCleaned
  <2> QED BY <2>4 DEF w
<1>5. \A j \in 0 .. n : h[j] = Strip(Rest(a, j))
  BY RestWindow
<1>6. ASSUME NEW j \in 0 .. n, \A k \in j + 1 .. n : k \in T
      PROVE  j \in T
  <2>1. CASE j = n
    <3>1. f[j] = Nothing
      BY <1>0, <2>1, StripAtEnd
    <3>2. f[j].rest = <<>> /\ f[j].clean = <<>>
      BY <3>1 DEF Nothing
    <3>3. f[j].rest \o Rest(a, n) = Rest(a, n)
      BY <1>3, <3>2, ConcatEmptySeq
    <3>4. D(j) = h[j]
      BY <1>5, <2>1, <3>3
    <3>5. h[j] \in Cleaned(S)
      BY <1>2, <1>0
    <3> HIDE DEF h, D, f
    <3>6. Join(f[j], h[j]) = h[j]
      <4>1. h[j].clean \in Seq(S) /\ h[j] = [clean |-> h[j].clean, rest |-> h[j].rest]
        BY <3>5 DEF Cleaned
      <4>2. <<>> \o h[j].clean = h[j].clean
        BY <4>1, ConcatEmptySeq
      <4> QED BY <3>2, <4>1, <4>2 DEF Join
    <3> QED BY <3>4, <3>6
  <2>2. CASE j # n
    <3>1. /\ j \in 0 .. n - 1 /\ j + 1 \in 0 .. n /\ j \in 0 .. Len(a) - 1 /\ j \in Nat
          /\ j + 1 \in j + 1 .. n /\ j + 1 \in 1 .. Len(p) /\ 0 + j = j
          /\ j + 1 \in 0 .. Len(a)
      BY <1>0, <2>2
    <3>2. ByCases(f, p, j) /\ ByCases(h, a, j)
      <4>1. f[j + 1] \in Cleaned(S) /\ h[j + 1] \in Cleaned(S)
        BY <1>1, <1>2, <3>1
      <4>2. j \in 0 .. Len(p) - 1
        BY <1>0, <3>1
      <4> QED BY <1>0, <3>1, <4>1, <4>2, StripCases
    <3>3. p[j + 1] = a[j + 1] /\ p[j + 1] \in S
      BY <1>0, <3>1
    <3> HIDE DEF h, f
    <3>4. h[j + 1] = Join(f[j + 1], D(j + 1))
      BY <1>6, <3>1
    <3>5. ASSUME f[j] = Keep(a[j + 1], f[j + 1]), h[j] = Keep(a[j + 1], h[j + 1])
          PROVE  j \in T
      <4>1. f[j + 1] \in Cleaned(S) /\ D(j + 1) \in Cleaned(S)
        BY <1>1, <1>4, <3>1
      <4>2. f[j].rest = f[j + 1].rest
        BY <3>5 DEF Keep
      <4>3. D(j) = D(j + 1)
        BY <4>2
      <4> HIDE DEF D
      <4>4. h[j] = Join(f[j], D(j + 1))
        BY <3>3, <3>4, <3>5, <4>1, KeepJoin
      <4> QED BY <4>3, <4>4
    <3>6. CASE p[j + 1] # Esc
      BY <3>2, <3>3, <3>5, <3>6 DEF ByCases
    <3>7. CASE p[j + 1] = Esc /\ Unfinished(p, j)
      <4>1. f[j] = [clean |-> <<>>, rest |-> Rest(p, j)]
        BY <3>2, <3>7 DEF ByCases
      <4>2. Rest(p, j) \o Rest(a, n) = Rest(a, j)
        BY RestsJoin DEF p
      <4>3. D(j) = h[j] /\ f[j].clean = <<>>
        <5>1. f[j].rest = Rest(p, j) /\ f[j].clean = <<>>
          BY <4>1
        <5>2. D(j) = Strip(Rest(a, j))
          BY <4>2, <5>1
        <5> QED BY <1>5, <5>1, <5>2
      <4>4. h[j] \in Cleaned(S)
        BY <1>2, <3>1
      <4> HIDE DEF D
      <4>5. Join(f[j], h[j]) = h[j]
        <5>1. h[j].clean \in Seq(S) /\ h[j] = [clean |-> h[j].clean, rest |-> h[j].rest]
          BY <4>4 DEF Cleaned
        <5>2. <<>> \o h[j].clean = h[j].clean
          BY <5>1, ConcatEmptySeq
        <5> QED BY <4>3, <5>1, <5>2 DEF Join
      <4> QED BY <4>3, <4>5
    <3>8. CASE p[j + 1] = Esc /\ ~Unfinished(p, j)
      <4>1. j + 1 # n
        BY <1>0, <3>8 DEF Unfinished
      <4>2. j + 2 <= n /\ j + 2 \in 1 .. n /\ (0 + j) + 2 = j + 2 /\ j + 1 # Len(a)
        BY <1>0, <3>1, <4>1
      <4>3. p[j + 2] = a[j + 2]
        BY <1>0, <4>2
      <4>4. CASE p[j + 2] \notin Kinds
        <5>1. ~Unfinished(a, j)
          BY <4>2, <4>3, <4>4 DEF Unfinished, Kinds
        <5> QED BY <3>2, <3>3, <3>5, <3>8, <4>3, <4>4, <5>1 DEF ByCases
      <4>5. CASE p[j + 2] \in Kinds
        <5> DEFINE m == Min(Ends(p, j))
        <5>1. Ends(p, j) # {}
          BY <3>8, <4>5 DEF Unfinished, Kinds
        <5>2. m \in j + 3 .. n
          BY <1>0, <3>1, <5>1, MinEndInside
        <5>3. SameEnd(p, a, 0, j)
          BY <1>0, <3>1, <4>2, <5>1, WindowMin
        <5>4. Ends(a, j) # {} /\ Min(Ends(a, j)) = m
          BY <3>1, <5>2, <5>3 DEF SameEnd
        <5>5. ~Unfinished(a, j)
          BY <4>2, <5>4 DEF Unfinished
        <5> HIDE DEF m
        <5>6. m \in j + 1 .. n /\ m \in Nat /\ j <= m /\ m <= Len(p) /\ m \in 0 .. n
              /\ 0 + m = m
          BY <1>0, <3>1, <5>2
        <5>7. SamePart(p, a, 0, j, m)
          BY <1>0, <3>1, <5>6, WindowPart
        <5>8. SubSeq(p, j + 1, m) = SubSeq(a, j + 1, m)
          BY <3>1, <5>6, <5>7 DEF SamePart
        <5>9. CASE IsQuery(SubSeq(p, j + 1, m))
          <6>1. f[j] = f[m] /\ h[j] = h[m]
            BY <3>2, <3>3, <3>8, <4>3, <4>5, <5>4, <5>5, <5>8, <5>9 DEF ByCases, m
          <6>2. h[m] = Join(f[m], D(m))
            BY <1>6, <5>6
          <6>3. D(j) = D(m)
            BY <6>1
          <6> QED BY <6>1, <6>2, <6>3
        <5>10. CASE ~IsQuery(SubSeq(p, j + 1, m))
          BY <3>2, <3>3, <3>5, <3>8, <4>3, <4>5, <5>4, <5>5, <5>8, <5>10 DEF ByCases, m
        <5> QED BY <5>9, <5>10
      <4> QED BY <4>4, <4>5
    <3> QED BY <3>6, <3>7, <3>8
  <2> QED BY <2>1, <2>2
<1> HIDE DEF T
<1>7. \A j \in 0 .. n : j \in T
  BY <1>0, <1>6, Backwards
<1> QED BY <1>7 DEF T, p

\* What strip_terminal_queries_stateful (ansi.rs:78) cleans does not depend on
\* how the network delivers the output: for every stream, wherever it is cut
\* into two reads, the same bytes come out when the rest of the first read is
\* put in front of the second.
THEOREM Unchunked ==
    ASSUME NEW S, NEW s \in Seq(S), NEW n \in 0 .. Len(s)
    PROVE  LET first  == Strip(SubSeq(s, 1, n))
               second == Strip(first.rest \o SubSeq(s, n + 1, Len(s)))
           IN  Strip(s) = [clean |-> first.clean \o second.clean, rest |-> second.rest]
<1> DEFINE p == SubSeq(s, 1, n)
           c == StripScan(p)[0]
<1>1. p \in Seq(S) /\ 0 \in 0 .. n
  BY PrefixWindow
<1>2. StripScan(s)[0] = Join(c, Strip(c.rest \o Rest(s, n)))
  BY <1>1, StripInTwo
<1>3. Strip(s) = StripScan(s)[0] /\ Strip(p) = c
  BY <1>1, StripUnfold
<1> QED BY <1>2, <1>3 DEF Join, Rest

-----------------------------------------------------------------------------
(* Output made of pieces.                                                    *)

FlattenScan(q) ==
    CHOOSE f : f = [i \in 1 .. Len(q) |-> IF i = 1 THEN q[i] ELSE f[i - 1] \o q[i]]
\* The first k pieces.
Flat(q, k) == IF k = 0 THEN <<>> ELSE FlattenScan(q)[k]

LEMMA FlattenScanExists ==
    ASSUME NEW q, Len(q) \in Nat
    PROVE  \E f : f = [i \in 1 .. Len(q) |-> IF i = 1 THEN q[i] ELSE f[i - 1] \o q[i]]
<1> DEFINE n == Len(q)
           E(f, i) == IF i = 1 THEN q[i] ELSE f[i - 1] \o q[i]
           T == {k \in 0 .. n : \E f : f = [i \in 1 .. k |-> E(f, i)]}
<1>1. 0 \in T
  <2> DEFINE f == [i \in 1 .. 0 |-> 0]
  <2>1. f = [i \in 1 .. 0 |-> E(f, i)]
    OBVIOUS
  <2> HIDE DEF f, E
  <2>2. \E g : g = [i \in 1 .. 0 |-> E(g, i)]
    BY <2>1, Zenon
  <2>3. 0 \in 0 .. n
    OBVIOUS
  <2> QED BY <2>2, <2>3, Zenon
<1>2. ASSUME NEW k \in 0 .. n - 1, k \in T
      PROVE  k + 1 \in T
  <2>1. PICK f : f = [i \in 1 .. k |-> E(f, i)]
    BY <1>2
  <2> DEFINE g == [i \in 1 .. k + 1 |-> IF i = k + 1 THEN E(f, i) ELSE f[i]]
  <2>2. k \in Nat /\ \A i \in 1 .. k + 1 : i = k + 1 \/ i \in 1 .. k
    OBVIOUS
  <2>3. \A i \in 1 .. k + 1 : g[i] = E(f, i)
    BY <2>1, <2>2
  <2>4. \A i \in 1 .. k : f[i] = g[i]
    BY <2>2
  <2> HIDE DEF g
  <2>5. \A i \in 1 .. k + 1 : i # 1 => i - 1 \in 1 .. k
    BY <2>2
  <2>6. \A i \in 1 .. k + 1 : E(f, i) = E(g, i)
    BY <2>4, <2>5
  <2> HIDE DEF E
  <2>7. g = [i \in 1 .. k + 1 |-> E(g, i)]
    BY <2>3, <2>6 DEF g
  <2> QED BY <2>2, <2>7
<1> HIDE DEF T
<1>3. \A k \in 0 .. n : k \in T
  BY <1>1, <1>2, Induction
<1>4. n \in T
  BY <1>3
<1> QED BY <1>4 DEF T

LEMMA FlatSteps ==
    ASSUME NEW S, NEW q \in Seq(Seq(S))
    PROVE  /\ FlattenSeq(q) = Flat(q, Len(q)) /\ Flat(q, 0) = <<>>
           /\ \A k \in 0 .. Len(q) : Flat(q, k) \in Seq(S)
           /\ \A k \in 0 .. Len(q) - 1 : Flat(q, k + 1) = Flat(q, k) \o q[k + 1]
<1> DEFINE n == Len(q)
           f == FlattenScan(q)
<1>0. n \in Nat /\ \A k \in 1 .. n : q[k] \in Seq(S)
  OBVIOUS
<1>1. f = [i \in 1 .. n |-> IF i = 1 THEN q[i] ELSE f[i - 1] \o q[i]]
  BY <1>0, FlattenScanExists DEF FlattenScan
<1>2. FlattenSeq(q) = Flat(q, n)
  <2>1. CASE n = 0
    <3>1. q = <<>>
      BY <2>1
    <3> QED BY <2>1, <3>1 DEF FlattenSeq, Flat
  <2>2. CASE n # 0
    BY <2>2 DEF FlattenSeq, Flat, FlattenScan
  <2> QED BY <2>1, <2>2
<1>3. Flat(q, 0) = <<>>
  BY DEF Flat
<1> HIDE DEF f
<1>4. \A k \in 0 .. n - 1 :
          Flat(q, k + 1) = IF k = 0 THEN q[1] ELSE Flat(q, k) \o q[k + 1]
  <2> TAKE k \in 0 .. n - 1
  <2>1. k + 1 \in 1 .. n /\ k + 1 # 0 /\ (k + 1) - 1 = k /\ (k + 1 = 1 <=> k = 0)
    BY <1>0
  <2>2. f[k + 1] = IF k = 0 THEN q[k + 1] ELSE f[k] \o q[k + 1]
    BY <1>1, <2>1
  <2> QED BY <2>1, <2>2 DEF Flat, f
<1> DEFINE T == {k \in 0 .. n : Flat(q, k) \in Seq(S)}
<1>5. 0 \in T
  <2>1. 0 \in 0 .. n /\ <<>> \in Seq(S)
    BY <1>0
  <2> QED BY <1>3, <2>1
<1>6. ASSUME NEW k \in 0 .. n - 1, k \in T
      PROVE  k + 1 \in T
  <2>1. k + 1 \in 1 .. n /\ k + 1 \in 0 .. n /\ (k = 0 => k + 1 = 1)
    BY <1>0
  <2>2. q[k + 1] \in Seq(S) /\ Flat(q, k) \in Seq(S)
    BY <1>0, <1>6, <2>1
  <2>3. Flat(q, k + 1) \in Seq(S)
    <3>1. CASE k = 0
      BY <1>4, <2>1, <2>2, <3>1
    <3>2. CASE k # 0
      <4>1. Flat(q, k + 1) = Flat(q, k) \o q[k + 1]
        BY <1>4, <3>2
      <4> QED BY <2>2, <4>1, ConcatProperties
    <3> QED BY <3>1, <3>2
  <2> QED BY <2>1, <2>3
<1> HIDE DEF T
<1>7. \A k \in 0 .. n : k \in T
  BY <1>0, <1>5, <1>6, Induction
<1>8. \A k \in 0 .. n - 1 : Flat(q, k + 1) = Flat(q, k) \o q[k + 1]
  <2> TAKE k \in 0 .. n - 1
  <2>1. CASE k = 0
    <3>1. q[1] \in Seq(S) /\ k + 1 = 1
      BY <1>0, <2>1
    <3>2. <<>> \o q[1] = q[1]
      BY <3>1, ConcatEmptySeq
    <3> QED BY <1>3, <1>4, <2>1, <3>1, <3>2
  <2>2. CASE k # 0
    BY <1>4, <2>2
  <2> QED BY <2>1, <2>2
<1> QED BY <1>2, <1>3, <1>7, <1>8 DEF T

\* The first k of the first m pieces are the first k pieces.
LEMMA FlatPrefix ==
    ASSUME NEW S, NEW q \in Seq(Seq(S)), NEW m \in 0 .. Len(q)
    PROVE  FlattenSeq(SubSeq(q, 1, m)) = Flat(q, m)
<1> DEFINE r == SubSeq(q, 1, m)
           T == {k \in 0 .. m : Flat(r, k) = Flat(q, k)}
<1>0. /\ m \in Nat /\ m <= Len(q) /\ Len(q) \in Nat
      /\ r \in Seq(Seq(S)) /\ Len(r) = m /\ \A k \in 1 .. m : r[k] = q[k]
  BY PrefixWindow
<1> HIDE DEF r
<1>1. 0 \in T
  BY <1>0 DEF Flat
<1>2. ASSUME NEW k \in 0 .. m - 1, k \in T
      PROVE  k + 1 \in T
  <2>1. k \in 0 .. Len(r) - 1 /\ k \in 0 .. Len(q) - 1 /\ k + 1 \in 1 .. m /\ k + 1 \in 0 .. m
    BY <1>0
  <2>2. Flat(r, k + 1) = Flat(r, k) \o r[k + 1]
    BY <1>0, <2>1, FlatSteps
  <2>3. Flat(q, k + 1) = Flat(q, k) \o q[k + 1]
    BY <2>1, FlatSteps
  <2> QED BY <1>0, <1>2, <2>1, <2>2, <2>3
<1> HIDE DEF T
<1>3. \A k \in 0 .. m : k \in T
  BY <1>0, <1>1, <1>2, Induction
<1>4. m \in T
  BY <1>0, <1>3
<1>5. FlattenSeq(r) = Flat(r, m)
  BY <1>0, FlatSteps
<1> QED BY <1>4, <1>5 DEF T, r

-----------------------------------------------------------------------------
(* strip_terminal_queries_stateful on output made of whole pieces.           *)

LEMMA StripTyped ==
    ASSUME NEW S, NEW s \in Seq(S)
    PROVE  Strip(s) \in Cleaned(S)
<1>1. 0 \in 0 .. Len(s)
  OBVIOUS
<1>2. StripScan(s)[0] \in Cleaned(S)
  BY <1>1, StripCleaned
<1> QED BY <1>2, StripUnfold

\* After a part that is complete the scan starts afresh.
LEMMA StripConcat ==
    ASSUME NEW S, NEW s \in Seq(S), NEW t \in Seq(S), Strip(s).rest = <<>>
    PROVE  Strip(s \o t) = Join(Strip(s), Strip(t))
<1> DEFINE u == s \o t
           n == Len(s)
<1>1. u \in Seq(S) /\ Len(u) = n + Len(t) /\ n \in Nat /\ Len(t) \in Nat
  BY ConcatProperties
<1>2. n \in 0 .. Len(u)
  BY <1>1
<1>3. SubSeq(u, 1, n) = s /\ SubSeq(u, n + 1, Len(u)) = t
  <2>1. SubSeq(s \o t, 1, Len(s)) = s
    BY SubSeqOfConcat1, SubSeqFull
  <2>2. SubSeq(s \o t, Len(s) + 1, Len(s \o t)) = t
    BY <1>1, SubSeqOfConcat2, SubSeqFull
  <2> QED BY <2>1, <2>2
<1>4. LET first  == Strip(SubSeq(u, 1, n))
          second == Strip(first.rest \o SubSeq(u, n + 1, Len(u)))
      IN  Strip(u) = [clean |-> first.clean \o second.clean, rest |-> second.rest]
  BY <1>1, <1>2, Unchunked
<1>5. <<>> \o t = t
  BY ConcatEmptySeq
<1> HIDE DEF u, n
<1>6. Strip(u) = Join(Strip(s), Strip(t))
  BY <1>3, <1>4, <1>5 DEF Join
<1> QED BY <1>6 DEF u

\* No sequence that could be a query starts after position i.
Plain(p, i) == \A j \in i + 1 .. Len(p) : p[j] = Esc => j < Len(p) /\ p[j + 1] \notin Kinds

LEMMA Prepended ==
    ASSUME NEW S, NEW b \in S, NEW r \in Seq(S)
    PROVE  /\ <<b>> \o r \in Seq(S) /\ Len(<<b>> \o r) = 1 + Len(r) /\ (<<b>> \o r)[1] = b
           /\ \A k \in 2 .. 1 + Len(r) : (<<b>> \o r)[k] = r[k - 1]
<1> DEFINE x == <<b>>
<1>1. x \in Seq(S) /\ Len(x) = 1 /\ x[1] = b
  OBVIOUS
<1> HIDE DEF x
<1>2. /\ x \o r \in Seq(S) /\ Len(x \o r) = Len(x) + Len(r)
      /\ \A k \in 1 .. Len(x) + Len(r) :
             (x \o r)[k] = IF k <= Len(x) THEN x[k] ELSE r[k - Len(x)]
  BY <1>1, ConcatProperties
<1>3. Len(x \o r) = 1 + Len(r) /\ Len(r) \in Nat
  BY <1>1, <1>2
<1>4. \A k \in 2 .. 1 + Len(r) : (x \o r)[k] = r[k - 1]
  BY <1>1, <1>2, <1>3
<1>5. (x \o r)[1] = b
  BY <1>1, <1>2, <1>3
<1> QED BY <1>2, <1>3, <1>4, <1>5 DEF x

\* Such bytes are kept as they are.
LEMMA PlainKept ==
    ASSUME NEW S, NEW p \in Seq(S), NEW from \in 0 .. Len(p), Plain(p, from)
    PROVE  StripScan(p)[from] = [clean |-> Rest(p, from), rest |-> <<>>]
<1> DEFINE n == Len(p)
           f == StripScan(p)
           T == {i \in 0 .. n : Plain(p, i) => f[i] = [clean |-> Rest(p, i), rest |-> <<>>]}
<1>0. n \in Nat
  OBVIOUS
<1>1. ASSUME NEW i \in 0 .. n, \A j \in i + 1 .. n : j \in T, Plain(p, i)
      PROVE  f[i] = [clean |-> Rest(p, i), rest |-> <<>>]
  <2>1. CASE i = n
    <3>1. Rest(p, n) \in Seq(S) /\ Len(Rest(p, n)) = n - n
      BY <1>0, RestFacts
    <3>2. Rest(p, n) = <<>>
      BY <1>0, <3>1
    <3> QED BY <2>1, <3>2, StripAtEnd DEF Nothing
  <2>2. CASE i # n
    <3>1. i \in 0 .. n - 1 /\ i + 1 \in i + 1 .. n /\ i + 1 \in 0 .. n /\ i \in Nat
      BY <1>0, <2>2
    <3>2. Plain(p, i + 1)
      BY <1>0, <1>1, <3>1 DEF Plain
    <3>3. f[i + 1] = [clean |-> Rest(p, i + 1), rest |-> <<>>]
      BY <1>1, <3>1, <3>2
    <3>4. f[i + 1] \in Cleaned(S)
      BY <3>1, StripCleaned
    <3>5. ByCases(f, p, i)
      BY <3>1, <3>4, StripCases
    <3> HIDE DEF f
    <3>6. p[i + 1] = Esc => ~Unfinished(p, i) /\ p[i + 2] \notin Kinds
      <4>1. p[i + 1] = Esc => i + 1 < n /\ p[(i + 1) + 1] \notin Kinds
        BY <1>1, <3>1 DEF Plain
      <4>2. (i + 1) + 1 = i + 2
        BY <3>1
      <4>3. i + 1 < n => i + 1 # n
        BY <1>0, <3>1
      <4> QED BY <4>1, <4>2, <4>3 DEF Unfinished, Kinds
    <3>7. f[i] = Keep(p[i + 1], f[i + 1])
      BY <3>5, <3>6 DEF ByCases
    <3>8. <<p[i + 1]>> \o Rest(p, i + 1) = Rest(p, i)
      <4> DEFINE r == Rest(p, i + 1)
                 t == Rest(p, i)
                 b == p[i + 1]
      <4>1. /\ r \in Seq(S) /\ Len(r) = n - (i + 1)
            /\ \A k \in 1 .. n - (i + 1) : r[k] = p[(i + 1) + k]
        BY <3>1, RestFacts
      <4>2. t \in Seq(S) /\ Len(t) = n - i /\ \A k \in 1 .. n - i : t[k] = p[i + k]
        BY RestFacts
      <4>3. b \in S
        BY <1>0, <3>1
      <4> HIDE DEF r, t, b
      <4> DEFINE u == <<b>> \o r
      <4>4. /\ u \in Seq(S) /\ Len(u) = 1 + Len(r) /\ u[1] = b
            /\ \A k \in 2 .. 1 + Len(r) : u[k] = r[k - 1]
        BY <4>1, <4>3, Prepended
      <4> HIDE DEF u
      <4>5. Len(u) = Len(t)
        BY <1>0, <3>1, <4>1, <4>2, <4>4
      <4>6. \A k \in 1 .. Len(u) : u[k] = t[k]
        <5> TAKE k \in 1 .. Len(u)
        <5>1. k \in 1 .. n - i /\ 1 + Len(r) = n - i
          BY <4>2, <4>4, <4>5
        <5>2. CASE k = 1
          BY <4>2, <4>4, <5>1, <5>2 DEF b
        <5>3. CASE k # 1
          <6>1. /\ k - 1 \in 1 .. n - (i + 1) /\ (i + 1) + (k - 1) = i + k
                /\ k \in 2 .. 1 + Len(r)
            BY <1>0, <3>1, <5>1, <5>3
          <6> QED BY <4>1, <4>2, <4>4, <5>1, <6>1
        <5> QED BY <5>2, <5>3
      <4>7. u = t
        BY <4>2, <4>4, <4>5, <4>6, SeqEqual
      <4> QED BY <4>7 DEF u, r, t, b
    <3> QED BY <3>3, <3>7, <3>8 DEF Keep
  <2> QED BY <2>1, <2>2
<1> HIDE DEF T
<1>2. \A i \in 0 .. n : i \in T
  BY <1>0, <1>1, Backwards DEF T
<1> QED BY <1>2 DEF T

\* A sequence with its terminator, and nothing after it.
Whole(p) ==
    /\ Len(p) >= 2 /\ p[1] = Esc /\ p[2] \in Kinds
    /\ Ends(p, 0) # {} /\ Min(Ends(p, 0)) = Len(p)
\* What the terminal answers, and what it shows: characters, two-byte
\* sequences, and whole sequences that are no queries and hold none.
Answered(p)  == Whole(p) /\ IsQuery(p)
Displayed(p) == Plain(p, 0) \/ (Whole(p) /\ ~IsQuery(p) /\ Plain(p, 1))

LEMMA WholeStrip ==
    ASSUME NEW S, NEW p \in Seq(S), Whole(p)
    PROVE  Strip(p) = IF IsQuery(p) THEN Nothing ELSE Keep(p[1], StripScan(p)[1])
<1>1. /\ 0 \in 0 .. Len(p) - 1 /\ 0 + 1 = 1 /\ 0 + 2 = 2 /\ 1 \in 0 .. Len(p)
      /\ 1 # Len(p) /\ Len(p) \in Nat
  BY DEF Whole
<1>2. ByCases(StripScan(p), p, 0)
  BY <1>1, StripCleaned, StripCases
<1>3. ~Unfinished(p, 0)
  BY <1>1 DEF Unfinished, Whole
<1>4. SubSeq(p, 1, Len(p)) = p
  BY SubSeqFull
<1>5. Strip(p) = StripScan(p)[0]
  BY StripUnfold
<1>6. StripScan(p)[Len(p)] = Nothing
  BY StripAtEnd
<1> QED BY <1>1, <1>2, <1>3, <1>4, <1>5, <1>6 DEF ByCases, Whole

LEMMA PieceStrip ==
    ASSUME NEW S, NEW p \in Seq(S), Answered(p) \/ Displayed(p)
    PROVE  Strip(p) = [clean |-> IF Answered(p) THEN <<>> ELSE p, rest |-> <<>>]
<1>1. CASE Answered(p)
  BY <1>1, WholeStrip DEF Answered, Nothing
<1>2. CASE ~Answered(p) /\ Plain(p, 0)
  <2>1. 0 \in 0 .. Len(p) /\ 0 + 1 = 1
    OBVIOUS
  <2>2. StripScan(p)[0] = [clean |-> Rest(p, 0), rest |-> <<>>]
    BY <1>2, <2>1, PlainKept
  <2>3. Rest(p, 0) = p
    BY <2>1, SubSeqFull DEF Rest
  <2> QED BY <1>2, <2>2, <2>3, StripUnfold
<1>3. CASE ~Answered(p) /\ Whole(p) /\ ~IsQuery(p) /\ Plain(p, 1)
  <2>1. 1 \in 0 .. Len(p) /\ p # <<>>
    BY <1>3 DEF Whole
  <2>2. StripScan(p)[1] = [clean |-> Rest(p, 1), rest |-> <<>>]
    BY <1>3, <2>1, PlainKept
  <2>3. Strip(p) = Keep(p[1], StripScan(p)[1])
    BY <1>3, WholeStrip
  <2>4. <<p[1]>> \o Rest(p, 1) = p
    <3>1. Rest(p, 1) = Tail(p) /\ p[1] = Head(p)
      BY <2>1, TailIsSubSeq DEF Rest
    <3>2. <<Head(p)>> \o Tail(p) = p
      BY <2>1
    <3> QED BY <3>1, <3>2
  <2> QED BY <1>3, <2>2, <2>3, <2>4 DEF Keep
<1> QED BY <1>1, <1>2, <1>3 DEF Displayed

\* strip_terminal_queries_stateful (ansi.rs:78) removes the queries and nothing
\* else, and holds nothing back, for output made of any number of whole pieces:
\* queries, and text and sequences that are shown.
THEOREM OnlyQueriesRemoved ==
    ASSUME NEW S, NEW q \in Seq(Seq(S)),
           \A k \in 1 .. Len(q) : Answered(q[k]) \/ Displayed(q[k])
    PROVE  Strip(FlattenSeq(q)) =
               [clean |-> FlattenSeq([k \in DOMAIN q |-> IF Answered(q[k]) THEN <<>> ELSE q[k]]),
                rest  |-> <<>>]
<1> DEFINE n == Len(q)
           kept == [k \in DOMAIN q |-> IF Answered(q[k]) THEN <<>> ELSE q[k]]
           T == {k \in 0 .. n : Strip(Flat(q, k)) = [clean |-> Flat(kept, k), rest |-> <<>>]}
<1>0. n \in Nat /\ DOMAIN q = 1 .. n /\ \A k \in 1 .. n : q[k] \in Seq(S)
  OBVIOUS
<1>1. \A k \in 1 .. n : kept[k] = IF Answered(q[k]) THEN <<>> ELSE q[k]
  BY <1>0
<1>2. \A k \in 1 .. n : kept[k] \in Seq(S)
  <2> TAKE k \in 1 .. n
  <2>1. <<>> \in Seq(S) /\ q[k] \in Seq(S)
    BY <1>0
  <2> QED BY <1>1, <2>1
<1>3. kept \in Seq(Seq(S)) /\ Len(kept) = n
  <2>1. DOMAIN kept = 1 .. n /\ kept = [k \in 1 .. n |-> kept[k]]
    BY <1>0
  <2> HIDE DEF kept
  <2> QED BY <1>0, <1>2, <2>1, LenProperties
<1> HIDE DEF kept
<1>4. 0 \in T
  <2>1. <<>> \in Seq(S) /\ Len(<<>>) = 0 /\ 0 \in 0 .. n
    BY <1>0
  <2>2. Strip(<<>>) = Nothing
    BY <2>1, StripUnfold, StripAtEnd
  <2> QED BY <2>1, <2>2 DEF Nothing, Flat
<1>5. ASSUME NEW k \in 0 .. n - 1, k \in T
      PROVE  k + 1 \in T
  <2> DEFINE s == Flat(q, k)
             t == q[k + 1]
             c == Flat(kept, k)
             d == kept[k + 1]
  <2>1. k + 1 \in 1 .. n /\ k + 1 \in 0 .. n /\ k \in 0 .. n
    BY <1>0
  <2>2. s \in Seq(S) /\ Flat(q, k + 1) = s \o t
    BY <2>1, FlatSteps
  <2>3. c \in Seq(S) /\ Flat(kept, k + 1) = c \o d
    BY <1>3, <2>1, FlatSteps
  <2>4. t \in Seq(S) /\ Strip(t) = [clean |-> d, rest |-> <<>>]
    BY <1>0, <1>1, <2>1, PieceStrip
  <2>5. Strip(s) = [clean |-> c, rest |-> <<>>]
    BY <1>5
  <2> HIDE DEF s, t, c, d
  <2>6. Strip(s).rest = <<>>
    BY <2>5
  <2>7. Strip(s \o t) = Join(Strip(s), Strip(t))
    BY <2>2, <2>4, <2>6, StripConcat
  <2>8. Strip(s \o t) = [clean |-> c \o d, rest |-> <<>>]
    BY <2>4, <2>5, <2>7 DEF Join
  <2> QED BY <2>1, <2>2, <2>3, <2>8
<1> HIDE DEF T
<1>6. \A k \in 0 .. n : k \in T
  BY <1>0, <1>4, <1>5, Induction
<1>7. n \in T
  BY <1>0, <1>6
<1>8. FlattenSeq(q) = Flat(q, n) /\ FlattenSeq(kept) = Flat(kept, n)
  BY <1>3, FlatSteps
<1> QED BY <1>7, <1>8 DEF T, kept

-----------------------------------------------------------------------------
(* The pieces of the run are such pieces.                                    *)

LEMMA CsiWhole ==
    ASSUME NEW S, NEW p \in Seq(S), Len(p) >= 3, p[1] = Esc, p[2] = Csi,
           p[Len(p)] \in FinalByte, \A j \in 3 .. Len(p) - 1 : p[j] \notin FinalByte
    PROVE  Whole(p)
<1>1. Len(p) \in Nat
  OBVIOUS
<1>2. CsiEnd(p, 2) = {Len(p)}
  <2>1. Len(p) \in 2 + 1 .. Len(p)
    BY <1>1
  <2>2. \A j \in 2 + 1 .. Len(p) : j = Len(p) \/ j \in 3 .. Len(p) - 1
    BY <1>1
  <2> QED BY <2>1, <2>2 DEF CsiEnd
<1>3. Ends(p, 0) = {Len(p)}
  BY <1>2 DEF Ends
<1>4. Min(Ends(p, 0)) = Len(p)
  BY <1>1, <1>3, MinIs
<1> QED BY <1>1, <1>3, <1>4 DEF Whole, Kinds

\* A string that ends with BEL, and one that ends with ESC \.
LEMMA StringWhole ==
    ASSUME NEW S, NEW p \in Seq(S), NEW last \in 3 .. Len(p),
           p[1] = Esc, p[2] \in {Osc, Dcs},
           \/ last = Len(p) /\ p[last] = Bel
           \/ last + 1 = Len(p) /\ p[last] = Esc /\ p[last + 1] = Bsl,
           \A j \in 3 .. last - 1 : p[j] # Bel /\ p[j] # Esc
    PROVE  Whole(p)
<1>1. Len(p) \in Nat /\ last \in Nat /\ Esc # Bel /\ Bsl # Bel /\ Bsl # Esc
  BY DEF Esc, Bel, Bsl
<1>2. StringStop(p, last) /\ last \in 2 + 1 .. Len(p)
  BY <1>1 DEF StringStop
<1>3. \A j \in 2 + 1 .. Len(p) : StringStop(p, j) => j = last
  <2> SUFFICES ASSUME NEW j \in 2 + 1 .. Len(p), StringStop(p, j), j # last
               PROVE  FALSE
    OBVIOUS
  <2>1. p[j] = Bel \/ p[j] = Esc
    BY DEF StringStop
  <2>2. ~ (j \in 3 .. last - 1)
    BY <2>1
  <2>3. last + 1 = Len(p) /\ j = last + 1
    BY <1>1, <2>2
  <2> QED BY <1>1, <2>1, <2>3
<1>4. StringEnd(p, 2) = {Len(p)}
  <2>1. {k \in 2 + 1 .. Len(p) : StringStop(p, k)} = {last}
    BY <1>2, <1>3
  <2>2. (IF p[last] = Bel THEN last ELSE last + 1) = Len(p)
    BY <1>1
  <2> QED BY <2>1, <2>2 DEF StringEnd
<1>5. Ends(p, 0) = {Len(p)}
  BY <1>4 DEF Ends, Osc, Dcs, Csi
<1>6. Min(Ends(p, 0)) = Len(p)
  BY <1>1, <1>5, MinIs
<1> QED BY <1>1, <1>5, <1>6 DEF Whole, Kinds

LEMMA ContainsByte ==
    ASSUME NEW s \in Seq(Nat), NEW b \in Nat
    PROVE  ContainsSubslice(s, <<b>>) <=> \E k \in 1 .. Len(s) : s[k] = b
<1>1. Len(<<b>>) = 1 /\ Len(s) \in Nat /\ <<b>> \in Seq(Nat) /\ <<b>>[1] = b
  OBVIOUS
<1>2. \A i \in 0 .. Len(s) - 1 : SubSeq(s, i + 1, i + 1) = <<b>> <=> s[i + 1] = b
  <2> TAKE i \in 0 .. Len(s) - 1
  <2> DEFINE t == SubSeq(s, i + 1, i + 1)
  <2>1. i \in Nat /\ i + 1 \in Nat /\ i <= i + 1 /\ i + 1 <= Len(s) /\ (i + 1) - i = 1
    BY <1>1
  <2>2. /\ t \in Seq(Nat) /\ Len(t) = (i + 1) - i
        /\ \A k \in 1 .. (i + 1) - i : t[k] = s[i + k]
    BY <2>1, PartFacts
  <2>3. t \in Seq(Nat) /\ Len(t) = 1 /\ t[1] = s[i + 1]
    BY <2>1, <2>2
  <2> HIDE DEF t
  <2>4. t = <<b>> <=> t[1] = b
    BY <2>3
  <2> QED BY <2>3, <2>4 DEF t
<1>3. ContainsSubslice(s, <<b>>) <=> \E i \in 0 .. Len(s) - 1 : s[i + 1] = b
  BY <1>1, <1>2 DEF ContainsSubslice
<1>4. ASSUME NEW k \in 1 .. Len(s), s[k] = b
      PROVE  \E i \in 0 .. Len(s) - 1 : s[i + 1] = b
  <2>1. k - 1 \in 0 .. Len(s) - 1 /\ (k - 1) + 1 = k
    OBVIOUS
  <2> QED BY <1>4, <2>1
<1>5. ASSUME NEW i \in 0 .. Len(s) - 1, s[i + 1] = b
      PROVE  \E k \in 1 .. Len(s) : s[k] = b
  <2>1. i + 1 \in 1 .. Len(s)
    OBVIOUS
  <2> QED BY <1>5, <2>1
<1> QED BY <1>3, <1>4, <1>5

\* A prefix agrees byte for byte.
LEMMA PrefixBytes ==
    ASSUME NEW x \in Seq(Nat), NEW s \in Seq(Nat)
    PROVE  IsPrefix(x, s) <=> Len(x) <= Len(s) /\ \A k \in 1 .. Len(x) : x[k] = s[k]
<1>1. Len(x) \in Nat /\ Len(s) \in Nat /\ Len(x) \in 0 .. Len(x) /\ SubSeq(x, 1, Len(x)) = x
  BY SubSeqFull
<1>2. CASE ~ (Len(x) <= Len(s))
  BY <1>2 DEF IsPrefix
<1>3. CASE Len(x) <= Len(s)
  <2> DEFINE t == SubSeq(s, 1, Len(x))
  <2>1. Len(x) \in 0 .. Len(s)
    BY <1>1, <1>3
  <2>2. t \in Seq(Nat) /\ Len(t) = Len(x) /\ \A k \in 1 .. Len(x) : t[k] = s[k]
    BY <2>1, PrefixWindow
  <2> HIDE DEF t
  <2>3. x = t <=> \A k \in 1 .. Len(x) : x[k] = t[k]
    BY <2>2, SeqEqual
  <2>4. IsPrefix(x, s) <=> x = t
    BY <1>1, <1>3 DEF IsPrefix, t
  <2> QED BY <1>3, <2>2, <2>3, <2>4
<1> QED BY <1>2, <1>3

LEMMA BodyIs ==
    ASSUME NEW p \in Seq(Nat), Len(p) >= 3, NEW t \in Seq(Nat), Len(t) = Len(p) - 2,
           \A k \in 1 .. Len(t) : t[k] = p[k + 2]
    PROVE  SubSeq(p, 3, Len(p)) = t
<1> DEFINE u == SubSeq(p, 2 + 1, Len(p))
<1>1. 2 \in Nat /\ Len(p) \in Nat /\ 2 <= Len(p) /\ Len(p) <= Len(p) /\ 2 + 1 = 3
  OBVIOUS
<1>2. u \in Seq(Nat) /\ Len(u) = Len(p) - 2 /\ \A k \in 1 .. Len(p) - 2 : u[k] = p[2 + k]
  BY <1>1, PartFacts
<1> HIDE DEF u
<1>3. Len(u) = Len(t) /\ \A k \in 1 .. Len(u) : u[k] = t[k]
  BY <1>1, <1>2
<1>4. u = t
  BY <1>2, <1>3, SeqEqual
<1> QED BY <1>1, <1>4 DEF u

LEMMA FourBytes ==
    ASSUME NEW a \in Nat, NEW b \in Nat, NEW c \in Nat, NEW d \in Nat
    PROVE  <<a, b>> \o <<c, d>> = <<a, b, c, d>>
<1> DEFINE s == <<a, b>>
           t == <<c, d>>
           u == <<a, b, c, d>>
<1>1. s \in Seq(Nat) /\ Len(s) = 2 /\ s[1] = a /\ s[2] = b
  OBVIOUS
<1>2. t \in Seq(Nat) /\ Len(t) = 2 /\ t[1] = c /\ t[2] = d
  OBVIOUS
<1>3. u \in Seq(Nat) /\ Len(u) = 4 /\ u[1] = a /\ u[2] = b /\ u[3] = c /\ u[4] = d
  OBVIOUS
<1> HIDE DEF s, t, u
<1>4. /\ s \o t \in Seq(Nat) /\ Len(s \o t) = Len(s) + Len(t)
      /\ \A i \in 1 .. Len(s) + Len(t) :
             (s \o t)[i] = IF i <= Len(s) THEN s[i] ELSE t[i - Len(s)]
  BY <1>1, <1>2, ConcatProperties
<1>5. Len(s \o t) = Len(u) /\ \A i \in 1 .. 4 : (s \o t)[i] = u[i]
  <2>1. (s \o t)[1] = a /\ (s \o t)[2] = b /\ (s \o t)[3] = c /\ (s \o t)[4] = d
    BY <1>1, <1>2, <1>4
  <2>2. \A i \in 1 .. 4 : i = 1 \/ i = 2 \/ i = 3 \/ i = 4
    OBVIOUS
  <2> QED BY <1>1, <1>2, <1>3, <1>4, <2>1, <2>2
<1>6. s \o t = u
  BY <1>3, <1>4, <1>5, SeqEqual
<1> QED BY <1>6 DEF s, t, u

LEMMA QueriesAnswered ==
    ASSUME NEW p \in Queries \cup DcsQueries
    PROVE  p \in Seq(Nat) /\ Answered(p)
<1>1. CASE p = <<27, 91, 99>>
  <2>1. /\ p \in Seq(Nat) /\ Len(p) = 3
        /\ p[1] = 27 /\ p[2] = 91 /\ p[3] = 99
    BY <1>1
  <2>2. /\ Len(p) >= 3 /\ p[1] = Esc /\ p[2] = Csi /\ p[Len(p)] \in FinalByte
        /\ \A j \in 3 .. Len(p) - 1 : p[j] \notin FinalByte
    BY <2>1 DEF Esc, Csi, FinalByte
  <2>3. Whole(p)
    BY <2>1, <2>2, CsiWhole
  <2> DEFINE t == <<99>>
  <2>4. t \in Seq(Nat) /\ Len(t) = Len(p) - 2 /\ \A k \in 1 .. Len(t) : t[k] = p[k + 2]
    BY <2>1
  <2>5. SubSeq(p, 3, Len(p)) = t
    <3> HIDE DEF t
    <3>1. p \in Seq(Nat) /\ Len(p) >= 3
      BY <2>1, <2>2
    <3> QED BY <2>4, <3>1, BodyIs
  <2>6. CsiQuery(p)
    BY <2>5 DEF CsiQuery
  <2>7. IsQuery(p)
    BY <2>1, <2>6 DEF IsQuery, Csi, Osc, Dcs
  <2> QED BY <2>1, <2>3, <2>7 DEF Answered
<1>2. CASE p = <<27, 91, 54, 110>>
  <2>1. /\ p \in Seq(Nat) /\ Len(p) = 4
        /\ p[1] = 27 /\ p[2] = 91 /\ p[3] = 54 /\ p[4] = 110
    BY <1>2
  <2>2. /\ Len(p) >= 3 /\ p[1] = Esc /\ p[2] = Csi /\ p[Len(p)] \in FinalByte
        /\ \A j \in 3 .. Len(p) - 1 : p[j] \notin FinalByte
    <3>1. \A j \in 3 .. Len(p) - 1 : j = 3
      BY <2>1
    <3>2. \A j \in 3 .. Len(p) - 1 : p[j] = 54
      BY <2>1, <3>1
    <3>3. 54 \notin FinalByte /\ 63 \notin FinalByte /\ 110 \in FinalByte
      BY DEF FinalByte
    <3>4. \A j \in 3 .. Len(p) - 1 : p[j] \notin FinalByte
      BY <3>2, <3>3, Zenon
    <3> QED BY <2>1, <3>3, <3>4 DEF Esc, Csi
  <2>3. Whole(p)
    BY <2>1, <2>2, CsiWhole
  <2> DEFINE t == <<54, 110>>
  <2>4. t \in Seq(Nat) /\ Len(t) = Len(p) - 2 /\ \A k \in 1 .. Len(t) : t[k] = p[k + 2]
    BY <2>1
  <2>5. SubSeq(p, 3, Len(p)) = t
    <3> HIDE DEF t
    <3>1. p \in Seq(Nat) /\ Len(p) >= 3
      BY <2>1, <2>2
    <3> QED BY <2>4, <3>1, BodyIs
  <2>6. CsiQuery(p)
    BY <2>5 DEF CsiQuery
  <2>7. IsQuery(p)
    BY <2>1, <2>6 DEF IsQuery, Csi, Osc, Dcs
  <2> QED BY <2>1, <2>3, <2>7 DEF Answered
<1>3. CASE p = <<27, 91, 63, 54, 110>>
  <2>1. /\ p \in Seq(Nat) /\ Len(p) = 5
        /\ p[1] = 27 /\ p[2] = 91 /\ p[3] = 63 /\ p[4] = 54 /\ p[5] = 110
    BY <1>3
  <2>2. /\ Len(p) >= 3 /\ p[1] = Esc /\ p[2] = Csi /\ p[Len(p)] \in FinalByte
        /\ \A j \in 3 .. Len(p) - 1 : p[j] \notin FinalByte
    <3>1. \A j \in 3 .. Len(p) - 1 : j = 3 \/ j = 4
      BY <2>1
    <3>2. \A j \in 3 .. Len(p) - 1 : p[j] = 63 \/ p[j] = 54
      BY <2>1, <3>1
    <3>3. 54 \notin FinalByte /\ 63 \notin FinalByte /\ 110 \in FinalByte
      BY DEF FinalByte
    <3>4. \A j \in 3 .. Len(p) - 1 : p[j] \notin FinalByte
      BY <3>2, <3>3, Zenon
    <3> QED BY <2>1, <3>3, <3>4 DEF Esc, Csi
  <2>3. Whole(p)
    BY <2>1, <2>2, CsiWhole
  <2> DEFINE t == <<63, 54, 110>>
  <2>4. t \in Seq(Nat) /\ Len(t) = Len(p) - 2 /\ \A k \in 1 .. Len(t) : t[k] = p[k + 2]
    BY <2>1
  <2>5. SubSeq(p, 3, Len(p)) = t
    <3> HIDE DEF t
    <3>1. p \in Seq(Nat) /\ Len(p) >= 3
      BY <2>1, <2>2
    <3> QED BY <2>4, <3>1, BodyIs
  <2>6. t[1] = 63 /\ Last(t) = 110
    BY DEF Last
  <2> HIDE DEF t
  <2>7. CsiQuery(p)
    BY <2>5, <2>6 DEF CsiQuery
  <2>8. IsQuery(p)
    BY <2>1, <2>7 DEF IsQuery, Csi, Osc, Dcs
  <2> QED BY <2>1, <2>3, <2>8 DEF Answered
<1>4. CASE p = <<27, 93, 52, 59, 7>>
  <2> DEFINE last == 5
  <2>1. /\ p \in Seq(Nat) /\ Len(p) = 5
        /\ p[1] = 27 /\ p[2] = 93 /\ p[3] = 52 /\ p[4] = 59 /\ p[5] = 7
    BY <1>4
  <2>2. /\ p[1] = Esc /\ p[2] \in {Osc, Dcs} /\ last \in 3 .. Len(p)
        /\ last = Len(p) /\ p[last] = Bel
        /\ \A j \in 3 .. last - 1 : p[j] # Bel /\ p[j] # Esc
    BY <2>1 DEF Esc, Osc, Dcs, Bel, Bsl
  <2> HIDE DEF last
  <2>3. Whole(p)
    BY <2>1, <2>2, StringWhole
  <2> DEFINE x == <<27, 93, 52, 59>>
  <2>4. x \in Seq(Nat) /\ Len(x) = 4 /\ \A k \in 1 .. Len(x) : x[k] = p[k]
    BY <2>1
  <2>5. <<27, 93>> \o <<52, 59>> = x /\ Len(x) <= Len(p)
    BY <2>1, <2>4, FourBytes
  <2> HIDE DEF x
  <2>6. IsPrefix(x, p)
    BY <2>1, <2>4, <2>5, PrefixBytes
  <2>7. OscQuery(p)
    BY <2>5, <2>6 DEF OscQuery, Esc, Osc
  <2>8. IsQuery(p)
    BY <2>1, <2>7 DEF IsQuery, Csi, Osc, Dcs
  <2> QED BY <2>1, <2>3, <2>8 DEF Answered
<1>5. CASE p = <<27, 93, 63, 27, 92>>
  <2> DEFINE last == 4
  <2>1. /\ p \in Seq(Nat) /\ Len(p) = 5
        /\ p[1] = 27 /\ p[2] = 93 /\ p[3] = 63 /\ p[4] = 27 /\ p[5] = 92
    BY <1>5
  <2>2. /\ p[1] = Esc /\ p[2] \in {Osc, Dcs} /\ last \in 3 .. Len(p)
        /\ last + 1 = Len(p) /\ p[last] = Esc /\ p[last + 1] = Bsl
        /\ \A j \in 3 .. last - 1 : p[j] # Bel /\ p[j] # Esc
    BY <2>1 DEF Esc, Osc, Dcs, Bel, Bsl
  <2> HIDE DEF last
  <2>3. Whole(p)
    BY <2>1, <2>2, StringWhole
  <2>4. 3 \in 1 .. Len(p) /\ 63 \in Nat
    BY <2>1
  <2>5. ContainsSubslice(p, <<63>>)
    BY <2>1, <2>4, ContainsByte
  <2>6. OscQuery(p)
    BY <2>5 DEF OscQuery
  <2>7. IsQuery(p)
    BY <2>1, <2>6 DEF IsQuery, Csi, Osc, Dcs
  <2> QED BY <2>1, <2>3, <2>7 DEF Answered
<1>6. CASE p = <<27, 80, 36, 113, 27, 92>>
  <2> DEFINE last == 5
  <2>1. /\ p \in Seq(Nat) /\ Len(p) = 6
        /\ p[1] = 27 /\ p[2] = 80 /\ p[3] = 36 /\ p[4] = 113 /\ p[5] = 27 /\ p[6] = 92
    BY <1>6
  <2>2. /\ p[1] = Esc /\ p[2] \in {Osc, Dcs} /\ last \in 3 .. Len(p)
        /\ last + 1 = Len(p) /\ p[last] = Esc /\ p[last + 1] = Bsl
        /\ \A j \in 3 .. last - 1 : p[j] # Bel /\ p[j] # Esc
    BY <2>1 DEF Esc, Osc, Dcs, Bel, Bsl
  <2> HIDE DEF last
  <2>3. Whole(p)
    BY <2>1, <2>2, StringWhole
  <2>4. 3 \in 1 .. Len(p) /\ 36 \in Nat
    BY <2>1
  <2>5. ContainsSubslice(p, <<36>>)
    BY <2>1, <2>4, ContainsByte
  <2>6. DcsQuery(p)
    BY <2>5 DEF DcsQuery
  <2>7. IsQuery(p)
    BY <2>1, <2>6 DEF IsQuery, Csi, Osc, Dcs
  <2> QED BY <2>1, <2>3, <2>7 DEF Answered
<1> QED BY <1>1, <1>2, <1>3, <1>4, <1>5, <1>6 DEF Queries, DcsQueries

LEMMA ThirdByte ==
    ASSUME NEW s \in Seq(Nat), NEW p \in Seq(Nat), Len(p) >= 1, IsPrefix(<<Esc, Osc>> \o p, s)
    PROVE  s[3] = p[1]
<1> DEFINE h == <<Esc, Osc>>
           x == h \o p
<1>1. h \in Seq(Nat) /\ Len(h) = 2 /\ Len(p) \in Nat
  BY DEF Esc, Osc
<1>2. IsPrefix(x, s)
  OBVIOUS
<1> HIDE DEF h
<1>3. /\ x \in Seq(Nat) /\ Len(x) = Len(h) + Len(p)
      /\ \A i \in 1 .. Len(h) + Len(p) : x[i] = IF i <= Len(h) THEN h[i] ELSE p[i - Len(h)]
  BY <1>1, ConcatProperties
<1> HIDE DEF x
<1>4. 3 \in 1 .. Len(x) /\ x[3] = p[1]
  BY <1>1, <1>3
<1>5. x[3] = s[3]
  BY <1>2, <1>3, <1>4, PrefixBytes
<1> QED BY <1>4, <1>5

\* A string that does not begin with a colour number is no colour query.
Colour(s) == \E p \in {<<49, 48, 59>>, <<49, 49, 59>>, <<49, 50, 59>>, <<52, 59>>} :
                 IsPrefix(<<Esc, Osc>> \o p, s)
LEMMA NotColour ==
    ASSUME NEW s \in Seq(Nat), s[3] # 49, s[3] # 52
    PROVE  ~Colour(s)
<1> SUFFICES ASSUME NEW p \in {<<49, 48, 59>>, <<49, 49, 59>>, <<49, 50, 59>>, <<52, 59>>},
                    IsPrefix(<<Esc, Osc>> \o p, s)
             PROVE  FALSE
  BY DEF Colour
<1>1. CASE p = <<49, 48, 59>>
  <2>1. p \in Seq(Nat) /\ Len(p) >= 1 /\ p[1] = 49
    BY <1>1
  <2> QED BY <2>1, ThirdByte
<1>2. CASE p = <<49, 49, 59>>
  <2>1. p \in Seq(Nat) /\ Len(p) >= 1 /\ p[1] = 49
    BY <1>2
  <2> QED BY <2>1, ThirdByte
<1>3. CASE p = <<49, 50, 59>>
  <2>1. p \in Seq(Nat) /\ Len(p) >= 1 /\ p[1] = 49
    BY <1>3
  <2> QED BY <2>1, ThirdByte
<1>4. CASE p = <<52, 59>>
  <2>1. p \in Seq(Nat) /\ Len(p) >= 1 /\ p[1] = 52
    BY <1>4
  <2> QED BY <2>1, ThirdByte
<1> QED BY <1>1, <1>2, <1>3, <1>4

LEMMA ShownDisplayed ==
    ASSUME NEW p \in Shown \cup DcsShown
    PROVE  p \in Seq(Nat) /\ Displayed(p) /\ ~Answered(p)
<1>1. CASE p = <<120>>
  <2>1. p \in Seq(Nat) /\ Len(p) = 1 /\ p[1] = 120
    BY <1>1
  <2>2. \A j \in 0 + 1 .. Len(p) : j = 1
    BY <2>1
  <2>3. Plain(p, 0)
    BY <2>1, <2>2 DEF Plain, Kinds, Esc, Csi, Osc, Dcs
  <2>4. ~Whole(p)
    BY <2>1 DEF Whole, Kinds, Esc, Csi, Osc, Dcs
  <2> QED BY <2>1, <2>3, <2>4 DEF Displayed, Answered
<1>2. CASE p = <<195, 169>>
  <2>1. p \in Seq(Nat) /\ Len(p) = 2 /\ p[1] = 195 /\ p[2] = 169
    BY <1>2
  <2>2. \A j \in 0 + 1 .. Len(p) : j = 1 \/ j = 2
    BY <2>1
  <2>3. Plain(p, 0)
    BY <2>1, <2>2 DEF Plain, Kinds, Esc, Csi, Osc, Dcs
  <2>4. ~Whole(p)
    BY <2>1 DEF Whole, Kinds, Esc, Csi, Osc, Dcs
  <2> QED BY <2>1, <2>3, <2>4 DEF Displayed, Answered
<1>3. CASE p = <<7>>
  <2>1. p \in Seq(Nat) /\ Len(p) = 1 /\ p[1] = 7
    BY <1>3
  <2>2. \A j \in 0 + 1 .. Len(p) : j = 1
    BY <2>1
  <2>3. Plain(p, 0)
    BY <2>1, <2>2 DEF Plain, Kinds, Esc, Csi, Osc, Dcs
  <2>4. ~Whole(p)
    BY <2>1 DEF Whole, Kinds, Esc, Csi, Osc, Dcs
  <2> QED BY <2>1, <2>3, <2>4 DEF Displayed, Answered
<1>4. CASE p = <<27, 55>>
  <2>1. p \in Seq(Nat) /\ Len(p) = 2 /\ p[1] = 27 /\ p[2] = 55
    BY <1>4
  <2>2. \A j \in 0 + 1 .. Len(p) : j = 1 \/ j = 2
    BY <2>1
  <2>3. Plain(p, 0)
    BY <2>1, <2>2 DEF Plain, Kinds, Esc, Csi, Osc, Dcs
  <2>4. ~Whole(p)
    BY <2>1 DEF Whole, Kinds, Esc, Csi, Osc, Dcs
  <2> QED BY <2>1, <2>3, <2>4 DEF Displayed, Answered
<1>5. CASE p = <<27, 91, 109>>
  <2>1. p \in Seq(Nat) /\ Len(p) = 3 /\ p[1] = 27 /\ p[2] = 91 /\ p[3] = 109
    BY <1>5
  <2>2. /\ Len(p) >= 3 /\ p[1] = Esc /\ p[2] = Csi /\ p[Len(p)] \in FinalByte
        /\ \A j \in 3 .. Len(p) - 1 : p[j] \notin FinalByte
    BY <2>1 DEF Esc, Csi, FinalByte
  <2>3. Whole(p)
    BY <2>1, <2>2, CsiWhole
  <2>4. Plain(p, 1)
    <3>1. \A j \in 1 + 1 .. Len(p) : j = 2 \/ j = 3
      BY <2>1
    <3> QED BY <2>1, <3>1 DEF Plain, Kinds, Esc, Csi, Osc, Dcs
  <2> DEFINE t == SubSeq(p, 3, Len(p))
  <2>5. t = <<109>>
    <3> DEFINE u == <<109>>
    <3>1. u \in Seq(Nat) /\ Len(u) = Len(p) - 2 /\ \A k \in 1 .. Len(u) : u[k] = p[k + 2]
      BY <2>1
    <3> HIDE DEF u
    <3>2. t = u
      BY <2>1, <2>2, <3>1, BodyIs
    <3> QED BY <3>2 DEF u
  <2> HIDE DEF t
  <2>6. t[1] = 109 /\ Len(t) = 1
    BY <2>5
  <2>7. t \notin {<<99>>, <<48, 99>>, <<62, 99>>, <<62, 48, 99>>, <<62, 49, 99>>,
                  <<61, 99>>, <<61, 48, 99>>, <<62, 113>>, <<113>>, <<54, 110>>}
    BY <2>5
  <2>8. ~CsiQuery(p)
    BY <2>6, <2>7 DEF CsiQuery, t
  <2>9. ~IsQuery(p)
    BY <2>1, <2>8 DEF IsQuery, Csi, Osc, Dcs
  <2> QED BY <2>1, <2>3, <2>4, <2>9 DEF Displayed, Answered
<1>6. CASE p = <<27, 93, 120, 7>>
  <2> DEFINE last == 4
  <2>1. p \in Seq(Nat) /\ Len(p) = 4 /\ p[1] = 27 /\ p[2] = 93 /\ p[3] = 120 /\ p[4] = 7
    BY <1>6
  <2>2. /\ p[1] = Esc /\ p[2] \in {Osc, Dcs} /\ last \in 3 .. Len(p)
        /\ last = Len(p) /\ p[last] = Bel
        /\ \A j \in 3 .. last - 1 : p[j] # Bel /\ p[j] # Esc
    BY <2>1 DEF Esc, Osc, Dcs, Bel, Bsl
  <2> HIDE DEF last
  <2>3. Whole(p)
    BY <2>1, <2>2, StringWhole
  <2>4. Plain(p, 1)
    <3>1. \A j \in 1 + 1 .. Len(p) : j = 2 \/ j = 3 \/ j = 4
      BY <2>1
    <3> QED BY <2>1, <3>1 DEF Plain, Kinds, Esc, Csi, Osc, Dcs
  <2>5. \A k \in 1 .. Len(p) : k = 1 \/ k = 2 \/ k = 3 \/ k = 4
    BY <2>1
  <2>6. p \in Seq(Nat) /\ 63 \in Nat /\ ~ \E k \in 1 .. Len(p) : p[k] = 63
    BY <2>1, <2>5
  <2>7. ~ContainsSubslice(p, <<63>>)
    BY <2>6, ContainsByte
  <2>8. ~OscQuery(p)
    <3>1. ~Colour(p)
      BY <2>1, NotColour
    <3> QED BY <2>7, <3>1 DEF OscQuery, Colour
  <2>9. ~IsQuery(p)
    BY <2>1, <2>8 DEF IsQuery, Csi, Osc, Dcs
  <2> QED BY <2>1, <2>3, <2>4, <2>9 DEF Displayed, Answered
<1>7. CASE p = <<27, 93, 120, 27, 92>>
  <2> DEFINE last == 4
  <2>1. p \in Seq(Nat) /\ Len(p) = 5 /\ p[1] = 27 /\ p[2] = 93 /\ p[3] = 120 /\ p[4] = 27 /\ p[5] = 92
    BY <1>7
  <2>2. /\ p[1] = Esc /\ p[2] \in {Osc, Dcs} /\ last \in 3 .. Len(p)
        /\ last + 1 = Len(p) /\ p[last] = Esc /\ p[last + 1] = Bsl
        /\ \A j \in 3 .. last - 1 : p[j] # Bel /\ p[j] # Esc
    BY <2>1 DEF Esc, Osc, Dcs, Bel, Bsl
  <2> HIDE DEF last
  <2>3. Whole(p)
    BY <2>1, <2>2, StringWhole
  <2>4. Plain(p, 1)
    <3>1. \A j \in 1 + 1 .. Len(p) : j = 2 \/ j = 3 \/ j = 4 \/ j = 5
      BY <2>1
    <3> QED BY <2>1, <3>1 DEF Plain, Kinds, Esc, Csi, Osc, Dcs
  <2>5. \A k \in 1 .. Len(p) : k = 1 \/ k = 2 \/ k = 3 \/ k = 4 \/ k = 5
    BY <2>1
  <2>6. p \in Seq(Nat) /\ 63 \in Nat /\ ~ \E k \in 1 .. Len(p) : p[k] = 63
    BY <2>1, <2>5
  <2>7. ~ContainsSubslice(p, <<63>>)
    BY <2>6, ContainsByte
  <2>8. ~OscQuery(p)
    <3>1. ~Colour(p)
      BY <2>1, NotColour
    <3> QED BY <2>7, <3>1 DEF OscQuery, Colour
  <2>9. ~IsQuery(p)
    BY <2>1, <2>8 DEF IsQuery, Csi, Osc, Dcs
  <2> QED BY <2>1, <2>3, <2>4, <2>9 DEF Displayed, Answered
<1>8. CASE p = <<27, 80, 120, 27, 92>>
  <2> DEFINE last == 4
  <2>1. p \in Seq(Nat) /\ Len(p) = 5 /\ p[1] = 27 /\ p[2] = 80 /\ p[3] = 120 /\ p[4] = 27 /\ p[5] = 92
    BY <1>8
  <2>2. /\ p[1] = Esc /\ p[2] \in {Osc, Dcs} /\ last \in 3 .. Len(p)
        /\ last + 1 = Len(p) /\ p[last] = Esc /\ p[last + 1] = Bsl
        /\ \A j \in 3 .. last - 1 : p[j] # Bel /\ p[j] # Esc
    BY <2>1 DEF Esc, Osc, Dcs, Bel, Bsl
  <2> HIDE DEF last
  <2>3. Whole(p)
    BY <2>1, <2>2, StringWhole
  <2>4. Plain(p, 1)
    <3>1. \A j \in 1 + 1 .. Len(p) : j = 2 \/ j = 3 \/ j = 4 \/ j = 5
      BY <2>1
    <3> QED BY <2>1, <3>1 DEF Plain, Kinds, Esc, Csi, Osc, Dcs
  <2>5. \A k \in 1 .. Len(p) : k = 1 \/ k = 2 \/ k = 3 \/ k = 4 \/ k = 5
    BY <2>1
  <2>6. p \in Seq(Nat) /\ 36 \in Nat /\ ~ \E k \in 1 .. Len(p) : p[k] = 36
    BY <2>1, <2>5
  <2>7. ~ContainsSubslice(p, <<36>>)
    BY <2>6, ContainsByte
  <2>8. ~DcsQuery(p)
    BY <2>7 DEF DcsQuery
  <2>9. ~IsQuery(p)
    BY <2>1, <2>8 DEF IsQuery, Csi, Osc, Dcs
  <2> QED BY <2>1, <2>3, <2>4, <2>9 DEF Displayed, Answered
<1> QED BY <1>1, <1>2, <1>3, <1>4, <1>5, <1>6, <1>7, <1>8 DEF Shown, DcsShown

-----------------------------------------------------------------------------
(* The run: output of any number of pieces.                                  *)

Piece == Queries \cup Shown \cup DcsQueries \cup DcsShown \cup Broken
PiecesOK == pieces \in Seq(Piece)

LEMMA PieceBytes == Piece \subseteq Seq(Nat)
<1> SUFFICES ASSUME NEW p \in Piece PROVE p \in Seq(Nat)
  OBVIOUS
<1>1. CASE p \in Queries \cup DcsQueries
  BY <1>1, QueriesAnswered
<1>2. CASE p \in Shown \cup DcsShown
  BY <1>2, ShownDisplayed
<1>3. CASE p \in Broken
  <2>1. <<27>> \in Seq(Nat) /\ <<27, 91>> \in Seq(Nat)
    OBVIOUS
  <2>2. <<27, 93>> \in Seq(Nat) /\ <<27, 80>> \in Seq(Nat)
    OBVIOUS
  <2> QED BY <1>3, <2>1, <2>2 DEF Broken
<1> QED BY <1>1, <1>2, <1>3 DEF Piece

LEMMA PiecesTyped ==
    ASSUME PiecesOK
    PROVE  pieces \in Seq(Seq(Nat)) /\ Stream \in Seq(Nat)
<1>1. pieces \in Seq(Seq(Nat))
  <2>1. \A k \in 1 .. Len(pieces) : pieces[k] \in Seq(Nat)
    BY PieceBytes DEF PiecesOK
  <2>2. Len(pieces) \in Nat /\ pieces = [k \in 1 .. Len(pieces) |-> pieces[k]]
    BY DEF PiecesOK
  <2> QED BY <2>1, <2>2
<1>2. Len(pieces) \in 0 .. Len(pieces)
  BY <1>1
<1>3. Stream \in Seq(Nat)
  BY <1>1, <1>2, FlatSteps DEF Stream
<1> QED BY <1>1, <1>3

LEMMA StripMatchesHolds == PiecesOK => StripMatches
<1> SUFFICES ASSUME PiecesOK, \A k \in DOMAIN pieces : pieces[k] \notin Broken
             PROVE  Strip(Stream) =
                        [clean |-> FlattenSeq([k \in DOMAIN pieces |-> Kept(pieces[k])]),
                         rest  |-> <<>>]
  BY DEF StripMatches
<1>1. pieces \in Seq(Seq(Nat)) /\ DOMAIN pieces = 1 .. Len(pieces)
  BY PiecesTyped
<1>2. \A k \in DOMAIN pieces :
          \/ pieces[k] \in Queries \cup DcsQueries
          \/ pieces[k] \in Shown \cup DcsShown
  BY DEF PiecesOK, Piece
<1>3. \A k \in DOMAIN pieces :
          /\ Answered(pieces[k]) \/ Displayed(pieces[k])
          /\ Kept(pieces[k]) = IF Answered(pieces[k]) THEN <<>> ELSE pieces[k]
  <2> TAKE k \in DOMAIN pieces
  <2>1. CASE pieces[k] \in Queries \cup DcsQueries
    BY <2>1, QueriesAnswered DEF Kept
  <2>2. CASE pieces[k] \notin Queries \cup DcsQueries
    <3>1. pieces[k] \in Shown \cup DcsShown
      BY <1>2, <2>2
    <3> QED BY <2>2, <3>1, ShownDisplayed DEF Kept
  <2> QED BY <2>1, <2>2
<1>4. [k \in DOMAIN pieces |-> Kept(pieces[k])]
          = [k \in DOMAIN pieces |-> IF Answered(pieces[k]) THEN <<>> ELSE pieces[k]]
  BY <1>3
<1>5. \A k \in 1 .. Len(pieces) : Answered(pieces[k]) \/ Displayed(pieces[k])
  BY <1>1, <1>3
<1>6. Strip(FlattenSeq(pieces)) =
          [clean |-> FlattenSeq([k \in DOMAIN pieces |->
                                     IF Answered(pieces[k]) THEN <<>> ELSE pieces[k]]),
           rest  |-> <<>>]
  BY <1>1, <1>5, OnlyQueriesRemoved
<1> QED BY <1>4, <1>6 DEF Stream

LEMMA StripUnchunkedHolds == PiecesOK => StripUnchunked
<1> SUFFICES ASSUME PiecesOK, NEW n \in 0 .. Len(Stream)
             PROVE  LET first  == Strip(SubSeq(Stream, 1, n))
                        second == Strip(first.rest \o SubSeq(Stream, n + 1, Len(Stream)))
                    IN  Strip(Stream) = [clean |-> first.clean \o second.clean,
                                         rest  |-> second.rest]
  BY DEF StripUnchunked
<1>1. Stream \in Seq(Nat)
  BY PiecesTyped
<1> QED BY <1>1, Unchunked

LEMMA PiecesInv == Spec => []PiecesOK
<1>1. Init => PiecesOK
  BY DEF Init, PiecesOK
<1>2. PiecesOK /\ [Next]_vars => PiecesOK'
  <2> SUFFICES ASSUME PiecesOK, [Next]_vars PROVE PiecesOK'
    OBVIOUS
  <2>1. CASE AddPiece
    <3>1. PICK p \in Piece : pieces' = Append(pieces, p)
      BY <2>1 DEF AddPiece, Piece
    <3> QED BY <3>1 DEF PiecesOK
  <2>2. CASE AddByte \/ UNCHANGED vars
    BY <2>2 DEF AddByte, vars, PiecesOK
  <2> QED BY <2>1, <2>2 DEF Next
<1> QED BY <1>1, <1>2, PTL DEF Spec

\* Whatever output the run builds, of any number of pieces, when no sequence in
\* it is broken off strip_terminal_queries_stateful (ansi.rs:78) removes exactly
\* the queries.
THEOREM StripCorrect == Spec => []StripMatches
BY StripMatchesHolds, PiecesInv, PTL

\* And, broken sequences or not, what it removes does not depend on where the
\* output is cut into reads.
THEOREM StripDelivery == Spec => []StripUnchunked
BY StripUnchunkedHolds, PiecesInv, PTL

-----------------------------------------------------------------------------
(* Where pieces stand in the output.                                         *)

At(q, k) == Len(Flat(q, k))

LEMMA AtSteps ==
    ASSUME NEW S, NEW q \in Seq(Seq(S))
    PROVE  /\ At(q, 0) = 0 /\ \A k \in 0 .. Len(q) : At(q, k) \in Nat
           /\ \A k \in 0 .. Len(q) - 1 : At(q, k + 1) = At(q, k) + Len(q[k + 1])
           /\ At(q, Len(q)) = Len(FlattenSeq(q))
<1>1. /\ FlattenSeq(q) = Flat(q, Len(q)) /\ Flat(q, 0) = <<>>
      /\ \A k \in 0 .. Len(q) : Flat(q, k) \in Seq(S)
      /\ \A k \in 0 .. Len(q) - 1 : Flat(q, k + 1) = Flat(q, k) \o q[k + 1]
  BY FlatSteps
<1>2. ASSUME NEW k \in 0 .. Len(q) - 1
      PROVE  At(q, k + 1) = At(q, k) + Len(q[k + 1])
  <2>1. k \in 0 .. Len(q) /\ k + 1 \in 1 .. Len(q)
    OBVIOUS
  <2>2. Flat(q, k) \in Seq(S) /\ q[k + 1] \in Seq(S)
    BY <1>1, <2>1
  <2>3. Len(Flat(q, k) \o q[k + 1]) = Len(Flat(q, k)) + Len(q[k + 1])
    BY <2>2, ConcatProperties
  <2> QED BY <1>1, <2>3 DEF At
<1>3. \A k \in 0 .. Len(q) : At(q, k) \in Nat
  BY <1>1 DEF At
<1> QED BY <1>1, <1>2, <1>3 DEF At

LEMMA AtMonotone ==
    ASSUME NEW S, NEW q \in Seq(Seq(S)), NEW k \in 0 .. Len(q), NEW j \in k .. Len(q)
    PROVE  At(q, k) <= At(q, j)
<1> DEFINE n == Len(q) - k
           T == {i \in 0 .. n : At(q, k) <= At(q, k + i)}
<1>0. n \in Nat /\ k \in Nat /\ Len(q) \in Nat
  OBVIOUS
<1>1. 0 \in T
  <2>1. At(q, k) \in Nat /\ k + 0 = k /\ 0 \in 0 .. n
    BY <1>0, AtSteps
  <2> QED BY <2>1
<1>2. ASSUME NEW i \in 0 .. n - 1, i \in T
      PROVE  i + 1 \in T
  <2>1. /\ k + i \in 0 .. Len(q) - 1 /\ (k + i) + 1 = k + (i + 1) /\ i + 1 \in 0 .. n
        /\ k + i \in 0 .. Len(q) /\ (k + i) + 1 \in 1 .. Len(q)
    BY <1>0
  <2>2. At(q, (k + i) + 1) = At(q, k + i) + Len(q[(k + i) + 1])
    BY <2>1, AtSteps
  <2>3. /\ At(q, k + i) \in Nat /\ At(q, k) \in Nat /\ Len(q[(k + i) + 1]) \in Nat
        /\ At(q, k) <= At(q, k + i)
    BY <1>2, <2>1, AtSteps
  <2>4. At(q, k) <= At(q, (k + i) + 1)
    BY <2>2, <2>3
  <2> QED BY <2>1, <2>4
<1> HIDE DEF T
<1>3. \A i \in 0 .. n : i \in T
  BY <1>0, <1>1, <1>2, Induction
<1>4. j - k \in 0 .. n /\ k + (j - k) = j
  BY <1>0
<1>5. j - k \in T
  BY <1>3, <1>4
<1> QED BY <1>4, <1>5 DEF T

\* The first pieces stand at the front.
LEMMA FlatInFront ==
    ASSUME NEW S, NEW q \in Seq(Seq(S)), NEW k \in 0 .. Len(q)
    PROVE  Window(Flat(q, k), FlattenSeq(q), 0)
<1> DEFINE n == Len(q) - k
           s == Flat(q, k)
           T == {i \in 0 .. n : Window(s, Flat(q, k + i), 0)}
<1>0. n \in Nat /\ k \in Nat /\ Len(q) \in Nat /\ s \in Seq(S) /\ Len(s) \in Nat
  BY FlatSteps
<1> HIDE DEF s
<1>1. 0 \in T
  <2>1. Flat(q, k + 0) = s /\ 0 \in 0 .. n
    BY <1>0 DEF s
  <2>2. Window(s, s, 0)
    BY <1>0 DEF Window
  <2> QED BY <2>1, <2>2
<1>2. ASSUME NEW i \in 0 .. n - 1, i \in T
      PROVE  i + 1 \in T
  <2> DEFINE a == Flat(q, k + i)
             p == q[(k + i) + 1]
  <2>1. /\ k + i \in 0 .. Len(q) - 1 /\ (k + i) + 1 = k + (i + 1) /\ i + 1 \in 0 .. n
        /\ k + i \in 0 .. Len(q) /\ (k + i) + 1 \in 1 .. Len(q)
    BY <1>0
  <2>2. a \in Seq(S) /\ p \in Seq(S) /\ Flat(q, (k + i) + 1) = a \o p
    <3>1. \A j \in 0 .. Len(q) : Flat(q, j) \in Seq(S)
      BY FlatSteps
    <3>2. \A j \in 0 .. Len(q) - 1 : Flat(q, j + 1) = Flat(q, j) \o q[j + 1]
      BY FlatSteps
    <3>3. p \in Seq(S)
      BY <2>1
    <3> QED BY <2>1, <3>1, <3>2, <3>3
  <2>3. Window(s, a, 0)
    BY <1>2
  <2> HIDE DEF a, p
  <2>4. /\ Len(a \o p) = Len(a) + Len(p)
        /\ \A j \in 1 .. Len(a) + Len(p) :
               (a \o p)[j] = IF j <= Len(a) THEN a[j] ELSE p[j - Len(a)]
    BY <2>2, ConcatProperties
  <2>5. Len(s) <= Len(a) /\ Len(a) \in Nat /\ Len(p) \in Nat
    BY <1>0, <2>2, <2>3 DEF Window
  <2>6. \A j \in 1 .. Len(s) : s[j] = (a \o p)[0 + j]
    <3> TAKE j \in 1 .. Len(s)
    <3>1. j \in 1 .. Len(a) + Len(p) /\ j <= Len(a) /\ 0 + j = j
      BY <1>0, <2>5
    <3>2. s[j] = a[0 + j]
      BY <2>3 DEF Window
    <3> QED BY <2>4, <3>1, <3>2
  <2>7. Window(s, a \o p, 0)
    BY <1>0, <2>4, <2>5, <2>6 DEF Window
  <2> QED BY <2>1, <2>2, <2>7
<1> HIDE DEF T
<1>3. \A i \in 0 .. n : i \in T
  BY <1>0, <1>1, <1>2, Induction
<1>4. n \in T /\ k + n = Len(q)
  BY <1>0, <1>3
<1>5. FlattenSeq(q) = Flat(q, Len(q))
  BY FlatSteps
<1> QED BY <1>4, <1>5 DEF T, s

\* Piece k + 1 stands after the first k.
LEMMA PieceStands ==
    ASSUME NEW S, NEW q \in Seq(Seq(S)), NEW k \in 0 .. Len(q) - 1
    PROVE  Window(q[k + 1], FlattenSeq(q), At(q, k))
<1> DEFINE a == Flat(q, k)
           p == q[k + 1]
           w == FlattenSeq(q)
<1>1. k \in 0 .. Len(q) /\ k + 1 \in 0 .. Len(q) /\ k + 1 \in 1 .. Len(q)
  OBVIOUS
<1>2. a \in Seq(S) /\ p \in Seq(S) /\ Flat(q, k + 1) = a \o p
  BY <1>1, FlatSteps
<1>3. Window(Flat(q, k + 1), w, 0)
  BY <1>1, FlatInFront
<1> HIDE DEF a, p, w
<1>4. Window(a \o p, w, 0)
  BY <1>2, <1>3
<1>5. /\ Len(a \o p) = Len(a) + Len(p) /\ Len(a) \in Nat /\ Len(p) \in Nat
      /\ \A j \in 1 .. Len(a) + Len(p) :
             (a \o p)[j] = IF j <= Len(a) THEN a[j] ELSE p[j - Len(a)]
  BY <1>2, ConcatProperties
<1>6. \A j \in 1 .. Len(p) : p[j] = w[Len(a) + j]
  <2> TAKE j \in 1 .. Len(p)
  <2>1. /\ Len(a) + j \in 1 .. Len(a) + Len(p) /\ ~ (Len(a) + j <= Len(a))
        /\ (Len(a) + j) - Len(a) = j /\ 0 + (Len(a) + j) = Len(a) + j
    BY <1>5
  <2>2. (a \o p)[Len(a) + j] = w[0 + (Len(a) + j)]
    BY <1>4, <1>5, <2>1 DEF Window
  <2>3. (a \o p)[Len(a) + j] = p[(Len(a) + j) - Len(a)]
    BY <1>5, <2>1
  <2> QED BY <2>1, <2>2, <2>3
<1>7. Len(a) + Len(p) <= Len(w)
  BY <1>4, <1>5 DEF Window
<1>8. Window(p, w, Len(a))
  BY <1>5, <1>6, <1>7 DEF Window
<1> QED BY <1>8 DEF At, a, p, w

-----------------------------------------------------------------------------
(* find_safe_split_point on the part of such output that has been read.      *)

\* The pieces it knows: a character, of any number of bytes; a control sequence
\* or an OSC string with its terminator; ESC and one byte.
Character(p) == Len(p) >= 1 /\ p[1] # Esc /\ StartsChar(p[1])
                /\ \A j \in 2 .. Len(p) : ~StartsChar(p[j])
Sequence(p) == \/ Whole(p) /\ p[2] # Dcs
               \/ Len(p) = 2 /\ p[1] = Esc /\ p[2] \notin {Csi, Osc}

\* The end of a piece, or of what has been read if that comes first.
EndIn(n, d) == IF d <= n THEN d ELSE n

LEMMA SequenceEndIs ==
    ASSUME NEW w \in Seq(Nat), NEW n \in 0 .. Len(w), NEW p \in Seq(Nat), Sequence(p),
           NEW c \in 0 .. n - 1, Window(p, w, c)
    PROVE  SequenceEnd(SubSeq(w, 1, n), c) = EndIn(n, c + Len(p))
<1> DEFINE a == SubSeq(w, 1, n)
           d == c + Len(p)
<1>1. /\ a \in Seq(Nat) /\ Len(a) = n /\ Window(a, w, 0) /\ \A k \in 1 .. n : a[k] = w[k]
      /\ n \in Nat /\ c \in Nat /\ Len(p) \in Nat /\ Len(p) >= 2 /\ n <= Len(w)
  <2>1. /\ a \in Seq(Nat) /\ Len(a) = n /\ Window(a, w, 0)
        /\ \A k \in 1 .. n : a[k] = w[k]
    BY PrefixWindow
  <2>2. Len(p) >= 2
    <3>1. CASE Len(p) = 2
      BY <3>1
    <3>2. CASE Whole(p)
      BY <3>2 DEF Whole
    <3> QED BY <3>1, <3>2 DEF Sequence
  <2>3. Len(w) \in Nat /\ Len(p) \in Nat
    OBVIOUS
  <2>4. n \in Nat /\ c \in Nat /\ n <= Len(w)
    BY <2>3
  <2> HIDE DEF a
  <2> QED BY <2>1, <2>2, <2>3, <2>4
<1> HIDE DEF a
<1>2. CASE c + 1 >= n
  <2>1. SequenceEnd(a, c) = n
    BY <1>1, <1>2 DEF SequenceEnd
  <2>2. ~ (d <= n)
    BY <1>1, <1>2
  <2> QED BY <2>1, <2>2 DEF EndIn, a
<1>3. CASE ~ (c + 1 >= n)
  <2>1. a[c + 2] = p[2] /\ c + 2 <= n
    <3>1. c + 2 \in 1 .. n /\ 2 \in 1 .. Len(p)
      BY <1>1, <1>3
    <3>2. p[2] = w[c + 2]
      BY <3>1 DEF Window
    <3>3. a[c + 2] = w[c + 2]
      BY <1>1, <3>1
    <3>4. c + 2 <= n
      BY <1>1, <1>3
    <3> QED BY <3>2, <3>3, <3>4
  <2>2. CASE p[2] \notin {Csi, Osc}
    <3>1. Len(p) = 2
      BY <2>2 DEF Sequence, Whole, Kinds
    <3>2. SequenceEnd(a, c) = c + 2
      BY <1>1, <1>3, <2>1, <2>2 DEF SequenceEnd
    <3>3. d <= n /\ d = c + 2
      BY <1>1, <2>1, <3>1
    <3> QED BY <3>2, <3>3 DEF EndIn, a
  <2>3. CASE p[2] \in {Csi, Osc}
    <3>1. Whole(p)
      BY <2>3 DEF Sequence
    <3>2. SequenceEnd(a, c) = ScanTo(Ends(a, c), a)
      <4>1. c + 1 < Len(a) /\ Csi # Osc
        BY <1>1, <1>3 DEF Csi, Osc
      <4>2. CASE a[c + 2] = Csi
        BY <1>1, <1>3, <4>1, <4>2 DEF SequenceEnd, Ends
      <4>3. CASE a[c + 2] = Osc
        BY <1>1, <1>3, <4>1, <4>3 DEF SequenceEnd, Ends
      <4> QED BY <2>1, <2>3, <4>2, <4>3
    <3>3. Ends(p, 0) # {} /\ Min(Ends(p, 0)) = Len(p) /\ 0 \in Nat /\ 0 + 2 <= Len(p)
      BY <1>1, <3>1 DEF Whole
    <3>4. CASE d <= n
      <4>1. Window(p, a, c)
        <5>1. \A k \in 1 .. Len(p) : p[k] = w[c + k]
          BY DEF Window
        <5>2. \A k \in 1 .. Len(p) : c + k \in 1 .. n
          BY <1>1, <3>4
        <5>3. \A k \in 1 .. Len(p) : p[k] = a[c + k]
          BY <1>1, <5>1, <5>2
        <5> QED BY <1>1, <3>4, <5>3 DEF Window
      <4>2. SameEnd(p, a, c, 0)
        BY <1>1, <3>3, <4>1, WindowMin
      <4>3. c + 0 = c
        BY <1>1
      <4>4. ScanTo(Ends(a, c), a) = d
        BY <3>3, <4>2, <4>3 DEF ScanTo, SameEnd
      <4> QED BY <3>2, <3>4, <4>4 DEF EndIn, a
    <3>5. CASE ~ (d <= n)
      <4>1. Ends(a, c) = {}
        <5> SUFFICES ASSUME NEW y \in Ends(a, c) PROVE FALSE
          OBVIOUS
        <5>1. y \in c + 3 .. n
          BY <1>1, EndsInside
        <5>2. /\ y \in Nat /\ y <= Len(a) /\ 0 + y = y /\ 0 + c = c /\ y - c \in Nat
              /\ c + (y - c) = y /\ c + 2 <= Len(a)
          BY <1>1, <2>1, <5>1
        <5>3. y - c <= Len(p) /\ ~ (Len(p) <= y - c)
          <6>1. y <= n /\ ~ (c + Len(p) <= n)
            BY <1>1, <3>5, <5>1
          <6>2. y \in Nat /\ c \in Nat /\ n \in Nat /\ Len(p) \in Nat
            BY <1>1, <5>2
          <6> QED BY <6>1, <6>2
        <5>4. \A x \in Nat : x <= Len(a) => (x \in Ends(a, c) <=> 0 + x \in Ends(w, 0 + c))
          BY <1>1, <5>2, WindowEnds
        <5>5. \A i, x \in Nat : i + 2 <= Len(p) /\ x <= Len(p) =>
                  (x \in Ends(p, i) <=> c + x \in Ends(w, c + i))
          BY <1>1, WindowEnds
        <5>6. y - c \in Ends(p, 0)
          <6>1. y \in Ends(w, c)
            BY <5>2, <5>4
          <6>2. y - c \in Ends(p, 0) <=> c + (y - c) \in Ends(w, c + 0)
            BY <3>3, <5>2, <5>3, <5>5
          <6>3. c + 0 = c
            BY <1>1
          <6> QED BY <5>2, <6>1, <6>2, <6>3
        <5>7. Ends(p, 0) \subseteq Nat
          BY <3>3, EndsInside
        <5>8. Len(p) <= y - c
          BY <3>3, <5>6, <5>7, MinIsLeast
        <5> QED BY <5>3, <5>8
      <4>2. ScanTo(Ends(a, c), a) = n
        BY <1>1, <4>1 DEF ScanTo
      <4> QED BY <3>2, <3>5, <4>2 DEF EndIn, a
    <3> QED BY <3>4, <3>5
  <2> QED BY <2>2, <2>3
<1> QED BY <1>2, <1>3

LEMMA SafeAtEnd ==
    ASSUME NEW S, NEW a \in Seq(S)
    PROVE  SafeScan(a)[Len(a)] = {Len(a)}
<1>1. Len(a) \in 0 .. Len(a)
  OBVIOUS
<1>2. SafeScan(a)[Len(a)] = SafeFrom(a, SafeScan(a), Len(a))
  BY <1>1, SafeUnfold
<1> QED BY <1>2 DEF SafeFrom

LEMMA SafeCases ==
    ASSUME NEW S, NEW a \in Seq(S), NEW i \in 0 .. Len(a) - 1
    PROVE  SafeScan(a)[i] =
               IF a[i + 1] = Esc
               THEN {SequenceEnd(a, i)} \cup SafeScan(a)[SequenceEnd(a, i)]
               ELSE (IF StartsChar(a[i + 1]) THEN {i} ELSE {}) \cup SafeScan(a)[i + 1]
<1>1. i \in 0 .. Len(a) /\ i # Len(a)
  OBVIOUS
<1>2. SafeScan(a)[i] = SafeFrom(a, SafeScan(a), i)
  BY <1>1, SafeUnfold
<1> QED BY <1>1, <1>2 DEF SafeFrom

\* Safe points are positions of the buffer.
LEMMA SafeInside ==
    ASSUME NEW S, NEW a \in Seq(S)
    PROVE  \A i \in 0 .. Len(a) : SafeScan(a)[i] \subseteq 0 .. Len(a)
<1> DEFINE n == Len(a)
           f == SafeScan(a)
           T == {i \in 0 .. n : f[i] \subseteq 0 .. n}
<1>0. n \in Nat
  OBVIOUS
<1>1. ASSUME NEW i \in 0 .. n, \A j \in i + 1 .. n : j \in T
      PROVE  i \in T
  <2>1. CASE i = n
    <3>1. f[n] = {n}
      BY SafeAtEnd
    <3> QED BY <1>0, <2>1, <3>1
  <2>2. CASE i # n
    <3>1. i \in 0 .. n - 1 /\ i + 1 \in i + 1 .. n
      BY <1>0, <2>2
    <3>2. SequenceEnd(a, i) \in i + 1 .. n
      BY <3>1, SequenceEndInside
    <3>3. SequenceEnd(a, i) \in 0 .. n /\ i \in 0 .. n
      BY <1>0, <3>1, <3>2
    <3>4. f[SequenceEnd(a, i)] \subseteq 0 .. n /\ f[i + 1] \subseteq 0 .. n
      BY <1>1, <3>1, <3>2
    <3>5. f[i] = IF a[i + 1] = Esc
                 THEN {SequenceEnd(a, i)} \cup f[SequenceEnd(a, i)]
                 ELSE (IF StartsChar(a[i + 1]) THEN {i} ELSE {}) \cup f[i + 1]
      BY <3>1, SafeCases
    <3> HIDE DEF f
    <3>6. f[i] \subseteq 0 .. n
      BY <3>3, <3>4, <3>5
    <3> QED BY <3>6
  <2> QED BY <2>1, <2>2
<1> HIDE DEF T
<1>2. \A i \in 0 .. n : i \in T
  BY <1>0, <1>1, Backwards
<1> QED BY <1>2 DEF T

\* One piece of the scan: a character is safe at its start, a sequence at its
\* end, and the scan goes on after it.
PieceScanned(w, n, p, c) ==
    LET e == EndIn(n, c + Len(p))
        f == SafeScan(SubSeq(w, 1, n))
    IN  e \in c + 1 .. n /\ f[c] = {IF p[1] = Esc THEN e ELSE c} \cup f[e]

LEMMA PieceScan ==
    ASSUME NEW w \in Seq(Nat), NEW n \in 0 .. Len(w), NEW p \in Seq(Nat),
           Character(p) \/ Sequence(p), NEW c \in 0 .. n - 1, Window(p, w, c)
    PROVE  PieceScanned(w, n, p, c)
<1> DEFINE a == SubSeq(w, 1, n)
           f == SafeScan(a)
           e == EndIn(n, c + Len(p))
<1>1. a \in Seq(Nat) /\ Len(a) = n /\ \A k \in 1 .. n : a[k] = w[k]
  BY PrefixWindow
<1>2. n \in Nat /\ c \in Nat /\ Len(p) \in Nat /\ Len(p) >= 1
  BY DEF Character, Sequence, Whole
<1>3. e \in c + 1 .. n /\ e <= c + Len(p)
  BY <1>2 DEF EndIn
<1> HIDE DEF a, e
<1>4. \A k \in 1 .. e - c : c + k \in 1 .. n /\ a[c + k] = p[k]
  <2> TAKE k \in 1 .. e - c
  <2>1. c + k \in 1 .. n /\ k \in 1 .. Len(p)
    BY <1>2, <1>3
  <2>2. p[k] = w[c + k]
    BY <2>1 DEF Window
  <2> QED BY <1>1, <2>1, <2>2
<1>5. a[c + 1] = p[1] /\ c \in 0 .. Len(a) - 1
  BY <1>1, <1>2, <1>3, <1>4
<1>6. f[c] = IF a[c + 1] = Esc
             THEN {SequenceEnd(a, c)} \cup f[SequenceEnd(a, c)]
             ELSE (IF StartsChar(a[c + 1]) THEN {c} ELSE {}) \cup f[c + 1]
  BY <1>1, <1>5, SafeCases
<1>7. CASE Sequence(p)
  <2>1. SequenceEnd(a, c) = e
    BY <1>7, SequenceEndIs DEF a, e
  <2>2. p[1] = Esc
    BY <1>7 DEF Sequence, Whole
  <2> HIDE DEF f
  <2>3. f[c] = {IF p[1] = Esc THEN e ELSE c} \cup f[e]
    BY <1>5, <1>6, <2>1, <2>2
  <2> QED BY <1>3, <2>3 DEF f, a, e, PieceScanned
<1>8. CASE Character(p)
  <2> DEFINE m == (e - c) - 1
             T == {i \in 0 .. m : f[(c + 1) + i] = f[c + 1]}
  <2>1. m \in Nat /\ e \in Nat
    BY <1>2, <1>3
  <2>2. 0 \in T
    <3>1. (c + 1) + 0 = c + 1 /\ 0 \in 0 .. m
      BY <1>2, <2>1
    <3> QED BY <3>1
  <2>3. ASSUME NEW i \in 0 .. m - 1, i \in T
        PROVE  i + 1 \in T
    <3> DEFINE x == (c + 1) + i
    <3>1. /\ x \in 0 .. n - 1 /\ x + 1 = c + (i + 2) /\ i + 2 \in 1 .. e - c /\ i + 2 >= 2
          /\ x + 1 = (c + 1) + (i + 1) /\ i + 1 \in 0 .. m /\ i + 2 <= Len(p)
      BY <1>2, <1>3, <2>1
    <3>2. a[x + 1] = p[i + 2]
      BY <1>4, <3>1
    <3>3. i + 2 \in 2 .. Len(p)
      BY <1>2, <3>1
    <3>4. ~StartsChar(a[x + 1])
      BY <1>8, <3>2, <3>3 DEF Character
    <3>5. StartsChar(Esc)
      BY DEF StartsChar, Esc
    <3>6. a[x + 1] # Esc
      BY <3>4, <3>5
    <3> HIDE DEF x
    <3>7. f[x] = IF a[x + 1] = Esc
                 THEN {SequenceEnd(a, x)} \cup f[SequenceEnd(a, x)]
                 ELSE (IF StartsChar(a[x + 1]) THEN {x} ELSE {}) \cup f[x + 1]
      BY <1>1, <3>1, SafeCases
    <3> HIDE DEF f
    <3>8. f[x] = f[x + 1]
      BY <3>4, <3>6, <3>7
    <3>9. f[x] = f[c + 1]
      BY <2>3 DEF x
    <3> QED BY <3>1, <3>8, <3>9
  <2> HIDE DEF T
  <2>4. \A i \in 0 .. m : i \in T
    BY <2>1, <2>2, <2>3, Induction
  <2>5. m \in T /\ (c + 1) + m = e
    BY <1>2, <2>1, <2>4
  <2>6. f[e] = f[c + 1]
    BY <2>5 DEF T
  <2>7. p[1] # Esc /\ StartsChar(p[1])
    BY <1>8 DEF Character
  <2> HIDE DEF f
  <2>8. f[c] = {IF p[1] = Esc THEN e ELSE c} \cup f[e]
    BY <1>5, <1>6, <2>6, <2>7
  <2> QED BY <1>3, <2>8 DEF f, a, e, PieceScanned
<1> QED BY <1>7, <1>8

\* Between piece k and the next there is a safe place to cut, when the scan
\* started with piece `first` + 1.
Between(q, first, k) == q[k + 1][1] # Esc \/ (k > first /\ q[k][1] = Esc)
\* Where the scan from after the first k pieces finds safe places before n.
SafeFound(q, n, k) ==
    \A x \in 0 .. n - 1 :
        x \in SafeScan(SubSeq(FlattenSeq(q), 1, n))[At(q, k)] <=>
            \E j \in k .. Len(q) - 1 : x = At(q, j) /\ Between(q, k, j)

LEMMA ScanFinds ==
    ASSUME NEW q \in Seq(Seq(Nat)),
           \A k \in 1 .. Len(q) : Character(q[k]) \/ Sequence(q[k]),
           NEW n \in 1 .. Len(FlattenSeq(q)), NEW k \in 0 .. Len(q), At(q, k) < n
    PROVE  SafeFound(q, n, k)
<1> DEFINE w == FlattenSeq(q)
           a == SubSeq(w, 1, n)
           f == SafeScan(a)
           m == Len(q)
           T == {i \in 0 .. m : At(q, i) < n => SafeFound(q, n, i)}
<1>0. /\ m \in Nat /\ n \in Nat /\ w \in Seq(Nat) /\ n \in 0 .. Len(w) /\ Len(w) \in Nat
      /\ At(q, m) = Len(w) /\ \A i \in 0 .. m : At(q, i) \in Nat
  <2>1. w \in Seq(Nat)
    <3>1. \A i \in 0 .. m : Flat(q, i) \in Seq(Nat)
      BY FlatSteps
    <3> QED BY <3>1, FlatSteps
  <2>2. At(q, m) = Len(w) /\ \A i \in 0 .. m : At(q, i) \in Nat
    BY AtSteps
  <2>3. m \in Nat /\ n \in Nat /\ Len(w) \in Nat
    BY <2>1
  <2>4. n \in 0 .. Len(w)
    BY <2>3
  <2> QED BY <2>1, <2>2, <2>3, <2>4
<1>1. a \in Seq(Nat) /\ Len(a) = n
  BY <1>0, PrefixWindow
<1>2. f[n] = {n}
  BY <1>1, SafeAtEnd
<1>3. ASSUME NEW i \in 0 .. m, \A j \in i + 1 .. m : j \in T, At(q, i) < n
      PROVE  SafeFound(q, n, i)
  <2> DEFINE c == At(q, i)
             p == q[i + 1]
             d == c + Len(p)
             e == EndIn(n, d)
  <2>1. i # m
    BY <1>0, <1>3
  <2>2. i \in 0 .. m - 1 /\ i + 1 \in 1 .. m /\ i + 1 \in i + 1 .. m /\ i + 1 \in 0 .. m
    BY <1>0, <2>1
  <2>3. p \in Seq(Nat) /\ (Character(p) \/ Sequence(p)) /\ Len(p) \in Nat /\ Len(p) >= 1
    <3>1. p \in Seq(Nat) /\ (Character(p) \/ Sequence(p))
      BY <2>2
    <3> HIDE DEF p
    <3> QED BY <3>1 DEF Character, Sequence, Whole
  <2>4. c \in Nat /\ c \in 0 .. n - 1 /\ d = At(q, i + 1) /\ d \in Nat /\ c < d
    <3>1. c \in Nat /\ d = At(q, i + 1)
      BY <1>0, <2>2, AtSteps
    <3>2. c < n /\ n \in Nat
      BY <1>0, <1>3
    <3> HIDE DEF c, p
    <3>3. d \in Nat /\ c < d
      BY <2>3, <3>1
    <3> QED BY <3>1, <3>2, <3>3
  <2>5. Window(p, w, c)
    BY <2>2, PieceStands
  <2>6. e \in c + 1 .. n /\ f[c] = {IF p[1] = Esc THEN e ELSE c} \cup f[e]
    <3>1. PieceScanned(w, n, p, c)
      <4> HIDE DEF w, p, c
      <4> QED BY <1>0, <2>3, <2>4, <2>5, PieceScan
    <3> QED BY <3>1 DEF PieceScanned
  <2>7. \A j \in i + 1 .. m : d <= At(q, j) /\ At(q, j) \in Nat
    <3> TAKE j \in i + 1 .. m
    <3>1. j \in 0 .. m
      BY <1>0
    <3>2. At(q, i + 1) <= At(q, j)
      BY <2>2, AtMonotone
    <3> HIDE DEF d
    <3> QED BY <1>0, <2>4, <3>1, <3>2
  <2>8. \A j \in i .. m - 1 : j = i \/ j \in i + 1 .. m - 1
    BY <1>0
  <2> HIDE DEF f
  <2>9. CASE d < n
    <3>1. e = d
      <4> HIDE DEF d
      <4> QED BY <1>0, <2>4, <2>9 DEF EndIn
    <3>2. SafeFound(q, n, i + 1) /\ i + 1 # m
      <4>1. At(q, i + 1) < n /\ At(q, i + 1) \in Nat
        <5> HIDE DEF d
        <5> QED BY <2>4, <2>9
      <4>2. i + 1 \in T
        BY <1>3, <2>2
      <4>3. At(q, m) >= n
        BY <1>0
      <4>4. i + 1 # m
        BY <1>0, <4>1, <4>3
      <4> QED BY <4>1, <4>2, <4>4 DEF T
    <3>3. i + 1 \in i + 1 .. m - 1 /\ i + 1 > i
      BY <1>0, <2>2, <3>2
    <3>4. \A x \in 0 .. n - 1 :
              x \in f[d] <=> \E j \in i + 1 .. m - 1 : x = At(q, j) /\ Between(q, i + 1, j)
      BY <2>4, <3>2 DEF SafeFound, f
    <3>5. \A j \in i + 1 .. m - 1 :
              /\ j # i + 1 => (Between(q, i, j) <=> Between(q, i + 1, j))
              /\ j = i + 1 => (Between(q, i + 1, j) <=> q[j + 1][1] # Esc)
              /\ j = i + 1 => (Between(q, i, j) <=> q[j + 1][1] # Esc \/ p[1] = Esc)
      <4> TAKE j \in i + 1 .. m - 1
      <4>1. j > i /\ (j # i + 1 <=> j > i + 1)
        BY <2>2
      <4> QED BY <4>1 DEF Between
    <3>6. Between(q, i, i) <=> p[1] # Esc
      <4>1. ~ (i > i)
        BY <2>2
      <4> QED BY <4>1 DEF Between
    <3> SUFFICES ASSUME NEW x \in 0 .. n - 1
                 PROVE  x \in f[c] <=> \E j \in i .. m - 1 : x = At(q, j) /\ Between(q, i, j)
      BY DEF SafeFound, f
    <3>7. i \in i .. m - 1 /\ \A j \in i + 1 .. m - 1 : j \in i .. m - 1
      BY <1>0, <2>2
    <3> HIDE DEF c, d, e, p
    <3>8. CASE p[1] = Esc
      <4>1. x \in f[c] <=> x = d \/ x \in f[d]
        BY <2>6, <3>1, <3>8
      <4>2. ASSUME x \in f[c]
            PROVE  \E j \in i .. m - 1 : x = At(q, j) /\ Between(q, i, j)
        <5>1. CASE x = d
          <6>1. x = At(q, i + 1) /\ Between(q, i, i + 1)
            BY <2>4, <3>3, <3>5, <3>8, <5>1
          <6> QED BY <3>3, <3>7, <6>1
        <5>2. CASE x \in f[d]
          <6>1. PICK j \in i + 1 .. m - 1 : x = At(q, j) /\ Between(q, i + 1, j)
            BY <3>4, <5>2
          <6>2. Between(q, i, j)
            BY <3>5, <6>1
          <6> QED BY <3>7, <6>1, <6>2
        <5> QED BY <4>1, <4>2, <5>1, <5>2
      <4>3. ASSUME NEW j \in i .. m - 1, x = At(q, j), Between(q, i, j)
            PROVE  x \in f[c]
        <5>1. j # i
          BY <3>6, <3>8, <4>3
        <5>2. j \in i + 1 .. m - 1
          BY <2>8, <5>1
        <5>3. CASE j = i + 1
          BY <2>4, <4>1, <4>3, <5>3
        <5>4. CASE j # i + 1
          <6>1. Between(q, i + 1, j)
            BY <3>5, <4>3, <5>2, <5>4
          <6>2. x \in f[d]
            BY <3>4, <4>3, <5>2, <6>1
          <6> QED BY <4>1, <6>2
        <5> QED BY <5>3, <5>4
      <4> QED BY <4>2, <4>3
    <3>9. CASE p[1] # Esc
      <4>1. x \in f[c] <=> x = c \/ x \in f[d]
        BY <2>6, <3>1, <3>9
      <4>2. ASSUME x \in f[c]
            PROVE  \E j \in i .. m - 1 : x = At(q, j) /\ Between(q, i, j)
        <5>1. CASE x = c
          BY <3>6, <3>7, <3>9, <5>1 DEF c
        <5>2. CASE x \in f[d]
          <6>1. PICK j \in i + 1 .. m - 1 : x = At(q, j) /\ Between(q, i + 1, j)
            BY <3>4, <5>2
          <6>2. Between(q, i, j)
            BY <3>5, <6>1
          <6> QED BY <3>7, <6>1, <6>2
        <5> QED BY <4>1, <4>2, <5>1, <5>2
      <4>3. ASSUME NEW j \in i .. m - 1, x = At(q, j), Between(q, i, j)
            PROVE  x \in f[c]
        <5>1. CASE j = i
          BY <4>1, <4>3, <5>1 DEF c
        <5>2. CASE j # i
          <6>1. j \in i + 1 .. m - 1
            BY <2>8, <5>2
          <6>2. Between(q, i + 1, j)
            BY <3>5, <3>9, <4>3, <6>1
          <6>3. x \in f[d]
            BY <3>4, <4>3, <6>1, <6>2
          <6> QED BY <4>1, <6>3
        <5> QED BY <5>1, <5>2
      <4> QED BY <4>2, <4>3
    <3> QED BY <3>8, <3>9
  <2>10. CASE ~ (d < n)
    <3>1. e = n
      <4> HIDE DEF d
      <4> QED BY <1>0, <2>4, <2>10 DEF EndIn
    <3>2. Between(q, i, i) <=> p[1] # Esc
      <4>1. ~ (i > i)
        BY <2>2
      <4> QED BY <4>1 DEF Between
    <3> SUFFICES ASSUME NEW x \in 0 .. n - 1
                 PROVE  x \in f[c] <=> \E j \in i .. m - 1 : x = At(q, j) /\ Between(q, i, j)
      BY DEF SafeFound, f
    <3>3. x # n /\ x < n
      BY <1>0
    <3>4. x \in f[c] <=> p[1] # Esc /\ x = c
      BY <1>2, <2>6, <3>1, <3>3
    <3>5. ASSUME NEW j \in i .. m - 1, x = At(q, j)
          PROVE  j = i
      <4>1. CASE j \in i + 1 .. m - 1
        <5>1. j \in i + 1 .. m
          BY <1>0, <4>1
        <5>2. d <= x
          BY <2>7, <3>5, <5>1
        <5>3. x \in Nat /\ n \in Nat /\ d \in Nat
          BY <1>0, <2>4
        <5> HIDE DEF d
        <5> QED BY <2>10, <3>3, <5>2, <5>3
      <4> QED BY <2>8, <4>1
    <3>6. i \in i .. m - 1
      BY <1>0, <2>2
    <3> QED BY <3>2, <3>4, <3>5, <3>6
  <2> QED BY <2>9, <2>10
<1> HIDE DEF T
<1>4. \A i \in 0 .. m : i \in T
  BY <1>0, <1>3, Backwards DEF T
<1> QED BY <1>4 DEF T


-----------------------------------------------------------------------------
(* The cut is the last safe place that the tokens allow.                     *)

\* The safe places of output made of pieces: after a piece, but not between a
\* character and the sequence that follows it.
CutsOf(q) ==
    {At(q, k) : k \in {k \in 0 .. Len(q) :
        k \in 1 .. Len(q) - 1 => q[k][1] = Esc \/ q[k + 1][1] # Esc}}

LEMMA SafePointsCut ==
    ASSUME NEW q \in Seq(Seq(Nat)),
           \A k \in 1 .. Len(q) : Character(q[k]) \/ Sequence(q[k]),
           NEW n \in 1 .. Len(FlattenSeq(q)), NEW x \in 0 .. n - 1
    PROVE  x \in SafePoints(SubSeq(FlattenSeq(q), 1, n)) <=> x \in CutsOf(q)
<1> DEFINE w == FlattenSeq(q)
           a == SubSeq(w, 1, n)
           m == Len(q)
<1>0. /\ m \in Nat /\ n \in Nat /\ w \in Seq(Nat) /\ n \in 0 .. Len(w) /\ Len(w) \in Nat
      /\ At(q, m) = Len(w) /\ At(q, 0) = 0 /\ 0 \in 0 .. m
  <2>1. m \in Nat /\ m \in 0 .. m /\ 0 \in 0 .. m
    OBVIOUS
  <2>2. w \in Seq(Nat)
    BY <2>1, FlatSteps
  <2>3. At(q, m) = Len(w) /\ At(q, 0) = 0
    BY AtSteps
  <2>4. n \in Nat /\ Len(w) \in Nat
    BY <2>2
  <2> QED BY <2>1, <2>2, <2>3, <2>4
<1>1. a \in Seq(Nat)
  BY <1>0, PrefixWindow
<1>2. SafePoints(a) = {0} \cup SafeScan(a)[0]
  BY <1>1, SafeUnfold
<1>3. SafeFound(q, n, 0)
  <2>1. At(q, 0) < n
    BY <1>0
  <2> QED BY <1>0, <2>1, ScanFinds
<1>4. x \in SafeScan(a)[0] <=> \E j \in 0 .. m - 1 : x = At(q, j) /\ Between(q, 0, j)
  BY <1>0, <1>3 DEF SafeFound
<1>5. \A j \in 1 .. m - 1 : Between(q, 0, j) <=> q[j][1] = Esc \/ q[j + 1][1] # Esc
  <2> TAKE j \in 1 .. m - 1
  <2>1. j > 0
    BY <1>0
  <2> QED BY <2>1 DEF Between
<1> HIDE DEF a
<1>6. ASSUME x \in CutsOf(q), x # 0
      PROVE  x \in SafePoints(a)
  <2>1. PICK k \in 0 .. m : /\ x = At(q, k)
                            /\ k \in 1 .. m - 1 => q[k][1] = Esc \/ q[k + 1][1] # Esc
    BY <1>6 DEF CutsOf
  <2>2. k # 0 /\ k # m
    BY <1>0, <1>6, <2>1
  <2>3. k \in 1 .. m - 1 /\ k \in 0 .. m - 1
    BY <1>0, <2>2
  <2>4. Between(q, 0, k)
    BY <1>5, <2>1, <2>3
  <2> QED BY <1>2, <1>4, <2>1, <2>3, <2>4
<1>7. 0 \in CutsOf(q)
  <2>1. ~ (0 \in 1 .. m - 1)
    OBVIOUS
  <2> QED BY <1>0, <2>1 DEF CutsOf
<1>8. ASSUME x \in SafePoints(a), x # 0
      PROVE  x \in CutsOf(q)
  <2>1. PICK j \in 0 .. m - 1 : x = At(q, j) /\ Between(q, 0, j)
    BY <1>2, <1>4, <1>8
  <2>2. j # 0
    BY <1>0, <1>8, <2>1
  <2>3. j \in 1 .. m - 1 /\ j \in 0 .. m
    BY <1>0, <2>2
  <2>4. q[j][1] = Esc \/ q[j + 1][1] # Esc
    BY <1>5, <2>1, <2>3
  <2> QED BY <2>1, <2>3, <2>4 DEF CutsOf
<1>9. x = 0 => x \in SafePoints(a) /\ x \in CutsOf(q)
  BY <1>2, <1>7
<1> QED BY <1>6, <1>8, <1>9 DEF a

\* When the tokens do not allow the whole buffer.
LEMMA SplitInside ==
    ASSUME NEW q \in Seq(Seq(Nat)),
           \A k \in 1 .. Len(q) : Character(q[k]) \/ Sequence(q[k]),
           NEW n \in 1 .. Len(FlattenSeq(q)), NEW target \in 0 .. n - 1
    PROVE  Split(SubSeq(FlattenSeq(q), 1, n), target) = Max({c \in CutsOf(q) : c <= target})
<1> DEFINE w == FlattenSeq(q)
           a == SubSeq(w, 1, n)
           m == Len(q)
           P == {p \in SafePoints(a) : p <= target}
           C == {c \in CutsOf(q) : c <= target}
<1>0. /\ w \in Seq(Nat) /\ Len(w) \in Nat /\ n \in 0 .. Len(w) /\ n \in Nat /\ target \in Nat
      /\ target < n
  <2>1. m \in Nat /\ m \in 0 .. m
    OBVIOUS
  <2>2. w \in Seq(Nat)
    BY <2>1, FlatSteps
  <2>3. Len(w) \in Nat /\ n \in Nat
    BY <2>2
  <2> QED BY <2>2, <2>3
<1>1. a \in Seq(Nat) /\ Len(a) = n
  BY <1>0, PrefixWindow
<1>2. SafePoints(a) \subseteq Nat
  <2>1. SafePoints(a) = {0} \cup SafeScan(a)[0]
    BY <1>1, SafeUnfold
  <2>2. 0 \in 0 .. Len(a)
    BY <1>0, <1>1
  <2>3. SafeScan(a)[0] \subseteq 0 .. Len(a)
    BY <1>1, <2>2, SafeInside
  <2> QED BY <1>0, <1>1, <2>1, <2>3
<1>3. CutsOf(q) \subseteq Nat
  BY AtSteps DEF CutsOf
<1>4. \A x \in 0 .. n - 1 : x \in SafePoints(a) <=> x \in CutsOf(q)
  BY SafePointsCut
<1>5. P = C
  <2>1. \A x \in Nat : x <= target => x \in 0 .. n - 1
    BY <1>0
  <2> QED BY <1>2, <1>3, <1>4, <2>1
<1>6. CASE target # 0
  <2>1. ~ (target >= Len(a))
    BY <1>0, <1>1
  <2> QED BY <1>5, <1>6, <2>1 DEF Split
<1>7. CASE target = 0
  <2>1. Split(a, target) = 0
    BY <1>0, <1>1, <1>7 DEF Split
  <2>2. 0 \in CutsOf(q)
    <3>1. 0 \in 0 .. m /\ ~ (0 \in 1 .. m - 1)
      OBVIOUS
    <3>2. At(q, 0) = 0
      BY AtSteps
    <3> QED BY <3>1, <3>2 DEF CutsOf
  <2>3. C = {0}
    BY <1>3, <1>7, <2>2
  <2>4. Max({0}) = 0
    BY DEF Max
  <2> QED BY <2>1, <2>3, <2>4
<1> QED BY <1>6, <1>7

\* find_safe_split_point (ansi.rs:13) on any part of output made of whole
\* characters and sequences, cut anywhere by the read, and for any number of
\* tokens, cuts at the last place that the tokens allow and that is safe or the
\* end of what was read.
THEOREM SplitAtLastSafe ==
    ASSUME NEW q \in Seq(Seq(Nat)),
           \A k \in 1 .. Len(q) : Character(q[k]) \/ Sequence(q[k]),
           NEW n \in 0 .. Len(FlattenSeq(q)), NEW target \in Nat
    PROVE  Split(SubSeq(FlattenSeq(q), 1, n), target)
               = Max({c \in (CutsOf(q) \cup {n}) \cap 0 .. n : c <= target})
<1> DEFINE w == FlattenSeq(q)
           a == SubSeq(w, 1, n)
           C == {c \in (CutsOf(q) \cup {n}) \cap 0 .. n : c <= target}
<1>0. w \in Seq(Nat) /\ Len(w) \in Nat /\ n \in Nat
  <2>1. Len(q) \in 0 .. Len(q)
    OBVIOUS
  <2>2. w \in Seq(Nat)
    BY <2>1, FlatSteps
  <2> QED BY <2>2
<1>1. a \in Seq(Nat) /\ Len(a) = n
  BY <1>0, PrefixWindow
<1>2. CASE target >= n
  <2>1. Split(a, target) = n
    BY <1>1, <1>2 DEF Split
  <2>2. n \in C /\ \A c \in C : c <= n /\ c \in Nat
    BY <1>0, <1>2
  <2> HIDE DEF C
  <2>3. \A y \in C : n >= y
    BY <1>0, <2>2
  <2>4. ASSUME NEW x \in C, \A y \in C : x >= y
        PROVE  x = n
    <3>1. x >= n /\ x <= n /\ x \in Nat
      BY <2>2, <2>4
    <3> QED BY <1>0, <3>1
  <2>5. Max(C) = n
    BY <2>2, <2>3, <2>4 DEF Max
  <2> QED BY <2>1, <2>5 DEF C
<1>3. CASE target < n
  <2>1. target \in 0 .. n - 1 /\ n \in 1 .. Len(w)
    BY <1>0, <1>3
  <2>2. Split(a, target) = Max({c \in CutsOf(q) : c <= target})
    BY <2>1, SplitInside
  <2>3. CutsOf(q) \subseteq Nat
    BY AtSteps DEF CutsOf
  <2>4. C = {c \in CutsOf(q) : c <= target}
    BY <1>0, <1>3, <2>3
  <2> QED BY <2>2, <2>4
<1> QED BY <1>0, <1>2, <1>3

LEMMA ShownWhole ==
    ASSUME NEW p \in Shown, p[1] = Esc, p[2] \in Kinds, Len(p) >= 2
    PROVE  Whole(p)
<1>1. p \in Seq(Nat) /\ Displayed(p)
  BY ShownDisplayed
<1>2. 1 \in 0 + 1 .. Len(p) /\ 1 < Len(p) /\ 1 + 1 = 2
  BY <1>1
<1>3. ~Plain(p, 0)
  BY <1>2 DEF Plain
<1> QED BY <1>1, <1>3 DEF Displayed

\* The pieces of the run, DCS strings and broken ones aside, are characters and
\* sequences that find_safe_split_point knows.
LEMMA PiecesKnown ==
    ASSUME NEW p \in Shown \cup Queries
    PROVE  Character(p) \/ Sequence(p)
<1>1. CASE p \in Queries
  <2>1. Whole(p)
    BY <1>1, QueriesAnswered DEF Answered
  <2>2. p[2] # Dcs
    BY <1>1 DEF Queries, Dcs
  <2> QED BY <2>1, <2>2 DEF Sequence
<1>2. CASE p = <<120>>
  <2>1. Len(p) = 1 /\ p[1] = 120
    BY <1>2
  <2>2. \A j \in 2 .. Len(p) : FALSE
    BY <2>1
  <2> QED BY <2>1, <2>2 DEF Character, Esc, StartsChar
<1>3. CASE p = <<195, 169>>
  <2>1. Len(p) = 2 /\ p[1] = 195 /\ p[2] = 169
    BY <1>3
  <2>2. \A j \in 2 .. Len(p) : j = 2
    BY <2>1
  <2> QED BY <2>1, <2>2 DEF Character, Esc, StartsChar
<1>4. CASE p = <<7>>
  <2>1. Len(p) = 1 /\ p[1] = 7
    BY <1>4
  <2>2. \A j \in 2 .. Len(p) : FALSE
    BY <2>1
  <2> QED BY <2>1, <2>2 DEF Character, Esc, StartsChar
<1>5. CASE p = <<27, 55>>
  BY <1>5 DEF Sequence, Esc, Csi, Osc
<1>6. CASE p \in {<<27, 91, 109>>, <<27, 93, 120, 7>>, <<27, 93, 120, 27, 92>>}
  <2>1. p[1] = 27 /\ p[2] \in {91, 93} /\ Len(p) >= 2
    BY <1>6
  <2>2. p \in Shown
    BY <1>6 DEF Shown
  <2>3. Whole(p) /\ p[2] # Dcs
    BY <2>1, <2>2, ShownWhole DEF Kinds, Esc, Csi, Osc, Dcs
  <2> QED BY <2>3 DEF Sequence
<1> QED BY <1>1, <1>2, <1>3, <1>4, <1>5, <1>6 DEF Shown

LEMMA SafeCutsAre == PiecesOK => SafeCuts = CutsOf(pieces)
<1> SUFFICES ASSUME PiecesOK PROVE SafeCuts = CutsOf(pieces)
  OBVIOUS
<1>1. pieces \in Seq(Seq(Nat))
  BY PiecesTyped
<1>2. \A k \in 0 .. Len(pieces) : Cut(k) = At(pieces, k)
  BY <1>1, FlatPrefix DEF Cut, At
<1> QED BY <1>2 DEF SafeCuts, CutsOf, IsSequence

LEMMA SplitMatchesHolds == PiecesOK => SplitMatches
<1> SUFFICES ASSUME PiecesOK, Known,
                    NEW n \in 0 .. Len(Stream), NEW target \in 0 .. n + 1
             PROVE  Split(SubSeq(Stream, 1, n), target)
                        = Max({c \in (SafeCuts \cup {n}) \cap 0 .. n : c <= target})
  BY DEF SplitMatches
<1>1. pieces \in Seq(Seq(Nat)) /\ DOMAIN pieces = 1 .. Len(pieces)
  BY PiecesTyped
<1>2. \A k \in 1 .. Len(pieces) : Character(pieces[k]) \/ Sequence(pieces[k])
  BY <1>1, PiecesKnown DEF Known
<1>3. n \in 0 .. Len(FlattenSeq(pieces)) /\ target \in Nat
  BY DEF Stream
<1>4. Split(SubSeq(FlattenSeq(pieces), 1, n), target)
          = Max({c \in (CutsOf(pieces) \cup {n}) \cap 0 .. n : c <= target})
  BY <1>1, <1>2, <1>3, SplitAtLastSafe
<1> QED BY <1>4, SafeCutsAre DEF Stream

\* Whatever output the run builds, of any number of pieces, find_safe_split_point
\* (ansi.rs:13) cuts every part of it that may have been read at the last place
\* that the tokens allow and that is safe or the end of what was read.
THEOREM SplitCorrect == Spec => []SplitMatches
BY SplitMatchesHolds, PiecesInv, PTL
=============================================================================
