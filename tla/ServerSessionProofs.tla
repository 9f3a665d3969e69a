------------------------- MODULE ServerSessionProofs -------------------------
(***************************************************************************)
(* Theorems about ServerSession for every value of its constants.           *)
(***************************************************************************)
EXTENDS ServerSession, TLAPS

-----------------------------------------------------------------------------
(* The operators the actions are built from.                                *)

\* Division by the token unit rounds down to a natural number.
LEMMA WholePart ==
    ASSUME NEW t \in Nat, NEW u \in Nat \ {0}
    PROVE  t \div u \in Nat /\ u * (t \div u) <= t
OBVIOUS

\* The payload of n > 0 bytes has at least one byte and at most n.
LEMMA PayloadBound ==
    ASSUME NEW k \in Nat \ {0}, NEW n \in PayloadLens(k)
    PROVE  n \in 1 .. k
BY BucketAssumption DEF PayloadLens

\* A split point lies within the buffer and within the target.
LEMMA SplitBound ==
    ASSUME NEW lo \in Nat, produced \in Nat, lo <= produced,
           NEW target \in Nat, NEW k \in SplitPoints(lo, target)
    PROVE  k \in 0 .. (produced - lo) /\ k <= target
<1>1. CASE target >= produced - lo
  BY <1>1 DEF SplitPoints
<1>2. CASE target < produced - lo
  <2>1. k \in 0 .. target
    BY <1>2 DEF SplitPoints
  <2> QED BY <1>2, <2>1
<1> QED BY <1>1, <1>2

\* The refilled bucket holds at most a burst, and no more than time has added.
LEMMA RefillBound ==
    ASSUME tokens \in Int, NEW e \in Elapsed
    PROVE  /\ Refilled(e) \in Int
           /\ Refilled(e) <= Burst * TokenUnit
           /\ Refilled(e) <= tokens + Rate * e
<1>1. /\ e \in Nat /\ Rate \in Nat /\ Burst \in Nat /\ TokenUnit \in Nat
  BY BucketAssumption
<1>2. Rate * e \in Int /\ Burst * TokenUnit \in Int
  BY <1>1
<1> QED BY <1>2 DEF Refilled

\* The tokens a tick may spend are a natural number that the bucket covers.
LEMMA WholeTokensBound ==
    ASSUME tokens \in Int, NEW e \in Elapsed, Refilled(e) > 0
    PROVE  WholeTokens(e) \in Nat /\ TokenUnit * WholeTokens(e) <= Refilled(e)
<1>1. Refilled(e) \in Nat
  BY RefillBound
<1>2. TokenUnit \in Nat \ {0}
  BY BucketAssumption
<1> QED BY <1>1, <1>2, WholePart DEF WholeTokens

-----------------------------------------------------------------------------
(* Type correctness.                                                        *)

\* The initial values have their types.
LEMMA TypeInit == Init => TypeOK
<1> SUFFICES ASSUME Init PROVE TypeOK
  OBVIOUS
<1>1. Burst * TokenUnit \in Int
  BY BucketAssumption
<1>2. wire \in Seq(Frame)
  BY DEF Init
<1>3. /\ hand = NoFrame /\ sendPc = "top"
      /\ display \in [at : Nat, sound : BOOLEAN, ground : BOOLEAN]
  BY DEF Init
<1>4. ptyClosed \in BOOLEAN /\ pending \in BOOLEAN /\ running \in BOOLEAN
  BY Zenon DEF Init
<1> QED BY <1>1, <1>2, <1>3, <1>4, StreamAssumption DEF Init, TypeOK

\* Every step of the four threads of control preserves the types.
LEMMA TypeNext == TypeOK /\ [Next]_vars => TypeOK'
<1> SUFFICES ASSUME TypeOK, [Next]_vars PROVE TypeOK'
  OBVIOUS
<1> USE DEF TypeOK
<1>0. Burst * TokenUnit \in Int /\ MaxPackets \in Nat
  BY BucketAssumption, StreamAssumption
<1>1. ASSUME NEW n \in 1 .. MaxChunk, PtyRead(n) PROVE TypeOK'
  BY <1>0, <1>1 DEF PtyRead, sendVars, inVars, netVars
<1>2. ASSUME NEW n \in 1 .. MaxChunk, PtyReadPanic(n) PROVE TypeOK'
  BY <1>0, <1>2 DEF PtyReadPanic, sendVars, inVars, netVars
<1>3. CASE PtyEof
  BY <1>3 DEF PtyEof, sendVars, inVars, netVars
<1>4. CASE KeepGoing
  BY <1>4 DEF KeepGoing, ptyVars, inVars, netVars
<1>5. CASE FinalFlush
  <2>1. PICK n \in PayloadLens(produced - bufLo) :
            hand' = RawFrame(bufLo, produced, n, TRUE)
    BY <1>5 DEF FinalFlush
  <2>2. produced - bufLo \in Nat \ {0}
    BY <1>5 DEF FinalFlush
  <2>3. n \in Nat
    BY <2>1, <2>2, PayloadBound
  <2>4. hand' \in Frame /\ hand' # NoFrame
    BY <2>1, <2>3 DEF RawFrame, Frame, NoFrame
  <2>5. bufLo' \in 0 .. produced' /\ sentTo' \in 0 .. bufLo' /\ vtBase' \in 0 .. produced'
    BY <1>5 DEF FinalFlush
  <2>6. sendPc' = "flush" /\ seq' \in Nat
    BY <1>5 DEF FinalFlush
  <2>7. UNCHANGED <<produced, ptyClosed, tokens, pending, netOut, inVars, running, netVars>>
    BY <1>5 DEF FinalFlush
  <2> QED BY <2>4, <2>5, <2>6, <2>7 DEF inVars, netVars
<1>6. CASE FinalNothing
  BY <1>6 DEF FinalNothing, ptyVars, inVars, netVars
<1>7. ASSUME NEW e \in Elapsed, Tick(e) PROVE TypeOK'
  <2>0. Refilled(e) \in Int /\ Refilled(e) <= Burst * TokenUnit
    BY RefillBound
  <2>1. CASE TickExhausted(e)
    BY <2>0, <2>1 DEF TickExhausted, AtTick, TickLo, Refresh, Overflow, inVars, netVars
  <2>2. CASE TickRefresh(e)
    <3>1. PICK size \in AtomicSizes : \E n \in PayloadLens(size) :
              hand' = AtomicFrame(produced, vtBase, n)
      BY <2>2 DEF TickRefresh, MakeAtomic
    <3>0. PICK n \in PayloadLens(size) : hand' = AtomicFrame(produced, vtBase, n)
      BY <3>1
    <3>2. n \in Nat
      BY <3>0, PayloadBound, AtomicAssumption
    <3>3. hand' \in Frame /\ hand' # NoFrame
      BY <3>0, <3>2 DEF AtomicFrame, Frame, NoFrame
    <3>4. bufLo' \in 0 .. produced' /\ sentTo' \in 0 .. bufLo' /\ vtBase' \in 0 .. produced'
      BY <2>2 DEF TickRefresh, MakeAtomic
    <3>5. /\ sendPc' = "send" /\ seq' \in Nat /\ tokens' = Refilled(e)
          /\ pending' = FALSE
      BY <2>2 DEF TickRefresh, MakeAtomic, AtTick
    <3>6. UNCHANGED <<produced, ptyClosed, netOut, inVars, running, netVars>>
      BY <2>2 DEF TickRefresh, MakeAtomic
    <3> QED BY <2>0, <3>3, <3>4, <3>5, <3>6 DEF inVars, netVars
  <2>3. CASE TickRefreshPanic(e)
    <3>1. bufLo' \in 0 .. produced' /\ sentTo' \in 0 .. bufLo' /\ vtBase' \in 0 .. produced'
      BY <2>3 DEF TickRefreshPanic
    <3> QED BY <2>0, <2>3, <3>1 DEF TickRefreshPanic, AtTick, inVars, netVars
  <2>4. CASE TickIdle(e)
    BY <2>0, <2>4 DEF TickIdle, AtTick, ptyVars, inVars, netVars
  <2>5. CASE TickRaw(e)
    <3>1. PICK k \in SplitPoints(bufLo, WholeTokens(e)) \ {0} : MakeRaw(k, bufLo + k)
      BY <2>5 DEF TickRaw
    <3>2. WholeTokens(e) \in Nat
      BY <2>5, WholeTokensBound DEF TickRaw
    <3>3. k \in 1 .. (produced - bufLo)
      BY <3>1, <3>2, SplitBound
    <3>4. PICK n \in PayloadLens(k) : hand' = RawFrame(bufLo, bufLo + k, n, FALSE)
      BY <3>1 DEF MakeRaw
    <3>5. n \in Nat
      BY <3>3, <3>4, PayloadBound
    <3>6. hand' \in Frame /\ hand' # NoFrame
      BY <3>3, <3>4, <3>5 DEF RawFrame, Frame, NoFrame
    <3>7. bufLo' \in 0 .. produced' /\ sentTo' \in 0 .. bufLo' /\ vtBase' \in 0 .. produced'
      BY <3>1, <3>3 DEF MakeRaw
    <3>8. /\ sendPc' = "send" /\ seq' \in Nat /\ tokens' = Refilled(e)
      BY <2>5, <3>1 DEF TickRaw, MakeRaw, AtTick
    <3>9. UNCHANGED <<produced, ptyClosed, pending, netOut, inVars, running, netVars>>
      BY <3>1 DEF MakeRaw
    <3> QED BY <2>0, <3>6, <3>7, <3>8, <3>9 DEF inVars, netVars
  <2>6. CASE TickBlocked(e)
    BY <2>0, <2>6 DEF TickBlocked, AtTick, ptyVars, inVars, netVars
  <2> QED BY <1>7, <2>1, <2>2, <2>3, <2>4, <2>5, <2>6 DEF Tick
<1>8. CASE SendOk
  <2>1. hand \in Frame /\ hand.len \in Nat
    BY <1>8 DEF SendOk, Frame, NoFrame
  <2>2. wire' \in Seq(Frame)
    <3>1. wire' = wire \/ wire' = Append(wire, hand)
      BY <1>8 DEF SendOk, Transmit
    <3>2. wire \in Seq(Frame) /\ Append(wire, hand) \in Seq(Frame)
      BY <2>1
    <3> QED BY <3>1, <3>2, Zenon
  <2>3. TokenUnit * hand.len \in Nat
    BY <2>1, BucketAssumption
  <2>4. tokens' \in Int /\ tokens' <= Burst * TokenUnit /\ netOut' \in Nat
    BY <1>0, <1>8, <2>1, <2>3 DEF SendOk
  <2>5. hand' = NoFrame /\ sendPc' = "top"
    BY <1>8 DEF SendOk
  <2>6. UNCHANGED <<ptyVars, pending, seq, sentTo, inVars, running, conn, display>>
    BY <1>8 DEF SendOk
  <2> QED BY <2>2, <2>4, <2>5, <2>6 DEF ptyVars, inVars
<1>9. CASE FlushOk
  <2>1. hand \in Frame
    BY <1>9 DEF FlushOk
  <2>2. wire' \in Seq(Frame)
    <3>1. wire' = wire \/ wire' = Append(wire, hand)
      BY <1>9 DEF FlushOk, Transmit
    <3>2. wire \in Seq(Frame) /\ Append(wire, hand) \in Seq(Frame)
      BY <2>1
    <3> QED BY <3>1, <3>2, Zenon
  <2> QED BY <1>9, <2>2 DEF FlushOk, ptyVars, inVars
<1>10. CASE SendErr
  BY <1>10 DEF SendErr, ptyVars, inVars, netVars
<1>11. CASE ResizePty
  BY <1>0, <1>11 DEF ResizePty, ptyVars, sendVars, netVars
<1>12. CASE ResizeVt \/ PtyTakes
  BY <1>12 DEF ResizeVt, PtyTakes, ptyVars, sendVars, netVars
<1>13. CASE InputEnds
  BY <1>13 DEF InputEnds, ptyVars, sendVars, inVars, netVars
<1>18. CASE InputWrite
  BY <1>0, <1>18 DEF InputWrite, ptyVars, sendVars, netVars
<1>14. CASE SendEnds
  BY <1>14 DEF SendEnds, ptyVars, sendVars, inVars, netVars
<1>15. CASE ClientShow
  <2>1. Head(wire) \in Frame /\ wire' \in Seq(Frame)
    BY <1>15 DEF ClientShow
  <2>2. display' \in [at : Nat, sound : BOOLEAN, ground : BOOLEAN]
    <3>1. Head(wire).to \in Nat
      BY <2>1 DEF Frame
    <3>2. display' = Painted(display, Head(wire))
      BY <1>15 DEF ClientShow
    <3> DEFINE f == Head(wire)
               sd == IF f.kind = "atomic" THEN f.base = 0
                     ELSE /\ display.sound /\ f.from = display.at
                          /\ display.ground => display.at \in Boundary
    <3>3. sd \in BOOLEAN
      OBVIOUS
    <3>4. display' = [at |-> f.to, ground |-> f.kind = "atomic", sound |-> sd]
      BY <3>2 DEF Painted
    <3> HIDE DEF sd
    <3> QED BY <3>1, <3>3, <3>4
  <2> QED BY <1>15, <2>1, <2>2 DEF ClientShow, ptyVars, sendVars, inVars
<1>16. CASE ClientQuit
  <2>1. wire' \in Seq(Frame)
    BY <1>16 DEF ClientQuit
  <2> QED BY <1>16, <2>1 DEF ClientQuit, ptyVars, sendVars, inVars
<1>17. CASE UNCHANGED vars
  BY <1>17 DEF vars, ptyVars, sendVars, inVars, netVars
<1> QED
  BY <1>1, <1>2, <1>3, <1>4, <1>5, <1>6, <1>7, <1>8, <1>9, <1>10, <1>11,
     <1>12, <1>13, <1>14, <1>15, <1>16, <1>17, <1>18
  DEF Next, PtyThread, SendTask, InputLoop, Client

\* Every variable keeps its type in every reachable state, for every choice of
\* rate, burst, capacity and stream.
THEOREM TypeCorrect == Spec => []TypeOK
<1> QED BY TypeInit, TypeNext, PTL DEF Spec

-----------------------------------------------------------------------------
(* What the send task owes and may spend.  DropsAreOwed is inductive; the   *)
(* other two need to know what the frame in hand is while send() waits.      *)

\* While the last frame waits, everything is in it.
FlushState ==
    sendPc = "flush" => ptyClosed /\ bufLo = produced /\ sentTo = produced

\* While an ordinary frame waits, either its length is covered by the bucket,
\* or it is an atomic frame and the bucket is not empty.
HandIsPaid ==
    sendPc = "send" =>
        \/ hand.kind = "raw" /\ TokenUnit * hand.len <= tokens
        \/ hand.kind = "atomic" /\ hand.len <= MaxAtomic /\ tokens > 0

SendInv ==
    /\ DropsAreOwed
    /\ FlushState
    /\ ExitDrains
    /\ HandIsPaid
    /\ tokens > -(TokenUnit * MaxAtomic)

\* Nothing is owed, in hand or overdrawn when the send task starts.
LEMMA SendInvInit == Init => SendInv
<1> SUFFICES ASSUME Init PROVE SendInv
  OBVIOUS
<1>1. TokenUnit * MaxAtomic \in Nat \ {0} /\ Burst * TokenUnit \in Nat \ {0}
  BY BucketAssumption, AtomicAssumption
<1> QED BY <1>1 DEF Init, SendInv, DropsAreOwed, FlushState, ExitDrains, HandIsPaid

\* Every step preserves what the send task keeps between its ticks.
LEMMA SendInvNext == TypeOK /\ SendInv /\ [Next]_vars => SendInv'
<1> SUFFICES ASSUME TypeOK, SendInv, [Next]_vars PROVE SendInv'
  OBVIOUS
<1> USE DEF SendInv, DropsAreOwed, FlushState, ExitDrains, HandIsPaid
<1>0. /\ TokenUnit \in Nat \ {0} /\ MaxAtomic \in Nat \ {0} /\ MayPanic \in BOOLEAN
      /\ TokenUnit * MaxAtomic \in Nat \ {0}
  BY BucketAssumption, AtomicAssumption, StreamAssumption
<1>t. /\ produced \in Nat /\ bufLo \in 0 .. produced /\ sentTo \in 0 .. bufLo
      /\ tokens \in Int /\ pending \in BOOLEAN /\ ptyClosed \in BOOLEAN
      /\ sendPc \in {"top", "tick", "send", "flush", "done"}
      /\ conn \in {"open", "closed"}
  BY DEF TypeOK
<1>1. ASSUME NEW n \in 1 .. MaxChunk, PtyRead(n) \/ PtyReadPanic(n) PROVE SendInv'
  <2>1. /\ ~ptyClosed /\ produced' = produced + n
        /\ UNCHANGED <<bufLo, ptyClosed, sendVars, conn>>
    BY <1>1 DEF PtyRead, PtyReadPanic, netVars
  <2> QED BY <1>t, <2>1 DEF sendVars
<1>2. CASE PtyEof
  BY <1>2, <1>t DEF PtyEof, sendVars, netVars
<1>3. CASE KeepGoing
  BY <1>3 DEF KeepGoing, ptyVars, netVars
<1>4. CASE FinalFlush
  BY <1>4 DEF FinalFlush
<1>5. CASE FinalNothing
  BY <1>5, <1>t DEF FinalNothing, ptyVars
<1>6. ASSUME NEW e \in Elapsed, Tick(e) PROVE SendInv'
  <2>0. Refilled(e) \in Int /\ -(TokenUnit * MaxAtomic) < Refilled(e)
    <3>1. Rate * e \in Nat /\ Burst * TokenUnit \in Nat
      BY BucketAssumption
    <3> QED BY <1>0, <1>t, <3>1 DEF Refilled
  <2>1. CASE TickExhausted(e)
    BY <1>t, <2>0, <2>1 DEF TickExhausted, AtTick, TickLo, Refresh, Overflow, netVars
  <2>2. CASE TickRefresh(e)
    <3>1. PICK size \in AtomicSizes : \E n \in PayloadLens(size) :
              hand' = AtomicFrame(produced, vtBase, n)
      BY <2>2 DEF TickRefresh, MakeAtomic
    <3>2. PICK n \in PayloadLens(size) : hand' = AtomicFrame(produced, vtBase, n)
      BY <3>1
    <3>3. n \in 1 .. MaxAtomic
      BY <3>2, PayloadBound, AtomicAssumption
    <3>4. hand'.kind = "atomic" /\ hand'.len <= MaxAtomic
      BY <3>2, <3>3 DEF AtomicFrame
    <3>5. /\ sendPc' = "send" /\ bufLo' = produced /\ sentTo' = produced
          /\ tokens' = Refilled(e) /\ Refilled(e) > 0
      BY <2>2 DEF TickRefresh, MakeAtomic, AtTick
    <3> QED BY <1>t, <2>0, <3>4, <3>5
  <2>3. CASE TickRefreshPanic(e)
    BY <1>t, <2>0, <2>3 DEF TickRefreshPanic, AtTick
  <2>4. CASE TickIdle(e)
    BY <1>t, <2>0, <2>4 DEF TickIdle, AtTick, ptyVars, netVars
  <2>5. CASE TickRaw(e)
    <3>1. PICK k \in SplitPoints(bufLo, WholeTokens(e)) \ {0} : MakeRaw(k, bufLo + k)
      BY <2>5 DEF TickRaw
    <3>2. WholeTokens(e) \in Nat /\ TokenUnit * WholeTokens(e) <= Refilled(e)
      BY <1>t, <2>5, WholeTokensBound DEF TickRaw
    <3>3. k \in Nat \ {0} /\ k <= WholeTokens(e)
      BY <1>t, <3>1, <3>2, SplitBound
    <3>4. PICK n \in PayloadLens(k) : hand' = RawFrame(bufLo, bufLo + k, n, FALSE)
      BY <3>1 DEF MakeRaw
    <3>5. n \in 1 .. k
      BY <3>3, <3>4, PayloadBound
    <3>6. TokenUnit * n <= TokenUnit * WholeTokens(e)
      BY <1>0, <3>2, <3>3, <3>5
    <3>7. hand'.kind = "raw" /\ hand'.len = n
      BY <3>4 DEF RawFrame
    <3>8. /\ sendPc' = "send" /\ bufLo' = bufLo + k /\ sentTo' = bufLo + k
          /\ tokens' = Refilled(e)
      BY <2>5, <3>1 DEF TickRaw, MakeRaw, AtTick
    <3>9. TokenUnit * hand'.len <= tokens'
      BY <1>0, <2>0, <3>2, <3>5, <3>6, <3>7, <3>8
    <3> QED BY <2>0, <3>7, <3>8, <3>9
  <2>6. CASE TickBlocked(e)
    BY <1>t, <2>0, <2>6 DEF TickBlocked, AtTick, ptyVars, netVars
  <2> QED BY <1>6, <2>1, <2>2, <2>3, <2>4, <2>5, <2>6 DEF Tick
<1>7. CASE SendOk
  <2>1. hand.len \in Nat
    BY <1>7 DEF SendOk, TypeOK, Frame, NoFrame
  <2>2. TokenUnit * hand.len \in Nat
    BY <1>0, <2>1
  <2>3. tokens - TokenUnit * hand.len > -(TokenUnit * MaxAtomic)
    <3>1. CASE hand.kind = "raw" /\ TokenUnit * hand.len <= tokens
      BY <1>0, <1>t, <2>2, <3>1
    <3>2. CASE hand.kind = "atomic" /\ hand.len <= MaxAtomic /\ tokens > 0
      <4>1. TokenUnit * hand.len <= TokenUnit * MaxAtomic
        BY <1>0, <2>1, <3>2
      <4> QED BY <1>0, <1>t, <2>2, <3>2, <4>1
    <3> QED BY <1>7, <3>1, <3>2 DEF SendOk
  <2> QED BY <1>7, <2>3 DEF SendOk, ptyVars
<1>8. CASE FlushOk
  BY <1>8 DEF FlushOk, ptyVars
<1>9. CASE SendErr
  BY <1>9 DEF SendErr, ptyVars, netVars
<1>10. CASE InputLoop \/ SendEnds
  <2>1. UNCHANGED <<produced, bufLo, ptyClosed, sendVars, conn>>
    BY <1>10 DEF InputLoop, ResizePty, ResizeVt, InputWrite, PtyTakes, InputEnds,
                SendEnds, ptyVars, netVars
  <2> QED BY <2>1 DEF sendVars
<1>11. CASE ClientShow
  BY <1>11 DEF ClientShow, ptyVars, sendVars
<1>12. CASE ClientQuit
  BY <1>12 DEF ClientQuit, ptyVars, sendVars
<1>13. CASE UNCHANGED vars
  BY <1>13 DEF vars, ptyVars, sendVars, netVars
<1> QED
  BY <1>1, <1>2, <1>3, <1>4, <1>5, <1>6, <1>7, <1>8, <1>9, <1>10, <1>11, <1>12, <1>13
  DEF Next, PtyThread, SendTask, InputLoop, Client

\* What the send task keeps between its ticks holds in every reachable state.
THEOREM SendInvariant == Spec => []SendInv
<1>1. TypeOK /\ SendInv /\ [Next]_vars => SendInv'
  BY SendInvNext
<1> QED BY SendInvInit, TypeCorrect, <1>1, PTL DEF Spec

\* Discarded output stays owed to the client as a pending refresh (unless the
\* vt100 library panics), whatever the sizes of the buffer and the bucket.
THEOREM DropsOwed == Spec => []DropsAreOwed
<1>1. SendInv => DropsAreOwed
  BY DEF SendInv
<1> QED BY SendInvariant, <1>1, PTL

\* The send task does not finish before it has taken the last byte.
THEOREM ExitIsDrained == Spec => []ExitDrains
<1>1. SendInv => ExitDrains
  BY DEF SendInv
<1> QED BY SendInvariant, <1>1, PTL

\* The bucket is overdrawn by less than one atomic frame.
THEOREM Overdraft == Spec => []OverdraftIsBounded
<1>1. SendInv => OverdraftIsBounded
  BY DEF SendInv, HandIsPaid, OverdraftIsBounded
<1> QED BY SendInvariant, <1>1, PTL

-----------------------------------------------------------------------------
(* The frames on their way to the client form one gapless chain.  Route, the *)
(* frames sent and the one in hand, changes in three ways only: a frame is   *)
(* made at its end, the client takes its head, or the client quits.          *)

RouteEnd == IF Route = <<>> THEN display.at ELSE Route[Len(Route)].to

Chained(i) ==
    /\ EndBefore(i) <= Route[i].to
    /\ Route[i].to <= produced
    /\ Route[i].seq = seq - Len(Route) + i
    /\ ~MayPanic /\ Route[i].kind = "raw" /\ ~Route[i].last =>
          Route[i].from = EndBefore(i)

\* The inductive invariant: FramesAdvance and NoHoles, and no frame carries
\* more than the shell has printed.
ChainInv ==
    /\ display.at <= produced
    /\ conn = "open" => /\ \A i \in 1 .. Len(Route) : Chained(i)
                        /\ sentTo = RouteEnd

\* The frames on their way form a sequence of frames.
LEMMA RouteType == TypeOK => Route \in Seq(Frame)
<1> SUFFICES ASSUME TypeOK PROVE Route \in Seq(Frame)
  OBVIOUS
<1>1. CASE hand = NoFrame
  BY <1>1 DEF TypeOK, Route
<1>2. CASE hand # NoFrame
  BY <1>2 DEF TypeOK, Route
<1> QED BY <1>1, <1>2

-----------------------------------------------------------------------------
(* The ways in which Route changes.                                          *)

\* A step that leaves Route, the display and the send task's view alone.
LEMMA ChainKept ==
    ASSUME TypeOK, TypeOK', ChainInv, produced <= produced', 
           UNCHANGED <<hand, wire, display, sentTo, seq, conn>>
    PROVE  ChainInv'
<1>1. Route' = Route /\ RouteEnd' = RouteEnd
  BY DEF Route, RouteEnd
<1>2. produced \in Nat /\ produced' \in Nat /\ display.at \in Nat
  BY DEF TypeOK
<1>3. ASSUME NEW i \in 1 .. Len(Route), Chained(i) PROVE Chained(i)'
  <2>1. Route[i].to \in Nat
    <3>1. Route \in Seq(Frame)
      BY RouteType
    <3>2. Route[i] \in Frame
      BY <3>1
    <3> QED BY <3>2 DEF Frame
  <2>2. EndBefore(i)' = EndBefore(i)
    BY <1>1 DEF EndBefore
  <2> QED BY <1>1, <1>2, <1>3, <2>1, <2>2 DEF Chained
<1> QED BY <1>1, <1>2, <1>3 DEF ChainInv

\* A frame is made at the end of Route.
LEMMA ChainExtended ==
    ASSUME TypeOK, TypeOK', ChainInv,
           hand = NoFrame, hand' # NoFrame, produced' = produced, seq' = seq + 1,
           UNCHANGED <<wire, display, conn>>,
           hand'.seq = seq + 1, hand'.to = sentTo', sentTo <= sentTo', sentTo' <= produced,
           ~MayPanic /\ hand'.kind = "raw" /\ ~hand'.last => hand'.from = sentTo
    PROVE  ChainInv'
<1>1. /\ Route = wire /\ Route' = Append(wire, hand') /\ wire \in Seq(Frame)
      /\ hand' \in Frame
  BY DEF Route, TypeOK
<1>2. Len(Route') = Len(Route) + 1 /\ Route'[Len(Route')] = hand' /\ Route' # <<>>
  BY <1>1
<1>3. RouteEnd' = sentTo'
  BY <1>2 DEF RouteEnd
<1>t. display.at \in Nat /\ produced \in Nat /\ sentTo \in Nat /\ seq \in Nat /\ sentTo' \in Nat
  BY DEF TypeOK
<1>4. ASSUME conn = "open", NEW i \in 1 .. Len(Route') PROVE Chained(i)'
  <2>1. CASE i \in 1 .. Len(Route)
    <3>1. Route'[i] = Route[i]
      BY <1>1, <2>1
    <3>2. EndBefore(i)' = EndBefore(i)
      <4>1. CASE i = 1
        BY <4>1 DEF EndBefore
      <4>2. CASE i # 1
        <5>1. i - 1 \in 1 .. Len(wire)
          BY <1>1, <2>1, <4>2
        <5>2. Route'[i - 1] = Route[i - 1]
          BY <1>1, <5>1
        <5> QED BY <4>2, <5>2 DEF EndBefore
      <4> QED BY <4>1, <4>2
    <3>3. Chained(i)
      BY <1>4, <2>1 DEF ChainInv
    <3>4. seq' - Len(Route') + i = seq - Len(Route) + i
      BY <1>1, <1>2, <1>t
    <3> QED BY <3>1, <3>2, <3>3, <3>4 DEF Chained
  <2>2. CASE i = Len(Route) + 1
    <3>1. Route'[i] = hand'
      BY <1>2, <2>2
    <3>2. EndBefore(i)' = sentTo
      <4>1. sentTo = RouteEnd
        BY <1>4 DEF ChainInv
      <4>2. CASE Route = <<>>
        BY <1>1, <2>2, <4>1, <4>2 DEF EndBefore, RouteEnd
      <4>3. CASE Route # <<>>
        <5>1. i # 1 /\ i - 1 = Len(wire) /\ Len(wire) \in 1 .. Len(wire)
          BY <1>1, <2>2, <4>3
        <5>2. Route'[i - 1] = Route[i - 1]
          BY <1>1, <5>1
        <5> QED BY <1>1, <4>1, <4>3, <5>1, <5>2 DEF EndBefore, RouteEnd
      <4> QED BY <4>2, <4>3
    <3>3. seq' - Len(Route') + i = seq + 1
      BY <1>1, <1>2, <1>t, <2>2
    <3> QED BY <1>t, <3>1, <3>2, <3>3 DEF Chained
  <2> QED BY <1>1, <1>2, <2>1, <2>2
<1> QED BY <1>3, <1>4 DEF ChainInv

\* The frame in hand goes on the wire.
LEMMA ChainSent ==
    ASSUME TypeOK, TypeOK', ChainInv, conn = "open", 
           hand # NoFrame, hand' = NoFrame, wire' = Append(wire, hand),
           UNCHANGED <<produced, display, sentTo, seq, conn>>
    PROVE  ChainInv'
<1>1. Route' = Route
  BY DEF Route
<1>2. RouteEnd' = RouteEnd /\ \A i \in 1 .. Len(Route) : EndBefore(i)' = EndBefore(i)
  BY <1>1 DEF RouteEnd, EndBefore
<1> QED BY <1>1, <1>2 DEF ChainInv, Chained

\* The client shows the head of Route.
LEMMA ChainShown ==
    ASSUME TypeOK, TypeOK', ChainInv, conn = "open",
           wire # <<>>, wire' = Tail(wire), display'.at = Head(wire).to,
           UNCHANGED <<produced, hand, sentTo, seq, conn>>
    PROVE  ChainInv' /\ display.at <= display'.at
<1>1. Route \in Seq(Frame) /\ wire \in Seq(Frame)
  BY RouteType DEF TypeOK
<1>2. Route # <<>> /\ Route' = Tail(Route) /\ Head(Route) = Head(wire)
  <2>1. CASE hand = NoFrame
    BY <2>1 DEF Route
  <2>2. CASE hand # NoFrame
    <3>1. hand \in Frame
      BY <2>2 DEF TypeOK
    <3> QED BY <1>1, <2>2, <3>1 DEF Route
  <2> QED BY <2>1, <2>2
<1>3. /\ Len(Route) \in Nat \ {0} /\ Len(Route') = Len(Route) - 1
      /\ \A i \in 1 .. Len(Route') : Route'[i] = Route[i + 1]
      /\ Route[1] = Head(wire)
  BY <1>1, <1>2
<1>t. seq \in Nat /\ display.at \in Nat
  BY DEF TypeOK
<1>4. Chained(1)
  BY <1>3 DEF ChainInv
<1>5. display.at <= display'.at /\ display'.at <= produced
  BY <1>3, <1>4 DEF Chained, EndBefore
<1>6. ASSUME NEW i \in 1 .. Len(Route') PROVE Chained(i)'
  <2>1. i + 1 \in 1 .. Len(Route) /\ i + 1 # 1 /\ (i + 1) - 1 = i
    BY <1>3
  <2>2. Chained(i + 1) /\ Route'[i] = Route[i + 1]
    BY <1>3, <2>1 DEF ChainInv
  <2>3. EndBefore(i)' = EndBefore(i + 1)
    <3>1. CASE i = 1
      BY <1>3, <2>1, <3>1 DEF EndBefore
    <3>2. CASE i # 1
      <4>1. i - 1 \in 1 .. Len(Route') /\ (i - 1) + 1 = i
        BY <1>3, <3>2
      <4>2. Route'[i - 1] = Route[i]
        BY <1>3, <4>1
      <4> QED BY <2>1, <3>2, <4>2 DEF EndBefore
    <3> QED BY <3>1, <3>2
  <2>4. seq' - Len(Route') + i = seq - Len(Route) + (i + 1)
    BY <1>3, <1>t, <2>1
  <2> QED BY <2>2, <2>3, <2>4 DEF Chained
<1>7. RouteEnd' = RouteEnd
  <2>1. CASE Len(Route) = 1
    <3>1. Route' = <<>> /\ Route # <<>>
      BY <1>1, <1>2, <2>1
    <3> QED BY <1>3, <2>1, <3>1 DEF RouteEnd
  <2>2. CASE Len(Route) # 1
    <3>1. Len(Route') \in 1 .. Len(Route') /\ Len(Route') + 1 = Len(Route)
      BY <1>3, <2>2
    <3>2. Route'[Len(Route')] = Route[Len(Route)] /\ Route' # <<>>
      BY <1>3, <3>1
    <3> QED BY <1>2, <3>2 DEF RouteEnd
  <2> QED BY <2>1, <2>2
<1> QED BY <1>5, <1>6, <1>7 DEF ChainInv

-----------------------------------------------------------------------------
\* No frame is on its way when handle_client starts.
LEMMA ChainInit == Init => ChainInv
<1> SUFFICES ASSUME Init PROVE ChainInv
  OBVIOUS
<1>1. Route = <<>> /\ Len(Route) = 0 /\ display.at = 0 /\ produced = 0 /\ sentTo = 0
  BY DEF Init, Route
<1> QED BY <1>1 DEF ChainInv, RouteEnd

\* One step of the session, and what it may show.
LEMMA ChainNext ==
    ASSUME TypeOK, TypeOK', SendInv, ChainInv, [Next]_vars
    PROVE  /\ ChainInv'
           /\ display.at <= display'.at /\ display'.at <= produced'
<1>t. /\ produced \in Nat /\ bufLo \in 0 .. produced /\ sentTo \in 0 .. bufLo
      /\ display.at \in Nat /\ display.at <= produced
      /\ hand = NoFrame <=> sendPc \notin {"send", "flush"}
      /\ sentTo' \in Nat /\ produced' \in Nat /\ produced <= produced
  BY DEF TypeOK, ChainInv
<1>k. ASSUME produced <= produced', UNCHANGED <<hand, wire, display, sentTo, seq, conn>>
      PROVE  /\ ChainInv' /\ display.at <= display'.at /\ display'.at <= produced'
  BY <1>k, <1>t, ChainKept
<1>1. ASSUME NEW n \in 1 .. MaxChunk, PtyRead(n) \/ PtyReadPanic(n)
      PROVE  ChainInv' /\ display.at <= display'.at /\ display'.at <= produced'
  <2>1. produced <= produced' /\ UNCHANGED <<hand, wire, display, sentTo, seq, conn>>
    BY <1>1, <1>t DEF PtyRead, PtyReadPanic, sendVars, netVars
  <2> QED BY <1>k, <2>1
<1>2. CASE PtyEof \/ KeepGoing \/ FinalNothing
  <2>1. produced' = produced /\ UNCHANGED <<hand, wire, display, sentTo, seq, conn>>
    BY <1>2 DEF PtyEof, KeepGoing, FinalNothing, ptyVars, sendVars, netVars
  <2> QED BY <1>k, <1>t, <2>1
<1>3. CASE FinalFlush
  <2>1. /\ hand = NoFrame /\ hand' # NoFrame
    BY <1>3, <1>t DEF FinalFlush, TypeOK
  <2>2. PICK n : hand' = RawFrame(bufLo, produced, n, TRUE)
    BY <1>3 DEF FinalFlush
  <2>3. hand'.seq = seq + 1 /\ hand'.to = produced /\ hand'.last
    BY <2>2 DEF RawFrame
  <2>4. /\ produced' = produced /\ seq' = seq + 1 /\ sentTo' = produced
        /\ UNCHANGED <<wire, display, conn>>
    BY <1>3 DEF FinalFlush, netVars
  <2>5. ChainInv'
    BY <1>t, <2>1, <2>3, <2>4, ChainExtended
  <2> QED BY <1>t, <2>4, <2>5
<1>4. ASSUME NEW e \in Elapsed, Tick(e)
      PROVE  ChainInv' /\ display.at <= display'.at /\ display'.at <= produced'
  <2>1. CASE TickExhausted(e) \/ TickRefreshPanic(e) \/ TickIdle(e) \/ TickBlocked(e)
    <3>1. produced' = produced /\ UNCHANGED <<hand, wire, display, sentTo, seq, conn>>
      BY <2>1 DEF TickExhausted, TickRefreshPanic, TickIdle, TickBlocked, ptyVars, netVars
    <3> QED BY <1>k, <1>t, <3>1
  <2>2. CASE TickRefresh(e)
    <3>1. /\ hand = NoFrame /\ hand' # NoFrame
      BY <1>t, <2>2 DEF TickRefresh, AtTick, MakeAtomic, TypeOK
    <3>2. PICK n : hand' = AtomicFrame(produced, vtBase, n)
      BY <2>2 DEF TickRefresh, MakeAtomic
    <3>3. hand'.seq = seq + 1 /\ hand'.to = produced /\ hand'.kind = "atomic"
      BY <3>2 DEF AtomicFrame
    <3>4. /\ produced' = produced /\ seq' = seq + 1 /\ sentTo' = produced
          /\ UNCHANGED <<wire, display, conn>>
      BY <2>2 DEF TickRefresh, MakeAtomic, netVars
    <3>5. ChainInv'
      BY <1>t, <3>1, <3>3, <3>4, ChainExtended
    <3> QED BY <1>t, <3>4, <3>5
  <2>3. CASE TickRaw(e)
    <3>1. PICK k \in SplitPoints(bufLo, WholeTokens(e)) \ {0} : MakeRaw(k, bufLo + k)
      BY <2>3 DEF TickRaw
    <3>2. WholeTokens(e) \in Nat
      BY <2>3, WholeTokensBound DEF TickRaw, TypeOK
    <3>3. k \in 1 .. (produced - bufLo)
      BY <1>t, <3>1, <3>2, SplitBound
    <3>4. PICK n : hand' = RawFrame(bufLo, bufLo + k, n, FALSE)
      BY <3>1 DEF MakeRaw
    <3>5. hand'.seq = seq + 1 /\ hand'.to = bufLo + k /\ hand'.from = bufLo
      BY <3>4 DEF RawFrame
    <3>6. /\ produced' = produced /\ seq' = seq + 1 /\ sentTo' = bufLo + k
          /\ UNCHANGED <<wire, display, conn>>
      BY <3>1 DEF MakeRaw, netVars
    <3>7. ~MayPanic => bufLo = sentTo
      BY <1>t, <2>3 DEF SendInv, DropsAreOwed, TickRaw, AtTick, Refresh
    <3>8. /\ hand = NoFrame /\ hand' # NoFrame
      BY <1>t, <2>3, <3>1 DEF TickRaw, AtTick, MakeRaw, TypeOK
    <3>9. sentTo <= sentTo' /\ sentTo' <= produced
      BY <1>t, <3>3, <3>6
    <3>10. ChainInv'
      BY <3>5, <3>6, <3>7, <3>8, <3>9, ChainExtended
    <3> QED BY <1>t, <3>6, <3>10
  <2> QED BY <1>4, <2>1, <2>2, <2>3 DEF Tick
<1>5. CASE SendOk \/ FlushOk
  <2>1. /\ hand # NoFrame /\ hand' = NoFrame
        /\ UNCHANGED <<produced, display, sentTo, seq, conn>>
    BY <1>5, <1>t DEF SendOk, FlushOk, ptyVars
  <2>2. CASE conn = "open"
    <3>1. wire' = Append(wire, hand)
      BY <1>5, <2>2 DEF SendOk, FlushOk, Transmit
    <3>2. ChainInv'
      BY <2>1, <2>2, <3>1, ChainSent
    <3> QED BY <1>t, <2>1, <3>2
  <2>3. CASE conn # "open"
    BY <1>t, <2>1, <2>3 DEF ChainInv
  <2> QED BY <2>2, <2>3
<1>6. CASE SendErr
  <2>1. conn' = "closed" /\ UNCHANGED <<produced, display>>
    BY <1>6 DEF SendErr, ptyVars, netVars
  <2> QED BY <1>t, <2>1 DEF ChainInv
<1>7. CASE InputLoop \/ SendEnds
  <2>1. produced' = produced /\ UNCHANGED <<hand, wire, display, sentTo, seq, conn>>
    BY <1>7 DEF InputLoop, ResizePty, ResizeVt, InputWrite, PtyTakes, InputEnds,
               SendEnds, ptyVars, sendVars, netVars
  <2> QED BY <1>k, <1>t, <2>1
<1>8. CASE ClientShow
  <2>1. /\ conn = "open" /\ wire # <<>> /\ wire' = Tail(wire)
        /\ display'.at = Head(wire).to
        /\ UNCHANGED <<produced, hand, sentTo, seq, conn>>
    BY <1>8 DEF ClientShow, Painted, ptyVars, sendVars
  <2>2. ChainInv' /\ display.at <= display'.at
    BY <2>1, ChainShown
  <2> QED BY <2>2 DEF ChainInv
<1>9. CASE ClientQuit
  <2>1. conn' = "closed" /\ UNCHANGED <<produced, display>>
    BY <1>9 DEF ClientQuit, ptyVars
  <2> QED BY <1>t, <2>1 DEF ChainInv
<1>10. CASE UNCHANGED vars
  <2>1. produced' = produced /\ UNCHANGED <<hand, wire, display, sentTo, seq, conn>>
    BY <1>10 DEF vars, ptyVars, sendVars, netVars
  <2> QED BY <1>k, <1>t, <2>1
<1> QED
  BY <1>1, <1>2, <1>3, <1>4, <1>5, <1>6, <1>7, <1>8, <1>9, <1>10
  DEF Next, PtyThread, SendTask, InputLoop, Client

\* In every session the frames under way continue each other and the display.
THEOREM ChainInvariant == Spec => []ChainInv
<1>1. TypeOK /\ TypeOK' /\ SendInv /\ ChainInv /\ [Next]_vars => ChainInv'
  BY ChainNext
<1> QED BY ChainInit, TypeCorrect, SendInvariant, <1>1, PTL DEF Spec

\* Frames never carry the terminal back and are numbered without a gap.
THEOREM Advancing == Spec => []FramesAdvance
<1>1. ChainInv => FramesAdvance
  BY DEF ChainInv, Chained, FramesAdvance, RouteEnd
<1> QED BY ChainInvariant, <1>1, PTL

\* Without a panic of the vt100 library, raw frames continue where the terminal
\* is: flood protection never leaves a hole in front of an ordinary frame.
THEOREM Gapless == Spec => []NoHoles
<1>1. ChainInv => NoHoles
  BY DEF ChainInv, Chained, NoHoles
<1> QED BY ChainInvariant, <1>1, PTL

\* The terminal never goes back and never runs ahead of the shell.
THEOREM ShownMonotone == Spec => ShownAdvances
<1>1. TypeOK /\ TypeOK' /\ SendInv /\ ChainInv /\ [Next]_vars
        => [display.at <= display'.at /\ display'.at <= produced']_vars
  BY ChainNext
<1> QED BY TypeCorrect, SendInvariant, ChainInvariant, <1>1, PTL DEF Spec, ShownAdvances

-----------------------------------------------------------------------------
(* The size of raw frames.                                                   *)

Small(f) == f.kind = "raw" /\ ~f.last => f.to - f.from <= Cap

\* RawFramesFit, apart for the frames on the wire and the one in hand.
SmallInv ==
    /\ \A i \in 1 .. Len(wire) : Small(wire[i])
    /\ hand # NoFrame => Small(hand)

\* Every step takes a small frame in hand, lets go of it, or moves it along.
LEMMA SmallNext == TypeOK /\ TypeOK' /\ SmallInv /\ [Next]_vars => SmallInv'
<1> SUFFICES ASSUME TypeOK, TypeOK', SmallInv, [Next]_vars PROVE SmallInv'
  OBVIOUS
<1>t. /\ wire \in Seq(Frame) /\ produced \in Nat /\ bufLo \in 0 .. produced
      /\ tokens \in Int
      /\ hand = NoFrame <=> sendPc \notin {"send", "flush"}
  BY DEF TypeOK
<1>k. ASSUME UNCHANGED <<wire, hand>> PROVE SmallInv'
  BY <1>k DEF SmallInv, Small
<1>m. ASSUME wire' = wire, Small(hand') PROVE SmallInv'
  BY <1>m DEF SmallInv, Small
<1>1. CASE PtyThread \/ KeepGoing \/ FinalNothing \/ InputLoop \/ SendEnds
  BY <1>k, <1>1 DEF PtyThread, PtyRead, PtyReadPanic, PtyEof, KeepGoing, FinalNothing,
     InputLoop, ResizePty, ResizeVt, InputWrite, PtyTakes, InputEnds, SendEnds, sendVars, netVars
<1>2. CASE FinalFlush
  <2>1. PICK n : hand' = RawFrame(bufLo, produced, n, TRUE)
    BY <1>2 DEF FinalFlush
  <2>2. Small(hand') /\ wire' = wire
    BY <1>2, <2>1 DEF FinalFlush, RawFrame, Small, netVars
  <2> QED BY <1>m, <2>2
<1>3. ASSUME NEW e \in Elapsed, Tick(e) PROVE SmallInv'
  <2>1. CASE TickExhausted(e) \/ TickRefreshPanic(e) \/ TickIdle(e) \/ TickBlocked(e)
    BY <1>k, <2>1
    DEF TickExhausted, TickRefreshPanic, TickIdle, TickBlocked, netVars
  <2>2. CASE TickRefresh(e)
    <3>1. PICK n : hand' = AtomicFrame(produced, vtBase, n)
      BY <2>2 DEF TickRefresh, MakeAtomic
    <3>2. Small(hand') /\ wire' = wire
      BY <2>2, <3>1 DEF TickRefresh, MakeAtomic, AtomicFrame, Small, netVars
    <3> QED BY <1>m, <3>2
  <2>3. CASE TickRaw(e)
    <3>1. PICK k \in SplitPoints(bufLo, WholeTokens(e)) \ {0} : MakeRaw(k, bufLo + k)
      BY <2>3 DEF TickRaw
    <3>2. WholeTokens(e) \in Nat
      BY <1>t, <2>3, WholeTokensBound DEF TickRaw
    <3>3. k \in 0 .. (produced - bufLo)
      BY <1>t, <3>1, <3>2, SplitBound
    <3>4. produced - bufLo <= Cap
      BY <1>t, <2>3, StreamAssumption DEF TickRaw, Refresh, Overflow
    <3>5. PICK n : hand' = RawFrame(bufLo, bufLo + k, n, FALSE)
      BY <3>1 DEF MakeRaw
    <3>6. hand'.to - hand'.from = k
      BY <1>t, <3>3, <3>5 DEF RawFrame
    <3>7. Small(hand') /\ wire' = wire
      <4>1. k <= Cap
        BY <1>t, <3>3, <3>4, StreamAssumption
      <4> QED BY <3>1, <3>6, <4>1 DEF MakeRaw, Small, netVars
    <3> QED BY <1>m, <3>7
  <2> QED BY <1>3, <2>1, <2>2, <2>3 DEF Tick
<1>4. CASE SendOk \/ FlushOk
  <2>1. hand # NoFrame /\ hand' = NoFrame /\ hand \in Frame
    BY <1>4, <1>t DEF SendOk, FlushOk, TypeOK
  <2>2. wire' = wire \/ wire' = Append(wire, hand)
    BY <1>4 DEF SendOk, FlushOk, Transmit
  <2>3. \A i \in 1 .. Len(wire') : wire'[i] = hand \/ (i \in 1 .. Len(wire) /\ wire'[i] = wire[i])
    BY <1>t, <2>1, <2>2
  <2> QED BY <2>1, <2>3 DEF SmallInv, Small
<1>5. CASE SendErr
  BY <1>5 DEF SendErr, netVars, SmallInv, Small
<1>6. CASE ClientShow
  <2>1. /\ hand' = hand /\ wire # <<>> /\ wire' = Tail(wire)
    BY <1>6 DEF ClientShow, sendVars
  <2>2. \A i \in 1 .. Len(wire') : i + 1 \in 1 .. Len(wire) /\ wire'[i] = wire[i + 1]
    BY <1>t, <2>1
  <2> QED BY <2>1, <2>2 DEF SmallInv, Small
<1>7. CASE ClientQuit
  BY <1>7 DEF ClientQuit, sendVars, SmallInv, Small
<1>8. CASE UNCHANGED vars
  BY <1>k, <1>8 DEF vars, sendVars, netVars
<1> QED
  BY <1>1, <1>2, <1>3, <1>4, <1>5, <1>6, <1>7, <1>8 DEF Next, SendTask, Client

\* Whatever the bucket holds, and whatever the client reads, an ordinary raw frame
\* carries at most MAX_PTY_BUFFER_CAP bytes of output.
THEOREM RawFramesAreSmall == Spec => []RawFramesFit
<1>1. Init => SmallInv
  BY DEF Init, SmallInv
<1>2. TypeOK /\ TypeOK' /\ SmallInv /\ [Next]_vars => SmallInv'
  BY SmallNext
<1>3. TypeOK /\ SmallInv => RawFramesFit
  <2> SUFFICES ASSUME TypeOK, SmallInv, NEW i \in 1 .. Len(Route) PROVE Small(Route[i])
    BY DEF RawFramesFit, Small
  <2>1. CASE hand = NoFrame
    BY <2>1 DEF Route, SmallInv
  <2>2. CASE hand # NoFrame
    <3>1. Route = Append(wire, hand) /\ wire \in Seq(Frame) /\ hand \in Frame
      BY <2>2 DEF Route, TypeOK
    <3>2. Route[i] = hand \/ (i \in 1 .. Len(wire) /\ Route[i] = wire[i])
      BY <3>1
    <3> QED BY <2>2, <3>2 DEF SmallInv
  <2> QED BY <2>1, <2>2
<1> QED BY TypeCorrect, <1>1, <1>2, <1>3, PTL DEF Spec

-----------------------------------------------------------------------------
(***************************************************************************)
(* A session implements ScreenSync up to the exit of the shell, for output   *)
(* in which every byte stands for itself, a vt100 library that does not      *)
(* panic, and handshakes and resizes that take effect before the first byte  *)
(* of output (EarlySizeSpec).  Each of the three conditions is needed:       *)
(* without it TLC shows a session that breaks the promise.                   *)
(***************************************************************************)

PlainSession == ~MayPanic /\ Nat \subseteq Boundary

\* What a frame on its way is: an atomic frame paints the whole screen, and
\* nothing follows the frame that flushes the buffer.
WholeFrame(f) ==
    /\ f.kind = "atomic" => f.base = 0
    /\ f.last => ptyClosed

\* The inductive invariant, beside ChainInv: the virtual screen holds all the
\* output, and the terminal can be wrong only after the last frame.
SyncInv ==
    /\ vtBase = 0
    /\ hand # NoFrame => WholeFrame(hand) /\ (hand.last <=> sendPc = "flush")
    /\ \A i \in 1 .. Len(wire) :
          /\ WholeFrame(wire[i])
          /\ wire[i].last => sendPc = "done" /\ i = Len(wire)
    /\ ~display.sound => ptyClosed /\ sendPc = "done" /\ wire = <<>>

\* The session starts with nothing in hand and a sound display.
LEMMA SyncInvInit == Init => SyncInv
BY DEF Init, SyncInv, NoFrame

\* Without panics, split characters or late sizes every frame before the last is
\* whole, and the display stays sound until the flush at the end.
LEMMA SyncInvNext ==
    ASSUME PlainSession, TypeOK, TypeOK', SendInv, ChainInv, SyncInv,
           [Next /\ vtBase' = 0]_vars
    PROVE  SyncInv'
<1>t. /\ wire \in Seq(Frame) /\ hand \in Frame \cup {NoFrame}
      /\ hand = NoFrame <=> sendPc \notin {"send", "flush"}
      /\ sendPc \in {"top", "tick", "send", "flush", "done"}
      /\ ptyClosed \in BOOLEAN
  BY DEF TypeOK
<1>p. ~MayPanic /\ Nat \subseteq Boundary
  BY DEF PlainSession
\* A step that makes no frame and moves none.
<1>k. ASSUME UNCHANGED <<vtBase, hand, wire, display>>, ptyClosed => ptyClosed',
             sendPc \in {"flush", "done"} => sendPc' = sendPc,
             sendPc' = "flush" => sendPc = "flush"
      PROVE  SyncInv'
  BY <1>k DEF SyncInv, WholeFrame
\* A step that makes a frame.
<1>m. ASSUME UNCHANGED <<vtBase, wire, display, ptyClosed>>, sendPc \in {"top", "tick"},
             hand' # NoFrame => WholeFrame(hand') /\ (hand'.last <=> sendPc' = "flush")
      PROVE  SyncInv'
  BY <1>m DEF SyncInv, WholeFrame
<1>1. ASSUME NEW n \in 1 .. MaxChunk, PtyRead(n) \/ PtyReadPanic(n) PROVE SyncInv'
  <2>1. PtyRead(n)
    BY <1>1, <1>p DEF PtyReadPanic
  <2>2. UNCHANGED <<vtBase, hand, wire, display, ptyClosed, sendPc>>
    BY <2>1 DEF PtyRead, sendVars, inVars, netVars
  <2> QED BY <1>k, <2>2
<1>2. CASE PtyEof
  <2>1. UNCHANGED <<vtBase, hand, wire, display, sendPc>> /\ ptyClosed'
    BY <1>2 DEF PtyEof, sendVars, inVars, netVars
  <2> QED BY <1>k, <2>1
<1>3. CASE KeepGoing \/ FinalNothing
  <2>1. /\ UNCHANGED <<vtBase, hand, wire, display, ptyClosed>>
        /\ sendPc = "top" /\ sendPc' \in {"tick", "done"}
    BY <1>3 DEF KeepGoing, FinalNothing, ptyVars, inVars, netVars
  <2> QED BY <1>k, <2>1
<1>4. CASE FinalFlush
  <2>1. PICK n : hand' = RawFrame(bufLo, produced, n, TRUE)
    BY <1>4 DEF FinalFlush
  <2>2. hand'.kind = "raw" /\ hand'.last
    BY <2>1 DEF RawFrame
  <2>3. /\ UNCHANGED <<vtBase, wire, display, ptyClosed>> /\ ptyClosed
        /\ sendPc = "top" /\ sendPc' = "flush"
    BY <1>4 DEF FinalFlush, inVars, netVars
  <2>4. WholeFrame(hand')
    BY <2>2, <2>3 DEF WholeFrame
  <2> QED BY <1>m, <2>2, <2>3, <2>4 DEF WholeFrame
<1>5. ASSUME NEW e \in Elapsed, Tick(e) PROVE SyncInv'
  <2>1. CASE TickExhausted(e) \/ TickRefreshPanic(e) \/ TickIdle(e) \/ TickBlocked(e)
    <3>1. /\ UNCHANGED <<vtBase, hand, wire, display, ptyClosed>>
          /\ sendPc = "tick" /\ sendPc' = "top"
      BY <2>1 DEF TickExhausted, TickRefreshPanic, TickIdle, TickBlocked, AtTick,
                  ptyVars, inVars, netVars
    <3> QED BY <1>k, <3>1
  <2>2. CASE TickRefresh(e)
    <3>1. PICK n : hand' = AtomicFrame(produced, vtBase, n)
      BY <2>2 DEF TickRefresh, MakeAtomic
    <3>2. hand'.base = 0 /\ hand'.last = FALSE
      BY <3>1 DEF AtomicFrame, SyncInv
    <3>3. /\ UNCHANGED <<vtBase, wire, display, ptyClosed>>
          /\ sendPc = "tick" /\ sendPc' = "send"
      BY <2>2 DEF TickRefresh, MakeAtomic, AtTick, inVars, netVars
    <3> QED BY <1>m, <3>2, <3>3 DEF WholeFrame
  <2>3. CASE TickRaw(e)
    <3>1. PICK k, n : hand' = RawFrame(bufLo, bufLo + k, n, FALSE)
      BY <2>3 DEF TickRaw, MakeRaw
    <3>2. hand'.kind = "raw" /\ hand'.last = FALSE
      BY <3>1 DEF RawFrame
    <3>3. /\ UNCHANGED <<vtBase, wire, display, ptyClosed>>
          /\ sendPc = "tick" /\ sendPc' = "send"
      BY <2>3 DEF TickRaw, MakeRaw, AtTick, inVars, netVars
    <3> QED BY <1>m, <3>2, <3>3 DEF WholeFrame
  <2> QED BY <1>5, <2>1, <2>2, <2>3 DEF Tick
<1>6. CASE SendOk \/ FlushOk
  <2>1. /\ hand \in Frame /\ hand # NoFrame /\ hand' = NoFrame
        /\ UNCHANGED <<vtBase, display, ptyClosed>>
        /\ \/ sendPc = "send" /\ sendPc' = "top"
           \/ sendPc = "flush" /\ sendPc' = "done"
        /\ wire' = wire \/ wire' = Append(wire, hand)
    <3>1. CASE SendOk
      BY <1>t, <3>1 DEF SendOk, Transmit, ptyVars, inVars
    <3>2. CASE FlushOk
      BY <1>t, <3>2 DEF FlushOk, Transmit, ptyVars, inVars
    <3> QED BY <1>6, <3>1, <3>2
  <2>2. \A i \in 1 .. Len(wire) : WholeFrame(wire[i]) /\ ~wire[i].last
    BY <2>1 DEF SyncInv
  <2>3. WholeFrame(hand) /\ (hand.last <=> sendPc' = "done")
    BY <2>1 DEF SyncInv
  <2>4. \A i \in 1 .. Len(wire') :
            /\ WholeFrame(wire'[i])
            /\ wire'[i].last => sendPc' = "done" /\ i = Len(wire')
    <3>1. CASE wire' = wire
      BY <2>2, <3>1
    <3>2. CASE wire' = Append(wire, hand)
      <4>1. Len(wire') = Len(wire) + 1 /\ wire'[Len(wire) + 1] = hand /\ Len(wire) \in Nat
        BY <1>t, <2>1, <3>2
      <4>2. \A i \in 1 .. Len(wire) : wire'[i] = wire[i]
        BY <1>t, <2>1, <3>2
      <4>3. ASSUME NEW i \in 1 .. Len(wire')
            PROVE  /\ WholeFrame(wire'[i])
                   /\ wire'[i].last => sendPc' = "done" /\ i = Len(wire')
        <5>1. i \in 1 .. Len(wire) \/ i = Len(wire) + 1
          BY <4>1
        <5>2. CASE i \in 1 .. Len(wire)
          BY <2>2, <4>2, <5>2
        <5>3. CASE i = Len(wire) + 1
          BY <2>3, <4>1, <5>3
        <5> QED BY <5>1, <5>2, <5>3
      <4> QED BY <4>3
    <3> QED BY <2>1, <3>1, <3>2
  <2>5. display.sound
    BY <2>1 DEF SyncInv
  <2> QED BY <2>1, <2>4, <2>5 DEF SyncInv, WholeFrame
<1>7. CASE SendErr
  <2>1. /\ UNCHANGED <<vtBase, display, ptyClosed, wire>> /\ hand' = NoFrame
        /\ sendPc \in {"send", "flush"} /\ sendPc' = "done"
    BY <1>7 DEF SendErr, ptyVars, inVars, netVars
  <2> QED BY <2>1 DEF SyncInv, WholeFrame
<1>8. CASE (ResizePty \/ ResizeVt \/ InputWrite \/ PtyTakes) /\ vtBase' = 0
  <2>1. UNCHANGED <<vtBase, hand, wire, display, ptyClosed, sendPc>>
    BY <1>8 DEF ResizePty, ResizeVt, InputWrite, PtyTakes, SyncInv, ptyVars, sendVars, netVars
  <2> QED BY <1>k, <2>1
<1>9. CASE InputEnds \/ SendEnds
  <2>1. UNCHANGED <<vtBase, hand, wire, display, ptyClosed, sendPc>>
    BY <1>9 DEF InputEnds, SendEnds, ptyVars, sendVars, inVars, netVars
  <2> QED BY <1>k, <2>1
<1>10. CASE ClientShow
  <2>1. /\ UNCHANGED <<vtBase, hand, ptyClosed, sendPc>>
        /\ wire # <<>> /\ wire' = Tail(wire) /\ conn = "open"
        /\ display' = Painted(display, Head(wire))
    BY <1>10 DEF ClientShow, ptyVars, sendVars, inVars
  <2>2. /\ Len(wire) \in Nat \ {0} /\ Len(wire') = Len(wire) - 1 /\ Head(wire) = wire[1]
        /\ \A i \in 1 .. Len(wire') : wire'[i] = wire[i + 1] /\ i + 1 \in 1 .. Len(wire)
    BY <1>t, <2>1
  <2>3. \A i \in 1 .. Len(wire') :
            /\ WholeFrame(wire'[i])
            /\ wire'[i].last => sendPc' = "done" /\ i = Len(wire')
    <3> SUFFICES ASSUME NEW i \in 1 .. Len(wire')
                 PROVE  /\ WholeFrame(wire'[i])
                        /\ wire'[i].last => sendPc' = "done" /\ i = Len(wire')
      OBVIOUS
    <3>1. wire'[i] = wire[i + 1] /\ i + 1 \in 1 .. Len(wire)
      BY <2>2
    <3>2. WholeFrame(wire[i + 1]) /\ (wire[i + 1].last => sendPc = "done" /\ i + 1 = Len(wire))
      BY <3>1 DEF SyncInv
    <3>3. i + 1 = Len(wire) => i = Len(wire')
      BY <2>2
    <3>4. sendPc' = sendPc
      BY <2>1
    <3> QED BY <3>1, <3>2, <3>3, <3>4, Zenon
  <2>4. wire[1] \in Frame /\ WholeFrame(wire[1])
    BY <1>t, <2>2 DEF SyncInv
  <2>5. CASE wire[1].last
    <3>1. sendPc = "done" /\ Len(wire) = 1 /\ ptyClosed
      BY <2>2, <2>4, <2>5 DEF SyncInv, WholeFrame
    <3>2. wire' = <<>>
      BY <1>t, <2>1, <3>1
    <3> QED BY <2>1, <2>3, <3>1, <3>2 DEF SyncInv, WholeFrame
  <2>6. CASE ~wire[1].last
    <3>1. display.sound /\ display.at \in Nat
      BY <2>1 DEF SyncInv, TypeOK
    <3>2. wire[1].kind = "raw" => wire[1].from = display.at
      <4>1. Route[1] = wire[1] /\ 1 \in 1 .. Len(Route)
        <5>1. CASE hand = NoFrame
          BY <2>2, <5>1 DEF Route
        <5>2. CASE hand # NoFrame
          BY <1>t, <2>2, <5>2 DEF Route
        <5> QED BY <5>1, <5>2
      <4>2. Chained(1)
        BY <2>1, <4>1 DEF ChainInv
      <4> QED BY <1>p, <2>6, <4>1, <4>2 DEF Chained, EndBefore
    <3>3. wire[1].kind \in {"raw", "atomic"} /\ (wire[1].kind = "atomic" => wire[1].base = 0)
      BY <2>4 DEF Frame, WholeFrame
    <3>4. display'.sound
      BY <1>p, <2>1, <2>2, <3>1, <3>2, <3>3 DEF Painted
    <3> QED BY <2>1, <2>3, <3>4 DEF SyncInv, WholeFrame
  <2> QED BY <2>5, <2>6
<1>11. CASE ClientQuit
  <2>1. UNCHANGED <<vtBase, hand, display, ptyClosed, sendPc>> /\ wire' = <<>>
    BY <1>11 DEF ClientQuit, ptyVars, sendVars, inVars
  <2> QED BY <2>1 DEF SyncInv, WholeFrame
<1>12. CASE UNCHANGED vars
  BY <1>k, <1>12 DEF vars, ptyVars, sendVars, inVars, netVars
<1> QED
  BY <1>1, <1>2, <1>3, <1>4, <1>5, <1>6, <1>7, <1>8, <1>9, <1>10, <1>11, <1>12
  DEF Next, PtyThread, SendTask, InputLoop, Client

\* Restricting when sizes take effect restricts the sessions.
LEMMA EarlySizeIsSession == EarlySizeSpec => Spec
<1>1. [Next /\ vtBase' = 0]_vars => [Next]_vars
  OBVIOUS
<1> QED BY <1>1, PTL DEF EarlySizeSpec, Spec

\* The invariant that makes the refinement an invariant proof.
THEOREM SyncInvariant == ASSUME PlainSession PROVE EarlySizeSpec => []SyncInv
<1>1. /\ TypeOK /\ TypeOK' /\ SendInv /\ ChainInv /\ SyncInv
      /\ [Next /\ vtBase' = 0]_vars
      => SyncInv'
  BY SyncInvNext
<1> QED BY SyncInvInit, EarlySizeIsSession, TypeCorrect, SendInvariant, ChainInvariant,
           <1>1, PTL DEF EarlySizeSpec

-----------------------------------------------------------------------------
(* The refinement: the shell's bytes are printed, a frame shown is a Show     *)
(* step, and everything else stutters.                                        *)

\* Every step of a session is a step of ScreenSync or leaves its variables alone.
LEMMA SyncStep ==
    ASSUME PlainSession, TypeOK, TypeOK', SendInv, ChainInv, SyncInv, SyncInv', [Next]_vars
    PROVE  [Sync!Next \/ Sync!SpoilAtExit]_<<produced, ptyClosed, Shown>>
<1>t. /\ produced \in Nat /\ display.at \in Nat /\ display'.at \in Nat
      /\ ptyClosed \in BOOLEAN
  BY DEF TypeOK
<1>k. ASSUME UNCHANGED <<produced, ptyClosed, display>>
      PROVE  UNCHANGED <<produced, ptyClosed, Shown>>
  BY <1>k DEF Shown
<1>1. ASSUME NEW n \in 1 .. MaxChunk, PtyRead(n) \/ PtyReadPanic(n) PROVE Sync!Next
  <2>1. ~ptyClosed /\ produced' = produced + n /\ UNCHANGED <<ptyClosed, display>>
    BY <1>1 DEF PtyRead, PtyReadPanic, netVars
  <2>2. produced' \in Nat /\ produced' > produced /\ Shown' = Shown
    BY <1>t, <2>1 DEF Shown
  <2> QED BY <2>1, <2>2 DEF Sync!Next, Sync!Output
<1>2. CASE PtyEof
  <2>1. ~ptyClosed /\ ptyClosed' = TRUE /\ UNCHANGED <<produced, display>>
    BY <1>2 DEF PtyEof, netVars
  <2>2. Shown' = Shown
    BY <2>1 DEF Shown
  <2> QED BY <2>1, <2>2 DEF Sync!Next, Sync!Exit
<1>3. CASE ClientShow
  <2>1. display.at <= display'.at /\ display'.at <= produced'
    BY ChainNext
  <2>2. UNCHANGED <<produced, ptyClosed>> /\ wire # <<>>
    BY <1>3 DEF ClientShow, ptyVars
  <2>3. display.sound
    BY <2>2 DEF SyncInv
  <2>4. CASE display'.sound
    <3>1. Shown = display.at /\ Shown' = display'.at
      BY <2>3, <2>4 DEF Shown
    <3> QED BY <1>t, <2>1, <2>2, <3>1 DEF Sync!Next, Sync!Show, Sync!Garbled
  <2>5. CASE ~display'.sound
    <3>1. Shown' = Sync!Garbled /\ ptyClosed
      BY <2>2, <2>5 DEF Shown, Sync!Garbled, SyncInv
    <3> QED BY <2>2, <3>1 DEF Sync!SpoilAtExit
  <2> QED BY <2>4, <2>5
<1>4. CASE KeepGoing \/ FinalFlush \/ FinalNothing \/ SendOk \/ FlushOk \/ SendErr
  BY <1>k, <1>4 DEF KeepGoing, FinalFlush, FinalNothing, SendOk, FlushOk, SendErr,
                    ptyVars, netVars
<1>5. ASSUME NEW e \in Elapsed, Tick(e) PROVE UNCHANGED <<produced, ptyClosed, Shown>>
  BY <1>k, <1>5 DEF Tick, TickExhausted, TickRefresh, TickRefreshPanic, TickIdle, TickRaw,
                    TickBlocked, MakeAtomic, MakeRaw, ptyVars, netVars
<1>6. CASE InputLoop \/ SendEnds \/ ClientQuit \/ UNCHANGED vars
  BY <1>k, <1>6 DEF InputLoop, ResizePty, ResizeVt, InputWrite, PtyTakes, InputEnds,
                    SendEnds, ClientQuit,
                    vars, ptyVars, netVars
<1> QED BY <1>1, <1>2, <1>3, <1>4, <1>5, <1>6 DEF Next, PtyThread, SendTask, Client

\* Until the shell exits, the client's terminal shows a screen the application
\* really had, and never an earlier one than before: the session implements
\* ScreenSync, for every buffer capacity, rate, burst and interleaving.
THEOREM SyncRefinement == ASSUME PlainSession PROVE EarlySizeSpec => SyncUntilExit
<1>1. Init => Sync!Init
  BY DEF Init, Sync!Init, Shown
<1>2. TypeOK /\ TypeOK' /\ SendInv /\ ChainInv /\ SyncInv /\ SyncInv' /\ [Next]_vars
        => [Sync!Next \/ Sync!SpoilAtExit]_<<produced, ptyClosed, Shown>>
  BY SyncStep
<1> QED BY <1>1, <1>2, EarlySizeIsSession, TypeCorrect, SendInvariant, ChainInvariant,
           SyncInvariant, PTL
        DEF Spec, SyncUntilExit, Sync!UntilExitSpec
=============================================================================
