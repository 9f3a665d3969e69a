--------------------------- MODULE ServerRateProofs ---------------------------
(***************************************************************************)
(* The bandwidth limit, for every rate, burst, frame size and window.       *)
(***************************************************************************)
EXTENDS ServerRate, ServerSessionProofs

\* The observer's variables only watch: a behaviour of RateSpec is one of Spec.
LEMMA RateStep == [RateNext]_rateVars => [Next]_vars
<1> SUFFICES ASSUME [RateNext]_rateVars PROVE [Next]_vars
  OBVIOUS
<1>1. CASE Timed
  <2>1. PICK e \in Elapsed : Tick(e)
    BY <1>1 DEF Timed
  <2> QED BY <2>1 DEF Next, SendTask
<1>2. CASE Sent
  BY <1>2 DEF Sent, Next, SendTask
<1>3. CASE Other
  BY <1>3 DEF Other, Next, SendTask
<1>4. CASE OpenWindow \/ Pass
  BY <1>4 DEF OpenWindow, Pass
<1>5. CASE UNCHANGED rateVars
  BY <1>5 DEF rateVars
<1> QED BY <1>1, <1>2, <1>3, <1>4, <1>5 DEF RateNext

\* A session with clock and observer is a session of handle_client.
THEOREM RateRefines == RateSpec => Spec
<1>1. RateInit => Init
  BY DEF RateInit
<1> QED BY <1>1, RateStep, PTL DEF RateSpec, Spec

-----------------------------------------------------------------------------
(***************************************************************************)
(* The invariant.  The bucket is credited at ticks only, so what the window *)
(* has added to it so far is counted up to the last tick (Credited).  Before *)
(* the first tick after the window opens the bucket may still be credited    *)
(* with time that passed earlier, and the full bucket bounds it; that is     *)
(* enough because until then nothing but the frame held at the opening can   *)
(* have left (HeldFirst).                                                    *)
(***************************************************************************)

RateType ==
    /\ now \in Nat /\ last \in 0 .. now /\ onWire \in Nat
    /\ mark \in [at : 0 .. now, sent : Nat, held : Nat]

Credited == IF last < mark.at THEN 0 ELSE last - mark.at

HeldFirst == last < mark.at => netOut + InSend <= mark.sent + mark.held

CreditBound ==
    tokens + TokenUnit * (netOut - mark.sent)
        <= Allowance(Credited) + TokenUnit * mark.held

RateInv ==
    /\ RateType
    /\ sendPc # "done" => onWire = netOut
    /\ HeldFirst
    /\ CreditBound

\* A tick of length e adds at most r * e to both sides.
LEMMA TickArithmetic ==
    ASSUME NEW t \in Int, NEW t2 \in Int, NEW s \in Int, NEW f \in Int, NEW h \in Int,
           NEW r \in Nat, NEW c \in Nat, NEW e \in Nat,
           t + s <= f + r * c + h, t2 <= t + r * e
    PROVE  t2 + s <= f + r * (c + e) + h
<1>1. r * (c + e) = r * c + r * e
  OBVIOUS
<1>2. r * c \in Int /\ r * e \in Int
  OBVIOUS
<1> QED BY <1>1, <1>2

\* What the constants and the observer's variables are.
LEMMA RateFacts ==
    ASSUME TypeOK, RateType
    PROVE  /\ TokenUnit \in Nat \ {0} /\ Burst \in Nat /\ Rate \in Nat
           /\ MaxAtomic \in Nat
           /\ now \in Nat /\ last \in Nat /\ last <= now /\ onWire \in Nat
           /\ mark.at \in Nat /\ mark.at <= now /\ mark.sent \in Nat /\ mark.held \in Nat
           /\ netOut \in Nat /\ tokens \in Int /\ tokens <= TokenUnit * Burst
           /\ Credited \in Nat /\ Credited <= now - mark.at
           /\ InSend \in Nat
           /\ TokenUnit * Burst \in Int
<1>1. /\ TokenUnit \in Nat \ {0} /\ Burst \in Nat /\ Rate \in Nat /\ MaxAtomic \in Nat
  BY BucketAssumption, AtomicAssumption
<1>2. /\ now \in Nat /\ last \in Nat /\ last <= now /\ onWire \in Nat
      /\ mark.at \in Nat /\ mark.at <= now /\ mark.sent \in Nat /\ mark.held \in Nat
  BY DEF RateType
<1>3. netOut \in Nat /\ tokens \in Int /\ tokens <= TokenUnit * Burst
  BY <1>1 DEF TypeOK
<1>4. Credited \in Nat /\ Credited <= now - mark.at
  BY <1>2 DEF Credited
<1>5. InSend \in Nat
  <2>1. CASE sendPc = "send"
    <3>1. hand \in Frame
      BY <2>1 DEF TypeOK
    <3> QED BY <2>1, <3>1 DEF InSend, Frame
  <2>2. CASE sendPc # "send"
    BY <2>2 DEF InSend
  <2> QED BY <2>1, <2>2
<1>6. TokenUnit * Burst \in Int
  BY <1>1
<1> QED BY <1>1, <1>2, <1>3, <1>4, <1>5, <1>6

\* The bucket starts full and nothing has been sent.
LEMMA RateInvInit == RateInit => RateInv
<1> SUFFICES ASSUME RateInit PROVE RateInv
  OBVIOUS
<1>1. TokenUnit \in Nat /\ Burst \in Nat /\ Rate \in Nat
  BY BucketAssumption
<1>2. RateType
  BY DEF RateInit, RateType
<1>3. /\ tokens = Burst * TokenUnit /\ netOut = 0 /\ onWire = 0 /\ last = 0
      /\ mark.at = 0 /\ mark.sent = 0 /\ mark.held = 0
  BY DEF RateInit, Init
<1>4. Credited = 0 /\ HeldFirst
  BY <1>3 DEF Credited, HeldFirst
<1>5. CreditBound
  BY <1>1, <1>3, <1>4 DEF CreditBound, Allowance
<1> QED BY <1>2, <1>3, <1>4, <1>5 DEF RateInv

\* One step: only a tick adds tokens, and no more than its time allows; only a
\* frame that is charged adds to what is metered.
LEMMA RateInvNext == TypeOK /\ TypeOK' /\ RateInv /\ [RateNext]_rateVars => RateInv'
<1> SUFFICES ASSUME TypeOK, TypeOK', RateInv, [RateNext]_rateVars PROVE RateInv'
  OBVIOUS
<1>0. /\ TokenUnit \in Nat \ {0} /\ Burst \in Nat /\ Rate \in Nat
      /\ now \in Nat /\ last \in Nat /\ last <= now /\ onWire \in Nat
      /\ mark.at \in Nat /\ mark.at <= now /\ mark.sent \in Nat /\ mark.held \in Nat
      /\ netOut \in Nat /\ tokens \in Int /\ tokens <= TokenUnit * Burst
      /\ Credited \in Nat /\ Credited <= now - mark.at
      /\ InSend \in Nat /\ TokenUnit * Burst \in Int
      /\ mark \in [at : 0 .. now, sent : Nat, held : Nat]
  BY RateFacts DEF RateInv, RateType
<1>1. CASE Timed
  <2> DEFINE e == now - last
  <2>1. e \in Nat /\ e \in Elapsed /\ Tick(e) /\ last' = now
        /\ UNCHANGED <<now, onWire, mark>>
    BY <1>0, <1>1 DEF Timed
  <2> HIDE DEF e
  <2>2. /\ tokens' = Refilled(e) /\ netOut' = netOut /\ sendPc = "tick"
    BY <2>1 DEF Tick, TickExhausted, TickRefresh, TickRefreshPanic, TickIdle,
                TickRaw, TickBlocked, MakeAtomic, MakeRaw, AtTick
  <2>3. /\ tokens' \in Int /\ tokens' <= tokens + Rate * e
        /\ tokens' <= TokenUnit * Burst
    BY <1>0, <2>1, <2>2, RefillBound
  <2>4. RateType'
    BY <1>0, <2>1 DEF RateType
  <2>5. HeldFirst' /\ Credited' = now - mark.at
    BY <1>0, <2>1 DEF HeldFirst, Credited
  <2>6. tokens' + TokenUnit * (netOut - mark.sent)
          <= TokenUnit * Burst + Rate * (now - mark.at) + TokenUnit * mark.held
    <3>1. CASE last < mark.at
      <4>1. netOut - mark.sent <= mark.held
        BY <1>0, <3>1 DEF RateInv, HeldFirst
      <4>2. TokenUnit * (netOut - mark.sent) <= TokenUnit * mark.held
        BY <1>0, <4>1
      <4>3. Rate * (now - mark.at) \in Nat
        BY <1>0
      <4>4. TokenUnit * (netOut - mark.sent) \in Int /\ TokenUnit * mark.held \in Int
        BY <1>0
      <4> QED BY <1>0, <2>3, <4>2, <4>3, <4>4
    <3>2. CASE ~(last < mark.at)
      <4>1. Credited = last - mark.at /\ Credited + e = now - mark.at
        BY <1>0, <3>2 DEF Credited, e
      <4>2. tokens + TokenUnit * (netOut - mark.sent)
              <= TokenUnit * Burst + Rate * Credited + TokenUnit * mark.held
        BY DEF RateInv, CreditBound, Allowance
      <4>3. TokenUnit * (netOut - mark.sent) \in Int /\ TokenUnit * mark.held \in Int
        BY <1>0
      <4>4. tokens' + TokenUnit * (netOut - mark.sent)
              <= TokenUnit * Burst + Rate * (Credited + e) + TokenUnit * mark.held
        BY <1>0, <2>1, <2>3, <4>2, <4>3, TickArithmetic
      <4> QED BY <4>1, <4>4
    <3> QED BY <3>1, <3>2
  <2>7. CreditBound'
    <3>1. tokens' + TokenUnit * (netOut' - mark'.sent)
            <= TokenUnit * Burst + Rate * Credited' + TokenUnit * mark'.held
      BY <2>1, <2>2, <2>5, <2>6
    <3> QED BY <3>1, Zenon DEF CreditBound, Allowance
  <2> QED BY <2>1, <2>2, <2>4, <2>5, <2>7 DEF RateInv
<1>2. CASE Sent /\ SendOk
  <2>1. hand.len \in Nat /\ InSend = hand.len
    BY <1>2 DEF SendOk, TypeOK, Frame, NoFrame, InSend
  <2>2. /\ tokens' = tokens - TokenUnit * hand.len /\ netOut' = netOut + hand.len
        /\ onWire' = onWire + hand.len /\ UNCHANGED <<now, last, mark>>
        /\ sendPc = "send" /\ sendPc' = "top"
    BY <1>2 DEF SendOk, Sent
  <2>3. InSend' = 0 /\ Credited' = Credited
    BY <2>2 DEF InSend, Credited
  <2>4. HeldFirst'
    BY <1>0, <2>1, <2>2, <2>3 DEF RateInv, HeldFirst
  <2>5. TokenUnit * (netOut + hand.len - mark.sent)
          = TokenUnit * (netOut - mark.sent) + TokenUnit * hand.len
    BY <1>0, <2>1
  <2>6. CreditBound'
    <3>1. tokens + TokenUnit * (netOut - mark.sent)
            <= Allowance(Credited) + TokenUnit * mark.held
      BY DEF RateInv, CreditBound
    <3>2. /\ TokenUnit * hand.len \in Int /\ TokenUnit * (netOut - mark.sent) \in Int
          /\ Allowance(Credited) \in Int /\ TokenUnit * mark.held \in Int
      BY <1>0, <2>1 DEF Allowance
    <3>3. (tokens - TokenUnit * hand.len) + TokenUnit * (netOut + hand.len - mark.sent)
            <= Allowance(Credited) + TokenUnit * mark.held
      BY <1>0, <2>5, <3>1, <3>2
    <3>4. tokens' + TokenUnit * (netOut' - mark'.sent)
            <= Allowance(Credited') + TokenUnit * mark'.held
      <4>0. mark' = mark
        BY <2>2
      <4>1. netOut' - mark'.sent = netOut + hand.len - mark.sent
        BY <1>0, <2>1, <2>2, <4>0
      <4>2. TokenUnit * (netOut' - mark'.sent) = TokenUnit * (netOut + hand.len - mark.sent)
        BY <4>1
      <4>3. Allowance(Credited') = Allowance(Credited) /\ mark'.held = mark.held
        BY <2>3, <4>0
      <4> QED BY <2>2, <3>3, <4>2, <4>3
    <3> QED BY <3>4, Zenon DEF CreditBound, Allowance
  <2>7. RateType'
    BY <1>0, <2>1, <2>2 DEF RateInv, RateType
  <2> QED BY <2>2, <2>4, <2>6, <2>7 DEF RateInv
<1>3. ASSUME UNCHANGED <<tokens, netOut, last, mark>>, InSend' = 0 \/ InSend' = InSend,
             now' \in Nat, now <= now', onWire' \in Nat,
             sendPc' # "done" => onWire' = netOut'
      PROVE  RateInv'
  <2>1. Credited' = Credited
    BY <1>3 DEF Credited
  <2>2. HeldFirst'
    BY <1>0, <1>3 DEF RateInv, HeldFirst
  <2>3. CreditBound'
    BY <1>3, <2>1 DEF RateInv, CreditBound, Allowance
  <2>4. RateType'
    BY <1>0, <1>3 DEF RateType
  <2> QED BY <1>3, <2>2, <2>3, <2>4 DEF RateInv
<1>4. CASE Sent /\ FlushOk
  <2>1. hand.len \in Nat
    BY <1>4 DEF FlushOk, TypeOK, Frame, NoFrame
  <2>2. /\ UNCHANGED <<tokens, netOut, last, mark, now>> /\ sendPc' = "done"
        /\ onWire' = onWire + hand.len
    BY <1>4 DEF FlushOk, Sent
  <2>3. InSend' = 0
    BY <2>2 DEF InSend
  <2> QED BY <1>0, <1>3, <2>1, <2>2, <2>3
<1>5. CASE Other
  <2>1. UNCHANGED <<tokens, netOut, now, last, onWire, mark>>
    BY <1>5 DEF Other, PtyThread, PtyRead, PtyReadPanic, PtyEof, KeepGoing, FinalFlush,
         FinalNothing, SendErr, InputLoop, ResizePty, ResizeVt, InputWrite, PtyTakes,
         InputEnds, SendEnds, Client, ClientShow, ClientQuit, sendVars
  <2>2. \/ UNCHANGED <<sendPc, hand>>
        \/ sendPc # "done" /\ sendPc' \in {"tick", "flush", "done"}
    BY <1>5 DEF Other, PtyThread, PtyRead, PtyReadPanic, PtyEof, KeepGoing, FinalFlush,
         FinalNothing, SendErr, InputLoop, ResizePty, ResizeVt, InputWrite, PtyTakes,
         InputEnds, SendEnds, Client, ClientShow, ClientQuit, sendVars
  <2>3. InSend' = 0 \/ InSend' = InSend
    BY <2>2 DEF InSend
  <2>4. sendPc' # "done" => onWire' = netOut'
    BY <2>1, <2>2 DEF RateInv
  <2> QED BY <1>0, <1>3, <2>1, <2>3, <2>4
<1>6. CASE OpenWindow
  <2>1. /\ UNCHANGED <<tokens, netOut, now, last, onWire, sendPc, hand>>
        /\ mark' = [at |-> now, sent |-> netOut, held |-> InSend] /\ onWire = netOut
    BY <1>6 DEF OpenWindow, RateInv, vars, sendVars
  <2>2. /\ mark'.at = now /\ mark'.sent = netOut /\ mark'.held = InSend
        /\ InSend' = InSend
    BY <2>1 DEF InSend
  <2>3. RateType'
    BY <1>0, <2>1 DEF RateType
  <2>4. HeldFirst'
    BY <1>0, <2>1, <2>2 DEF HeldFirst
  <2>5. Credited' = 0
    BY <1>0, <2>1, <2>2 DEF Credited
  <2>6. CreditBound'
    <3>1. tokens + TokenUnit * (netOut - netOut)
            <= TokenUnit * Burst + Rate * 0 + TokenUnit * InSend
      <4>1. TokenUnit * InSend \in Nat
        BY <1>0
      <4>2. TokenUnit * (netOut - netOut) = 0 /\ Rate * 0 = 0
        BY <1>0
      <4> QED BY <1>0, <4>1, <4>2
    <3> QED BY <2>1, <2>2, <2>5, <3>1 DEF CreditBound, Allowance
  <2> QED BY <2>1, <2>3, <2>4, <2>6 DEF RateInv
<1>7. CASE Pass \/ UNCHANGED rateVars
  <2>1. /\ UNCHANGED <<tokens, netOut, last, mark, onWire, sendPc, hand>>
        /\ now' = now + 1 \/ now' = now
    BY <1>7 DEF Pass, rateVars, vars, sendVars
  <2>2. InSend' = InSend
    BY <2>1 DEF InSend
  <2>3. sendPc' # "done" => onWire' = netOut'
    BY <2>1 DEF RateInv
  <2> QED BY <1>0, <1>3, <2>1, <2>2, <2>3
<1> QED BY <1>1, <1>2, <1>4, <1>5, <1>6, <1>7 DEF RateNext, Sent

\* The bucket and the observer agree in every reachable state.
THEOREM RateInvariant == RateSpec => []RateInv
<1>1. TypeOK /\ TypeOK' /\ RateInv /\ [RateNext]_rateVars => RateInv'
  BY RateInvNext
<1> QED BY RateInvInit, RateRefines, TypeCorrect, <1>1, PTL DEF RateSpec

\* The time credited so far is no longer than the window.
LEMMA CreditWithinWindow ==
    ASSUME TypeOK, RateType
    PROVE  /\ Allowance(Credited) \in Int /\ Allowance(now - mark.at) \in Int
           /\ Allowance(Credited) <= Allowance(now - mark.at)
<1>1. /\ TokenUnit * Burst \in Int /\ Rate \in Nat /\ Credited \in Nat
      /\ now - mark.at \in Nat /\ Credited <= now - mark.at
  BY RateFacts
<1>2. Rate * Credited <= Rate * (now - mark.at)
  BY <1>1
<1>3. Rate * Credited \in Int /\ Rate * (now - mark.at) \in Int
  BY <1>1
<1> QED BY <1>1, <1>2, <1>3 DEF Allowance

\* Tokens are conserved in every window of real time of every session, however
\* long a frame waits in send().
THEOREM Conservation == RateSpec => []TokensConserved
<1>1. TypeOK /\ RateInv => TokensConserved
  <2> SUFFICES ASSUME TypeOK, RateInv PROVE TokensConserved
    OBVIOUS
  <2>0. RateType
    BY DEF RateInv
  <2>1. /\ TokenUnit * (netOut - mark.sent) \in Int /\ TokenUnit * mark.held \in Int
        /\ tokens \in Int
    BY <2>0, RateFacts
  <2>2. tokens + TokenUnit * (netOut - mark.sent)
          <= Allowance(Credited) + TokenUnit * mark.held
    BY DEF RateInv, CreditBound
  <2> QED BY <2>0, <2>1, <2>2, CreditWithinWindow DEF TokensConserved
<1> QED BY RateInvariant, RateRefines, TypeCorrect, <1>1, PTL

\* In every window of real time the server sends less than the rate times the
\* window, plus one burst, one atomic frame and the frame that was waiting in
\* send() when the window opened, up to the flush at the end of the session.
THEOREM Throughput == RateSpec => []WindowBound
<1>1. TypeOK /\ SendInv /\ RateInv => WindowBound
  <2> SUFFICES ASSUME TypeOK, SendInv, RateInv, sendPc # "done" PROVE WindowBound
    BY DEF WindowBound
  <2>0. RateType /\ onWire = netOut
    BY DEF RateInv
  <2>1. /\ TokenUnit \in Nat \ {0} /\ MaxAtomic \in Nat /\ InSend \in Nat
        /\ mark.sent \in Nat /\ mark.held \in Nat /\ netOut \in Nat /\ tokens \in Int
    BY <2>0, RateFacts
  <2>2. TokenUnit * InSend < tokens + TokenUnit * MaxAtomic
    <3>0. TokenUnit * MaxAtomic \in Nat /\ TokenUnit * InSend \in Nat
      BY <2>1
    <3>1. CASE sendPc = "send" /\ hand.kind = "raw"
      <4>1. TokenUnit * InSend <= tokens
        BY <3>1 DEF SendInv, HandIsPaid, InSend
      <4>2. TokenUnit * MaxAtomic > 0
        BY BucketAssumption, AtomicAssumption
      <4> QED BY <2>1, <3>0, <4>1, <4>2
    <3>2. CASE sendPc = "send" /\ hand.kind # "raw"
      <4>1. InSend <= MaxAtomic /\ tokens > 0
        BY <3>2 DEF SendInv, HandIsPaid, InSend
      <4>2. TokenUnit * InSend <= TokenUnit * MaxAtomic
        BY <2>1, <4>1
      <4> QED BY <2>1, <3>0, <4>1, <4>2
    <3>3. CASE sendPc # "send"
      <4>1. InSend = 0 /\ tokens > -(TokenUnit * MaxAtomic)
        BY <3>3 DEF SendInv, InSend
      <4>2. TokenUnit * InSend = 0
        BY <2>1, <4>1
      <4> QED BY <2>1, <3>0, <4>1, <4>2
    <3> QED BY <3>1, <3>2, <3>3
  <2>3. tokens + TokenUnit * (netOut - mark.sent)
          <= Allowance(now - mark.at) + TokenUnit * mark.held
    <3>1. TokenUnit * (netOut - mark.sent) \in Int /\ TokenUnit * mark.held \in Int
      BY <2>1
    <3>2. tokens + TokenUnit * (netOut - mark.sent)
            <= Allowance(Credited) + TokenUnit * mark.held
      BY DEF RateInv, CreditBound
    <3> QED BY <2>0, <2>1, <3>1, <3>2, CreditWithinWindow
  <2>4. /\ TokenUnit * (netOut + InSend - mark.sent)
              = TokenUnit * (netOut - mark.sent) + TokenUnit * InSend
        /\ TokenUnit * (MaxAtomic + mark.held)
              = TokenUnit * MaxAtomic + TokenUnit * mark.held
    BY <2>1
  <2>5. /\ TokenUnit * (netOut - mark.sent) \in Int /\ TokenUnit * InSend \in Int
        /\ TokenUnit * MaxAtomic \in Int /\ TokenUnit * mark.held \in Int
        /\ Allowance(now - mark.at) \in Int
    BY <2>0, <2>1, CreditWithinWindow
  <2>6. TokenUnit * (netOut + InSend - mark.sent)
          < Allowance(now - mark.at) + TokenUnit * (MaxAtomic + mark.held)
    BY <2>1, <2>2, <2>3, <2>4, <2>5
  <2> QED BY <2>0, <2>6 DEF WindowBound
<1> QED BY RateInvariant, RateRefines, TypeCorrect, SendInvariant, <1>1, PTL
=============================================================================
