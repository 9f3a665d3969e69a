------------------------------ MODULE ServerRate ------------------------------
(***************************************************************************)
(* The bandwidth limit of the send task (src/server.rs), measured by an     *)
(* outside observer: ServerSession in real time, with a count of every       *)
(* payload byte that leaves the server and a window the observer may open    *)
(* at any moment, also while a frame waits in writer.send().await.  Time     *)
(* passes between any two steps, wherever the send task is; a tick credits   *)
(* the bucket with the time since the tick before it.                        *)
(***************************************************************************)
EXTENDS ServerSession

CONSTANT MaxTime     \* bound: how long the observer watches

ASSUME TimeAssumption == MaxTime \in Nat

VARIABLES
    now,      \* the real time, Instant::now()
    last,     \* last_tick
    onWire,   \* payload bytes of all frames sent, the final one included
    mark      \* the moment the observer's window opens

rateVars == <<vars, now, last, onWire, mark>>

\* Payload bytes of the metered frame that waits in writer.send().await.
InSend == IF sendPc = "send" THEN hand.len ELSE 0

RateInit ==
    /\ Init
    /\ now = 0 /\ last = 0 /\ onWire = 0
    /\ mark = [at |-> 0, sent |-> 0, held |-> 0]

Pass ==
    /\ now < MaxTime
    /\ now' = now + 1
    /\ UNCHANGED <<vars, last, onWire, mark>>

\* Faulty variant: last_tick stays at the start of the session.
TimedFromStart ==
    /\ now \in Elapsed
    /\ Tick(now)
    /\ UNCHANGED <<now, last, onWire, mark>>

Timed ==
    /\ now - last \in Elapsed
    /\ Tick(now - last)
    /\ last' = now
    /\ UNCHANGED <<now, onWire, mark>>

Sent ==
    /\ SendOk \/ FlushOk
    /\ onWire' = onWire + hand.len
    /\ UNCHANGED <<now, last, mark>>

Other ==
    /\ \/ PtyThread \/ KeepGoing \/ FinalFlush \/ FinalNothing \/ SendErr
       \/ InputLoop \/ SendEnds \/ Client
    /\ UNCHANGED <<now, last, onWire, mark>>

OpenWindow ==
    /\ sendPc # "done"
    /\ mark' = [at |-> now, sent |-> onWire, held |-> InSend]
    /\ UNCHANGED <<vars, now, last, onWire>>

RateNext == Pass \/ Timed \/ Sent \/ Other \/ OpenWindow

RateSpec == RateInit /\ [][RateNext]_rateVars

-----------------------------------------------------------------------------
Allowance(t) == TokenUnit * Burst + Rate * t

\* Tokens are never created: in every window of real time, what was charged to
\* the bucket and what is left in it come to no more than a full bucket, what
\* the time in the window adds, and the frame that waited when it opened, which
\* is charged late.
TokensConserved ==
    tokens + TokenUnit * (netOut - mark.sent)
        <= Allowance(now - mark.at) + TokenUnit * mark.held

\* In every window of real time, what leaves the server, bytes of a frame still
\* in send() included, is less than the rate times the window, plus one burst,
\* plus one atomic frame, plus the frame that was in send() when the window
\* opened: its wait earns a new burst.  The flush at the end of the session is
\* not metered.
WindowBound ==
    sendPc # "done" =>
        TokenUnit * (onWire + InSend - mark.sent)
            < Allowance(now - mark.at) + TokenUnit * (MaxAtomic + mark.held)
=============================================================================
