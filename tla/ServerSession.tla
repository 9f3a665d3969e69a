---------------------------- MODULE ServerSession ----------------------------
(***************************************************************************)
(* One client session of the server (handle_client in src/server.rs).       *)
(*                                                                         *)
(* Four threads of control share the session: the PTY reader thread, the    *)
(* asynchronous send task, the asynchronous input loop, and the client at   *)
(* the other end of the TCP connection.                                     *)
(*                                                                         *)
(* Terminal output is abstracted to positions in the byte stream the PTY    *)
(* delivers: byte p is the p-th byte read.  pty_buffer is always a suffix   *)
(* of the bytes read so far, (bufLo, produced].  The virtual screen         *)
(* vt_parser reflects the bytes (vtBase, produced], because a resize        *)
(* replaces it by a blank one.  A frame is the interval of the stream it    *)
(* carries.                                                                 *)
(*                                                                         *)
(* The telemetry counters other than net_bytes_out are left out: only the   *)
(* --stats line prints them.                                                *)
(***************************************************************************)
EXTENDS Integers, Sequences, FiniteSets

CONSTANTS
    MaxBytes,     \* bound: bytes the shell prints in one session
    MaxChunk,     \* largest result of one read of the PTY (4096 in the code)
    Cap,          \* MAX_PTY_BUFFER_CAP
    Burst,        \* burst_capacity, in bytes
    TokenUnit,    \* tokens is a float: it is counted in 1/TokenUnit bytes
    Rate,         \* tokens gained per unit of time
    Elapsed,      \* possible times between two ticks of frame_timer
    CompressMin,  \* payloads up to this size are sent uncompressed (128)
    AtomicSizes,  \* possible sizes of an atomic screen frame
    MaxAtomic,    \* a bound on those sizes
    SafeAt,       \* positions find_safe_split_point counts as safe
    Boundary,     \* positions that end a character or an escape sequence
    WireCap,      \* bound: frames the sockets hold before send() waits
    MaxPackets,   \* bound: handshake, resize and input packets of the client
    MayPanic,     \* whether the vt100 library may panic
    MayReject     \* whether the input loop may end on a bad packet

ASSUME StreamAssumption ==
    /\ MaxBytes \in Nat /\ MaxChunk \in Nat \ {0} /\ Cap \in Nat
    /\ WireCap \in Nat \ {0} /\ MaxPackets \in Nat
    /\ MayPanic \in BOOLEAN /\ MayReject \in BOOLEAN

ASSUME BucketAssumption ==
    /\ Burst \in Nat \ {0} /\ TokenUnit \in Nat \ {0} /\ Rate \in Nat
    /\ Elapsed \subseteq Nat
    /\ CompressMin \in Nat

ASSUME AtomicAssumption ==
    /\ MaxAtomic \in Nat \ {0}
    /\ AtomicSizes \subseteq 1 .. MaxAtomic

VARIABLES
    produced,     \* bytes read from the PTY so far
    bufLo,        \* pty_buffer holds the bytes (bufLo, produced]
    vtBase,       \* vt_parser has processed the bytes (vtBase, produced]
    ptyClosed,    \* the flag pty_closed
    sendPc,       \* where the send task is
    hand,         \* the frame passed to writer.send (NoFrame if none)
    tokens,       \* the token bucket
    pending,      \* pending_atomic_refresh
    seq,          \* number of the last frame
    sentTo,       \* history: end of the last frame the send task made
    netOut,       \* net_bytes_out: payload bytes the bucket was charged for
    inPc,         \* where the input loop is
    handled,      \* packets that touched the session so far
    running,      \* handle_client has not returned
    conn,         \* whether the client still holds the connection open
    wire,         \* frames sent and not yet shown
    display       \* what the client's terminal shows

ptyVars  == <<produced, bufLo, vtBase, ptyClosed>>
sendVars == <<sendPc, hand, tokens, pending, seq, sentTo, netOut>>
inVars   == <<inPc, handled>>
netVars  == <<conn, wire, display>>
vars     == <<ptyVars, sendVars, inVars, running, netVars>>

-----------------------------------------------------------------------------
(* Frames *)

NoFrame == [kind |-> "none"]

RawFrame(from, to, n, last) ==
    [kind |-> "raw", seq |-> seq + 1, from |-> from, to |-> to,
     base |-> from, len |-> n, last |-> last]

\* generate_atomic_screen_frame paints what vt_parser holds.
AtomicFrame(to, base, n) ==
    [kind |-> "atomic", seq |-> seq + 1, from |-> 0, to |-> to,
     base |-> base, len |-> n, last |-> FALSE]

Frame == [kind : {"raw", "atomic"}, seq : Nat, from : Nat, to : Nat,
          base : Nat, len : Nat, last : BOOLEAN]

\* Packet::compress_data: how long the payload of n bytes may be.  It is never
\* longer than the data, and gzip is kept only when it is shorter.
PayloadLens(n) == IF n <= CompressMin THEN {n} ELSE 1 .. n

\* find_safe_split_point on the buffer (lo, produced] with the given target:
\* the possible results.  The scan starts at the buffer's first byte; a buffer
\* that starts inside a sequence has the rest of that sequence scanned as text.
SplitPoints(lo, target) ==
    IF target >= produced - lo THEN {produced - lo}
    ELSE LET safe == {p \in 1 .. target : lo + p \in SafeAt}
             best == {p \in safe : \A q \in safe : q <= p}
             tail == {p \in 1 .. target :
                        /\ \A q \in safe : q < p
                        /\ \A b \in lo .. lo + p : b \notin Boundary}
         IN  (IF safe = {} THEN {0} ELSE best) \cup tail

-----------------------------------------------------------------------------
Init ==
    /\ produced = 0 /\ bufLo = 0 /\ vtBase = 0 /\ ptyClosed = FALSE
    /\ sendPc = "top" /\ hand = NoFrame
    /\ tokens = Burst * TokenUnit /\ pending = FALSE
    /\ seq = 0 /\ sentTo = 0 /\ netOut = 0
    /\ inPc = "read" /\ handled = 0
    /\ running = TRUE
    /\ conn = "open" /\ wire = <<>>
    /\ display = [at |-> 0, sound |-> TRUE, ground |-> FALSE]

-----------------------------------------------------------------------------
(* The PTY reader thread.  Each chunk is applied to vt_parser and appended to  *)
(* pty_buffer under one lock.                                                 *)

\* Faulty variant: pty_closed is stored before the last chunk is appended.
PtyReadAfterClose(n) ==
    /\ running
    /\ produced + n <= MaxBytes
    /\ produced' = produced + n
    /\ UNCHANGED <<bufLo, vtBase, ptyClosed, sendVars, inVars, running, netVars>>

PtyRead(n) ==
    /\ running /\ ~ptyClosed
    /\ produced + n <= MaxBytes
    /\ produced' = produced + n
    /\ UNCHANGED <<bufLo, vtBase, ptyClosed, sendVars, inVars, running, netVars>>

\* process() panics and the parser is replaced by a blank one.
PtyReadPanic(n) ==
    /\ MayPanic
    /\ running /\ ~ptyClosed
    /\ produced + n <= MaxBytes
    /\ produced' = produced + n
    /\ vtBase' = produced + n
    /\ UNCHANGED <<bufLo, ptyClosed, sendVars, inVars, running, netVars>>

PtyEof ==
    /\ running /\ ~ptyClosed
    /\ ptyClosed' = TRUE
    /\ UNCHANGED <<produced, bufLo, vtBase, sendVars, inVars, running, netVars>>

-----------------------------------------------------------------------------
(* The send task: the test of pty_closed at the top of the loop.              *)

KeepGoing ==
    /\ running /\ sendPc = "top" /\ ~ptyClosed
    /\ sendPc' = "tick"
    /\ UNCHANGED <<ptyVars, hand, tokens, pending, seq, sentTo, netOut,
                   inVars, running, netVars>>

\* Everything left in pty_buffer goes out in one frame, whatever the bucket
\* holds and whether or not a refresh is pending.
FinalFlush ==
    /\ running /\ sendPc = "top" /\ ptyClosed
    /\ bufLo < produced
    /\ \E n \in PayloadLens(produced - bufLo) :
          hand' = RawFrame(bufLo, produced, n, TRUE)
    /\ seq' = seq + 1
    /\ bufLo' = produced /\ sentTo' = produced
    /\ sendPc' = "flush"
    /\ UNCHANGED <<produced, vtBase, ptyClosed, tokens, pending, netOut,
                   inVars, running, netVars>>

\* Faulty variant: with nothing left to flush the loop goes on.
FinalNothingLoops ==
    /\ running /\ sendPc = "top" /\ ptyClosed
    /\ bufLo = produced
    /\ sendPc' = "tick"
    /\ UNCHANGED <<ptyVars, hand, tokens, pending, seq, sentTo, netOut,
                   inVars, running, netVars>>

FinalNothing ==
    /\ running /\ sendPc = "top" /\ ptyClosed
    /\ bufLo = produced
    /\ sendPc' = "done"
    /\ UNCHANGED <<ptyVars, hand, tokens, pending, seq, sentTo, netOut,
                   inVars, running, netVars>>

-----------------------------------------------------------------------------
(* The send task: what follows a tick of frame_timer, up to the choice of a   *)
(* frame, under one lock.  Overflow has priority: it discards the buffer and  *)
(* asks for a refresh.                                                        *)

\* Faulty variants: no min(burst_capacity); last_tick set before it is read.
RefilledUncapped(e) == tokens + Rate * e
RefilledNever(e) == tokens

Refilled(e) == LET t == tokens + Rate * e
                   full == Burst * TokenUnit
               IN  IF t < full THEN t ELSE full

\* Faulty variant: the buffer is not limited.
OverflowNever == FALSE
Overflow  == produced - bufLo > Cap
TickLo    == IF Overflow THEN produced ELSE bufLo
Refresh   == pending \/ Overflow

\* tokens as usize
WholeTokens(e) == Refilled(e) \div TokenUnit

AtTick(e) ==
    /\ running /\ sendPc = "tick"
    /\ tokens' = Refilled(e)

\* Faulty variant: the overflow asks for a refresh only when it can send one.
TickExhaustedForgets(e) ==
    /\ AtTick(e)
    /\ Refilled(e) <= 0
    /\ bufLo' = TickLo
    /\ sendPc' = "top"
    /\ UNCHANGED <<produced, vtBase, ptyClosed, hand, pending, seq, sentTo, netOut,
                   inVars, running, netVars>>

TickExhausted(e) ==
    /\ AtTick(e)
    /\ Refilled(e) <= 0
    /\ bufLo' = TickLo
    /\ pending' = Refresh
    /\ sendPc' = "top"
    /\ UNCHANGED <<produced, vtBase, ptyClosed, hand, seq, sentTo, netOut,
                   inVars, running, netVars>>

\* The frame is painted from vt_parser and takes the place of what pty_buffer holds.
MakeAtomic ==
    /\ bufLo' = produced
    /\ pending' = FALSE
    /\ \E size \in AtomicSizes : \E n \in PayloadLens(size) :
          hand' = AtomicFrame(produced, vtBase, n)
    /\ seq' = seq + 1
    /\ sentTo' = produced
    /\ sendPc' = "send"
    /\ UNCHANGED <<produced, vtBase, ptyClosed, netOut, inVars, running, netVars>>

\* Faulty variant: the refresh does not wait for tokens.
TickRefreshAtOnce(e) ==
    /\ AtTick(e)
    /\ Refresh
    /\ MakeAtomic

TickRefresh(e) ==
    /\ AtTick(e)
    /\ Refilled(e) > 0 /\ Refresh
    /\ MakeAtomic

\* generate_atomic_screen_frame panics: the buffer and the request are gone.
TickRefreshPanic(e) ==
    /\ MayPanic
    /\ AtTick(e)
    /\ Refilled(e) > 0 /\ Refresh
    /\ bufLo' = produced
    /\ pending' = FALSE
    /\ sendPc' = "top"
    /\ UNCHANGED <<produced, vtBase, ptyClosed, hand, seq, sentTo, netOut,
                   inVars, running, netVars>>

TickIdle(e) ==
    /\ AtTick(e)
    /\ Refilled(e) > 0 /\ ~Refresh
    /\ bufLo = produced
    /\ sendPc' = "top"
    /\ UNCHANGED <<ptyVars, hand, pending, seq, sentTo, netOut,
                   inVars, running, netVars>>

\* The first k bytes leave; pty_buffer keeps the bytes after lo.
MakeRaw(k, lo) ==
    /\ bufLo' = lo
    /\ \E n \in PayloadLens(k) : hand' = RawFrame(bufLo, bufLo + k, n, FALSE)
    /\ seq' = seq + 1
    /\ sentTo' = bufLo + k
    /\ sendPc' = "send"
    /\ UNCHANGED <<produced, vtBase, ptyClosed, pending, netOut,
                   inVars, running, netVars>>

\* Faulty variants: what was split off stays in the buffer too; what follows the
\* split point is not put back.
TickRawKeeps(e) ==
    /\ AtTick(e)
    /\ Refilled(e) > 0 /\ ~Refresh
    /\ bufLo < produced
    /\ \E k \in SplitPoints(bufLo, WholeTokens(e)) \ {0} : MakeRaw(k, bufLo)
TickRawLosesRest(e) ==
    /\ AtTick(e)
    /\ Refilled(e) > 0 /\ ~Refresh
    /\ bufLo < produced
    /\ \E k \in SplitPoints(bufLo, WholeTokens(e)) \ {0} : MakeRaw(k, produced)

TickRaw(e) ==
    /\ AtTick(e)
    /\ Refilled(e) > 0 /\ ~Refresh
    /\ bufLo < produced
    /\ \E k \in SplitPoints(bufLo, WholeTokens(e)) \ {0} : MakeRaw(k, bufLo + k)

\* No safe point within the tokens: the buffer is put back.
TickBlocked(e) ==
    /\ AtTick(e)
    /\ Refilled(e) > 0 /\ ~Refresh
    /\ bufLo < produced
    /\ 0 \in SplitPoints(bufLo, WholeTokens(e))
    /\ sendPc' = "top"
    /\ UNCHANGED <<ptyVars, hand, pending, seq, sentTo, netOut,
                   inVars, running, netVars>>

Tick(e) ==
    \/ TickExhausted(e) \/ TickRefresh(e) \/ TickRefreshPanic(e)
    \/ TickIdle(e) \/ TickRaw(e) \/ TickBlocked(e)

-----------------------------------------------------------------------------
(* The send task: writer.send().await.  It waits while the client does not    *)
(* read.  Writes to a connection the client has closed may still succeed.     *)

Transmit(f) ==
    IF conn = "open"
    THEN /\ Len(wire) < WireCap
         /\ wire' = Append(wire, f)
    ELSE wire' = wire

\* Faulty variant: the bucket is not charged.
SendOkFree ==
    /\ running /\ sendPc = "send"
    /\ Transmit(hand)
    /\ netOut' = netOut + hand.len
    /\ hand' = NoFrame
    /\ sendPc' = "top"
    /\ UNCHANGED <<ptyVars, tokens, pending, seq, sentTo, inVars, running, conn, display>>

SendOk ==
    /\ running /\ sendPc = "send"
    /\ Transmit(hand)
    /\ tokens' = tokens - TokenUnit * hand.len
    /\ netOut' = netOut + hand.len
    /\ hand' = NoFrame
    /\ sendPc' = "top"
    /\ UNCHANGED <<ptyVars, pending, seq, sentTo, inVars, running, conn, display>>

\* The final frame is neither charged to the bucket nor counted.
FlushOk ==
    /\ running /\ sendPc = "flush"
    /\ Transmit(hand)
    /\ hand' = NoFrame
    /\ sendPc' = "done"
    /\ UNCHANGED <<ptyVars, tokens, pending, seq, sentTo, netOut,
                   inVars, running, conn, display>>

SendErr ==
    /\ running /\ sendPc \in {"send", "flush"}
    /\ conn = "closed"
    /\ hand' = NoFrame
    /\ sendPc' = "done"
    /\ UNCHANGED <<ptyVars, tokens, pending, seq, sentTo, netOut,
                   inVars, running, netVars>>

-----------------------------------------------------------------------------
(* The input loop.  A handshake or a resize sets the size of the PTY first    *)
(* and replaces vt_parser under a second lock.  Input is written to the PTY    *)
(* by a call that blocks the thread while the PTY is full: until the shell     *)
(* reads, the loop takes no packet and select! looks at neither branch.  A     *)
(* ping touches nothing modelled here.                                        *)

ResizePty ==
    /\ running /\ inPc = "read"
    /\ handled < MaxPackets
    /\ handled' = handled + 1
    /\ inPc' = "swap"
    /\ UNCHANGED <<ptyVars, sendVars, running, netVars>>

ResizeVt ==
    /\ running /\ inPc = "swap"
    /\ vtBase' = produced
    /\ inPc' = "read"
    /\ UNCHANGED <<produced, bufLo, ptyClosed, sendVars, handled, running, netVars>>

InputWrite ==
    /\ running /\ inPc = "read"
    /\ handled < MaxPackets
    /\ handled' = handled + 1
    /\ inPc' = "write"
    /\ UNCHANGED <<ptyVars, sendVars, running, netVars>>

\* The shell has made room, or the write has failed; the result is ignored.
PtyTakes ==
    /\ running /\ inPc = "write"
    /\ inPc' = "read"
    /\ UNCHANGED <<ptyVars, sendVars, handled, running, netVars>>

\* The client has gone, or a packet does not decode, or the key is wrong.
InputEnds ==
    /\ running /\ inPc = "read"
    /\ conn = "closed" \/ MayReject
    /\ running' = FALSE
    /\ UNCHANGED <<ptyVars, sendVars, inVars, netVars>>

\* select! takes the other branch: the send task has finished.  The branches
\* are polled while the input loop waits for a packet.
SendEnds ==
    /\ running /\ sendPc = "done" /\ inPc = "read"
    /\ running' = FALSE
    /\ UNCHANGED <<ptyVars, sendVars, inVars, netVars>>

-----------------------------------------------------------------------------
(* The client.  A raw frame continues what the terminal shows; an atomic      *)
(* frame clears and repaints it and leaves the terminal's parser in its       *)
(* ground state.  sound: the terminal shows the screen of the bytes           *)
(* (0, at].                                                                   *)

Painted(d, f) ==
    [at |-> f.to,
     ground |-> f.kind = "atomic",
     sound |-> IF f.kind = "atomic"
               THEN f.base = 0
               ELSE /\ d.sound /\ f.from = d.at
                    /\ d.ground => d.at \in Boundary]

ClientShow ==
    /\ conn = "open" /\ wire # <<>>
    /\ display' = Painted(display, Head(wire))
    /\ wire' = Tail(wire)
    /\ UNCHANGED <<ptyVars, sendVars, inVars, running, conn>>

ClientQuit ==
    /\ conn = "open"
    /\ conn' = "closed" /\ wire' = <<>>
    /\ UNCHANGED <<ptyVars, sendVars, inVars, running, display>>

-----------------------------------------------------------------------------
PtyThread == (\E n \in 1 .. MaxChunk : PtyRead(n) \/ PtyReadPanic(n)) \/ PtyEof
SendTask  == \/ KeepGoing \/ FinalFlush \/ FinalNothing
             \/ \E e \in Elapsed : Tick(e)
             \/ SendOk \/ FlushOk \/ SendErr
InputLoop == ResizePty \/ ResizeVt \/ InputWrite \/ PtyTakes \/ InputEnds
Client    == ClientShow \/ ClientQuit

Next == PtyThread \/ SendTask \/ InputLoop \/ SendEnds \/ Client

Spec == Init /\ [][Next]_vars

(* The sessions in which the handshake, and any resize, takes effect before the *)
(* shell has printed: the virtual screen then holds all the output.            *)
EarlySizeSpec == Init /\ [][Next /\ vtBase' = 0]_vars

(* What the code's scheduling gives.  The send task is spawned on the worker   *)
(* threads of the runtime, which poll it when it can proceed; handle_client    *)
(* itself runs on the main thread and goes on as long as no call blocks it.    *)
(* Nothing forces the shell to print, to read its input or to exit, nor the    *)
(* client to read what it is sent, to quit or to resize.                       *)
Fairness ==
    /\ WF_vars(SendTask) /\ WF_vars(SendEnds)
    /\ WF_vars(ResizeVt) /\ WF_vars(InputEnds)

FairSpec == Spec /\ Fairness

-----------------------------------------------------------------------------
(* Properties *)

\* Every variable keeps its type, and the three positions that the reader
\* thread, the send task and the resize handler move stay ordered.
TypeOK ==
    /\ produced \in Nat /\ bufLo \in 0 .. produced /\ vtBase \in 0 .. produced
    /\ ptyClosed \in BOOLEAN
    /\ sendPc \in {"top", "tick", "send", "flush", "done"}
    /\ hand \in Frame \cup {NoFrame}
    /\ hand = NoFrame <=> sendPc \notin {"send", "flush"}
    /\ tokens \in Int /\ tokens <= Burst * TokenUnit
    /\ pending \in BOOLEAN
    /\ seq \in Nat /\ sentTo \in 0 .. bufLo /\ netOut \in Nat
    /\ inPc \in {"read", "swap", "write"} /\ handled \in 0 .. MaxPackets
    /\ running \in BOOLEAN
    /\ conn \in {"open", "closed"}
    /\ wire \in Seq(Frame)
    /\ display \in [at : Nat, sound : BOOLEAN, ground : BOOLEAN]

\* What is on its way to the terminal, oldest first.
Route == IF hand = NoFrame THEN wire ELSE Append(wire, hand)

EndBefore(i) == IF i = 1 THEN display.at ELSE Route[i - 1].to

\* Frames leave in order and never carry the terminal back, however the reader,
\* the send task and the client interleave: each frame ends no earlier than the
\* one before it, numbers increase, and the last one ends where the send task
\* believes the client to be.
FramesAdvance ==
    conn = "open" =>
        /\ \A i \in 1 .. Len(Route) :
              /\ EndBefore(i) <= Route[i].to
              /\ Route[i].seq = seq - Len(Route) + i
        /\ sentTo = IF Route = <<>> THEN display.at ELSE Route[Len(Route)].to

\* Bytes that were discarded (the gap between the last frame made and the
\* buffer) are always still owed to the client as a pending refresh, until the
\* shell exits.  A panic in the vt100 library is the exception.
DropsAreOwed ==
    ~MayPanic /\ sendPc \in {"top", "tick", "send"} =>
        (sentTo < bufLo => pending)

\* A raw frame continues exactly where the client's terminal will be when it
\* arrives; only the frame that flushes the buffer at the end of the session
\* may start later.
NoHoles ==
    ~MayPanic /\ conn = "open" =>
        \A i \in 1 .. Len(Route) :
            Route[i].kind = "raw" /\ ~Route[i].last => Route[i].from = EndBefore(i)

\* A raw frame never carries more than MAX_PTY_BUFFER_CAP bytes, whatever the
\* tokens allow, so that it fits the fixed buffers of the C and C++ clients; the
\* frame that flushes the buffer at the end has no such limit.
RawFramesFit ==
    \A i \in 1 .. Len(Route) :
        Route[i].kind = "raw" /\ ~Route[i].last => Route[i].to - Route[i].from <= Cap

\* When the send task finishes on its own, it has taken every byte the reader
\* thread ever appended, and has put it in a frame unless a refresh was still
\* owed: the flag pty_closed is not seen before the last bytes.
ExitDrains ==
    sendPc = "done" /\ conn = "open" =>
        /\ ptyClosed /\ bufLo = produced
        /\ ~MayPanic /\ ~pending => sentTo = produced

\* The bucket is overdrawn by less than one atomic frame, and a raw frame is
\* never longer than the tokens in the bucket when it is sent.
OverdraftIsBounded ==
    /\ tokens > -(TokenUnit * MaxAtomic)
    /\ hand # NoFrame /\ hand.kind = "raw" /\ sendPc = "send" =>
          TokenUnit * hand.len <= tokens

\* What the terminal shows never goes back, and the client never shows a byte
\* the shell has not printed.
ShownAdvances == [][display.at <= display'.at /\ display'.at <= produced']_vars

\* The promise of ScreenSync, for the position the terminal shows.
Shown == IF display.sound THEN display.at ELSE -1
Sync == INSTANCE ScreenSync
          WITH screen <- produced, exited <- ptyClosed, shown <- Shown

\* The terminal shows a screen the application really had (ScreenSync), up to the
\* exit of the application: the flush that follows ignores a pending refresh.
SyncUntilExit == Sync!UntilExitSpec

\* The client takes every frame it is sent, however slowly.
ClientReads == WF_vars(ClientShow)

\* As long as the client keeps reading, every byte printed is shown, or painted
\* over by a later screen, unless the shell exits or the user quits first:
\* neither an empty bucket nor the overflow nor a slow client, nor a shell that
\* does not read its input, holds it back for ever.
OutputReachesClient ==
    ClientReads =>
        \A p \in 1 .. MaxBytes :
            produced >= p ~> (display.at >= p \/ conn = "closed" \/ ptyClosed)

\* The session is held by the shell: the input loop is inside write_all.
PtyBlocked == inPc = "write"

\* The session is held by the client: a frame waits for room in the sockets.
SendBlocked == hand # NoFrame /\ conn = "open" /\ Len(wire) = WireCap

\* The session ends once the client has gone, unless it is inside a write to a
\* PTY that nobody reads any more; and once the output of the shell has ended,
\* unless it is inside such a write or the client has stopped reading while a
\* frame waits.  Neither wait has a timeout.
SessionEnds ==
    /\ conn = "closed" ~> (~running \/ []PtyBlocked)
    /\ ptyClosed ~> (~running \/ []PtyBlocked \/ []SendBlocked)
=============================================================================
