# mosh-tcp in TLA+

A TLA+ model of mosh-tcp: a remote terminal over one TCP connection, with a
server in Rust and clients in Rust, C and C++. The server throttles output to a
small bandwidth, discards floods of text and repaints the screen instead.
The modules are translated from the code under `src/`; `PROJECT.json` maps each
definition to the lines it stands for.

## The system

| part | state | operations | interacts with |
|---|---|---|---|
| server session, `handle_client` (`src/src/server.rs`) | `pty_buffer` and `vt_parser` behind one mutex, `pty_closed`, the token bucket, `pending_atomic_refresh`, the frame number | the PTY reader thread appends; the send task ticks, refills, splits, repaints, flushes; the input loop handles handshake, resize, input, ping | mutex and flag between thread and tasks; `select!` ends the session when either task ends |
| packet layer (`src/src/protocol.rs`, the `net_buf` loops of the C and C++ clients, `read_packet` in `src/src/client.rs`) | bytes of an incomplete packet | length-prefixed framing, compression | TCP, which cuts the stream anywhere |
| client session (`src/src/client.rs`, `src/clients/c`, `src/clients/cpp`) | `running`, `last_size`, a channel (Rust); `g_running`, `g_sigwinch_pending` (C, C++) | read stdin, send input and window sizes, show frames, quit | three threads (Rust), or one `poll()` loop and a signal handler |
| SSH launch (the same three clients) and `run_server` | two child processes, the port announced, raw mode of the terminal; the listening server and the connection it serves | start the launcher, read its line, start the tunnel, connect, clean up; bind, announce, accept one connection, end | `ssh`, signals, `atexit` or destructors, other programs on both hosts |
| ANSI text (`src/src/ansi.rs`) | none | `find_safe_split_point`, `strip_terminal_queries_stateful`, `contains_subslice` | called by the send task, by nobody but tests, and by the predictor |
| predictive echo (`src/src/predictive.rs`) | predicted cells, epoch, a virtual screen, whether it is suspended | keystroke, server frame, clear | locked by the stdin and the receiver thread, which also share the terminal |
| the rest | | option parsing, the statistics line, dead key and mouse encoders, the vendored `puff.c` | |

What is hard here: the reader thread, the send task and the resize handler move
the two ends of one buffer and the virtual screen between each other's steps;
discarded output is made good by a frame that may be sent much later; the end of
the shell races that frame; the bucket is overdrawn by frames of unknown size;
packets arrive in pieces, with timeouts inside them; child processes and the
terminal must be given back on every way out, and the remote server must end
whoever connects to it; two threads draw on one terminal; window sizes are noticed by polling
or by signal while earlier ones are still under way. `PROJECT.json` lists these
hazards with their lines and with the properties that cover them.

What makes each part correct:

- *Session*: frames leave in order, none carries the terminal back, nothing is
  left out except what a later repaint makes good; output is eventually shown;
  the session ends.
- *Bucket*: traffic in any window of real time is bounded.
- *Framing*: the packets handed on are those sent.
- *Client session*: keystrokes arrive once and in order, the newest window size
  arrives if the shell reads its input, a client told to stop stops.
- *Launch*: every launch decides, unless the launcher is silent for ever; processes
  and terminal are given back; the server ends.
- *Predictive echo*: the terminal shows the server's line with the predictions
  over it; nothing is predicted on the alternate screen.
- *ANSI text, packets*: output is cut inside a character or a sequence only where
  the read has cut it already;
  what a filter or a reader makes of a stream does not depend on how it is cut;
  the three implementations agree.

## Modules

| module | models | state and actions |
|---|---|---|
| `ScreenSync` | the promise to the user: the terminal shows screens the application really had, and only moves forward | `Output`, `Exit`, `Show`; `UntilExitSpec` allows anything after the shell has exited |
| `ServerSession` | `handle_client` | `PtyRead`, `PtyReadPanic`, `PtyEof` (reader thread); `FinalFlush`, `FinalNothing`, the outcomes of a tick (`TickExhausted`, `TickRefresh`, `TickRefreshPanic`, `TickIdle`, `TickRaw`, `TickBlocked`), `SendOk`, `FlushOk`, `SendErr` (send task); `ResizePty`, `ResizeVt`, `InputWrite`, `PtyTakes`, `InputEnds` (input loop); `SendEnds` (`select!`); `ClientShow`, `ClientQuit` |
| `ServerRate` | the same steps in real time, and an observer that opens a window at any moment and counts payload bytes | `Pass` (time, wherever the send task is), `Timed` (a tick and the time since the one before), `Sent`, `Other`, `OpenWindow` |
| `Framing` | `PacketCodec::decode`, the `net_buf` loops, `read_packet` | `Arrive`, `PeerClose` (network); `Fill`, `Decode`, `BufferFull`, `HangUp`, `StreamEnd`; `ReadSome`, `LengthRead`, `BodyRead`, `BodyRejected`, `Timeout`, `UnexpectedEof` |
| `SshLaunch` | `SshTunnel::spawn`, its `Drop`, the launch code of both `main`s, `run_server` | one action per step of a launch and of the way out, children that exit at any time, signals (`SignalKills`, `SignalEnds`, `WaitInterrupted`); `Announce`, `Accept`, `AcceptPanics`, `AcceptFails`, `ServeBlocks`, `ServeResumes`, `ServeEnds` (server); `StrayConnects`, `StrayLeaves`, `StrangerListens` (other programs) |
| `ClientSession` | the Rust threads, the poll loop, the server's input loop | one action per step between two points where another thread, a signal or the network can act |
| `Predictor` | `LocalPredictor` and the two threads of the Rust client that share it | `ReadKeys`, `ReadEscape`, `KeyChar`, `KeyErase`, `KeyControl` (stdin thread); `Inspect`, `Pass`, `Show` (receiver) |
| `AnsiText` | the three functions of `ansi.rs`, on bytes | operators: `Split`, `Strip`, `ContainsSubslice` |
| `Packets` | `Packet::serialize`, `deserialize`, `encode`, the readers of the C and C++ clients, and what each client writes to the terminal for a frame, on bytes | operators |
| `MCAlgorithms` | grows one input of `AnsiText` or `Packets`, and states the references | `AddPiece`, `AddByte` |
| `MC…` | streams for the small instances | |
| `…Proofs` | theorems | |

Data is abstracted, control is not:

- *Terminal output* is a stream of numbered bytes. The buffer is always a suffix
  of what was read, so it is an interval; a frame is the interval it carries; the
  virtual screen is the interval it has processed. `Boundary` says which positions
  end a character or an escape sequence, `SafeAt` which of them
  `find_safe_split_point` counts as safe (not right before an ESC).
  `SplitPoints` is the set of results it can have, also for a buffer that starts
  inside a sequence; the byte scan itself is `AnsiText!Split`, and `SplitMatches`
  is the same statement about it: with tokens for the whole buffer the end of the
  buffer, else the last safe place that they allow.
- *Compression* is the set of payload lengths it can produce: unchanged up to 128
  bytes, never longer than the data.
- *Tokens* are a float in the code and are counted in fractions of a byte here
  (`TokenUnit`), so that "some, but less than one byte" exists.
- *Keystrokes and window sizes* are numbered in the order they happen.
- *Packets in `Framing`* are stretches of the stream; a header read at a place
  that is not the start of a packet yields an arbitrary length (`Garbage`).

- *The terminal in `Predictor`* is the page it shows and the line with the cursor;
  a frame is one or two commands (a character, cursor left, clear, a switch of
  pages, or one half of a switch that was cut between two frames). Row, column and
  epoch of a prediction, and the virtual screen they are compared with, decide
  only how many predictions a frame confirms: `Inspect` takes any number.
- *Decompression* is its outcome: a failure, or some bytes. What the clients add is
  translated: the length below which they do not try, the room for the output
  (`DecompressRoom`, 256 KB in the code), the C client's `malloc`. The three decoders
  are taken to agree on what they are given, which holds for what the server's encoder
  writes. For other data they need not: the C and C++ clients take data without a
  gzip header for raw deflate and never look at the checksum. A failed allocation
  in C++ ends the program and is not modelled.
- *The key of a handshake* goes through `from_utf8_lossy`: `Lossy` replaces each
  ill-formed run of bytes by U+FFFD as the library does, so a key that is not UTF-8
  is read as a longer one.
- *In `Packets`* a u64 is its eight bytes; a slice out of range, a panic in Rust,
  is an evaluation error of TLC, so a passing run shows that there is none.
  The sums of lengths in the C and C++ clients are taken modulo `U32`, which is
  2^32 in the code and 2^30 in the run (TLC's integers end at 2^31); no sum of the
  run comes near either.

Points of the code that the translation rests on:

- `pty_closed` is stored and loaded with relaxed ordering. The reader thread
  stores it after it has released the mutex of the last chunk, and the send task
  takes that mutex after it has seen the flag. Had it taken the mutex before the
  reader's last append, its load of the flag would happen before the store, and
  could not have seen it; so the last chunk is in the buffer.
- The handshake and the resize handler do the same two things: resize the PTY
  under one lock, replace `vt_parser` under another. `ResizePty` and `ResizeVt`
  are separate steps for that reason. Pings do not touch this state.
- Input is written to the PTY by a blocking `write_all` inside the input loop, which
  `select!` polls in turn with the send task's handle (`server.rs:379-384`). Until
  the shell has taken the input (`InputWrite` to `PtyTakes`), neither the client's
  leaving nor the end of the send task is noticed. The send task is a task of its
  own, on another worker thread, and goes on. What the keystrokes are is in
  `ClientSession`.
- `handle_client` keeps its copy of `pair.slave` until it returns
  (`server.rs:137`); whether the reader then sees the end of the output when the shell
  exits is up to the platform. `PtyEof` is that end, whenever it comes, and nothing
  assumes that it does.
- A tick credits the bucket with the time since the last tick, of which any part may
  have passed inside `writer.send().await`; a tick may also follow at once
  (`Elapsed` contains 0 in `server_hostile` and `server_rate`).
- Which client restores the terminal where: Rust and C++ at the end of the session,
  by guards (`SessionEnds`); C after its children have been stopped, in the exit handler
  (`Finish`). SIGINT and SIGTERM have handlers in C and C++ once the session starts;
  SIGHUP, SIGQUIT and SIGPIPE have none in any client (`SignalKills`). The handlers
  are installed without `SA_RESTART`, so a second signal ends a `waitpid` early
  (`WaitInterrupted`).
- When the input loop ends first, `select!` drops the send task's handle, not the
  task; the process then ends and cuts it off. The model lets it take no further
  step.

## Runs

| run | question and answer |
|---|---|
| `server_sync` | For plain text, with a size that takes effect before the first output: what was discarded is owed as a refresh until the shell exits (`DropsAreOwed`), a raw frame starts where the terminal will be (`NoHoles`) and is never larger than the cap (`RawFramesFit`), a send task that ends has taken the last byte (`ExitDrains`), and the session implements `ScreenSync` up to the exit of the shell (`SyncUntilExit`). |
| `server_live` | Under fair scheduling every byte is shown or painted over if the client keeps reading, with fractions of a token and a shell that does not read its input (`OutputReachesClient`); the session ends after the client does, unless it is inside a write to a PTY that nobody reads for ever, and after the output of the shell does, unless it is inside such a write or a frame waits for ever for a client that does not read (`SessionEnds`). |
| `server_hostile` | Whatever the client and the vt100 library do (escape sequences, a resize, panics, a rejected packet, a client that quits): frames are numbered and ordered without a gap, the terminal never goes back (`FramesAdvance`, `ShownAdvances`), and the bucket is overdrawn by less than one atomic frame (`OverdraftIsBounded`). |
| `server_rate` | In every window of real time, opened at any moment, also during a send: metered traffic stays below rate × time + one burst + one atomic frame + the frame that was in `send()` when the window opened (`WindowBound`), because tokens are conserved (`TokensConserved`). The last term is needed: while that frame waits, the bucket earns a new burst. |
| `server_mid_sequence` | *Violated.* A refresh taken inside an escape sequence is followed by the rest of the sequence, which the terminal shows as text. |
| `framing` | All three readers, every way of cutting three packets, a C buffer that just fits and one that does not, orderly and hard closes: packets are handed on whole and in order unless a timeout tears one (`IntactUnlessTorn`), a reader leaves a live connection only at a packet that does not fit (`GivesUpOnlyWhenTooBig`), everything that arrived before an orderly close is handed on (`AllDelivered`). |
| `framing_timeout` | *Violated.* The Rust client's 500 ms read timeout inside a packet discards what `read_exact` had read; the next read takes the middle of the packet for a length. |
| `ssh_launch` | Which processes a client can leave behind and why (`OrphansExplained`), which process ids it signals after giving them up (`StraysExplained`), when the terminal is raw: in a session, in the C client also until its children are gone, and for good only after a kill (`TerminalRestored`); that every launch decides unless the launcher neither prints its line nor exits (`LaunchDecides`); that a server which a client has reached ends after the client, whatever other program connects first, unless a stray stays or it is inside a write to the PTY for ever (`ServerEnds`). |
| `client_session` | No keystroke is lost, repeated or overtaken on its way (`KeysInOrder`), an old size never replaces a newer one (`SizesAdvance`), if the shell keeps reading, input arrives (`InputReachesShell`) and sizes arrive at once (C, C++) or with the next keystroke (Rust) (`SizeReachesServer`); a stopped client leaves whether or not the shell reads, except a C or C++ client that is inside `write_all` for ever (`StopEnds`). |
| `predictor` | The terminal is the server's line with the predictions over it, except for three named causes that last until the page is cleared (`EchoIsOverlay`): a frame culled a prediction, a key was handled between the inspection and the writing of a frame, a prediction over existing text was erased. Predictions are suspended exactly on the alternate page, except after a switch that was cut, discarded, or followed by another in its frame (`SuspendedOnAlternatePage`). |
| `predictor_echo` | *Violated.* Type a character, receive its echo: the character is on the terminal twice, since culling empties the list without erasing. |
| `algorithms` | `find_safe_split_point` cuts, for every prefix of every stream, at the last place the tokens allow that is safe or the end of the buffer (`SplitMatches`); the query filter removes exactly the queries (`StripMatches`) and does not depend on how the stream is cut (`StripUnchunked`); `deserialize` reads a packet from a definite number of bytes, so that truncation is an error, never another packet; from a payload that `serialize` can write (a flag of 0 or 1, a key in UTF-8) these bytes are exactly what `serialize` writes; every packet survives the round trip (`PacketsExact`); the C and C++ clients read every payload as the Rust client does and write the same to the terminal, except for a compressed frame that is too short, too large or finds no memory, which they drop (`ClientsAgree`). |

Facts that modelling and checking brought up beside the findings:

- An escape sequence longer than the burst is never sent as raw output
  (`server_live` with `Burst = 3` and `Cap = 4` violates `OutputReachesClient`).
- A size that takes effect after the first output blanks the virtual screen, so
  that a later refresh is incomplete (`SyncUntilExit` under `Spec` with
  `MaxPackets = 1` is violated).
- The flush at the exit of the shell ignores a pending refresh: it draws the raw
  rest onto a screen that lacks what was discarded. `ScreenSync` allows this
  (`SpoilAtExit`); without that step `server_sync` fails.
- The bandwidth limit that `src/README.md` calls strict is the one of
  `WindowBound`: one burst, one atomic frame and a waiting frame above the rate; the
  final flush is not metered at all, nor limited in size.
- A shell that does not read its input holds everybody: the server stays inside
  `write_all` on the remote host after its client has gone or its send task has ended,
  and a C or C++ client inside its own `write_all` takes a signal for an interrupted
  write and goes on. The Rust client leaves, since its receiver does not wait for the
  sender.
- The wait for the launcher's line has no timeout in any client: an `ssh` that hangs
  holds the launch.
- With tokens for all of it, the whole buffer is sent, although the read may have
  ended inside a character or a sequence; the comment at `ansi.rs:11` promises more
  than that. The rest follows in the next raw frame, unless a refresh comes in
  between, which is what `server_mid_sequence` shows.
- The exceptions of `OrphansExplained` are real: a Rust launch that fails after
  the launcher was started, a C++ launch whose second fork fails, and a signal
  without a handler leave `ssh` running. A client that never connects leaves
  the remote server listening for good.
- In the predictor every frame empties the list, so that the `clear_predictions`
  after `inspect_server_frame` has something to erase only when the frame enters
  the alternate screen, where the inspection has erased it already. Epochs and
  the cells of the virtual screen decide nothing.
- A refresh does not carry the alternate-screen mode: if the switch was among the
  discarded bytes, terminal and application are on different pages (`skew`).
- `find_safe_split_point` knows neither DCS strings nor three-byte sequences such
  as `ESC ( B`, and may cut inside them; the query filter also removes a window
  title that contains a question mark. No run of the server strips queries,
  although `src/README.md` lists it.
- The Rust client notices a change of the window size only at the next keystroke,
  since the comparison precedes a blocking read, and loses one that happens
  between the handshake and the start of the stdin thread, which both read the
  size; hence the conditions of `SizeReachesServer`.
- The Rust client indexes the fourth word of the announcement after it has
  checked for three.

### Bounds

The output streams have 6 or 7 bytes, with a buffer capacity of 2 to 4 and chunks
of up to 3: enough for two overflows, output after a refresh, and a shell that
exits at any point of this. Byte 2 to 4 of an escape stream are one sequence, so
a chunk, a split and a refresh can each fall inside it. Burst and rate are such
that the bucket runs empty, goes negative and refills to the top; atomic frames
are smaller and larger than the burst; two frames fit on the wire, so that the
send task waits; the input loop handles one packet (`MaxPackets`), which is a handshake,
a resize or input. `server_rate` watches four units of time (`MaxTime`) with ticks
at any moment: long enough for a window to open before, during or after a send that
overdraws the bucket, and for the bucket to be full again. Framing uses three packets of
different length (one longer than the smaller buffer); ClientSession uses three
keystrokes, two window changes, and buffers of two, so that every writer blocks.
SshLaunch allows three connection attempts (first, middle, last), one stray and
one stranger, and a usable and two unusable frame rates. Predictor has a line of four cells, one
character and reads of one byte (reads of two bytes give the same answer): two
predictions, text under the cursor and text to its right all occur. Two
characters would add nothing but a choice of which one is wrong. Algorithms uses
streams of up to three pieces out of eighteen (characters of one and two bytes, queries,
kept sequences of each kind, broken ones), each cut at every byte and split for every number of tokens, and payloads of up to
15 bytes: a frame with one byte of data (its flag 0, 1 or 2), a handshake with a key of
up to three bytes, well-formed UTF-8 or not, and one byte more or less of each; the room
for decompression is 12 bytes, so that results fit and do not. The safety properties
of every module are proved without these bounds: see Proofs.
No symmetry is used, since bytes, keys and sizes are ordered.

### Fairness

`ServerSession`: the send task, which has a worker thread of tokio's runtime, takes
its next step; a resize once begun is finished; the input loop notices the end of the
connection, and `select!` that of the send task, when they are not inside the write
to the PTY. Nothing is assumed of the shell (it need not read, print or exit), of the
user or of the number of panics, and the client may stop reading: that it reads is
an antecedent of `OutputReachesClient` (`ClientReads`), and the two waits that have
no timeout are named in `SessionEnds` (`PtyBlocked`, `SendBlocked`).

`Framing`: a reader reads what is there; the network need not deliver.

`SshLaunch`: the main thread runs; a child that got SIGTERM exits; the server accepts
what is waiting. The launcher need not print its line or exit. The server ends a
session whose connection is closed (shown as `SessionEnds` in `server_live`); this is
strong fairness: the server may be held by the PTY once for each packet of input that
a closed connection has left behind, but these are finitely many, so that only one
write that never returns holds it for ever. A session may last for ever and a stray
may stay.

`ClientSession`: every thread runs and the server handles what it receives as far as
the PTY takes it. That the shell keeps reading is not assumed: it is an antecedent of
`InputReachesShell` and `SizeReachesServer` (`ShellKeepsReading`), and `StopEnds`
holds without it.

These are what an operating system's scheduler and tokio's runtime provide.

## Proofs

TLAPS checks the theorems below for every value of the constants that the
named assumptions admit (natural numbers, a burst, unit and chunk size above 0,
atomic frames no larger than `MaxAtomic`; for `Framing`, packet positions that
add up; for `Predictor`, a line of at least one cell and a blank that is no
character; for `Packets`, `U32` above 0 and a room for decompression). Every invariant and every
action property of every passing run is proved. Each inductive invariant was
checked by TLC under the constants of its component's run before it was proved.

| module | theorems | inductive invariant |
|---|---|---|
| `ServerSessionProofs` | `TypeCorrect`, `DropsOwed`, `ExitIsDrained`, `Overdraft`; `Advancing`, `Gapless`, `ShownMonotone`, `RawFramesAreSmall`; `SyncInvariant`, `SyncRefinement` | `SendInv`. `DropsAreOwed` is inductive. `ExitDrains` is not: the task ends one step after the last frame was made, so `FlushState` says that this frame holds everything. Nor is the overdraft: a frame is charged after `send` has waited, so `HandIsPaid` remembers that a raw frame in hand is covered by the bucket and that an atomic one was made with tokens left. The second group rests on `ChainInv`. The frame in hand, the frames on the wire and the display form one chain (`Route`). It changes in three ways (a frame is made at its end, one moves from hand to wire, the client shows its head), each a lemma; `sentTo` links its end to the buffer. `RawFramesFit` is inductive once it is told apart for the hand and the wire (`SmallInv`): a frame gets its size when it is made and only moves afterwards. The refinement of `ScreenSync` rests on `SyncInv`. Every frame but the last is whole and the display is sound until the last frame is shown; then `PtyRead`, `PtyEof` and `ClientShow` are the steps of `ScreenSync` and the rest stutters. Assumes `PlainSession` (no panics, every byte stands for itself) and `EarlySizeSpec` (sizes take effect before the first output); TLC violates the promise when any one of the three is dropped. |
| `ServerRateProofs` | `Conservation`, `Throughput` | `RateInv`. The observer only watches (`RateRefines`: a behaviour of `RateSpec` is one of `Spec`), so `Overdraft` carries over. `TokensConserved` is not inductive: the bucket is credited at ticks only, so `CreditBound` counts the window's time up to the last tick (`Credited`). The first tick after the opening also credits time from before it; the full bucket bounds that, which is enough because until then nothing but the frame held at the opening can have left (`HeldFirst`). |
| `FramingProofs` | `FramingTypes`, `Intact`, `GivesUp` | `FramingInv`. A reader that has not been torn stands at the start of the next packet (`AtPacket`), so the length it decodes is that packet's. |
| `SshLaunchProofs` | `LaunchTypes`, `OrphansAreExplained`, `StraysAreExplained`, `TerminalIsRestored` | `LaunchInv`. `OrphansExplained` speaks of the end only, so the invariant follows ownership through the launch: a running child is owned, but for the two ways of launching that give it to nobody (`OwnedInv`); nothing is reaped before the way out, except a tunnel found dead (`EarlyInv`); what was reaped is not owned any more (`ReapedInv`), which is what `StraysExplained` needs when the owned children are signalled. `TerminalIsRestored` follows the terminal through the way out of each client: the guards of Rust and C++ have run before the children are stopped, so that of an unkilled client only C's is raw on the way out. |
| `ClientSessionProofs` | `ClientTypes`, `KeystrokesInOrder`, `SizesNeverGoBack` | `ClientInv`. The hands of the threads, the channel and the socket form one pipeline; its keystrokes continue `got` up to `taken`, and its sizes rise from `srvSize` to `window` (`PipeInv`). `SizesAdvance` is about the head of the pipeline, and holds because the whole of it is sorted. `Places` says which threads exist for which client and that nothing is under way before the handshake, so that a packet moving from one hand to the next leaves the pipeline as it was. |
| `PredictorProofs` | `CullLeavesNothing`, `PredictorTypes`, `EchoIsTheOverlay`, `SuspendedWithThePage` | `PredictInv`. `EchoIsOverlay` is inductive given the types: to draw a character is to predict one more (`PutOverlay`), to erase n is to predict n fewer where no text lies under them (`EraseOverlay`), and a frame treats equal screens alike (`ShownAgree`). The types need `Room`: a frame is checked for room before keys are read that come first. `SuspendedOnAlternatePage` is not inductive, since the predictor knows a switch one frame before the terminal: `PageInv` compares it with the page the frame under way leads to. |
| `PacketsProofs` | `RoundTrip`, `ReadersExact`, `ReadersAgree` | none: the theorems are about operators, for payloads of any content. What `serialize` writes is read back whatever follows it (`WrittenIsRead`), and what is accepted starts with what `serialize` writes for it (`ReadIsWritten`), each from one lemma per kind of packet about where its fields lie (`Row`, `Adjacent`) and from a number and its bytes determining each other (`Be16Back`, `Be32Back`). That fewer bytes than a packet takes are an error, and more make no difference, is a lemma per kind as well (`InputTakes` to `HandshakeTakes`), for any flag and any key. `ReadersExact` assumes only a payload shorter than 2^16 bytes (it serves as a key in `Samples`). The proofs use `Lossy` as a function they know nothing about; what it computes is checked by TLC. `ReadersAgree` assumes that the clients' sums, the length field plus 14 at most, do not wrap (`NoWrap`); a frame far below 2^32 bytes, as all of the server's are, satisfies it. It holds for every outcome of decompression, not only those of the run (`WrittenAlike`). |
| `AnsiTextProofs` | `SplitAtLastSafe`, `SplitCorrect`; `Unchunked`, `StripDelivery`; `OnlyQueriesRemoved`, `StripCorrect` | `PiecesOK` (the output consists of pieces); the work is in theorems about the operators, for buffers of any length. `SplitAtLastSafe` takes the output as pieces, each a character of any number of bytes or a sequence with its terminator: a window of the buffer that holds a piece is scanned to the end of the piece, or to the end of what was read (`PieceScan`), so that backwards over the pieces the scan finds exactly their safe ends (`ScanFinds`). The number of tokens is any natural number; from the length of the buffer on, the cut is its end (`SplitInside` is the other case). `Unchunked` is about any bytes whatever: the scan of a suffix is the scan of the whole from there on (`SuffixStrip`), and the scan of a prefix is that of the whole up to where the first unfinished sequence starts, which is where the rest begins (`StripInTwo`). `OnlyQueriesRemoved` is this applied to one piece after the other, none of which leaves a rest (`StripConcat`, `PieceStrip`). DCS strings are among its pieces and not among those of `SplitAtLastSafe`, since the split does not know them. |

`AnsiText` describes loops over the buffer by recursive functions, and what they
compute is proved by induction over how much of the buffer is left. The rule is
derived in the module: every set of natural numbers that is not empty has a least
element (`Least`, from the well-foundedness of `<` on the naturals), hence
`Induction` upwards and `Backwards` from the end of the buffer, each about a set
and not about a predicate. That the recursive functions exist at all is the
first use (`SafeScanExists`, `StripScanExists`, and `FlattenScanExists` for the
sequence that `FlattenSeq` builds).

Only model-checked: everything about liveness (`OutputReachesClient`,
`SessionEnds`, `AllDelivered`, `LaunchDecides`, `ServerEnds`,
`InputReachesShell`, `SizeReachesServer`, `StopEnds`), since the prover does not
treat fairness and `ENABLED`; and the three violations, which are counterexamples.

## Not modelled

- The key and mouse encoders and the response filter of `client.rs`: marked as
  dead code and called by nothing.
- gzip and the vendored inflate `puff.c`; compression is the set of lengths it
  can produce, and a decompressed frame is what was compressed.
- Option parsing, logging and the statistics line: no other part reads them.
- What a full-screen application draws on the alternate page, and the right
  margin of the terminal: a prediction that wraps there is erased wrongly, since
  a backspace does not go back over the wrap.
- Which predictions a frame confirms: since the list is empty either way, it has
  no effect that anyone could see.

## Plan

1. *Done*: `ScreenSync`, `ServerSession`, `ServerRate` and their theorems;
   `Framing` and its theorems; `SshLaunch` with `run_server`; `ClientSession`;
   `Predictor`; `AnsiText` and `Packets`.
2. *Done*: theorems for every safety property of `ServerSession`, `Framing`,
   `SshLaunch`, `ClientSession` and `Predictor` that a run checks; `Packets` and
   `AnsiText` for inputs of any length.
3. `System`: one session end to end, `ServerSession` and `ClientSession` joined by
   `Framing`, so that quitting, closing and the last frame meet.
