---------------------------- MODULE ClientSession ----------------------------
(***************************************************************************)
(* A connected client: the path of keystrokes and window sizes from the      *)
(* user's terminal to the remote PTY, and how the session is ended.          *)
(*   "rust"  a stdin thread, a sender thread with an unbounded channel       *)
(*           between them, and the receiver in the main thread               *)
(*   "poll"  the single-threaded poll() loop of the C and C++ clients        *)
(* Keystrokes and window sizes are numbered in the order they happen.  A     *)
(* packet carries an interval of keystrokes or the number of a size.  Output *)
(* is modelled by ServerSession and Framing.                                *)
(***************************************************************************)
EXTENDS Integers, Sequences

CONSTANTS
    Clients,      \* which clients to consider
    MaxKeys,      \* bound: keystrokes of the user
    MaxWindow,    \* bound: changes of the window size
    SockCap,      \* packets the sockets hold before write() blocks
    PtyCap        \* keystrokes the PTY holds before the server's write blocks

ASSUME SessionAssumption ==
    /\ Clients \subseteq {"rust", "poll"}
    /\ MaxKeys \in Nat /\ MaxWindow \in Nat
    /\ SockCap \in Nat \ {0} /\ PtyCap \in Nat \ {0}

VARIABLES
    client,      \* which client this is
    typed,       \* keystrokes typed
    ctrlQ,       \* Ctrl+Q typed after them (a hotkey of the Rust client only)
    stdin,       \* "open", "eof" or "error"
    window,      \* number of the current window size
    winch,       \* g_sigwinch_pending
    running,     \* the flag running, or g_running
    inPc,        \* where the stdin thread, or the poll loop, is
    known,       \* last_size, or the size for the handshake
    taken,       \* keystrokes read from stdin
    queue,       \* the channel input_tx -> input_rx
    sendPc,      \* where the sender thread is
    hold,        \* the packet being written (NoPacket if none)
    ended,       \* the client has left its session
    sock,        \* packets written and not yet handled by the server
    srvOpen,     \* the server holds the connection open
    srvSize,     \* the size the server has set (-1: none yet)
    got,         \* keystrokes written to the PTY
    shellRead    \* keystrokes the shell has read

userVars == <<typed, ctrlQ, stdin, window>>
sendVars == <<queue, sendPc, hold>>
srvVars  == <<srvOpen, srvSize, got, shellRead>>
vars == <<client, userVars, winch, running, inPc, known, taken, sendVars, ended,
          sock, srvVars>>

NoPacket == [kind |-> "none"]
Keys(a, b) == [kind |-> "keys", from |-> a, to |-> b]
Size(w) == [kind |-> "size", size |-> w]
Eot == [kind |-> "eot"]

Packet == [kind : {"keys"}, from : Nat, to : Nat]
          \cup [kind : {"size"}, size : Nat] \cup {Eot}

Init ==
    /\ client \in Clients
    /\ typed = 0 /\ ctrlQ = FALSE /\ stdin = "open"
    /\ window = 0 /\ winch = FALSE
    /\ running = TRUE /\ inPc = "hello" /\ known = 0 /\ taken = 0
    /\ queue = <<>> /\ sendPc = "off" /\ hold = NoPacket
    /\ ended = FALSE /\ sock = <<>>
    /\ srvOpen = TRUE /\ srvSize = -1 /\ got = 0 /\ shellRead = 0

Live == ~ended

-----------------------------------------------------------------------------
(* The user, and signals *)

Type ==
    /\ typed < MaxKeys /\ ~ctrlQ /\ stdin = "open"
    /\ typed' = typed + 1
    /\ UNCHANGED <<client, ctrlQ, stdin, window, winch, running, inPc, known, taken,
                   sendVars, ended, sock, srvVars>>

TypeCtrlQ ==
    /\ client = "rust" /\ ~ctrlQ /\ stdin = "open"
    /\ ctrlQ' = TRUE
    /\ UNCHANGED <<client, typed, stdin, window, winch, running, inPc, known, taken,
                   sendVars, ended, sock, srvVars>>

CloseStdin(how) ==
    /\ stdin = "open" /\ ~ctrlQ
    /\ stdin' = how
    /\ UNCHANGED <<client, typed, ctrlQ, window, winch, running, inPc, known, taken,
                   sendVars, ended, sock, srvVars>>

\* The kernel sends SIGWINCH; only the C and C++ clients handle it.
ResizeWindow ==
    /\ window < MaxWindow
    /\ window' = window + 1
    /\ winch' = (client = "poll" \/ winch)
    /\ UNCHANGED <<client, typed, ctrlQ, stdin, running, inPc, known, taken,
                   sendVars, ended, sock, srvVars>>

\* SIGINT or SIGTERM
Signal ==
    /\ client = "poll" /\ Live
    /\ running' = FALSE
    /\ UNCHANGED <<client, userVars, winch, inPc, known, taken, sendVars, ended,
                   sock, srvVars>>

-----------------------------------------------------------------------------
(* The handshake, in all clients: the size is read, then sent.                *)

HelloSize ==
    /\ Live /\ inPc = "hello"
    /\ known' = window
    /\ inPc' = "greet"
    /\ UNCHANGED <<client, userVars, winch, running, taken, sendVars, ended, sock, srvVars>>

\* Faulty variant: the handlers are installed after the handshake.
HelloSendLate ==
    /\ Live /\ inPc = "greet"
    /\ sock' = Append(sock, Size(known))
    /\ winch' = FALSE
    /\ inPc' = IF client = "rust" THEN "spawn" ELSE "top"
    /\ UNCHANGED <<client, userVars, running, known, taken, sendVars, ended, srvVars>>

HelloSend ==
    /\ Live /\ inPc = "greet"
    /\ sock' = Append(sock, Size(known))
    /\ inPc' = IF client = "rust" THEN "spawn" ELSE "top"
    /\ UNCHANGED <<client, userVars, winch, running, known, taken, sendVars, ended, srvVars>>

-----------------------------------------------------------------------------
(* The Rust client: stdin thread, sender thread, receiver.                    *)

\* The stdin thread reads the size anew.
SpawnThreads ==
    /\ Live /\ client = "rust" /\ inPc = "spawn"
    /\ known' = window
    /\ inPc' = "top" /\ sendPc' = "top"
    /\ UNCHANGED <<client, userVars, winch, running, taken, queue, hold, ended, sock, srvVars>>

StdinTop(queued) ==
    /\ Live /\ client = "rust" /\ inPc = "top"
    /\ IF running
       THEN /\ inPc' = "read"
            /\ known' = window
            /\ queue' = IF known = window THEN queue ELSE queued
       ELSE inPc' = "done" /\ UNCHANGED <<known, queue>>
    /\ UNCHANGED <<client, userVars, winch, running, taken, sendPc, hold, ended, sock, srvVars>>

\* Faulty variant: sizes overtake what is queued.
StdinSizeUrgent == StdinTop(<<Size(window)>> \o queue)

\* The loop's test, and the comparison with last_size.
StdinSize == StdinTop(Append(queue, Size(window)))

StdinRead(n) ==
    /\ Live /\ client = "rust" /\ inPc = "read"
    /\ taken + n <= typed
    /\ queue' = Append(queue, Keys(taken, taken + n))
    /\ taken' = taken + n
    /\ inPc' = "top"
    /\ UNCHANGED <<client, userVars, winch, running, known, sendPc, hold, ended, sock, srvVars>>

\* Ctrl+Q somewhere in what was read: all of it is dropped.
StdinQuit ==
    /\ Live /\ client = "rust" /\ inPc = "read" /\ ctrlQ
    /\ running' = FALSE
    /\ inPc' = "done"
    /\ UNCHANGED <<client, userVars, winch, known, taken, sendVars, ended, sock, srvVars>>

StdinEof ==
    /\ Live /\ client = "rust" /\ inPc = "read"
    /\ stdin = "eof" /\ taken = typed
    /\ running' = FALSE
    /\ inPc' = "done"
    /\ UNCHANGED <<client, userVars, winch, known, taken, sendVars, ended, sock, srvVars>>

\* The thread ends and the session goes on without input.
StdinError ==
    /\ Live /\ client = "rust" /\ inPc = "read" /\ stdin = "error"
    /\ inPc' = "done"
    /\ UNCHANGED <<client, userVars, winch, running, known, taken, sendVars, ended, sock, srvVars>>

SendTop ==
    /\ Live /\ sendPc = "top"
    /\ sendPc' = IF running THEN "recv" ELSE "done"
    /\ UNCHANGED <<client, userVars, winch, running, inPc, known, taken, queue, hold,
                   ended, sock, srvVars>>

SendRecv ==
    /\ Live /\ sendPc = "recv" /\ queue # <<>>
    /\ hold' = Head(queue) /\ queue' = Tail(queue)
    /\ sendPc' = "write"
    /\ UNCHANGED <<client, userVars, winch, running, inPc, known, taken, ended, sock, srvVars>>

\* The stdin thread is gone: recv fails.
SendHangUp ==
    /\ Live /\ sendPc = "recv" /\ queue = <<>> /\ inPc = "done"
    /\ sendPc' = "done"
    /\ UNCHANGED <<client, userVars, winch, running, inPc, known, taken, queue, hold,
                   ended, sock, srvVars>>

\* Faulty variants: the thread ends after one packet; the packet stays in hand.
SendWriteOnce ==
    /\ Live /\ sendPc = "write" /\ srvOpen /\ Len(sock) < SockCap
    /\ sock' = Append(sock, hold) /\ hold' = NoPacket
    /\ sendPc' = "done"
    /\ UNCHANGED <<client, userVars, winch, running, inPc, known, taken, queue, ended, srvVars>>
SendWriteKeeps ==
    /\ Live /\ sendPc = "write" /\ srvOpen /\ Len(sock) < SockCap
    /\ sock' = Append(sock, hold)
    /\ sendPc' = "top"
    /\ UNCHANGED <<client, userVars, winch, running, inPc, known, taken, queue, hold, ended, srvVars>>

SendWrite ==
    /\ Live /\ sendPc = "write" /\ srvOpen /\ Len(sock) < SockCap
    /\ sock' = Append(sock, hold) /\ hold' = NoPacket
    /\ sendPc' = "top"
    /\ UNCHANGED <<client, userVars, winch, running, inPc, known, taken, queue, ended, srvVars>>

SendError ==
    /\ Live /\ sendPc = "write" /\ ~srvOpen
    /\ hold' = NoPacket
    /\ sendPc' = "done"
    /\ UNCHANGED <<client, userVars, winch, running, inPc, known, taken, queue, ended, sock, srvVars>>

\* Faulty variant: the receiver waits for a packet without a timeout.
ReceiverLeavesBlocked ==
    /\ Live /\ client = "rust" /\ sendPc # "off"
    /\ ~srvOpen
    /\ ended' = TRUE /\ running' = FALSE
    /\ UNCHANGED <<client, userVars, winch, inPc, known, taken, sendVars, sock, srvVars>>

\* The receiver wakes at least every 500 ms.  When it leaves, the process ends.
ReceiverLeaves ==
    /\ Live /\ client = "rust" /\ sendPc # "off"
    /\ ~running \/ ~srvOpen
    /\ ended' = TRUE /\ running' = FALSE
    /\ UNCHANGED <<client, userVars, winch, inPc, known, taken, sendVars, sock, srvVars>>

-----------------------------------------------------------------------------
(* The C and C++ clients: one loop.                                           *)

PollTop ==
    /\ Live /\ client = "poll" /\ inPc = "top" /\ running
    /\ winch' = FALSE
    /\ inPc' = IF winch THEN "ioctl" ELSE "poll"
    /\ UNCHANGED <<client, userVars, running, known, taken, sendVars, ended, sock, srvVars>>

PollIoctl ==
    /\ Live /\ inPc = "ioctl"
    /\ hold' = Size(window)
    /\ inPc' = "write"
    /\ UNCHANGED <<client, userVars, winch, running, known, taken, queue, sendPc, ended, sock, srvVars>>

\* Faulty variant: only the first keystroke of a read is sent.
PollStdinShort(n) ==
    /\ Live /\ inPc = "poll" /\ taken + n <= typed
    /\ hold' = Keys(taken, taken + 1)
    /\ taken' = taken + n
    /\ inPc' = "write"
    /\ UNCHANGED <<client, userVars, winch, running, known, queue, sendPc, ended, sock, srvVars>>

PollStdin(n) ==
    /\ Live /\ inPc = "poll" /\ taken + n <= typed
    /\ hold' = Keys(taken, taken + n)
    /\ taken' = taken + n
    /\ inPc' = "write"
    /\ UNCHANGED <<client, userVars, winch, running, known, queue, sendPc, ended, sock, srvVars>>

\* End of input is passed on as Ctrl+D, once.
PollEof ==
    /\ Live /\ inPc = "poll" /\ taken = typed
    /\ stdin = "eof" /\ sendPc = "off"
    /\ hold' = Eot
    /\ sendPc' = "eof"
    /\ inPc' = "write"
    /\ UNCHANGED <<client, userVars, winch, running, known, taken, queue, ended, sock, srvVars>>

PollIdle ==
    /\ Live /\ inPc = "poll" /\ taken = typed
    /\ stdin = "eof" => sendPc = "eof"
    /\ inPc' = "top"
    /\ UNCHANGED <<client, userVars, winch, running, known, taken, sendVars, ended, sock, srvVars>>

\* write_all retries when a signal interrupts it.
PollWrite ==
    /\ Live /\ inPc = "write" /\ srvOpen /\ Len(sock) < SockCap
    /\ sock' = Append(sock, hold) /\ hold' = NoPacket
    /\ inPc' = IF hold.kind = "size" THEN "poll" ELSE "top"
    /\ UNCHANGED <<client, userVars, winch, running, known, taken, queue, sendPc, ended, srvVars>>

\* Only a failure to send input is noticed; the next read notices the others.
PollWriteError ==
    /\ Live /\ inPc = "write" /\ ~srvOpen
    /\ hold' = NoPacket
    /\ ended' = (hold.kind = "keys")
    /\ inPc' = IF hold.kind = "size" THEN "poll" ELSE "top"
    /\ UNCHANGED <<client, userVars, winch, running, known, taken, queue, sendPc, sock, srvVars>>

\* g_running is clear, or the server has closed the connection.
PollLeaves ==
    /\ Live /\ client = "poll"
    /\ \/ inPc = "top" /\ ~running
       \/ inPc = "poll" /\ ~srvOpen
    /\ ended' = TRUE
    /\ UNCHANGED <<client, userVars, winch, running, inPc, known, taken, sendVars, sock, srvVars>>

-----------------------------------------------------------------------------
(* The server's input loop and the shell.                                     *)

SrvSize ==
    /\ srvOpen /\ sock # <<>> /\ Head(sock).kind = "size"
    /\ srvSize' = Head(sock).size
    /\ sock' = Tail(sock)
    /\ UNCHANGED <<client, userVars, winch, running, inPc, known, taken, sendVars, ended,
                   srvOpen, got, shellRead>>

\* pty_writer.write_all waits until the PTY has taken everything.
SrvKeys ==
    /\ srvOpen /\ sock # <<>> /\ Head(sock).kind = "keys"
    /\ got - shellRead < PtyCap
    /\ got' = Head(sock).to
    /\ sock' = Tail(sock)
    /\ UNCHANGED <<client, userVars, winch, running, inPc, known, taken, sendVars, ended,
                   srvOpen, srvSize, shellRead>>

SrvEot ==
    /\ srvOpen /\ sock # <<>> /\ Head(sock).kind = "eot"
    /\ got - shellRead < PtyCap
    /\ sock' = Tail(sock)
    /\ UNCHANGED <<client, userVars, winch, running, inPc, known, taken, sendVars, ended, srvVars>>

\* The shell exits (see ServerSession), or the client's end is noticed.
SrvCloses ==
    /\ srvOpen
    /\ srvOpen' = FALSE
    /\ UNCHANGED <<client, userVars, winch, running, inPc, known, taken, sendVars, ended,
                   sock, srvSize, got, shellRead>>

ShellReads ==
    /\ shellRead < got
    /\ shellRead' = got
    /\ UNCHANGED <<client, userVars, winch, running, inPc, known, taken, sendVars, ended,
                   sock, srvOpen, srvSize, got>>

-----------------------------------------------------------------------------
User == Type \/ TypeCtrlQ \/ ResizeWindow \/ Signal
        \/ \E how \in {"eof", "error"} : CloseStdin(how)
Hello == HelloSize \/ HelloSend \/ SpawnThreads
Stdin == \/ StdinSize \/ StdinQuit \/ StdinEof \/ StdinError
         \/ \E n \in 1 .. MaxKeys : StdinRead(n)
Sender == SendTop \/ SendRecv \/ SendHangUp \/ SendWrite \/ SendError
PollLoop == \/ PollTop \/ PollIoctl \/ PollEof \/ PollIdle \/ PollWrite
            \/ PollWriteError \/ PollLeaves
            \/ \E n \in 1 .. MaxKeys : PollStdin(n)
Server == SrvSize \/ SrvKeys \/ SrvEot

Next == User \/ Hello \/ Stdin \/ Sender \/ ReceiverLeaves \/ PollLoop
        \/ Server \/ SrvCloses \/ ShellReads

Spec == Init /\ [][Next]_vars

(* Every thread runs, and the server handles what it receives.  The user need    *)
(* not do anything, the server need not close, and the shell need not read: the  *)
(* application in it may never look at its input.                                *)
FairSpec ==
    /\ Spec
    /\ WF_vars(Hello) /\ WF_vars(Stdin) /\ WF_vars(Sender) /\ WF_vars(ReceiverLeaves)
    /\ WF_vars(PollLoop) /\ WF_vars(Server)

-----------------------------------------------------------------------------
Writing == IF client = "rust" THEN sendPc = "write" ELSE inPc = "write"

\* Every variable keeps its type, and a packet is in hand exactly while it is
\* being written.
TypeOK ==
    /\ client \in Clients
    /\ typed \in 0 .. MaxKeys /\ taken \in 0 .. typed
    /\ got \in 0 .. taken /\ shellRead \in 0 .. got
    /\ window \in 0 .. MaxWindow /\ known \in 0 .. window /\ srvSize \in -1 .. window
    /\ stdin \in {"open", "eof", "error"}
    /\ {ctrlQ, winch, running, ended, srvOpen} \subseteq BOOLEAN
    /\ inPc \in {"hello", "greet", "spawn", "top", "read", "ioctl", "poll", "write", "done"}
    /\ sendPc \in {"off", "top", "recv", "write", "eof", "done"}
    /\ hold \in Packet \cup {NoPacket}
    /\ hold = NoPacket <=> ~Writing
    /\ queue \in Seq(Packet) /\ sock \in Seq(Packet)

\* Everything between the keyboard and the PTY, oldest first.
Pipeline == sock \o (IF hold = NoPacket THEN <<>> ELSE <<hold>>) \o queue

IsKeys(p) == p.kind = "keys"

\* The keystrokes of s before packet i end at n; with none, they end at lo.
EndsAt(s, i, lo, n) ==
    \/ /\ n = lo
       /\ \A j \in 1 .. i - 1 : ~IsKeys(s[j])
    \/ \E j \in 1 .. i - 1 :
          /\ IsKeys(s[j]) /\ n = s[j].to
          /\ \A k \in j + 1 .. i - 1 : ~IsKeys(s[k])

\* The keystrokes of s, which start at lo, have neither gaps nor repetitions.
Gapless(s, lo) ==
    \A i \in 1 .. Len(s) :
        IsKeys(s[i]) => EndsAt(s, i, lo, s[i].from) /\ s[i].from < s[i].to

\* No keystroke that was read is lost, repeated or overtaken on its way through
\* the threads, the channel and the socket: what is under way continues what the
\* PTY has got, without a gap, up to the last keystroke read.
KeysInOrder ==
    Live /\ srvOpen =>
        /\ Gapless(Pipeline, got)
        /\ \/ EndsAt(Pipeline, Len(Pipeline) + 1, got, taken)
           \/ client = "rust" /\ sendPc = "done"

\* An old window size never replaces a newer one at the server.
SizesAdvance == [][srvSize <= srvSize']_srvSize

Over == ended \/ ~srvOpen

\* The application keeps reading its input, however slowly.
ShellKeepsReading == WF_vars(ShellReads)

\* As long as the shell keeps reading, whatever is typed reaches the PTY, unless the session ends, the keyboard
\* fails, or the Rust client is told to quit (Ctrl+Q or end of input), which
\* drops what it has not sent.
InputReachesShell ==
    ShellKeepsReading =>
        \A k \in 1 .. MaxKeys :
            typed >= k ~>
                \/ got >= k
                \/ Over \/ ~running \/ stdin = "error"
                \/ client = "rust" /\ (ctrlQ \/ stdin = "eof")

\* The Rust client compares sizes only when its stdin thread gets round, that is
\* after the next keystroke.
NextKeyTyped == client = "rust" /\ inPc \in {"top", "read"} /\ taken < typed

\* As long as the shell keeps reading, a new window size reaches the server, also
\* when it changes during the handshake or while an earlier change is being
\* handled: at once from the C and C++ clients, with the next keystroke from the
\* Rust client, unless its stdin thread has taken that size for the one the
\* handshake sent.
SizeReachesServer ==
    ShellKeepsReading =>
        \A w \in 1 .. MaxWindow :
            (window >= w /\ (client = "poll" \/ (NextKeyTyped /\ known < w))) ~>
                \/ srvSize >= w \/ Over
                \/ client = "rust" /\ (~running \/ ctrlQ \/ stdin # "open")

\* The single thread of a C or C++ client is inside write_all, with the sockets
\* full and the server waiting for a shell that does not read.
WriteBlocked ==
    client = "poll" /\ inPc = "write" /\ srvOpen /\ Len(sock) = SockCap

\* A client that is told to stop leaves its session, whether or not the shell
\* reads its input.  The Rust client always does: its receiver does not wait for
\* the sender.  A C or C++ client does unless it is inside write_all for ever,
\* which takes the signal for an interrupted write and goes on.
StopEnds == ~running ~> (ended \/ []WriteBlocked)
=============================================================================
