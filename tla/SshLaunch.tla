------------------------------ MODULE SshLaunch ------------------------------
(***************************************************************************)
(* How a client starts and stops its two ssh child processes: the launcher,  *)
(* which runs the server on the remote host and prints the line              *)
(* "MOSH-TCP CONNECT port key pid", and the tunnel, which forwards a local   *)
(* port to it.  The three clients take the same steps but own the children   *)
(* differently: the C client registers each child with atexit as it is       *)
(* forked, the C++ client hands both to an SshTunnel object once the second  *)
(* is forked, the Rust client does so once it is connected.                  *)
(*                                                                         *)
(* On the remote host run_server listens, announces itself, accepts one       *)
(* connection, serves it and exits.  Another program there may connect first  *)
(* (a stray), and one on the local host may take the port that the client     *)
(* found free before the tunnel binds it (a stranger).                        *)
(*                                                                         *)
(* ssh, these programs and the kernel are external: a child may exit at any   *)
(* time, and connecting to the forwarded port may fail.  The remote command   *)
(* runs without a terminal, so the end of ssh does not signal it.  Direct     *)
(* connections (--connect) start no child and are left out.                   *)
(***************************************************************************)
EXTENDS Integers, FiniteSets

CONSTANTS
    Clients,       \* which clients to consider
    MaxAttempts,   \* connection attempts before giving up (150, or 15 s)
    MaySignal,     \* whether signals may arrive
    Rates          \* values of --fps to consider

ASSUME LaunchAssumption ==
    /\ Clients \subseteq {"rust", "c", "cpp"}
    /\ MaxAttempts \in Nat \ {0} /\ MaySignal \in BOOLEAN
    /\ Rates \subseteq Nat

Children == {"launcher", "tunnel"}

VARIABLES
    client,     \* which client this is
    pc,         \* where its main thread is
    proc,       \* the state of each child process
    owned,      \* the children that will be stopped on the way out
    announced,  \* the CONNECT line is in the launcher's pipe
    port,       \* the remote port the tunnel is to lead to
    attempts,   \* connection attempts made
    raw,        \* the terminal is in raw mode
    handlers,   \* handlers for SIGINT and SIGTERM are installed
    listener,   \* who listens on the local port the client found free
    fps,        \* frames per second the server was started with
    server,     \* where run_server is
    backlog,    \* connections made to the server and not accepted yet
    holder,     \* the connection the server serves
    stray,      \* the other program's connection to the server
    reached,    \* history: the client's connection has reached the server
    served,     \* history: the client has had a session
    killed,     \* history: the client was killed by a signal
    strays      \* history: children signalled after they were reaped

local  == <<pc, proc, owned, port, attempts, raw, handlers, served, killed, strays>>
remote == <<server, backlog, holder, stray>>
vars   == <<client, fps, announced, listener, reached, local, remote>>

Init ==
    /\ client \in Clients /\ fps \in Rates
    /\ pc = "start"
    /\ proc = [c \in Children |-> "none"]
    /\ owned = {}
    /\ announced = FALSE /\ port = "none" /\ attempts = 0
    /\ raw = FALSE /\ handlers = FALSE
    /\ served = FALSE /\ killed = FALSE /\ strays = {}
    /\ listener = "none" /\ reached = FALSE
    /\ server = "none" /\ backlog = {} /\ holder = "nobody" /\ stray = "none"

\* What the main thread's steps leave to others.
Calm == UNCHANGED <<client, fps, announced, killed, listener, reached, remote>>

\* run_server has bound its port and not exited.
Up == server \in {"listening", "serving", "stuck"}

\* The far end of a connection to the server is still open.
Open(c) ==
    IF c = "client" THEN pc = "session" /\ proc["tunnel"] = "running"
    ELSE stray = "here"

-----------------------------------------------------------------------------
(* ssh and the remote host *)

\* run_server listens, on a port of the system's choice if it has to, and prints
\* the line.  (Without a launcher there is no pipe, and println! panics.)
Announce ==
    /\ proc["launcher"] = "running" /\ ~announced
    /\ announced' = TRUE
    /\ server' = "listening"
    /\ UNCHANGED <<client, fps, local, listener, reached, backlog, holder, stray>>

ChildExits(c) ==
    /\ proc[c] \in {"running", "dying"}
    /\ proc' = [proc EXCEPT ![c] = "zombie"]
    /\ UNCHANGED <<client, fps, pc, owned, announced, port, attempts, raw, handlers,
                   served, killed, strays, listener, reached, remote>>

\* The tunnel binds the local port, unless it is taken: then ssh exits, by
\* ExitOnForwardFailure.
TunnelListens ==
    /\ proc["tunnel"] = "running" /\ listener = "none"
    /\ listener' = "tunnel"
    /\ UNCHANGED <<client, fps, announced, reached, local, remote>>

StrangerListens ==
    /\ pc \in {"poll", "dial"} /\ listener = "none"
    /\ listener' = "stranger"
    /\ UNCHANGED <<client, fps, announced, reached, local, remote>>

StrayConnects ==
    /\ Up /\ stray = "none"
    /\ stray' = "here" /\ backlog' = backlog \cup {"stray"}
    /\ UNCHANGED <<client, fps, announced, listener, reached, local, server, holder>>

StrayLeaves ==
    /\ stray = "here"
    /\ stray' = "left"
    /\ UNCHANGED <<client, fps, announced, listener, reached, local, server, backlog, holder>>

-----------------------------------------------------------------------------
(* run_server *)

Accept(c) ==
    /\ server = "listening" /\ c \in backlog /\ fps # 0
    /\ server' = "serving" /\ holder' = c /\ backlog' = backlog \ {c}
    /\ UNCHANGED <<client, fps, announced, listener, reached, local, stray>>

\* frame_ms = 1000 / fps panics.
AcceptPanics ==
    /\ server = "listening" /\ backlog # {} /\ fps = 0
    /\ server' = "done" /\ backlog' = {}
    /\ UNCHANGED <<client, fps, announced, listener, reached, local, holder, stray>>

\* interval(0 ms) panics in the send task, and select! ends the session.
NoInterval == fps # 0 /\ 1000 \div fps = 0

\* An error of accept ends the loop as well.  The connections nobody accepted
\* are reset with the listener.
AcceptFails ==
    /\ server = "listening"
    /\ server' = "done" /\ backlog' = {}
    /\ UNCHANGED <<client, fps, announced, listener, reached, local, holder, stray>>

\* Input is written to a PTY that is full: handle_client is inside write_all until
\* the shell reads or the write fails (see ServerSession).
ServeBlocks ==
    /\ server = "serving"
    /\ server' = "stuck"
    /\ UNCHANGED <<client, fps, announced, listener, reached, local, backlog, holder, stray>>

ServeResumes ==
    /\ server = "stuck"
    /\ server' = "serving"
    /\ UNCHANGED <<client, fps, announced, listener, reached, local, backlog, holder, stray>>

\* Faulty variant: no break after the session.
ServeEndsLoops ==
    /\ server = "serving"
    /\ server' = "listening" /\ holder' = "nobody"
    /\ UNCHANGED <<client, fps, announced, listener, reached, local, backlog, stray>>

\* handle_client returns: the shell has exited or the connection is closed (see
\* ServerSession).  It may be at once: eprintln! panics when the launcher is gone.
ServeEnds ==
    /\ server = "serving"
    /\ server' = "done" /\ holder' = "nobody" /\ backlog' = {}
    /\ UNCHANGED <<client, fps, announced, listener, reached, local, stray>>

-----------------------------------------------------------------------------
(* Step 1: the launcher *)

Fork(c) == proc' = [proc EXCEPT ![c] = "running"]

StartLauncher ==
    /\ pc = "start"
    /\ Fork("launcher")
    /\ owned' = IF client = "c" THEN {"launcher"} ELSE {}
    /\ pc' = "reading"
    /\ Calm /\ UNCHANGED <<port, attempts, raw, handlers, served, strays>>

\* No pipe, or no process: the C and C++ clients go on without the process, and
\* read an empty pipe.
LauncherFails ==
    /\ pc = "start"
    /\ pc' \in {"exit"} \cup (IF client = "rust" THEN {} ELSE {"reading"})
    /\ Calm /\ UNCHANGED <<proc, owned, port, attempts, raw, handlers, served, strays>>

ReadLine ==
    /\ pc = "reading" /\ announced
    /\ port' = "announced"
    /\ pc' = "fork"
    /\ Calm /\ UNCHANGED <<proc, owned, attempts, raw, handlers, served, strays>>

\* The pipe ends without the line: the port given, or 4000.
ReadEof ==
    /\ pc = "reading" /\ ~announced
    /\ proc["launcher"] # "running"
    /\ port' = "assumed"
    /\ pc' = "fork"
    /\ Calm /\ UNCHANGED <<proc, owned, attempts, raw, handlers, served, strays>>

-----------------------------------------------------------------------------
(* Step 2: the tunnel *)

StartTunnel ==
    /\ pc = "fork"
    /\ Fork("tunnel")
    /\ owned' = CASE client = "c" -> owned \cup {"tunnel"}
                  [] client = "cpp" -> {c \in Children : proc[c] # "none"} \cup {"tunnel"}
                  [] OTHER -> owned
    /\ pc' = "poll"
    /\ Calm /\ UNCHANGED <<port, attempts, raw, handlers, served, strays>>

\* No local port (Rust) or no process.
TunnelFails ==
    /\ pc = "fork"
    /\ pc' = "exit"
    /\ Calm /\ UNCHANGED <<proc, owned, port, attempts, raw, handlers, served, strays>>

\* try_wait or waitpid(WNOHANG) reaps a tunnel that has exited.
TunnelGone ==
    /\ pc = "poll" /\ proc["tunnel"] = "zombie"
    /\ proc' = [proc EXCEPT !["tunnel"] = "reaped"]
    /\ pc' = "exit"
    /\ Calm /\ UNCHANGED <<owned, port, attempts, raw, handlers, served, strays>>

TunnelAlive ==
    /\ pc = "poll" /\ proc["tunnel"] = "running"
    /\ pc' = "dial"
    /\ Calm /\ UNCHANGED <<proc, owned, port, attempts, raw, handlers, served, strays>>

\* Faulty variants: the attempts are not counted, or not limited.
DialFailsUncounted ==
    /\ pc = "dial" /\ attempts + 1 < MaxAttempts
    /\ pc' = "poll"
    /\ Calm /\ UNCHANGED <<attempts, proc, owned, port, raw, handlers, served, strays>>
DialFailsUnlimited ==
    /\ pc = "dial"
    /\ attempts' = attempts + 1
    /\ pc' = "poll"
    /\ Calm /\ UNCHANGED <<proc, owned, port, raw, handlers, served, strays>>

DialFails ==
    /\ pc = "dial" /\ attempts + 1 < MaxAttempts
    /\ attempts' = attempts + 1
    /\ pc' = "poll"
    /\ Calm /\ UNCHANGED <<proc, owned, port, raw, handlers, served, strays>>

\* The last attempt fails.  The Rust client kills the tunnel here, and does not
\* wait for it.
GiveUp ==
    /\ pc = "dial" /\ attempts + 1 = MaxAttempts
    /\ attempts' = MaxAttempts
    /\ proc' = IF client = "rust" /\ proc["tunnel"] = "running"
               THEN [proc EXCEPT !["tunnel"] = "dying"] ELSE proc
    /\ pc' = "exit"
    /\ Calm /\ UNCHANGED <<owned, port, raw, handlers, served, strays>>

\* ssh takes the connection, and passes it on if there is a server.
Forwarded ==
    listener = "tunnel" /\ port = "announced" /\ Up

\* The terminal goes raw, and the C and C++ clients install their handlers.
StartSession(children) ==
    /\ pc = "dial"
    /\ listener # "none" /\ (listener = "tunnel" => proc["tunnel"] = "running")
    /\ reached' = Forwarded
    /\ backlog' = IF Forwarded THEN backlog \cup {"client"} ELSE backlog
    /\ owned' = IF client = "rust" THEN children ELSE owned
    /\ raw' = TRUE /\ handlers' = (client # "rust")
    /\ served' = TRUE
    /\ pc' = "session"
    /\ UNCHANGED <<client, fps, announced, killed, listener, server, holder, stray,
                   proc, port, attempts, strays>>

\* Faulty variant: SshTunnel keeps only the tunnel.
ConnectForgets == StartSession({"tunnel"})
Connect == StartSession(Children)

-----------------------------------------------------------------------------
(* The way out *)

\* Faulty variant: the guards of the Rust and C++ clients outlive the SshTunnel
\* object, or are forgotten.
SessionEndsUnguarded ==
    /\ pc = "session"
    /\ pc' = "exit"
    /\ Calm /\ UNCHANGED <<raw, proc, owned, port, attempts, handlers, served, strays>>

\* The connection ends or the user quits (see ClientSession).  RawModeGuard is
\* dropped, or TerminalGuard restored, before the children are stopped.
SessionEnds ==
    /\ pc = "session"
    /\ pc' = "exit"
    /\ raw' = (client = "c")
    /\ Calm /\ UNCHANGED <<proc, owned, port, attempts, handlers, served, strays>>

\* The C client restores the terminal here, after its children.
Finish ==
    /\ pc = "exit" /\ owned = {}
    /\ pc' = "gone"
    /\ raw' = (raw /\ client # "c")
    /\ Calm /\ UNCHANGED <<proc, owned, port, attempts, handlers, served, strays>>

\* The tunnel is stopped first.
Turn(c) == c \in owned /\ (c = "launcher" => "tunnel" \notin owned)

\* kill(pid, SIGTERM)
Stop(c) ==
    /\ pc = "exit" /\ Turn(c)
    /\ proc' = IF proc[c] = "running" THEN [proc EXCEPT ![c] = "dying"] ELSE proc
    /\ strays' = IF proc[c] = "reaped" THEN strays \cup {c} ELSE strays
    /\ pc' = "wait"
    /\ Calm /\ UNCHANGED <<owned, port, attempts, raw, handlers, served>>

\* Faulty variant: the process id is not set to -1.
ReapKeeps(c) ==
    /\ pc = "wait" /\ Turn(c)
    /\ proc[c] \in {"zombie", "reaped"}
    /\ proc' = [proc EXCEPT ![c] = "reaped"]
    /\ pc' = "exit"
    /\ Calm /\ UNCHANGED <<owned, port, attempts, raw, handlers, served, strays>>

\* waitpid(pid, NULL, 0)
Reap(c) ==
    /\ pc = "wait" /\ Turn(c)
    /\ proc[c] \in {"zombie", "reaped"}
    /\ proc' = [proc EXCEPT ![c] = "reaped"]
    /\ owned' = owned \ {c}
    /\ pc' = "exit"
    /\ Calm /\ UNCHANGED <<port, attempts, raw, handlers, served, strays>>

\* The handlers are installed without SA_RESTART: a second signal interrupts
\* waitpid, and the child is given up without having been reaped.
WaitInterrupted(c) ==
    /\ MaySignal /\ handlers
    /\ pc = "wait" /\ Turn(c)
    /\ owned' = owned \ {c}
    /\ pc' = "exit"
    /\ Calm /\ UNCHANGED <<proc, port, attempts, raw, handlers, served, strays>>

\* A signal ends the client on the spot: SIGINT or SIGTERM before the handlers are
\* installed and in the Rust client, others (SIGHUP, SIGQUIT, SIGPIPE) always.
SignalKills ==
    /\ MaySignal /\ pc # "gone"
    /\ killed' = TRUE
    /\ pc' = "gone"
    /\ UNCHANGED <<client, fps, proc, owned, announced, port, attempts, raw, handlers,
                   served, strays, listener, reached, remote>>

\* With a handler, g_running ends the session's loop.
SignalEnds == MaySignal /\ handlers /\ SessionEnds

-----------------------------------------------------------------------------
Main ==
    \/ StartLauncher \/ LauncherFails \/ ReadLine \/ ReadEof
    \/ StartTunnel \/ TunnelFails \/ TunnelGone \/ TunnelAlive
    \/ DialFails \/ GiveUp \/ Connect
    \/ Finish \/ \E c \in Children : Stop(c) \/ Reap(c)

Others ==
    \/ \E c \in Children : ChildExits(c)
    \/ TunnelListens \/ StrangerListens \/ StrayConnects \/ StrayLeaves

Server ==
    \/ Announce \/ AcceptPanics \/ AcceptFails \/ ServeBlocks \/ ServeResumes \/ ServeEnds
    \/ \E c \in {"client", "stray"} : Accept(c)

Signals == SignalKills \/ SignalEnds \/ \E c \in Children : WaitInterrupted(c)

Next == Main \/ Others \/ Server \/ SessionEnds \/ Signals

Spec == Init /\ [][Next]_vars

(* The main thread runs; a child that got SIGTERM exits; the server accepts,    *)
(* and ends a session whose connection is closed.  That is strong fairness:     *)
(* only so many packets are left in a closed connection, so handle_client       *)
(* cannot be in and out of write_all for ever without seeing the end.  Nobody   *)
(* makes the launcher print its line or exit, nor the shell read its input;     *)
(* sessions may last for ever, and strays may stay.                             *)
FairSpec ==
    /\ Spec
    /\ WF_vars(Main)
    /\ WF_vars(AcceptPanics \/ \E c \in {"client", "stray"} : Accept(c))
    /\ SF_vars((~Open(holder) \/ NoInterval) /\ ServeEnds)
    /\ \A c \in Children : WF_vars(proc[c] = "dying" /\ ChildExits(c))

-----------------------------------------------------------------------------
\* Every variable keeps its type; the attempts stay within their limit.
TypeOK ==
    /\ client \in Clients /\ fps \in Rates
    /\ pc \in {"start", "reading", "fork", "poll", "dial", "session", "exit",
               "wait", "gone"}
    /\ proc \in [Children -> {"none", "running", "dying", "zombie", "reaped"}]
    /\ owned \subseteq Children /\ strays \subseteq Children
    /\ announced \in BOOLEAN /\ port \in {"none", "announced", "assumed"}
    /\ attempts \in 0 .. MaxAttempts
    /\ raw \in BOOLEAN /\ handlers \in BOOLEAN
    /\ served \in BOOLEAN /\ killed \in BOOLEAN
    /\ listener \in {"none", "tunnel", "stranger"} /\ reached \in BOOLEAN
    /\ server \in {"none", "listening", "serving", "stuck", "done"}
    /\ backlog \subseteq {"client", "stray"} /\ holder \in {"nobody", "client", "stray"}
    /\ stray \in {"none", "here", "left"}

Orphans == {c \in Children : pc = "gone" /\ proc[c] = "running"}

\* A client leaves an ssh process behind only if a signal without a handler ended
\* it, or (Rust) it never connected, or (C++) the second fork failed: a client
\* that has had a session stops both of its children on the way out.
OrphansExplained ==
    Orphans # {} =>
        \/ killed
        \/ client = "rust" /\ ~served
        \/ client = "cpp" /\ proc["tunnel"] = "none"

\* Only a C or C++ client whose tunnel died before the connection signals a
\* process id that it has already given back to the system.
StraysExplained ==
    strays # {} => client # "rust" /\ ~served /\ strays = {"tunnel"}

\* The terminal is raw in a session only.  The Rust and C++ clients have it back
\* before they wait for their children; the C client keeps it raw until the last
\* of them is gone, and then hands it back as well.  A client that is killed
\* leaves it as it is.
TerminalRestored ==
    raw => \/ pc = "session"
           \/ client = "c" /\ pc \in {"exit", "wait"}
           \/ killed

\* The client reads from a launcher that neither prints its line nor exits.
LauncherSilent == pc = "reading" /\ proc["launcher"] = "running" /\ ~announced

\* Every launch comes to a session or to an end, however the tunnel, the server
\* and other programs behave, unless the launcher is silent for ever: the wait
\* for the CONNECT line has no timeout.
LaunchDecides == <>(served \/ pc = "gone") \/ <>[]LauncherSilent

\* A server that a client has reached ends once the client is gone, in whatever
\* order the client, a stray and the end of the client come in.  Two things keep
\* it: a stray that it serves and that stays, because run_server accepts one
\* connection and handle_client has no time limit for the handshake; and a write
\* to the PTY of a shell that does not read.  With a frame rate it cannot run at
\* (0, or more than 1000) it ends whoever connects.
ServerEnds ==
    /\ reached /\ pc = "gone" ~>
          \/ server = "done"
          \/ holder = "stray" /\ stray = "here"
          \/ [](server = "stuck")
    /\ reached /\ (fps = 0 \/ NoInterval) ~> server = "done" \/ [](server = "stuck")
=============================================================================
