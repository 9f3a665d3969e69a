--------------------------- MODULE SshLaunchProofs ---------------------------
(***************************************************************************)
(* Proofs about SshLaunch: what a client leaves behind on its way out, for   *)
(* every client, number of connection attempts and frame rate, whatever ssh,  *)
(* the server, other programs and signals do.                                *)
(***************************************************************************)
EXTENDS SshLaunch, TLAPS

Launching == {"start", "reading", "fork", "poll", "dial"}

(* Before the session nothing has been signalled, and a child is reaped only   *)
(* on the way out, or when the tunnel is found dead, which leads there.        *)
EarlyInv ==
    /\ pc \in Launching => ~served /\ strays = {}
    /\ pc \in Launching \cup {"session"} => \A c \in Children : proc[c] # "reaped"
    /\ pc \in {"start", "reading", "fork"} => proc["tunnel"] = "none"

(* A child that was reaped is not owned any more, except the tunnel that a C   *)
(* or C++ client found dead before it connected.                              *)
ReapedInv ==
    /\ client = "rust" /\ owned # {} => served
    /\ "launcher" \in owned => proc["launcher"] # "reaped"
    /\ served /\ "tunnel" \in owned => proc["tunnel"] # "reaped"

(* Whoever runs is owned, but for the two ways of launching that give a child  *)
(* to nobody; a client that ends by itself has stopped all that it owns.       *)
OwnedInv ==
    /\ \A c \in Children : proc[c] = "running" =>
          \/ c \in owned
          \/ client = "rust" /\ ~served
          \/ client = "cpp" /\ proc["tunnel"] = "none"
    /\ pc = "gone" => killed \/ owned = {}

(* The child that is waited for has been signalled.                           *)
WaitInv == pc = "wait" => \A c \in Children : Turn(c) => proc[c] # "running"

LaunchInv ==
    /\ TypeOK /\ EarlyInv /\ ReapedInv /\ OwnedInv /\ WaitInv
    /\ StraysExplained /\ TerminalRestored

\* The flags, apart from the rest of the state.
Flags ==
    /\ announced \in BOOLEAN /\ raw \in BOOLEAN /\ handlers \in BOOLEAN
    /\ served \in BOOLEAN /\ killed \in BOOLEAN /\ reached \in BOOLEAN

\* The rest of the state: children, places and counters.
States ==
    /\ client \in Clients /\ fps \in Rates
    /\ pc \in {"start", "reading", "fork", "poll", "dial", "session", "exit",
               "wait", "gone"}
    /\ proc \in [Children -> {"none", "running", "dying", "zombie", "reaped"}]
    /\ owned \subseteq Children /\ strays \subseteq Children
    /\ port \in {"none", "announced", "assumed"}
    /\ attempts \in 0 .. MaxAttempts
    /\ listener \in {"none", "tunnel", "stranger"}
    /\ server \in {"none", "listening", "serving", "stuck", "done"}
    /\ backlog \subseteq {"client", "stray"} /\ holder \in {"nobody", "client", "stray"}
    /\ stray \in {"none", "here", "left"}

\* Nothing has been started, signalled or changed at the beginning.
LEMMA LaunchInit == Init => LaunchInv
<1> SUFFICES ASSUME Init PROVE LaunchInv
  OBVIOUS
<1>1. TypeOK
  <2>1. Flags
    BY Zenon DEF Init, Flags
  <2>2. States
    BY LaunchAssumption DEF Init, States
  <2> QED BY <2>1, <2>2 DEF TypeOK, Flags, States
<1>2. EarlyInv /\ ReapedInv /\ OwnedInv /\ WaitInv
  BY DEF Init, EarlyInv, ReapedInv, OwnedInv, WaitInv, Launching, Children
<1>3. StraysExplained /\ TerminalRestored
  BY DEF Init, StraysExplained, TerminalRestored
<1> QED BY <1>1, <1>2, <1>3 DEF LaunchInv

\* What ssh, the other programs and run_server do leaves the client's own state
\* alone, but for the state of a child.
LEMMA OthersKeep ==
    ASSUME LaunchInv, UNCHANGED <<client, pc, owned, raw, served, killed, strays>>,
           TypeOK',
           \/ proc' = proc
           \/ \E c \in Children : /\ proc[c] \in {"running", "dying"}
                                  /\ proc' = [proc EXCEPT ![c] = "zombie"]
    PROVE  LaunchInv'
<1> USE DEF LaunchInv
<1>1. \A c \in Children : /\ proc'[c] = "reaped" <=> proc[c] = "reaped"
                          /\ proc'[c] = "none" <=> proc[c] = "none"
                          /\ proc'[c] = "running" => proc[c] = "running"
  BY DEF TypeOK
<1>2. "tunnel" \in Children /\ "launcher" \in Children
  BY DEF Children
<1>3. EarlyInv'
  BY <1>1, <1>2 DEF EarlyInv
<1>4. ReapedInv'
  BY <1>1, <1>2 DEF ReapedInv
<1>5. OwnedInv'
  BY <1>1, <1>2 DEF OwnedInv
<1>6. StraysExplained' /\ TerminalRestored'
  BY DEF StraysExplained, TerminalRestored
<1>7. WaitInv'
  BY <1>1 DEF WaitInv, Turn
<1> QED BY <1>3, <1>4, <1>5, <1>6, <1>7

\* Every step gives a flag a truth value.
LEMMA FlagsStep == Flags /\ [Next]_vars => Flags'
<1> SUFFICES ASSUME Flags, [Next]_vars PROVE Flags'
  OBVIOUS
<1> USE DEF Flags, Calm, local, remote
<1>1. CASE StartLauncher \/ LauncherFails \/ ReadLine \/ ReadEof
  BY <1>1, Zenon DEF StartLauncher, LauncherFails, ReadLine, ReadEof
<1>2. CASE StartTunnel \/ TunnelFails \/ TunnelGone \/ TunnelAlive
  BY <1>2, Zenon DEF StartTunnel, TunnelFails, TunnelGone, TunnelAlive
<1>3. CASE DialFails \/ GiveUp
  BY <1>3, Zenon DEF DialFails, GiveUp
<1>4. CASE Connect
  <2>1. reached' \in BOOLEAN
    BY <1>4, Zenon DEF Connect, StartSession, Forwarded
  <2>2. handlers' \in BOOLEAN
    BY <1>4, Zenon DEF Connect, StartSession
  <2> QED BY <1>4, <2>1, <2>2, Zenon DEF Connect, StartSession
<1>5. CASE Finish \/ SessionEnds
  BY <1>5, Zenon DEF Finish, SessionEnds
<1>6. ASSUME NEW c \in Children, Stop(c) \/ Reap(c) PROVE Flags'
  BY <1>6, Zenon DEF Stop, Reap
<1>7. CASE Others
  BY <1>7, Zenon DEF Others, ChildExits, TunnelListens, StrangerListens,
                     StrayConnects, StrayLeaves
<1>8. CASE Server
  BY <1>8, Zenon DEF Server, Announce, AcceptPanics, AcceptFails, ServeBlocks,
                     ServeResumes, ServeEnds, Accept
<1>9. CASE SignalKills
  BY <1>9, Zenon DEF SignalKills
<1>11. ASSUME NEW c \in Children, WaitInterrupted(c) PROVE Flags'
  BY <1>11, Zenon DEF WaitInterrupted
<1>10. CASE UNCHANGED vars
  BY <1>10, Zenon DEF vars
<1> QED
  BY <1>1, <1>2, <1>3, <1>4, <1>5, <1>6, <1>7, <1>8, <1>9, <1>10, <1>11
  DEF Next, Main, Signals, SignalEnds

\* Every step keeps children, places and counters within their ranges.
LEMMA StatesStep == States /\ [Next]_vars => States'
<1> SUFFICES ASSUME States, [Next]_vars PROVE States'
  OBVIOUS
<1> USE LaunchAssumption DEF States, Calm, local, remote, Children
<1>1. CASE StartLauncher
  BY <1>1 DEF StartLauncher, Fork
<1>2. CASE LauncherFails
  BY <1>2 DEF LauncherFails
<1>3. CASE ReadLine \/ ReadEof
  <2>1. CASE ReadLine
    BY <2>1 DEF ReadLine
  <2>2. CASE ReadEof
    BY <2>2 DEF ReadEof
  <2> QED BY <1>3, <2>1, <2>2
<1>4. CASE StartTunnel
  BY <1>4 DEF StartTunnel, Fork
<1>5. CASE TunnelFails \/ TunnelGone \/ TunnelAlive
  <2>1. CASE TunnelFails
    BY <2>1 DEF TunnelFails
  <2>2. CASE TunnelGone
    BY <2>2 DEF TunnelGone
  <2>3. CASE TunnelAlive
    BY <2>3 DEF TunnelAlive
  <2> QED BY <1>5, <2>1, <2>2, <2>3
<1>6. CASE DialFails
  BY <1>6 DEF DialFails
<1>7. CASE GiveUp
  BY <1>7 DEF GiveUp
<1>8. CASE Connect
  BY <1>8 DEF Connect, StartSession
<1>9. CASE Finish
  BY <1>9 DEF Finish
<1>10. CASE SessionEnds
  BY <1>10 DEF SessionEnds
<1>11. ASSUME NEW c \in Children, Stop(c) PROVE States'
  <2>1. strays' \subseteq Children
    BY <1>11 DEF Stop
  <2>2. proc' \in [Children -> {"none", "running", "dying", "zombie", "reaped"}]
    BY <1>11 DEF Stop
  <2> QED BY <1>11, <2>1, <2>2 DEF Stop
<1>12. ASSUME NEW c \in Children, Reap(c) PROVE States'
  <2>1. owned' \subseteq Children
    BY <1>12 DEF Reap
  <2>2. proc' \in [Children -> {"none", "running", "dying", "zombie", "reaped"}]
    BY <1>12 DEF Reap
  <2> QED BY <1>12, <2>1, <2>2 DEF Reap
<1>13. ASSUME NEW c \in Children, ChildExits(c) PROVE States'
  BY <1>13 DEF ChildExits
<1>14. CASE TunnelListens \/ StrangerListens
  <2>1. CASE TunnelListens
    BY <2>1 DEF TunnelListens
  <2>2. CASE StrangerListens
    BY <2>2 DEF StrangerListens
  <2> QED BY <1>14, <2>1, <2>2
<1>15. CASE StrayConnects \/ StrayLeaves
  <2>1. CASE StrayConnects
    BY <2>1 DEF StrayConnects
  <2>2. CASE StrayLeaves
    BY <2>2 DEF StrayLeaves
  <2> QED BY <1>15, <2>1, <2>2
<1>16. CASE Announce
  BY <1>16 DEF Announce
<1>17. CASE AcceptPanics \/ AcceptFails
  <2>1. CASE AcceptPanics
    BY <2>1 DEF AcceptPanics
  <2>2. CASE AcceptFails
    BY <2>2 DEF AcceptFails
  <2> QED BY <1>17, <2>1, <2>2
<1>18. CASE ServeBlocks \/ ServeResumes \/ ServeEnds
  <2>1. CASE ServeBlocks
    BY <2>1 DEF ServeBlocks
  <2>2. CASE ServeResumes
    BY <2>2 DEF ServeResumes
  <2>3. CASE ServeEnds
    BY <2>3 DEF ServeEnds
  <2> QED BY <1>18, <2>1, <2>2, <2>3
<1>19. ASSUME NEW c \in {"client", "stray"}, Accept(c) PROVE States'
  BY <1>19 DEF Accept
<1>20. CASE SignalKills
  BY <1>20 DEF SignalKills
<1>21. CASE UNCHANGED vars
  BY <1>21 DEF vars
<1>22. ASSUME NEW c \in Children, WaitInterrupted(c) PROVE States'
  BY <1>22 DEF WaitInterrupted
<1> QED
  BY <1>1, <1>2, <1>3, <1>4, <1>5, <1>6, <1>7, <1>8, <1>9, <1>10, <1>11, <1>12,
     <1>13, <1>14, <1>15, <1>16, <1>17, <1>18, <1>19, <1>20, <1>21, <1>22
  DEF Next, Main, Others, Server, Signals, SignalEnds

\* Every step preserves the types.
LEMMA TypeStep == TypeOK /\ [Next]_vars => TypeOK'
<1>1. TypeOK <=> Flags /\ States
  BY DEF TypeOK, Flags, States
<1>2. TypeOK' <=> Flags' /\ States'
  BY DEF TypeOK, Flags, States
<1> QED BY <1>1, <1>2, FlagsStep, StatesStep

\* Every step of the client, and of everybody around it, preserves the invariant.
LEMMA LaunchStep == LaunchInv /\ [Next]_vars => LaunchInv'
<1> SUFFICES ASSUME LaunchInv, [Next]_vars PROVE LaunchInv'
  OBVIOUS
<1>t. TypeOK /\ TypeOK'
  BY TypeStep DEF LaunchInv
<1>c. Children = {"launcher", "tunnel"} /\ client \in {"rust", "c", "cpp"}
  BY <1>t, LaunchAssumption DEF Children, TypeOK
<1>p. /\ proc \in [Children -> {"none", "running", "dying", "zombie", "reaped"}]
      /\ owned \subseteq Children
  BY <1>t DEF TypeOK
<1> USE DEF LaunchInv, EarlyInv, ReapedInv, OwnedInv, WaitInv, StraysExplained,
            TerminalRestored, Launching
<1>1. CASE StartLauncher
  BY <1>1, <1>t, <1>c, <1>p DEF StartLauncher, Fork, Calm
<1>2. CASE LauncherFails \/ ReadLine \/ ReadEof
  BY <1>2, <1>t, <1>c, <1>p DEF LauncherFails, ReadLine, ReadEof, Calm
<1>3. CASE StartTunnel
  BY <1>3, <1>t, <1>c, <1>p DEF StartTunnel, Fork, Calm
<1>4. CASE TunnelFails \/ TunnelAlive \/ DialFails
  BY <1>4, <1>t, <1>c, <1>p DEF TunnelFails, TunnelAlive, DialFails, Calm
<1>5. CASE TunnelGone
  BY <1>5, <1>t, <1>c, <1>p DEF TunnelGone, Calm
<1>6. CASE GiveUp
  BY <1>6, <1>t, <1>c, <1>p DEF GiveUp, Calm
<1>7. CASE Connect
  BY <1>7, <1>t, <1>c, <1>p DEF Connect, StartSession
<1>8. CASE SessionEnds
  BY <1>8, <1>t, <1>c, <1>p DEF SessionEnds, Calm
<1>9. CASE Finish
  BY <1>9, <1>t, <1>c, <1>p DEF Finish, Calm
<1>10. ASSUME NEW c \in Children, Stop(c) PROVE LaunchInv'
  BY <1>10, <1>t, <1>c, <1>p DEF Stop, Turn, Calm
<1>11. ASSUME NEW c \in Children, Reap(c) PROVE LaunchInv'
  BY <1>11, <1>t, <1>c, <1>p DEF Reap, Turn, Calm
<1>12. CASE SignalKills
  BY <1>12, <1>t, <1>c, <1>p DEF SignalKills
<1>13. ASSUME NEW c \in Children, WaitInterrupted(c) PROVE LaunchInv'
  BY <1>13, <1>t, <1>c, <1>p DEF WaitInterrupted, Turn, Calm
<1>14. CASE Others
  <2>1. /\ UNCHANGED <<client, pc, owned, raw, served, killed, strays>>
        /\ \/ proc' = proc
           \/ \E c \in Children : /\ proc[c] \in {"running", "dying"}
                                  /\ proc' = [proc EXCEPT ![c] = "zombie"]
    BY <1>14 DEF Others, ChildExits, TunnelListens, StrangerListens, StrayConnects,
                 StrayLeaves, local
  <2> QED BY <1>t, <2>1, OthersKeep
<1>15. CASE Server \/ UNCHANGED vars
  <2>1. UNCHANGED <<client, pc, proc, owned, raw, served, killed, strays>>
    BY <1>15 DEF Server, Announce, AcceptPanics, AcceptFails, ServeBlocks, ServeResumes,
                 ServeEnds, Accept, vars, local
  <2> QED BY <1>t, <2>1, OthersKeep
<1> QED
  BY <1>1, <1>2, <1>3, <1>4, <1>5, <1>6, <1>7, <1>8, <1>9, <1>10, <1>11, <1>12,
     <1>13, <1>14, <1>15
  DEF Next, Main, Signals, SignalEnds

\* The invariant holds throughout a launch, a session and the way out.
THEOREM LaunchInvariant == Spec => []LaunchInv
BY LaunchInit, LaunchStep, PTL DEF Spec

\* Every variable keeps its type; no more attempts are made than allowed.
THEOREM LaunchTypes == Spec => []TypeOK
<1>1. LaunchInv => TypeOK
  BY DEF LaunchInv
<1> QED BY <1>1, LaunchInvariant, PTL

\* Whatever the order in which children die, signals arrive and connections come
\* about, a client leaves an ssh process behind only for the three reasons that
\* the launch code of the Rust and the C++ client and the lack of a handler give.
THEOREM OrphansAreExplained == Spec => []OrphansExplained
<1>1. LaunchInv => OrphansExplained
  BY DEF LaunchInv, OwnedInv, OrphansExplained, Orphans
<1> QED BY <1>1, LaunchInvariant, PTL

\* SshTunnel's destructor and the C client's atexit handler signal a process id
\* they have given back only if it is that of a tunnel which died before the
\* client was connected, and never in the Rust client.
THEOREM StraysAreExplained == Spec => []StraysExplained
<1>1. LaunchInv => StraysExplained
  BY DEF LaunchInv
<1> QED BY <1>1, LaunchInvariant, PTL

\* On every way out other than being killed the terminal leaves raw mode: in the
\* Rust and C++ clients with the session, before they wait for a child, in the C
\* client after the last child.
THEOREM TerminalIsRestored == Spec => []TerminalRestored
<1>1. LaunchInv => TerminalRestored
  BY DEF LaunchInv
<1> QED BY <1>1, LaunchInvariant, PTL
=============================================================================
