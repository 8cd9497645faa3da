---------------------------- MODULE EngineLifecycle ----------------------------
(***************************************************************************)
(* Starting and stopping the WinDivert engine: the window or command line, *)
(* ProxyEngineWrapper, ProxyEngine_Init, _Start and _Stop and the start    *)
(* and stop functions of the three parts, with the threads they create.    *)
(*                                                                         *)
(* The calls all come from one thread, which call follows; the parts' own  *)
(* threads run beside it.  Every step of a start may fail.  Ports are      *)
(* counted from the base port.  The packet thread in UdpRelay_AddSession   *)
(* and the relay thread share that module's lock; each may keep it, or     *)
(* wait for it, longer than the five seconds a stop waits for a thread.    *)
(***************************************************************************)
EXTENDS Integers

CONSTANTS
  PortRange,    \* LOCAL_PORT_RANGE
  Threads,      \* bound: packet threads alive at once
  Servers,      \* bound: UDP relay threads alive at once
  Hosts,        \* proxy hosts the user may have entered
  NoHost,       \* the empty host
  NoPort,
  NoThread

ASSUME LifecycleAssumption ==
  /\ PortRange \in Nat \ {0} /\ NoPort \notin Nat
  /\ NoThread \notin Threads \cup Servers /\ Threads \cap Servers = {}
  /\ NoHost \notin Hosts

Ports == 0 .. PortRange - 1
Relays == {"udp", "tcp"}
Parts == Relays \cup {"packet"}

VARIABLES
  call,       \* how far the call in progress is
  try,        \* the loop index of the port search
  running,    \* g_running of each part
  port,       \* the port each relay's socket is bound to
  active,     \* g_active_udp_port, g_active_tcp_port
  filter,     \* the ports the open driver handle's filter was made with
  accepting,  \* LocalProxy's thread
  relay,      \* where each UDP relay thread is in its loop
  server,     \* g_relay_thread
  packet,     \* what each packet thread is doing
  current,    \* g_packet_thread
  lock,       \* UdpRelay's g_lock: the thread that holds it
  inited,     \* g_initialized of ProxyEngine
  on,         \* g_running of ProxyEngine
  wrapperInited, wrapperOn,  \* m_initialized and m_running
  proxy,      \* g_proxy_host
  gaveUp      \* history: the parts whose stop has left a thread behind

search == <<call, try>>
ports == <<port, active, filter>>
threads == <<accepting, relay, server, packet, current, lock, gaveUp>>
flags == <<inited, on, wrapperInited, wrapperOn, proxy>>
vars == <<search, running, ports, threads, flags>>

Calls == {"idle", "init", "proxy", "udp", "tcp", "packet",
          "stopPacket", "joinPacket", "stopTcp", "joinTcp", "stopUdp", "lockUdp", "joinUdp", "done"}

Unbound == [r \in Relays |-> NoPort]

Init ==
  /\ call = "idle" /\ try = 0
  /\ running = [p \in Parts |-> FALSE]
  /\ port = Unbound /\ active = Unbound /\ filter = Unbound
  /\ accepting = FALSE
  /\ relay = [s \in Servers |-> "none"] /\ server = NoThread
  /\ packet = [t \in Threads |-> "none"] /\ current = NoThread /\ lock = NoThread
  /\ inited = FALSE /\ on = FALSE /\ wrapperInited = FALSE /\ wrapperOn = FALSE
  /\ proxy = NoHost /\ gaveUp = {}
-------------------------------------------------------------------------------
(* Start: initialise, set the proxy, then the three parts in order. *)

\* The start button, enabled while the engine is not running.
StartPressed ==
  /\ call = "idle" /\ ~wrapperOn
  /\ call' = "init"
  /\ UNCHANGED <<try, running, ports, threads, flags>>

\* Only WSAStartup in LocalProxy_Init can fail; a later Init begins again.
InitSucceeds ==
  /\ call = "init"
  /\ inited' = TRUE /\ wrapperInited' = TRUE
  /\ call' = "proxy"
  /\ UNCHANGED <<try, running, ports, threads, on, wrapperOn, proxy>>

InitFails ==
  /\ call = "init" /\ ~inited /\ ~wrapperInited
  /\ call' = "idle"
  /\ UNCHANGED <<try, running, ports, threads, flags>>

\* An empty host or port is refused and the start with it.
SetProxy(h) ==
  /\ call = "proxy"
  /\ IF h = NoHost THEN call' = "idle" /\ UNCHANGED proxy
                   ELSE call' = "udp" /\ proxy' = h
  /\ try' = 0
  /\ UNCHANGED <<running, ports, threads, inited, on, wrapperInited, wrapperOn>>

Follows(r) == IF r = "udp" THEN "tcp" ELSE "packet"

\* A thread of an earlier start that was given up goes on beside the new one.
RelayThreadStarts ==
  /\ \E s \in Servers :
       /\ relay[s] = "none"
       /\ relay' = [relay EXCEPT ![s] = "top"] /\ server' = s
  /\ UNCHANGED accepting
AcceptThreadStarts == accepting' = TRUE /\ UNCHANGED <<relay, server>>

\* A part that is running already says yes to any port and keeps its own.
RelayStarts(r) ==
  /\ call = r /\ try \in Ports
  /\ IF running[r] THEN UNCHANGED <<accepting, relay, server>>
     ELSE IF r = "udp" THEN RelayThreadStarts ELSE AcceptThreadStarts
  /\ running' = [running EXCEPT ![r] = TRUE]
  /\ port' = [port EXCEPT ![r] = IF running[r] THEN @ ELSE try]
  /\ active' = [active EXCEPT ![r] = try]
  /\ call' = Follows(r) /\ try' = 0
  /\ UNCHANGED <<filter, packet, current, lock, gaveUp, flags>>

\* Mutant: the port search goes one port too far.
RelayStartFailsPastEnd(r) ==
  /\ call = r /\ ~running[r] /\ try <= PortRange
  /\ try' = try + 1
  /\ UNCHANGED <<call, running, ports, threads, flags>>

\* Mutant: the port search begins again at the first port.
RelayStartFailsRound(r) ==
  /\ call = r /\ ~running[r] /\ try \in Ports
  /\ try' = (try + 1) % PortRange
  /\ UNCHANGED <<call, running, ports, threads, flags>>

\* No socket, a port that is taken, or no thread.
RelayStartFails(r) ==
  /\ call = r /\ ~running[r] /\ try \in Ports
  /\ try' = try + 1
  /\ UNCHANGED <<call, running, ports, threads, flags>>

\* Mutant: the UDP relay is left running when the local proxy finds no port.
NoPortLeftNoRollback(r) ==
  /\ call = r /\ try \notin Ports
  /\ call' = "idle" /\ try' = 0
  /\ UNCHANGED <<running, ports, threads, flags>>

NoPortLeft(r) ==
  /\ call = r /\ try \notin Ports
  /\ call' = IF r = "udp" THEN "idle" ELSE "stopUdp"
  /\ try' = 0
  /\ UNCHANGED <<running, ports, threads, flags>>

PacketStarts ==
  /\ call = "packet" /\ ~running["packet"]
  /\ \E t \in Threads :
       /\ packet[t] = "none"
       /\ packet' = [packet EXCEPT ![t] = "loop"] /\ current' = t
  /\ filter' = active
  /\ running' = [running EXCEPT !["packet"] = TRUE]
  /\ on' = TRUE /\ wrapperOn' = TRUE
  /\ call' = "idle"
  /\ UNCHANGED <<try, port, active, accepting, relay, server, lock, gaveUp,
                 inited, wrapperInited, proxy>>

\* Mutant: the relays are left running when the packet processor does not start.
PacketStartFailsNoRollback ==
  /\ call = "packet" /\ ~running["packet"]
  /\ call' = "idle"
  /\ UNCHANGED <<try, running, ports, threads, flags>>

\* No driver or no thread: what is up is taken down again.
PacketStartFails ==
  /\ call = "packet" /\ ~running["packet"]
  /\ call' = "stopTcp"
  /\ UNCHANGED <<try, running, ports, threads, flags>>
-------------------------------------------------------------------------------
(* Stop: the parts in the opposite order, each waiting for its thread. *)

StopPressed ==
  /\ call = "idle" /\ wrapperOn /\ on
  /\ call' = "stopPacket"
  /\ UNCHANGED <<try, running, ports, threads, flags>>

\* Mutant: the local proxy is stopped first.
StopTcpFirst ==
  /\ call = "stopPacket"
  /\ running' = [running EXCEPT !["tcp"] = FALSE] /\ port' = [port EXCEPT !["tcp"] = NoPort]
  /\ call' = "joinPacket"
  /\ UNCHANGED <<try, active, filter, threads, flags>>

StopPacket ==
  /\ call = "stopPacket"
  /\ running' = [running EXCEPT !["packet"] = FALSE]
  /\ filter' = Unbound
  /\ call' = "joinPacket"
  /\ UNCHANGED <<try, port, active, threads, flags>>

PacketJoined ==
  /\ call = "joinPacket" /\ packet[current] = "none"
  /\ current' = NoThread /\ call' = "stopTcp"
  /\ UNCHANGED <<try, running, ports, accepting, relay, server, packet, lock, gaveUp, flags>>

\* Five seconds are over while the thread is with the proxy or waits for the lock.
HeldUp(t) ==
  packet[t] \in {"dialling", "asking"} \/ (packet[t] = "entering" /\ lock # NoThread)

PacketGivenUp ==
  /\ call = "joinPacket" /\ HeldUp(current)
  /\ current' = NoThread /\ gaveUp' = gaveUp \cup {"packet"} /\ call' = "stopTcp"
  /\ UNCHANGED <<try, running, ports, accepting, relay, server, packet, lock, flags>>

StopTcp ==
  /\ call = "stopTcp"
  /\ running' = [running EXCEPT !["tcp"] = FALSE] /\ port' = [port EXCEPT !["tcp"] = NoPort]
  /\ call' = IF running["tcp"] THEN "joinTcp" ELSE "stopUdp"
  /\ UNCHANGED <<try, active, filter, threads, flags>>

StopUdp ==
  /\ call = "stopUdp"
  /\ running' = [running EXCEPT !["udp"] = FALSE] /\ port' = [port EXCEPT !["udp"] = NoPort]
  /\ call' = IF running["udp"] THEN "lockUdp" ELSE "done"
  /\ UNCHANGED <<try, active, filter, threads, flags>>

\* The sessions are closed under the lock, which has no time-out.
LockUdp ==
  /\ call = "lockUdp" /\ lock = NoThread
  /\ call' = "joinUdp"
  /\ UNCHANGED <<try, running, ports, threads, flags>>

\* The accept loop looks at g_running once a second and waits for nobody.
AcceptJoined ==
  /\ call = "joinTcp" /\ ~accepting
  /\ call' = "stopUdp"
  /\ UNCHANGED <<try, running, ports, threads, flags>>

\* Mutant: UdpRelay_Stop does not wait for its thread.
RelayNotJoined ==
  /\ call = "joinUdp"
  /\ server' = NoThread /\ call' = "done"
  /\ UNCHANGED <<try, running, ports, accepting, relay, packet, current, lock, gaveUp, flags>>

RelayJoined ==
  /\ call = "joinUdp" /\ relay[server] = "none"
  /\ server' = NoThread /\ call' = "done"
  /\ UNCHANGED <<try, running, ports, accepting, relay, packet, current, lock, gaveUp, flags>>

\* Five seconds are over while somebody has the lock the relay thread needs, or
\* the thread itself sits in recvfrom with it.
RelayGivenUp ==
  /\ call = "joinUdp" /\ relay[server] # "none" /\ lock # NoThread
  /\ server' = NoThread /\ gaveUp' = gaveUp \cup {"udp"} /\ call' = "done"
  /\ UNCHANGED <<try, running, ports, accepting, relay, packet, current, lock, flags>>

Stopped ==
  /\ call = "done"
  /\ on' = FALSE /\ wrapperOn' = FALSE
  /\ call' = "idle"
  /\ UNCHANGED <<try, running, ports, threads, inited, wrapperInited, proxy>>

\* ~ProxyEngineWrapper and the end of main, after the stop.
Cleanup ==
  /\ call = "idle" /\ ~wrapperOn /\ wrapperInited
  /\ inited' = FALSE /\ wrapperInited' = FALSE
  /\ UNCHANGED <<search, running, ports, threads, on, wrapperOn, proxy>>
-------------------------------------------------------------------------------
(* The parts' threads. *)

AcceptLoopEnds ==
  /\ accepting /\ ~running["tcp"]
  /\ accepting' = FALSE
  /\ UNCHANGED <<search, running, ports, relay, server, packet, current, lock, gaveUp, flags>>

\* while (g_running): for a thread left behind too.
RelayLoops(s) ==
  /\ relay[s] = "top"
  /\ relay' = [relay EXCEPT ![s] = IF running["udp"] THEN "inside" ELSE "none"]
  /\ UNCHANGED <<search, running, ports, accepting, server, packet, current, lock, gaveUp, flags>>

RelayLocks(s) ==
  /\ relay[s] = "inside" /\ lock = NoThread
  /\ relay' = [relay EXCEPT ![s] = "holding"] /\ lock' = s
  /\ UNCHANGED <<search, running, ports, accepting, server, packet, current, gaveUp, flags>>

\* At once, or when something arrives for the socket recvfrom waits for.
RelayUnlocks(s) ==
  /\ relay[s] = "holding"
  /\ relay' = [relay EXCEPT ![s] = "top"] /\ lock' = NoThread
  /\ UNCHANGED <<search, running, ports, accepting, server, packet, current, gaveUp, flags>>

threadsButPacket == <<accepting, relay, server, current, gaveUp>>

\* A UDP datagram for the proxy: AddSession.  The datagram may have been taken
\* before the driver's handle was closed.
ThreadEnters(t) ==
  /\ packet[t] = "loop"
  /\ packet' = [packet EXCEPT ![t] = "entering"]
  /\ UNCHANGED <<search, running, ports, threadsButPacket, lock, flags>>

ThreadLocks(t) ==
  /\ packet[t] = "entering" /\ lock = NoThread
  /\ packet' = [packet EXCEPT ![t] = "dialling"] /\ lock' = t
  /\ UNCHANGED <<search, running, ports, threadsButPacket, flags>>

\* The connection to the proxy stands and UDP ASSOCIATE waits without a time-out ...
ThreadAsks(t) ==
  /\ packet[t] = "dialling"
  /\ packet' = [packet EXCEPT ![t] = "asking"]
  /\ UNCHANGED <<search, running, ports, threadsButPacket, lock, flags>>

\* ... for an answer; there may be a session or no free slot already, or no connection.
ThreadReturns(t) ==
  /\ packet[t] \in {"dialling", "asking"}
  /\ packet' = [packet EXCEPT ![t] = "back"] /\ lock' = NoThread
  /\ UNCHANGED <<search, running, ports, threadsButPacket, flags>>

\* while (g_running): a thread left behind by a stop goes on if the engine was
\* started again in the meantime.
ThreadLoops(t) ==
  /\ packet[t] = "back" \/ (packet[t] = "loop" /\ ~running["packet"])
  /\ packet' = [packet EXCEPT ![t] = IF running["packet"] THEN "loop" ELSE "none"]
  /\ UNCHANGED <<search, running, ports, threadsButPacket, lock, flags>>

StartCall ==
  \/ InitSucceeds \/ InitFails \/ \E h \in Hosts \cup {NoHost} : SetProxy(h)
  \/ \E r \in Relays : RelayStarts(r) \/ RelayStartFails(r) \/ NoPortLeft(r)
  \/ PacketStarts \/ PacketStartFails
StopCall ==
  \/ StopPacket \/ PacketJoined \/ PacketGivenUp \/ StopTcp \/ AcceptJoined
  \/ StopUdp \/ LockUdp \/ RelayJoined \/ RelayGivenUp \/ Stopped

RelayThread(s) == RelayLoops(s) \/ RelayLocks(s)
PacketThread(t) ==
  ThreadLocks(t) \/ ThreadLoops(t) \/ (packet[t] = "dialling" /\ ThreadReturns(t))

Next ==
  \/ StartPressed \/ StartCall \/ StopPressed \/ StopCall \/ Cleanup
  \/ AcceptLoopEnds
  \/ \E s \in Servers : RelayLoops(s) \/ RelayLocks(s) \/ RelayUnlocks(s)
  \/ \E t \in Threads : \/ ThreadEnters(t) \/ ThreadLocks(t) \/ ThreadAsks(t)
                        \/ ThreadReturns(t) \/ ThreadLoops(t)

Spec == Init /\ [][Next]_vars

\* A call goes on, threads run, a connection attempt ends by its time-out, and whoever
\* waits for the critical section gets it although others use it again and again.
\* Nothing is assumed of the user, of the proxy's answers or of recvfrom.
Fairness ==
  /\ WF_vars(StartCall) /\ SF_vars(StopCall) /\ WF_vars(AcceptLoopEnds)
  /\ \A s \in Servers : SF_vars(RelayThread(s))
  /\ \A t \in Threads : SF_vars(PacketThread(t))
FairSpec == Spec /\ Fairness
-------------------------------------------------------------------------------
TypeOK ==
  /\ call \in Calls /\ try \in 0 .. PortRange
  /\ running \in [Parts -> BOOLEAN]
  /\ port \in [Relays -> Ports \cup {NoPort}]
  /\ active \in [Relays -> Ports \cup {NoPort}]
  /\ filter \in [Relays -> Ports \cup {NoPort}]
  /\ accepting \in BOOLEAN
  /\ relay \in [Servers -> {"none", "top", "inside", "holding"}]
  /\ server \in Servers \cup {NoThread}
  /\ packet \in [Threads -> {"none", "loop", "entering", "dialling", "asking", "back"}]
  /\ current \in Threads \cup {NoThread} /\ lock \in Threads \cup Servers \cup {NoThread}
  /\ inited \in BOOLEAN /\ on \in BOOLEAN
  /\ wrapperInited \in BOOLEAN /\ wrapperOn \in BOOLEAN
  /\ proxy \in Hosts \cup {NoHost} /\ gaveUp \subseteq {"packet", "udp"}

\* The ports packets are redirected to are the ports the relays listen on, however
\* many starts failed half-way before: a part that was left running would say yes to
\* the first port tried and keep its own.
PacketsReachTheRelays ==
  running["packet"] => \A r \in Relays : running[r] /\ filter[r] = port[r]

\* Between calls the engine is wholly on or wholly off, and the wrapper knows.  Off
\* means that the parts' threads have ended, but for those a stop has given up.
Quiet ==
  /\ \A p \in Parts : ~running[p]
  /\ ~accepting
  /\ "udp" \in gaveUp \/ \A s \in Servers : relay[s] = "none"
  /\ "packet" \in gaveUp \/ \A t \in Threads : packet[t] = "none"
OffIsQuiet ==
  call = "idle" => (wrapperOn = on /\ (on => \A p \in Parts : running[p])
                                   /\ (~on => Quiet))

\* Two packet threads on the same caches, or two relay threads on the same socket, work
\* side by side only after a stop that gave one up.
Working == {t \in Threads : packet[t] # "none"}
Serving == {s \in Servers : relay[s] # "none"}
OneThreadPerPart ==
  /\ "packet" \notin gaveUp => \A t, u \in Working : t = u
  /\ "udp" \notin gaveUp => \A s, u \in Serving : s = u

\* Every call returns, a stop also while the packet thread dials with the relay's lock,
\* unless the proxy leaves it without an answer for ever or recvfrom never returns: then
\* the stop waits for that lock, which has no time-out.
LockIsReleased ==
  []<>(\A t \in Threads : packet[t] # "asking") /\ []<>(\A s \in Servers : relay[s] # "holding")
CallsReturn == LockIsReleased => (call # "idle" ~> call = "idle")

\* The promise: phase and parts as the caller sees them.
Phase ==
  CASE call \in {"udp", "tcp", "packet"} -> "starting"
    [] call \in {"stopPacket", "joinPacket", "stopTcp", "joinTcp", "stopUdp", "lockUdp",
                  "joinUdp", "done"} -> "stopping"
    [] OTHER -> IF on THEN "on" ELSE "off"
Service == INSTANCE EngineService WITH
  phase <- Phase, up <- {p \in Parts : running[p]}
ImplementsService == Service!Spec
===============================================================================
