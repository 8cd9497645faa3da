----------------------------- MODULE TcpRedirect ------------------------------
(***************************************************************************)
(* Transparent redirection of TCP connections: PacketProcessorThread       *)
(* (core/PacketProcessor.c), the connection table it shares with the local *)
(* proxy (core/ConnectionTracker.c), and the accept loop and connection    *)
(* handlers of the local proxy (core/LocalProxy.c), between the TCP stack  *)
(* of the machine, which is modelled as far as the code relies on it.      *)
(*                                                                         *)
(* The packet thread, the accept loop, one handler per accepted connection *)
(* and the clients run concurrently.  Each ConnectionTracker call holds    *)
(* the tracker's lock for its own duration only, so two calls of one       *)
(* thread are two steps.  The table is keyed by the client's source port   *)
(* alone; the machine has one IPv4 address, so a port belongs to at most   *)
(* one live connection at a time.                                          *)
(*                                                                         *)
(* Rules and global proxy (config) change only while the engine is stopped:*)
(* MainWindow::startWinDivertMode sets both before it starts the engine,   *)
(* and the command line sets them once.                                    *)
(***************************************************************************)
EXTENDS Integers, Sequences

CONSTANTS
  Conns,        \* client connections; each is opened at most once
  Ports,        \* client source ports
  Dests,        \* original destinations, address and port
  Proxies,      \* proxy servers
  Port,         \* [Conns -> Ports]
  Dest,         \* [Conns -> Dests]
  NoProxy,      \* ProxyInfo with has_proxy = false
  NoConn,       \* no connection
  Configs,      \* [rule: what RuleEngine_Match gives per connection, global: proxy]
  MaxQueue,     \* bound: WinDivert's queue, 8192 packets in the code
  MaxFailures,  \* bound: packets the queue drops, entries there is no memory for
  MaxStarts     \* bound: how often the engine is started

Actions == {"PROXY", "DIRECT", "BLOCK"}
ProxyInfo == Proxies \cup {NoProxy}
Config ==
  [rule: [Conns -> [action: Actions, proxy: ProxyInfo]], global: ProxyInfo]

ASSUME ConnAssumption ==
  /\ Port \in [Conns -> Ports]
  /\ Dest \in [Conns -> Dests]
  /\ NoConn \notin Conns \cup Dests
  /\ NoProxy \notin Proxies

ASSUME ConfigAssumption == Configs \subseteq Config /\ Configs # {}

ASSUME BoundAssumption ==
  MaxQueue \in Nat /\ MaxFailures \in Nat /\ MaxStarts \in Nat

VARIABLES
  engine,       \* ProxyEngine: "running", "stopping", "stopped"
  config,       \* rules and global proxy in force
  starts,       \* how often the engine was started
  app,          \* the client's socket of each connection
  queue,        \* packets WinDivert holds for PacketProcessorThread
  failures,     \* how often the queue dropped a packet or malloc failed
  directCache,  \* address pairs with an unexpired DECISION_DIRECT entry
  tracker,      \* ConnectionTracker: per source port, an entry or NoEntry
  endpoint,     \* the listener's TCP endpoint for each client port
  acceptor,     \* LocalProxyThread between its two looks at the tracker
  handler       \* ConnectionHandler thread of each connection

engineVars == <<engine, config, starts>>
vars == <<engine, config, starts, app, queue, failures, directCache, tracker,
          endpoint, acceptor, handler>>

Entry == [dest: Dests, proxy: Proxies]
NoEntry == [dest |-> NoConn, proxy |-> NoProxy]

\* A packet of the client's socket, or of the listener's endpoint for it.  conn
\* stands for the packet's sequence numbers: which connection it is part of.
Packet ==
  [from: {"client", "listener"}, kind: {"SYN", "DATA", "RST", "SYNACK", "FIN"},
   conn: Conns]

NoEndpoint == [st |-> "none", conn |-> NoConn]
NoHandler == [st |-> "none", dest |-> NoConn, proxy |-> NoProxy]
IdleAcceptor == [conn |-> NoConn, dest |-> NoConn]

\* WinDivert diverts packets from WinDivertOpen to WinDivertClose.
Capturing == engine = "running"

\* The key of the decision cache: two connections may share it in turn.
Pair(c) == <<Port[c], Dest[c]>>

Live(c) == app[c] \in {"connecting", "redirected", "direct"}

FromClient(kind, c) == [from |-> "client", kind |-> kind, conn |-> c]
FromListener(kind, c) == [from |-> "listener", kind |-> kind, conn |-> c]

\* Mutant: several packet threads, which may take a later packet first.
Overtake(packets, waiting) == packets \o waiting

\* One handle, one packet thread: packets are taken in the order they come.
Behind(packets, waiting) == waiting \o packets

\* What a thread other than PacketProcessorThread sends while packets are
\* diverted waits in the queue.
Send(packets) ==
  /\ Len(queue) + Len(packets) <= MaxQueue
  /\ queue' = Behind(packets, queue)

\* PacketProcessorThread is through with the head of the queue, and the packet
\* it passed on made a TCP stack send these.
Answer(packets) == queue' = Behind(packets, Tail(queue))

Init ==
  /\ engine = "running" /\ config \in Configs /\ starts = 1
  /\ app = [c \in Conns |-> "idle"]
  /\ queue = <<>> /\ failures = 0 /\ directCache = {}
  /\ tracker = [p \in Ports |-> NoEntry]
  /\ endpoint = [p \in Ports |-> NoEndpoint]
  /\ acceptor = IdleAcceptor
  /\ handler = [c \in Conns |-> NoHandler]
-------------------------------------------------------------------------------
(* Clients: the applications and the TCP stack they use. *)

\* connect().  The port is free once no other live connection uses it.
Connect(c) ==
  /\ app[c] = "idle"
  /\ \A d \in Conns \ {c} : Port[d] = Port[c] => ~Live(d)
  /\ IF Capturing
     THEN app' = [app EXCEPT ![c] = "connecting"] /\ Send(<<FromClient("SYN", c)>>)
     ELSE app' = [app EXCEPT ![c] = "direct"] /\ UNCHANGED queue
  /\ UNCHANGED <<engineVars, failures, directCache, tracker, endpoint, acceptor, handler>>

\* TCP repeats a SYN that was not answered.
RepeatSyn(c) ==
  /\ app[c] = "connecting"
  /\ FromClient("SYN", c) \notin {queue[i] : i \in 1 .. Len(queue)}
  /\ IF Capturing
     THEN Send(<<FromClient("SYN", c)>>) /\ UNCHANGED app
     ELSE app' = [app EXCEPT ![c] = "direct"] /\ UNCHANGED queue
  /\ UNCHANGED <<engineVars, failures, directCache, tracker, endpoint, acceptor, handler>>

\* send(), or an acknowledgement the stack sends by itself.  With the engine
\* stopped the packet reaches the real destination, which knows no such
\* connection when it had been redirected and resets it.
Talk(c) ==
  /\ app[c] \in {"redirected", "direct"}
  /\ IF Capturing
     THEN Send(<<FromClient("DATA", c)>>) /\ UNCHANGED app
     ELSE /\ app[c] = "redirected"
          /\ app' = [app EXCEPT ![c] = "closed"]
          /\ UNCHANGED queue
  /\ UNCHANGED <<engineVars, failures, directCache, tracker, endpoint, acceptor, handler>>

\* The application gives up or dies: an established socket is reset, which
\* frees its port at once.
Abort(c) ==
  /\ Live(c)
  /\ app' = [app EXCEPT ![c] = "closed"]
  /\ IF Capturing /\ app[c] # "connecting"
     THEN Send(<<FromClient("RST", c)>>)
     ELSE UNCHANGED queue
  /\ UNCHANGED <<engineVars, failures, directCache, tracker, endpoint, acceptor, handler>>
-------------------------------------------------------------------------------
(* PacketProcessorThread: one packet at a time, in the order of the queue. *)

\* The matched rule's proxy, else the global one, else no proxying at all.
Effective(c) ==
  LET rule == config.rule[c]
      proxy == IF rule.proxy # NoProxy THEN rule.proxy ELSE config.global
  IN [action |-> IF rule.action = "PROXY" /\ proxy = NoProxy
                 THEN "DIRECT" ELSE rule.action,
      proxy |-> proxy]

\* Only a cached DIRECT saves the rule match; the cached value is not refreshed.
Decision(c) == IF Pair(c) \in directCache THEN "DIRECT" ELSE Effective(c).action

Outbound(c) ==
  Capturing /\ queue # <<>> /\ Head(queue).from = "client" /\ Head(queue).conn = c

Response(c) ==
  Capturing /\ queue # <<>> /\ Head(queue).from = "listener" /\ Head(queue).conn = c

\* The packet goes on to its destination unchanged.
ForwardDirect(c) ==
  /\ Outbound(c)
  /\ Decision(c) = "DIRECT"
  /\ directCache' = directCache \cup {Pair(c)}
  /\ Answer(<<>>)
  /\ app' = [app EXCEPT ![c] =
       IF Head(queue).kind = "SYN" /\ app[c] = "connecting" THEN "direct"
       ELSE IF Head(queue).kind = "DATA" /\ app[c] = "redirected" THEN "closed"
       ELSE @]
  /\ UNCHANGED <<engineVars, failures, tracker, endpoint, acceptor, handler>>

DropBlocked(c) ==
  /\ Outbound(c)
  /\ Decision(c) = "BLOCK"
  /\ Answer(<<>>)
  /\ UNCHANGED <<engineVars, app, failures, directCache, tracker, endpoint, acceptor, handler>>

\* Mutant: ConnectionTracker_Add leaves the entry of a port that has one alone.
TrackOnce(c) ==
  /\ tracker' = IF tracker[Port[c]] # NoEntry THEN tracker
                ELSE [tracker EXCEPT ![Port[c]] =
                        [dest |-> Dest[c], proxy |-> Effective(c).proxy]]
  /\ UNCHANGED failures

\* Mutant: only the first packet of a connection is entered in the table.
TrackSynOnly(c) ==
  /\ tracker' = IF Head(queue).kind # "SYN" THEN tracker
                ELSE [tracker EXCEPT ![Port[c]] =
                        [dest |-> Dest[c], proxy |-> Effective(c).proxy]]
  /\ UNCHANGED failures

\* ConnectionTracker_Add: every redirected packet overwrites the port's entry.
\* Where there is none and malloc fails, the packet is redirected all the same.
Track(c) ==
  \/ /\ tracker' = [tracker EXCEPT ![Port[c]] =
                      [dest |-> Dest[c], proxy |-> Effective(c).proxy]]
     /\ UNCHANGED failures
  \/ /\ tracker[Port[c]] = NoEntry
     /\ failures < MaxFailures /\ failures' = failures + 1
     /\ UNCHANGED tracker

\* How the listener's TCP stack takes a redirected segment.  A SYN opens an
\* endpoint, or is answered again by the one it opened; one that meets the
\* endpoint of an earlier connection ends in that endpoint's reset.
\* (The SYN of a client that no longer waits leaves nothing behind.)
DeliverSyn(c) ==
  LET p == Port[c] IN
  CASE app[c] # "connecting" -> Answer(<<>>) /\ UNCHANGED endpoint
    [] app[c] = "connecting" /\ endpoint[p].conn \in {c, NoConn} ->
         /\ Answer(<<FromListener("SYNACK", c)>>)
         /\ endpoint' = IF endpoint[p].conn = c THEN endpoint
                        ELSE [endpoint EXCEPT ![p] = [st |-> "half", conn |-> c]]
    [] OTHER -> Answer(<<>>) /\ endpoint' = [endpoint EXCEPT ![p] = NoEndpoint]

\* Data completes the handshake; a segment for no endpoint is answered with a RST.
DeliverData(c) ==
  LET p == Port[c] IN
  /\ Answer(IF endpoint[p] = NoEndpoint THEN <<FromListener("RST", c)>> ELSE <<>>)
  /\ endpoint' = IF endpoint[p] = [st |-> "half", conn |-> c]
                 THEN [endpoint EXCEPT ![p].st = "queued"] ELSE endpoint

DeliverReset(c) ==
  /\ Answer(<<>>)
  /\ endpoint' = IF endpoint[Port[c]].conn = c
                 THEN [endpoint EXCEPT ![Port[c]] = NoEndpoint] ELSE endpoint

Redirect(c) ==
  /\ Outbound(c)
  /\ Decision(c) = "PROXY"
  /\ Track(c)
  /\ \/ Head(queue).kind = "SYN" /\ DeliverSyn(c)
     \/ Head(queue).kind = "DATA" /\ DeliverData(c)
     \/ Head(queue).kind = "RST" /\ DeliverReset(c)
  /\ UNCHANGED <<engineVars, app, directCache, acceptor, handler>>

\* The response's source is rewritten to the entry's destination, and the
\* client's socket knows the segment: right peer, right sequence numbers.
Understood(kind, c) ==
  /\ tracker[Port[c]] # NoEntry
  /\ tracker[Port[c]].dest = Dest[c]
  /\ \/ kind = "SYNACK" /\ app[c] \in {"connecting", "redirected"}
     \/ kind # "SYNACK" /\ app[c] \in {"redirected", "direct"}

\* A translated response, with what the client's stack answers.
Reply(c) ==
  /\ Response(c)
  /\ Understood(Head(queue).kind, c)
  /\ \/ /\ Head(queue).kind = "SYNACK" /\ app[c] = "connecting"
        /\ app' = [app EXCEPT ![c] = "redirected"]
        /\ Answer(<<FromClient("DATA", c)>>)
     \/ /\ Head(queue).kind = "FIN"
        /\ app' = [app EXCEPT ![c] = "closed"]
        /\ Answer(<<FromClient("DATA", c)>>)
     \/ /\ Head(queue).kind = "RST"
        /\ app' = [app EXCEPT ![c] = "closed"]
        /\ Answer(<<>>)
     \/ /\ Head(queue).kind = "DATA" \/ (Head(queue).kind = "SYNACK" /\ app[c] # "connecting")
        /\ Answer(<<>>)
        /\ UNCHANGED app
  /\ UNCHANGED <<engineVars, failures, directCache, tracker, endpoint, acceptor, handler>>

\* No entry: the packet falls through the NAT branch and is sent as it is; or
\* the client is gone.  The client's stack answers an unknown segment with a
\* RST, which resets the endpoint that sent it.
ReplyRefused(c) ==
  /\ Response(c)
  /\ ~Understood(Head(queue).kind, c)
  /\ Answer(<<>>)
  /\ endpoint' = IF endpoint[Port[c]].conn = c
                 THEN [endpoint EXCEPT ![Port[c]] = NoEndpoint] ELSE endpoint
  /\ UNCHANGED <<engineVars, app, failures, directCache, tracker, acceptor, handler>>

PacketStep ==
  \E c \in Conns : ForwardDirect(c) \/ DropBlocked(c) \/ Redirect(c) \/ Reply(c) \/ ReplyRefused(c)

\* WinDivert drops a packet that waits too long or finds the queue full.
LosePacket ==
  /\ Capturing /\ queue # <<>> /\ failures < MaxFailures
  /\ queue' = Tail(queue)
  /\ failures' = failures + 1
  /\ UNCHANGED <<engineVars, app, directCache, tracker, endpoint, acceptor, handler>>

\* DECISION_CACHE_TTL_MS runs out.
CacheExpires(c) ==
  /\ Pair(c) \in directCache
  /\ directCache' = directCache \ {Pair(c)}
  /\ UNCHANGED <<engineVars, app, queue, failures, tracker, endpoint, acceptor, handler>>
-------------------------------------------------------------------------------
(* LocalProxyThread. *)

\* closesocket() of the accepted socket: the stack sends a FIN while the
\* endpoint is still there.  With the engine stopped nobody translates it.
CloseClientSocket(c) ==
  IF endpoint[Port[c]].conn = c
  THEN /\ endpoint' = [endpoint EXCEPT ![Port[c]] = NoEndpoint]
       /\ IF Capturing THEN Send(<<FromListener("FIN", c)>>) ELSE UNCHANGED queue
  ELSE UNCHANGED <<endpoint, queue>>

Acceptable(c) ==
  /\ acceptor = IdleAcceptor
  /\ engine # "stopped"
  /\ endpoint[Port[c]] = [st |-> "queued", conn |-> c]

\* accept() and ConnectionTracker_Get, which finds the port.
AcceptTracked(c) ==
  /\ Acceptable(c)
  /\ tracker[Port[c]] # NoEntry
  /\ acceptor' = [conn |-> c, dest |-> tracker[Port[c]].dest]
  /\ endpoint' = [endpoint EXCEPT ![Port[c]].st = "accepted"]
  /\ UNCHANGED <<engineVars, app, queue, failures, directCache, tracker, handler>>

\* Mutant: the result of ConnectionTracker_Get is not looked at.
AcceptUnchecked(c) ==
  /\ Acceptable(c)
  /\ tracker[Port[c]] = NoEntry
  /\ acceptor' = [conn |-> c, dest |-> NoConn]
  /\ endpoint' = [endpoint EXCEPT ![Port[c]].st = "accepted"]
  /\ UNCHANGED <<engineVars, app, queue, failures, directCache, tracker, handler>>

\* ... or does not.
AcceptUntracked(c) ==
  /\ Acceptable(c)
  /\ tracker[Port[c]] = NoEntry
  /\ CloseClientSocket(c)
  /\ UNCHANGED <<engineVars, app, failures, directCache, tracker, acceptor, handler>>

\* ConnectionTracker_GetProxy, the fall-back to the global proxy, and the new
\* handler thread.
AcceptSpawn(c) ==
  LET own == tracker[Port[c]].proxy IN
  /\ acceptor.conn = c
  /\ acceptor' = IdleAcceptor
  /\ handler' = [handler EXCEPT ![c] =
       [st |-> "dialing", dest |-> acceptor.dest,
        proxy |-> IF own # NoProxy THEN own ELSE config.global]]
  /\ UNCHANGED <<engineVars, app, queue, failures, directCache, tracker, endpoint>>

\* malloc or CreateThread fails: the socket is closed, the entry stays.
AcceptSpawnFails(c) ==
  /\ acceptor.conn = c
  /\ acceptor' = IdleAcceptor
  /\ CloseClientSocket(c)
  /\ UNCHANGED <<engineVars, app, failures, directCache, tracker, handler>>
-------------------------------------------------------------------------------
(* ConnectionHandler. *)

HandlerGoes(c, from, to) ==
  /\ handler[c].st = from
  /\ handler' = [handler EXCEPT ![c].st = to]

\* The proxy was resolved, connected and asked for the destination.
DialSucceeds(c) ==
  /\ HandlerGoes(c, "dialing", "relaying")
  /\ handler[c].proxy # NoProxy
  /\ UNCHANGED <<engineVars, app, queue, failures, directCache, tracker, endpoint, acceptor>>

\* Any of the failures up to the second thread: both sockets are closed, then
\* the entry is removed.
DialFails(c) ==
  /\ HandlerGoes(c, "dialing", "closing")
  /\ CloseClientSocket(c)
  /\ UNCHANGED <<engineVars, app, failures, directCache, tracker, acceptor>>

\* A transfer thread sends to the client.
RelayData(c) ==
  /\ handler[c].st = "relaying"
  /\ endpoint[Port[c]].conn = c
  /\ IF Capturing
     THEN Send(<<FromListener("DATA", c)>>) /\ UNCHANGED endpoint
     ELSE /\ endpoint' = [endpoint EXCEPT ![Port[c]] = NoEndpoint]
          /\ UNCHANGED queue
  /\ UNCHANGED <<engineVars, app, failures, directCache, tracker, acceptor, handler>>

\* Both transfer threads have ended; the sockets are closed.
RelayEnds(c) ==
  /\ HandlerGoes(c, "relaying", "closing")
  /\ CloseClientSocket(c)
  /\ UNCHANGED <<engineVars, app, failures, directCache, tracker, acceptor>>

\* ConnectionTracker_Remove(client_port), whoever's entry that is by now.
RemoveEntry(c) ==
  /\ HandlerGoes(c, "closing", "done")
  /\ tracker' = [tracker EXCEPT ![Port[c]] = NoEntry]
  /\ UNCHANGED <<engineVars, app, queue, failures, directCache, endpoint, acceptor>>
-------------------------------------------------------------------------------
(* ProxyEngine_Stop and ProxyEngine_Start. *)

\* PacketProcessor_Stop: closing the handle discards what it holds.
StopCapture ==
  /\ engine = "running"
  /\ engine' = "stopping"
  /\ queue' = <<>>
  /\ UNCHANGED <<config, starts, app, failures, directCache, tracker, endpoint, acceptor, handler>>

\* LocalProxy_Stop and ConnectionTracker_Clear.  The accept loop has ended; the
\* handler threads have not: nothing stops them.
StopProxy ==
  /\ engine = "stopping"
  /\ acceptor = IdleAcceptor
  /\ engine' = "stopped"
  /\ endpoint' = [p \in Ports |->
       IF endpoint[p].st \in {"half", "queued"} THEN NoEndpoint ELSE endpoint[p]]
  /\ tracker' = [p \in Ports |-> NoEntry]
  /\ UNCHANGED <<config, starts, app, queue, failures, directCache, acceptor, handler>>

\* A new start, perhaps with other rules; the decision cache is not emptied.
Start ==
  /\ engine = "stopped" /\ starts < MaxStarts
  /\ engine' = "running"
  /\ config' \in Configs
  /\ starts' = starts + 1
  /\ UNCHANGED <<app, queue, failures, directCache, tracker, endpoint, acceptor, handler>>

Engine == StopCapture \/ StopProxy \/ Start

Accept(c) == AcceptTracked(c) \/ AcceptUntracked(c) \/ AcceptSpawn(c) \/ AcceptSpawnFails(c)

Client(c) == Connect(c) \/ RepeatSyn(c) \/ Talk(c) \/ Abort(c)

Handle(c) ==
  DialSucceeds(c) \/ DialFails(c) \/ RelayData(c) \/ RelayEnds(c) \/ RemoveEntry(c)

Next ==
  \/ \E c \in Conns : Client(c) \/ Accept(c) \/ Handle(c) \/ CacheExpires(c)
  \/ PacketStep
  \/ LosePacket
  \/ Engine

Spec == Init /\ [][Next]_vars

\* TCP repeats its SYNs, and a client that has something to send sends it; the
\* bound on the queue may refuse both for a while, hence strong fairness.  The
\* packet thread, the accept loop and a handler's last call wait for nothing, and
\* a cached decision is used for DECISION_CACHE_TTL_MS and no longer.
\* How long a proxy takes to answer a handler is not bounded by the code.
Fairness ==
  /\ WF_vars(PacketStep)
  /\ \A c \in Conns :
       /\ SF_vars(RepeatSyn(c))
       /\ SF_vars(Talk(c))
       /\ WF_vars(CacheExpires(c))
       /\ WF_vars(Accept(c))
       /\ WF_vars(RemoveEntry(c))

FairSpec == Spec /\ Fairness
-------------------------------------------------------------------------------
(* Properties. *)

TypeOK ==
  /\ engine \in {"running", "stopping", "stopped"}
  /\ config \in Configs
  /\ starts \in Nat
  /\ app \in [Conns -> {"idle", "connecting", "redirected", "direct", "closed"}]
  /\ queue \in Seq(Packet)
  /\ failures \in Nat
  /\ directCache \subseteq Ports \X Dests
  /\ tracker \in [Ports -> Entry \cup {NoEntry}]
  /\ endpoint \in [Ports -> [st: {"half", "queued", "accepted"}, conn: Conns] \cup {NoEndpoint}]
  /\ acceptor \in [conn: Conns, dest: Dests] \cup {IdleAcceptor}
  /\ handler \in [Conns -> [st: {"dialing", "relaying", "closing", "done"},
                            dest: Dests, proxy: ProxyInfo] \cup {NoHandler}]

\* An established redirected client is served by a handler for its own
\* destination, whatever other connections used its port before: the accept
\* loop looks the destination up by port long after the packet was rewritten.
HandlerServesItsClient ==
  \A c \in Conns :
    app[c] = "redirected" /\ handler[c] # NoHandler => handler[c].dest = Dest[c]

\* While a redirected client lives, the entry of its port is its own or is
\* missing: what the accept loop and the reverse NAT find there is never left
\* over from an earlier connection of the port.
TrackerAgreesWithClient ==
  \A c \in Conns :
    app[c] = "redirected" =>
      tracker[Port[c]] = NoEntry \/ tracker[Port[c]].dest = Dest[c]

\* Why: the parts of the inductive invariant.  A port has one live client, and
\* what its former clients have sent stands in the queue before everything that
\* is about the present one.
OneClientPerPort ==
  \A c, d \in Conns : c # d /\ Port[c] = Port[d] /\ Live(c) => ~Live(d)

OldPacket(i, c) ==
  queue[i].from = "client" /\ queue[i].conn # c /\ Port[queue[i].conn] = Port[c]

OldPacketsFirst ==
  \A c \in Conns : Live(c) =>
    \A i, j \in 1 .. Len(queue) : OldPacket(i, c) /\ queue[j].conn = c => i < j

NoOldPackets ==
  \A c \in Conns : app[c] = "redirected" => \A i \in 1 .. Len(queue) : ~OldPacket(i, c)

\* Nothing is known of a connection before its client opens it, and no more than
\* a half-open endpoint before the client has seen the listener's answer.
UnopenedIsUnknown ==
  \A c \in Conns : app[c] = "idle" =>
    endpoint[Port[c]].conn # c /\ \A i \in 1 .. Len(queue) : queue[i].conn # c

UnansweredIsHalfOpen ==
  \A c \in Conns : app[c] \in {"idle", "connecting"} =>
    /\ handler[c] = NoHandler /\ acceptor.conn # c
    /\ endpoint[Port[c]].conn = c => endpoint[Port[c]].st = "half"
    /\ \A i \in 1 .. Len(queue) : queue[i] # FromClient("DATA", c)

AcceptorServesItsClient ==
  \A c \in Conns :
    app[c] = "redirected" /\ acceptor.conn = c => acceptor.dest = Dest[c]

\* The whole of it: what every handler of a live client and the entry of its port
\* say about the destination, and what keeps older connections out of it.
TcpInv ==
  /\ TypeOK
  /\ OneClientPerPort /\ OldPacketsFirst /\ NoOldPackets
  /\ UnopenedIsUnknown /\ UnansweredIsHalfOpen
  /\ TrackerAgreesWithClient /\ AcceptorServesItsClient /\ HandlerServesItsClient

\* The handler of a redirected client uses the proxy its rule names, the global
\* one only where the rule names none.  Holds with one start of the engine and
\* with a port of its own for each connection.
RuleProxyHonoured ==
  \A c \in Conns :
    app[c] = "redirected" /\ handler[c] # NoHandler =>
      handler[c].proxy = Effective(c).proxy

\* A client whose rule is not BLOCK, now or after a restart, does not wait for ever
\* for its connection, although entries vanish under it, its SYN meets an older
\* connection's endpoint, packets get lost and the engine stops.
ConnectingClientIsAnswered ==
  \A c \in Conns :
    app[c] = "connecting" ~> app[c] # "connecting" \/ config.rule[c].action = "BLOCK"

\* The client's stack believes in a redirected connection, and the listener has
\* no endpoint for it: the handler closed it, the accept loop did (no entry, no
\* memory), LocalProxy_Stop did, or a reset of a late response did.
Abandoned(c) == app[c] = "redirected" /\ endpoint[Port[c]].conn # c

\* The connection was opened before the engine took its packets, which now go to
\* a listener that never heard of it.
Seized(c) ==
  /\ Capturing
  /\ app[c] = "direct"
  /\ Effective(c).action = "PROXY"
  /\ endpoint[Port[c]] = NoEndpoint

\* A client that is abandoned learns of it once it sends, and so does one that is
\* seized, unless the engine stops first: an entry removed under it is made anew
\* by its next packet, and the listener's reset finds its way back.  Where a
\* restart has brought a BLOCK rule its packets are dropped without an answer.
AbandonedClientIsReset ==
  \A c \in Conns :
    /\ Abandoned(c) ~> app[c] = "closed" \/ config.rule[c].action = "BLOCK"
    /\ Seized(c) ~> app[c] = "closed" \/ ~Capturing
===============================================================================
