-------------------------------- MODULE UdpRelay --------------------------------
(***************************************************************************)
(* The UDP relay (core/UdpRelay.c) between the packet thread, which opens  *)
(* sessions and redirects datagrams to the relay's socket, the relay       *)
(* thread, which waits for the sockets and forwards, and ProxyEngine_Stop. *)
(*                                                                         *)
(* A client is the address and port a datagram comes from.  A datagram in  *)
(* the relay's socket has the source the relay reads and, for a redirected *)
(* one, the client that sent it.  Each session has a socket of its own for *)
(* the proxy; what waits in it is known by the client that asked.  In      *)
(* AddSession the connection to the proxy and the exchange that asks it    *)
(* for a relay are a state each: connect has a time-out, the receives of   *)
(* the exchange have none.  (What the exchange sends: module ProxyTunnel.) *)
(***************************************************************************)
EXTENDS Integers, Sequences, FiniteSets

CONSTANTS
  Addrs, UdpPorts,
  Clients,      \* the endpoints whose datagrams the rules send through the proxy
  Dests,        \* the addresses they send to
  MaxSessions,  \* MAX_UDP_SESSIONS
  WaitLimit,    \* handles one WaitForMultipleObjects takes (64)
  Timeout,      \* UDP_SESSION_TIMEOUT
  MaxQueue,     \* bound: datagrams waiting in the relay's socket
  SendsTo,      \* bound: which of Dests each client sends to
  Strangers,    \* bound: the clients that also write to the relay by themselves
  Nobody

ASSUME UdpAssumption ==
  /\ Clients \subseteq Addrs \X UdpPorts /\ Dests \subseteq Addrs /\ Strangers \subseteq Clients
  /\ SendsTo \in [Clients -> SUBSET Dests]
  /\ MaxSessions \in Nat /\ WaitLimit \in Nat /\ Timeout \in Nat
  /\ MaxQueue \in Nat
  /\ Nobody \notin Clients \cup Dests \cup {"packet", "relay"}

Slots == 1 .. MaxSessions

\* selected: WSAEventSelect has made the socket non-blocking; bound: something was
\* sent through it, before that a receive fails at once.
Session == [client : Clients, dest : Dests, idle : 0 .. Timeout + 1,
            bound : BOOLEAN, selected : BOOLEAN]
NoSession == [client |-> Nobody]

Datagram == [from : Addrs \X UdpPorts, sender : Clients]

VARIABLES
  session,    \* g_sessions
  answer,     \* per slot: for whom an answer waits in its relay_udp_socket
  inbox,      \* what waits in g_listen_socket
  lock,       \* g_lock: Nobody, "packet", or "relay" across several steps
  adder,      \* the packet thread in UdpRelay_AddSession
  relay,      \* UdpRelayThread: position, sockets in its event array, loop index
  running,    \* g_running of the relay
  engine      \* ProxyEngine_Start and _Stop; "on": the packet thread captures

vars == <<session, answer, inbox, lock, adder, relay, running, engine>>

Active(s) == session[s] # NoSession
Idler == [st |-> "idle"]
Adders == {Idler}
  \cup [st : {"entering", "returned"}, client : Clients, dest : Dests]
  \cup [st : {"connecting", "asking"}, client : Clients, dest : Dests, slot : Slots]

\* AddSession talks to the proxy, with g_lock held.
Dialling == adder.st \in {"connecting", "asking"}

Init ==
  /\ session = [s \in Slots |-> NoSession]
  /\ answer = [s \in Slots |-> Nobody]
  /\ inbox = <<>> /\ lock = Nobody /\ adder = Idler
  /\ relay = [pc |-> "ended", events |-> {}, at |-> 1]
  /\ running = FALSE /\ engine = "off"

Enqueue(from, sender) ==
  inbox' = IF running /\ Len(inbox) < MaxQueue
           THEN Append(inbox, [from |-> from, sender |-> sender]) ELSE inbox

\* Mutant: the session's entry is given up, its sockets are not closed.
ForgetSessions(S) ==
  /\ session' = [s \in Slots |-> IF s \in S THEN NoSession ELSE session[s]]
  /\ UNCHANGED answer

CloseSessionSockets(S) ==
  /\ session' = [s \in Slots |-> IF s \in S THEN NoSession ELSE session[s]]
  /\ answer' = [s \in Slots |-> IF s \in S THEN Nobody ELSE answer[s]]
-------------------------------------------------------------------------------
(* The packet thread. *)

\* A datagram of a proxied flow: the thread calls AddSession.
Redirect(c, d) ==
  /\ engine = "on" /\ adder = Idler
  /\ adder' = [st |-> "entering", client |-> c, dest |-> d]
  /\ UNCHANGED <<session, answer, inbox, lock, relay, running, engine>>

SessionsOf(c) == {s \in Slots : Active(s) /\ session[s].client = c}
FreeSlots == {s \in Slots : ~Active(s)}

\* Mutant: the client's session is turned to the new destination.
AddSessionFoundRetargets ==
  /\ adder.st = "entering" /\ lock = Nobody
  /\ SessionsOf(adder.client) # {}
  /\ adder' = [adder EXCEPT !.st = "returned"]
  /\ session' = [s \in Slots |-> IF s \in SessionsOf(adder.client)
                                 THEN [session[s] EXCEPT !.dest = adder.dest] ELSE session[s]]
  /\ UNCHANGED <<answer, inbox, lock, relay, running, engine>>

\* The session goes to its first destination, whatever this datagram's is.
AddSessionFound ==
  /\ adder.st = "entering" /\ lock = Nobody
  /\ SessionsOf(adder.client) # {}
  /\ adder' = [adder EXCEPT !.st = "returned"]
  /\ UNCHANGED <<session, answer, inbox, lock, relay, running, engine>>

\* No slot: AddSession returns 0 and the packet goes out as if DIRECT.
AddSessionFull ==
  /\ adder.st = "entering" /\ lock = Nobody
  /\ SessionsOf(adder.client) = {} /\ FreeSlots = {}
  /\ adder' = Idler
  /\ UNCHANGED <<session, answer, inbox, lock, relay, running, engine>>

\* The lock is kept while the proxy is resolved, connected to and asked.
AddSessionDials ==
  /\ adder.st = "entering" /\ lock = Nobody
  /\ SessionsOf(adder.client) = {}
  /\ \E s \in FreeSlots :
       /\ \A t \in FreeSlots : s <= t
       /\ adder' = [st |-> "connecting", client |-> adder.client, dest |-> adder.dest,
                    slot |-> s]
  /\ lock' = "packet"
  /\ UNCHANGED <<session, answer, inbox, relay, running, engine>>

\* connect() returns.  Whether it can succeed is the proxy's matter, and the
\* capture's: the thread's SYN is an outbound packet too.  The filter leaves out
\* what goes to the port of the TCP listener; a SYN to any other port would have
\* to be passed on by a packet thread that does not wait for it here, by one
\* more after a given-up one or by none at all when the handle is closed.
DialSucceeds ==
  /\ adder.st = "connecting"
  /\ adder' = [adder EXCEPT !.st = "asking"]
  /\ UNCHANGED <<session, answer, inbox, lock, relay, running, engine>>

\* The name has no address, no socket, the proxy refuses or connect times out.
DialFails ==
  /\ adder.st = "connecting"
  /\ lock' = Nobody /\ adder' = Idler
  /\ UNCHANGED <<session, answer, inbox, relay, running, engine>>

\* The proxy's answers to UDP ASSOCIATE, waited for in recv without a time-out:
\* it grants a relay ...
ProxyGrants ==
  /\ adder.st = "asking"
  /\ session' = [session EXCEPT ![adder.slot] =
       [client |-> adder.client, dest |-> adder.dest, idle |-> 0,
        bound |-> FALSE, selected |-> FALSE]]
  /\ lock' = Nobody
  /\ adder' = [st |-> "returned", client |-> adder.client, dest |-> adder.dest]
  /\ UNCHANGED <<answer, inbox, relay, running, engine>>

\* ... or refuses one, or closes the connection.
ProxyRefuses ==
  /\ adder.st = "asking"
  /\ lock' = Nobody /\ adder' = Idler
  /\ UNCHANGED <<session, answer, inbox, relay, running, engine>>

\* Addresses swapped, ports kept: the relay will see the destination's address
\* with the client's port.
SendRedirected ==
  /\ adder.st = "returned"
  /\ IF engine = "on" THEN Enqueue(<<adder.dest, adder.client[2]>>, adder.client)
     ELSE UNCHANGED inbox
  /\ adder' = Idler
  /\ UNCHANGED <<session, answer, lock, relay, running, engine>>

\* The relay's socket is bound to every address: a program may also write to it
\* without being redirected.
SendToRelay(c) ==
  /\ running /\ Len(inbox) < MaxQueue
  /\ Enqueue(c, c)
  /\ UNCHANGED <<session, answer, lock, adder, relay, running, engine>>

ProxyAnswers(s) ==
  /\ Active(s) /\ session[s].bound /\ answer[s] = Nobody
  /\ answer' = [answer EXCEPT ![s] = session[s].client]
  /\ UNCHANGED <<session, inbox, lock, adder, relay, running, engine>>

Tick ==
  /\ \E s \in Slots : Active(s) /\ session[s].idle <= Timeout
  /\ session' = [s \in Slots |->
       IF Active(s) /\ session[s].idle <= Timeout
       THEN [session[s] EXCEPT !.idle = @ + 1] ELSE session[s]]
  /\ UNCHANGED <<answer, inbox, lock, adder, relay, running, engine>>
-------------------------------------------------------------------------------
(* The relay thread: while (g_running) expire, select, wait, receive. *)

RelayEnds ==
  /\ relay.pc = "expire" /\ ~running
  /\ relay' = [relay EXCEPT !.pc = "ended"]
  /\ UNCHANGED <<session, answer, inbox, lock, adder, running, engine>>

\* Mutant: the loop's condition is not looked at any more.
RelayExpireForEver ==
  /\ relay.pc = "expire" /\ lock = Nobody
  /\ CloseSessionSockets({s \in Slots : Active(s) /\ session[s].idle > Timeout})
  /\ relay' = [relay EXCEPT !.pc = "select"]
  /\ UNCHANGED <<inbox, lock, adder, running, engine>>

RelayExpire ==
  /\ relay.pc = "expire" /\ running /\ lock = Nobody
  /\ CloseSessionSockets({s \in Slots : Active(s) /\ session[s].idle > Timeout})
  /\ relay' = [relay EXCEPT !.pc = "select"]
  /\ UNCHANGED <<inbox, lock, adder, running, engine>>

Selected == {s \in Slots : Active(s)}

RelaySelect ==
  /\ relay.pc = "select" /\ lock = Nobody
  /\ session' = [s \in Slots |-> IF s \in Selected
                                 THEN [session[s] EXCEPT !.selected = TRUE] ELSE session[s]]
  /\ relay' = [relay EXCEPT !.pc = "wait", !.events = Selected]
  /\ UNCHANGED <<answer, inbox, lock, adder, running, engine>>

\* The listen socket takes a handle too.
TooManyEvents == Cardinality(relay.events) + 1 > WaitLimit
\* Mutant: the listen socket's event is created but not put into the array.
ReadyWithoutListener == \E s \in relay.events : answer[s] # Nobody
Ready == inbox # <<>> \/ \E s \in relay.events : answer[s] # Nobody

RelayWaitFails ==
  /\ relay.pc = "wait" /\ TooManyEvents
  /\ relay' = [relay EXCEPT !.pc = "expire", !.events = {}]
  /\ UNCHANGED <<session, answer, inbox, lock, adder, running, engine>>

RelayWaitTimesOut ==
  /\ relay.pc = "wait" /\ ~TooManyEvents /\ ~Ready
  /\ relay' = [relay EXCEPT !.pc = "expire", !.events = {}]
  /\ UNCHANGED <<session, answer, inbox, lock, adder, running, engine>>

RelayWakes ==
  /\ relay.pc = "wait" /\ ~TooManyEvents /\ Ready
  /\ relay' = [relay EXCEPT !.pc = "listen", !.events = {}]
  /\ UNCHANGED <<session, answer, inbox, lock, adder, running, engine>>

\* One datagram from the listen socket goes out through the socket of the session
\* its source address and port belong to; without one it is dropped.
RelayForwards ==
  /\ relay.pc = "listen"
  /\ IF inbox = <<>> THEN UNCHANGED <<session, inbox>>
     ELSE /\ lock = Nobody
          /\ session' = [s \in Slots |->
               IF s \in SessionsOf(Head(inbox).from)
               THEN [session[s] EXCEPT !.bound = TRUE, !.idle = 0] ELSE session[s]]
          /\ inbox' = Tail(inbox)
  /\ relay' = [relay EXCEPT !.pc = "enter"]
  /\ UNCHANGED <<answer, lock, adder, running, engine>>

\* Mutant: the loop's index counts from zero.
RelayEntersFromZero ==
  /\ relay.pc = "enter" /\ lock = Nobody
  /\ lock' = "relay"
  /\ relay' = [relay EXCEPT !.pc = "sessions", !.at = 0]
  /\ UNCHANGED <<session, answer, inbox, adder, running, engine>>

RelayEntersSessions ==
  /\ relay.pc = "enter" /\ lock = Nobody
  /\ lock' = "relay"
  /\ relay' = [relay EXCEPT !.pc = "sessions", !.at = 1]
  /\ UNCHANGED <<session, answer, inbox, adder, running, engine>>

\* recvfrom returns at once unless the socket is bound, empty and still blocking.
WouldBlock(s) == /\ Active(s) /\ answer[s] = Nobody
                 /\ session[s].bound /\ ~session[s].selected

\* The session at the loop's index: its answer, if there is one, goes to its client.
RelayReceives ==
  /\ relay.pc = "sessions" /\ relay.at \in Slots /\ ~WouldBlock(relay.at)
  /\ IF Active(relay.at) /\ answer[relay.at] # Nobody
     THEN /\ session' = [session EXCEPT ![relay.at].idle = 0]
          /\ answer' = [answer EXCEPT ![relay.at] = Nobody]
     ELSE UNCHANGED <<session, answer>>
  /\ relay' = [relay EXCEPT !.at = @ + 1]
  /\ UNCHANGED <<inbox, lock, adder, running, engine>>

RelayLoops ==
  /\ relay.pc = "sessions" /\ relay.at \notin Slots
  /\ lock' = Nobody
  /\ relay' = [relay EXCEPT !.pc = "expire", !.at = 1]
  /\ UNCHANGED <<session, answer, inbox, adder, running, engine>>

RelayStep ==
  \/ RelayEnds \/ RelayExpire \/ RelaySelect
  \/ RelayWaitFails \/ RelayWaitTimesOut \/ RelayWakes
  \/ RelayForwards \/ RelayEntersSessions \/ RelayReceives \/ RelayLoops
-------------------------------------------------------------------------------
(* Start and stop. *)

\* (Bound: not while a relay thread the last stop gave up still runs; module
\* EngineLifecycle has such a start.)
Start ==
  /\ engine = "off" /\ relay.pc = "ended"
  /\ engine' = "on" /\ running' = TRUE
  /\ inbox' = <<>>
  /\ relay' = [relay EXCEPT !.pc = "expire"]
  /\ UNCHANGED <<session, answer, lock, adder>>

\* PacketProcessor_Stop closes the driver's handle ...
StopCapture ==
  /\ engine = "on"
  /\ engine' = "stopping"
  /\ UNCHANGED <<session, answer, inbox, lock, adder, relay, running>>

\* ... and waits five seconds for the packet thread: longer only for one that is
\* held up in AddSession.  Then UdpRelay_Stop begins.
HeldUp == Dialling \/ (adder.st = "entering" /\ lock # Nobody)

StopRelay ==
  /\ engine = "stopping" /\ (adder = Idler \/ HeldUp)
  /\ running' = FALSE /\ inbox' = <<>>
  /\ engine' = "closing"
  /\ UNCHANGED <<session, answer, lock, adder, relay>>

\* Mutant: UdpRelay_Stop closes only the sessions the relay has used.
StopUsedSessions ==
  /\ engine = "closing" /\ lock = Nobody
  /\ CloseSessionSockets({s \in Slots : Active(s) /\ session[s].bound})
  /\ engine' = "joining"
  /\ UNCHANGED <<inbox, lock, adder, relay, running>>

StopSessions ==
  /\ engine = "closing" /\ lock = Nobody
  /\ CloseSessionSockets(Slots)
  /\ engine' = "joining"
  /\ UNCHANGED <<inbox, lock, adder, relay, running>>

\* The relay thread looks at g_running at least once a second, unless it waits
\* for the lock or sits in recvfrom: after five seconds Stop goes on without it.
RelayHeldUp == relay.pc # "ended" /\ lock # Nobody

StopJoins ==
  /\ engine = "joining" /\ (relay.pc = "ended" \/ RelayHeldUp)
  /\ engine' = "off"
  /\ UNCHANGED <<session, answer, inbox, lock, adder, relay, running>>

PacketStep == AddSessionFound \/ AddSessionFull \/ AddSessionDials \/ SendRedirected
Dial == DialSucceeds \/ DialFails
Stopping == StopRelay \/ StopSessions \/ StopJoins

Next ==
  \/ \E c \in Clients : \E d \in SendsTo[c] : Redirect(c, d)
  \/ PacketStep \/ Dial \/ ProxyGrants \/ ProxyRefuses
  \/ \E c \in Strangers : SendToRelay(c)
  \/ \E s \in Slots : ProxyAnswers(s)
  \/ Tick \/ RelayStep
  \/ Start \/ StopCapture \/ Stopping

Spec == Init /\ [][Next]_vars

\* The threads run, connect ends by its time-out at the latest, and whoever waits
\* for the critical section gets it although others use it again and again.
\* Nothing is assumed of the proxy's answers, the clients or the user.
Fairness ==
  /\ SF_vars(PacketStep) /\ WF_vars(Dial)
  /\ SF_vars(RelayStep) /\ SF_vars(Stopping)
FairSpec == Spec /\ Fairness
-------------------------------------------------------------------------------
TypeOK ==
  /\ session \in [Slots -> Session \cup {NoSession}]
  /\ answer \in [Slots -> Clients \cup {Nobody}]
  /\ inbox \in Seq(Datagram) /\ Len(inbox) <= MaxQueue
  /\ lock \in {Nobody, "packet", "relay"} /\ adder \in Adders
  /\ relay \in [pc : {"expire", "select", "wait", "listen", "enter", "sessions", "ended"},
                events : SUBSET Slots, at : 1 .. MaxSessions + 1]
  /\ running \in BOOLEAN
  /\ engine \in {"off", "on", "stopping", "closing", "joining"}

\* A client never has two sessions, although AddSession looks for one, lets seconds
\* pass with the proxy and only then fills the slot: otherwise answers would come
\* back through a session the relay no longer sends to.
OneSessionPerClient ==
  \A s, t \in Slots : Active(s) /\ Active(t) /\ session[s].client = session[t].client => s = t

\* What waits in a slot's socket was asked for by the slot's present client: no
\* answer to an expired session reaches the client that got the slot after it.
AnswersAreForTheirClient ==
  \A s \in Slots : answer[s] # Nobody => Active(s) /\ session[s].client = answer[s]

\* "Close all sessions" in UdpRelay_Stop leaves none behind but the one of a packet
\* thread that Stop gave up on while it was held up in AddSession.
Surviving == engine \in {"joining", "off"}
AtMostOneSurvivor ==
  Surviving => \A s, t \in Slots : Active(s) /\ Active(t) => s = t

\* The relay thread is stuck in recvfrom with g_lock held.
Stuck == relay.pc = "sessions" /\ relay.at \in Slots /\ WouldBlock(relay.at)

\* Where the proxy does not leave AddSession without an answer for ever, nor the
\* relay thread in recvfrom, nobody keeps g_lock for ever.
LockIsReleased == []<>(adder.st # "asking") /\ []<>~Stuck

\* A datagram in the relay's socket is taken in the end, with AddSession holding
\* the lock for seconds and sessions coming and going: the thread never sleeps
\* through one.  It needs a lock that comes free, and no more sockets than
\* WaitForMultipleObjects takes.
DatagramsAreTaken ==
  LockIsReleased /\ <>[]~TooManyEvents => (inbox # <<>> ~> inbox = <<>>)

\* Stopping the engine comes to an end although the packet thread, one that is
\* given up too, may hold the lock that UdpRelay_Stop needs: it needs a lock that
\* comes free, nothing else.
StopReturns ==
  LockIsReleased => (engine = "stopping" ~> engine = "off")

\* UdpRelay.h:25 "Add a UDP session for proxying.  Returns the local relay port to
\* redirect packets to": the relay finds the session of a redirected datagram.
RedirectedDatagramHasSession ==
  \A i \in 1 .. Len(inbox) :
    SessionsOf(inbox[i].sender) # {} => SessionsOf(inbox[i].from) # {}

\* What the relay promises its clients: see UdpSessions.
Destination ==
  [c \in Clients |-> IF SessionsOf(c) = {} THEN Nobody
                     ELSE session[CHOOSE s \in SessionsOf(c) : TRUE].dest]
Asked == {session[s].client : s \in {t \in Slots : Active(t) /\ session[t].bound}}
Waiting == {answer[s] : s \in Slots} \ {Nobody}

Sessions == INSTANCE UdpSessions WITH
  Capacity <- MaxSessions, None <- Nobody,
  dest <- Destination, asked <- Asked, waiting <- Waiting

\* Slots that are filled, expired, reused and closed under the three threads look to each
\* client like a session of its own: it keeps its destination, and an answer in a slot is for
\* a client that asked through the session the slot holds now.
ImplementsSessions == Sessions!Spec
===============================================================================
