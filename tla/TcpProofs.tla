------------------------------ MODULE TcpProofs -------------------------------
(***************************************************************************)
(* Proofs about the redirection of TCP connections (TcpRedirect): for any  *)
(* connections, ports, destinations, rules and bounds, the handler of a    *)
(* live redirected client serves that client's own destination, although   *)
(* the tracker is keyed by the port alone and entries are overwritten and  *)
(* removed by other connections of the port.                               *)
(*                                                                         *)
(* The argument is about the order of the packets: one packet thread takes *)
(* them as they come, and TCP gives a port to a new client only after the  *)
(* former one is gone, so once the new client has its answer nothing the   *)
(* former one sent can overwrite the entry any more (TcpInv).              *)
(***************************************************************************)
EXTENDS TcpRedirect, SequenceTheorems, TLAPS

-------------------------------------------------------------------------------
(* The queue: a step drops packets at the front and may add one at the end. *)

Grows(S) ==
  /\ queue' \in Seq(Packet)
  /\ \E k \in Nat : \A i \in 1 .. Len(queue') :
       \/ i + k \in 1 .. Len(queue) /\ queue'[i] = queue[i + k]
       \/ i = Len(queue') /\ queue'[i] \in S

\* All the ways in which the actions change the queue.
LEMMA QueueGrows ==
  ASSUME TypeOK, NEW S \in SUBSET Packet
  PROVE  /\ UNCHANGED queue => Grows(S)
         /\ queue' = <<>> => Grows(S)
         /\ queue # <<>> /\ queue' = Tail(queue) => Grows(S)
         /\ queue # <<>> /\ Answer(<<>>) => Grows(S)
         /\ \A s \in S : Send(<<s>>) => Grows(S)
         /\ \A s \in S : queue # <<>> /\ Answer(<<s>>) => Grows(S)
<1>0. queue \in Seq(Packet) /\ Len(queue) \in Nat
  BY LenProperties DEF TypeOK
<1>1. ASSUME UNCHANGED queue PROVE Grows(S)
  <2>1. \A i \in 1 .. Len(queue') : i + 0 \in 1 .. Len(queue) /\ queue'[i] = queue[i + 0]
    BY <1>0, <1>1
  <2> QED BY <1>0, <1>1, <2>1 DEF Grows
<1>2. ASSUME queue' = <<>> PROVE Grows(S)
  <2>1. queue' \in Seq(Packet) /\ Len(queue') = 0
    BY <1>2, EmptySeq
  <2> QED BY <2>1 DEF Grows
<1>3. ASSUME queue # <<>>, queue' = Tail(queue) PROVE Grows(S)
  <2>1. /\ queue' \in Seq(Packet) /\ Len(queue') = Len(queue) - 1
        /\ \A i \in 1 .. Len(queue') : queue'[i] = queue[i + 1]
    BY <1>0, <1>3, HeadTailProperties
  <2>2. \A i \in 1 .. Len(queue') : i + 1 \in 1 .. Len(queue) /\ queue'[i] = queue[i + 1]
    BY <1>0, <2>1
  <2> QED BY <2>1, <2>2 DEF Grows
<1>4. ASSUME NEW s \in S, NEW q \in Seq(Packet), NEW k \in Nat,
             Len(q) + k = Len(queue),
             \A i \in 1 .. Len(q) : q[i] = queue[i + k],
             queue' = q \o <<s>>
      PROVE  Grows(S)
  <2>0. Len(q) \in Nat
    BY LenProperties
  <2>1. <<s>> \in Seq(Packet) /\ Len(<<s>>) = 1 /\ <<s>>[1] = s
    OBVIOUS
  <2>2. /\ queue' \in Seq(Packet) /\ Len(queue') = Len(q) + Len(<<s>>)
        /\ \A i \in 1 .. Len(q) + Len(<<s>>) :
             queue'[i] = IF i <= Len(q) THEN q[i] ELSE <<s>>[i - Len(q)]
    BY <1>4, <2>1, ConcatProperties
  <2>3. ASSUME NEW i \in 1 .. Len(queue')
        PROVE  \/ i + k \in 1 .. Len(queue) /\ queue'[i] = queue[i + k]
               \/ i = Len(queue') /\ queue'[i] \in S
    <3>1. CASE i <= Len(q)
      BY <1>0, <1>4, <2>0, <2>1, <2>2, <3>1
    <3>2. CASE ~(i <= Len(q))
      <4>1. i = Len(q) + 1
        BY <2>0, <2>1, <2>2, <3>2
      <4> QED BY <2>0, <2>1, <2>2, <4>1
    <3> QED BY <3>1, <3>2
  <2> QED BY <2>2, <2>3 DEF Grows
<1>5. ASSUME NEW s \in S, Send(<<s>>) PROVE Grows(S)
  <2>1. queue' = queue \o <<s>>
    BY <1>5 DEF Send, Behind
  <2>2. \A i \in 1 .. Len(queue) : queue[i] = queue[i + 0]
    BY <1>0
  <2>3. Len(queue) + 0 = Len(queue)
    BY <1>0
  <2> QED BY <1>0, <1>4, <2>1, <2>2, <2>3
<1>6. ASSUME NEW s \in S, queue # <<>>, Answer(<<s>>) PROVE Grows(S)
  <2>1. queue' = Tail(queue) \o <<s>>
    BY <1>6 DEF Answer, Behind
  <2>2. /\ Tail(queue) \in Seq(Packet) /\ Len(Tail(queue)) = Len(queue) - 1
        /\ \A i \in 1 .. Len(Tail(queue)) : Tail(queue)[i] = queue[i + 1]
    BY <1>0, <1>6, HeadTailProperties
  <2>3. Len(Tail(queue)) + 1 = Len(queue)
    BY <1>0, <2>2
  <2> QED BY <1>4, <2>1, <2>2, <2>3
<1>7. ASSUME queue # <<>>, Answer(<<>>) PROVE Grows(S)
  <2>1. Tail(queue) \in Seq(Packet)
    BY <1>0, <1>7, HeadTailProperties
  <2>2. queue' = Tail(queue)
    BY <1>7, <2>1, ConcatEmptySeq DEF Answer, Behind
  <2> QED BY <1>3, <1>7, <2>2
<1> QED
  BY <1>1, <1>2, <1>3, <1>5, <1>6, <1>7
-------------------------------------------------------------------------------
(* Who may add a packet, and how a client's socket moves meanwhile. *)

SendsSafely(S) ==
  \A c \in Conns :
    /\ app'[c] = "idle" => app[c] = "idle" /\ \A s \in S : s.conn # c
    /\ app'[c] = "connecting" =>
         app[c] \in {"idle", "connecting"} /\ FromClient("DATA", c) \notin S
    /\ Live(c)' => Live(c) \/ app[c] = "idle"
    /\ app'[c] = "redirected" =>
         \/ app[c] = "redirected"
         \/ Live(c) /\ queue # <<>> /\ Head(queue).conn = c
    /\ \A s \in S :
         s.from = "client" /\ s.conn # c /\ Port[s.conn] = Port[c] => ~Live(c)'

\* No socket moves.
LEMMA QuietStep ==
  ASSUME TcpInv, UNCHANGED app, NEW S \in SUBSET Packet,
         \A s \in S :
           /\ app[s.conn] # "idle"
           /\ s.from = "client" => Live(s.conn)
           /\ s.from = "client" /\ s.kind = "DATA" => app[s.conn] # "connecting"
  PROVE  SendsSafely(S) /\ OneClientPerPort'
<1>1. OneClientPerPort'
  BY DEF TcpInv, OneClientPerPort, Live
<1>2. SendsSafely(S)
  <2> SUFFICES ASSUME NEW c \in Conns
               PROVE  /\ app[c] = "idle" => \A s \in S : s.conn # c
                      /\ app[c] = "connecting" => FromClient("DATA", c) \notin S
                      /\ \A s \in S :
                           s.from = "client" /\ s.conn # c /\ Port[s.conn] = Port[c]
                             => ~Live(c)
    BY DEF SendsSafely, Live
  <2>1. app[c] = "idle" => \A s \in S : s.conn # c
    OBVIOUS
  <2>2. app[c] = "connecting" => FromClient("DATA", c) \notin S
    BY DEF FromClient
  <2>3. ASSUME NEW s \in S, s.from = "client", s.conn # c, Port[s.conn] = Port[c]
        PROVE  ~Live(c)
    <3>1. s.conn \in Conns
      BY DEF Packet
    <3> QED BY <2>3, <3>1 DEF TcpInv, OneClientPerPort
  <2> QED BY <2>1, <2>2, <2>3
<1> QED
  BY <1>1, <1>2

\* The socket of c moves; only packets of c are sent.
LEMMA SocketStep ==
  ASSUME TcpInv, NEW c \in Conns,
         NEW x \in {"connecting", "redirected", "direct", "closed"},
         app' = [app EXCEPT ![c] = x],
         Live(c) \/ app[c] = "idle",
         app[c] = "idle" => \A d \in Conns \ {c} : Port[d] = Port[c] => ~Live(d),
         x = "connecting" => app[c] = "idle",
         x = "redirected" => Live(c) /\ queue # <<>> /\ Head(queue).conn = c,
         NEW S \in SUBSET Packet,
         \A s \in S : s.conn = c,
         x = "connecting" => \A s \in S : s.kind # "DATA"
  PROVE  SendsSafely(S) /\ OneClientPerPort'
<1>0. /\ app'[c] = x
      /\ \A d \in Conns \ {c} : app'[d] = app[d]
      /\ \A d \in Conns \ {c} : Live(d)' <=> Live(d)
  BY DEF TcpInv, TypeOK, Live
<1>1. \A d \in Conns \ {c} : Port[d] = Port[c] => ~Live(d)
  BY DEF TcpInv, OneClientPerPort
<1>2. OneClientPerPort'
  <2> SUFFICES ASSUME NEW a \in Conns, NEW b \in Conns, a # b, Port[a] = Port[b], Live(a)'
               PROVE  ~Live(b)'
    BY DEF OneClientPerPort
  <2>1. CASE a = c
    BY <1>0, <1>1, <2>1
  <2>2. CASE b = c
    BY <1>0, <1>1, <2>2
  <2>3. CASE a # c /\ b # c
    BY <1>0, <2>3 DEF TcpInv, OneClientPerPort
  <2> QED BY <2>1, <2>2, <2>3
<1>3. SendsSafely(S)
  <2> SUFFICES ASSUME NEW d \in Conns
               PROVE  /\ app'[d] = "idle" => app[d] = "idle" /\ \A s \in S : s.conn # d
                      /\ app'[d] = "connecting" =>
                           /\ app[d] \in {"idle", "connecting"}
                           /\ FromClient("DATA", d) \notin S
                      /\ Live(d)' => Live(d) \/ app[d] = "idle"
                      /\ app'[d] = "redirected" =>
                           \/ app[d] = "redirected"
                           \/ Live(d) /\ queue # <<>> /\ Head(queue).conn = d
                      /\ \A s \in S :
                           s.from = "client" /\ s.conn # d /\ Port[s.conn] = Port[d]
                             => ~Live(d)'
    BY DEF SendsSafely
  <2>1. CASE d = c
    BY <1>0, <2>1 DEF FromClient
  <2>2. CASE d # c
    BY <1>0, <1>1, <2>2 DEF FromClient
  <2> QED BY <2>1, <2>2
<1> QED
  BY <1>2, <1>3

\* What is safely sent keeps the order of the queue.
LEMMA OrderPreserved ==
  ASSUME TcpInv, NEW S \in SUBSET Packet, Grows(S), SendsSafely(S)
  PROVE  /\ OldPacketsFirst'
         /\ NoOldPackets'
         /\ \A c \in Conns : app'[c] = "idle" =>
              \A i \in 1 .. Len(queue') : queue'[i].conn # c
         /\ \A c \in Conns : app'[c] \in {"idle", "connecting"} =>
              \A i \in 1 .. Len(queue') : queue'[i] # FromClient("DATA", c)
<1>0. /\ queue \in Seq(Packet) /\ Len(queue) \in Nat
      /\ queue' \in Seq(Packet) /\ Len(queue') \in Nat
      /\ \A i \in 1 .. Len(queue) : queue[i] \in Packet
  BY LenProperties, ElementOfSeq DEF TcpInv, TypeOK, Grows
<1>1. PICK k \in Nat : \A i \in 1 .. Len(queue') :
        \/ i + k \in 1 .. Len(queue) /\ queue'[i] = queue[i + k]
        \/ i = Len(queue') /\ queue'[i] \in S
  BY DEF Grows
<1>2. \A c \in Conns : app'[c] = "idle" => \A i \in 1 .. Len(queue') : queue'[i].conn # c
  BY <1>1 DEF SendsSafely, TcpInv, UnopenedIsUnknown
<1>3. \A c \in Conns : app'[c] \in {"idle", "connecting"} =>
        \A i \in 1 .. Len(queue') : queue'[i] # FromClient("DATA", c)
  <2> SUFFICES ASSUME NEW c \in Conns, app'[c] \in {"idle", "connecting"},
                      NEW i \in 1 .. Len(queue')
               PROVE  queue'[i] # FromClient("DATA", c)
    OBVIOUS
  <2>1. app[c] \in {"idle", "connecting"} /\ FromClient("DATA", c) \notin S
    <3>1. CASE app'[c] = "connecting"
      BY <3>1 DEF SendsSafely
    <3>2. CASE app'[c] = "idle"
      BY <3>2 DEF SendsSafely, FromClient
    <3> QED BY <3>1, <3>2
  <2>2. CASE i + k \in 1 .. Len(queue) /\ queue'[i] = queue[i + k]
    BY <2>1, <2>2 DEF TcpInv, UnansweredIsHalfOpen
  <2>3. CASE queue'[i] \in S
    BY <2>1, <2>3
  <2> QED BY <1>1, <2>2, <2>3
<1>4. OldPacketsFirst'
  <2> SUFFICES ASSUME NEW c \in Conns, Live(c)',
                      NEW i \in 1 .. Len(queue'), NEW j \in 1 .. Len(queue'),
                      OldPacket(i, c)', queue'[j].conn = c
               PROVE  i < j
    BY DEF OldPacketsFirst
  <2>1. queue'[i].from = "client" /\ queue'[i].conn # c /\ Port[queue'[i].conn] = Port[c]
    BY DEF OldPacket
  <2>2. queue'[i] \notin S
    BY <2>1 DEF SendsSafely
  <2>3. i + k \in 1 .. Len(queue) /\ queue'[i] = queue[i + k]
    BY <1>1, <2>2
  <2>4. CASE j = Len(queue')
    <3>1. i # j
      BY <2>1
    <3> QED BY <1>0, <2>4, <3>1
  <2>5. CASE j + k \in 1 .. Len(queue) /\ queue'[j] = queue[j + k]
    <3>1. Live(c)
      BY <2>5 DEF SendsSafely, TcpInv, UnopenedIsUnknown
    <3>2. i + k < j + k
      BY <2>1, <2>3, <2>5, <3>1 DEF TcpInv, OldPacketsFirst, OldPacket
    <3> QED BY <3>2
  <2> QED BY <1>1, <2>4, <2>5
<1>5. NoOldPackets'
  <2> SUFFICES ASSUME NEW c \in Conns, app'[c] = "redirected",
                      NEW i \in 1 .. Len(queue'), OldPacket(i, c)'
               PROVE  FALSE
    BY DEF NoOldPackets
  <2>1. queue'[i].from = "client" /\ queue'[i].conn # c /\ Port[queue'[i].conn] = Port[c]
    BY DEF OldPacket
  <2>2. queue'[i] \notin S
    BY <2>1 DEF SendsSafely, Live
  <2>3. i + k \in 1 .. Len(queue) /\ OldPacket(i + k, c)
    BY <1>1, <2>1, <2>2 DEF OldPacket
  <2>4. CASE app[c] = "redirected"
    BY <2>3, <2>4 DEF TcpInv, NoOldPackets
  <2>5. CASE Live(c) /\ queue # <<>> /\ Head(queue).conn = c
    <3>1. 1 \in 1 .. Len(queue) /\ queue[1].conn = c
      BY <1>0, <2>3, <2>5
    <3>2. i + k < 1
      BY <2>3, <2>5, <3>1 DEF TcpInv, OldPacketsFirst
    <3> QED BY <2>3, <3>2
  <2> QED BY <2>4, <2>5 DEF SendsSafely
<1> QED
  BY <1>2, <1>3, <1>4, <1>5
-------------------------------------------------------------------------------
(* The rest of the invariant, and what the actions leave of it. *)

EndpointsKnown ==
  \A c \in Conns :
    /\ app[c] = "idle" => endpoint[Port[c]].conn # c
    /\ app[c] = "connecting" /\ endpoint[Port[c]].conn = c => endpoint[Port[c]].st = "half"

ThreadsKnown ==
  \A c \in Conns :
    app[c] \in {"idle", "connecting"} => handler[c] = NoHandler /\ acceptor.conn # c

LEMMA Assembled ==
  ASSUME TcpInv, NEW S \in SUBSET Packet, Grows(S), SendsSafely(S),
         TypeOK', OneClientPerPort', EndpointsKnown', ThreadsKnown',
         TrackerAgreesWithClient', AcceptorServesItsClient', HandlerServesItsClient'
  PROVE  TcpInv'
<1>1. /\ OldPacketsFirst'
      /\ NoOldPackets'
      /\ \A c \in Conns : app'[c] = "idle" =>
           \A i \in 1 .. Len(queue') : queue'[i].conn # c
      /\ \A c \in Conns : app'[c] \in {"idle", "connecting"} =>
           \A i \in 1 .. Len(queue') : queue'[i] # FromClient("DATA", c)
  BY OrderPreserved
<1>2. UnopenedIsUnknown'
  BY <1>1 DEF UnopenedIsUnknown, EndpointsKnown
<1>3. UnansweredIsHalfOpen'
  <2> SUFFICES ASSUME NEW c \in Conns, app'[c] \in {"idle", "connecting"}
               PROVE  /\ handler'[c] = NoHandler /\ acceptor'.conn # c
                      /\ endpoint'[Port[c]].conn = c => endpoint'[Port[c]].st = "half"
                      /\ \A i \in 1 .. Len(queue') : queue'[i] # FromClient("DATA", c)
    BY DEF UnansweredIsHalfOpen, FromClient
  <2>1. handler'[c] = NoHandler /\ acceptor'.conn # c
    BY DEF ThreadsKnown
  <2>2. endpoint'[Port[c]].conn = c => endpoint'[Port[c]].st = "half"
    BY DEF EndpointsKnown
  <2>3. \A i \in 1 .. Len(queue') : queue'[i] # FromClient("DATA", c)
    BY <1>1
  <2> QED BY <2>1, <2>2, <2>3
<1> QED
  BY <1>1, <1>2, <1>3 DEF TcpInv

\* The listener's endpoints stay or go.
EndpointsShrink ==
  \A p \in Ports : endpoint'[p] \in {endpoint[p], NoEndpoint}

LEMMA EndpointsStayKnown ==
  ASSUME TcpInv, NEW S, SendsSafely(S), EndpointsShrink
  PROVE  EndpointsKnown'
<1> SUFFICES ASSUME NEW c \in Conns
             PROVE  /\ app'[c] = "idle" => endpoint'[Port[c]].conn # c
                    /\ app'[c] = "connecting" /\ endpoint'[Port[c]].conn = c =>
                         endpoint'[Port[c]].st = "half"
  BY DEF EndpointsKnown
<1>1. Port[c] \in Ports
  BY ConnAssumption
<1>2. NoEndpoint.conn # c
  BY ConnAssumption DEF NoEndpoint
<1>3. app'[c] \in {"idle", "connecting"} => app[c] \in {"idle", "connecting"}
  BY DEF SendsSafely
<1>4. app'[c] = "idle" => app[c] = "idle"
  BY DEF SendsSafely
<1>5. CASE endpoint'[Port[c]] = NoEndpoint
  BY <1>2, <1>5
<1>6. CASE endpoint'[Port[c]] = endpoint[Port[c]]
  BY <1>3, <1>4, <1>6 DEF TcpInv, UnopenedIsUnknown, UnansweredIsHalfOpen
<1> QED
  BY <1>1, <1>5, <1>6 DEF EndpointsShrink

LEMMA ThreadsStayKnown ==
  ASSUME TcpInv, NEW S, SendsSafely(S), UNCHANGED <<acceptor, handler>>
  PROVE  ThreadsKnown'
<1>1. \A c \in Conns : app'[c] \in {"idle", "connecting"} => app[c] \in {"idle", "connecting"}
  BY DEF SendsSafely
<1> QED
  BY <1>1 DEF ThreadsKnown, TcpInv, UnansweredIsHalfOpen

\* What tracker, acceptor and handlers say stays right while no further client
\* is redirected: they keep what they say, or entries go.
LEMMA StillServed ==
  ASSUME TcpInv, UNCHANGED <<acceptor, handler>>,
         \A p \in Ports : tracker'[p] \in {tracker[p], NoEntry},
         \A c \in Conns : app'[c] = "redirected" => app[c] = "redirected"
  PROVE  TrackerAgreesWithClient' /\ AcceptorServesItsClient' /\ HandlerServesItsClient'
<1>1. TrackerAgreesWithClient'
  <2> SUFFICES ASSUME NEW c \in Conns, app'[c] = "redirected"
               PROVE  tracker'[Port[c]] = NoEntry \/ tracker'[Port[c]].dest = Dest[c]
    BY DEF TrackerAgreesWithClient
  <2>1. Port[c] \in Ports
    BY ConnAssumption
  <2> QED BY <2>1 DEF TcpInv, TrackerAgreesWithClient
<1>2. AcceptorServesItsClient' /\ HandlerServesItsClient'
  BY DEF TcpInv, AcceptorServesItsClient, HandlerServesItsClient
<1> QED
  BY <1>1, <1>2
-------------------------------------------------------------------------------
(* Clients. *)

LEMMA PacketTypes ==
  ASSUME NEW c \in Conns, NEW kind \in {"SYN", "DATA", "RST", "SYNACK", "FIN"}
  PROVE  /\ FromClient(kind, c) \in Packet
         /\ FromClient(kind, c).from = "client"
         /\ FromClient(kind, c).kind = kind
         /\ FromClient(kind, c).conn = c
         /\ FromListener(kind, c) \in Packet
         /\ FromListener(kind, c).from = "listener"
         /\ FromListener(kind, c).kind = kind
         /\ FromListener(kind, c).conn = c
BY DEF FromClient, FromListener, Packet

\* The types of what no property depends on.
OuterOK ==
  /\ engine \in {"running", "stopping", "stopped"}
  /\ config \in Configs
  /\ starts \in Nat
  /\ app \in [Conns -> {"idle", "connecting", "redirected", "direct", "closed"}]
  /\ failures \in Nat
  /\ directCache \subseteq Ports \X Dests

\* A step that touches sockets and queue only, and redirects nobody.
LEMMA SocketsAndQueue ==
  ASSUME TcpInv, NEW S \in SUBSET Packet, Grows(S), SendsSafely(S), OneClientPerPort',
         OuterOK',
         \A c \in Conns : app'[c] = "redirected" => app[c] = "redirected",
         UNCHANGED <<tracker, endpoint, acceptor, handler>>
  PROVE  TcpInv'
<1>1. TypeOK'
  BY DEF TcpInv, TypeOK, OuterOK, Grows
<1>2. EndpointsKnown'
  BY EndpointsStayKnown DEF EndpointsShrink
<1>3. ThreadsKnown'
  BY ThreadsStayKnown
<1>4. TrackerAgreesWithClient' /\ AcceptorServesItsClient' /\ HandlerServesItsClient'
  BY StillServed
<1> QED
  BY <1>1, <1>2, <1>3, <1>4, Assembled

LEMMA ConnectPreserves ==
  ASSUME TcpInv, NEW c \in Conns, Connect(c)
  PROVE  TcpInv'
<1> DEFINE S == {FromClient("SYN", c)}
<1>0. S \in SUBSET Packet /\ \A s \in S : s.conn = c /\ s.kind # "DATA"
  BY PacketTypes
<1>1. PICK x \in {"connecting", "direct"} : app' = [app EXCEPT ![c] = x]
  BY DEF Connect
<1>a. app[c] = "idle" /\ \A d \in Conns \ {c} : Port[d] = Port[c] => ~Live(d)
  BY DEF Connect
<1>2. Grows(S)
  BY <1>0, QueueGrows DEF Connect, TcpInv
<1>3. SendsSafely(S) /\ OneClientPerPort'
  BY <1>0, <1>1, <1>a, SocketStep
<1>4. OuterOK'
  BY <1>1 DEF Connect, TcpInv, TypeOK, OuterOK, engineVars
<1>5. \A d \in Conns : app'[d] = "redirected" => app[d] = "redirected"
  BY <1>1 DEF Connect, TcpInv, TypeOK
<1> QED
  BY <1>0, <1>2, <1>3, <1>4, <1>5, SocketsAndQueue DEF Connect

LEMMA RepeatSynPreserves ==
  ASSUME TcpInv, NEW c \in Conns, RepeatSyn(c)
  PROVE  TcpInv'
<1> DEFINE S == {FromClient("SYN", c)}
<1>0. S \in SUBSET Packet
      /\ \A s \in S : s.conn = c /\ s.kind # "DATA" /\ s.from = "client"
  BY PacketTypes
<1>1. app[c] = "connecting" /\ Live(c)
  BY DEF RepeatSyn, Live
<1>2. Grows(S)
  BY <1>0, QueueGrows DEF RepeatSyn, TcpInv
<1>3. SendsSafely(S) /\ OneClientPerPort'
  <2>1. CASE UNCHANGED app
    BY <1>0, <1>1, <2>1, QuietStep
  <2>2. CASE app' = [app EXCEPT ![c] = "direct"]
    BY <1>0, <1>1, <2>2, SocketStep
  <2> QED BY <2>1, <2>2 DEF RepeatSyn
<1>4. OuterOK'
  BY DEF RepeatSyn, TcpInv, TypeOK, OuterOK, engineVars
<1>5. \A d \in Conns : app'[d] = "redirected" => app[d] = "redirected"
  BY DEF RepeatSyn, TcpInv, TypeOK
<1> QED
  BY <1>0, <1>2, <1>3, <1>4, <1>5, SocketsAndQueue DEF RepeatSyn

LEMMA TalkPreserves ==
  ASSUME TcpInv, NEW c \in Conns, Talk(c)
  PROVE  TcpInv'
<1> DEFINE S == {FromClient("DATA", c)}
<1>0. S \in SUBSET Packet /\ \A s \in S : s.conn = c
  BY PacketTypes
<1>1. app[c] \in {"redirected", "direct"} /\ Live(c)
  BY DEF Talk, Live
<1>2. Grows(S)
  BY <1>0, QueueGrows DEF Talk, TcpInv
<1>3. SendsSafely(S) /\ OneClientPerPort'
  <2>1. CASE UNCHANGED app
    BY <1>0, <1>1, <2>1, QuietStep
  <2>2. CASE app' = [app EXCEPT ![c] = "closed"]
    BY <1>0, <1>1, <2>2, SocketStep
  <2> QED BY <2>1, <2>2 DEF Talk
<1>4. OuterOK'
  BY DEF Talk, TcpInv, TypeOK, OuterOK, engineVars
<1>5. \A d \in Conns : app'[d] = "redirected" => app[d] = "redirected"
  BY DEF Talk, TcpInv, TypeOK
<1> QED
  BY <1>0, <1>2, <1>3, <1>4, <1>5, SocketsAndQueue DEF Talk

LEMMA AbortPreserves ==
  ASSUME TcpInv, NEW c \in Conns, Abort(c)
  PROVE  TcpInv'
<1> DEFINE S == {FromClient("RST", c)}
<1>0. S \in SUBSET Packet /\ \A s \in S : s.conn = c
  BY PacketTypes
<1>1. Live(c) /\ app' = [app EXCEPT ![c] = "closed"]
  BY DEF Abort
<1>2. Grows(S)
  BY <1>0, QueueGrows DEF Abort, TcpInv
<1>3. SendsSafely(S) /\ OneClientPerPort'
  <2>1. app[c] # "idle"
    BY <1>1 DEF Live
  <2> QED BY <1>0, <1>1, <2>1, SocketStep
<1>4. OuterOK'
  BY <1>1 DEF Abort, TcpInv, TypeOK, OuterOK, engineVars
<1>5. \A d \in Conns : app'[d] = "redirected" => app[d] = "redirected"
  BY <1>1 DEF Abort, TcpInv, TypeOK
<1> QED
  BY <1>0, <1>2, <1>3, <1>4, <1>5, SocketsAndQueue DEF Abort
-------------------------------------------------------------------------------
(* The packet thread. *)

\* Whoever sent the head of the queue has opened its connection, and the head is
\* an old packet for every other client of the port.
LEMMA HeadIsKnown ==
  ASSUME TcpInv, NEW c \in Conns, Outbound(c) \/ Response(c)
  PROVE  /\ queue # <<>> /\ 1 \in 1 .. Len(queue) /\ queue[1] = Head(queue)
         /\ Head(queue) \in Packet /\ Head(queue).conn = c
         /\ app[c] # "idle"
<1>1. queue # <<>> /\ Head(queue).conn = c /\ queue \in Seq(Packet)
  BY DEF Outbound, Response, TcpInv, TypeOK
<1>2. 1 \in 1 .. Len(queue) /\ queue[1] = Head(queue)
  BY <1>1, EmptySeq
<1>3. Head(queue) \in Packet
  BY <1>1, HeadTailProperties
<1> QED
  BY <1>1, <1>2, <1>3 DEF TcpInv, UnopenedIsUnknown

\* A packet of a former client is never taken while the present one is redirected.
LEMMA NobodyElseIsRedirected ==
  ASSUME TcpInv, NEW c \in Conns, Outbound(c), NEW d \in Conns,
         d # c, Port[d] = Port[c]
  PROVE  app[d] # "redirected"
<1>1. OldPacket(1, d)
  BY HeadIsKnown DEF Outbound, OldPacket
<1> QED
  BY <1>1, HeadIsKnown DEF TcpInv, NoOldPackets

LEMMA ForwardDirectPreserves ==
  ASSUME TcpInv, NEW c \in Conns, ForwardDirect(c)
  PROVE  TcpInv'
<1>0. Outbound(c)
  BY DEF ForwardDirect
<1>1. Grows({})
  BY <1>0, HeadIsKnown, QueueGrows DEF ForwardDirect, TcpInv
<1>2. PICK x \in {"direct", "closed", app[c]} :
        /\ app' = [app EXCEPT ![c] = x]
        /\ x # app[c] => Live(c)
  BY DEF ForwardDirect, Live
<1>3. SendsSafely({}) /\ OneClientPerPort'
  <2>1. CASE x = app[c]
    <3>1. UNCHANGED app
      BY <1>2, <2>1 DEF TcpInv, TypeOK
    <3> QED BY <3>1, QuietStep
  <2>2. CASE x # app[c]
    <3>1. Live(c) /\ app[c] # "idle"
      BY <1>2, <2>2 DEF Live
    <3>2. x \in {"direct", "closed"} /\ app' = [app EXCEPT ![c] = x]
      BY <1>2, <2>2
    <3>3. \A s \in {} : s.conn = c /\ s.kind # "DATA"
      OBVIOUS
    <3>4. {} \in SUBSET Packet
      OBVIOUS
    <3> QED BY <3>1, <3>2, <3>3, <3>4, SocketStep
  <2> QED BY <2>1, <2>2
<1>4. OuterOK'
  <2>1. Pair(c) \in Ports \X Dests
    BY ConnAssumption DEF Pair
  <2> QED BY <1>2, <2>1 DEF ForwardDirect, TcpInv, TypeOK, OuterOK, engineVars
<1>5. \A d \in Conns : app'[d] = "redirected" => app[d] = "redirected"
  BY <1>2 DEF TcpInv, TypeOK
<1> QED
  BY <1>1, <1>3, <1>4, <1>5, SocketsAndQueue DEF ForwardDirect

LEMMA DropBlockedPreserves ==
  ASSUME TcpInv, NEW c \in Conns, DropBlocked(c)
  PROVE  TcpInv'
<1>1. Grows({})
  <2>1. Outbound(c)
    BY DEF DropBlocked
  <2> QED BY <2>1, HeadIsKnown, QueueGrows DEF DropBlocked, TcpInv
<1>2. SendsSafely({}) /\ OneClientPerPort'
  BY QuietStep DEF DropBlocked
<1>3. OuterOK'
  BY DEF DropBlocked, TcpInv, TypeOK, OuterOK, engineVars
<1> QED
  BY <1>1, <1>2, <1>3, SocketsAndQueue DEF DropBlocked

\* Entries are complete: only an action PROXY with a proxy tracks a packet.
LEMMA TrackedEntry ==
  ASSUME TypeOK, NEW c \in Conns, Decision(c) = "PROXY"
  PROVE  [dest |-> Dest[c], proxy |-> Effective(c).proxy] \in Entry
<1>1. config.rule[c].proxy \in ProxyInfo /\ config.global \in ProxyInfo
  BY ConfigAssumption DEF TypeOK, Config
<1>2. Effective(c).proxy \in ProxyInfo /\ Effective(c).action = "PROXY"
  BY <1>1 DEF Decision, Effective
<1>3. Effective(c).proxy # NoProxy
  BY <1>2 DEF Effective
<1> QED
  BY <1>2, <1>3, ConnAssumption DEF Entry, ProxyInfo

LEMMA RedirectPreserves ==
  ASSUME TcpInv, NEW c \in Conns, Redirect(c)
  PROVE  TcpInv'
<1> DEFINE S == {FromListener("SYNACK", c), FromListener("RST", c)}
           p == Port[c]
<1>0. /\ Outbound(c) /\ queue # <<>> /\ Head(queue) \in Packet
      /\ Head(queue).from = "client" /\ Head(queue).conn = c
      /\ app[c] # "idle" /\ p \in Ports
  BY HeadIsKnown, ConnAssumption DEF Redirect, Outbound
<1>1. /\ S \in SUBSET Packet
      /\ \A s \in S : s.conn = c /\ s.from = "listener"
  BY PacketTypes
<1>2. Grows(S)
  BY <1>0, <1>1, QueueGrows DEF Redirect, DeliverSyn, DeliverData, DeliverReset, TcpInv
<1>3. SendsSafely(S) /\ OneClientPerPort'
  BY <1>0, <1>1, QuietStep DEF Redirect
<1>4. \/ endpoint' = endpoint
      \/ endpoint' = [endpoint EXCEPT ![p] = NoEndpoint]
      \/ /\ endpoint' = [endpoint EXCEPT ![p] = [st |-> "half", conn |-> c]]
         /\ app[c] = "connecting"
      \/ /\ endpoint' = [endpoint EXCEPT ![p].st = "queued"]
         /\ endpoint[p] = [st |-> "half", conn |-> c]
         /\ app[c] # "connecting"
  <2>1. CASE Head(queue).kind = "SYN" /\ DeliverSyn(c)
    BY <2>1 DEF DeliverSyn
  <2>2. CASE Head(queue).kind = "DATA" /\ DeliverData(c)
    <3>1. Head(queue) = FromClient("DATA", c)
      BY <1>0, <2>2 DEF Packet, FromClient
    <3>2. app[c] # "connecting"
      BY <1>0, <3>1, HeadIsKnown DEF TcpInv, UnansweredIsHalfOpen
    <3> QED BY <2>2, <3>2 DEF DeliverData
  <2>3. CASE Head(queue).kind = "RST" /\ DeliverReset(c)
    BY <2>3 DEF DeliverReset
  <2> QED BY <2>1, <2>2, <2>3 DEF Redirect
<1>5. \/ tracker' = [tracker EXCEPT ![p] = [dest |-> Dest[c], proxy |-> Effective(c).proxy]]
      \/ UNCHANGED tracker
  BY DEF Redirect, Track
<1>6. TypeOK'
  <2>1. tracker' \in [Ports -> Entry \cup {NoEntry}]
    BY <1>5, TrackedEntry DEF Redirect, TcpInv, TypeOK
  <2>2. endpoint' \in [Ports -> [st: {"half", "queued", "accepted"}, conn: Conns] \cup {NoEndpoint}]
    <3>1. endpoint \in [Ports -> [st: {"half", "queued", "accepted"}, conn: Conns] \cup {NoEndpoint}]
      BY DEF TcpInv, TypeOK
    <3>2. CASE endpoint[p] = [st |-> "half", conn |-> c]
      BY <1>0, <1>4, <3>1, <3>2
    <3>3. CASE endpoint[p] # [st |-> "half", conn |-> c]
      BY <1>0, <1>4, <3>1, <3>3
    <3> QED BY <3>2, <3>3
  <2>3. failures' \in Nat
    BY DEF Redirect, Track, TcpInv, TypeOK
  <2> QED BY <1>2, <2>1, <2>2, <2>3 DEF Grows, Redirect, TcpInv, TypeOK, engineVars
<1>7. EndpointsKnown'
  <2> SUFFICES ASSUME NEW d \in Conns
               PROVE  /\ app[d] = "idle" => endpoint'[Port[d]].conn # d
                      /\ app[d] = "connecting" /\ endpoint'[Port[d]].conn = d =>
                           endpoint'[Port[d]].st = "half"
    BY DEF EndpointsKnown, Redirect
  <2>0. Port[d] \in Ports /\ NoEndpoint.conn # d /\ endpoint \in [Ports -> [st: {"half", "queued", "accepted"}, conn: Conns] \cup {NoEndpoint}]
    BY ConnAssumption DEF NoEndpoint, TcpInv, TypeOK
  <2>1. /\ app[d] = "idle" => endpoint[Port[d]].conn # d
        /\ app[d] = "connecting" /\ endpoint[Port[d]].conn = d => endpoint[Port[d]].st = "half"
    BY DEF TcpInv, UnopenedIsUnknown, UnansweredIsHalfOpen
  <2>2. CASE Port[d] # p \/ endpoint' = endpoint
    <3>1. endpoint'[Port[d]] = endpoint[Port[d]]
      BY <1>4, <2>0, <2>2
    <3> QED BY <2>1, <3>1
  <2>3. CASE Port[d] = p /\ endpoint' = [endpoint EXCEPT ![p] = NoEndpoint]
    BY <2>0, <2>3
  <2>4. CASE /\ Port[d] = p
             /\ endpoint' = [endpoint EXCEPT ![p] = [st |-> "half", conn |-> c]]
             /\ app[c] = "connecting"
    BY <2>0, <2>4
  <2>5. CASE /\ Port[d] = p
             /\ endpoint' = [endpoint EXCEPT ![p].st = "queued"]
             /\ endpoint[p] = [st |-> "half", conn |-> c]
             /\ app[c] # "connecting"
    <3>1. endpoint'[p].conn = c
      BY <2>0, <2>5
    <3> QED BY <1>0, <2>5, <3>1
  <2> QED BY <1>4, <2>2, <2>3, <2>4, <2>5
<1>8. ThreadsKnown'
  BY <1>3, ThreadsStayKnown DEF Redirect
<1>9. TrackerAgreesWithClient'
  <2> SUFFICES ASSUME NEW d \in Conns, app[d] = "redirected"
               PROVE  tracker'[Port[d]] = NoEntry \/ tracker'[Port[d]].dest = Dest[d]
    BY DEF TrackerAgreesWithClient, Redirect
  <2>1. tracker \in [Ports -> Entry \cup {NoEntry}] /\ Port[d] \in Ports
    BY ConnAssumption DEF TcpInv, TypeOK
  <2>2. CASE d = c
    BY <1>5, <2>1, <2>2 DEF TcpInv, TrackerAgreesWithClient
  <2>3. CASE d # c
    <3>1. Port[d] # p
      BY <1>0, <2>3, NobodyElseIsRedirected
    <3> QED BY <1>5, <2>1, <3>1 DEF TcpInv, TrackerAgreesWithClient
  <2> QED BY <2>2, <2>3
<1>10. AcceptorServesItsClient' /\ HandlerServesItsClient'
  BY DEF Redirect, TcpInv, AcceptorServesItsClient, HandlerServesItsClient
<1> QED
  BY <1>1, <1>2, <1>3, <1>6, <1>7, <1>8, <1>9, <1>10, Assembled

\* The client's socket knows the answer only if the entry named its destination.
LEMMA ReplyPreserves ==
  ASSUME TcpInv, NEW c \in Conns, Reply(c)
  PROVE  TcpInv'
<1> DEFINE S == {FromClient("DATA", c)}
<1>0. /\ Response(c) /\ queue # <<>> /\ Head(queue).conn = c /\ app[c] # "idle"
      /\ tracker[Port[c]].dest = Dest[c]
  BY HeadIsKnown DEF Reply, Understood
<1>1. S \in SUBSET Packet /\ \A s \in S : s.conn = c
  BY PacketTypes
<1>2. Grows(S)
  BY <1>0, <1>1, QueueGrows DEF Reply, TcpInv
<1>3. \/ app[c] = "connecting" /\ app' = [app EXCEPT ![c] = "redirected"]
      \/ Live(c) /\ app' = [app EXCEPT ![c] = "closed"]
      \/ UNCHANGED app /\ queue' = Behind(<<>>, Tail(queue))
  BY DEF Reply, Understood, Live, Answer
<1>4. \/ SendsSafely(S) /\ OneClientPerPort' /\ Grows(S)
      \/ SendsSafely({}) /\ OneClientPerPort' /\ Grows({})
  <2>1. CASE app[c] = "connecting" /\ app' = [app EXCEPT ![c] = "redirected"]
    <3>1. Live(c)
      BY <2>1 DEF Live
    <3>2. /\ app' = [app EXCEPT ![c] = "redirected"] /\ app[c] # "idle"
          /\ queue # <<>> /\ Head(queue).conn = c
      BY <1>0, <2>1
    <3>3. SendsSafely(S) /\ OneClientPerPort'
      BY <1>1, <3>1, <3>2, SocketStep
    <3> QED BY <1>2, <3>3
  <2>2. CASE Live(c) /\ app' = [app EXCEPT ![c] = "closed"]
    <3>1. app' = [app EXCEPT ![c] = "closed"] /\ app[c] # "idle" /\ Live(c)
      BY <1>0, <2>2
    <3>2. SendsSafely(S) /\ OneClientPerPort'
      BY <1>1, <3>1, SocketStep
    <3> QED BY <1>2, <3>2
  <2>3. CASE UNCHANGED app /\ queue' = Behind(<<>>, Tail(queue))
    <3>1. Grows({})
      BY <1>0, <2>3, QueueGrows DEF TcpInv, Answer
    <3> QED BY <2>3, <3>1, QuietStep
  <2> QED BY <1>3, <2>1, <2>2, <2>3
<1>5. PICK T \in SUBSET Packet : SendsSafely(T) /\ OneClientPerPort' /\ Grows(T)
  BY <1>1, <1>4
<1>6. TypeOK'
  BY <1>3, <1>5 DEF Reply, TcpInv, TypeOK, Grows, engineVars
<1>7. EndpointsKnown'
  BY <1>5, EndpointsStayKnown DEF EndpointsShrink, Reply
<1>8. ThreadsKnown'
  BY <1>5, ThreadsStayKnown DEF Reply
<1>9. \A d \in Conns \ {c} : app'[d] = "redirected" => app[d] = "redirected"
  BY <1>3 DEF TcpInv, TypeOK
<1>10. app'[c] = "redirected" => app[c] \in {"redirected", "connecting"}
  BY <1>3 DEF TcpInv, TypeOK
<1>11. TrackerAgreesWithClient'
  BY <1>0, <1>9 DEF Reply, TcpInv, TrackerAgreesWithClient
<1>12. AcceptorServesItsClient' /\ HandlerServesItsClient'
  BY <1>9, <1>10 DEF Reply, TcpInv, AcceptorServesItsClient, HandlerServesItsClient,
     UnansweredIsHalfOpen
<1> QED
  BY <1>5, <1>6, <1>7, <1>8, <1>11, <1>12, Assembled

\* A step in which no socket moves and nobody is tracked or served anew.
LEMMA EndpointsAndQueue ==
  ASSUME TcpInv, NEW S \in SUBSET Packet, Grows(S), SendsSafely(S), OneClientPerPort',
         OuterOK',
         endpoint' \in [Ports -> [st: {"half", "queued", "accepted"}, conn: Conns]
                                   \cup {NoEndpoint}],
         EndpointsShrink,
         UNCHANGED <<app, tracker, acceptor, handler>>
  PROVE  TcpInv'
<1>1. TypeOK'
  BY DEF TcpInv, TypeOK, OuterOK, Grows
<1>2. EndpointsKnown'
  BY EndpointsStayKnown
<1>3. ThreadsKnown'
  BY ThreadsStayKnown
<1>4. TrackerAgreesWithClient' /\ AcceptorServesItsClient' /\ HandlerServesItsClient'
  BY StillServed
<1> QED
  BY <1>1, <1>2, <1>3, <1>4, Assembled

LEMMA ReplyRefusedPreserves ==
  ASSUME TcpInv, NEW c \in Conns, ReplyRefused(c)
  PROVE  TcpInv'
<1>1. Grows({})
  <2>1. Response(c)
    BY DEF ReplyRefused
  <2> QED BY <2>1, HeadIsKnown, QueueGrows DEF ReplyRefused, TcpInv
<1>2. SendsSafely({}) /\ OneClientPerPort'
  BY QuietStep DEF ReplyRefused
<1>3. /\ endpoint' \in [Ports -> [st: {"half", "queued", "accepted"}, conn: Conns]
                                   \cup {NoEndpoint}]
      /\ EndpointsShrink
  BY DEF ReplyRefused, TcpInv, TypeOK, EndpointsShrink
<1>4. OuterOK'
  BY DEF ReplyRefused, TcpInv, TypeOK, OuterOK, engineVars
<1> QED
  BY <1>1, <1>2, <1>3, <1>4, EndpointsAndQueue DEF ReplyRefused

LEMMA LosePacketPreserves ==
  ASSUME TcpInv, LosePacket
  PROVE  TcpInv'
<1>1. Grows({})
  BY QueueGrows DEF LosePacket, TcpInv
<1>2. SendsSafely({}) /\ OneClientPerPort'
  BY QuietStep DEF LosePacket
<1>3. OuterOK'
  BY DEF LosePacket, TcpInv, TypeOK, OuterOK, engineVars
<1> QED
  BY <1>1, <1>2, <1>3, SocketsAndQueue DEF LosePacket

LEMMA CacheExpiresPreserves ==
  ASSUME TcpInv, NEW c \in Conns, CacheExpires(c)
  PROVE  TcpInv'
<1>1. Grows({})
  BY QueueGrows DEF CacheExpires, TcpInv
<1>2. SendsSafely({}) /\ OneClientPerPort'
  BY QuietStep DEF CacheExpires
<1>3. OuterOK'
  BY DEF CacheExpires, TcpInv, TypeOK, OuterOK, engineVars
<1> QED
  BY <1>1, <1>2, <1>3, SocketsAndQueue DEF CacheExpires
-------------------------------------------------------------------------------
(* The accept loop and the handlers. *)

\* Closing the client's socket.
LEMMA ClosingSends ==
  ASSUME TcpInv, NEW c \in Conns, CloseClientSocket(c), UNCHANGED app
  PROVE  /\ \E S \in SUBSET Packet : Grows(S) /\ SendsSafely(S)
         /\ OneClientPerPort'
         /\ endpoint' \in [Ports -> [st: {"half", "queued", "accepted"}, conn: Conns]
                                      \cup {NoEndpoint}]
         /\ EndpointsShrink
<1> DEFINE S == {FromListener("FIN", c)}
<1>1. S \in SUBSET Packet /\ \A s \in S : s.conn = c /\ s.from = "listener"
  BY PacketTypes
<1>2. SendsSafely({}) /\ OneClientPerPort'
  BY QuietStep
<1>3. \/ UNCHANGED queue
      \/ app[c] # "idle" /\ Send(<<FromListener("FIN", c)>>)
  BY DEF CloseClientSocket, TcpInv, UnopenedIsUnknown
<1>4. CASE UNCHANGED queue
  BY <1>2, <1>4, QueueGrows DEF CloseClientSocket, TcpInv, TypeOK, EndpointsShrink
<1>5. CASE app[c] # "idle" /\ Send(<<FromListener("FIN", c)>>)
  <2>1. Grows(S)
    BY <1>1, <1>5, QueueGrows DEF TcpInv
  <2>2. SendsSafely(S)
    BY <1>1, <1>5, QuietStep
  <2>3. /\ endpoint' \in [Ports -> [st: {"half", "queued", "accepted"}, conn: Conns]
                                     \cup {NoEndpoint}]
        /\ EndpointsShrink
    BY DEF CloseClientSocket, TcpInv, TypeOK, EndpointsShrink
  <2> QED BY <1>1, <1>2, <2>1, <2>2, <2>3
<1> QED
  BY <1>3, <1>4, <1>5

\* The entry found for a live client is its own.
LEMMA AcceptTrackedPreserves ==
  ASSUME TcpInv, NEW c \in Conns, AcceptTracked(c)
  PROVE  TcpInv'
<1> DEFINE p == Port[c]
<1>0. /\ p \in Ports
      /\ endpoint \in [Ports -> [st: {"half", "queued", "accepted"}, conn: Conns]
                                  \cup {NoEndpoint}]
      /\ endpoint[p] = [st |-> "queued", conn |-> c]
      /\ endpoint' = [endpoint EXCEPT ![p].st = "accepted"]
      /\ acceptor' = [conn |-> c, dest |-> tracker[p].dest]
      /\ UNCHANGED <<app, queue, tracker, handler>>
  BY ConnAssumption DEF AcceptTracked, Acceptable, TcpInv, TypeOK
<1>a. tracker[p] \in Entry
  BY <1>0 DEF AcceptTracked, TcpInv, TypeOK
<1>b. endpoint'[p] = [st |-> "accepted", conn |-> c] /\ \A q \in Ports \ {p} : endpoint'[q] = endpoint[q]
  BY <1>0
<1>c. endpoint' \in [Ports -> [st: {"half", "queued", "accepted"}, conn: Conns] \cup {NoEndpoint}]
  BY <1>0
<1>1. app[c] \notin {"idle", "connecting"}
  BY <1>0 DEF TcpInv, UnansweredIsHalfOpen
<1>2. Grows({}) /\ SendsSafely({}) /\ OneClientPerPort'
  BY <1>0, QueueGrows, QuietStep DEF TcpInv
<1>3. TypeOK'
  BY <1>0, <1>a, <1>c DEF AcceptTracked, TcpInv, TypeOK, Entry, engineVars
<1>4. EndpointsKnown'
  BY <1>0, <1>1, <1>b, ConnAssumption DEF EndpointsKnown, TcpInv, UnopenedIsUnknown, UnansweredIsHalfOpen
<1>5. ThreadsKnown'
  BY <1>0, <1>1 DEF ThreadsKnown, TcpInv, UnansweredIsHalfOpen
<1>6. TrackerAgreesWithClient' /\ HandlerServesItsClient'
  BY <1>0 DEF TcpInv, TrackerAgreesWithClient, HandlerServesItsClient
<1>7. AcceptorServesItsClient'
  <2>1. tracker[p] # NoEntry
    BY DEF AcceptTracked
  <2>2. app[c] = "redirected" => tracker[p].dest = Dest[c]
    BY <2>1 DEF TcpInv, TrackerAgreesWithClient
  <2> QED BY <1>0, <2>2 DEF AcceptorServesItsClient
<1> QED
  BY <1>2, <1>3, <1>4, <1>5, <1>6, <1>7, Assembled

LEMMA AcceptUntrackedPreserves ==
  ASSUME TcpInv, NEW c \in Conns, AcceptUntracked(c)
  PROVE  TcpInv'
<1>1. OuterOK'
  BY DEF AcceptUntracked, TcpInv, TypeOK, OuterOK, engineVars
<1> QED
  BY <1>1, ClosingSends, EndpointsAndQueue DEF AcceptUntracked

\* The new handler takes over what the accept loop found.
LEMMA AcceptSpawnPreserves ==
  ASSUME TcpInv, NEW c \in Conns, AcceptSpawn(c)
  PROVE  TcpInv'
<1> DEFINE own == tracker[Port[c]].proxy
           proxy == IF own # NoProxy THEN own ELSE config.global
           h == [st |-> "dialing", dest |-> acceptor.dest, proxy |-> proxy]
<1>0. /\ acceptor.conn = c /\ acceptor' = IdleAcceptor
      /\ handler' = [handler EXCEPT ![c] = h]
      /\ UNCHANGED <<app, queue, tracker, endpoint>>
  BY DEF AcceptSpawn
<1>1. app[c] \notin {"idle", "connecting"}
  BY <1>0 DEF TcpInv, UnansweredIsHalfOpen
<1>2. Grows({}) /\ SendsSafely({}) /\ OneClientPerPort'
  BY <1>0, QueueGrows, QuietStep DEF TcpInv
<1>3. acceptor.dest \in Dests /\ proxy \in ProxyInfo
  <2>1. acceptor \in [conn: Conns, dest: Dests]
    BY <1>0, ConnAssumption DEF TcpInv, TypeOK, IdleAcceptor
  <2>2. tracker[Port[c]] \in Entry \cup {NoEntry} /\ config.global \in ProxyInfo
    BY ConnAssumption, ConfigAssumption DEF TcpInv, TypeOK, Config
  <2>3. own \in ProxyInfo
    BY <2>2 DEF Entry, NoEntry, ProxyInfo
  <2> QED BY <2>1, <2>2, <2>3
<1> HIDE DEF proxy
<1>4. TypeOK'
  BY <1>0, <1>3 DEF AcceptSpawn, TcpInv, TypeOK, engineVars
<1>5. EndpointsKnown'
  BY <1>2, EndpointsStayKnown, <1>0 DEF EndpointsShrink
<1>6. ThreadsKnown'
  BY <1>0, <1>1, ConnAssumption DEF ThreadsKnown, TcpInv, TypeOK, UnansweredIsHalfOpen, IdleAcceptor
<1>7. TrackerAgreesWithClient' /\ AcceptorServesItsClient'
  BY <1>0, ConnAssumption DEF TcpInv, TrackerAgreesWithClient, AcceptorServesItsClient, IdleAcceptor
<1>8. HandlerServesItsClient'
  <2>1. app[c] = "redirected" => h.dest = Dest[c]
    BY <1>0 DEF TcpInv, AcceptorServesItsClient
  <2> QED BY <1>0, <2>1 DEF HandlerServesItsClient, TcpInv, TypeOK
<1> QED
  BY <1>2, <1>4, <1>5, <1>6, <1>7, <1>8, Assembled

\* A handler's other steps keep its destination and its proxy.
LEMMA HandlerSteps ==
  ASSUME TcpInv, NEW c \in Conns, NEW from \in {"dialing", "relaying", "closing"},
         NEW to \in {"relaying", "closing", "done"}, HandlerGoes(c, from, to),
         UNCHANGED <<app, acceptor>>
  PROVE  /\ handler' \in [Conns -> [st: {"dialing", "relaying", "closing", "done"},
                                    dest: Dests, proxy: ProxyInfo] \cup {NoHandler}]
         /\ ThreadsKnown'
         /\ AcceptorServesItsClient' /\ HandlerServesItsClient'
<1>0. handler \in [Conns -> [st: {"dialing", "relaying", "closing", "done"},
                             dest: Dests, proxy: ProxyInfo] \cup {NoHandler}]
  BY DEF TcpInv, TypeOK
<1>1. /\ handler[c] # NoHandler
      /\ handler[c] \in [st: {"dialing", "relaying", "closing", "done"},
                         dest: Dests, proxy: ProxyInfo]
  BY <1>0 DEF HandlerGoes, NoHandler
<1>2. /\ handler'[c] \in [st: {"dialing", "relaying", "closing", "done"},
                          dest: Dests, proxy: ProxyInfo]
      /\ handler'[c].dest = handler[c].dest
      /\ \A d \in Conns \ {c} : handler'[d] = handler[d]
      /\ handler' = [handler EXCEPT ![c] = handler'[c]]
  BY <1>0, <1>1 DEF HandlerGoes
<1>3. handler' \in [Conns -> [st: {"dialing", "relaying", "closing", "done"},
                              dest: Dests, proxy: ProxyInfo] \cup {NoHandler}]
  BY <1>0, <1>2
<1>4. ThreadsKnown'
  BY <1>1, <1>2 DEF ThreadsKnown, TcpInv, UnansweredIsHalfOpen
<1>5. AcceptorServesItsClient'
  BY DEF TcpInv, AcceptorServesItsClient
<1>6. HandlerServesItsClient'
  BY <1>1, <1>2 DEF TcpInv, HandlerServesItsClient
<1> QED
  BY <1>3, <1>4, <1>5, <1>6

\* A handler's step that neither tracks nor serves a client.
LEMMA HandlerMoves ==
  ASSUME TcpInv, NEW S \in SUBSET Packet, Grows(S), SendsSafely(S), OneClientPerPort',
         OuterOK',
         handler' \in [Conns -> [st: {"dialing", "relaying", "closing", "done"},
                                 dest: Dests, proxy: ProxyInfo] \cup {NoHandler}],
         ThreadsKnown', AcceptorServesItsClient', HandlerServesItsClient',
         endpoint' \in [Ports -> [st: {"half", "queued", "accepted"}, conn: Conns]
                                   \cup {NoEndpoint}],
         EndpointsShrink,
         UNCHANGED <<app, acceptor>>,
         \E p \in Ports : tracker' \in {tracker, [tracker EXCEPT ![p] = NoEntry]}
  PROVE  TcpInv'
<1>1. /\ tracker' \in [Ports -> Entry \cup {NoEntry}]
      /\ \A p \in Ports : tracker'[p] \in {tracker[p], NoEntry}
  BY DEF TcpInv, TypeOK
<1>2. TypeOK'
  BY <1>1 DEF TcpInv, TypeOK, OuterOK, Grows
<1>3. EndpointsKnown'
  BY EndpointsStayKnown
<1>4. TrackerAgreesWithClient'
  <2>1. \A d \in Conns : Port[d] \in Ports
    BY ConnAssumption
  <2> QED BY <1>1, <2>1 DEF TcpInv, TrackerAgreesWithClient
<1> QED
  BY <1>2, <1>3, <1>4, Assembled

LEMMA DialSucceedsPreserves ==
  ASSUME TcpInv, NEW c \in Conns, DialSucceeds(c)
  PROVE  TcpInv'
<1>1. Grows({}) /\ SendsSafely({}) /\ OneClientPerPort'
  BY QueueGrows, QuietStep DEF DialSucceeds, TcpInv
<1>2. OuterOK'
  BY DEF DialSucceeds, TcpInv, TypeOK, OuterOK, engineVars
<1>3. EndpointsShrink /\ UNCHANGED <<app, acceptor, tracker, endpoint>>
  BY DEF DialSucceeds, EndpointsShrink
<1>4. Port[c] \in Ports
  BY ConnAssumption
<1>5. HandlerGoes(c, "dialing", "relaying")
  BY DEF DialSucceeds
<1> QED
  BY <1>1, <1>2, <1>3, <1>4, <1>5, HandlerSteps, HandlerMoves DEF TcpInv, TypeOK

LEMMA DialFailsPreserves ==
  ASSUME TcpInv, NEW c \in Conns, DialFails(c)
  PROVE  TcpInv'
<1>1. OuterOK'
  BY DEF DialFails, TcpInv, TypeOK, OuterOK, engineVars
<1>2. Port[c] \in Ports
  BY ConnAssumption
<1>3. /\ HandlerGoes(c, "dialing", "closing") /\ CloseClientSocket(c)
      /\ UNCHANGED <<app, acceptor, tracker>>
  BY DEF DialFails
<1> QED
  BY <1>1, <1>2, <1>3, ClosingSends, HandlerSteps, HandlerMoves

LEMMA RelayEndsPreserves ==
  ASSUME TcpInv, NEW c \in Conns, RelayEnds(c)
  PROVE  TcpInv'
<1>1. OuterOK'
  BY DEF RelayEnds, TcpInv, TypeOK, OuterOK, engineVars
<1>2. Port[c] \in Ports
  BY ConnAssumption
<1>3. /\ HandlerGoes(c, "relaying", "closing") /\ CloseClientSocket(c)
      /\ UNCHANGED <<app, acceptor, tracker>>
  BY DEF RelayEnds
<1> QED
  BY <1>1, <1>2, <1>3, ClosingSends, HandlerSteps, HandlerMoves

\* The removed entry may be anybody's: nothing wrong can be said by no entry.
LEMMA RemoveEntryPreserves ==
  ASSUME TcpInv, NEW c \in Conns, RemoveEntry(c)
  PROVE  TcpInv'
<1>1. Grows({}) /\ SendsSafely({}) /\ OneClientPerPort'
  BY QueueGrows, QuietStep DEF RemoveEntry, TcpInv
<1>2. OuterOK'
  BY DEF RemoveEntry, TcpInv, TypeOK, OuterOK, engineVars
<1>3. EndpointsShrink /\ UNCHANGED <<app, acceptor, endpoint>>
  BY DEF RemoveEntry, EndpointsShrink
<1>4. Port[c] \in Ports /\ tracker' = [tracker EXCEPT ![Port[c]] = NoEntry]
  BY ConnAssumption DEF RemoveEntry
<1>5. HandlerGoes(c, "closing", "done")
  BY DEF RemoveEntry
<1> QED
  BY <1>1, <1>2, <1>3, <1>4, <1>5, HandlerSteps, HandlerMoves DEF TcpInv, TypeOK

LEMMA RelayDataPreserves ==
  ASSUME TcpInv, NEW c \in Conns, RelayData(c)
  PROVE  TcpInv'
<1> DEFINE S == {FromListener("DATA", c)}
<1>1. S \in SUBSET Packet /\ \A s \in S : s.conn = c /\ s.from = "listener"
  BY PacketTypes
<1>2. app[c] # "idle"
  BY DEF RelayData, TcpInv, UnopenedIsUnknown
<1>3. Grows(S)
  BY <1>1, QueueGrows DEF RelayData, TcpInv
<1>4. SendsSafely(S) /\ OneClientPerPort'
  BY <1>1, <1>2, QuietStep DEF RelayData
<1>5. OuterOK'
  BY DEF RelayData, TcpInv, TypeOK, OuterOK, engineVars
<1>6. /\ endpoint' \in [Ports -> [st: {"half", "queued", "accepted"}, conn: Conns]
                                   \cup {NoEndpoint}]
      /\ EndpointsShrink
  BY DEF RelayData, TcpInv, TypeOK, EndpointsShrink
<1> QED
  BY <1>1, <1>3, <1>4, <1>5, <1>6, EndpointsAndQueue DEF RelayData

LEMMA AcceptSpawnFailsPreserves ==
  ASSUME TcpInv, NEW c \in Conns, AcceptSpawnFails(c)
  PROVE  TcpInv'
<1>1. OuterOK'
  BY DEF AcceptSpawnFails, TcpInv, TypeOK, OuterOK, engineVars
<1>2. /\ CloseClientSocket(c) /\ acceptor' = IdleAcceptor
      /\ UNCHANGED <<app, handler, tracker>>
  BY DEF AcceptSpawnFails
<1>3. PICK S \in SUBSET Packet : Grows(S) /\ SendsSafely(S)
  BY <1>2, ClosingSends
<1>4. /\ OneClientPerPort'
      /\ endpoint' \in [Ports -> [st: {"half", "queued", "accepted"}, conn: Conns]
                                   \cup {NoEndpoint}]
      /\ EndpointsShrink
  BY <1>2, ClosingSends
<1>5. TypeOK'
  BY <1>1, <1>2, <1>3, <1>4 DEF TcpInv, TypeOK, OuterOK, Grows
<1>6. EndpointsKnown'
  BY <1>3, <1>4, EndpointsStayKnown
<1>7. ThreadsKnown' /\ AcceptorServesItsClient'
  BY <1>2, ConnAssumption DEF ThreadsKnown, AcceptorServesItsClient, TcpInv,
     UnansweredIsHalfOpen, IdleAcceptor
<1>8. TrackerAgreesWithClient' /\ HandlerServesItsClient'
  BY <1>2 DEF TcpInv, TrackerAgreesWithClient, HandlerServesItsClient
<1> QED
  BY <1>3, <1>4, <1>5, <1>6, <1>7, <1>8, Assembled
-------------------------------------------------------------------------------
(* Stopping and starting. *)

LEMMA StopCapturePreserves ==
  ASSUME TcpInv, StopCapture
  PROVE  TcpInv'
<1>0. queue' = <<>> /\ UNCHANGED app
  BY DEF StopCapture
<1>1. Grows({})
  BY <1>0, QueueGrows DEF TcpInv
<1>a. SendsSafely({}) /\ OneClientPerPort'
  BY <1>0, QuietStep
<1>2. OuterOK'
  BY DEF StopCapture, TcpInv, TypeOK, OuterOK
<1> QED
  BY <1>1, <1>a, <1>2, SocketsAndQueue DEF StopCapture

LEMMA StopProxyPreserves ==
  ASSUME TcpInv, StopProxy
  PROVE  TcpInv'
<1>1. Grows({}) /\ SendsSafely({}) /\ OneClientPerPort'
  BY QueueGrows, QuietStep DEF StopProxy, TcpInv
<1>2. /\ endpoint' \in [Ports -> [st: {"half", "queued", "accepted"}, conn: Conns]
                                   \cup {NoEndpoint}]
      /\ EndpointsShrink
  BY DEF StopProxy, TcpInv, TypeOK, EndpointsShrink
<1>3. /\ tracker' \in [Ports -> Entry \cup {NoEntry}]
      /\ \A p \in Ports : tracker'[p] \in {tracker[p], NoEntry}
  BY DEF StopProxy
<1>4. TypeOK'
  BY <1>1, <1>2, <1>3 DEF StopProxy, TcpInv, TypeOK, Grows
<1>5. EndpointsKnown' /\ ThreadsKnown'
  BY <1>1, <1>2, EndpointsStayKnown, ThreadsStayKnown DEF StopProxy
<1>6. TrackerAgreesWithClient' /\ AcceptorServesItsClient' /\ HandlerServesItsClient'
  BY <1>3, StillServed DEF StopProxy
<1> QED
  BY <1>1, <1>4, <1>5, <1>6, Assembled

LEMMA StartPreserves ==
  ASSUME TcpInv, Start
  PROVE  TcpInv'
<1>1. Grows({}) /\ SendsSafely({}) /\ OneClientPerPort'
  BY QueueGrows, QuietStep DEF Start, TcpInv
<1>2. OuterOK'
  BY DEF Start, TcpInv, TypeOK, OuterOK
<1> QED
  BY <1>1, <1>2, SocketsAndQueue DEF Start
-------------------------------------------------------------------------------
(* The theorems. *)

LEMMA InitEstablishes == Init => TcpInv
<1> SUFFICES ASSUME Init PROVE TcpInv
  OBVIOUS
<1>1. queue \in Seq(Packet) /\ Len(queue) = 0
  BY EmptySeq DEF Init
<1>2. TypeOK
  BY <1>1 DEF Init, TypeOK
<1>3. OneClientPerPort /\ OldPacketsFirst /\ NoOldPackets
  BY <1>1 DEF Init, OneClientPerPort, OldPacketsFirst, NoOldPackets, Live
<1>4. UnopenedIsUnknown /\ UnansweredIsHalfOpen
  <2> SUFFICES ASSUME NEW c \in Conns
               PROVE  /\ endpoint[Port[c]].conn # c
                      /\ handler[c] = NoHandler /\ acceptor.conn # c
    BY <1>1 DEF UnopenedIsUnknown, UnansweredIsHalfOpen
  <2> QED BY ConnAssumption DEF Init, NoEndpoint, IdleAcceptor
<1>5. TrackerAgreesWithClient /\ AcceptorServesItsClient /\ HandlerServesItsClient
  BY DEF Init, TrackerAgreesWithClient, AcceptorServesItsClient, HandlerServesItsClient
<1> QED
  BY <1>2, <1>3, <1>4, <1>5 DEF TcpInv

LEMMA StutterPreserves ==
  ASSUME TcpInv, UNCHANGED vars
  PROVE  TcpInv'
<1>0. UNCHANGED queue /\ UNCHANGED app
  BY DEF vars
<1>1. Grows({}) /\ SendsSafely({}) /\ OneClientPerPort'
  BY <1>0, QueueGrows, QuietStep DEF TcpInv
<1>2. OuterOK'
  BY DEF vars, TcpInv, TypeOK, OuterOK
<1> QED
  BY <1>1, <1>2, SocketsAndQueue DEF vars

LEMMA StepPreserves == TcpInv /\ [Next]_vars => TcpInv'
<1> SUFFICES ASSUME TcpInv, [Next]_vars PROVE TcpInv'
  OBVIOUS
<1>1. CASE \E c \in Conns : Client(c)
  BY <1>1, ConnectPreserves, RepeatSynPreserves, TalkPreserves, AbortPreserves DEF Client
<1>2. CASE \E c \in Conns : Accept(c)
  BY <1>2, AcceptTrackedPreserves, AcceptUntrackedPreserves, AcceptSpawnPreserves,
     AcceptSpawnFailsPreserves DEF Accept
<1>3. CASE \E c \in Conns : Handle(c)
  BY <1>3, DialSucceedsPreserves, DialFailsPreserves, RelayDataPreserves,
     RelayEndsPreserves, RemoveEntryPreserves DEF Handle
<1>4. CASE \E c \in Conns : CacheExpires(c)
  BY <1>4, CacheExpiresPreserves
<1>5. CASE PacketStep
  BY <1>5, ForwardDirectPreserves, DropBlockedPreserves, RedirectPreserves,
     ReplyPreserves, ReplyRefusedPreserves DEF PacketStep
<1>6. CASE LosePacket
  BY <1>6, LosePacketPreserves
<1>7. CASE Engine
  BY <1>7, StopCapturePreserves, StopProxyPreserves, StartPreserves DEF Engine
<1>8. CASE UNCHANGED vars
  BY <1>8, StutterPreserves
<1> QED
  BY <1>1, <1>2, <1>3, <1>4, <1>5, <1>6, <1>7, <1>8 DEF Next

\* The order of old and new packets, and all it implies, holds for any number of
\* connections and ports, through losses, restarts and stale removals.
THEOREM TcpInvariance == Spec => []TcpInv
<1>1. Init => TcpInv
  BY InitEstablishes
<1>2. TcpInv /\ [Next]_vars => TcpInv'
  BY StepPreserves
<1> QED
  BY <1>1, <1>2, PTL DEF Spec

\* The state of engine, stack, tracker, accept loop and handlers keeps its type.
THEOREM TypeCorrect == Spec => []TypeOK
<1>1. TcpInv => TypeOK
  BY DEF TcpInv
<1> QED
  BY <1>1, TcpInvariance, PTL

\* ConnectionHandler relays a live client to that client's own destination.
THEOREM HandlerIsRight == Spec => []HandlerServesItsClient
<1>1. TcpInv => HandlerServesItsClient
  BY DEF TcpInv
<1> QED
  BY <1>1, TcpInvariance, PTL

\* The entry of a live client's port is the client's own or has been removed.
THEOREM EntryIsRight == Spec => []TrackerAgreesWithClient
<1>1. TcpInv => TrackerAgreesWithClient
  BY DEF TcpInv
<1> QED
  BY <1>1, TcpInvariance, PTL
===============================================================================
