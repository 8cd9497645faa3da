------------------------------- MODULE ProxyTunnel -------------------------------
(***************************************************************************)
(* One connection to a proxy: the handshake, in the seven places that      *)
(* speak it, and the forwarding between the application and the proxy that *)
(* LocalProxy's ConnectionHandler and its two TransferThreads do.          *)
(*                                                                         *)
(* A reply of the proxy is what it says and how many units it is long, cut *)
(* where the code can tell: a SOCKS5 reply is its first three bytes, the   *)
(* rest of the first ten but the last, the tenth, and what an IPv6 address *)
(* adds; an HTTP response is all up to the status code, the code, and the  *)
(* rest.  recv may return any part of what has arrived, and what it leaves *)
(* of a reply is the next thing the tunnel reads.  The proxy and the       *)
(* application are external and may send, close or reset, or stay silent,  *)
(* whenever they like.                                                     *)
(***************************************************************************)
EXTENDS Integers

CONSTANTS
  Clients,     \* which of the handshakes to look at
  MaxData      \* bound: bytes each end sends

ASSUME TunnelAssumption ==
  /\ Clients \subseteq {"socks5", "http", "socks6", "associate", "hook", "hook6", "test"}
  /\ MaxData \in Nat

VARIABLES
  client,      \* whose handshake this is
  creds,       \* a user name is configured
  pc,          \* how far the handshake or the forwarding is
  method,      \* the method the proxy chose
  reply,       \* the proxy's answer that has not been read yet
  leak,        \* units of the reply left in the stream
  stray, lost, \* history: what the handshake left of the reply, and took from behind it
  sent, read,  \* bytes the peer on each socket has sent, and recv has taken
  got,         \* bytes the peer on each socket has been sent
  fin, gone,   \* the peer has closed its side; has reset the connection
  rdShut, wrShut,   \* shutdown of each socket
  thread, buf  \* the TransferThread that reads each socket, and what it holds

handshake == <<method, reply, leak, stray, lost>>
streams == <<leak, stray, lost>>
peers == <<sent, fin, gone>>
sockets == <<read, got, rdShut, wrShut>>
threads == <<thread, buf>>
fixed == <<client, creds>>
vars == <<fixed, pc, handshake, peers, sockets, threads>>

Sides == {"client", "proxy"}
Other(s) == IF s = "client" THEN "proxy" ELSE "client"

Core == {"socks5", "http"}              \* LocalProxy's, which forward afterwards
Timed == {"hook", "hook6", "test"}      \* those that set SO_RCVTIMEO
Waiting == {"method", "auth", "reply"}
Final == {"open", "passed", "failed", "closed"}

Methods == {"none", "userpass", "other", "refused", "garbage"}
NoReply == [val |-> "nothing", len |-> 0]
Offered == IF creds THEN {"none", "userpass"} ELSE {"none"}

ReplyLengths == IF client = "http" THEN {3} ELSE {3, 4}     \* IPv4, IPv6 address
Ask == CASE client = "http" -> 3 + MaxData                  \* the length given to recv
         [] client \in {"socks6", "hook6"} -> 4
         [] OTHER -> 3
\* and the least it must return
Enough == IF client \in {"hook", "associate"} THEN 3 ELSE 2

Init ==
  /\ client \in Clients /\ creds \in BOOLEAN
  /\ pc = "connect" /\ method = "unset" /\ reply = NoReply
  /\ leak = 0 /\ stray = 0 /\ lost = 0
  /\ sent = [s \in Sides |-> 0] /\ read = [s \in Sides |-> 0] /\ got = [s \in Sides |-> 0]
  /\ fin = [s \in Sides |-> FALSE] /\ gone = [s \in Sides |-> FALSE]
  /\ rdShut = [s \in Sides |-> FALSE] /\ wrShut = [s \in Sides |-> FALSE]
  /\ thread = [s \in Sides |-> "off"] /\ buf = [s \in Sides |-> 0]
-------------------------------------------------------------------------------
(* The handshake. *)

\* LocalProxy's handler closes both sockets and the others leave that to the caller.
GivenUp == IF client \in Core THEN "closed" ELSE "failed"

\* socket, connect and the greeting, or HTTP's request
Greet ==
  /\ pc = "connect"
  /\ pc' = IF client = "http" THEN "reply" ELSE "method"
  /\ UNCHANGED <<fixed, handshake, peers, sockets, threads>>

\* No address, no connection, a send that fails, or a recv that finds the end.
HandshakeFails ==
  /\ pc \in {"connect"} \cup Waiting
  /\ pc' = GivenUp
  /\ UNCHANGED <<fixed, handshake, peers, sockets, threads>>

\* Mutant: only the answer to the greeting is waited for with a limit.
GreetingTimesOut ==
  /\ client \in Timed /\ pc = "method" /\ reply = NoReply
  /\ pc' = "failed"
  /\ UNCHANGED <<fixed, handshake, peers, sockets, threads>>

RecvTimesOut ==
  /\ client \in Timed /\ pc \in Waiting /\ reply = NoReply
  /\ pc' = "failed"
  /\ UNCHANGED <<fixed, handshake, peers, sockets, threads>>

\* The proxy: an answer to what it was asked last.
Answers(step, vals, lens) ==
  /\ pc = step /\ reply = NoReply
  /\ \E v \in vals, n \in lens : reply' = [val |-> v, len |-> n]
  /\ UNCHANGED <<fixed, pc, method, streams, peers, sockets, threads>>

ProxyAnswers ==
  \/ Answers("method", Methods, {2})
  \/ Answers("auth", {"ok", "error", "garbage"}, {2})
  \/ Answers("reply", {"ok", "error", "garbage"}, ReplyLengths)

AfterMethod == IF client = "test" THEN "passed" ELSE "reply"

\* Mutant: an unknown method is not refused.
ReceiveMethodAny ==
  /\ pc = "method" /\ reply # NoReply
  /\ \E k \in 1 .. reply.len :
       pc' = IF k < 2 \/ reply.val \in {"refused", "garbage"} THEN GivenUp
             ELSE IF reply.val = "userpass" THEN (IF creds THEN "auth" ELSE GivenUp)
             ELSE AfterMethod
  /\ method' = reply.val /\ reply' = NoReply
  /\ UNCHANGED <<fixed, streams, peers, sockets, threads>>

\* Only UDP ASSOCIATE goes on with a method it does not know.
ReceiveMethod ==
  /\ pc = "method" /\ reply # NoReply
  /\ \E k \in 1 .. reply.len :
       pc' = IF k < 2 THEN GivenUp
             ELSE CASE reply.val = "none" -> AfterMethod
                    [] reply.val = "userpass" /\ creds -> "auth"
                    [] reply.val = "other" /\ client = "associate" -> "reply"
                    [] OTHER -> GivenUp
  /\ method' = reply.val /\ reply' = NoReply
  /\ UNCHANGED <<fixed, streams, peers, sockets, threads>>

\* UDP ASSOCIATE does not look at the version of the answer.
ReceiveAuth ==
  /\ pc = "auth" /\ reply # NoReply
  /\ \E k \in 1 .. reply.len :
       pc' = IF k = 2 /\ (reply.val = "ok" \/ (client = "associate" /\ reply.val = "garbage"))
             THEN AfterMethod ELSE GivenUp
  /\ reply' = NoReply
  /\ UNCHANGED <<fixed, method, streams, peers, sockets, threads>>

Accepted(k) ==
  /\ k >= Enough /\ reply.val = "ok"
  /\ client = "associate" => reply.len = 3

\* What recv left of the reply stays in the stream; what it took of the data behind
\* the reply is not forwarded.
ReceiveReply ==
  /\ pc = "reply" /\ reply # NoReply
  /\ \E k \in 1 .. reply.len + sent["proxy"] :
       /\ k <= Ask
       /\ IF Accepted(k)
          THEN /\ pc' = IF client \in Core THEN "start" ELSE "open"
               /\ stray' = IF k < reply.len THEN reply.len - k ELSE 0
               /\ lost' = IF k > reply.len THEN k - reply.len ELSE 0
               /\ leak' = stray' /\ read' = [read EXCEPT !["proxy"] = lost']
          ELSE pc' = GivenUp /\ UNCHANGED <<streams, read>>
  /\ reply' = NoReply
  /\ UNCHANGED <<fixed, method, peers, got, rdShut, wrShut, threads>>
-------------------------------------------------------------------------------
(* The two ends. *)

Talking(s) == ~fin[s] /\ ~gone[s] /\ client \in Core
              /\ pc # "closed" /\ (s = "proxy" => pc \in {"start", "tunnel"} \/ reply.val = "ok")

PeerSends(s) ==
  /\ Talking(s) /\ sent[s] < MaxData
  /\ sent' = [sent EXCEPT ![s] = @ + 1]
  /\ UNCHANGED <<fixed, pc, handshake, fin, gone, sockets, threads>>

PeerCloses(s) ==
  /\ Talking(s) /\ pc = "tunnel"
  /\ fin' = [fin EXCEPT ![s] = TRUE]
  /\ UNCHANGED <<fixed, pc, handshake, sent, gone, sockets, threads>>

PeerResets(s) ==
  /\ Talking(s) /\ pc = "tunnel"
  /\ gone' = [gone EXCEPT ![s] = TRUE]
  /\ UNCHANGED <<fixed, pc, handshake, sent, fin, sockets, threads>>
-------------------------------------------------------------------------------
(* ConnectionHandler once the proxy has agreed, and TransferThread. *)

StartTransfer ==
  /\ pc = "start"
  /\ pc' = "tunnel"
  /\ thread' = [s \in Sides |-> "recv"]
  /\ UNCHANGED <<fixed, handshake, peers, sockets, buf>>

\* No memory for a context, or no thread.
StartFails ==
  /\ pc = "start"
  /\ pc' = "closed"
  /\ UNCHANGED <<fixed, handshake, peers, sockets, threads>>

\* What stands before the proxy's data in its stream.
Ahead(s) == IF s = "proxy" THEN leak ELSE 0
Arrived(s) == Ahead(s) + sent[s] - read[s]

\* k units off the front of the stream.
Take(s, k) ==
  /\ leak' = IF s # "proxy" THEN leak ELSE IF k > leak THEN 0 ELSE leak - k
  /\ read' = [read EXCEPT ![s] = IF k > Ahead(s) THEN @ + (k - Ahead(s)) ELSE @]
  /\ buf' = [buf EXCEPT ![s] = k]

\* Mutant: recv is taken to have filled the buffer.
RecvFull(s) ==
  /\ thread[s] = "recv" /\ ~rdShut[s] /\ ~gone[s] /\ Arrived(s) > 0
  /\ Take(s, Ahead(s) + MaxData - read[s])
  /\ thread' = [thread EXCEPT ![s] = "send"]
  /\ UNCHANGED <<fixed, pc, method, reply, stray, lost, peers, got, rdShut, wrShut>>

Recv(s) ==
  /\ thread[s] = "recv" /\ ~rdShut[s] /\ ~gone[s]
  /\ \E k \in 1 .. Arrived(s) : Take(s, k)
  /\ thread' = [thread EXCEPT ![s] = "send"]
  /\ UNCHANGED <<fixed, pc, method, reply, stray, lost, peers, got, rdShut, wrShut>>

Ended(s) == gone[s] \/ rdShut[s] \/ (fin[s] /\ Arrived(s) = 0)

\* Mutant: the end of the stream is not passed on.
RecvEndsQuietly(s) ==
  /\ thread[s] = "recv" /\ Ended(s)
  /\ rdShut' = [rdShut EXCEPT ![s] = TRUE]
  /\ thread' = [thread EXCEPT ![s] = "done"]
  /\ UNCHANGED <<fixed, pc, handshake, peers, read, got, wrShut, buf>>

RecvEnds(s) ==
  /\ thread[s] = "recv" /\ Ended(s)
  /\ rdShut' = [rdShut EXCEPT ![s] = TRUE]
  /\ wrShut' = [wrShut EXCEPT ![Other(s)] = TRUE]
  /\ thread' = [thread EXCEPT ![s] = "done"]
  /\ UNCHANGED <<fixed, pc, handshake, peers, read, got, buf>>

\* Mutant: a partial send counts as a whole one.
SendOnce(s) ==
  /\ thread[s] = "send" /\ ~wrShut[Other(s)] /\ ~gone[Other(s)]
  /\ \E n \in 1 .. buf[s] : got' = [got EXCEPT ![Other(s)] = @ + n]
  /\ buf' = [buf EXCEPT ![s] = 0]
  /\ thread' = [thread EXCEPT ![s] = "recv"]
  /\ UNCHANGED <<fixed, pc, handshake, peers, read, rdShut, wrShut>>

\* send may take a part of the buffer only.
Send(s) ==
  /\ thread[s] = "send" /\ ~wrShut[Other(s)] /\ ~gone[Other(s)]
  /\ \E n \in 1 .. buf[s] :
       /\ got' = [got EXCEPT ![Other(s)] = @ + n]
       /\ buf' = [buf EXCEPT ![s] = @ - n]
       /\ thread' = [thread EXCEPT ![s] = IF n = buf[s] THEN "recv" ELSE "send"]
  /\ UNCHANGED <<fixed, pc, handshake, peers, read, rdShut, wrShut>>

SendFails(s) ==
  /\ thread[s] = "send" /\ (wrShut[Other(s)] \/ gone[Other(s)])
  /\ rdShut' = [r \in Sides |-> TRUE] /\ wrShut' = [r \in Sides |-> TRUE]
  /\ thread' = [thread EXCEPT ![s] = "done"]
  /\ UNCHANGED <<fixed, pc, handshake, peers, read, got, buf>>

\* The handler's own transfer has ended and the other thread's wait has returned.
HandlerCloses ==
  /\ pc = "tunnel" /\ \A s \in Sides : thread[s] = "done"
  /\ pc' = "closed"
  /\ UNCHANGED <<fixed, handshake, peers, sockets, threads>>
-------------------------------------------------------------------------------
Handshake == Greet \/ HandshakeFails \/ RecvTimesOut \/ ReceiveMethod \/ ReceiveAuth \/ ReceiveReply
Transfer(s) == Recv(s) \/ RecvEnds(s) \/ Send(s) \/ SendFails(s)

Next ==
  \/ Handshake \/ ProxyAnswers \/ StartTransfer \/ StartFails \/ HandlerCloses
  \/ \E s \in Sides : Transfer(s) \/ PeerSends(s) \/ PeerCloses(s) \/ PeerResets(s)

Spec == Init /\ [][Next]_vars

\* Threads that can run do.  A peer that has been told the end of the stream closes
\* its own side in turn; nothing makes a proxy answer.
Fairness ==
  /\ WF_vars(Greet) /\ WF_vars(RecvTimesOut)
  /\ WF_vars(ReceiveMethod \/ ReceiveAuth \/ ReceiveReply)
  /\ WF_vars(StartTransfer) /\ WF_vars(HandlerCloses)
  /\ \A s \in Sides : WF_vars(Transfer(s)) /\ WF_vars(wrShut[s] /\ PeerCloses(s))

FairSpec == Spec /\ Fairness
-------------------------------------------------------------------------------
\* The variables stay within their types; no more is read than was sent.
TypeOK ==
  /\ client \in Clients /\ creds \in BOOLEAN
  /\ pc \in {"connect", "start", "tunnel"} \cup Waiting \cup Final
  /\ method \in Methods \cup {"unset"}
  /\ reply \in [val : Methods \cup {"nothing", "ok", "error"}, len : {0, 2, 3, 4}]
  /\ leak \in 0 .. 2 /\ stray \in 0 .. 2 /\ lost \in 0 .. MaxData
  /\ sent \in [Sides -> 0 .. MaxData] /\ read \in [Sides -> 0 .. MaxData]
  /\ got \in [Sides -> 0 .. MaxData + 2] /\ buf \in [Sides -> 0 .. MaxData + 2]
  /\ fin \in [Sides -> BOOLEAN] /\ gone \in [Sides -> BOOLEAN]
  /\ rdShut \in [Sides -> BOOLEAN] /\ wrShut \in [Sides -> BOOLEAN]
  /\ thread \in [Sides -> {"off", "recv", "send", "done"}]
  /\ \A s \in Sides : read[s] <= sent[s]

\* A request is only made under a method that this client offered in its greeting;
\* UDP ASSOCIATE alone takes a method it has not offered for no authentication.
MethodWasOffered ==
  pc \in {"auth", "reply", "start", "tunnel", "open", "passed"} /\ method # "unset"
    => method \in Offered \/ (client = "associate" /\ method = "other")

\* A tunnel that ends without a reset has carried every byte of both directions,
\* whichever end closed first and however recv and send cut the stream.  The application
\* gets what the proxy sent and nothing else, but for what the one recv of the reply got
\* wrong: what it left of a reply that came in parts goes to the application before the
\* data, what it took from behind an HTTP response is missing.
EveryByteArrives ==
  pc = "closed" /\ thread["proxy"] = "done" /\ (\A s \in Sides : ~gone[s])
    => /\ got["proxy"] = sent["client"]
       /\ got["client"] = stray + (sent["proxy"] - lost)
       /\ client = "socks5" => lost = 0

\* The application's connect comes back, whatever the proxy does.
ConnectReturns == client \in Timed ~> pc \in Final

\* The handler waits for its other transfer without a limit (LocalProxy.c:167), and
\* ends all the same once one side has closed or reset the connection.
HandlerEnds ==
  \A s \in Sides : (pc = "tunnel" /\ (fin[s] \/ gone[s])) ~> pc = "closed"
===============================================================================
