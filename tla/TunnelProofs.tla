------------------------------ MODULE TunnelProofs ------------------------------
(***************************************************************************)
(* Proofs about one connection to a proxy (ProxyTunnel), for any number of *)
(* bytes and any of the handshakes: what is asked for is asked under a     *)
(* method that was offered, and a tunnel that ends without a reset has     *)
(* carried every byte, and before the proxy's what was left of its reply.  *)
(*                                                                         *)
(* The argument: every byte read is delivered, in the buffer of the thread *)
(* that read it, or lost with the reply, and what is left of the reply is  *)
(* read first (Accounted); and without a reset a socket is shut            *)
(* down only by a transfer that has come to the end of its stream          *)
(* (ShutAfterEnd), so no send ever meets a socket that is shut down.       *)
(***************************************************************************)
EXTENDS ProxyTunnel, TLAPS

Before == {"connect", "start", "open", "passed", "failed"} \cup Waiting

\* The threads exist in the tunnel and are through when the handler closes.
ThreadsFollow ==
  /\ pc \in Before => \A s \in Sides : thread[s] = "off"
  /\ pc = "tunnel" => \A s \in Sides : thread[s] # "off"
  /\ pc = "closed" => (\A s \in Sides : thread[s] = "off") \/ (\A s \in Sides : thread[s] = "done")

\* The reply that waits is one to the last request.
ReplyFits ==
  /\ pc = "connect" => reply = NoReply /\ method = "unset"
  /\ pc = "method" /\ reply # NoReply => reply.val \in Methods
  /\ pc = "reply" /\ reply # NoReply /\ client = "socks5" => reply.len >= 3

\* What a thread has read it has delivered or still holds.  The proxy's stream begins
\* with the rest of the reply and is short of what the handshake took.
Accounted ==
  /\ got["proxy"] + buf["client"] = read["client"]
  /\ got["client"] + buf["proxy"] + leak + lost = read["proxy"] + stray
  /\ leak <= stray /\ lost <= read["proxy"]
  /\ client = "socks5" => lost = 0
  /\ \A s \in Sides : thread[s] = "off" => got[Other(s)] = 0 /\ buf[s] = 0
  /\ \A s \in Sides : thread[s] = "recv" => buf[s] = 0

ShutAfterEnd ==
  (\A s \in Sides : ~gone[s]) =>
    \A s \in Sides :
      /\ rdShut[s] \/ wrShut[Other(s)] => thread[s] = "done"
      /\ thread[s] = "done" => fin[s] /\ Arrived(s) = 0 /\ buf[s] = 0

TunnelInv ==
  TypeOK /\ MethodWasOffered /\ ThreadsFollow /\ ReplyFits /\ Accounted /\ ShutAfterEnd

LEMMA Groups ==
  /\ UNCHANGED fixed <=> client' = client /\ creds' = creds
  /\ UNCHANGED handshake <=>
       /\ method' = method /\ reply' = reply
       /\ leak' = leak /\ stray' = stray /\ lost' = lost
  /\ UNCHANGED streams <=> leak' = leak /\ stray' = stray /\ lost' = lost
  /\ UNCHANGED peers <=> sent' = sent /\ fin' = fin /\ gone' = gone
  /\ UNCHANGED sockets <=>
       read' = read /\ got' = got /\ rdShut' = rdShut /\ wrShut' = wrShut
  /\ UNCHANGED threads <=> thread' = thread /\ buf' = buf
BY DEF fixed, handshake, streams, peers, sockets, threads

LEMMA InitEstablishes == Init => TunnelInv
<1> SUFFICES ASSUME Init PROVE TunnelInv
  OBVIOUS
<1>1. TypeOK
  <2>1. /\ 0 \in 0 .. MaxData /\ 0 \in 0 .. MaxData + 2
        /\ leak \in 0 .. 2 /\ stray \in 0 .. 2 /\ lost \in 0 .. MaxData
    BY TunnelAssumption DEF Init
  <2>2. reply \in [val : Methods \cup {"nothing", "ok", "error"}, len : {0, 2, 3, 4}]
    BY DEF Init, NoReply
  <2>3. \A s \in Sides : read[s] <= sent[s]
    BY DEF Init
  <2> QED BY <2>1, <2>2, <2>3 DEF Init, TypeOK
<1>2. MethodWasOffered /\ ThreadsFollow /\ ReplyFits
  BY DEF Init, MethodWasOffered, ThreadsFollow, ReplyFits, Before, Waiting, NoReply
<1>3. Accounted /\ ShutAfterEnd
  BY DEF Init, Accounted, ShutAfterEnd, Arrived, Ahead, Sides, Other
<1> QED BY <1>1, <1>2, <1>3 DEF TunnelInv

\* The numbers' types, one by one.
LEMMA Numbers ==
  TypeOK =>
    /\ MaxData \in Nat
    /\ \A s \in Sides : /\ sent[s] \in 0 .. MaxData /\ read[s] \in 0 .. sent[s]
                       /\ got[s] \in 0 .. MaxData + 2 /\ buf[s] \in 0 .. MaxData + 2
    /\ leak \in 0 .. 2 /\ stray \in 0 .. 2 /\ lost \in 0 .. MaxData
BY TunnelAssumption DEF TypeOK

LEMMA BothSides == Sides = {"client", "proxy"} /\ \A s \in Sides : Other(s) \in Sides \ {s}
BY DEF Sides, Other

\* The threads do not exist yet, so nothing has been delivered or buffered.
LEMMA ReplyPreserves == ASSUME TunnelInv, ReceiveReply PROVE TunnelInv'
<1>1. PICK k \in 1 .. reply.len + sent["proxy"] :
        /\ k <= Ask
        /\ IF Accepted(k)
           THEN /\ pc' = IF client \in Core THEN "start" ELSE "open"
                /\ stray' = IF k < reply.len THEN reply.len - k ELSE 0
                /\ lost' = IF k > reply.len THEN k - reply.len ELSE 0
                /\ leak' = stray' /\ read' = [read EXCEPT !["proxy"] = lost']
           ELSE pc' = GivenUp /\ UNCHANGED <<streams, read>>
  BY DEF ReceiveReply
<1>2. /\ pc = "reply" /\ reply # NoReply /\ reply' = NoReply
      /\ UNCHANGED <<client, creds, method, sent, fin, gone, got, rdShut, wrShut, thread, buf>>
  BY Groups DEF ReceiveReply
<1>3. reply.len \in {0, 2, 3, 4} /\ sent["proxy"] \in Nat /\ k \in Nat \ {0}
  BY <1>1, Numbers, BothSides DEF TunnelInv, TypeOK
<1>4. \A s \in Sides : thread[s] = "off" /\ got[s] = 0 /\ buf[s] = 0
  BY <1>2 DEF TunnelInv, ThreadsFollow, Before, Waiting, Accounted, Sides, Other
<1>5. reply' \in [val : Methods \cup {"nothing", "ok", "error"}, len : {0, 2, 3, 4}]
  BY <1>2 DEF NoReply
<1>6. CASE Accepted(k)
  <2>1. /\ stray' = (IF k < reply.len THEN reply.len - k ELSE 0)
        /\ lost' = (IF k > reply.len THEN k - reply.len ELSE 0)
        /\ leak' = stray' /\ read' = [read EXCEPT !["proxy"] = lost']
        /\ pc' \in {"start", "open"} /\ k >= 2
    BY <1>1, <1>6 DEF Accepted, Enough
  <2>2. lost' \in 0 .. sent["proxy"] /\ stray' \in 0 .. 2
    BY <1>1, <1>3, <2>1
  <2>3. client = "socks5" => lost' = 0
    <3>1. client = "socks5" => k <= reply.len
      BY <1>1, <1>2, <1>3 DEF Ask, TunnelInv, ReplyFits
    <3> QED BY <1>3, <2>1, <3>1
  <2>4. read'["proxy"] = lost' /\ read'["client"] = read["client"]
    BY <2>1 DEF TunnelInv, TypeOK, Sides
  <2>5. read' \in [Sides -> 0 .. MaxData] /\ \A s \in Sides : read'[s] <= sent'[s]
    BY <1>2, <2>1, <2>2, <2>4, Numbers, BothSides DEF TunnelInv, TypeOK
  <2>6. leak' \in 0 .. 2 /\ stray' \in 0 .. 2 /\ lost' \in 0 .. MaxData
    BY <2>1, <2>2, Numbers, BothSides DEF TunnelInv
  <2>7. TypeOK'
    BY <1>2, <1>5, <2>1, <2>5, <2>6 DEF TunnelInv, TypeOK, Final
  <2>8. Accounted'
    BY <1>2, <1>4, <2>1, <2>2, <2>3, <2>4, BothSides DEF TunnelInv, Accounted
  <2>9. ShutAfterEnd'
    BY <1>2, <1>4, BothSides DEF TunnelInv, ShutAfterEnd
  <2>10. (MethodWasOffered /\ ThreadsFollow /\ ReplyFits)'
    BY <1>2, <1>4, <2>1
    DEF TunnelInv, MethodWasOffered, ThreadsFollow, ReplyFits, Before, Waiting, Offered, NoReply
  <2> QED BY <2>7, <2>8, <2>9, <2>10 DEF TunnelInv
<1>7. CASE ~Accepted(k)
  <2>1. /\ pc' \in {"closed", "failed"}
        /\ UNCHANGED <<leak, stray, lost, read>>
    BY <1>1, <1>7, Groups DEF GivenUp
  <2>2. TypeOK'
    BY <1>2, <1>5, <2>1 DEF TunnelInv, TypeOK, Final
  <2>3. (Accounted /\ ShutAfterEnd)'
    BY <1>2, <2>1 DEF TunnelInv, Accounted, ShutAfterEnd, Arrived, Ahead
  <2>4. (MethodWasOffered /\ ThreadsFollow /\ ReplyFits)'
    BY <1>2, <1>4, <2>1
    DEF TunnelInv, MethodWasOffered, ThreadsFollow, ReplyFits, Before, Waiting, Offered, NoReply
  <2> QED BY <2>2, <2>3, <2>4 DEF TunnelInv
<1> QED BY <1>6, <1>7

LEMMA PeerSendsPreserves == ASSUME TunnelInv, NEW s \in Sides, PeerSends(s) PROVE TunnelInv'
<1>1. /\ sent' = [sent EXCEPT ![s] = @ + 1] /\ sent[s] < MaxData /\ ~fin[s]
      /\ UNCHANGED <<client, creds, pc, method, reply, leak, stray, lost, fin, gone, read, got,
                     rdShut, wrShut, thread, buf>>
  BY Groups DEF PeerSends, Talking
<1>2. /\ sent'[s] = sent[s] + 1
      /\ \A r \in Sides \ {s} : sent'[r] = sent[r]
  BY <1>1 DEF TunnelInv, TypeOK
<1>3. sent' \in [Sides -> 0 .. MaxData] /\ \A r \in Sides : read'[r] <= sent'[r]
  BY <1>1, <1>2, Numbers DEF TunnelInv, TypeOK
<1>4. TypeOK'
  BY <1>1, <1>3 DEF TunnelInv, TypeOK
<1>5. Accounted'
  BY <1>1 DEF TunnelInv, Accounted
<1>6. ShutAfterEnd'
  BY <1>1, <1>2 DEF TunnelInv, ShutAfterEnd, Arrived, Ahead
<1>7. (MethodWasOffered /\ ThreadsFollow /\ ReplyFits)'
  BY <1>1 DEF TunnelInv, MethodWasOffered, ThreadsFollow, ReplyFits, Offered
<1> QED BY <1>4, <1>5, <1>6, <1>7 DEF TunnelInv

LEMMA RecvPreserves == ASSUME TunnelInv, NEW s \in Sides, Recv(s) PROVE TunnelInv'
<1>1. PICK k \in 1 .. Arrived(s) : Take(s, k)
  BY DEF Recv
<1>2. /\ thread[s] = "recv" /\ thread' = [thread EXCEPT ![s] = "send"]
      /\ ~rdShut[s] /\ ~gone[s]
      /\ UNCHANGED <<client, creds, pc, method, reply, stray, lost, sent, fin, gone, got,
                     rdShut, wrShut>>
  BY Groups DEF Recv
<1>3. pc = "tunnel"
  BY <1>2 DEF TunnelInv, TypeOK, ThreadsFollow, Before, Waiting, Final, Sides
<1>4. /\ read'[s] \in Nat /\ leak' \in 0 .. leak /\ k \in Nat
      /\ (IF s = "proxy" THEN leak - leak' ELSE 0) + (read'[s] - read[s]) = k
      /\ read[s] <= read'[s] /\ read'[s] <= sent[s]
      /\ s = "client" => leak' = leak
      /\ \A r \in Sides \ {s} : read'[r] = read[r]
  <2>1. sent[s] \in Nat /\ read[s] \in Nat /\ leak \in Nat /\ Ahead(s) \in Nat
    BY Numbers DEF TunnelInv, Ahead
  <2>2. k \in Nat \ {0} /\ k <= Ahead(s) + sent[s] - read[s]
    BY <1>1, <2>1 DEF Arrived
  <2>3. /\ read'[s] = (IF k > Ahead(s) THEN read[s] + (k - Ahead(s)) ELSE read[s])
        /\ \A r \in Sides \ {s} : read'[r] = read[r]
    BY <1>1 DEF Take, TunnelInv, TypeOK
  <2>4. leak' = (IF s # "proxy" THEN leak ELSE IF k > leak THEN 0 ELSE leak - k)
    BY <1>1 DEF Take
  <2>5. CASE s = "proxy"
    <3>1. Ahead(s) = leak
      BY <2>5 DEF Ahead
    <3> QED BY <2>1, <2>2, <2>3, <2>4, <2>5, <3>1, Numbers DEF TunnelInv
  <2>6. CASE s # "proxy"
    <3>1. Ahead(s) = 0
      BY <2>6 DEF Ahead
    <3> QED BY <2>1, <2>2, <2>3, <2>4, <2>6, <3>1, Numbers DEF TunnelInv
  <2> QED BY <2>5, <2>6
<1>5. /\ buf[s] = 0 /\ buf' = [buf EXCEPT ![s] = k] /\ buf'[s] = k
      /\ \A r \in Sides \ {s} : buf'[r] = buf[r]
  BY <1>1, <1>2 DEF Take, TunnelInv, TypeOK, Accounted
<1>6. Accounted'
  <2>1. \A r \in Sides : thread'[r] \in {"off", "recv"} => r # s /\ thread'[r] = thread[r]
    BY <1>2 DEF TunnelInv, TypeOK
  <2>2. \A r \in Sides : thread'[r] = "off" => got'[Other(r)] = 0 /\ buf'[r] = 0
    BY <1>2, <1>5, <2>1 DEF TunnelInv, Accounted
  <2>3. \A r \in Sides : thread'[r] = "recv" => buf'[r] = 0
    BY <1>2, <1>5, <2>1 DEF TunnelInv, Accounted
  <2>4. /\ got'["proxy"] + buf'["client"] = read'["client"]
        /\ got'["client"] + buf'["proxy"] + leak' + lost' = read'["proxy"] + stray'
        /\ leak' <= stray' /\ lost' <= read'["proxy"]
    <3>1. CASE s = "client"
      BY <1>2, <1>4, <1>5, <3>1, Numbers, BothSides DEF TunnelInv, Accounted
    <3>2. CASE s = "proxy"
      BY <1>2, <1>4, <1>5, <3>2, Numbers, BothSides DEF TunnelInv, Accounted
    <3> QED BY <3>1, <3>2, BothSides
  <2> QED BY <1>2, <2>2, <2>3, <2>4 DEF TunnelInv, Accounted
<1>7. TypeOK'
  <2>1. k <= MaxData + 2
    <3>1. \A r \in Sides : read'[r] <= sent[r] /\ sent[r] <= MaxData
      BY <1>4, Numbers DEF TunnelInv, TypeOK
    <3>2. k <= leak + sent[s]
      BY <1>4, Numbers DEF TunnelInv
    <3> QED BY <1>4, <3>1, <3>2, Numbers DEF TunnelInv
  <2>2. buf' \in [Sides -> 0 .. MaxData + 2]
    BY <1>4, <1>5, <2>1 DEF TunnelInv, TypeOK
  <2>3. read' \in [Sides -> 0 .. MaxData] /\ \A r \in Sides : read'[r] <= sent'[r]
    <3>1. \A r \in Sides : read'[r] \in 0 .. MaxData /\ read'[r] <= sent'[r]
      BY <1>2, <1>4, Numbers DEF TunnelInv, TypeOK
    <3>2. read' = [r \in Sides |-> read'[r]]
      BY <1>1 DEF Take, TunnelInv, TypeOK
    <3> QED BY <3>1, <3>2
  <2>4. leak' \in 0 .. 2
    BY <1>4, Numbers DEF TunnelInv
  <2>5. thread' \in [Sides -> {"off", "recv", "send", "done"}]
    BY <1>2 DEF TunnelInv, TypeOK
  <2> QED BY <1>2, <2>2, <2>3, <2>4, <2>5 DEF TunnelInv, TypeOK
<1>8. ShutAfterEnd'
  <2>1. /\ thread'[s] = "send"
        /\ \A r \in Sides \ {s} : thread'[r] = thread[r]
    BY <1>2 DEF TunnelInv, TypeOK
  <2>2. \A r \in Sides \ {s} : Arrived(r) = 0 /\ buf[r] = 0 => Arrived(r)' = 0 /\ buf'[r] = 0
    BY <1>2, <1>4, <1>5, BothSides, Numbers DEF TunnelInv, Arrived, Ahead
  <2> QED BY <1>2, <2>1, <2>2 DEF TunnelInv, ShutAfterEnd
<1>9. (MethodWasOffered /\ ThreadsFollow /\ ReplyFits)'
  BY <1>2, <1>3
  DEF TunnelInv, TypeOK, MethodWasOffered, ThreadsFollow, ReplyFits, Before, Waiting, Offered
<1> QED BY <1>6, <1>7, <1>8, <1>9 DEF TunnelInv

LEMMA RecvEndsPreserves == ASSUME TunnelInv, NEW s \in Sides, RecvEnds(s) PROVE TunnelInv'
<1>1. /\ thread[s] = "recv" /\ Ended(s)
      /\ rdShut' = [rdShut EXCEPT ![s] = TRUE]
      /\ wrShut' = [wrShut EXCEPT ![Other(s)] = TRUE]
      /\ thread' = [thread EXCEPT ![s] = "done"]
      /\ UNCHANGED <<client, creds, pc, method, reply, leak, stray, lost, sent, fin, gone, read,
                     got, buf>>
  BY Groups DEF RecvEnds
<1>2. TypeOK'
  BY <1>1, BothSides DEF TunnelInv, TypeOK
<1>3. Accounted'
  BY <1>1, BothSides DEF TunnelInv, TypeOK, Accounted
<1>4. (\A r \in Sides : ~gone[r]) => fin[s] /\ Arrived(s) = 0 /\ buf[s] = 0
  BY <1>1 DEF Ended, TunnelInv, Accounted, ShutAfterEnd
<1>5. ShutAfterEnd'
  BY <1>1, <1>4 DEF TunnelInv, TypeOK, ShutAfterEnd, Sides, Other, Arrived, Ahead
<1>6. pc = "tunnel"
  BY <1>1 DEF TunnelInv, TypeOK, ThreadsFollow, Before, Waiting, Final, Sides
<1>7. (MethodWasOffered /\ ThreadsFollow /\ ReplyFits)'
  BY <1>1, <1>6
  DEF TunnelInv, TypeOK, MethodWasOffered, ThreadsFollow, ReplyFits, Before, Waiting, Offered
<1> QED BY <1>2, <1>3, <1>5, <1>7 DEF TunnelInv

LEMMA SendPreserves == ASSUME TunnelInv, NEW s \in Sides, Send(s) PROVE TunnelInv'
<1>1. PICK n \in 1 .. buf[s] :
        /\ got' = [got EXCEPT ![Other(s)] = @ + n]
        /\ buf' = [buf EXCEPT ![s] = @ - n]
        /\ thread' = [thread EXCEPT ![s] = IF n = buf[s] THEN "recv" ELSE "send"]
  BY DEF Send
<1>2. /\ thread[s] = "send" /\ ~wrShut[Other(s)]
      /\ UNCHANGED <<client, creds, pc, method, reply, leak, stray, lost, sent, fin, gone, read,
                     rdShut, wrShut>>
  BY Groups DEF Send
<1>3. /\ buf[s] \in Nat /\ n \in 1 .. buf[s] /\ buf'[s] = buf[s] - n
      /\ got'[Other(s)] = got[Other(s)] + n
      /\ \A r \in Sides \ {s} : buf'[r] = buf[r] /\ got'[Other(r)] = got[Other(r)]
  BY <1>1, Numbers, BothSides DEF TunnelInv, TypeOK, Other
<1>4. got[Other(s)] + buf[s] <= MaxData + 2
  <2>1. \A r \in Sides : read[r] <= MaxData /\ read[r] \in Nat
    BY Numbers DEF TunnelInv
  <2>2. CASE s = "client"
    BY <2>1, <2>2, Numbers DEF TunnelInv, Accounted, Other, Sides
  <2>3. CASE s = "proxy"
    BY <2>1, <2>3, Numbers DEF TunnelInv, Accounted, Other, Sides
  <2> QED BY <2>2, <2>3, BothSides
<1>5. TypeOK'
  <2>1. got' \in [Sides -> 0 .. MaxData + 2] /\ buf' \in [Sides -> 0 .. MaxData + 2]
    BY <1>1, <1>3, <1>4, Numbers, BothSides DEF TunnelInv, TypeOK
  <2>2. thread' \in [Sides -> {"off", "recv", "send", "done"}]
    BY <1>1 DEF TunnelInv, TypeOK
  <2> QED BY <1>2, <2>1, <2>2 DEF TunnelInv, TypeOK
<1>6. Accounted'
  <2>1. /\ got'["proxy"] + buf'["client"] = read["client"]
        /\ got'["client"] + buf'["proxy"] + leak + lost = read["proxy"] + stray
    <3>1. CASE s = "client"
      BY <1>3, <3>1, Numbers DEF TunnelInv, Accounted, Other, Sides
    <3>2. CASE s = "proxy"
      BY <1>3, <3>2, Numbers DEF TunnelInv, Accounted, Other, Sides
    <3> QED BY <3>1, <3>2, BothSides
  <2>2. \A r \in Sides : thread'[r] = "off" => got'[Other(r)] = 0 /\ buf'[r] = 0
    BY <1>1, <1>3 DEF TunnelInv, TypeOK, Accounted
  <2>3. \A r \in Sides : thread'[r] = "recv" => buf'[r] = 0
    BY <1>1, <1>3 DEF TunnelInv, TypeOK, Accounted
  <2> QED BY <1>2, <2>1, <2>2, <2>3 DEF TunnelInv, Accounted
<1>7. ShutAfterEnd'
  <2>1. /\ thread'[s] # "done"
        /\ \A r \in Sides \ {s} : thread'[r] = thread[r]
    BY <1>1 DEF TunnelInv, TypeOK
  <2> QED BY <1>2, <1>3, <2>1, BothSides DEF TunnelInv, ShutAfterEnd, Arrived, Ahead
<1>8. pc = "tunnel"
  BY <1>2 DEF TunnelInv, TypeOK, ThreadsFollow, Before, Waiting, Final, Sides
<1>9. (MethodWasOffered /\ ThreadsFollow /\ ReplyFits)'
  BY <1>1, <1>2, <1>8
  DEF TunnelInv, TypeOK, MethodWasOffered, ThreadsFollow, ReplyFits, Before, Waiting, Offered
<1> QED BY <1>5, <1>6, <1>7, <1>9 DEF TunnelInv

LEMMA HandshakePreserves == TunnelInv /\ (Handshake \/ ProxyAnswers) => TunnelInv'
<1> SUFFICES ASSUME TunnelInv, Handshake \/ ProxyAnswers PROVE TunnelInv'
  OBVIOUS
<1> USE Groups, TunnelAssumption
    DEF TunnelInv, TypeOK, MethodWasOffered, ThreadsFollow, ReplyFits, Accounted, ShutAfterEnd,
        Arrived, Ahead, Before, Waiting, Final, Sides, Other, NoReply, Methods, Core, Timed, Offered, GivenUp
<1>1. CASE Greet
  BY <1>1 DEF Greet
<1>2. CASE HandshakeFails
  BY <1>2 DEF HandshakeFails
<1>3. CASE RecvTimesOut
  BY <1>3 DEF RecvTimesOut
<1>4. CASE ReceiveMethod
  <2>1. pc' \in {"auth", "reply", "passed", "closed", "failed"}
    BY <1>4 DEF ReceiveMethod, AfterMethod
  <2>2. /\ method' \in Methods /\ reply' = NoReply
        /\ pc' \in {"auth", "reply", "passed"} =>
             method' \in Offered \/ (client = "associate" /\ method' = "other")
    BY <1>4 DEF ReceiveMethod, AfterMethod
  <2>3. /\ pc = "method" /\ client' = client /\ creds' = creds /\ UNCHANGED streams
        /\ UNCHANGED <<peers, sockets, threads>>
    BY <1>4 DEF ReceiveMethod
  <2>4. TypeOK' /\ MethodWasOffered' /\ ReplyFits'
    BY <2>1, <2>2, <2>3
  <2> QED BY <2>1, <2>3, <2>4
<1>5. CASE ReceiveAuth
  BY <1>5 DEF ReceiveAuth, AfterMethod
<1>6. CASE ReceiveReply
  BY <1>6, ReplyPreserves
<1>7. CASE ProxyAnswers
  <2>1. UNCHANGED <<client, creds, pc, method, streams, sent, fin, gone, read, got, rdShut, wrShut,
                    thread, buf>>
    BY <1>7 DEF ProxyAnswers, Answers
  <2>2. /\ reply' \in [val : Methods \cup {"nothing", "ok", "error"}, len : {0, 2, 3, 4}]
        /\ pc = "method" => reply'.val \in Methods
    <3>1. CASE Answers("method", Methods, {2})
      BY <3>1 DEF Answers
    <3>2. CASE Answers("auth", {"ok", "error", "garbage"}, {2})
      BY <3>2 DEF Answers
    <3>3. CASE Answers("reply", {"ok", "error", "garbage"}, ReplyLengths)
      <4>1. ReplyLengths \subseteq {0, 2, 3, 4}
        BY DEF ReplyLengths
      <4>2. PICK v \in {"ok", "error", "garbage"}, n \in ReplyLengths :
              reply' = [val |-> v, len |-> n]
        BY <3>3 DEF Answers
      <4>3. pc # "method"
        BY <3>3 DEF Answers
      <4> QED BY <4>1, <4>2, <4>3
    <3> QED BY <1>7, <3>1, <3>2, <3>3 DEF ProxyAnswers
  <2>3. pc = "reply" /\ client = "socks5" => reply'.len >= 3
    BY <1>7 DEF ProxyAnswers, Answers, ReplyLengths
  <2>4. pc # "connect"
    BY <1>7 DEF ProxyAnswers, Answers
  <2>5. TypeOK' /\ Accounted' /\ ShutAfterEnd'
    BY <2>1, <2>2
  <2>6. MethodWasOffered' /\ ThreadsFollow' /\ ReplyFits'
    BY <2>1, <2>2, <2>3, <2>4
  <2> QED BY <2>5, <2>6
<1> QED BY <1>1, <1>2, <1>3, <1>4, <1>5, <1>6, <1>7 DEF Handshake

LEMMA PeersPreserve ==
  ASSUME TunnelInv, NEW s \in Sides, PeerSends(s) \/ PeerCloses(s) \/ PeerResets(s)
  PROVE  TunnelInv'
<1> USE Groups, TunnelAssumption
    DEF TunnelInv, TypeOK, MethodWasOffered, ThreadsFollow, ReplyFits, Accounted, ShutAfterEnd,
        Arrived, Ahead, Before, Waiting, Final, Sides, Other, NoReply, Core, Offered, Talking
<1>1. CASE PeerSends(s)
  BY <1>1, PeerSendsPreserves
<1>2. CASE PeerCloses(s)
  BY <1>2 DEF PeerCloses
<1>3. CASE PeerResets(s)
  BY <1>3 DEF PeerResets
<1> QED BY <1>1, <1>2, <1>3

LEMMA TransferPreserves ==
  ASSUME TunnelInv,
         \/ StartTransfer \/ StartFails \/ HandlerCloses
         \/ \E s \in Sides : Transfer(s)
  PROVE  TunnelInv'
<1> USE Groups, TunnelAssumption
    DEF TunnelInv, TypeOK, MethodWasOffered, ThreadsFollow, ReplyFits, Accounted, ShutAfterEnd,
        Arrived, Ahead, Before, Waiting, Final, Sides, Other, NoReply, Core, Offered
<1>1. CASE StartTransfer
  BY <1>1 DEF StartTransfer
<1>2. CASE StartFails
  BY <1>2 DEF StartFails
<1>3. CASE HandlerCloses
  BY <1>3 DEF HandlerCloses
<1>4. ASSUME NEW s \in Sides, Recv(s) PROVE TunnelInv'
  BY <1>4, RecvPreserves
<1>5. ASSUME NEW s \in Sides, RecvEnds(s) PROVE TunnelInv'
  BY <1>5, RecvEndsPreserves
<1>6. ASSUME NEW s \in Sides, Send(s) PROVE TunnelInv'
  BY <1>6, SendPreserves
<1>7. ASSUME NEW s \in Sides, SendFails(s) PROVE TunnelInv'
  BY <1>7 DEF SendFails
<1> QED BY <1>1, <1>2, <1>3, <1>4, <1>5, <1>6, <1>7 DEF Transfer

THEOREM TunnelInvariance == Spec => []TunnelInv
<1>1. TunnelInv /\ [Next]_vars => TunnelInv'
  <2> SUFFICES ASSUME TunnelInv, [Next]_vars PROVE TunnelInv'
    OBVIOUS
  <2>1. CASE Next
    BY <2>1, HandshakePreserves, PeersPreserve, TransferPreserves DEF Next
  <2>2. CASE UNCHANGED vars
    BY <2>2, Groups
    DEF vars, TunnelInv, TypeOK, MethodWasOffered, ThreadsFollow, ReplyFits, Accounted,
        ShutAfterEnd, Arrived, Ahead, Offered
  <2> QED BY <2>1, <2>2
<1> QED BY InitEstablishes, <1>1, PTL DEF Spec

\* The variables of handshake and tunnel keep their types, the counters their bounds.
THEOREM TypeCorrect == Spec => []TypeOK
<1>1. TunnelInv => TypeOK
  BY DEF TunnelInv
<1> QED BY TunnelInvariance, <1>1, PTL

\* No handshake goes on under a method that its client did not offer.
THEOREM MethodIsOffered == Spec => []MethodWasOffered
<1>1. TunnelInv => MethodWasOffered
  BY DEF TunnelInv
<1> QED BY TunnelInvariance, <1>1, PTL

\* A closed tunnel that nobody reset has delivered every byte of both ends, for any
\* number of bytes and however recv and send cut them; the application has got what was
\* left of the reply besides, and not what was read with an HTTP response.
THEOREM NothingIsLost == Spec => []EveryByteArrives
<1>1. TunnelInv => EveryByteArrives
  <2> SUFFICES ASSUME TunnelInv, pc = "closed", thread["proxy"] = "done",
                      \A s \in Sides : ~gone[s]
               PROVE  /\ got["proxy"] = sent["client"]
                      /\ got["client"] = stray + (sent["proxy"] - lost)
                      /\ client = "socks5" => lost = 0
    BY DEF EveryByteArrives
  <2>1. \A s \in Sides : thread[s] = "done"
    BY DEF TunnelInv, ThreadsFollow, Sides
  <2>2. \A s \in Sides : Arrived(s) = 0 /\ buf[s] = 0
    BY <2>1 DEF TunnelInv, ShutAfterEnd
  <2>3. /\ leak \in Nat /\ sent["proxy"] \in Nat /\ read["proxy"] \in Nat
        /\ sent["client"] \in Nat /\ read["client"] \in Nat
        /\ read["proxy"] <= sent["proxy"]
    BY Numbers, BothSides DEF TunnelInv
  <2>4. leak = 0 /\ read["proxy"] = sent["proxy"]
    <3>1. leak + sent["proxy"] - read["proxy"] = 0
      BY <2>2, BothSides DEF Arrived, Ahead
    <3>2. \A a, b, c \in Nat : c <= b /\ a + b - c = 0 => a = 0 /\ c = b
      OBVIOUS
    <3> QED BY ONLY <2>3, <3>1, <3>2
  <2>5. read["client"] = sent["client"]
    <3>1. 0 + sent["client"] - read["client"] = 0
      BY <2>2, BothSides DEF Arrived, Ahead
    <3>2. \A b, c \in Nat : 0 + b - c = 0 => c = b
      OBVIOUS
    <3> QED BY ONLY <2>3, <3>1, <3>2
  <2> QED BY <2>2, <2>4, <2>5, Numbers, BothSides DEF TunnelInv, Accounted
<1> QED BY TunnelInvariance, <1>1, PTL
===============================================================================
