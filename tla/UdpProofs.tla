------------------------------- MODULE UdpProofs -------------------------------
(***************************************************************************)
(* Proofs about the UDP relay (UdpRelay), for any clients, destinations,   *)
(* number of sessions, wait limit and time-out: a client has one session,  *)
(* answers stay with the client they are for, and a stop leaves one        *)
(* session behind at most.                                                 *)
(*                                                                         *)
(* The argument is about g_lock: while AddSession waits for the proxy it   *)
(* holds the lock (Exclusive), so the slot it chose stays free and its     *)
(* client without a session until it fills the slot (SlotKept).            *)
(***************************************************************************)
EXTENDS UdpRelay, FiniteSetTheorems, SequenceTheorems, TLAPS

\* The lock is held by a dialling AddSession, or by the relay's loop over the sessions.
Exclusive ==
  /\ lock = "packet" <=> Dialling
  /\ lock = "relay" <=> relay.pc = "sessions"

\* What find_session_by_client and find_free_session said holds until the slot is filled.
SlotKept ==
  Dialling =>
    /\ ~Active(adder.slot)
    /\ \A s \in Slots : Active(s) => session[s].client # adder.client

\* A call of AddSession that outlasts the stop finds the sessions closed.
LateCall ==
  Surviving /\ (adder.st = "entering" \/ Dialling) => \A s \in Slots : ~Active(s)

UdpInv ==
  /\ TypeOK
  /\ Exclusive /\ SlotKept /\ OneSessionPerClient
  /\ AnswersAreForTheirClient /\ LateCall /\ AtMostOneSurvivor

\* A session's record is no empty slot.
LEMMA SessionIsActive == ASSUME NEW x \in Session PROVE x # NoSession /\ x.client \in Clients
BY UdpAssumption DEF Session, NoSession

LEMMA ActiveIsSession ==
  ASSUME TypeOK, NEW s \in Slots
  PROVE  /\ Active(s) => session[s] \in Session /\ session[s].client \in Clients
         /\ ~Active(s) <=> session[s] = NoSession
BY SessionIsActive DEF TypeOK, Active

LEMMA AdderTypes ==
  ASSUME TypeOK
  PROVE  /\ adder = Idler \/ (adder.client \in Clients /\ adder.dest \in Dests)
         /\ adder.st \in {"idle", "entering", "connecting", "asking", "returned"}
         /\ adder.st = "idle" <=> adder = Idler
         /\ Dialling => adder.slot \in Slots
         /\ adder.st \in {"entering", "returned"} =>
              adder \in [st : {"entering", "returned"}, client : Clients, dest : Dests]
BY DEF TypeOK, Adders, Idler, Dialling

\* What the present datagrams are stays so when one is added or taken.
LEMMA InboxTypes ==
  ASSUME TypeOK
  PROVE  /\ inbox \in Seq(Datagram) /\ Len(inbox) \in Nat
         /\ \A f \in Addrs \X UdpPorts, c \in Clients :
              Enqueue(f, c) => inbox' \in Seq(Datagram) /\ Len(inbox') <= MaxQueue
         /\ inbox # <<>> /\ inbox' = Tail(inbox)
              => inbox' \in Seq(Datagram) /\ Len(inbox') <= MaxQueue
         /\ inbox' = <<>> => inbox' \in Seq(Datagram) /\ Len(inbox') <= MaxQueue
<1>1. inbox \in Seq(Datagram) /\ Len(inbox) \in Nat /\ Len(inbox) <= MaxQueue
  BY LenProperties DEF TypeOK
<1>2. ASSUME NEW f \in Addrs \X UdpPorts, NEW c \in Clients, Enqueue(f, c)
      PROVE  inbox' \in Seq(Datagram) /\ Len(inbox') <= MaxQueue
  <2>1. [from |-> f, sender |-> c] \in Datagram
    BY DEF Datagram
  <2>2. CASE running /\ Len(inbox) < MaxQueue
    <3>1. inbox' = Append(inbox, [from |-> f, sender |-> c])
      BY <1>2, <2>2 DEF Enqueue
    <3>2. inbox' \in Seq(Datagram) /\ Len(inbox') = Len(inbox) + 1
      BY <1>1, <2>1, <3>1, AppendProperties
    <3> QED BY <1>1, <2>2, <3>2, UdpAssumption
  <2>3. CASE ~(running /\ Len(inbox) < MaxQueue)
    BY <1>1, <1>2, <2>3 DEF Enqueue
  <2> QED BY <2>2, <2>3
<1>3. ASSUME inbox # <<>>, inbox' = Tail(inbox)
      PROVE  inbox' \in Seq(Datagram) /\ Len(inbox') <= MaxQueue
  <2>1. inbox' \in Seq(Datagram) /\ Len(inbox') = Len(inbox) - 1
    BY <1>1, <1>3, HeadTailProperties
  <2> QED BY <1>1, <2>1, UdpAssumption
<1>4. ASSUME inbox' = <<>> PROVE inbox' \in Seq(Datagram) /\ Len(inbox') <= MaxQueue
  BY <1>4, EmptySeq, UdpAssumption
<1> QED BY <1>1, <1>2, <1>3, <1>4

LEMMA InitEstablishes == Init => UdpInv
<1> SUFFICES ASSUME Init PROVE UdpInv
  OBVIOUS
<1>1. TypeOK
  <2>1. inbox \in Seq(Datagram) /\ Len(inbox) <= MaxQueue
    BY EmptySeq, UdpAssumption DEF Init
  <2>2. 1 \in 1 .. MaxSessions + 1
    BY UdpAssumption
  <2> QED BY <2>1, <2>2 DEF Init, TypeOK, Adders
<1>2. \A s \in Slots : ~Active(s) /\ answer[s] = Nobody
  BY DEF Init, Active
<1> QED BY <1>1, <1>2, UdpAssumption
        DEF Init, UdpInv, Exclusive, SlotKept, Dialling, OneSessionPerClient, AnswersAreForTheirClient,
            LateCall, AtMostOneSurvivor, Idler
-------------------------------------------------------------------------------
(* The packet thread. *)

LEMMA RedirectPreserves ==
  ASSUME UdpInv, NEW c \in Clients, NEW d \in Dests, Redirect(c, d)
  PROVE  UdpInv'
<1>1. adder' = [st |-> "entering", client |-> c, dest |-> d] /\ adder' \in Adders
  BY DEF Redirect, Adders
<1> QED BY <1>1
  DEF Redirect, UdpInv, TypeOK, Exclusive, SlotKept, Dialling, OneSessionPerClient, Active,
      AnswersAreForTheirClient, LateCall, AtMostOneSurvivor, Surviving, Idler

LEMMA AddSessionPreserves ==
  ASSUME UdpInv, AddSessionFound \/ AddSessionFull \/ AddSessionDials
  PROVE  UdpInv'
<1> USE DEF UdpInv
<1>0. TypeOK
  OBVIOUS
<1>1. CASE AddSessionFound
  <2>1. adder' = [adder EXCEPT !.st = "returned"] /\ adder.st = "entering"
    BY <1>1 DEF AddSessionFound
  <2>2. adder' \in Adders /\ adder'.st = "returned"
    BY <1>0, <2>1, AdderTypes DEF Adders
  <2> QED BY <1>1, <2>1, <2>2
    DEF AddSessionFound, TypeOK, Exclusive, SlotKept, Dialling, OneSessionPerClient, Active,
        AnswersAreForTheirClient, LateCall, AtMostOneSurvivor, Surviving
<1>2. CASE AddSessionFull
  <2>1. adder' \in Adders /\ adder'.st = "idle" /\ adder.st = "entering"
    BY <1>2 DEF AddSessionFull, Adders, Idler
  <2> QED BY <1>2, <2>1
    DEF AddSessionFull, TypeOK, Exclusive, SlotKept, Dialling, OneSessionPerClient, Active,
        AnswersAreForTheirClient, LateCall, AtMostOneSurvivor, Surviving
<1>3. CASE AddSessionDials
  <2>1. PICK s \in FreeSlots :
          adder' = [st |-> "connecting", client |-> adder.client, dest |-> adder.dest, slot |-> s]
    BY <1>3 DEF AddSessionDials
  <2>2. adder.st = "entering" /\ adder.client \in Clients /\ adder.dest \in Dests
    BY <1>0, <1>3, AdderTypes DEF AddSessionDials, Idler
  <2>3. s \in Slots /\ ~Active(s) /\ adder' \in Adders
    BY <2>1, <2>2 DEF FreeSlots, Adders
  <2>4. \A t \in Slots : Active(t) => session[t].client # adder.client
    BY <1>3 DEF AddSessionDials, SessionsOf
  <2> QED BY <1>3, <2>1, <2>2, <2>3, <2>4, UdpAssumption
    DEF AddSessionDials, TypeOK, Exclusive, SlotKept, Dialling, OneSessionPerClient, Active,
        AnswersAreForTheirClient, LateCall, AtMostOneSurvivor, Surviving
<1> QED BY <1>1, <1>2, <1>3

LEMMA DialPreserves ==
  ASSUME UdpInv, Dial \/ ProxyGrants \/ ProxyRefuses \/ SendRedirected
  PROVE  UdpInv'
<1> USE DEF UdpInv
<1>0. TypeOK
  OBVIOUS
<1>1. CASE ProxyGrants
  <2> DEFINE new == [client |-> adder.client, dest |-> adder.dest, idle |-> 0,
                     bound |-> FALSE, selected |-> FALSE]
  <2>1. /\ adder.st = "asking" /\ Dialling /\ adder.slot \in Slots
        /\ adder.client \in Clients /\ adder.dest \in Dests
    BY <1>0, <1>1, AdderTypes DEF ProxyGrants, Idler, Dialling
  <2>2. session' = [session EXCEPT ![adder.slot] = new] /\ new \in Session
    BY <1>1, <2>1, UdpAssumption DEF ProxyGrants, Session
  <2>3. adder' \in Adders /\ adder'.st = "returned"
    BY <1>1, <2>1 DEF ProxyGrants, Adders
  <2>4. ~Active(adder.slot) /\ \A s \in Slots : Active(s) => session[s].client # adder.client
    BY <2>1 DEF SlotKept
  <2>5. \A s \in Slots : /\ session'[s] = IF s = adder.slot THEN new ELSE session[s]
                         /\ Active(s)' <=> s = adder.slot \/ Active(s)
    BY <1>0, <2>1, <2>2, SessionIsActive DEF Active, TypeOK
  <2>6. TypeOK'
    BY <1>1, <2>1, <2>2, <2>3 DEF ProxyGrants, TypeOK
  <2>7. Exclusive' /\ SlotKept'
    BY <1>1, <2>1, <2>3, UdpAssumption DEF ProxyGrants, Exclusive, SlotKept, Dialling
  <2>8. OneSessionPerClient'
    BY <2>4, <2>5 DEF OneSessionPerClient
  <2>9. AnswersAreForTheirClient'
    BY <1>1, <2>4, <2>5 DEF ProxyGrants, AnswersAreForTheirClient
  <2>10. LateCall' /\ AtMostOneSurvivor'
    BY <1>1, <2>1, <2>3, <2>5 DEF ProxyGrants, LateCall, AtMostOneSurvivor, Surviving, Dialling
  <2> QED BY <2>6, <2>7, <2>8, <2>9, <2>10
<1>2. CASE DialFails \/ ProxyRefuses
  <2>1. adder' \in Adders /\ adder'.st = "idle" /\ Dialling
    BY <1>2 DEF DialFails, ProxyRefuses, Adders, Idler, Dialling
  <2> QED BY <1>2, <2>1, UdpAssumption
    DEF DialFails, ProxyRefuses, TypeOK, Exclusive, SlotKept, Dialling, OneSessionPerClient, Active,
        AnswersAreForTheirClient, LateCall, AtMostOneSurvivor, Surviving, Dialling
<1>4. CASE DialSucceeds
  <2>1. /\ Dialling /\ adder.slot \in Slots /\ adder.client \in Clients /\ adder.dest \in Dests
        /\ adder \in [st : {"connecting", "asking"}, client : Clients, dest : Dests, slot : Slots]
    BY <1>0, <1>4 DEF DialSucceeds, Dialling, TypeOK, Adders, Idler
  <2>2. adder' = [adder EXCEPT !.st = "asking"]
    BY <1>4 DEF DialSucceeds
  <2>3. /\ adder' \in Adders /\ adder'.st = "asking" /\ adder'.slot = adder.slot
        /\ adder'.client = adder.client
    BY <2>1, <2>2 DEF Adders
  <2> QED BY <1>4, <2>1, <2>3
    DEF DialSucceeds, TypeOK, Exclusive, SlotKept, Dialling, OneSessionPerClient, Active,
        AnswersAreForTheirClient, LateCall, AtMostOneSurvivor, Surviving, Dialling
<1>3. CASE SendRedirected
  <2>1. adder' \in Adders /\ adder'.st = "idle" /\ adder.st = "returned"
    BY <1>3 DEF SendRedirected, Adders, Idler
  <2>2. adder.client \in Clients /\ adder.dest \in Addrs /\ adder.client[2] \in UdpPorts
    BY <1>0, <2>1, AdderTypes, UdpAssumption DEF Idler
  <2>3. inbox' \in Seq(Datagram) /\ Len(inbox') <= MaxQueue
    BY <1>0, <1>3, <2>2, InboxTypes DEF SendRedirected, TypeOK
  <2> QED BY <1>3, <2>1, <2>3
    DEF SendRedirected, TypeOK, Exclusive, SlotKept, Dialling, OneSessionPerClient, Active,
        AnswersAreForTheirClient, LateCall, AtMostOneSurvivor, Surviving
<1> QED BY <1>1, <1>2, <1>3, <1>4 DEF Dial
-------------------------------------------------------------------------------
(* The relay thread, its clients and the clock. *)

\* Closing sessions takes nothing but the sessions and what waits for them.
LEMMA CloseKeeps ==
  ASSUME TypeOK, AnswersAreForTheirClient, NEW S \in SUBSET Slots, CloseSessionSockets(S)
  PROVE  /\ session' \in [Slots -> Session \cup {NoSession}]
         /\ answer' \in [Slots -> Clients \cup {Nobody}]
         /\ \A s \in Slots : Active(s)' <=> Active(s) /\ s \notin S
         /\ \A s \in Slots : Active(s)' => session'[s] = session[s]
         /\ AnswersAreForTheirClient'
<1>1. \A s \in Slots : /\ session'[s] = IF s \in S THEN NoSession ELSE session[s]
                       /\ answer'[s] = IF s \in S THEN Nobody ELSE answer[s]
  BY DEF CloseSessionSockets
<1>2. \A s \in Slots : Active(s)' <=> Active(s) /\ s \notin S
  BY <1>1 DEF Active
<1>3. /\ session' \in [Slots -> Session \cup {NoSession}]
      /\ answer' \in [Slots -> Clients \cup {Nobody}]
  BY DEF CloseSessionSockets, TypeOK
<1>4. AnswersAreForTheirClient'
  BY <1>1, <1>2 DEF AnswersAreForTheirClient
<1> QED BY <1>1, <1>2, <1>3, <1>4 DEF Active

\* A step that keeps every session's client, and the slots that have one.
SameClients ==
  /\ session' \in [Slots -> Session \cup {NoSession}]
  /\ \A s \in Slots : Active(s)' <=> Active(s)
  /\ \A s \in Slots : Active(s) => session'[s].client = session[s].client

LEMMA UpdateKeepsClients ==
  ASSUME TypeOK, NEW S \in SUBSET Slots, NEW new,
         \A s \in S : Active(s) /\ new[s] \in Session /\ new[s].client = session[s].client,
         session' = [s \in Slots |-> IF s \in S THEN new[s] ELSE session[s]]
  PROVE  SameClients
<1>1. \A s \in Slots : session'[s] = IF s \in S THEN new[s] ELSE session[s]
  OBVIOUS
<1>2. session' \in [Slots -> Session \cup {NoSession}]
  BY DEF TypeOK
<1>3. \A s \in Slots : Active(s)' <=> Active(s)
  BY <1>1, SessionIsActive DEF Active
<1> QED BY <1>1, <1>2, <1>3 DEF SameClients

LEMMA SameClientsPreserve ==
  ASSUME UdpInv, SameClients, UNCHANGED <<adder, engine>>
  PROVE  SlotKept' /\ OneSessionPerClient' /\ LateCall' /\ AtMostOneSurvivor'
<1>1. Dialling => adder.slot \in Slots
  BY AdderTypes DEF UdpInv
<1> QED BY <1>1
  DEF UdpInv, SameClients, SlotKept, Dialling, OneSessionPerClient, LateCall, AtMostOneSurvivor, Surviving

LEMMA OutsidePreserves ==
  ASSUME UdpInv,
         (\E c \in Strangers : SendToRelay(c)) \/ (\E s \in Slots : ProxyAnswers(s)) \/ Tick
  PROVE  UdpInv'
<1> USE DEF UdpInv
<1>0. TypeOK
  OBVIOUS
<1>1. ASSUME NEW c \in Strangers, SendToRelay(c) PROVE UdpInv'
  <2>1. inbox' \in Seq(Datagram) /\ Len(inbox') <= MaxQueue
    BY <1>0, <1>1, InboxTypes, UdpAssumption DEF SendToRelay
  <2> QED BY <1>1, <2>1
    DEF SendToRelay, TypeOK, Exclusive, SlotKept, Dialling, OneSessionPerClient, Active,
        AnswersAreForTheirClient, LateCall, AtMostOneSurvivor, Surviving
<1>2. ASSUME NEW s \in Slots, ProxyAnswers(s) PROVE UdpInv'
  <2>1. Active(s) /\ session[s].client \in Clients
    BY <1>0, <1>2, ActiveIsSession DEF ProxyAnswers
  <2> QED BY <1>2, <2>1
    DEF ProxyAnswers, TypeOK, Exclusive, SlotKept, Dialling, OneSessionPerClient, Active,
        AnswersAreForTheirClient, LateCall, AtMostOneSurvivor, Surviving
<1>3. CASE Tick
  <2> DEFINE S == {s \in Slots : Active(s) /\ session[s].idle <= Timeout}
             new == [s \in Slots |-> [client |-> session[s].client, dest |-> session[s].dest,
                                      idle |-> session[s].idle + 1, bound |-> session[s].bound,
                                      selected |-> session[s].selected]]
  <2>1. \A s \in S : /\ session[s] \in Session
                     /\ [session[s] EXCEPT !.idle = @ + 1] = new[s] /\ new[s] \in Session
    BY <1>0, ActiveIsSession, UdpAssumption DEF Session
  <2>2. SameClients
    <3>1. session' = [s \in Slots |-> IF s \in S THEN new[s] ELSE session[s]]
      BY <1>3, <2>1 DEF Tick
    <3>2. \A s \in S : Active(s) /\ new[s].client = session[s].client
      OBVIOUS
    <3> HIDE DEF new, S
    <3>3. \A s \in S : new[s] \in Session
      BY <2>1
    <3> QED BY <1>0, <3>1, <3>2, <3>3, UpdateKeepsClients DEF S
  <2>3. UNCHANGED <<answer, inbox, lock, adder, relay, running, engine>>
    BY <1>3 DEF Tick
  <2>4. SlotKept' /\ OneSessionPerClient' /\ LateCall' /\ AtMostOneSurvivor'
    BY <2>2, <2>3, SameClientsPreserve
  <2>5. TypeOK' /\ Exclusive'
    BY <2>2, <2>3 DEF SameClients, TypeOK, Exclusive, Dialling
  <2>6. AnswersAreForTheirClient'
    BY <2>2, <2>3 DEF SameClients, AnswersAreForTheirClient
  <2> QED BY <2>4, <2>5, <2>6
<1> QED BY <1>1, <1>2, <1>3

RelayTypes ==
  [pc : {"expire", "select", "wait", "listen", "enter", "sessions", "ended"},
   events : SUBSET Slots, at : 1 .. MaxSessions + 1]

\* The steps of the relay thread that leave the sessions alone.
LEMMA RelayWaitPreserves ==
  ASSUME UdpInv,
         \/ RelayEnds \/ RelayWaitFails \/ RelayWaitTimesOut \/ RelayWakes
         \/ RelayEntersSessions \/ RelayLoops
  PROVE  UdpInv'
<1> USE UdpAssumption
    DEF UdpInv, TypeOK, Exclusive, SlotKept, Dialling, OneSessionPerClient, Active,
        AnswersAreForTheirClient, LateCall, AtMostOneSurvivor, Surviving
<1> relay \in RelayTypes
  BY DEF RelayTypes
<1>1. CASE RelayEnds
  BY <1>1 DEF RelayEnds
<1>2. CASE RelayWaitFails
  BY <1>2 DEF RelayWaitFails
<1>3. CASE RelayWaitTimesOut
  BY <1>3 DEF RelayWaitTimesOut
<1>4. CASE RelayWakes
  BY <1>4 DEF RelayWakes
<1>5. CASE RelayEntersSessions
  <2>1. TypeOK'
    <3>1. /\ relay' = [relay EXCEPT !.pc = "sessions", !.at = 1]
          /\ 1 \in 1 .. MaxSessions + 1
      BY <1>5 DEF RelayEntersSessions
    <3>2. relay' = [pc |-> "sessions", events |-> relay.events, at |-> 1]
      BY <3>1 DEF RelayTypes
    <3>3. relay' \in RelayTypes
      BY <3>1, <3>2 DEF RelayTypes
    <3> QED BY <1>5, <3>3 DEF RelayEntersSessions, RelayTypes
  <2>2. Exclusive'
    BY <1>5 DEF RelayEntersSessions
  <2> QED BY <1>5, <2>1, <2>2 DEF RelayEntersSessions
<1>6. CASE RelayLoops
  <2>1. TypeOK'
    <3>1. /\ relay' = [relay EXCEPT !.pc = "expire", !.at = 1]
          /\ 1 \in 1 .. MaxSessions + 1
      BY <1>6 DEF RelayLoops
    <3>2. relay' = [pc |-> "expire", events |-> relay.events, at |-> 1]
      BY <3>1 DEF RelayTypes
    <3>3. relay' \in RelayTypes
      BY <3>1, <3>2 DEF RelayTypes
    <3> QED BY <1>6, <3>3 DEF RelayLoops, RelayTypes
  <2>2. Exclusive'
    BY <1>6 DEF RelayLoops
  <2> QED BY <1>6, <2>1, <2>2 DEF RelayLoops
<1> QED BY <1>1, <1>2, <1>3, <1>4, <1>5, <1>6

\* The expiry closes sessions while nobody holds the lock.
LEMMA ExpirePreserves == ASSUME UdpInv, RelayExpire PROVE UdpInv'
<1> USE DEF UdpInv
<1> DEFINE S == {s \in Slots : Active(s) /\ session[s].idle > Timeout}
<1>1. CloseSessionSockets(S) /\ S \in SUBSET Slots
  BY DEF RelayExpire
<1>2. /\ relay' = [relay EXCEPT !.pc = "select"] /\ relay.pc = "expire" /\ lock = Nobody
      /\ UNCHANGED <<inbox, lock, adder, running, engine>>
  BY DEF RelayExpire
<1> HIDE DEF S
<1>3. /\ session' \in [Slots -> Session \cup {NoSession}]
      /\ answer' \in [Slots -> Clients \cup {Nobody}]
      /\ \A s \in Slots : Active(s)' => Active(s) /\ session'[s] = session[s]
      /\ AnswersAreForTheirClient'
  BY <1>1, CloseKeeps
<1>4. TypeOK' /\ Exclusive'
  BY <1>2, <1>3 DEF TypeOK, Exclusive, Dialling
<1>5. SlotKept'
  BY <1>2, UdpAssumption DEF SlotKept, Exclusive, Dialling
<1>6. OneSessionPerClient' /\ LateCall' /\ AtMostOneSurvivor'
  BY <1>2, <1>3 DEF Dialling, OneSessionPerClient, LateCall, AtMostOneSurvivor, Surviving
<1> QED BY <1>3, <1>4, <1>5, <1>6

\* The steps that look at sessions and keep their clients.
LEMMA RelayUsePreserves ==
  ASSUME UdpInv, RelaySelect \/ RelayForwards \/ RelayReceives
  PROVE  UdpInv'
<1> USE DEF UdpInv
<1>0. TypeOK /\ relay \in RelayTypes
  BY DEF TypeOK, RelayTypes
<1>1. SameClients
  <2>1. CASE RelaySelect
    <3> DEFINE new == [s \in Slots |-> [session[s] EXCEPT !.selected = TRUE]]
    <3>1. session' = [s \in Slots |-> IF s \in Selected THEN new[s] ELSE session[s]]
      BY <2>1 DEF RelaySelect
    <3>2. \A s \in Selected : Active(s) /\ new[s] \in Session /\ new[s].client = session[s].client
      BY <1>0, ActiveIsSession DEF Selected, Session
    <3>3. Selected \in SUBSET Slots
      BY DEF Selected
    <3> HIDE DEF new
    <3> QED BY <1>0, <3>1, <3>2, <3>3, UpdateKeepsClients
  <2>2. CASE RelayForwards
    <3>1. CASE inbox = <<>>
      <4>1. session' = session
        BY <2>2, <3>1 DEF RelayForwards
      <4> QED BY <1>0, <4>1 DEF SameClients, TypeOK, Active
    <3>2. CASE inbox # <<>>
      <4> DEFINE S == SessionsOf(Head(inbox).from)
                 new == [s \in Slots |-> [session[s] EXCEPT !.bound = TRUE, !.idle = 0]]
      <4>1. session' = [s \in Slots |-> IF s \in S THEN new[s] ELSE session[s]]
        BY <2>2, <3>2 DEF RelayForwards
      <4>2. S \in SUBSET Slots /\ \A s \in S : Active(s)
        BY DEF SessionsOf
      <4>3. ASSUME NEW s \in S
            PROVE  new[s] \in Session /\ new[s].client = session[s].client
        <5>1. session[s] \in Session
          BY <1>0, <4>2, ActiveIsSession
        <5>2. new[s] = [client |-> session[s].client, dest |-> session[s].dest, idle |-> 0,
                        bound |-> TRUE, selected |-> session[s].selected]
          BY <4>2, <5>1 DEF Session
        <5>3. 0 \in 0 .. Timeout + 1
          BY UdpAssumption
        <5>4. new[s] \in Session
          BY <4>2, <5>1, <5>2, <5>3 DEF Session
        <5>5. new[s].client = session[s].client
          BY <4>2, <5>2
        <5> QED BY <5>4, <5>5
      <4> HIDE DEF new, S
      <4> QED BY <1>0, <4>1, <4>2, <4>3, UpdateKeepsClients
    <3> QED BY <3>1, <3>2
  <2>3. CASE RelayReceives
    <3>1. CASE Active(relay.at) /\ answer[relay.at] # Nobody
      <4> DEFINE new == [s \in Slots |-> [session[s] EXCEPT !.idle = 0]]
      <4>1. relay.at \in Slots /\ session' = [session EXCEPT ![relay.at].idle = 0]
        BY <2>3, <3>1 DEF RelayReceives
      <4>2. session' = [s \in Slots |-> IF s \in {relay.at} THEN new[s] ELSE session[s]]
        BY <1>0, <4>1 DEF TypeOK
      <4>3. new[relay.at] \in Session /\ new[relay.at].client = session[relay.at].client
        <5>1. session[relay.at] \in Session
          BY <1>0, <3>1, <4>1, ActiveIsSession
        <5>2. 0 \in 0 .. Timeout + 1
          BY UdpAssumption
        <5>3. new[relay.at] = [session[relay.at] EXCEPT !.idle = 0]
          BY <4>1
        <5> QED BY <5>1, <5>2, <5>3 DEF Session
      <4>4. {relay.at} \in SUBSET Slots
        BY <4>1
      <4> HIDE DEF new
      <4>5. \A s \in {relay.at} : Active(s) /\ new[s] \in Session
                                   /\ new[s].client = session[s].client
        BY <3>1, <4>3
      <4> QED BY <1>0, <4>2, <4>4, <4>5, UpdateKeepsClients
    <3>2. CASE ~(Active(relay.at) /\ answer[relay.at] # Nobody)
      <4>1. session' = session
        BY <2>3, <3>2 DEF RelayReceives
      <4> QED BY <1>0, <4>1 DEF SameClients, TypeOK, Active
    <3> QED BY <3>1, <3>2
  <2> QED BY <2>1, <2>2, <2>3
<1>2. UNCHANGED <<lock, adder, running, engine>>
  BY DEF RelaySelect, RelayForwards, RelayReceives
<1>3. SlotKept' /\ OneSessionPerClient' /\ LateCall' /\ AtMostOneSurvivor'
  BY <1>1, <1>2, SameClientsPreserve
<1>4. relay' \in RelayTypes /\ (relay'.pc = "sessions" <=> relay.pc = "sessions")
  <2>1. CASE RelaySelect
    BY <1>0, <2>1 DEF RelaySelect, RelayTypes, Selected
  <2>2. CASE RelayForwards
    BY <1>0, <2>2 DEF RelayForwards, RelayTypes
  <2>3. CASE RelayReceives
    <3>1. relay' = [relay EXCEPT !.at = relay.at + 1] /\ relay.at \in Slots
      BY <2>3 DEF RelayReceives
    <3>2. relay.at + 1 \in 1 .. MaxSessions + 1
      BY <3>1, UdpAssumption DEF Slots
    <3> QED BY <1>0, <3>1, <3>2 DEF RelayTypes
  <2> QED BY <2>1, <2>2, <2>3
<1>5. answer' \in [Slots -> Clients \cup {Nobody}]
      /\ \A s \in Slots : answer'[s] \in {answer[s], Nobody}
  BY <1>0 DEF RelaySelect, RelayForwards, RelayReceives, TypeOK
<1>6. inbox' \in Seq(Datagram) /\ Len(inbox') <= MaxQueue
  <2>1. inbox' = inbox \/ (inbox # <<>> /\ inbox' = Tail(inbox))
    BY DEF RelaySelect, RelayForwards, RelayReceives
  <2> QED BY <1>0, <2>1, InboxTypes DEF TypeOK
<1>7. TypeOK' /\ Exclusive'
  <2>1. relay.pc # "ended"
    BY DEF RelaySelect, RelayForwards, RelayReceives
  <2>2. TypeOK'
    BY <1>0, <1>1, <1>2, <1>4, <1>5, <1>6 DEF TypeOK, SameClients, RelayTypes
  <2> QED BY <1>2, <1>4, <2>1, <2>2 DEF Exclusive, Dialling
<1>8. AnswersAreForTheirClient'
  BY <1>1, <1>5 DEF SameClients, AnswersAreForTheirClient
<1> QED BY <1>3, <1>7, <1>8
-------------------------------------------------------------------------------
(* Start and stop. *)

LEMMA StopPreserves == ASSUME UdpInv, Start \/ StopCapture \/ Stopping PROVE UdpInv'
<1> USE DEF UdpInv
<1>0. TypeOK /\ relay \in RelayTypes
  BY DEF TypeOK, RelayTypes
<1>1. CASE Start
  <2>1. inbox' \in Seq(Datagram) /\ Len(inbox') <= MaxQueue
    BY <1>0, <1>1, InboxTypes DEF Start
  <2>2. relay' \in RelayTypes /\ relay'.pc = "expire"
    BY <1>0, <1>1 DEF Start, RelayTypes
  <2> QED BY <1>1, <2>1, <2>2
    DEF Start, TypeOK, RelayTypes, Exclusive, SlotKept, Dialling, OneSessionPerClient, Active,
        AnswersAreForTheirClient, LateCall, AtMostOneSurvivor, Surviving
<1>2. CASE StopCapture
  BY <1>2
  DEF StopCapture, TypeOK, Exclusive, SlotKept, Dialling, OneSessionPerClient, Active,
      AnswersAreForTheirClient, LateCall, AtMostOneSurvivor, Surviving
<1>3. CASE StopRelay
  <2>1. inbox' \in Seq(Datagram) /\ Len(inbox') <= MaxQueue
    BY <1>0, <1>3, InboxTypes DEF StopRelay
  <2> QED BY <1>3, <2>1
    DEF StopRelay, TypeOK, Exclusive, SlotKept, Dialling, OneSessionPerClient, Active,
        AnswersAreForTheirClient, LateCall, AtMostOneSurvivor, Surviving
<1>4. CASE StopSessions
  <2>1. /\ session' \in [Slots -> Session \cup {NoSession}]
        /\ answer' \in [Slots -> Clients \cup {Nobody}]
        /\ \A s \in Slots : ~Active(s)'
        /\ AnswersAreForTheirClient'
    BY <1>0, <1>4, CloseKeeps DEF StopSessions
  <2>2. /\ lock = Nobody /\ engine' = "joining"
        /\ UNCHANGED <<inbox, lock, adder, relay, running>>
    BY <1>4 DEF StopSessions
  <2>3. TypeOK' /\ Exclusive'
    BY <2>1, <2>2 DEF TypeOK, Exclusive, Dialling
  <2>4. SlotKept'
    BY <2>2, UdpAssumption DEF SlotKept, Exclusive, Dialling
  <2> QED BY <2>1, <2>3, <2>4 DEF Dialling, OneSessionPerClient, LateCall, AtMostOneSurvivor
<1>5. CASE StopJoins
  BY <1>5
  DEF StopJoins, TypeOK, Exclusive, SlotKept, Dialling, OneSessionPerClient, Active,
      AnswersAreForTheirClient, LateCall, AtMostOneSurvivor, Surviving
<1> QED BY <1>1, <1>2, <1>3, <1>4, <1>5 DEF Stopping

THEOREM UdpInvariance == Spec => []UdpInv
<1>1. UdpInv /\ [Next]_vars => UdpInv'
  <2> SUFFICES ASSUME UdpInv, [Next]_vars PROVE UdpInv'
    OBVIOUS
  <2>0. ASSUME NEW c \in Clients, NEW d \in SendsTo[c], Redirect(c, d) PROVE UdpInv'
    <3>1. d \in Dests
      BY UdpAssumption
    <3> QED BY <2>0, <3>1, RedirectPreserves
  <2>1. CASE Next
    BY <2>0, <2>1, AddSessionPreserves, DialPreserves, OutsidePreserves,
       RelayWaitPreserves, ExpirePreserves, RelayUsePreserves, StopPreserves
    DEF Next, PacketStep, RelayStep
  <2>2. CASE UNCHANGED vars
    BY <2>2
    DEF vars, UdpInv, TypeOK, Exclusive, SlotKept, Dialling, OneSessionPerClient, Active,
        AnswersAreForTheirClient, LateCall, AtMostOneSurvivor, Surviving
  <2> QED BY <2>1, <2>2
<1> QED BY InitEstablishes, <1>1, PTL DEF Spec

\* The variables of the relay keep their types, the queue and the sessions their bounds.
THEOREM TypeCorrect == Spec => []TypeOK
<1>1. UdpInv => TypeOK
  BY DEF UdpInv
<1> QED BY UdpInvariance, <1>1, PTL

\* AddSession never opens a second session for a client.
THEOREM SessionIsUnique == Spec => []OneSessionPerClient
<1>1. UdpInv => OneSessionPerClient
  BY DEF UdpInv
<1> QED BY UdpInvariance, <1>1, PTL

\* A slot's answers are for the client that has it.
THEOREM AnswersStayWithTheirClient == Spec => []AnswersAreForTheirClient
<1>1. UdpInv => AnswersAreForTheirClient
  BY DEF UdpInv
<1> QED BY UdpInvariance, <1>1, PTL

\* A stop leaves one session at most, that of a call it did not wait for.
THEOREM OneSurvivor == Spec => []AtMostOneSurvivor
<1>1. UdpInv => AtMostOneSurvivor
  BY DEF UdpInv
<1> QED BY UdpInvariance, <1>1, PTL
-------------------------------------------------------------------------------
(* The refinement: the sessions as their clients see them (UdpSessions). *)

\* What the slots say of each client; the CHOOSE of Destination has no choice.
ClientView ==
  /\ \A s \in Slots : Active(s) =>
       /\ session[s] \in Session
       /\ Destination[session[s].client] = session[s].dest
       /\ session[s].client \in Asked <=> session[s].bound
  /\ \A c \in Clients : (\A s \in Slots : Active(s) => session[s].client # c) =>
       Destination[c] = Nobody /\ c \notin Asked
  /\ Destination = [c \in Clients |-> Destination[c]] /\ Asked \subseteq Clients

LEMMA ClientViewKnown == UdpInv => ClientView
<1> SUFFICES ASSUME UdpInv PROVE ClientView
  OBVIOUS
<1>0. TypeOK /\ OneSessionPerClient
  BY DEF UdpInv
<1>1. ASSUME NEW s \in Slots, Active(s)
      PROVE  /\ session[s] \in Session
             /\ Destination[session[s].client] = session[s].dest
             /\ session[s].client \in Asked <=> session[s].bound
  <2>1. session[s] \in Session /\ session[s].client \in Clients /\ session[s].bound \in BOOLEAN
    BY <1>0, <1>1, ActiveIsSession DEF Session
  <2>2. SessionsOf(session[s].client) = {s}
    BY <1>0, <1>1 DEF SessionsOf, OneSessionPerClient
  <2>3. Destination[session[s].client] = session[s].dest
    BY <2>1, <2>2 DEF Destination
  <2>4. session[s].client \in Asked <=> session[s].bound
    BY <1>0, <1>1 DEF Asked, OneSessionPerClient
  <2> QED BY <2>1, <2>3, <2>4
<1>2. ASSUME NEW c \in Clients, \A s \in Slots : Active(s) => session[s].client # c
      PROVE  Destination[c] = Nobody /\ c \notin Asked
  <2>1. SessionsOf(c) = {}
    BY <1>2 DEF SessionsOf
  <2> QED BY <1>2, <2>1 DEF Destination, Asked
<1>3. Destination = [c \in Clients |-> Destination[c]]
  BY DEF Destination
<1>4. Asked \subseteq Clients
  BY <1>0, ActiveIsSession DEF Asked
<1> QED BY <1>1, <1>2, <1>3, <1>4 DEF ClientView

\* Whom a session serves.
LEMMA ServedKnown ==
  ASSUME ClientView, NEW c \in Clients
  PROVE  c \in Sessions!Served <=> \E s \in Slots : Active(s) /\ session[s].client = c
<1>1. ASSUME NEW s \in Slots, Active(s) PROVE Destination[session[s].client] # Nobody
  BY <1>1, UdpAssumption DEF ClientView, Session
<1> QED BY <1>1 DEF ClientView, Sessions!Served

View == <<Destination, Asked, Waiting>>
Refines == Sessions!Next \/ UNCHANGED View

\* Steps that leave the slots and their answers alone are not seen.
LEMMA UnseenRefines ==
  ASSUME UNCHANGED <<session, answer>>
  PROVE  Refines
<1>1. \A s \in Slots : Active(s)' <=> Active(s)
  BY DEF Active
<1>2. Destination' = Destination
  BY DEF Destination, SessionsOf, Active
<1>3. Asked' = Asked /\ Waiting' = Waiting
  BY <1>1 DEF Asked, Waiting
<1> QED BY <1>2, <1>3 DEF Refines, View

\* A step that keeps the clients' sessions keeps where they go.
LEMMA SameDestinations ==
  ASSUME ClientView, ClientView', SameClients,
         \A s \in Slots : Active(s) => session'[s].dest = session[s].dest
  PROVE  Destination' = Destination
<1>1. ASSUME NEW c \in Clients PROVE Destination'[c] = Destination[c]
  <2>1. CASE \E s \in Slots : Active(s) /\ session[s].client = c
    BY <2>1 DEF ClientView, SameClients
  <2>2. CASE ~\E s \in Slots : Active(s) /\ session[s].client = c
    BY <2>2 DEF ClientView, SameClients
  <2> QED BY <2>1, <2>2
<1>2. Destination = [c \in Clients |-> Destination[c]]
      /\ Destination' = [c \in Clients |-> Destination'[c]]
  BY DEF ClientView
<1> QED BY <1>1, <1>2

\* ... and who has asked, where nobody asks for the first time.
LEMMA SameAsked ==
  ASSUME ClientView, ClientView', SameClients,
         \A s \in Slots : Active(s) => session'[s].bound = session[s].bound
  PROVE  Asked' = Asked
<1>1. ASSUME NEW c \in Clients PROVE c \in Asked' <=> c \in Asked
  <2>1. CASE \E s \in Slots : Active(s) /\ session[s].client = c
    BY <2>1 DEF ClientView, SameClients
  <2>2. CASE ~\E s \in Slots : Active(s) /\ session[s].client = c
    BY <2>2 DEF ClientView, SameClients
  <2> QED BY <2>1, <2>2
<1>2. Asked \subseteq Clients /\ Asked' \subseteq Clients
  BY DEF ClientView
<1> QED BY <1>1, <1>2

\* Time passes and sockets are made non-blocking without the clients' noticing.
LEMMA TickRefines ==
  ASSUME UdpInv, ClientView, ClientView', Tick \/ RelaySelect
  PROVE  Refines
<1>1. /\ answer' = answer
      /\ \A s \in Slots :
           \/ session'[s] = session[s]
           \/ Active(s) /\ session'[s] = [session[s] EXCEPT !.idle = session[s].idle + 1]
           \/ Active(s) /\ session'[s] = [session[s] EXCEPT !.selected = TRUE]
  BY DEF Tick, RelaySelect, Selected
<1>2. ASSUME NEW s \in Slots, Active(s)
      PROVE  /\ session'[s].client = session[s].client /\ session'[s].dest = session[s].dest
             /\ session'[s].bound = session[s].bound /\ Active(s)'
  <2>1. session[s] \in Session
    BY <1>2 DEF ClientView
  <2>2. /\ session'[s].client = session[s].client /\ session'[s].dest = session[s].dest
        /\ session'[s].bound = session[s].bound
    BY <1>1, <2>1 DEF Session
  <2>3. session'[s].client # NoSession.client
    BY <2>1, <2>2, UdpAssumption DEF Session, NoSession
  <2> QED BY <2>2, <2>3 DEF Active
<1>3. \A s \in Slots : ~Active(s) => ~Active(s)'
  BY <1>1 DEF Active
<1>4. SameClients
  <2>1. session' \in [Slots -> Session \cup {NoSession}]
    <3>1. \A s \in Slots : session'[s] \in Session \cup {NoSession}
      BY <1>2, <1>3 DEF ClientView, Active
    <3>2. session' = [s \in Slots |-> session'[s]]
      BY DEF Tick, RelaySelect
    <3> QED BY <3>1, <3>2
  <2> QED BY <1>2, <1>3, <2>1 DEF SameClients
<1>5. Destination' = Destination /\ Asked' = Asked
  BY <1>2, <1>4, SameDestinations, SameAsked
<1>6. Waiting' = Waiting
  BY <1>1 DEF Waiting
<1> QED BY <1>5, <1>6 DEF Refines, View

\* UdpSessions counts as FiniteSets does.
LEMMA SameCount == ASSUME NEW S PROVE Sessions!Cardinality(S) = Cardinality(S)
BY DEF Cardinality, Sessions!Cardinality

\* A free slot means that less than MaxSessions clients have a session.
LEMMA RoomForOne ==
  ASSUME UdpInv, ClientView, NEW free \in Slots, ~Active(free)
  PROVE  Cardinality(Sessions!Served) < MaxSessions
<1> DEFINE others == Slots \ {free}
           served == {session[s].client : s \in others}
<1>0. MaxSessions \in Nat
  BY UdpAssumption
<1>1. IsFiniteSet(Slots) /\ Cardinality(Slots) = MaxSessions
  BY <1>0, FS_Interval DEF Slots
<1>2. IsFiniteSet(others) /\ Cardinality(others) = MaxSessions - 1
  BY <1>1, FS_RemoveElement
<1>3. IsFiniteSet(served) /\ Cardinality(served) <= Cardinality(others)
  <2> DEFINE f == [s \in others |-> session[s].client]
  <2> HIDE DEF others
  <2>1. f \in [others -> served] /\ \A c \in served : \E s \in others : f[s] = c
    OBVIOUS
  <2> HIDE DEF f, served
  <2>2. f \in Surjection(others, served)
    BY <2>1 DEF Surjection
  <2> QED BY <1>2, <2>2, FS_Surjection
<1>4. Sessions!Served \subseteq served
  <2>1. Sessions!Served \subseteq Clients
    BY DEF Sessions!Served
  <2> QED BY <2>1, ServedKnown
<1> HIDE DEF served, others
<1>5. IsFiniteSet(Sessions!Served) /\ Cardinality(Sessions!Served) <= Cardinality(served)
  BY <1>3, <1>4, FS_Subset
<1>6. Cardinality(served) \in Nat /\ Cardinality(Sessions!Served) \in Nat
  BY <1>3, <1>5, FS_CardinalityType
<1> QED BY <1>0, <1>2, <1>3, <1>5, <1>6

\* Filling the slot opens the client's session.
LEMMA DialRefines ==
  ASSUME UdpInv, ClientView, ClientView', ProxyGrants
  PROVE  Refines
<1> DEFINE new == [client |-> adder.client, dest |-> adder.dest, idle |-> 0,
                   bound |-> FALSE, selected |-> FALSE]
<1>1. /\ Dialling /\ adder.slot \in Slots
      /\ adder.client \in Clients /\ adder.dest \in Dests
  BY AdderTypes DEF ProxyGrants, UdpInv, Idler, Dialling
<1>2. new \in Session /\ new.client = adder.client /\ new.dest = adder.dest /\ new.bound = FALSE
  BY <1>1, UdpAssumption DEF Session
<1>3. session' = [session EXCEPT ![adder.slot] = new] /\ answer' = answer
  BY DEF ProxyGrants
<1> HIDE DEF new
<1>4. ~Active(adder.slot) /\ \A s \in Slots : Active(s) => session[s].client # adder.client
  BY <1>1 DEF UdpInv, SlotKept
<1>5. \A s \in Slots : /\ session'[s] = IF s = adder.slot THEN new ELSE session[s]
                       /\ Active(s)' <=> s = adder.slot \/ Active(s)
  BY <1>1, <1>2, <1>3, SessionIsActive DEF UdpInv, TypeOK, Active
<1>6. adder.client \notin Sessions!Served /\ Cardinality(Sessions!Served) < MaxSessions
  BY <1>1, <1>4, ServedKnown, RoomForOne
<1>7. ASSUME NEW c \in Clients
      PROVE  /\ Destination'[c] = IF c = adder.client THEN adder.dest ELSE Destination[c]
             /\ c \in Asked' <=> c \in Asked
  <2>1. CASE c = adder.client
    <3>1. PICK s \in Slots : Active(s)' /\ session'[s] = new
      BY <1>1, <1>5
    <3>2. Destination'[c] = adder.dest /\ c \notin Asked'
      BY <1>1, <1>2, <2>1, <3>1 DEF ClientView
    <3>3. c \notin Asked
      BY <1>1, <1>4, <2>1 DEF ClientView
    <3> QED BY <2>1, <3>2, <3>3
  <2>2. CASE c # adder.client /\ \E s \in Slots : Active(s) /\ session[s].client = c
    <3>1. PICK s \in Slots : Active(s) /\ session[s].client = c
      BY <2>2
    <3>2. s # adder.slot /\ session'[s] = session[s] /\ Active(s)'
      BY <1>4, <1>5, <3>1
    <3> QED BY <2>2, <3>1, <3>2 DEF ClientView
  <2>3. CASE c # adder.client /\ ~\E s \in Slots : Active(s) /\ session[s].client = c
    <3>1. \A s \in Slots : Active(s)' => session'[s].client # c
      BY <1>2, <1>5, <2>3
    <3> QED BY <2>3, <3>1 DEF ClientView
  <2> QED BY <2>1, <2>2, <2>3
<1>8. /\ Destination = [c \in Clients |-> Destination[c]] /\ Asked \subseteq Clients
      /\ Destination' = [c \in Clients |-> Destination'[c]] /\ Asked' \subseteq Clients
  BY DEF ClientView
<1>9. Destination' = [Destination EXCEPT ![adder.client] = adder.dest]
  BY <1>1, <1>7, <1>8
<1>10. Asked' = Asked /\ Waiting' = Waiting
  BY <1>3, <1>7, <1>8 DEF Waiting
<1>11. Sessions!Open(adder.client, adder.dest)
  <2>1. UNCHANGED <<Asked, Waiting>>
    BY <1>10
  <2>2. adder.client \notin Sessions!Served /\ Cardinality(Sessions!Served) < MaxSessions
    BY <1>6
  <2>3. Destination' = [Destination EXCEPT ![adder.client] = adder.dest]
    BY <1>9
  <2> QED BY <2>1, <2>2, <2>3, SameCount DEF Sessions!Open
<1> QED BY <1>1, <1>11 DEF Refines, Sessions!Next

LEMMA AnswerRefines ==
  ASSUME UdpInv, ClientView, ClientView', NEW s \in Slots, ProxyAnswers(s)
  PROVE  Refines
<1> DEFINE c == session[s].client
<1>1. /\ Active(s) /\ session[s].bound /\ answer[s] = Nobody
      /\ answer' = [answer EXCEPT ![s] = session[s].client] /\ session' = session
  BY DEF ProxyAnswers
<1>2. session[s] \in Session /\ c \in Clients /\ c # Nobody /\ c \in Asked
  BY <1>1, SessionIsActive, UdpAssumption DEF ClientView
<1>3. \A t \in Slots : answer'[t] = IF t = s THEN c ELSE answer[t]
  BY <1>1 DEF UdpInv, TypeOK
<1> HIDE DEF c
<1>4. c \notin Waiting
  <2> SUFFICES ASSUME NEW t \in Slots, answer[t] = c PROVE FALSE
    BY DEF Waiting
  <2>1. Active(t) /\ session[t].client = c
    BY <1>2 DEF UdpInv, AnswersAreForTheirClient
  <2>2. t = s
    BY <1>1, <2>1 DEF UdpInv, OneSessionPerClient, c
  <2> QED BY <1>1, <1>2, <2>2
<1>5. Waiting' = Waiting \cup {c}
  BY <1>1, <1>2, <1>3 DEF Waiting
<1>6. Destination' = Destination /\ Asked' = Asked
  BY <1>1 DEF Destination, Asked, SessionsOf, Active
<1>7. Sessions!Answer(c)
  BY <1>2, <1>4, <1>5, <1>6 DEF Sessions!Answer
<1> QED BY <1>2, <1>7 DEF Refines, Sessions!Next

\* What the relay takes from its socket asks for the client it comes from, if that has a session.
LEMMA ForwardRefines ==
  ASSUME UdpInv, ClientView, ClientView', RelayForwards
  PROVE  Refines
<1> DEFINE c == Head(inbox).from
<1>1. CASE session' = session
  BY <1>1, UnseenRefines DEF RelayForwards
<1>2. CASE session' = [s \in Slots |->
                         IF s \in SessionsOf(c)
                         THEN [session[s] EXCEPT !.bound = TRUE, !.idle = 0] ELSE session[s]]
  <2> HIDE DEF c
  <2>1. SessionsOf(c) = {s \in Slots : Active(s) /\ session[s].client = c}
    BY DEF SessionsOf
  <2>2. ASSUME NEW s \in Slots, Active(s)
        PROVE  /\ session'[s].client = session[s].client /\ session'[s].dest = session[s].dest
               /\ session'[s].bound = (session[s].bound \/ session[s].client = c) /\ Active(s)'
    <3>1. session[s] \in Session
      BY <2>2 DEF ClientView
    <3>2. CASE session[s].client = c
      <4>1. session'[s] = [session[s] EXCEPT !.bound = TRUE, !.idle = 0]
        BY <1>2, <2>1, <2>2, <3>2
      <4>2. /\ session'[s].client = session[s].client /\ session'[s].dest = session[s].dest
            /\ session'[s].bound = TRUE
        BY <3>1, <4>1 DEF Session
      <4>3. session'[s] # NoSession
        BY <3>1, <4>2, UdpAssumption DEF Session, NoSession
      <4> QED BY <3>2, <4>2, <4>3 DEF Active
    <3>3. CASE session[s].client # c
      <4>1. session'[s] = session[s] /\ session[s].bound \in BOOLEAN
        BY <1>2, <2>1, <3>1, <3>3 DEF Session
      <4> QED BY <2>2, <3>3, <4>1 DEF Active
    <3> QED BY <3>2, <3>3
  <2>3. \A s \in Slots : ~Active(s) => ~Active(s)'
    BY <1>2, <2>1 DEF Active
  <2>4. SameClients
    <3>1. session' \in [Slots -> Session \cup {NoSession}]
      <4>1. \A s \in Slots : session'[s] \in Session \cup {NoSession}
        BY <2>2, <2>3 DEF ClientView, Active
      <4>2. session' = [s \in Slots |-> session'[s]]
        BY <1>2
      <4> QED BY <4>1, <4>2
    <3> QED BY <2>2, <2>3, <3>1 DEF SameClients
  <2>5. Destination' = Destination
    BY <2>2, <2>4, SameDestinations
  <2>6. Waiting' = Waiting
    BY DEF RelayForwards, Waiting
  <2>7. CASE SessionsOf(c) = {}
    <3>1. session' = session
      BY <1>2, <2>7 DEF UdpInv, TypeOK
    <3> QED BY <3>1, UnseenRefines DEF RelayForwards
  <2>8. CASE SessionsOf(c) # {}
    <3>1. PICK s \in Slots : Active(s) /\ session[s].client = c
      BY <2>1, <2>8
    <3>2. c \in Clients /\ c \in Sessions!Served
      BY <3>1, ServedKnown, SessionIsActive DEF ClientView
    <3>3. \A d \in Clients : d \in Asked' <=> d \in Asked \cup {c}
      <4> SUFFICES ASSUME NEW d \in Clients PROVE d \in Asked' <=> d \in Asked \cup {c}
        OBVIOUS
      <4>1. CASE \E t \in Slots : Active(t) /\ session[t].client = d
        <5>1. PICK t \in Slots : Active(t) /\ session[t].client = d
          BY <4>1
        <5>2. Active(t)' /\ session'[t].client = d /\ session'[t].bound = (session[t].bound \/ d = c)
          BY <2>2, <5>1
        <5>3. (d \in Asked <=> session[t].bound) /\ (d \in Asked' <=> session'[t].bound)
          BY <5>1, <5>2 DEF ClientView
        <5> QED BY <5>2, <5>3
      <4>2. CASE ~\E t \in Slots : Active(t) /\ session[t].client = d
        <5>1. d # c /\ d \notin Asked
          BY <3>1, <4>2 DEF ClientView
        <5>2. \A t \in Slots : Active(t)' => session'[t].client # d
          BY <2>2, <2>3, <4>2
        <5> QED BY <5>1, <5>2 DEF ClientView
      <4> QED BY <4>1, <4>2
    <3>4. Asked' = Asked \cup {c}
      BY <3>2, <3>3 DEF ClientView
    <3>5. Sessions!Ask(c)
      BY <2>5, <2>6, <3>2, <3>4 DEF Sessions!Ask
    <3> QED BY <3>2, <3>5 DEF Refines, Sessions!Next
  <2> QED BY <2>7, <2>8
<1> QED BY <1>1, <1>2 DEF RelayForwards

\* The answer in the slot at the loop's index is the only one for its client.
LEMMA ReceiveRefines ==
  ASSUME UdpInv, ClientView, ClientView', RelayReceives
  PROVE  Refines
<1>1. CASE ~(Active(relay.at) /\ answer[relay.at] # Nobody)
  BY <1>1, UnseenRefines DEF RelayReceives
<1>2. CASE Active(relay.at) /\ answer[relay.at] # Nobody
  <2>1. PICK s \in Slots : s = relay.at
    BY DEF RelayReceives
  <2> DEFINE c == answer[s]
  <2>2. /\ Active(s) /\ c # Nobody /\ session[s] \in Session /\ session[s].client = c
        /\ session' = [session EXCEPT ![s] = [session[s] EXCEPT !.idle = 0]]
        /\ answer' = [answer EXCEPT ![s] = Nobody]
    BY <1>2, <2>1 DEF RelayReceives, ClientView, UdpInv, AnswersAreForTheirClient
  <2>3. /\ \A t \in Slots : session'[t] = IF t = s THEN [session[s] EXCEPT !.idle = 0] ELSE session[t]
        /\ \A t \in Slots : answer'[t] = IF t = s THEN Nobody ELSE answer[t]
        /\ session' = [t \in Slots |-> session'[t]]
    BY <2>2 DEF UdpInv, TypeOK
  <2> HIDE DEF c
  <2>4. /\ session'[s].client = session[s].client /\ session'[s].dest = session[s].dest
        /\ session'[s].bound = session[s].bound
    BY <2>2, <2>3 DEF Session
  <2>5. Active(s)'
    <3>1. session'[s].client \in Clients
      BY <2>2, <2>4 DEF Session
    <3> QED BY <3>1, UdpAssumption DEF Active, NoSession
  <2>6. \A t \in Slots : Active(t)' <=> Active(t)
    BY <2>2, <2>3, <2>5 DEF Active
  <2>7. SameClients
    <3>1. session' \in [Slots -> Session \cup {NoSession}]
      <4>1. \A t \in Slots : session'[t] \in Session \cup {NoSession}
        BY <2>6 DEF ClientView, Active
      <4> QED BY <2>3, <4>1
    <3> QED BY <2>3, <2>4, <2>6, <3>1 DEF SameClients
  <2>8. Destination' = Destination /\ Asked' = Asked
    BY <2>3, <2>4, <2>7, SameDestinations, SameAsked
  <2>9. \A t \in Slots : t # s => answer[t] # c
    <3> SUFFICES ASSUME NEW t \in Slots, answer[t] = c PROVE t = s
      OBVIOUS
    <3>1. Active(t) /\ session[t].client = c
      BY <2>2 DEF UdpInv, AnswersAreForTheirClient
    <3> QED BY <2>2, <3>1 DEF UdpInv, OneSessionPerClient
  <2>10. c \in Waiting /\ Waiting' = Waiting \ {c}
    <3>1. c \in Waiting
      BY <2>2 DEF Waiting, c
    <3>2. ASSUME NEW x PROVE x \in Waiting' <=> x \in Waiting \ {c}
      BY <2>3, <2>9 DEF Waiting, c
    <3> QED BY <3>1, <3>2
  <2>11. Sessions!Deliver(c) /\ c \in Clients
    BY <2>2, <2>8, <2>10 DEF Sessions!Deliver, Session
  <2> QED BY <2>11 DEF Refines, Sessions!Next
<1> QED BY <1>1, <1>2

\* Closing some slots ends the sessions of their clients and of nobody else.
LEMMA CloseRefines ==
  ASSUME UdpInv, ClientView, ClientView', NEW S \in SUBSET Slots, CloseSessionSockets(S)
  PROVE  Refines
<1> DEFINE E == {session[s].client : s \in {t \in S : Active(t)}}
<1>1. /\ \A s \in Slots : session'[s] = IF s \in S THEN NoSession ELSE session[s]
      /\ \A s \in Slots : answer'[s] = IF s \in S THEN Nobody ELSE answer[s]
  BY DEF CloseSessionSockets
<1>2. \A s \in Slots : Active(s)' <=> Active(s) /\ s \notin S
  BY <1>1 DEF Active
<1>3. \A s \in Slots : Active(s) => (session[s].client \in E <=> s \in S)
  BY DEF UdpInv, OneSessionPerClient
<1>4. E \subseteq Clients /\ \A c \in E : \E s \in Slots : s \in S /\ Active(s) /\ session[s].client = c
  BY SessionIsActive DEF ClientView
<1> HIDE DEF E
<1>5. E \subseteq Sessions!Served
  BY <1>4, ServedKnown
<1>6. ASSUME NEW c \in Clients
      PROVE  /\ Destination'[c] = IF c \in E THEN Nobody ELSE Destination[c]
             /\ c \in Asked' <=> c \in Asked \ E
  <2>1. CASE c \in E
    <3>1. \A s \in Slots : Active(s)' => session'[s].client # c
      BY <1>1, <1>2, <1>3, <2>1
    <3> QED BY <2>1, <3>1 DEF ClientView
  <2>2. CASE c \notin E /\ \E s \in Slots : Active(s) /\ session[s].client = c
    <3>1. PICK s \in Slots : Active(s) /\ session[s].client = c
      BY <2>2
    <3>2. Active(s)' /\ session'[s] = session[s]
      BY <1>1, <1>2, <1>3, <2>2, <3>1
    <3> QED BY <2>2, <3>1, <3>2 DEF ClientView
  <2>3. CASE c \notin E /\ ~\E s \in Slots : Active(s) /\ session[s].client = c
    <3>1. \A s \in Slots : Active(s)' => session'[s].client # c
      BY <1>1, <1>2, <2>3
    <3> QED BY <2>3, <3>1 DEF ClientView
  <2> QED BY <2>1, <2>2, <2>3
<1>7. Destination' = [c \in Clients |-> IF c \in E THEN Nobody ELSE Destination[c]]
  BY <1>6 DEF ClientView
<1>8. Asked' = Asked \ E
  BY <1>6 DEF ClientView
<1>9. Waiting' = Waiting \ E
  <2>1. ASSUME NEW x, x \in Waiting' PROVE x \in Waiting \ E
    <3>1. PICK s \in Slots : answer'[s] = x /\ x # Nobody
      BY <2>1 DEF Waiting
    <3>2. s \notin S /\ answer[s] = x
      BY <1>1, <3>1
    <3>3. Active(s) /\ session[s].client = x
      BY <3>1, <3>2 DEF UdpInv, AnswersAreForTheirClient
    <3> QED BY <1>3, <3>1, <3>2, <3>3 DEF Waiting
  <2>2. ASSUME NEW x, x \in Waiting \ E PROVE x \in Waiting'
    <3>1. PICK s \in Slots : answer[s] = x /\ x # Nobody
      BY <2>2 DEF Waiting
    <3>2. Active(s) /\ session[s].client = x
      BY <3>1 DEF UdpInv, AnswersAreForTheirClient
    <3>3. s \notin S
      BY <1>3, <2>2, <3>2
    <3> QED BY <1>1, <3>1, <3>3 DEF Waiting
  <2> QED BY <2>1, <2>2
<1>10. Sessions!End(E)
  BY <1>5, <1>7, <1>8, <1>9 DEF Sessions!End
<1> QED BY <1>4, <1>10 DEF Refines, Sessions!Next

LEMMA InitRefines == Init => Sessions!Init
<1> SUFFICES ASSUME Init PROVE Sessions!Init
  OBVIOUS
<1>1. \A s \in Slots : ~Active(s) /\ answer[s] = Nobody
  BY DEF Init, Active
<1>2. Destination = [c \in Clients |-> Nobody]
  BY <1>1 DEF Destination, SessionsOf
<1>3. Asked = {} /\ Waiting = {}
  BY <1>1 DEF Asked, Waiting
<1> QED BY <1>2, <1>3 DEF Sessions!Init

\* The relay's slots, expiries, late calls and stops implement UdpSessions: whatever the three
\* threads do, a client sees one session at a time, to one destination, and only answers to
\* what it asked through it.
THEOREM RelayImplementsSessions == Spec => ImplementsSessions
<1>1. UdpInv /\ ClientView /\ ClientView' /\ [Next]_vars => [Sessions!Next]_View
  <2> SUFFICES ASSUME UdpInv, ClientView, ClientView', [Next]_vars PROVE Refines
    BY DEF Refines
  <2>1. CASE ProxyGrants
    BY <2>1, DialRefines
  <2>2. CASE Tick \/ RelaySelect
    BY <2>2, TickRefines
  <2>3. CASE \E s \in Slots : ProxyAnswers(s)
    BY <2>3, AnswerRefines
  <2>4. CASE RelayForwards
    BY <2>4, ForwardRefines
  <2>5. CASE RelayReceives
    BY <2>5, ReceiveRefines
  <2>6. CASE RelayExpire
    <3>1. CloseSessionSockets({s \in Slots : Active(s) /\ session[s].idle > Timeout})
      BY <2>6 DEF RelayExpire
    <3> QED BY <3>1, CloseRefines
  <2>7. CASE StopSessions
    BY <2>7, CloseRefines DEF StopSessions
  <2>8. CASE UNCHANGED <<session, answer>>
    BY <2>8, UnseenRefines
  <2> QED BY <2>1, <2>2, <2>3, <2>4, <2>5, <2>6, <2>7, <2>8
     DEF Next, PacketStep, RelayStep, Stopping, vars, Redirect, AddSessionFound, AddSessionFull,
         AddSessionDials, SendRedirected, Dial, DialSucceeds, DialFails, ProxyRefuses, SendToRelay, RelayEnds, RelayWaitFails,
         RelayWaitTimesOut, RelayWakes, RelayEntersSessions, RelayLoops, Start, StopCapture,
         StopRelay, StopJoins
<1> QED BY UdpInvariance, ClientViewKnown, InitRefines, <1>1, PTL
    DEF Spec, ImplementsSessions, Sessions!Spec, View
===============================================================================
