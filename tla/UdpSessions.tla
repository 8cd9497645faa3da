----------------------------- MODULE UdpSessions -----------------------------
(***************************************************************************)
(* What the UDP relay promises its clients, without slots, locks and       *)
(* threads.  A client has at most one session, and the session one         *)
(* destination for as long as it lasts, whatever else the client sends to. *)
(* Only a client that has asked through its present session is answered,   *)
(* and what was waiting for it ends with the session.                      *)
(***************************************************************************)
EXTENDS Integers, FiniteSets

CONSTANTS Clients, Dests, Capacity, None

VARIABLES
  dest,     \* where each client's session goes, None without one
  asked,    \* the clients that have sent something through their session
  waiting   \* the clients an answer waits for

Served == {c \in Clients : dest[c] # None}

Init ==
  /\ dest = [c \in Clients |-> None]
  /\ asked = {} /\ waiting = {}

Open(c, d) ==
  /\ c \notin Served /\ Cardinality(Served) < Capacity
  /\ dest' = [dest EXCEPT ![c] = d]
  /\ UNCHANGED <<asked, waiting>>

Ask(c) ==
  /\ c \in Served
  /\ asked' = asked \cup {c}
  /\ UNCHANGED <<dest, waiting>>

Answer(c) ==
  /\ c \in asked \ waiting
  /\ waiting' = waiting \cup {c}
  /\ UNCHANGED <<dest, asked>>

Deliver(c) ==
  /\ c \in waiting
  /\ waiting' = waiting \ {c}
  /\ UNCHANGED <<dest, asked>>

\* Sessions expire, or the relay stops.
End(S) ==
  /\ S \subseteq Served
  /\ dest' = [c \in Clients |-> IF c \in S THEN None ELSE dest[c]]
  /\ asked' = asked \ S /\ waiting' = waiting \ S

Next ==
  \/ \E c \in Clients, d \in Dests : Open(c, d)
  \/ \E c \in Clients : Ask(c) \/ Answer(c) \/ Deliver(c)
  \/ \E S \in SUBSET Clients : End(S)

Spec == Init /\ [][Next]_<<dest, asked, waiting>>
===============================================================================
