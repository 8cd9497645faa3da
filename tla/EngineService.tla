----------------------------- MODULE EngineService -----------------------------
(***************************************************************************)
(* What the engine promises its caller: it is off, on, or on its way, and  *)
(* its three parts come up one by one before it is on and are all down     *)
(* when it is off.  Packets are captured only while both relays are there  *)
(* to receive what is redirected.                                          *)
(***************************************************************************)
VARIABLES phase, up

Parts == {"udp", "tcp", "packet"}
Relays == {"udp", "tcp"}

Init == phase = "off" /\ up = {}

Begin == phase = "off" /\ phase' = "starting" /\ UNCHANGED up

BringUp(p) ==
  /\ phase = "starting" /\ p \notin up
  /\ p = "packet" => Relays \subseteq up
  /\ up' = up \cup {p} /\ UNCHANGED phase

\* The packet processor is the last part: with it the engine is on.
Commit ==
  /\ phase = "starting" /\ up = Relays
  /\ up' = Parts /\ phase' = "on"

\* Nothing was up yet, or what was up is taken down again.
GiveUp ==
  /\ phase = "starting" /\ UNCHANGED up
  /\ phase' = IF up = {} THEN "off" ELSE "stopping"

End == phase = "on" /\ phase' = "stopping" /\ UNCHANGED up

TakeDown(p) ==
  /\ phase = "stopping" /\ p \in up
  /\ p \in Relays => "packet" \notin up
  /\ up' = up \ {p} /\ UNCHANGED phase

Off == phase = "stopping" /\ up = {} /\ phase' = "off" /\ UNCHANGED up

Next ==
  \/ Begin \/ Commit \/ GiveUp \/ End \/ Off
  \/ \E p \in Relays : BringUp(p)
  \/ \E p \in Parts : TakeDown(p)

Spec == Init /\ [][Next]_<<phase, up>>
===============================================================================
