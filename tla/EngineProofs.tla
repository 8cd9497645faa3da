------------------------------ MODULE EngineProofs ------------------------------
(***************************************************************************)
(* Proofs about starting and stopping the engine (EngineLifecycle), for    *)
(* any length of the port search, any number of packet threads and any     *)
(* hosts: the safety of the life cycle, and that it implements             *)
(* EngineService.                                                          *)
(*                                                                         *)
(* The argument: how far the call in progress is tells exactly which parts *)
(* run (WhatRuns), a part's thread outlives its flag only while the call   *)
(* waits for it or once a stop has given it up (WhoIsAlive, ThreadKnown,   *)
(* ServerKnown), and a running relay's port is the one the engine          *)
(* remembers (PortsKnown).                                                 *)
(***************************************************************************)
EXTENDS EngineLifecycle, TLAPS

Started == on /\ call = "idle"

\* The call in progress decides which parts run.
WhatRuns ==
  /\ running["packet"] <=> Started \/ call = "stopPacket"
  /\ running["tcp"] <=> Started \/ call \in {"packet", "stopPacket", "joinPacket", "stopTcp"}
  /\ running["udp"] <=> Started \/ call \in {"tcp", "packet", "stopPacket", "joinPacket",
                                             "stopTcp", "joinTcp", "stopUdp"}

\* Both flags say the same; a start begins when they are down, a stop when they are up.
FlagsAgree ==
  /\ wrapperOn <=> on
  /\ call \in {"init", "proxy", "udp", "tcp", "packet"} => ~on
  /\ call \in {"stopPacket", "joinPacket"} => on

WhoIsAlive == accepting => running["tcp"] \/ call = "joinTcp"

PortsKnown == \A r \in Relays : running[r] => active[r] = port[r]

\* A packet thread that Stop has not given up on is the current one.
ThreadKnown ==
  /\ current # NoThread => Started \/ call \in {"stopPacket", "joinPacket"}
  /\ "packet" \notin gaveUp => \A t \in Threads : packet[t] # "none" => t = current

\* And the same of the UDP relay's threads.
ServerKnown ==
  /\ server # NoThread => running["udp"] \/ call \in {"lockUdp", "joinUdp"}
  /\ "udp" \notin gaveUp => \A s \in Servers : relay[s] # "none" => s = server

\* How calls, flags, ports and threads fit together.
Control ==
  /\ WhatRuns /\ FlagsAgree /\ WhoIsAlive
  /\ PortsKnown /\ PacketsReachTheRelays /\ ThreadKnown /\ ServerKnown

EngineInv == TypeOK /\ Control

\* What the actions leave alone, taken apart.
LEMMA Groups ==
  /\ UNCHANGED ports <=> port' = port /\ active' = active /\ filter' = filter
  /\ UNCHANGED threads <=>
       /\ accepting' = accepting /\ relay' = relay /\ server' = server
       /\ packet' = packet /\ current' = current /\ lock' = lock /\ gaveUp' = gaveUp
  /\ UNCHANGED threadsButPacket <=>
       /\ accepting' = accepting /\ relay' = relay /\ server' = server
       /\ current' = current /\ gaveUp' = gaveUp
  /\ UNCHANGED flags <=>
       /\ inited' = inited /\ on' = on /\ wrapperInited' = wrapperInited
       /\ wrapperOn' = wrapperOn /\ proxy' = proxy
  /\ UNCHANGED search <=> call' = call /\ try' = try
BY DEF ports, threads, threadsButPacket, flags, search

LEMMA InitEstablishes == Init => EngineInv
<1> SUFFICES ASSUME Init PROVE EngineInv
  OBVIOUS
<1>1. TypeOK
  <2>1. try \in 0 .. PortRange
    BY LifecycleAssumption DEF Init
  <2> QED BY <2>1, Zenon DEF Init, TypeOK, Calls, Unbound
<1>2. \A p \in Parts : running[p] = FALSE
  BY DEF Init
<1>3. WhatRuns /\ FlagsAgree
  BY <1>2 DEF Init, WhatRuns, FlagsAgree, Started, Parts, Relays
<1>4. WhoIsAlive /\ PortsKnown /\ PacketsReachTheRelays /\ ThreadKnown /\ ServerKnown
  BY <1>2 DEF Init, WhoIsAlive, PortsKnown, PacketsReachTheRelays, ThreadKnown, ServerKnown, Parts, Relays
<1> QED BY <1>1, <1>3, <1>4 DEF EngineInv, Control

LEMMA TypeStep == TypeOK /\ Next => TypeOK'
<1> SUFFICES ASSUME TypeOK, Next PROVE TypeOK'
  OBVIOUS
<1> USE LifecycleAssumption
    DEF ports, threads, threadsButPacket, flags, search, TypeOK, Calls, Parts, Relays, Ports
<1>1. CASE StartPressed
  BY <1>1 DEF StartPressed
<1>2. CASE InitSucceeds
  BY <1>2 DEF InitSucceeds
<1>3. CASE InitFails
  BY <1>3 DEF InitFails
<1>4. ASSUME NEW h \in Hosts \cup {NoHost}, SetProxy(h) PROVE TypeOK'
  BY <1>4 DEF SetProxy
<1>5. ASSUME NEW r \in Relays, RelayStarts(r) PROVE TypeOK'
  <2>1. /\ accepting' \in BOOLEAN
        /\ relay' \in [Servers -> {"none", "top", "inside", "holding"}]
        /\ server' \in Servers \cup {NoThread}
    <3>1. CASE UNCHANGED <<accepting, relay, server>>
      BY <3>1
    <3>2. CASE RelayThreadStarts
      BY <3>2 DEF RelayThreadStarts
    <3>3. CASE AcceptThreadStarts
      BY <3>3 DEF AcceptThreadStarts
    <3> QED BY <1>5, <3>1, <3>2, <3>3 DEF RelayStarts
  <2>2. /\ call' \in Calls /\ try' \in 0 .. PortRange
        /\ running' \in [Parts -> BOOLEAN]
    BY <1>5 DEF RelayStarts, Follows
  <2>3. /\ port' \in [Relays -> Ports \cup {NoPort}]
        /\ active' \in [Relays -> Ports \cup {NoPort}]
    BY <1>5 DEF RelayStarts
  <2> QED BY <1>5, <2>1, <2>2, <2>3 DEF RelayStarts
<1>6. ASSUME NEW r \in Relays, RelayStartFails(r) PROVE TypeOK'
  BY <1>6 DEF RelayStartFails
<1>7. ASSUME NEW r \in Relays, NoPortLeft(r) PROVE TypeOK'
  BY <1>7 DEF NoPortLeft
<1>8. CASE PacketStarts
  BY <1>8 DEF PacketStarts
<1>9. CASE PacketStartFails
  BY <1>9 DEF PacketStartFails
<1>10. CASE StopPressed
  BY <1>10 DEF StopPressed
<1>11. CASE StopPacket
  BY <1>11 DEF StopPacket, Unbound
<1>12. CASE PacketJoined
  BY <1>12 DEF PacketJoined
<1>13. CASE PacketGivenUp
  BY <1>13 DEF PacketGivenUp, HeldUp
<1>14. CASE StopTcp
  BY <1>14 DEF StopTcp
<1>15. CASE StopUdp
  BY <1>15 DEF StopUdp
<1>16. CASE LockUdp
  BY <1>16 DEF LockUdp
<1>17. CASE AcceptJoined
  BY <1>17 DEF AcceptJoined
<1>18. CASE RelayJoined
  BY <1>18 DEF RelayJoined
<1>19. CASE RelayGivenUp
  BY <1>19 DEF RelayGivenUp
<1>20. CASE Stopped
  BY <1>20 DEF Stopped
<1>21. CASE Cleanup
  BY <1>21 DEF Cleanup
<1>22. CASE AcceptLoopEnds
  <2>1. accepting' \in BOOLEAN
    BY <1>22, Zenon DEF AcceptLoopEnds
  <2> QED BY <1>22, <2>1 DEF AcceptLoopEnds
<1>23. ASSUME NEW s \in Servers, RelayLoops(s) PROVE TypeOK'
  BY <1>23 DEF RelayLoops
<1>24. ASSUME NEW s \in Servers, RelayLocks(s) PROVE TypeOK'
  BY <1>24 DEF RelayLocks
<1>25. ASSUME NEW s \in Servers, RelayUnlocks(s) PROVE TypeOK'
  BY <1>25 DEF RelayUnlocks
<1>26. ASSUME NEW t \in Threads, ThreadEnters(t) PROVE TypeOK'
  BY <1>26 DEF ThreadEnters
<1>27. ASSUME NEW t \in Threads, ThreadLocks(t) PROVE TypeOK'
  BY <1>27 DEF ThreadLocks
<1>28. ASSUME NEW t \in Threads, ThreadAsks(t) PROVE TypeOK'
  BY <1>28 DEF ThreadAsks
<1>29. ASSUME NEW t \in Threads, ThreadReturns(t) PROVE TypeOK'
  BY <1>29 DEF ThreadReturns
<1>30. ASSUME NEW t \in Threads, ThreadLoops(t) PROVE TypeOK'
  BY <1>30 DEF ThreadLoops
<1> QED
  BY <1>1, <1>2, <1>3, <1>4, <1>5, <1>6, <1>7, <1>8, <1>9, <1>10, <1>11, <1>12, <1>13,
     <1>14, <1>15, <1>16, <1>17, <1>18, <1>19, <1>20, <1>21, <1>22, <1>23, <1>24, <1>25,
     <1>26, <1>27, <1>28, <1>29, <1>30
  DEF Next, StartCall, StopCall

LEMMA StartCallPreserves == EngineInv /\ (StartPressed \/ StartCall) => Control'
<1> SUFFICES ASSUME EngineInv, StartPressed \/ StartCall PROVE Control'
  OBVIOUS
<1> USE LifecycleAssumption
    DEF ports, threads, threadsButPacket, flags, search, EngineInv, Control, TypeOK,
        WhatRuns, FlagsAgree, WhoIsAlive, PortsKnown,
        PacketsReachTheRelays, ThreadKnown, ServerKnown, Started, Parts, Relays, Ports
<1>1. CASE StartPressed
  BY <1>1 DEF StartPressed
<1>2. CASE InitSucceeds
  BY <1>2 DEF InitSucceeds
<1>3. CASE InitFails
  BY <1>3 DEF InitFails
<1>4. ASSUME NEW h \in Hosts \cup {NoHost}, SetProxy(h) PROVE Control'
  BY <1>4 DEF SetProxy
<1>5. ASSUME NEW r \in Relays, RelayStarts(r) PROVE Control'
  BY <1>5 DEF RelayStarts, RelayThreadStarts, AcceptThreadStarts, Follows
<1>6. ASSUME NEW r \in Relays, RelayStartFails(r) PROVE Control'
  BY <1>6 DEF RelayStartFails
<1>7. ASSUME NEW r \in Relays, NoPortLeft(r) PROVE Control'
  BY <1>7 DEF NoPortLeft
<1>8. CASE PacketStarts
  BY <1>8 DEF PacketStarts
<1>9. CASE PacketStartFails
  BY <1>9 DEF PacketStartFails
<1> QED BY <1>1, <1>2, <1>3, <1>4, <1>5, <1>6, <1>7, <1>8, <1>9 DEF StartCall

LEMMA StopCallPreserves == EngineInv /\ (StopPressed \/ StopCall \/ Cleanup) => Control'
<1> SUFFICES ASSUME EngineInv, StopPressed \/ StopCall \/ Cleanup PROVE Control'
  OBVIOUS
<1> USE LifecycleAssumption
    DEF ports, threads, threadsButPacket, flags, search, EngineInv, Control, TypeOK,
        WhatRuns, FlagsAgree, WhoIsAlive, PortsKnown,
        PacketsReachTheRelays, ThreadKnown, ServerKnown, Started, Parts, Relays, Ports
<1>1. CASE StopPressed
  BY <1>1 DEF StopPressed
<1>2. CASE StopPacket
  BY <1>2 DEF StopPacket, Unbound
<1>3. CASE PacketJoined
  BY <1>3 DEF PacketJoined
<1>4. CASE PacketGivenUp
  BY <1>4 DEF PacketGivenUp, HeldUp
<1>5. CASE StopTcp
  BY <1>5 DEF StopTcp
<1>6. CASE StopUdp
  BY <1>6 DEF StopUdp
<1>7. CASE LockUdp
  BY <1>7 DEF LockUdp
<1>8. CASE AcceptJoined
  BY <1>8 DEF AcceptJoined
<1>11. CASE RelayJoined
  BY <1>11 DEF RelayJoined
<1>12. CASE RelayGivenUp
  BY <1>12 DEF RelayGivenUp
<1>9. CASE Stopped
  BY <1>9 DEF Stopped
<1>10. CASE Cleanup
  BY <1>10 DEF Cleanup
<1> QED BY <1>1, <1>2, <1>3, <1>4, <1>5, <1>6, <1>7, <1>8, <1>9, <1>10, <1>11, <1>12
    DEF StopCall

LEMMA ThreadsPreserve ==
  ASSUME EngineInv,
         \/ AcceptLoopEnds
         \/ \E s \in Servers : RelayLoops(s) \/ RelayLocks(s) \/ RelayUnlocks(s)
         \/ \E t \in Threads : \/ ThreadEnters(t) \/ ThreadLocks(t) \/ ThreadAsks(t)
                               \/ ThreadReturns(t) \/ ThreadLoops(t)
  PROVE  Control'
<1> USE LifecycleAssumption
    DEF ports, threads, threadsButPacket, flags, search, EngineInv, Control, TypeOK,
        WhatRuns, FlagsAgree, WhoIsAlive, PortsKnown,
        PacketsReachTheRelays, ThreadKnown, ServerKnown, Started, Parts, Relays, Ports
<1>1. CASE AcceptLoopEnds
  BY <1>1 DEF AcceptLoopEnds
<1>2. ASSUME NEW s \in Servers, RelayLoops(s) PROVE Control'
  BY <1>2 DEF RelayLoops
<1>3. ASSUME NEW s \in Servers, RelayLocks(s) PROVE Control'
  BY <1>3 DEF RelayLocks
<1>4. ASSUME NEW s \in Servers, RelayUnlocks(s) PROVE Control'
  BY <1>4 DEF RelayUnlocks
<1>5. ASSUME NEW t \in Threads, ThreadEnters(t) PROVE Control'
  BY <1>5 DEF ThreadEnters
<1>6. ASSUME NEW t \in Threads, ThreadLocks(t) PROVE Control'
  BY <1>6 DEF ThreadLocks
<1>7. ASSUME NEW t \in Threads, ThreadAsks(t) PROVE Control'
  BY <1>7 DEF ThreadAsks
<1>8. ASSUME NEW t \in Threads, ThreadReturns(t) PROVE Control'
  BY <1>8 DEF ThreadReturns
<1>9. ASSUME NEW t \in Threads, ThreadLoops(t) PROVE Control'
  BY <1>9 DEF ThreadLoops
<1> QED BY <1>1, <1>2, <1>3, <1>4, <1>5, <1>6, <1>7, <1>8, <1>9

\* Not a property of its own: the parts that together are kept by every step.
THEOREM EngineInvariance == Spec => []EngineInv
<1>1. EngineInv /\ [Next]_vars => EngineInv'
  <2> SUFFICES ASSUME EngineInv, [Next]_vars PROVE EngineInv'
    OBVIOUS
  <2>1. CASE Next
    <3>1. TypeOK'
      BY <2>1, TypeStep DEF EngineInv, Control
    <3>2. Control'
      BY <2>1, StartCallPreserves, StopCallPreserves, ThreadsPreserve DEF Next
    <3> QED BY <3>1, <3>2 DEF EngineInv, Control
  <2>2. CASE UNCHANGED vars
    BY <2>2
    DEF vars, ports, threads, flags, search, EngineInv, Control, TypeOK, WhatRuns, FlagsAgree, WhoIsAlive, PortsKnown,
        PacketsReachTheRelays, ThreadKnown, ServerKnown, Started
  <2> QED BY <2>1, <2>2
<1> QED BY InitEstablishes, <1>1, PTL DEF Spec

\* The variables of the life cycle keep their types.
THEOREM TypeCorrect == Spec => []TypeOK
<1>1. EngineInv => TypeOK
  BY DEF EngineInv, Control
<1> QED BY EngineInvariance, <1>1, PTL

\* While packets are captured they are redirected to the ports of running relays.
THEOREM RelaysAreReached == Spec => []PacketsReachTheRelays
<1>1. EngineInv => PacketsReachTheRelays
  BY DEF EngineInv, Control
<1> QED BY EngineInvariance, <1>1, PTL

\* Between two calls the engine is wholly on, or off with those threads ended that no
\* stop has given up.
THEOREM NothingIsLeft == Spec => []OffIsQuiet
<1>1. EngineInv => OffIsQuiet
  <2> SUFFICES ASSUME EngineInv, call = "idle"
               PROVE  wrapperOn = on /\ (on => \A p \in Parts : running[p]) /\ (~on => Quiet)
    BY DEF OffIsQuiet
  <2>1. wrapperOn = on
    BY DEF EngineInv, Control, FlagsAgree, TypeOK
  <2>2. on => \A p \in Parts : running[p]
    BY DEF EngineInv, Control, WhatRuns, Started, Parts, Relays
  <2>3. ASSUME ~on PROVE Quiet
    <3>1. \A p \in Parts : ~running[p]
      BY <2>3 DEF EngineInv, Control, WhatRuns, Started, Parts, Relays
    <3>2. ~accepting
      BY <2>3, <3>1 DEF EngineInv, Control, WhoIsAlive, Parts, Relays
    <3>3. "packet" \in gaveUp \/ \A t \in Threads : packet[t] = "none"
      BY <2>3, LifecycleAssumption DEF EngineInv, Control, ThreadKnown, Started, TypeOK
    <3>4. "udp" \in gaveUp \/ \A s \in Servers : relay[s] = "none"
      BY <2>3, <3>1, LifecycleAssumption DEF EngineInv, Control, ServerKnown, TypeOK, Parts, Relays
    <3> QED BY <3>1, <3>2, <3>3, <3>4 DEF Quiet
  <2> QED BY <2>1, <2>2, <2>3
<1> QED BY EngineInvariance, <1>1, PTL

\* As long as no stop has given one up there is one packet thread and one relay thread.
THEOREM ThreadsAreAlone == Spec => []OneThreadPerPart
<1>1. EngineInv => OneThreadPerPart
  BY DEF EngineInv, Control, ThreadKnown, ServerKnown, OneThreadPerPart, Working, Serving
<1> QED BY EngineInvariance, <1>1, PTL
-------------------------------------------------------------------------------
(* The refinement: phase and parts as EngineService sees them. *)

Up == {p \in Parts : running[p]}

\* What the abstract state is at each point of a call.
AbstractState ==
  /\ call \in {"idle", "init", "proxy"} => Phase = (IF on THEN "on" ELSE "off")
  /\ call \in {"udp", "tcp", "packet"} => Phase = "starting"
  /\ call \in {"stopPacket", "joinPacket", "stopTcp", "joinTcp", "stopUdp", "lockUdp",
               "joinUdp", "done"} => Phase = "stopping"
  /\ call \in {"init", "proxy"} => ~on
  /\ Started \/ call = "stopPacket" => Up = Parts
  /\ call \in {"packet", "joinPacket", "stopTcp"} => Up = Relays
  /\ call \in {"tcp", "joinTcp", "stopUdp"} => Up = {"udp"}
  /\ call \in {"init", "proxy", "udp", "lockUdp", "joinUdp", "done"} => Up = {}
  /\ call = "idle" /\ ~on => Up = {}

LEMMA AbstractStateKnown == EngineInv => AbstractState
<1> SUFFICES ASSUME EngineInv PROVE AbstractState
  OBVIOUS
<1>1. /\ call \in {"idle", "init", "proxy"} => Phase = (IF on THEN "on" ELSE "off")
      /\ call \in {"udp", "tcp", "packet"} => Phase = "starting"
      /\ call \in {"stopPacket", "joinPacket", "stopTcp", "joinTcp", "stopUdp", "lockUdp",
                   "joinUdp", "done"} => Phase = "stopping"
  BY DEF Phase
<1>2. \A p \in Parts : p \in Up <=> running[p]
  BY DEF Up
<1>3. Up \subseteq Parts /\ Parts = {"udp", "tcp", "packet"} /\ Relays = {"udp", "tcp"}
  BY DEF Up, Parts, Relays
<1>4. call \in {"init", "proxy"} => ~on
  BY DEF EngineInv, Control, FlagsAgree
<1> QED BY <1>1, <1>2, <1>3, <1>4 DEF EngineInv, Control, WhatRuns, Started, FlagsAgree, AbstractState

\* Every step of the life cycle is one of the service, or changes nothing it shows.
Implements == Service!Next \/ UNCHANGED <<Phase, Up>>

LEMMA StartRefines ==
  ASSUME EngineInv, AbstractState, AbstractState', StartPressed \/ StartCall
  PROVE  Implements
<1> USE Groups DEF AbstractState, Started, EngineInv, Control, FlagsAgree, WhatRuns, TypeOK, Parts, Relays
<1>1. CASE StartPressed
  BY <1>1 DEF StartPressed, Implements
<1>2. CASE InitSucceeds
  BY <1>2 DEF InitSucceeds, Implements
<1>3. CASE InitFails
  <2>1. call \in {"idle", "init", "proxy"} /\ call' \in {"idle", "init", "proxy"}
    BY <1>3 DEF InitFails
  <2>2. on' = on /\ running' = running
    BY <1>3 DEF InitFails
  <2> QED BY <2>1, <2>2 DEF Implements, Up
<1>4. ASSUME NEW h \in Hosts \cup {NoHost}, SetProxy(h) PROVE Implements
  <2>1. CASE h = NoHost
    BY <1>4, <2>1 DEF SetProxy, Implements
  <2>2. CASE h # NoHost
    <3>1. Service!Begin
      BY <1>4, <2>2 DEF SetProxy, Service!Begin, Up
    <3> QED BY <3>1 DEF Implements, Service!Next
  <2> QED BY <2>1, <2>2
<1>5. ASSUME NEW r \in Relays, RelayStarts(r) PROVE Implements
  <2>1. Service!BringUp(r)
    BY <1>5 DEF RelayStarts, Follows, Service!BringUp, Service!Relays, Up
  <2> QED BY <2>1 DEF Implements, Service!Next, Service!Relays
<1>6. ASSUME NEW r \in Relays, RelayStartFails(r) PROVE Implements
  BY <1>6 DEF RelayStartFails, Implements, Up
<1>7. ASSUME NEW r \in Relays, NoPortLeft(r) PROVE Implements
  <2>1. Service!GiveUp
    BY <1>7 DEF NoPortLeft, Service!GiveUp, Up
  <2> QED BY <2>1 DEF Implements, Service!Next
<1>8. CASE PacketStarts
  <2>1. Service!Commit
    BY <1>8 DEF PacketStarts, Service!Commit, Service!Relays, Service!Parts, Up
  <2> QED BY <2>1 DEF Implements, Service!Next
<1>9. CASE PacketStartFails
  <2>1. Service!GiveUp
    BY <1>9 DEF PacketStartFails, Service!GiveUp, Up
  <2> QED BY <2>1 DEF Implements, Service!Next
<1> QED BY <1>1, <1>2, <1>3, <1>4, <1>5, <1>6, <1>7, <1>8, <1>9 DEF StartCall

LEMMA StopRefines ==
  ASSUME EngineInv, AbstractState, AbstractState', StopPressed \/ StopCall \/ Cleanup
  PROVE  Implements
<1> USE Groups DEF AbstractState, Started, EngineInv, Control, FlagsAgree, WhatRuns, TypeOK, Parts, Relays
<1>1. CASE StopPressed
  <2>1. Service!End
    BY <1>1 DEF StopPressed, Service!End, Up
  <2> QED BY <2>1 DEF Implements, Service!Next
<1>2. CASE StopPacket
  <2>1. Service!TakeDown("packet")
    BY <1>2 DEF StopPacket, Service!TakeDown, Service!Relays, Up
  <2> QED BY <2>1 DEF Implements, Service!Next, Service!Parts
<1>3. CASE PacketJoined \/ PacketGivenUp
  BY <1>3 DEF PacketJoined, PacketGivenUp, Implements
<1>4. CASE StopTcp
  <2>1. Service!TakeDown("tcp")
    BY <1>4 DEF StopTcp, Service!TakeDown, Service!Relays, Up
  <2> QED BY <2>1 DEF Implements, Service!Next, Service!Parts
<1>5. CASE StopUdp
  <2>1. Service!TakeDown("udp")
    BY <1>5 DEF StopUdp, Service!TakeDown, Service!Relays, Up
  <2> QED BY <2>1 DEF Implements, Service!Next, Service!Parts
<1>6. CASE LockUdp
  BY <1>6 DEF LockUdp, Implements
<1>7. CASE AcceptJoined \/ RelayJoined \/ RelayGivenUp
  BY <1>7 DEF AcceptJoined, RelayJoined, RelayGivenUp, Implements
<1>8. CASE Stopped
  <2>1. Service!Off
    BY <1>8 DEF Stopped, Service!Off, Up
  <2> QED BY <2>1 DEF Implements, Service!Next
<1>9. CASE Cleanup
  BY <1>9 DEF Cleanup, Implements
<1> QED BY <1>1, <1>2, <1>3, <1>4, <1>5, <1>6, <1>7, <1>8, <1>9 DEF StopCall

\* The parts' threads, and a stuttering step.
LEMMA ThreadsRefine ==
  ASSUME \/ AcceptLoopEnds
         \/ \E s \in Servers : RelayLoops(s) \/ RelayLocks(s) \/ RelayUnlocks(s)
         \/ \E t \in Threads : \/ ThreadEnters(t) \/ ThreadLocks(t) \/ ThreadAsks(t)
                               \/ ThreadReturns(t) \/ ThreadLoops(t)
         \/ UNCHANGED vars
  PROVE  Implements
<1>1. call' = call /\ running' = running /\ on' = on
  BY Groups DEF AcceptLoopEnds, RelayLoops, RelayLocks, RelayUnlocks, ThreadEnters,
     ThreadLocks, ThreadAsks, ThreadReturns, ThreadLoops, vars
<1> QED BY <1>1 DEF Implements, Phase, Up

\* The life cycle implements EngineService: captured packets always find both relays,
\* a start that fails half-way is taken down again, off means that nothing runs.
THEOREM LifecycleImplementsService == Spec => ImplementsService
<1>1. Init => Service!Init
  BY DEF Init, Service!Init, Phase, Parts
<1>2. EngineInv /\ EngineInv' /\ [Next]_vars => [Service!Next]_<<Phase, Up>>
  <2> SUFFICES ASSUME EngineInv, EngineInv', [Next]_vars PROVE Implements
    BY DEF Implements
  <2>1. AbstractState
    BY AbstractStateKnown
  <2>2. AbstractState'
    BY AbstractStateKnown, PTL
  <2> QED BY <2>1, <2>2, StartRefines, StopRefines, ThreadsRefine DEF Next
<1> QED BY EngineInvariance, <1>1, <1>2, PTL DEF Spec, ImplementsService, Service!Spec, Up
===============================================================================
