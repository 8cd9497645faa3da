------------------------------ MODULE MCUdpRelay ------------------------------
(* Three programs of one host, one more than there are slots.  The first sends *)
(* to two addresses, and writes to the relay by itself too.                    *)
EXTENDS UdpRelay
CONSTANTS host, remote, remote2, p1, p2, p3

MCClients == {<<host, p1>>, <<host, p2>>, <<host, p3>>}
MCStrangers == {<<host, p1>>}
MCSendsTo == [c \in MCClients |-> IF c \in MCStrangers THEN {remote, remote2} ELSE {remote}]
===============================================================================
