---------------------------- MODULE MCProcessMonitor ----------------------------
(* Two process ids; the second is used again by a new process.                  *)
EXTENDS ProcessMonitor
CONSTANTS p1, p2
MCUses == [p \in Pids |-> IF p = p1 THEN 1 ELSE 2]
MCParents == [wmi |-> {p1}, poll |-> {}]
MCCalls == [wmi |-> 1, poll |-> 2]
===============================================================================
