----------------------------- MODULE MCRuleMirror -----------------------------
(* Small rule sets for TLC: two processes, two hosts, one port; bodies with a *)
(* full wildcard whose hosts are left empty, a list of hosts longer than its  *)
(* field, an all-matching list that is not "*", a process rule, and a rule    *)
(* without a process, which the engine refuses.                               *)
EXTENDS RuleMirror

CONSTANTS app, other, hostA, hostB, port, px, long

\* The whole text also names hostB, which the field has no room for.
MCCut == [text \in {long} |-> {hostA}]

MCBodies ==
  { [process |-> Star, hosts |-> Blank, ports |-> Star, protocol |-> "BOTH",
     action |-> "PROXY", proxy |-> NoProxy],
    [process |-> Star, hosts |-> long, ports |-> Star, protocol |-> "TCP",
     action |-> "BLOCK", proxy |-> NoProxy],
    [process |-> {app, other}, hosts |-> Star, ports |-> Star, protocol |-> "BOTH",
     action |-> "DIRECT", proxy |-> NoProxy],
    [process |-> {app}, hosts |-> Blank, ports |-> {port}, protocol |-> "UDP",
     action |-> "PROXY", proxy |-> px],
    [process |-> Blank, hosts |-> Star, ports |-> Star, protocol |-> "BOTH",
     action |-> "BLOCK", proxy |-> NoProxy] }
===============================================================================
