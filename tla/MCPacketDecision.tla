--------------------------- MODULE MCPacketDecision ---------------------------
(* An endpoint that the engine and a process of the user's have in turn, and three  *)
(* destinations that compete for a window of two slots of the decision cache.       *)
EXTENDS PacketDecision, TLC
CONSTANTS e1, d1, d2, d3, self, p1, browser, engine

MCRule(known, unknown) ==
  browser :> [d \in Dests |-> known] @@ engine :> [d \in Dests |-> unknown] @@
  Unknown :> [d \in Dests |-> unknown]

\* The user's program proxied and the rest direct; or blocked and the rest proxied.
MCRules == {MCRule("PROXY", "DIRECT"), MCRule("BLOCK", "PROXY")}

MCConnHome == e1 :> 0
MCProcHome == self :> 0 @@ p1 :> 0
MCDecHome == [key \in Endpoints \X Dests |-> 0]

\* The destinations are alike.
MCAlike == Permutations(Dests)
===============================================================================
