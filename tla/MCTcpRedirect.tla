---------------------------- MODULE MCTcpRedirect -----------------------------
(* Two connections that use one source port in turn.  px is the proxy some rules  *)
(* name, gx the global one.                                                        *)
EXTENDS TcpRedirect, TLC
CONSTANTS c1, c2, p1, d1, d2, px, gx

MCOnePort == [c \in {c1, c2} |-> p1]
MCDest == c1 :> d1 @@ c2 :> d2

MCRule(action, proxy) == [action |-> action, proxy |-> proxy]

\* Both redirected by a rule with its own proxy; the first direct and the second on
\* the global proxy; the first blocked and the second without any proxy.
MCConfigs ==
  { [rule |-> [c \in {c1, c2} |-> MCRule("PROXY", px)], global |-> gx],
    [rule |-> c1 :> MCRule("DIRECT", NoProxy) @@ c2 :> MCRule("PROXY", NoProxy),
     global |-> gx],
    [rule |-> c1 :> MCRule("BLOCK", NoProxy) @@ c2 :> MCRule("PROXY", NoProxy),
     global |-> NoProxy] }
===============================================================================
