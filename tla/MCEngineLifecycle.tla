--------------------------- MODULE MCEngineLifecycle ---------------------------
(* Of the packet threads and of the relay threads one that is current and one *)
(* given up.                                                                  *)
EXTENDS EngineLifecycle
CONSTANTS t1, t2, s1, s2, h1
===============================================================================
