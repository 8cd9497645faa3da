------------------------------ MODULE MCProxyTunnel ------------------------------
(* All seven handshakes, and two bytes from either end of a tunnel.             *)
EXTENDS ProxyTunnel
===============================================================================
