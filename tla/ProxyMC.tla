------------------------------ MODULE ProxyMC -------------------------------
(* Two connections and three exchanges: one connection is used again.      *)
EXTENDS Proxy, TLC

CONSTANTS c1, c2

=============================================================================
