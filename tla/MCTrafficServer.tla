--------------------------- MODULE MCTrafficServer ---------------------------
(* Two servers: an HTTP server that has its port in common with a TCP      *)
(* server, or its port number with a UDP server.                           *)
EXTENDS TrafficServer

CONSTANTS k1, k2, port

MCKeys == {k1, k2}
MCPort == [k \in MCKeys |-> port]
Kind2(a, b) == [k \in MCKeys |-> IF k = k1 THEN a ELSE b]
MCKinds == {Kind2("tcp", "http"), Kind2("udp", "http")}
Anything == ServerDisturbances
=============================================================================
