---------------------------- MODULE MCIperfJobs ----------------------------
(* Two scripts: both with a random port, or both with the same one.        *)
EXTENDS IperfJobs

CONSTANTS s1, s2, p1, p2

MCScripts == {s1, s2}
MCPorts == {p1, p2}
MCGivens == {[s \in MCScripts |-> None], [s \in MCScripts |-> p1]}
Anything == Disturbances
=============================================================================
