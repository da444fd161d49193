------------------------------ MODULE MCPodium ------------------------------
(* Podium with two hosts: a rule each way in one request, and a rule from  *)
(* one host to itself in another.                                          *)
EXTENDS Podium

CONSTANTS h1, h2, r1, r2, r3, q1, q2

MCHosts == {h1, h2}
MCRules == {r1, r2}
MCRules3 == {r1, r2, r3}
MCSrc == [r \in Rules |-> IF r = r1 THEN h1 ELSE IF r = r2 THEN h2 ELSE h1]
MCDst == [r \in Rules |-> IF r = r1 THEN h2 ELSE IF r = r2 THEN h1 ELSE h1]
MCRequests == {q1, q2}
OneRequest == {q1}
MCReq == [r \in Rules |-> IF r \in {r1, r2} THEN q1 ELSE q2]
MCInternal == {r1}

Nothing == {}
LosesCalls == {"failure", "late", "node_restart"}
AnyDisturbance == Disturbances
=============================================================================
