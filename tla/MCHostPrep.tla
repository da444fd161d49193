----------------------------- MODULE MCHostPrep -----------------------------
(* Two podiums; one of them prepares a second host at the same time.       *)
EXTENDS HostPrep

CONSTANTS a, b, o

MCPodiums == {a, b}
MCOthers == {o}
MCOwner == [t \in MCOthers |-> a]
Both == {"ubuntu", "esx"}
Anything == Disturbances
=============================================================================
