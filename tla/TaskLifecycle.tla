--------------------------- MODULE TaskLifecycle ---------------------------
(***************************************************************************)
(* What a traffic task promises its manager: start() takes it from stopped *)
(* to running, stop() from there back to stopped, and it works only in     *)
(* between: one worker at most, none once it is stopped again.  A task     *)
(* that has used up its tries is spent until it is stopped.                *)
(***************************************************************************)
EXTENDS Naturals

VARIABLES
    phase,    \* "stopped", "starting", "running", "stopping" or "spent"
    workers   \* loops that may still send a ping

Init == phase = "stopped" /\ workers = 0

Start ==
    /\ phase = "stopped"
    /\ phase' = "starting" /\ UNCHANGED workers

Begin ==
    /\ phase = "starting"
    /\ phase' = "running" /\ workers' = 1

Exhaust ==
    /\ phase = "running"
    /\ phase' = "spent" /\ workers' = 0

Stop ==
    /\ phase # "stopping"
    /\ phase' = "stopping" /\ UNCHANGED workers

Wind ==
    /\ phase = "stopping" /\ workers = 1
    /\ workers' = 0 /\ UNCHANGED phase

Stopped ==
    /\ phase = "stopping" /\ workers = 0
    /\ phase' = "stopped" /\ UNCHANGED workers

Next == Start \/ Begin \/ Exhaust \/ Stop \/ Wind \/ Stopped

SafeSpec == Init /\ [][Next]_<<phase, workers>>

(* A start takes effect and a stop completes. *)
Spec ==
    /\ SafeSpec
    /\ WF_<<phase, workers>>(Begin)
    /\ WF_<<phase, workers>>(Wind \/ Stopped)

(* No worker outside the time between a start and the end of a stop. *)
StoppedIsIdle == phase \in {"stopped", "spent"} => workers = 0
============================================================================
