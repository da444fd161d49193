------------------------ MODULE MCTrafficController ------------------------
(* TrafficController with a few rules, and a record of the rules that were *)
(* not active when the process was started last.                           *)
EXTENDS TrafficController, TLC

CONSTANTS w1, w2, r1, r2, r3, r4, port

VARIABLE cold    \* such rules: the manager has no task for them

MCWorkers2 == {w1, w2}
MCRules == {r1, r2, r3}
MCRules4 == {r1, r2, r3, r4}

On(r) == [rule |-> r, state |-> "unset"]
Off(r) == [rule |-> r, state |-> "INACTIVE"]
OnlyOn == {<<On(r1), On(r3)>>, <<On(r2)>>, <<On(r3)>>}
WithForeign == {<<On(r1), On(r4)>>, <<On(r2)>>, <<On(r3)>>}

(* r1 runs from and to this node, r2 to it, r3 from it; r4 is foreign. *)
MCSrcLocal == {r1, r3}
MCDstLocal == {r1, r2}

(* Every server is the same one. *)
SameServer == [r \in Rules |-> port]

NoTool == [r \in Rules |-> "unset"]
Mixed == [r \in Rules |-> CASE r = r1 -> "internal" [] r = r2 -> "unset" [] OTHER -> "mock"]

NoBad == {}

CrashAndLock == {"crash", "locked"}
Crashes == {"crash"}

WorkersAlike == Permutations(MCWorkers2)

(* Bound of the run: rows are out of date in one batch at a time, and while *)
(* they are requests are about that batch.                                  *)
OneFails ==
    \E b \in Batches :
      /\ \A r \in Rules \ RulesOf(b) : failed[r] = "none"
      /\ (\E r \in Rules : failed[r] # "none") => \A w \in Workers : job[w].rule \subseteq RulesOf(b)

MCInit == Init /\ cold = {}
MCNext == Next /\ cold' = IF up THEN cold ELSE {r \in Rules : ~Enabled(db[r]) /\ db[r] # Absent}
MCSpec == MCInit /\ [][MCNext]_<<vars, cold>>

(* An active rule of the internal tool sends traffic, whatever other rules *)
(* are asked for meanwhile and whenever the process dies: "Start traffic   *)
(* not working..." (test_lydian.py).  Not so a rule that was not active at *)
(* the last start: _resume_active_rules (traffic_controller.py:232-240)    *)
(* makes no task for it, and start() only starts a task there is; nor one   *)
(* whose enabling raised, which is active and has no client, and is not     *)
(* started again until it has been stopped (traffic_controller.py:176-186). *)
ActivePings ==
    \A r \in Rules \ cold :
      Settled(r) /\ r \in SrcLocal /\ Tool[r] = "internal" /\ Enabled(cache[r])
        /\ failed[r] # "enable" => Pinging(r)
============================================================================
