------------------------------- MODULE Podium -------------------------------
(***************************************************************************)
(* The primary (lydian/apps/podium.py): it registers, starts, stops and    *)
(* unregisters the rules of a request at the nodes that hold their         *)
(* endpoints, one RPC per node and phase, all the RPCs of a phase at once  *)
(* (utils/parallel.py ThreadPool), and keeps the rules itself.             *)
(*                                                                         *)
(* A node does what it is asked in one step: the steps inside it are those *)
(* of TrafficController.  A script uses the podium, one call at a time.    *)
(***************************************************************************)
EXTENDS Naturals, FiniteSets

CONSTANTS
    Hosts,
    Rules,      \* rule ids; each is registered once
    SrcHost,    \* the host of each rule's source
    DstHost,    \* the host of each rule's destination
    Requests,   \* request ids
    Req,        \* the request id of each rule
    Internal,   \* rules that name their tool, "internal"
    MaxLate,    \* bound: RPCs under way that nobody waits for
    Allowed     \* what the environment may do, a subset of Disturbances

(* failure          an RPC fails, or its answer is lost; a service does    *)
(*                  not come up                                            *)
(* late             an RPC is carried out after its caller has given up    *)
(* node_restart     a node's service dies, and is started again            *)
(* podium_restart   the podium's process dies, and is started again        *)
(* no_fetch         the endpoints of a new host cannot be fetched          *)
(* stop_ignored     cleanup does not stop the service                      *)
Disturbances == {"failure", "late", "node_restart", "podium_restart",
                 "no_fetch", "stop_ignored"}

ASSUME PodiumAssumption ==
    /\ SrcHost \in [Rules -> Hosts] /\ DstHost \in [Rules -> Hosts]
    /\ Req \in [Rules -> Requests]
    /\ Internal \subseteq Rules
    /\ MaxLate \in Nat
    /\ Allowed \subseteq Disturbances

VARIABLES
    known,     \* hosts whose endpoints are in Podium._ep_hosts
    cache,     \* RulesApp._rules of the podium
    saved,     \* its database
    op,        \* the call the script is in
    node,      \* the nodes' services
    late,      \* RPCs whose callers have given up
    used,      \* history: rules that were registered
    missed,    \* history: rules whose server call failed, or whose server was lost
    stopped,   \* history: rules confirmed to be stopped, and not started since
    astray     \* history: the podium lost its map, or a host it did not map runs

vars == <<known, cache, saved, op, node, late, used, missed, stopped, astray>>

Phases == {"idle", "servers", "clients", "calls"}
Kinds == {"none", "register", "start", "stop", "unregister"}
NoCalls == [h \in Hosts |-> "none"]
NoOp == [kind |-> "none", phase |-> "idle", rules |-> {}, call |-> NoCalls, racing |-> {}]

(* A service that is off is not installed; one that is down is started     *)
(* again by its host.  A rule of odd was read from the database without a  *)
(* tool.                                                                   *)
Node == [st : {"off", "down", "up"}, rules : SUBSET Rules, on : SUBSET Rules,
         odd : SUBSET Rules, servers : SUBSET Rules, tasks : SUBSET Rules,
         clients : SUBSET Rules]
Off == [st |-> "off", rules |-> {}, on |-> {}, odd |-> {},
        servers |-> {}, tasks |-> {}, clients |-> {}]

TypeOK ==
    /\ known \subseteq Hosts
    /\ cache \subseteq Rules /\ saved \subseteq Rules
    /\ op \in [kind : Kinds, phase : Phases, rules : SUBSET Rules,
               call : [Hosts -> {"none", "sent", "ok", "error"}],
               racing : SUBSET Rules]
    /\ node \in [Hosts -> Node]
    /\ late \subseteq [kind : Kinds, host : Hosts, rules : SUBSET Rules]
    /\ used \subseteq Rules /\ missed \subseteq Rules /\ stopped \subseteq Rules
    /\ astray \in BOOLEAN

Init ==
    /\ known = {} /\ cache = {} /\ saved = {}
    /\ op = NoOp
    /\ node = [h \in Hosts |-> Off]
    /\ late = {} /\ used = {} /\ missed = {} /\ stopped = {}
    /\ astray = FALSE

Running(r) == r \in node[SrcHost[r]].clients
Listening(r) == r \in node[DstHost[r]].servers
SrcAt(h) == {r \in Rules : SrcHost[r] = h}
DstAt(h) == {r \in Rules : DstHost[r] = h}

(***************************************************************************)
(* What a node does (TrafficController has it in full).                    *)
(***************************************************************************)

(* The server of a rule, then its client, each where its endpoint is; a    *)
(* client task that is there is left as it is.                             *)
Register(n, h, rs) ==
    [n EXCEPT !.rules = @ \cup rs, !.on = @ \cup rs, !.odd = @ \ rs,
              !.servers = @ \cup (rs \cap DstAt(h)),
              !.tasks = @ \cup (rs \cap SrcAt(h)),
              !.clients = @ \cup ((rs \cap SrcAt(h)) \ n.tasks)]

StartRules(n, rs) ==
    LET off == (rs \cap n.rules) \ (n.on \cup n.odd)
    IN  [n EXCEPT !.on = @ \cup off, !.clients = @ \cup (off \cap n.tasks)]

StopRules(n, rs) ==
    LET on == (rs \cap n.rules \cap n.on) \ n.odd
    IN  [n EXCEPT !.on = @ \ on, !.clients = @ \ on]

UnregisterRules(n, rs) ==
    [StopRules(n, rs) EXCEPT !.rules = @ \ rs, !.on = @ \ rs, !.odd = @ \ rs]

Served(n, h, kind, rs) ==
    CASE kind = "register" -> Register(n, h, rs)
      [] kind = "start" -> StartRules(n, rs)
      [] kind = "stop" -> StopRules(n, rs)
      [] kind = "unregister" -> UnregisterRules(n, rs)

(* A service without its process keeps its database. *)
Dead(n, st) == [n EXCEPT !.st = st, !.servers = {}, !.tasks = {}, !.clients = {}]

(* The service comes up: the active rules that name their tool go on. *)
Resumed(n, h) ==
    LET on == n.on \cap Internal
    IN  [n EXCEPT !.st = "up", !.odd = n.rules \ Internal,
                  !.servers = on \cap DstAt(h), !.tasks = on \cap SrcAt(h),
                  !.clients = on \cap SrcAt(h)]

NodeDown(h) ==
    /\ "node_restart" \in Allowed /\ node[h].st = "up"
    /\ node' = [node EXCEPT ![h] = Dead(@, "down")]
    /\ missed' = missed \cup (node[h].rules \cap DstAt(h))
    /\ UNCHANGED <<known, cache, saved, op, late, used, stopped, astray>>

NodeUp(h) ==
    /\ node[h].st = "down"
    /\ node' = [node EXCEPT ![h] = Resumed(@, h)]
    /\ UNCHANGED <<known, cache, saved, op, late, used, missed, stopped, astray>>

(***************************************************************************)
(* RPCs of the phase the podium is in.                                     *)
(***************************************************************************)

(* Mutant: the clients' hosts are called first. *)
SideSwapped(phase) == IF phase = "servers" THEN SrcHost ELSE DstHost

(* Which end of a rule a phase is about. *)
Side(phase) == IF phase = "servers" THEN DstHost ELSE SrcHost

CallRules(h) == {r \in op.rules : Side(op.phase)[r] = h}

(* Mutant: an RPC that fails is counted like one that is answered. *)
AnsweredAnyway(h, result) == op' = [op EXCEPT !.call[h] = "ok"]

(* ThreadPool keeps the answers and logs the errors. *)
Answered(h, result) == op' = [op EXCEPT !.call[h] = result]

(* The servers that a call to h that failed should have started. *)
MissedBy(h) == IF op.phase = "servers" THEN CallRules(h) ELSE {}

Serve(h) ==
    /\ op.call[h] = "sent" /\ node[h].st = "up"
    /\ node' = [node EXCEPT ![h] = Served(@, h, op.kind, CallRules(h))]
    /\ \/ Answered(h, "ok") /\ UNCHANGED missed
       \/ /\ "failure" \in Allowed
          /\ Answered(h, "error") /\ missed' = missed \cup MissedBy(h)
    /\ UNCHANGED <<known, cache, saved, late, used, stopped, astray>>

Fail(h) ==
    /\ op.call[h] = "sent"
    /\ node[h].st # "up" \/ "failure" \in Allowed
    /\ Answered(h, "error")
    /\ missed' = missed \cup MissedBy(h)
    /\ UNCHANGED <<known, cache, saved, node, late, used, stopped, astray>>

(* The calls to the hosts hs, as they are carried out later. *)
Left(hs) == {[kind |-> op.kind, host |-> h, rules |-> CallRules(h)] : h \in hs}

TimeOut(h) ==
    /\ "late" \in Allowed /\ Cardinality(late) < MaxLate
    /\ op.call[h] = "sent" /\ node[h].st = "up"
    /\ Answered(h, "error")
    /\ late' = late \cup Left({h})
    /\ missed' = missed \cup MissedBy(h)
    /\ UNCHANGED <<known, cache, saved, node, used, stopped, astray>>

ServeLate ==
    \E c \in late :
       /\ node[c.host].st = "up"
       /\ node' = [node EXCEPT ![c.host] = Served(@, c.host, c.kind, c.rules)]
       /\ late' = late \ {c}
       /\ UNCHANGED <<known, cache, saved, op, used, missed, stopped, astray>>

(***************************************************************************)
(* The podium's calls.                                                     *)
(***************************************************************************)

(* racing, history: the rules of RPCs under way that nobody waits for.     *)
Begin(kind, phase, rs) ==
    op' = [kind |-> kind, phase |-> phase, rules |-> rs,
           call |-> [h \in Hosts |-> IF h \in known /\ \E r \in rs : Side(phase)[r] = h
                                     THEN "sent" ELSE "none"],
           racing |-> UNION {c.rules : c \in late}]
Idle == op.phase = "idle"
AllAnswered == \A h \in Hosts : op.call[h] # "sent"

(* register_traffic: rules with an end nobody knows are skipped. *)
RegisterTraffic(q) ==
    LET rs == {r \in Rules \ used : Req[r] = q /\ {SrcHost[r], DstHost[r]} \subseteq known}
    IN  /\ Idle /\ rs # {}
        /\ Begin("register", "servers", rs)
        /\ used' = used \cup rs
        /\ UNCHANGED <<known, cache, saved, node, late, missed, stopped, astray>>

StartClients ==
    /\ op.phase = "servers" /\ AllAnswered
    /\ Begin("register", "clients", op.rules)
    /\ UNCHANGED <<known, cache, saved, node, late, used, missed, stopped, astray>>

(* Mutant: the podium keeps the rules whose clients were confirmed. *)
AddRulesConfirmed ==
    LET rs == {r \in op.rules : op.call[SrcHost[r]] = "ok"}
    IN  /\ op.phase = "clients" /\ AllAnswered
        /\ cache' = cache \cup rs /\ saved' = saved \cup rs
        /\ op' = NoOp
        /\ UNCHANGED <<known, node, late, used, missed, stopped, astray>>

(* Mutant: the database is keyed by the request. *)
AddRulesByRequest ==
    /\ op.phase = "clients" /\ AllAnswered
    /\ cache' = cache \cup op.rules /\ saved' = saved \cup {Req[r] : r \in op.rules}
    /\ op' = NoOp
    /\ UNCHANGED <<known, node, late, used, missed, stopped, astray>>

AddRules ==
    /\ op.phase = "clients" /\ AllAnswered
    /\ cache' = cache \cup op.rules /\ saved' = saved \cup op.rules
    /\ op' = NoOp
    /\ UNCHANGED <<known, node, late, used, missed, stopped, astray>>

(* start_traffic, stop_traffic and unregister_traffic of a request. *)
TrafficOp(q, kind) ==
    LET rs == {r \in cache : Req[r] = q}
    IN  /\ Idle /\ rs # {}
        /\ Begin(kind, "calls", rs)
        /\ stopped' = IF kind = "start" THEN stopped \ rs ELSE stopped
        /\ UNCHANGED <<known, cache, saved, node, late, used, missed, astray>>

(* The answer of the call names the hosts that answered. *)
Confirmed == {r \in op.rules : op.call[SrcHost[r]] = "ok"}

EndOp ==
    /\ op.phase = "calls" /\ AllAnswered
    /\ saved' = IF op.kind = "unregister" THEN saved \ op.rules ELSE saved
    /\ stopped' = IF op.kind = "start" THEN stopped
                                       ELSE stopped \cup (Confirmed \ op.racing)
    /\ op' = NoOp
    /\ UNCHANGED <<known, cache, node, late, used, missed, astray>>

(* add_host: a service that runs is stopped and started again; True is     *)
(* answered even if it does not come up.                                   *)
AddHost(h) ==
    /\ Idle
    /\ LET reborn == Resumed(Dead(node[h], "down"), h)
       IN  \/ /\ node' = [node EXCEPT ![h] = reborn]
              /\ known' = known \cup {h}
              /\ UNCHANGED astray
           \/ /\ "no_fetch" \in Allowed
              /\ node' \in {[node EXCEPT ![h] = reborn],
                            [node EXCEPT ![h] = Dead(@, "down")]}
              /\ astray' = TRUE
              /\ UNCHANGED known
    /\ missed' = missed \cup (node[h].rules \cap DstAt(h))
    /\ UNCHANGED <<cache, saved, op, late, used, stopped>>

(* cleanup_hosts; what the commands at the host answer is not looked at.   *)
CleanupHost(h, remove_db) ==
    /\ Idle /\ node[h].st # "off"
    /\ \/ /\ node' = [node EXCEPT ![h] = IF remove_db THEN Off ELSE Dead(@, "off")]
          /\ UNCHANGED astray
       \/ "stop_ignored" \in Allowed /\ astray' = TRUE /\ UNCHANGED node
    /\ known' = known \ {h}
    /\ missed' = missed \cup (node[h].rules \cap DstAt(h))
    /\ UNCHANGED <<cache, saved, op, late, used, stopped>>

(* The endpoints are only in memory. *)
PodiumRestart ==
    /\ "podium_restart" \in Allowed
    /\ \E hs \in SUBSET {h \in Hosts : op.call[h] = "sent"} :
         late' = late \cup Left(hs) /\ Cardinality(late') <= MaxLate
    /\ astray' = TRUE
    /\ missed' = missed \cup (IF op.phase = "servers" THEN op.rules ELSE {})
    /\ op' = NoOp
    /\ cache' = saved /\ known' = {}
    /\ UNCHANGED <<saved, node, used, stopped>>

Next ==
    \/ \E q \in Requests : \/ RegisterTraffic(q)
                           \/ \E kind \in {"start", "stop", "unregister"} : TrafficOp(q, kind)
    \/ StartClients \/ AddRules \/ EndOp
    \/ \E h \in Hosts : \/ Serve(h) \/ Fail(h) \/ TimeOut(h)
                        \/ NodeDown(h) \/ NodeUp(h)
                        \/ AddHost(h)
                        \/ \E remove_db \in BOOLEAN : CleanupHost(h, remove_db)
    \/ ServeLate \/ PodiumRestart

Spec == Init /\ [][Next]_vars

-----------------------------------------------------------------------------

(* A client pings only towards a server that was started before it, unless *)
(* the call for the server failed or the server's node went down           *)
(* (podium.py register_traffic: "Start Server before the client").         *)
ServersFirst == \A r \in Rules : Running(r) /\ r \notin missed => Listening(r)

(* A rule that stop_traffic or unregister_traffic confirmed does not ping  *)
(* again until it is started, over restarts of its node and whatever was   *)
(* lost; what is still under way from before may bring it back and is not  *)
(* counted as confirmed (podium.py _traffic_op).                           *)
StopHolds ==
    \A r \in stopped : Running(r) => op.kind = "start" /\ r \in op.rules

(* Between the podium's calls, traffic that runs is within the reach of    *)
(* stop_traffic: the podium has the rule and knows the source's host,      *)
(* whichever of the RPCs failed (podium.py register_traffic, _traffic_op). *)
Stoppable ==
    Idle /\ ~astray => \A r \in Rules : Running(r) => r \in cache /\ SrcHost[r] \in known

(* unregister_traffic that every host has confirmed deletes the rules      *)
(* (podium.py:434 "Stop traffic, delete rules and result records").        *)
UnregisterDeletes ==
    [][op.kind = "unregister" /\ op'.kind = "none" /\ op.rules \subseteq Confirmed
         => /\ cache' \cap op.rules = {} /\ saved' \cap op.rules = {}
            /\ \A h \in Hosts : node'[h].rules \cap op.rules = {}]_vars

=============================================================================
