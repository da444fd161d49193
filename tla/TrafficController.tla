------------------------- MODULE TrafficController -------------------------
(***************************************************************************)
(* The traffic controller of one node (lydian/apps/traffic_controller.py)  *)
(* with the rules it keeps in a cache and in a database (rules.py) and the *)
(* task managers it drives (traffic/manager.py).                           *)
(*                                                                         *)
(* Up to fifty RPC threads run the controller's operations at once; no     *)
(* lock is taken.  A step of a request is one access to the rule cache, to *)
(* the rule database or to a manager's dictionary, in the code's order.  A *)
(* client task is started and stopped here in one step (TrafficClient has  *)
(* its threads).  The statements of one "with RulesDB()" block are one     *)
(* step where nothing of this process comes between them.                  *)
(***************************************************************************)
EXTENDS Naturals, Sequences, FiniteSets

CONSTANTS
    Workers,         \* RPC threads
    Rules,           \* rule ids
    Batches,         \* what register_traffic may be called with
    SrcLocal,        \* rules whose source endpoint is on this node
    DstLocal,        \* rules whose destination endpoint is on this node
    ServerKey,       \* (target, protocol, port) of a rule's server
    Tool,            \* the "tool" of each rule, "unset" when it has none
    Bad,             \* rules no task can be made for (unsupported protocol)
    Allowed          \* what the environment may do, a subset of Disturbances

(* overlap     starts, stops and unregistrations of one rule at a time     *)
(* retry       a rule is registered while another request about it runs    *)
(* reregister  a rule is registered that the node has, or has had, a task  *)
(*             for                                                         *)
(* crash       the process dies between two steps, and is started again    *)
(* locked      a statement on the table raises: the lock of the database   *)
(*             is not to be had within TIMEOUT                             *)
Disturbances == {"overlap", "retry", "reregister", "crash", "locked"}

Absent == [state |-> "absent", tool |-> "absent"]
States == {"ACTIVE", "INACTIVE", "unset", "None"}
Tools == {"unset", "None", "internal", "mock", "other"}
Rule == [state : States, tool : Tools] \cup {Absent}
Request == [rule : Rules, state : States]

ASSUME ControllerAssumption ==
    /\ Batches \subseteq Seq(Request)
    /\ \A b \in Batches : \A i, j \in DOMAIN b : b[i].rule = b[j].rule => i = j
    /\ SrcLocal \subseteq Rules /\ DstLocal \subseteq Rules /\ Bad \subseteq Rules
    /\ DOMAIN ServerKey = Rules
    /\ Tool \in [Rules -> Tools]
    /\ Allowed \subseteq Disturbances

VARIABLES
    up,        \* the service process runs
    cache,     \* RulesApp._rules
    db,        \* the RULES table
    servers,   \* keys of ServerManager._traffic_tasks
    ports,     \* server keys whose server was launched
    clients,   \* ClientManager._traffic_tasks: "none", "stopped", "running"
    orphans,   \* rules with a running client that the manager lost
    mock,      \* MockTraffic._dummy_rule
    job,       \* the request each RPC thread is serving
    failed     \* which write of a rule's row raised, until one reaches the row
               \* or the process is started again (history)

tasks == <<servers, ports, clients, orphans, mock>>
vars == <<up, cache, db, servers, ports, clients, orphans, mock, job, failed>>

Keys == {ServerKey[r] : r \in Rules}
Pcs == {"idle", "rule", "server", "putServer", "client", "putClient", "cache",
        "save", "write", "enable", "enableDB", "startClient", "stopClient", "disable",
        "disableDB", "delete", "forget"}
Job == [pc : Pcs, op : {"none", "register", "start", "stop", "unregister"},
        rule : SUBSET Rules, todo : Seq(Request), batch : Seq(Request),
        made : {"none", "stopped", "running"}, seen : SUBSET Rules]
Idle == [pc |-> "idle", op |-> "none", rule |-> {}, todo |-> <<>>,
         batch |-> <<>>, made |-> "none", seen |-> {}]

Writes == {"none", "save", "enable", "disable", "delete"}

TypeOK ==
    /\ up \in BOOLEAN
    /\ cache \in [Rules -> Rule] /\ db \in [Rules -> Rule]
    /\ servers \subseteq Keys /\ ports \subseteq Keys
    /\ clients \in [Rules -> {"none", "stopped", "running"}]
    /\ orphans \subseteq Rules /\ mock \subseteq Rules
    /\ job \in [Workers -> Job]
    /\ failed \in [Rules -> Writes]

Init ==
    /\ up = TRUE
    /\ cache = [r \in Rules |-> Absent] /\ db = [r \in Rules |-> Absent]
    /\ servers = {} /\ ports = {}
    /\ clients = [r \in Rules |-> "none"]
    /\ orphans = {} /\ mock = {}
    /\ job = [w \in Workers |-> Idle]
    /\ failed = [r \in Rules |-> "none"]

(* TrafficRule.enabled and TrafficRule.external. *)
Enabled(rule) == rule.state = "ACTIVE"
External(tool) == tool \notin {"unset", "internal"}

(* A request op comes in for the rules rs. *)
MayServe(w, op, rs) ==
    /\ up
    /\ job[w].pc = "idle"
    /\ \A v \in Workers : job[v].rule \cap rs # {} =>
         IF "register" \in {op, job[v].op} THEN "retry" \in Allowed
                                          ELSE "overlap" \in Allowed

Begin(w, op, rs, pc) ==
    job' = [job EXCEPT ![w] = [Idle EXCEPT !.pc = pc, !.op = op, !.rule = rs]]
Goto(w, pc) == job' = [job EXCEPT ![w].pc = pc]
Return(w) == job' = [job EXCEPT ![w] = Idle]

(***************************************************************************)
(* register_traffic: the tasks of every rule of the batch first, one rule  *)
(* after the other, then the rules themselves.                             *)
(***************************************************************************)
RulesOf(batch) == {batch[i].rule : i \in DOMAIN batch}

Register(w) ==
    \E batch \in Batches :
      /\ MayServe(w, "register", RulesOf(batch))
      /\ "reregister" \in Allowed \/ \A r \in RulesOf(batch) :
           cache[r] = Absent /\ db[r] = Absent /\ clients[r] = "none" /\ r \notin mock
      /\ job' = [job EXCEPT ![w] =
           [Idle EXCEPT !.pc = "rule", !.op = "register", !.rule = RulesOf(batch),
                        !.todo = batch, !.batch = batch]]
      /\ UNCHANGED <<up, cache, db, failed, tasks>>

Current(w) == Head(job[w].todo)
NextRule(w) == job' = [job EXCEPT ![w].pc = "rule", ![w].todo = Tail(@)]

(* _add_rule_info of the next rule: no endpoint here, an external tool's   *)
(* rule, or a rule of the internal tool.                                   *)
SkipForeign(w) ==
    /\ job[w].pc = "rule" /\ job[w].todo # <<>>
    /\ Current(w).rule \notin SrcLocal \cup DstLocal
    /\ NextRule(w)
    /\ UNCHANGED <<up, cache, db, failed, tasks>>

RegisterExternal(w) ==
    /\ job[w].pc = "rule" /\ job[w].todo # <<>>
    /\ LET r == Current(w).rule IN
         /\ r \in SrcLocal \cup DstLocal
         /\ External(Tool[r])
         /\ mock' = IF Tool[r] = "mock" /\ r \in SrcLocal THEN mock \cup {r} ELSE mock
    /\ NextRule(w)
    /\ UNCHANGED <<up, cache, db, failed, servers, ports, clients, orphans>>

RegisterInternal(w) ==
    /\ job[w].pc = "rule" /\ job[w].todo # <<>>
    /\ Current(w).rule \in SrcLocal \cup DstLocal
    /\ ~External(Tool[Current(w).rule])
    /\ Goto(w, "server")
    /\ UNCHANGED <<up, cache, db, failed, tasks>>

(* A request's state defaults to ACTIVE once _add_rule_info got that far. *)
WantsOn(request) == request.state \in {"ACTIVE", "unset"}

(* TrafficManager.add_task on the server manager: look the key up, make    *)
(* the task and start it if the rule is enabled, then store it.  A second  *)
(* listener on a bound port dies at once.                                  *)
AddServer(w) ==
    /\ job[w].pc = "server"
    /\ LET r == Current(w).rule IN
         IF r \notin DstLocal \/ ServerKey[r] \in servers
         THEN Goto(w, "client") /\ UNCHANGED ports
         ELSE IF r \in Bad
         THEN Return(w) /\ UNCHANGED ports                    \* raises
         ELSE /\ Goto(w, "putServer")
              /\ ports' = IF WantsOn(Current(w)) THEN ports \cup {ServerKey[r]} ELSE ports
    /\ UNCHANGED <<up, cache, db, failed, servers, clients, orphans, mock>>

PutServer(w) ==
    /\ job[w].pc = "putServer"
    /\ servers' = servers \cup {ServerKey[Current(w).rule]}
    /\ Goto(w, "client")
    /\ UNCHANGED <<up, cache, db, failed, ports, clients, orphans, mock>>

(* The same on the client manager, whose key is the rule id. *)
AddClient(w) ==
    /\ job[w].pc = "client"
    /\ LET r == Current(w).rule IN
         IF r \notin SrcLocal \/ clients[r] # "none"
         THEN NextRule(w)
         ELSE IF r \in Bad
         THEN Return(w)                                       \* raises
         ELSE job' = [job EXCEPT ![w].pc = "putClient",
                        ![w].made = IF WantsOn(Current(w)) THEN "running" ELSE "stopped"]
    /\ UNCHANGED <<up, cache, db, failed, tasks>>

PutClient(w) ==
    /\ job[w].pc = "putClient"
    /\ LET r == Current(w).rule IN
         /\ orphans' = IF clients[r] = "running" THEN orphans \cup {r} ELSE orphans
         /\ clients' = [clients EXCEPT ![r] = job[w].made]
    /\ job' = [job EXCEPT ![w].pc = "rule", ![w].todo = Tail(@), ![w].made = "none"]
    /\ UNCHANGED <<up, cache, db, failed, servers, ports, mock>>

(* RulesApp.add_rules: the cache, then the database.                       *)
Entry(request) ==
    [state |-> IF request.rule \in SrcLocal \cup DstLocal /\ request.state = "unset"
               THEN "ACTIVE" ELSE request.state,
     tool |-> Tool[request.rule]]

(* A column of a row is NULL where the rule object has no such attribute.  *)
Row(rule) ==
    [state |-> IF rule.state = "unset" THEN "None" ELSE rule.state,
     tool |-> IF rule.tool = "unset" THEN "None" ELSE rule.tool]

RequestFor(batch, r) == batch[CHOOSE i \in DOMAIN batch : batch[i].rule = r]

CacheRules(w) ==
    /\ job[w].pc = "rule" /\ job[w].todo = <<>>
    /\ cache' = [r \in Rules |-> IF r \in RulesOf(job[w].batch)
                                 THEN Entry(RequestFor(job[w].batch, r)) ELSE cache[r]]
    /\ Goto(w, "save")
    /\ UNCHANGED <<up, db, failed, tasks>>

(* save_to_db: the ids of the table are read, and then each rule updates   *)
(* its row or adds one.  A rule that has got a row in between violates the *)
(* primary key; what was written before it may be committed or not.        *)
ReadIds(w) ==
    /\ job[w].pc = "save"
    /\ job' = [job EXCEPT ![w].pc = "write",
                          ![w].seen = {r \in job[w].rule : db[r] # Absent}]
    /\ UNCHANGED <<up, cache, db, failed, tasks>>

Clash(w) == {r \in job[w].rule \ job[w].seen : db[r] # Absent}
BeforeClash(w) ==
    LET batch == job[w].batch
    IN {batch[i].rule : i \in {i \in DOMAIN batch :
          \A k \in DOMAIN batch : k <= i => batch[k].rule \notin Clash(w)}}

SaveRules(w) ==
    /\ job[w].pc = "write"
    /\ \E saved \in IF Clash(w) = {} THEN {job[w].rule} ELSE {{}, BeforeClash(w)} :
         /\ db' = [r \in Rules |->
                     IF r \in saved /\ ~(r \in job[w].seen /\ db[r] = Absent)
                     THEN Row(Entry(RequestFor(job[w].batch, r))) ELSE db[r]]
         /\ failed' = [r \in Rules |-> IF r \in saved THEN "none"
                                       ELSE IF r \in job[w].rule THEN "save" ELSE failed[r]]
    /\ Return(w)
    /\ UNCHANGED <<up, cache, tasks>>

(***************************************************************************)
(* start: only a rule that is known and not enabled.  The internal tool's  *)
(* rule is enabled first and its client started last; its server is not    *)
(* touched.  (A rule no endpoint of which is here has no state at all:     *)
(* reading it raises.)                                                     *)
(***************************************************************************)
StartRule(w) ==
    \E r \in Rules :
      /\ MayServe(w, "start", {r})
      /\ cache[r].state \in {"INACTIVE", "None"}
      /\ \/ ~External(cache[r].tool) /\ UNCHANGED mock
         \/ cache[r].tool = "mock" /\ mock' = mock \cup {r}
      /\ Begin(w, "start", {r}, "enable")
      /\ UNCHANGED <<up, cache, db, failed, servers, ports, clients, orphans>>

JobRule(w) == CHOOSE r \in job[w].rule : TRUE

(* RulesApp.enable: nothing at all if the rule is gone from the cache. *)
EnableCached(w) ==
    /\ job[w].pc = "enable"
    /\ LET r == JobRule(w) IN
         IF cache[r] = Absent
         THEN Goto(w, "startClient") /\ UNCHANGED cache
         ELSE cache' = [cache EXCEPT ![r].state = "ACTIVE"] /\ Goto(w, "enableDB")
    /\ UNCHANGED <<up, db, failed, tasks>>

Written(r) == failed' = IF db[r] = Absent THEN failed ELSE [failed EXCEPT ![r] = "none"]

(* Mutant: the rule is enabled and its client forgotten. *)
EnableSavedOnly(w) ==
    /\ job[w].pc = "enableDB"
    /\ LET r == JobRule(w) IN
         db' = IF db[r] = Absent THEN db ELSE [db EXCEPT ![r].state = "ACTIVE"]
    /\ Written(JobRule(w))
    /\ Return(w)
    /\ UNCHANGED <<up, cache, tasks>>

EnableSaved(w) ==
    /\ job[w].pc = "enableDB"
    /\ LET r == JobRule(w) IN
         db' = IF db[r] = Absent THEN db ELSE [db EXCEPT ![r].state = "ACTIVE"]
    /\ Written(JobRule(w))
    /\ Goto(w, "startClient")
    /\ UNCHANGED <<up, cache, tasks>>

(* TrafficManager.start.  (An external rule has no client here.) *)
StartClient(w) ==
    /\ job[w].pc = "startClient"
    /\ LET r == JobRule(w) IN
         clients' = [clients EXCEPT ![r] = IF @ = "none" THEN @ ELSE "running"]
    /\ Return(w)
    /\ UNCHANGED <<up, cache, db, failed, servers, ports, orphans, mock>>
(***************************************************************************)
(* stop: only a rule that is enabled.  The client stops before the rule is *)
(* disabled; servers are left alone.  The mock tool forgets the rule, and  *)
(* raises if it does not know it.                                          *)
(***************************************************************************)
StopOp(w, r, op) ==
    /\ Enabled(cache[r])
    /\ \/ ~External(cache[r].tool) /\ Begin(w, op, {r}, "stopClient") /\ UNCHANGED mock
       \/ /\ cache[r].tool = "mock" /\ r \in mock
          /\ Begin(w, op, {r}, "disable") /\ mock' = mock \ {r}

StopRule(w) ==
    \E r \in Rules :
      /\ MayServe(w, "stop", {r})
      /\ StopOp(w, r, "stop")
      /\ UNCHANGED <<up, cache, db, failed, servers, ports, clients, orphans>>

(* unregister_traffic: stop, whose errors the thread pool swallows, then   *)
(* delete the rule.  Its client task stays with the manager.               *)
Unregister(w) ==
    \E r \in Rules :
      /\ MayServe(w, "unregister", {r})
      /\ \/ StopOp(w, r, "unregister")
         \/ /\ \/ ~Enabled(cache[r])
               \/ cache[r].tool \in {"None", "other"}
               \/ cache[r].tool = "mock" /\ r \notin mock
            /\ Begin(w, "unregister", {r}, "forget") /\ UNCHANGED mock
      /\ UNCHANGED <<up, cache, db, failed, servers, ports, clients, orphans>>

StopClient(w) ==
    /\ job[w].pc = "stopClient"
    /\ LET r == JobRule(w) IN
         clients' = [clients EXCEPT ![r] = IF @ = "none" THEN @ ELSE "stopped"]
    /\ Goto(w, "disable")
    /\ UNCHANGED <<up, cache, db, failed, servers, ports, orphans, mock>>

AfterStop(w) == IF job[w].op = "unregister" THEN Goto(w, "forget") ELSE Return(w)

(* Mutant: the rule is disabled in the cache only. *)
DisableUnsaved(w) ==
    /\ job[w].pc = "disable"
    /\ cache' = [cache EXCEPT ![JobRule(w)] =
                   IF @ = Absent THEN @ ELSE [@ EXCEPT !.state = "INACTIVE"]]
    /\ AfterStop(w)
    /\ UNCHANGED <<up, db, failed, tasks>>

DisableCached(w) ==
    /\ job[w].pc = "disable"
    /\ LET r == JobRule(w) IN
         IF cache[r] = Absent
         THEN AfterStop(w) /\ UNCHANGED cache
         ELSE cache' = [cache EXCEPT ![r].state = "INACTIVE"] /\ Goto(w, "disableDB")
    /\ UNCHANGED <<up, db, failed, tasks>>

(* Mutant: the state is written as the comment of the schema has it. *)
DisableAsCommented(w) ==
    /\ job[w].pc = "disableDB"
    /\ db' = [db EXCEPT ![JobRule(w)] = IF @ = Absent THEN @ ELSE [@ EXCEPT !.state = "DISABLED"]]
    /\ Written(JobRule(w))
    /\ AfterStop(w)
    /\ UNCHANGED <<up, cache, tasks>>

DisableSaved(w) ==
    /\ job[w].pc = "disableDB"
    /\ LET r == JobRule(w) IN
         db' = IF db[r] = Absent THEN db ELSE [db EXCEPT ![r].state = "INACTIVE"]
    /\ Written(JobRule(w))
    /\ AfterStop(w)
    /\ UNCHANGED <<up, cache, tasks>>

(* RulesApp.delete_rules: the cache is changed before the deletion of the  *)
(* row is committed.                                                       *)
ForgetCached(w) ==
    /\ job[w].pc = "forget"
    /\ cache' = [cache EXCEPT ![JobRule(w)] = Absent]
    /\ Goto(w, "delete")
    /\ UNCHANGED <<up, db, failed, tasks>>

DeleteSaved(w) ==
    /\ job[w].pc = "delete"
    /\ db' = [db EXCEPT ![JobRule(w)] = Absent]
    /\ failed' = [failed EXCEPT ![JobRule(w)] = "none"]
    /\ Return(w)
    /\ UNCHANGED <<up, cache, tasks>>

(***************************************************************************)
(* A statement on the table raises, or the commit after it.  The error     *)
(* ends the request where it is: what was changed in the cache stays, and  *)
(* a rule being started does not get to its client.  What _start and _stop *)
(* raise the thread pool swallows, so an unregistration goes on after the  *)
(* failed stop.                                                            *)
(***************************************************************************)
Locked(w) ==
    /\ "locked" \in Allowed
    /\ \/ /\ job[w].pc \in {"save", "write"}
          /\ failed' = [r \in Rules |-> IF r \in job[w].rule THEN "save" ELSE failed[r]]
          /\ Return(w)
       \/ /\ job[w].pc = "enableDB"
          /\ failed' = [failed EXCEPT ![JobRule(w)] = "enable"]
          /\ Return(w)
       \/ /\ job[w].pc = "disableDB"
          /\ failed' = [failed EXCEPT ![JobRule(w)] = "disable"]
          /\ AfterStop(w)
       \/ job[w].pc = "forget" /\ Return(w) /\ UNCHANGED failed
       \/ /\ job[w].pc = "delete"
          /\ failed' = [failed EXCEPT ![JobRule(w)] = "delete"]
          /\ Return(w)
    /\ UNCHANGED <<up, cache, db, tasks>>

(***************************************************************************)
(* The process dies with all but its database; when it is started again    *)
(* the rules are loaded (load_from_db) and the active ones registered anew *)
(* (_resume_active_rules) before any request is served.                    *)
(***************************************************************************)
Crash ==
    /\ up /\ "crash" \in Allowed
    /\ up' = FALSE
    /\ cache' = [r \in Rules |-> Absent]
    /\ servers' = {} /\ ports' = {}
    /\ clients' = [r \in Rules |-> "none"]
    /\ orphans' = {} /\ mock' = {}
    /\ job' = [w \in Workers |-> Idle]
    /\ failed' = [r \in Rules |-> "none"]
    /\ UNCHANGED db

(* Mutant: every saved rule is resumed. *)
ResumedAll == {r \in Rules : db[r] # Absent}

Resumed == {r \in Rules : Enabled(db[r])}

(* Mutant: servers are not resumed. *)
RestartClients ==
    /\ ~up
    /\ up' = TRUE
    /\ cache' = db
    /\ clients' = [r \in Rules |-> IF r \in Resumed \cap SrcLocal /\ ~External(db[r].tool)
                                   THEN "running" ELSE "none"]
    /\ UNCHANGED <<db, failed, servers, ports, orphans, mock, job>>

Restart ==
    /\ ~up
    /\ up' = TRUE
    /\ cache' = db
    /\ LET own == {r \in Resumed : ~External(db[r].tool)} IN
         /\ servers' = {ServerKey[r] : r \in own \cap DstLocal}
         /\ ports' = servers'
         /\ clients' = [r \in Rules |-> IF r \in own \cap SrcLocal THEN "running" ELSE "none"]
    /\ mock' = {r \in Resumed \cap SrcLocal : db[r].tool = "mock"}
    /\ UNCHANGED <<db, failed, orphans, job>>

Next ==
    \/ \E w \in Workers :
         \/ Register(w) \/ SkipForeign(w) \/ RegisterExternal(w) \/ RegisterInternal(w)
         \/ AddServer(w) \/ PutServer(w) \/ AddClient(w) \/ PutClient(w)
         \/ CacheRules(w) \/ ReadIds(w) \/ SaveRules(w) \/ Locked(w)
         \/ StartRule(w) \/ EnableCached(w) \/ EnableSaved(w) \/ StartClient(w)
         \/ StopRule(w) \/ Unregister(w) \/ StopClient(w)
         \/ DisableCached(w) \/ DisableSaved(w) \/ ForgetCached(w) \/ DeleteSaved(w)
    \/ Crash \/ Restart

Spec == Init /\ [][Next]_vars

(***************************************************************************)
(* Properties.                                                             *)
(***************************************************************************)
Settled(r) == up /\ \A w \in Workers : r \notin job[w].rule
Pinging(r) == clients[r] = "running" \/ r \in orphans
Ours(r) == r \in SrcLocal /\ ~External(Tool[r])

(* A rule that is not active sends no traffic once the requests about it   *)
(* have returned: "Stop traffic not working..." (test_lydian.py).          *)
StoppedIsSilent == \A r \in Rules : Settled(r) /\ ~Enabled(cache[r]) => ~Pinging(r)

(* An active rule of this node's own tool does send traffic: "Start        *)
(* traffic not working..." (test_lydian.py).                               *)
ActiveIsPinging ==
    \A r \in Rules : Settled(r) /\ Ours(r) /\ Enabled(cache[r]) => Pinging(r)

(* Where both ends are on this node the server is launched before the      *)
(* client: "Add server on this host if needed. Start server before the     *)
(* client." (traffic_controller.py).  That it listens by then is up to its *)
(* thread, which is not modelled here.                                     *)
ServerBeforeClient ==
    \A r \in Rules : Pinging(r) /\ r \in DstLocal => ServerKey[r] \in ports

(* Cache and database agree on every rule no request is working on, so a   *)
(* restart finds what the requests before it were told - unless a write to *)
(* the rule's row has raised (the cache is changed before the row,         *)
(* rules.py:80-92, 146-150, 158-162) and none has reached it since.        *)
Persisted ==
    \A r \in Rules : Settled(r) /\ failed[r] = "none" =>
      IF cache[r] = Absent THEN db[r] = Absent ELSE db[r] = Row(cache[r])

============================================================================
