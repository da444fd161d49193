---------------------------- MODULE Podium_proofs ----------------------------
(***************************************************************************)
(* Proofs about Podium, for any hosts, rules, requests and disturbances.   *)
(***************************************************************************)
EXTENDS Podium, TLAPS

USE PodiumAssumption

(***************************************************************************)
(* Nodes and calls.                                                        *)
(***************************************************************************)
(* A client runs for a rule that is on and has a task; a rule that was     *)
(* read without a tool is not the internal tool's; and where both ends of  *)
(* a rule are at one node, the task came with the server.  Nothing runs    *)
(* without the process.                                                    *)
NodeOK(n, h) ==
    /\ n \in Node
    /\ n.on \subseteq n.rules
    /\ n.clients \subseteq (n.on \cap n.tasks) \ n.odd
    /\ n.odd \cap Internal = {}
    /\ n.tasks \cap DstAt(h) \subseteq n.servers
    /\ n.st # "up" => n.servers = {} /\ n.clients = {}

(* A call's kind says which phases it has, and that a rule has been        *)
(* registered.                                                             *)
Stops == {"stop", "unregister"}
Starts == {"register", "start"}
OpOK ==
    /\ op.phase = "idle" => op = NoOp
    /\ op.phase \in {"servers", "clients"} <=> op.kind = "register"
    /\ op.phase = "calls" <=> op.kind \in {"start"} \cup Stops
    /\ cache \cup saved \cup op.rules \cup stopped \subseteq used

(* What is under way from a call that ended; a call that is not a          *)
(* registration is made at the host of a rule's source.                    *)
LateOK ==
    \A c \in late :
      /\ c.kind # "none"
      /\ c.kind # "register" => c.rules \subseteq SrcAt(c.host)

TypeInv == TypeOK /\ OpOK /\ LateOK /\ \A h \in Hosts : NodeOK(node[h], h)

(* The fields of what a node becomes.                                      *)
LEMMA RegisterIs ==
    ASSUME NEW n \in Node, NEW h, NEW rs \in SUBSET Rules
    PROVE  LET m == Register(n, h, rs) IN
           /\ m \in Node /\ m.st = n.st /\ m.rules = n.rules \cup rs /\ m.on = n.on \cup rs
           /\ m.odd = n.odd \ rs /\ m.servers = n.servers \cup (rs \cap DstAt(h))
           /\ m.tasks = n.tasks \cup (rs \cap SrcAt(h))
           /\ m.clients = n.clients \cup ((rs \cap SrcAt(h)) \ n.tasks)
BY DEF Register, Node

LEMMA StartIs ==
    ASSUME NEW n \in Node, NEW rs \in SUBSET Rules
    PROVE  LET m == StartRules(n, rs)
               off == (rs \cap n.rules) \ (n.on \cup n.odd)
           IN
           /\ m \in Node /\ m.st = n.st /\ m.rules = n.rules /\ m.on = n.on \cup off
           /\ m.odd = n.odd /\ m.servers = n.servers /\ m.tasks = n.tasks
           /\ m.clients = n.clients \cup (off \cap n.tasks)
BY DEF StartRules, Node

LEMMA StopIs ==
    ASSUME NEW n \in Node, NEW rs \in SUBSET Rules
    PROVE  LET m == StopRules(n, rs)
               on == (rs \cap n.rules \cap n.on) \ n.odd
           IN
           /\ m \in Node /\ m.st = n.st /\ m.rules = n.rules /\ m.on = n.on \ on
           /\ m.odd = n.odd /\ m.servers = n.servers /\ m.tasks = n.tasks
           /\ m.clients = n.clients \ on
BY DEF StopRules, Node

LEMMA UnregisterIs ==
    ASSUME NEW n \in Node, NEW rs \in SUBSET Rules
    PROVE  LET m == UnregisterRules(n, rs)
               on == (rs \cap n.rules \cap n.on) \ n.odd
           IN
           /\ m \in Node /\ m.st = n.st /\ m.rules = n.rules \ rs /\ m.on = (n.on \ on) \ rs
           /\ m.odd = n.odd \ rs /\ m.servers = n.servers /\ m.tasks = n.tasks
           /\ m.clients = n.clients \ on
<1>1. ASSUME NEW s \in Node
      PROVE  LET m == [s EXCEPT !.rules = @ \ rs, !.on = @ \ rs, !.odd = @ \ rs] IN
             /\ m \in Node /\ m.st = s.st /\ m.rules = s.rules \ rs /\ m.on = s.on \ rs
             /\ m.odd = s.odd \ rs /\ m.servers = s.servers /\ m.tasks = s.tasks
             /\ m.clients = s.clients
  BY DEF Node
<1> DEFINE s == StopRules(n, rs)
<1>2. /\ s \in Node /\ s.st = n.st /\ s.rules = n.rules
      /\ s.on = n.on \ ((rs \cap n.rules \cap n.on) \ n.odd)
      /\ s.odd = n.odd /\ s.servers = n.servers /\ s.tasks = n.tasks
      /\ s.clients = n.clients \ ((rs \cap n.rules \cap n.on) \ n.odd)
  BY StopIs
<1>3. UnregisterRules(n, rs) = [s EXCEPT !.rules = @ \ rs, !.on = @ \ rs, !.odd = @ \ rs]
  BY DEF UnregisterRules
<1> HIDE DEF s
<1>4. /\ UnregisterRules(n, rs) \in Node /\ UnregisterRules(n, rs).st = s.st
      /\ UnregisterRules(n, rs).rules = s.rules \ rs /\ UnregisterRules(n, rs).on = s.on \ rs
      /\ UnregisterRules(n, rs).odd = s.odd \ rs
      /\ UnregisterRules(n, rs).servers = s.servers /\ UnregisterRules(n, rs).tasks = s.tasks
      /\ UnregisterRules(n, rs).clients = s.clients
  BY <1>1, <1>2, <1>3
<1> QED BY <1>2, <1>4

LEMMA DeadIs ==
    ASSUME NEW n \in Node, NEW st \in {"off", "down"}
    PROVE  LET m == Dead(n, st) IN
           /\ m \in Node /\ m.st = st /\ m.rules = n.rules /\ m.on = n.on /\ m.odd = n.odd
           /\ m.servers = {} /\ m.tasks = {} /\ m.clients = {}
BY DEF Dead, Node

LEMMA ResumedIs ==
    ASSUME NEW n \in Node, NEW h
    PROVE  LET m == Resumed(n, h)
               on == n.on \cap Internal
           IN
           /\ m \in Node /\ m.st = "up" /\ m.rules = n.rules /\ m.on = n.on
           /\ m.odd = n.rules \ Internal /\ m.servers = on \cap DstAt(h)
           /\ m.tasks = on \cap SrcAt(h) /\ m.clients = on \cap SrcAt(h)
BY DEF Resumed, Node

LEMMA OffOK == \A h \in Hosts : NodeOK(Off, h) /\ Off.st = "off" /\ Off.rules = {}
                                /\ Off.on = {} /\ Off.servers = {} /\ Off.tasks = {}
                                /\ Off.clients = {}
BY DEF NodeOK, Off, Node

(* What a request does to a node, by the rules it is about: a registration *)
(* adds its rules and starts their servers before anything else, a stop    *)
(* silences every one of them for good, and none touches another rule.     *)
BecomesBy(m, n, h, kind, rs) ==
    /\ NodeOK(m, h) /\ m.st = "up"
    /\ n.servers \subseteq m.servers
    /\ n.rules \ rs \subseteq m.rules
    /\ kind = "register" => /\ m.rules = n.rules \cup rs
                            /\ m.servers = n.servers \cup (rs \cap DstAt(h))
                            /\ m.tasks \subseteq n.tasks \cup rs
    /\ kind # "register" => /\ m.rules \subseteq n.rules
                            /\ m.servers = n.servers /\ m.tasks = n.tasks
    /\ m.clients \ rs \subseteq n.clients /\ m.on \ rs \subseteq n.on
    /\ kind \in Stops => /\ m.clients \subseteq n.clients \ rs /\ m.on \subseteq n.on
                         /\ m.on \cap rs \cap Internal = {}

LEMMA ServedIs ==
    ASSUME NEW h \in Hosts, NEW n, NodeOK(n, h), n.st = "up", NEW rs \in SUBSET Rules,
           NEW kind \in Kinds \ {"none"}, NEW m, m = Served(n, h, kind, rs)
    PROVE  BecomesBy(m, n, h, kind, rs)
<1>1. n \in Node
  BY DEF NodeOK
<1>2. CASE kind = "register"
  <2>1. m = Register(n, h, rs)
    BY <1>2 DEF Served
  <2> QED BY <1>1, <1>2, <2>1, RegisterIs DEF NodeOK, BecomesBy, Stops
<1>3. CASE kind = "start"
  <2>1. m = StartRules(n, rs)
    BY <1>3 DEF Served
  <2> QED BY <1>1, <1>3, <2>1, StartIs DEF NodeOK, BecomesBy, Stops
<1>4. CASE kind = "stop"
  <2>1. m = StopRules(n, rs)
    BY <1>4 DEF Served
  <2> QED BY <1>1, <1>4, <2>1, StopIs DEF NodeOK, BecomesBy, Stops
<1>5. CASE kind = "unregister"
  <2>1. m = UnregisterRules(n, rs)
    BY <1>5 DEF Served
  <2> QED BY <1>1, <1>5, <2>1, UnregisterIs DEF NodeOK, BecomesBy, Stops
<1> QED BY <1>2, <1>3, <1>4, <1>5 DEF Kinds

(* What becomes of a node whose process is gone, or comes up again.        *)
LEMMA AgainOK ==
    ASSUME NEW h \in Hosts, NEW n, NodeOK(n, h)
    PROVE  /\ \A st \in {"off", "down"} : NodeOK(Dead(n, st), h)
           /\ NodeOK(Resumed(n, h), h)
<1>1. n \in Node
  BY DEF NodeOK
<1>2. ASSUME NEW st \in {"off", "down"}, NEW m, m = Dead(n, st) PROVE NodeOK(m, h)
  BY <1>1, <1>2, DeadIs DEF NodeOK
<1>3. ASSUME NEW m, m = Resumed(n, h) PROVE NodeOK(m, h)
  BY <1>1, <1>3, ResumedIs DEF NodeOK
<1> QED BY <1>2, <1>3

(***************************************************************************)
(* The podium's call.                                                      *)
(***************************************************************************)
Op == [kind : Kinds, phase : Phases, rules : SUBSET Rules,
       call : [Hosts -> {"none", "sent", "ok", "error"}], racing : SUBSET Rules]

LEMMA NoOpIs ==
    /\ NoOp \in Op /\ NoOp.kind = "none" /\ NoOp.phase = "idle" /\ NoOp.rules = {}
    /\ NoOp.racing = {} /\ \A h \in Hosts : NoOp.call[h] = "none"
BY DEF NoOp, NoCalls, Op, Kinds, Phases

LEMMA AnsweredIs ==
    ASSUME TypeInv, NEW h \in Hosts, NEW result \in {"ok", "error"}, Answered(h, result)
    PROVE  /\ op' \in Op /\ op'.kind = op.kind /\ op'.phase = op.phase /\ op'.rules = op.rules
           /\ op'.racing = op.racing /\ op'.call[h] = result
           /\ \A g \in Hosts \ {h} : op'.call[g] = op.call[g]
BY DEF TypeInv, TypeOK, Op, Answered

LEMMA BeginIs ==
    ASSUME TypeInv, NEW kind \in Kinds, NEW phase \in Phases, NEW rs \in SUBSET Rules,
           Begin(kind, phase, rs)
    PROVE  /\ op' \in Op /\ op'.kind = kind /\ op'.phase = phase /\ op'.rules = rs
           /\ op'.racing = UNION {c.rules : c \in late}
           /\ \A h \in Hosts : op'.call[h] \in {"none", "sent"}
           /\ \A r \in rs : Side(phase)[r] \in known => op'.call[Side(phase)[r]] = "sent"
<1>1. UNION {c.rules : c \in late} \subseteq Rules
  BY DEF TypeInv, TypeOK
<1>2. \A r \in rs : Side(phase)[r] \in Hosts
  BY DEF Side
<1> QED BY <1>1, <1>2 DEF Begin, Op

(* An RPC under way is one of a call, about the rules that have the end    *)
(* the phase is about at its host.                                         *)
LEMMA SentIs ==
    ASSUME TypeInv, NEW h \in Hosts, op.call[h] = "sent"
    PROVE  /\ op.phase # "idle" /\ op.kind \in Kinds \ {"none"}
           /\ CallRules(h) \in SUBSET op.rules /\ CallRules(h) \in SUBSET Rules
           /\ op.phase = "servers" => CallRules(h) = op.rules \cap DstAt(h)
           /\ op.phase # "servers" => CallRules(h) = op.rules \cap SrcAt(h)
<1>1. op.phase # "idle"
  BY NoOpIs DEF TypeInv, OpOK
<1>2. op \in Op /\ op.rules \subseteq Rules
  BY DEF TypeInv, TypeOK, Op
<1>3. op.kind # "none"
  BY <1>1, <1>2 DEF TypeInv, OpOK, Op, Phases, Stops
<1> QED BY <1>1, <1>2, <1>3 DEF CallRules, Side, DstAt, SrcAt, Op

(* An RPC nobody waits for any more is as it was made.                     *)
LEMMA LeftIs ==
    ASSUME TypeInv, NEW hs \in SUBSET {h \in Hosts : op.call[h] = "sent"}, NEW c \in Left(hs)
    PROVE  /\ c \in [kind : Kinds, host : Hosts, rules : SUBSET Rules]
           /\ c.kind = op.kind /\ c.kind # "none" /\ c.rules \subseteq op.rules
           /\ op.phase = "servers" => c.rules = op.rules \cap DstAt(c.host)
           /\ op.phase # "servers" => c.rules = op.rules \cap SrcAt(c.host)
           /\ op.kind # "register" => c.rules \subseteq SrcAt(c.host)
<1>1. PICK h \in hs : c = [kind |-> op.kind, host |-> h, rules |-> CallRules(h)]
  BY DEF Left
<1>2. h \in Hosts /\ op.call[h] = "sent"
  OBVIOUS
<1>3. c.kind = op.kind /\ c.host = h /\ c.rules = CallRules(h)
  BY <1>1
<1>4. op.kind # "register" => op.phase # "servers"
  BY DEF TypeInv, OpOK
<1> QED BY <1>1, <1>2, <1>3, <1>4, SentIs

(* An RPC that a node carries out.                                         *)
Carries(h, kind, rs) ==
    /\ h \in Hosts /\ kind \in Kinds \ {"none"} /\ rs \in SUBSET Rules
    /\ node[h].st = "up" /\ node' = [node EXCEPT ![h] = Served(@, h, kind, rs)]

LEMMA ServeIs ==
    ASSUME TypeInv, NEW h \in Hosts, Serve(h)
    PROVE  Carries(h, op.kind, CallRules(h))
BY SentIs DEF Serve, Carries

LEMMA ServeLateIs ==
    ASSUME TypeInv, ServeLate
    PROVE  \E c \in late :
             /\ Carries(c.host, c.kind, c.rules) /\ late' = late \ {c}
             /\ c.kind # "register" => c.rules \subseteq SrcAt(c.host)
<1>1. \A c \in late : /\ c.host \in Hosts /\ c.kind \in Kinds \ {"none"}
                      /\ c.rules \in SUBSET Rules
                      /\ c.kind # "register" => c.rules \subseteq SrcAt(c.host)
  BY DEF TypeInv, TypeOK, LateOK
<1> QED BY <1>1 DEF ServeLate, Carries

LEMMA CarriesIs ==
    ASSUME TypeInv, NEW h, NEW kind, NEW rs, Carries(h, kind, rs)
    PROVE  /\ BecomesBy(node'[h], node[h], h, kind, rs)
           /\ \A g \in Hosts \ {h} : node'[g] = node[g]
           /\ node' \in [Hosts -> Node] /\ \A g \in Hosts : NodeOK(node[g], g)'
<1>1. /\ h \in Hosts /\ kind \in Kinds \ {"none"} /\ rs \in SUBSET Rules
      /\ node[h].st = "up" /\ NodeOK(node[h], h)
      /\ node'[h] = Served(node[h], h, kind, rs)
      /\ \A g \in Hosts \ {h} : node'[g] = node[g]
      /\ DOMAIN node' = Hosts /\ node' = [g \in Hosts |-> node'[g]]
  BY DEF Carries, TypeInv, TypeOK
<1>2. BecomesBy(node'[h], node[h], h, kind, rs)
  <2>1. ASSUME NEW n, NodeOK(n, h), n.st = "up", NEW m, m = Served(n, h, kind, rs)
        PROVE  BecomesBy(m, n, h, kind, rs)
    BY <1>1, <2>1, ServedIs
  <2> QED BY <1>1, <2>1
<1>3. \A g \in Hosts : NodeOK(node'[g], g)
  <2>1. NodeOK(node'[h], h)
    BY <1>2 DEF BecomesBy
  <2> QED BY <1>1, <2>1 DEF TypeInv
<1>4. \A g \in Hosts : node'[g] \in Node
  BY <1>3 DEF NodeOK
<1>5. ASSUME NEW g \in Hosts PROVE NodeOK(node[g], g)'
  BY <1>3 DEF NodeOK
<1> QED BY <1>1, <1>2, <1>4, <1>5

(***************************************************************************)
(* Types.                                                                  *)
(***************************************************************************)
LEMMA TypeInit == Init => TypeInv
<1> SUFFICES ASSUME Init PROVE TypeInv
  OBVIOUS
<1>1. \A h \in Hosts : NodeOK(node[h], h) /\ node[h] \in Node
  BY OffOK DEF Init, NodeOK
<1>2. OpOK
  BY NoOpIs DEF Init, OpOK, Stops
<1>3. TypeOK
  BY <1>1, NoOpIs DEF Init, TypeOK, Op
<1> QED BY <1>1, <1>2, <1>3 DEF Init, TypeInv, LateOK

LEMMA TypeStep == TypeInv /\ [Next]_vars => TypeInv'
<1> SUFFICES ASSUME TypeInv, [Next]_vars PROVE TypeInv'
  OBVIOUS
<1>now. /\ known \subseteq Hosts /\ cache \subseteq Rules /\ saved \subseteq Rules
        /\ op \in Op /\ node \in [Hosts -> Node]
        /\ late \subseteq [kind : Kinds, host : Hosts, rules : SUBSET Rules]
        /\ used \subseteq Rules /\ missed \subseteq Rules /\ stopped \subseteq Rules
        /\ astray \in BOOLEAN
        /\ OpOK /\ LateOK /\ \A h \in Hosts : NodeOK(node[h], h)
        /\ op.rules \subseteq Rules
  BY DEF TypeInv, TypeOK, Op
<1> DEFINE NodesOK == node' \in [Hosts -> Node] /\ \A h \in Hosts : NodeOK(node[h], h)'
           LatesOK == /\ late' \subseteq [kind : Kinds, host : Hosts, rules : SUBSET Rules]
                      /\ LateOK'
           RestOK == /\ known' \subseteq Hosts /\ cache' \subseteq Rules /\ saved' \subseteq Rules
                     /\ used' \subseteq Rules /\ missed' \subseteq Rules
                     /\ stopped' \subseteq Rules /\ astray' \in BOOLEAN
           CallOK == op' \in Op /\ OpOK'
<1>all. ASSUME NodesOK, LatesOK, RestOK, CallOK PROVE TypeInv'
  BY <1>all DEF TypeInv, TypeOK, Op
<1>node. ASSUME UNCHANGED node PROVE NodesOK
  BY <1>node, <1>now DEF NodeOK
<1>set. ASSUME NEW h \in Hosts, NEW n, NodeOK(n, h), node' = [node EXCEPT ![h] = n] PROVE NodesOK
  <2>1. n \in Node
    BY <1>set DEF NodeOK
  <2>2. node' \in [Hosts -> Node] /\ \A g \in Hosts : node'[g] = IF g = h THEN n ELSE node[g]
    BY <1>set, <1>now, <2>1
  <2>3. ASSUME NEW g \in Hosts PROVE NodeOK(node[g], g)'
    <3>1. NodeOK(node'[g], g)
      BY <1>set, <1>now, <2>2
    <3> QED BY <3>1 DEF NodeOK
  <2> QED BY <2>2, <2>3
<1>late. ASSUME UNCHANGED late PROVE LatesOK
  BY <1>late, <1>now DEF LateOK
<1>left. ASSUME NEW hs \in SUBSET {h \in Hosts : op.call[h] = "sent"}, late' = late \cup Left(hs)
         PROVE  LatesOK
  <2>1. \A c \in Left(hs) : /\ c \in [kind : Kinds, host : Hosts, rules : SUBSET Rules]
                            /\ c.kind # "none"
                            /\ c.kind # "register" => c.rules \subseteq SrcAt(c.host)
    BY LeftIs
  <2> QED BY <1>left, <1>now, <2>1 DEF LateOK
<1>answered. ASSUME NEW h \in Hosts, op.call[h] = "sent",
                    NEW result \in {"ok", "error"}, Answered(h, result),
                    UNCHANGED <<cache, saved, stopped, used>>
             PROVE  CallOK
  <2>1. op.phase # "idle"
    BY <1>answered, SentIs
  <2>2. /\ op' \in Op /\ op'.kind = op.kind /\ op'.phase = op.phase /\ op'.rules = op.rules
    BY <1>answered, AnsweredIs
  <2> QED BY <1>answered, <1>now, <2>1, <2>2 DEF OpOK
<1>missed. \A h \in Hosts : op.call[h] = "sent" => MissedBy(h) \subseteq Rules
  BY SentIs DEF MissedBy
<1>1. ASSUME NEW q \in Requests, RegisterTraffic(q) PROVE TypeInv'
  <2> DEFINE rs == {r \in Rules \ used : Req[r] = q /\ {SrcHost[r], DstHost[r]} \subseteq known}
  <2>1. /\ Begin("register", "servers", rs) /\ used' = used \cup rs
        /\ UNCHANGED <<known, cache, saved, node, late, missed, stopped, astray>>
    BY <1>1 DEF RegisterTraffic
  <2>2. op' \in Op /\ op'.kind = "register" /\ op'.phase = "servers" /\ op'.rules = rs
    BY <2>1, BeginIs DEF Kinds, Phases
  <2>3. CallOK
    BY <2>1, <2>2, <1>now DEF OpOK, Stops
  <2> QED BY <2>1, <2>3, <1>all, <1>node, <1>late, <1>now
<1>2. ASSUME StartClients PROVE TypeInv'
  <2>1. /\ Begin("register", "clients", op.rules) /\ op.phase = "servers"
        /\ UNCHANGED <<known, cache, saved, node, late, used, missed, stopped, astray>>
    BY <1>2 DEF StartClients
  <2>2. op' \in Op /\ op'.kind = "register" /\ op'.phase = "clients" /\ op'.rules = op.rules
    BY <2>1, <1>now, BeginIs DEF Kinds, Phases
  <2>3. CallOK
    BY <2>1, <2>2, <1>now DEF OpOK, Stops
  <2> QED BY <2>1, <2>3, <1>all, <1>node, <1>late, <1>now
<1>3. ASSUME AddRules PROVE TypeInv'
  <2>1. CallOK
    BY <1>3, <1>now, NoOpIs DEF AddRules, OpOK, Stops
  <2> QED BY <1>3, <2>1, <1>all, <1>node, <1>late, <1>now DEF AddRules
<1>4. ASSUME NEW q \in Requests, NEW kind \in {"start", "stop", "unregister"}, TrafficOp(q, kind)
      PROVE  TypeInv'
  <2> DEFINE rs == {r \in cache : Req[r] = q}
  <2>1. /\ Begin(kind, "calls", rs) /\ stopped' \subseteq stopped
        /\ UNCHANGED <<known, cache, saved, node, late, used, missed, astray>>
    BY <1>4 DEF TrafficOp
  <2>2. op' \in Op /\ op'.kind = kind /\ op'.phase = "calls" /\ op'.rules = rs
    <3>1. rs \in SUBSET Rules /\ kind \in Kinds /\ "calls" \in Phases
      BY <1>now DEF Kinds, Phases
    <3> QED BY <2>1, <3>1, BeginIs
  <2>3. CallOK
    BY <2>1, <2>2, <1>now DEF OpOK, Stops
  <2> QED BY <2>1, <2>3, <1>all, <1>node, <1>late, <1>now
<1>5. ASSUME EndOp PROVE TypeInv'
  <2>1. /\ op' = NoOp /\ saved' \subseteq saved /\ stopped' \subseteq stopped \cup op.rules
        /\ UNCHANGED <<known, cache, node, late, used, missed, astray>>
    BY <1>5 DEF EndOp, Confirmed
  <2>2. CallOK
    BY <2>1, <1>now, NoOpIs DEF OpOK, Stops
  <2> QED BY <2>1, <2>2, <1>all, <1>node, <1>late, <1>now
<1>6. ASSUME NEW h \in Hosts, Serve(h) PROVE TypeInv'
  <2>1. NodesOK
    BY <1>6, ServeIs, CarriesIs
  <2>2. CallOK
    BY <1>6, <1>answered DEF Serve
  <2>3. RestOK /\ UNCHANGED late
    BY <1>6, <1>now, <1>missed DEF Serve
  <2> QED BY <2>1, <2>2, <2>3, <1>all, <1>late
<1>7. ASSUME NEW h \in Hosts, Fail(h) PROVE TypeInv'
  <2>1. CallOK
    BY <1>7, <1>answered DEF Fail
  <2>2. RestOK /\ UNCHANGED <<node, late>>
    BY <1>7, <1>now, <1>missed DEF Fail
  <2> QED BY <2>1, <2>2, <1>all, <1>node, <1>late
<1>8. ASSUME NEW h \in Hosts, TimeOut(h) PROVE TypeInv'
  <2>1. CallOK
    BY <1>8, <1>answered DEF TimeOut
  <2>2. RestOK /\ UNCHANGED node
    BY <1>8, <1>now, <1>missed DEF TimeOut
  <2>3. LatesOK
    <3>1. {h} \in SUBSET {g \in Hosts : op.call[g] = "sent"} /\ late' = late \cup Left({h})
      BY <1>8 DEF TimeOut
    <3> QED BY <3>1, <1>left
  <2> QED BY <2>1, <2>2, <2>3, <1>all, <1>node
<1>9. ASSUME NEW h \in Hosts, NodeDown(h) PROVE TypeInv'
  <2>1. NodesOK
    BY <1>9, <1>set, <1>now, AgainOK DEF NodeDown
  <2>2. /\ RestOK /\ UNCHANGED <<op, late, cache, saved, used, stopped>>
    <3>1. node[h].rules \subseteq Rules
      BY <1>now DEF Node
    <3> QED BY <1>9, <1>now, <3>1 DEF NodeDown
  <2>3. CallOK
    BY <2>2, <1>now DEF OpOK
  <2> QED BY <2>1, <2>2, <2>3, <1>all, <1>late
<1>10. ASSUME NEW h \in Hosts, NodeUp(h) PROVE TypeInv'
  <2>1. NodesOK
    BY <1>10, <1>set, <1>now, AgainOK DEF NodeUp
  <2>2. RestOK /\ UNCHANGED <<op, late, cache, saved, used, stopped>>
    BY <1>10, <1>now DEF NodeUp
  <2>3. CallOK
    BY <2>2, <1>now DEF OpOK
  <2> QED BY <2>1, <2>2, <2>3, <1>all, <1>late
<1>11. ASSUME NEW h \in Hosts, AddHost(h) PROVE TypeInv'
  <2> DEFINE dead == Dead(node[h], "down")
  <2>1. NodeOK(dead, h)
    BY <1>now, AgainOK
  <2>2. NodeOK(Resumed(dead, h), h)
    <3> HIDE DEF dead
    <3> QED BY <2>1, AgainOK
  <2>3. NodesOK
    BY <1>11, <1>set, <2>1, <2>2 DEF AddHost
  <2>4. RestOK /\ UNCHANGED <<op, late, cache, saved, used, stopped>>
    <3>1. node[h].rules \subseteq Rules
      BY <1>now DEF Node
    <3> QED BY <1>11, <1>now, <3>1 DEF AddHost
  <2>5. CallOK
    BY <2>4, <1>now DEF OpOK
  <2> QED BY <2>3, <2>4, <2>5, <1>all, <1>late
<1>12. ASSUME NEW h \in Hosts, NEW remove_db \in BOOLEAN, CleanupHost(h, remove_db) PROVE TypeInv'
  <2>1. NodesOK
    <3>1. \A st \in {"off", "down"} : NodeOK(Dead(node[h], st), h)
      BY <1>now, AgainOK
    <3>2. \/ node' = [node EXCEPT ![h] = Off]
          \/ node' = [node EXCEPT ![h] = Dead(node[h], "off")]
          \/ UNCHANGED node
      BY <1>12 DEF CleanupHost
    <3> QED BY <3>1, <3>2, <1>set, <1>node, OffOK
  <2>2. RestOK /\ UNCHANGED <<op, late, cache, saved, used, stopped>>
    <3>1. node[h].rules \subseteq Rules
      BY <1>now DEF Node
    <3> QED BY <1>12, <1>now, <3>1 DEF CleanupHost
  <2>3. CallOK
    BY <2>2, <1>now DEF OpOK
  <2> QED BY <2>1, <2>2, <2>3, <1>all, <1>late
<1>13. ASSUME ServeLate PROVE TypeInv'
  <2>1. NodesOK
    BY <1>13, ServeLateIs, CarriesIs
  <2>2. /\ RestOK /\ UNCHANGED <<op, cache, saved, used, stopped>> /\ late' \subseteq late
    BY <1>13, <1>now DEF ServeLate
  <2>3. CallOK
    BY <2>2, <1>now DEF OpOK
  <2>4. LatesOK
    BY <2>2, <1>now DEF LateOK
  <2> QED BY <2>1, <2>2, <2>3, <2>4, <1>all
<1>14. ASSUME PodiumRestart PROVE TypeInv'
  <2>1. LatesOK
    BY <1>14, <1>left DEF PodiumRestart
  <2>2. /\ op' = NoOp /\ cache' = saved /\ UNCHANGED <<saved, used, stopped, node>> /\ RestOK
    BY <1>14, <1>now DEF PodiumRestart
  <2>3. CallOK
    BY <2>2, <1>now, NoOpIs DEF OpOK, Stops
  <2> QED BY <2>1, <2>2, <2>3, <1>all, <1>node
<1>15. CASE UNCHANGED vars
  <2>1. CallOK
    BY <1>15, <1>now DEF vars, OpOK
  <2> QED BY <1>15, <2>1, <1>all, <1>node, <1>late, <1>now DEF vars
<1> QED
  BY <1>1, <1>2, <1>3, <1>4, <1>5, <1>6, <1>7, <1>8, <1>9, <1>10, <1>11, <1>12, <1>13, <1>14, <1>15
  DEF Next

(* Every variable has its type, and every node and call is one the code    *)
(* can come to.                                                            *)
THEOREM TypeCorrect == Spec => []TypeOK
<1>1. TypeInv => TypeOK
  BY DEF TypeInv
<1> QED BY <1>1, TypeInit, TypeStep, PTL DEF Spec
(***************************************************************************)
(* Servers first.                                                          *)
(***************************************************************************)
Promised(r) == r \in missed \/ Listening(r)
Apart(r) == SrcHost[r] # DstHost[r]

(* Where the ends are apart, the source's host has the rule, or is about   *)
(* to get it, only if the server was started; the server's host has every  *)
(* rule it has a server for, so that none is lost unnoticed.               *)
NodesFirst(r) ==
    /\ r \in node[SrcHost[r]].tasks \cup node[SrcHost[r]].rules => Promised(r)
    /\ Listening(r) => r \in node[DstHost[r]].rules
LatesFirst(r) == \A c \in late : c.kind = "register" /\ r \in c.rules => Promised(r)
CallFirst(r) ==
    r \in op.rules => /\ op.phase = "servers" => op.call[DstHost[r]] = "sent" \/ Promised(r)
                      /\ op.phase = "clients" => Promised(r)
ServerInv == \A r \in Rules : Apart(r) => NodesFirst(r) /\ LatesFirst(r) /\ CallFirst(r)

(* A request that is carried out: only a registration brings a rule to its *)
(* source's host, and where it finds the destination, it leaves a server.  *)
LEMMA FirstCarried ==
    ASSUME TypeInv, NEW r \in Rules, Apart(r), NodesFirst(r), missed \subseteq missed',
           NEW h, NEW kind, NEW rs, Carries(h, kind, rs),
           kind # "register" => rs \subseteq SrcAt(h),
           kind = "register" /\ r \in rs /\ SrcHost[r] = h => Promised(r)
    PROVE  /\ NodesFirst(r)'
           /\ Promised(r) => Promised(r)'
           /\ kind = "register" /\ r \in rs /\ DstHost[r] = h => Promised(r)'
<1>1. /\ BecomesBy(node'[h], node[h], h, kind, rs)
      /\ \A g \in Hosts \ {h} : node'[g] = node[g]
  BY CarriesIs
<1>2. h \in Hosts /\ SrcHost[r] \in Hosts /\ DstHost[r] \in Hosts /\ SrcHost[r] # DstHost[r]
  BY DEF Carries, Apart
<1>3. /\ node[h].servers \subseteq node'[h].servers
      /\ kind = "register" /\ r \in rs /\ DstHost[r] = h => r \in node'[h].servers
      /\ r \in node'[h].tasks \cup node'[h].rules /\ SrcHost[r] = h =>
           r \in node[h].tasks \cup node[h].rules \/ (kind = "register" /\ r \in rs)
      /\ r \in node'[h].servers /\ DstHost[r] = h =>
           (r \in node[h].servers /\ r \notin rs) \/ (kind = "register" /\ r \in rs)
             \/ (r \in node[h].servers /\ r \in rs /\ kind # "register")
      /\ node[h].rules \ rs \subseteq node'[h].rules
      /\ kind = "register" => rs \subseteq node'[h].rules
  BY <1>1 DEF BecomesBy, DstAt
<1>4. Promised(r) => Promised(r)'
  BY <1>1, <1>2, <1>3 DEF Promised, Listening
<1>5. kind = "register" /\ r \in rs /\ DstHost[r] = h => Promised(r)'
  BY <1>3 DEF Promised, Listening
<1>6. r \in node'[SrcHost[r]].tasks \cup node'[SrcHost[r]].rules => Promised(r)'
  BY <1>1, <1>2, <1>3, <1>4 DEF NodesFirst
<1>7. r \in node'[DstHost[r]].servers => r \in node'[DstHost[r]].rules
  <2>1. CASE DstHost[r] = h
    <3>1. r \in rs => kind = "register"
      BY <2>1, <1>2 DEF SrcAt
    <3> QED BY <2>1, <3>1, <1>3 DEF NodesFirst, Listening
  <2>2. CASE DstHost[r] # h
    BY <2>2, <1>1, <1>2 DEF NodesFirst, Listening
  <2> QED BY <2>1, <2>2
<1> QED BY <1>4, <1>5, <1>6, <1>7 DEF NodesFirst, Listening

(* A node whose process is gone, or comes up again: the servers it loses   *)
(* are those of its rules.                                                 *)
LEMMA FirstGone ==
    ASSUME TypeInv, NEW r \in Rules, Apart(r), NodesFirst(r), NEW h \in Hosts, NEW m \in Node,
           node' = node \/ node' = [node EXCEPT ![h] = m],
           m.tasks \cup m.rules \subseteq node[h].tasks \cup node[h].rules,
           m.servers \subseteq m.rules,
           missed' = missed \cup (node[h].rules \cap DstAt(h))
    PROVE  /\ NodesFirst(r)'
           /\ Promised(r) => Promised(r)'
<1>1. node \in [Hosts -> Node] /\ SrcHost[r] \in Hosts /\ DstHost[r] \in Hosts
  BY DEF TypeInv, TypeOK
<1>2. \A g \in Hosts : node'[g] = node[g] \/ (g = h /\ node'[g] = m)
  BY <1>1
<1>3. /\ r \in node'[SrcHost[r]].tasks \cup node'[SrcHost[r]].rules =>
           r \in node[SrcHost[r]].tasks \cup node[SrcHost[r]].rules
      /\ r \in node'[DstHost[r]].servers => r \in node'[DstHost[r]].rules
  BY <1>1, <1>2 DEF NodesFirst, Listening
<1>4. Promised(r) => Promised(r)'
  BY <1>1, <1>2 DEF Promised, NodesFirst, Listening, DstAt
<1> QED BY <1>3, <1>4 DEF NodesFirst, Listening

LEMMA ServerInit == Init => ServerInv
BY OffOK, NoOpIs DEF Init, ServerInv, NodesFirst, LatesFirst, CallFirst, Listening

LEMMA ServerStep == TypeInv /\ ServerInv /\ [Next]_vars => ServerInv'
<1> SUFFICES ASSUME TypeInv, ServerInv, [Next]_vars, NEW r \in Rules, Apart(r)
             PROVE  NodesFirst(r)' /\ LatesFirst(r)' /\ CallFirst(r)'
  BY DEF ServerInv, Apart
<1>now. /\ NodesFirst(r) /\ LatesFirst(r) /\ CallFirst(r)
        /\ SrcHost[r] \in Hosts /\ DstHost[r] \in Hosts /\ SrcHost[r] # DstHost[r]
        /\ node \in [Hosts -> Node] /\ OpOK /\ LateOK
        /\ \A h \in Hosts : NodeOK(node[h], h)
  BY DEF ServerInv, TypeInv, TypeOK, Apart
<1> DEFINE Kept == Promised(r) => Promised(r)'
<1>same. ASSUME UNCHANGED node, missed \subseteq missed' PROVE NodesFirst(r)' /\ Kept
  BY <1>same, <1>now DEF NodesFirst, Promised, Listening
<1>late. ASSUME Kept, late' \subseteq late PROVE LatesFirst(r)'
  BY <1>late, <1>now DEF LatesFirst
<1>call. ASSUME Kept, UNCHANGED op PROVE CallFirst(r)'
  BY <1>call, <1>now DEF CallFirst
<1>done. ASSUME op' = NoOp PROVE CallFirst(r)'
  BY <1>done, NoOpIs DEF CallFirst
<1>answered. ASSUME Kept, NEW h \in Hosts, NEW result \in {"ok", "error"}, Answered(h, result),
                    op.phase = "servers" /\ r \in op.rules /\ DstHost[r] = h => Promised(r)'
             PROVE  CallFirst(r)'
  <2>1. /\ op'.phase = op.phase /\ op'.rules = op.rules
        /\ \A g \in Hosts \ {h} : op'.call[g] = op.call[g]
    BY <1>answered, AnsweredIs
  <2> QED BY <1>answered, <1>now, <2>1 DEF CallFirst
<1>error. ASSUME NEW h \in Hosts, op.call[h] = "sent", missed' = missed \cup MissedBy(h),
                 op.phase = "servers", r \in op.rules, DstHost[r] = h
          PROVE  Promised(r)'
  BY <1>error, SentIs DEF MissedBy, Promised, DstAt
<1>left. ASSUME NEW hs \in SUBSET {h \in Hosts : op.call[h] = "sent"}, Kept,
                late' = late \cup Left(hs),
                op.phase = "servers" /\ r \in op.rules /\ DstHost[r] \in hs => Promised(r)'
         PROVE  LatesFirst(r)'
  <2>1. ASSUME NEW c \in Left(hs), c.kind = "register", r \in c.rules PROVE Promised(r)'
    <3>1. /\ r \in op.rules /\ op.kind = "register"
          /\ op.phase = "servers" => DstHost[r] = c.host
      BY <2>1, LeftIs DEF DstAt
    <3>2. op.phase \in {"servers", "clients"}
      BY <3>1, <1>now DEF OpOK
    <3>3. c.host \in hs
      BY <2>1 DEF Left
    <3> QED BY <3>1, <3>2, <3>3, <1>left, <1>now DEF CallFirst
  <2> QED BY <1>left, <1>now, <2>1 DEF LatesFirst
<1>1. ASSUME NEW q \in Requests, RegisterTraffic(q)
      PROVE  NodesFirst(r)' /\ LatesFirst(r)' /\ CallFirst(r)'
  <2> DEFINE rs == {s \in Rules \ used : Req[s] = q /\ {SrcHost[s], DstHost[s]} \subseteq known}
  <2>1. Begin("register", "servers", rs) /\ UNCHANGED <<node, late, missed>>
    BY <1>1 DEF RegisterTraffic
  <2>2. /\ op'.phase = "servers" /\ op'.rules = rs
        /\ \A s \in rs : DstHost[s] \in known => op'.call[DstHost[s]] = "sent"
    <3>1. Side("servers") = DstHost
      BY DEF Side
    <3> QED BY <2>1, <3>1, BeginIs DEF Kinds, Phases
  <2>3. CallFirst(r)'
    BY <2>2 DEF CallFirst
  <2> QED BY <2>1, <2>3, <1>same, <1>late
<1>2. ASSUME StartClients PROVE NodesFirst(r)' /\ LatesFirst(r)' /\ CallFirst(r)'
  <2>1. /\ Begin("register", "clients", op.rules) /\ op.phase = "servers" /\ AllAnswered
        /\ UNCHANGED <<node, late, missed>>
    BY <1>2 DEF StartClients
  <2>2. op'.phase = "clients" /\ op'.rules = op.rules
    <3>1. op.rules \in SUBSET Rules
      BY DEF TypeInv, TypeOK
    <3> QED BY <2>1, <3>1, BeginIs DEF Kinds, Phases
  <2>3. r \in op.rules => Promised(r)
    BY <2>1, <1>now DEF CallFirst, AllAnswered
  <2>4. CallFirst(r)'
    BY <2>1, <2>2, <2>3, <1>same DEF CallFirst
  <2> QED BY <2>1, <2>4, <1>same, <1>late
<1>3. ASSUME AddRules PROVE NodesFirst(r)' /\ LatesFirst(r)' /\ CallFirst(r)'
  BY <1>3, <1>done, <1>same, <1>late DEF AddRules
<1>4. ASSUME NEW q \in Requests, NEW kind \in {"start", "stop", "unregister"}, TrafficOp(q, kind)
      PROVE  NodesFirst(r)' /\ LatesFirst(r)' /\ CallFirst(r)'
  <2> DEFINE rs == {s \in cache : Req[s] = q}
  <2>1. Begin(kind, "calls", rs) /\ UNCHANGED <<node, late, missed>>
    BY <1>4 DEF TrafficOp
  <2>2. op'.phase = "calls"
    <3>1. rs \in SUBSET Rules /\ kind \in Kinds /\ "calls" \in Phases
      BY DEF TypeInv, TypeOK, Kinds, Phases
    <3> QED BY <2>1, <3>1, BeginIs
  <2>3. CallFirst(r)'
    BY <2>2 DEF CallFirst
  <2> QED BY <2>1, <2>3, <1>same, <1>late
<1>5. ASSUME EndOp PROVE NodesFirst(r)' /\ LatesFirst(r)' /\ CallFirst(r)'
  BY <1>5, <1>done, <1>same, <1>late DEF EndOp
<1>6. ASSUME NEW h \in Hosts, Serve(h) PROVE NodesFirst(r)' /\ LatesFirst(r)' /\ CallFirst(r)'
  <2>1. Carries(h, op.kind, CallRules(h)) /\ op.call[h] = "sent"
    BY <1>6, ServeIs DEF Serve
  <2>2. /\ op.phase = "servers" => CallRules(h) = op.rules \cap DstAt(h)
        /\ op.phase # "servers" => CallRules(h) = op.rules \cap SrcAt(h)
    BY <2>1, SentIs
  <2>3. /\ op.kind # "register" => CallRules(h) \subseteq SrcAt(h)
        /\ op.kind = "register" /\ r \in CallRules(h) /\ SrcHost[r] = h => Promised(r)
    BY <2>2, <1>now DEF OpOK, CallFirst, SrcAt, DstAt
  <2>4. missed \subseteq missed' /\ UNCHANGED late
    BY <1>6 DEF Serve
  <2>5. /\ NodesFirst(r)' /\ Kept
        /\ op.kind = "register" /\ r \in CallRules(h) /\ DstHost[r] = h => Promised(r)'
    BY <2>1, <2>3, <2>4, <1>now, FirstCarried
  <2>6. op.phase = "servers" /\ r \in op.rules /\ DstHost[r] = h => Promised(r)'
    BY <2>2, <2>5, <1>now DEF OpOK, DstAt
  <2>7. CallFirst(r)'
    BY <1>6, <2>5, <2>6, <1>answered DEF Serve
  <2> QED BY <2>4, <2>5, <2>7, <1>late
<1>7. ASSUME NEW h \in Hosts, Fail(h) PROVE NodesFirst(r)' /\ LatesFirst(r)' /\ CallFirst(r)'
  <2>1. /\ op.call[h] = "sent" /\ Answered(h, "error") /\ missed' = missed \cup MissedBy(h)
        /\ UNCHANGED <<node, late>>
    BY <1>7 DEF Fail
  <2>2. NodesFirst(r)' /\ LatesFirst(r)' /\ Kept
    BY <2>1, <1>same, <1>late
  <2> QED BY <2>1, <2>2, <1>answered, <1>error
<1>8. ASSUME NEW h \in Hosts, TimeOut(h) PROVE NodesFirst(r)' /\ LatesFirst(r)' /\ CallFirst(r)'
  <2>1. /\ op.call[h] = "sent" /\ Answered(h, "error") /\ missed' = missed \cup MissedBy(h)
        /\ late' = late \cup Left({h}) /\ UNCHANGED node
    BY <1>8 DEF TimeOut
  <2>2. NodesFirst(r)' /\ Kept
    BY <2>1, <1>same
  <2>3. op.phase = "servers" /\ r \in op.rules /\ DstHost[r] = h => Promised(r)'
    BY <2>1, <1>error
  <2>4. LatesFirst(r)'
    <3>1. {h} \in SUBSET {g \in Hosts : op.call[g] = "sent"}
      BY <2>1
    <3> QED BY <2>1, <2>2, <2>3, <3>1, <1>left
  <2> QED BY <2>1, <2>2, <2>3, <2>4, <1>answered
<1>9. ASSUME NEW h \in Hosts, NodeDown(h) PROVE NodesFirst(r)' /\ LatesFirst(r)' /\ CallFirst(r)'
  <2>1. ASSUME NEW m, m = Dead(node[h], "down")
        PROVE  /\ m \in Node /\ m.tasks = {} /\ m.rules = node[h].rules /\ m.servers = {}
               /\ node' = [node EXCEPT ![h] = m]
               /\ missed' = missed \cup (node[h].rules \cap DstAt(h)) /\ UNCHANGED <<late, op>>
    BY <2>1, <1>9, <1>now, DeadIs DEF NodeDown
  <2>2. NodesFirst(r)' /\ Kept
    BY <2>1, <1>now, FirstGone
  <2> QED BY <2>1, <2>2, <1>late, <1>call
<1>10. ASSUME NEW h \in Hosts, NodeUp(h) PROVE NodesFirst(r)' /\ LatesFirst(r)' /\ CallFirst(r)'
  <2> DEFINE m == Resumed(node[h], h)
  <2>1. /\ m.rules = node[h].rules /\ m.servers \subseteq m.rules
        /\ m.tasks \subseteq m.rules
    <3>1. node[h] \in Node /\ node[h].on \subseteq node[h].rules
      BY <1>now DEF NodeOK
    <3>2. /\ m.rules = node[h].rules /\ m.servers = (node[h].on \cap Internal) \cap DstAt(h)
          /\ m.tasks = (node[h].on \cap Internal) \cap SrcAt(h)
      BY <3>1, ResumedIs
    <3> HIDE DEF m
    <3> QED BY <3>1, <3>2
  <2>2. node' = [node EXCEPT ![h] = m] /\ UNCHANGED <<missed, late, op>>
    BY <1>10 DEF NodeUp
  <2> HIDE DEF m
  <2>3. \A g \in Hosts : node'[g] = IF g = h THEN m ELSE node[g]
    BY <2>2, <1>now
  <2>4. NodesFirst(r)' /\ Kept
    <3>1. node[h].servers = {}
      BY <1>10, <1>now DEF NodeUp, NodeOK
    <3> QED BY <2>1, <2>2, <2>3, <3>1, <1>now DEF NodesFirst, Promised, Listening
  <2> QED BY <2>2, <2>4, <1>late, <1>call
<1>11. ASSUME NEW h \in Hosts, AddHost(h) PROVE NodesFirst(r)' /\ LatesFirst(r)' /\ CallFirst(r)'
  <2>1. ASSUME NEW d, d = Dead(node[h], "down"), NEW m, m = Resumed(d, h)
        PROVE  /\ d \in Node /\ d.rules = node[h].rules /\ d.tasks = {} /\ d.servers = {}
               /\ m \in Node /\ m.rules = node[h].rules
               /\ m.tasks \subseteq m.rules /\ m.servers \subseteq m.rules
               /\ node' = [node EXCEPT ![h] = m] \/ node' = [node EXCEPT ![h] = d]
    <3>1. NodeOK(node[h], h) /\ node[h] \in Node /\ node[h].on \subseteq node[h].rules
      BY <1>now DEF NodeOK
    <3>2. /\ d \in Node /\ d.rules = node[h].rules /\ d.tasks = {} /\ d.servers = {}
          /\ d.on = node[h].on
      BY <2>1, <3>1, DeadIs
    <3>3. /\ m \in Node /\ m.rules = d.rules /\ m.servers = (d.on \cap Internal) \cap DstAt(h)
          /\ m.tasks = (d.on \cap Internal) \cap SrcAt(h)
      BY <2>1, <3>2, ResumedIs
    <3>4. node' = [node EXCEPT ![h] = m] \/ node' = [node EXCEPT ![h] = d]
      BY <1>11, <2>1 DEF AddHost
    <3> QED BY <3>1, <3>2, <3>3, <3>4
  <2>2. missed' = missed \cup (node[h].rules \cap DstAt(h)) /\ UNCHANGED <<late, op>>
    BY <1>11 DEF AddHost
  <2>3. NodesFirst(r)' /\ Kept
    BY <2>1, <2>2, <1>now, FirstGone
  <2> QED BY <2>2, <2>3, <1>late, <1>call
<1>12. ASSUME NEW h \in Hosts, NEW remove_db \in BOOLEAN, CleanupHost(h, remove_db)
       PROVE  NodesFirst(r)' /\ LatesFirst(r)' /\ CallFirst(r)'
  <2>1. missed' = missed \cup (node[h].rules \cap DstAt(h)) /\ UNCHANGED <<late, op>>
    BY <1>12 DEF CleanupHost
  <2>2. ASSUME NEW d, d = Dead(node[h], "off")
        PROVE  /\ d \in Node /\ d.rules = node[h].rules /\ d.tasks = {} /\ d.servers = {}
               /\ \/ node' = node \/ node' = [node EXCEPT ![h] = d]
                  \/ node' = [node EXCEPT ![h] = Off]
    BY <2>2, <1>12, <1>now, DeadIs DEF CleanupHost
  <2>3. Off \in Node
    BY OffOK DEF NodeOK
  <2>4. NodesFirst(r)' /\ Kept
    BY <2>1, <2>2, <2>3, <1>now, OffOK, FirstGone
  <2> QED BY <2>1, <2>4, <1>late, <1>call
<1>13. ASSUME ServeLate PROVE NodesFirst(r)' /\ LatesFirst(r)' /\ CallFirst(r)'
  <2>1. PICK c \in late : /\ Carries(c.host, c.kind, c.rules) /\ late' = late \ {c}
                          /\ c.kind # "register" => c.rules \subseteq SrcAt(c.host)
    BY <1>13, ServeLateIs
  <2>2. UNCHANGED <<missed, op>>
    BY <1>13 DEF ServeLate
  <2>3. c.kind = "register" /\ r \in c.rules => Promised(r)
    BY <1>now DEF LatesFirst
  <2>4. NodesFirst(r)' /\ Kept
    BY <2>1, <2>2, <2>3, <1>now, FirstCarried
  <2> QED BY <2>1, <2>2, <2>4, <1>late, <1>call
<1>14. ASSUME PodiumRestart PROVE NodesFirst(r)' /\ LatesFirst(r)' /\ CallFirst(r)'
  <2>1. /\ op' = NoOp /\ UNCHANGED node
        /\ missed' = missed \cup (IF op.phase = "servers" THEN op.rules ELSE {})
        /\ \E hs \in SUBSET {h \in Hosts : op.call[h] = "sent"} : late' = late \cup Left(hs)
    BY <1>14 DEF PodiumRestart
  <2>2. NodesFirst(r)' /\ Kept
    BY <2>1, <1>same
  <2>3. op.phase = "servers" /\ r \in op.rules => Promised(r)'
    BY <2>1 DEF Promised
  <2>4. LatesFirst(r)'
    BY <2>1, <2>2, <2>3, <1>left
  <2> QED BY <2>1, <2>2, <2>4, <1>done
<1>15. CASE UNCHANGED vars
  BY <1>15, <1>same, <1>late, <1>call DEF vars
<1> QED
  BY <1>1, <1>2, <1>3, <1>4, <1>5, <1>6, <1>7, <1>8, <1>9, <1>10, <1>11, <1>12, <1>13, <1>14, <1>15
  DEF Next

(* A client pings only towards a server that was started before it, unless *)
(* the server's call failed or its node went down (podium.py               *)
(* register_traffic): where both ends are at one node, by the node's own   *)
(* order, and otherwise by the order of the podium's phases.               *)
THEOREM ServersFirstHolds == Spec => []ServersFirst
<1>1. TypeInv /\ ServerInv => ServersFirst
  <2> SUFFICES ASSUME TypeInv, ServerInv, NEW r \in Rules, Running(r), r \notin missed
               PROVE  Listening(r)
    BY DEF ServersFirst
  <2>1. SrcHost[r] \in Hosts /\ DstHost[r] \in Hosts
    OBVIOUS
  <2>2. r \in node[SrcHost[r]].tasks /\ NodeOK(node[SrcHost[r]], SrcHost[r])
    BY <2>1 DEF TypeInv, NodeOK, Running
  <2>3. CASE Apart(r)
    BY <2>2, <2>3 DEF ServerInv, NodesFirst, Promised
  <2>4. CASE SrcHost[r] = DstHost[r]
    BY <2>2, <2>4 DEF NodeOK, Listening, DstAt
  <2> QED BY <2>3, <2>4 DEF Apart
<1> QED BY <1>1, TypeInit, TypeStep, ServerInit, ServerStep, PTL DEF Spec
(***************************************************************************)
(* Stopping.                                                               *)
(***************************************************************************)
(* A rule that is being stopped, with nothing about it under way before.   *)
Stopping(r) == op.kind \in Stops /\ r \in op.rules \ op.racing
Told(r) == Stopping(r) /\ op.call[SrcHost[r]] = "ok"

(* Nothing runs, and a restart of the node will not bring it back.         *)
Quiet(r) ==
    LET n == node[SrcHost[r]]
    IN  r \notin n.clients /\ (r \in Internal => r \notin n.on)

(* A stopped rule is quiet, and no request that would start it is under    *)
(* way; the second holds from the moment the call that stops it begins.    *)
QuietOK(r) == r \in stopped \/ Told(r) => Quiet(r)
LateStarts(r) ==
    r \in stopped \/ Stopping(r) => \A c \in late : c.kind \in Starts => r \notin c.rules
StartsOK(r) == op.kind \in Starts => r \notin op.rules \cap stopped
StopInv == \A r \in Rules : QuietOK(r) /\ LateStarts(r) /\ StartsOK(r)

(* A request leaves a rule quiet unless it starts it; one that stops it    *)
(* makes it quiet.                                                         *)
LEMMA QuietCarried ==
    ASSUME TypeInv, NEW r \in Rules, NEW h, NEW kind, NEW rs, Carries(h, kind, rs)
    PROVE  /\ Quiet(r) /\ (kind \in Stops \/ r \notin rs) => Quiet(r)'
           /\ kind \in Stops /\ r \in rs /\ SrcHost[r] = h => Quiet(r)'
<1>1. /\ BecomesBy(node'[h], node[h], h, kind, rs)
      /\ \A g \in Hosts \ {h} : node'[g] = node[g]
  BY CarriesIs
<1>2. /\ kind \in Stops \/ r \notin rs =>
           /\ r \in node'[h].clients => r \in node[h].clients
           /\ r \in node'[h].on => r \in node[h].on
      /\ kind \in Stops /\ r \in rs =>
           r \notin node'[h].clients /\ (r \in Internal => r \notin node'[h].on)
  BY <1>1 DEF BecomesBy
<1>3. SrcHost[r] \in Hosts /\ (SrcHost[r] # h => node'[SrcHost[r]] = node[SrcHost[r]])
  BY <1>1
<1> QED BY <1>2, <1>3 DEF Quiet

(* A node whose process is gone, or comes up again, brings back no rule    *)
(* that was not on.                                                        *)
LEMMA QuietGone ==
    ASSUME TypeInv, NEW r \in Rules, Quiet(r), NEW h \in Hosts, NEW m,
           node' = node \/ node' = [node EXCEPT ![h] = m],
           m.clients \subseteq node[h].on \cap Internal, m.on \subseteq node[h].on
    PROVE  Quiet(r)'
<1>1. SrcHost[r] \in Hosts /\ DOMAIN node = Hosts
  BY DEF TypeInv, TypeOK
<1>2. node'[SrcHost[r]] = node[SrcHost[r]] \/ (SrcHost[r] = h /\ node'[SrcHost[r]] = m)
  BY <1>1
<1> QED BY <1>2 DEF Quiet

LEMMA StopInit == Init => StopInv
BY NoOpIs DEF Init, StopInv, QuietOK, LateStarts, StartsOK, Told, Stopping, Stops, Starts

LEMMA StopStep == TypeInv /\ StopInv /\ [Next]_vars => StopInv'
<1> SUFFICES ASSUME TypeInv, StopInv, [Next]_vars, NEW r \in Rules
             PROVE  QuietOK(r)' /\ LateStarts(r)' /\ StartsOK(r)'
  BY DEF StopInv
<1>now. /\ QuietOK(r) /\ LateStarts(r) /\ StartsOK(r)
        /\ SrcHost[r] \in Hosts /\ OpOK /\ node \in [Hosts -> Node] /\ stopped \subseteq used
        /\ \A h \in Hosts : NodeOK(node[h], h) /\ node[h] \in Node
  BY DEF StopInv, TypeInv, TypeOK, OpOK
<1>kinds. Stops \cap Starts = {} /\ "none" \notin Stops \cup Starts
  BY DEF Stops, Starts
<1>same. ASSUME UNCHANGED <<op, late, stopped>>, Quiet(r) => Quiet(r)'
         PROVE  QuietOK(r)' /\ LateStarts(r)' /\ StartsOK(r)'
  BY <1>same, <1>now DEF QuietOK, LateStarts, StartsOK, Told, Stopping
<1>quiet. ASSUME UNCHANGED node PROVE Quiet(r) <=> Quiet(r)'
  BY <1>quiet DEF Quiet
<1>calls. ASSUME op' = NoOp \/ op'.kind \in Starts, UNCHANGED <<node, late>>,
                 stopped' \subseteq stopped
          PROVE  QuietOK(r)' /\ LateStarts(r)'
  <2>1. ~Stopping(r)'
    BY <1>calls, <1>kinds, NoOpIs DEF Stopping
  <2> QED BY <2>1, <1>calls, <1>now, <1>quiet DEF QuietOK, LateStarts, Told
<1>done. ASSUME op' = NoOp PROVE StartsOK(r)'
  BY <1>done, NoOpIs DEF StartsOK
<1>left. ASSUME NEW hs \in SUBSET {h \in Hosts : op.call[h] = "sent"},
                late' = late \cup Left(hs), UNCHANGED stopped,
                Stopping(r)' => Stopping(r)
         PROVE  LateStarts(r)'
  <2>1. ASSUME NEW c \in Left(hs), c.kind \in Starts PROVE r \in c.rules => ~(r \in stopped \/ Stopping(r))
    <3>1. c.kind = op.kind /\ c.rules \subseteq op.rules
      BY LeftIs
    <3> QED BY <2>1, <3>1, <1>now, <1>kinds DEF StartsOK, Stopping
  <2> QED BY <1>left, <1>now, <2>1 DEF LateStarts
<1>error. ASSUME NEW h \in Hosts, Answered(h, "error"), UNCHANGED <<node, stopped>>
          PROVE  QuietOK(r)' /\ StartsOK(r)' /\ (Stopping(r)' <=> Stopping(r))
  <2>1. /\ op'.kind = op.kind /\ op'.rules = op.rules /\ op'.racing = op.racing
        /\ \A g \in Hosts \ {h} : op'.call[g] = op.call[g] 
        /\ op'.call[h] = "error"
    BY <1>error, AnsweredIs
  <2>2. /\ Stopping(r)' <=> Stopping(r)
        /\ Told(r)' => Told(r)
    BY <2>1, <1>now DEF Stopping, Told
  <2> QED BY <2>1, <2>2, <1>error, <1>now, <1>quiet DEF QuietOK, StartsOK
<1>1. ASSUME NEW q \in Requests, RegisterTraffic(q)
      PROVE  QuietOK(r)' /\ LateStarts(r)' /\ StartsOK(r)'
  <2> DEFINE rs == {s \in Rules \ used : Req[s] = q /\ {SrcHost[s], DstHost[s]} \subseteq known}
  <2>1. Begin("register", "servers", rs) /\ UNCHANGED <<node, late, stopped>>
    BY <1>1 DEF RegisterTraffic
  <2>2. op'.kind = "register" /\ op'.rules = rs
    BY <2>1, BeginIs DEF Kinds, Phases
  <2>3. StartsOK(r)'
    BY <2>1, <2>2, <1>now DEF StartsOK
  <2> QED BY <2>1, <2>2, <2>3, <1>calls DEF Starts
<1>2. ASSUME StartClients PROVE QuietOK(r)' /\ LateStarts(r)' /\ StartsOK(r)'
  <2>1. /\ Begin("register", "clients", op.rules) /\ op.phase = "servers"
        /\ UNCHANGED <<node, late, stopped>>
    BY <1>2 DEF StartClients
  <2>2. op'.kind = "register" /\ op'.rules = op.rules
    <3>1. op.rules \in SUBSET Rules
      BY DEF TypeInv, TypeOK
    <3> QED BY <2>1, <3>1, BeginIs DEF Kinds, Phases
  <2>3. op.kind = "register"
    BY <2>1, <1>now DEF OpOK
  <2>4. StartsOK(r)'
    BY <2>1, <2>2, <2>3, <1>now DEF StartsOK
  <2> QED BY <2>1, <2>2, <2>4, <1>calls DEF Starts
<1>3. ASSUME AddRules PROVE QuietOK(r)' /\ LateStarts(r)' /\ StartsOK(r)'
  BY <1>3, <1>calls, <1>done DEF AddRules
<1>4. ASSUME NEW q \in Requests, NEW kind \in {"start", "stop", "unregister"}, TrafficOp(q, kind)
      PROVE  QuietOK(r)' /\ LateStarts(r)' /\ StartsOK(r)'
  <2> DEFINE rs == {s \in cache : Req[s] = q}
  <2>1. /\ Begin(kind, "calls", rs) /\ UNCHANGED <<node, late>>
        /\ stopped' = IF kind = "start" THEN stopped \ rs ELSE stopped
    BY <1>4 DEF TrafficOp
  <2>2. /\ op'.kind = kind /\ op'.rules = rs
        /\ op'.racing = UNION {c.rules : c \in late}
        /\ \A h \in Hosts : op'.call[h] \in {"none", "sent"}
    <3>1. rs \in SUBSET Rules /\ kind \in Kinds /\ "calls" \in Phases
      BY DEF TypeInv, TypeOK, Kinds, Phases
    <3> QED BY <2>1, <3>1, BeginIs
  <2> HIDE DEF rs
  <2>3. CASE kind = "start"
    <3>1. StartsOK(r)'
      BY <2>1, <2>2, <2>3 DEF StartsOK
    <3> QED BY <2>1, <2>2, <2>3, <3>1, <1>calls DEF Starts
  <2>4. CASE kind # "start"
    <3>1. ~Told(r)' /\ op'.kind \notin Starts
      BY <2>2, <2>4, <1>now DEF Told, Starts
    <3>2. Stopping(r)' => \A c \in late : r \notin c.rules
      BY <2>2 DEF Stopping
    <3> QED BY <2>1, <2>4, <3>1, <3>2, <1>now, <1>quiet DEF QuietOK, LateStarts, StartsOK
  <2> QED BY <2>3, <2>4
<1>5. ASSUME EndOp PROVE QuietOK(r)' /\ LateStarts(r)' /\ StartsOK(r)'
  <2>1. /\ op' = NoOp /\ UNCHANGED <<node, late>> /\ op.phase = "calls"
        /\ stopped' = IF op.kind = "start" THEN stopped
                                          ELSE stopped \cup (Confirmed \ op.racing)
    BY <1>5 DEF EndOp
  <2>2. op.kind # "start" => op.kind \in Stops
    BY <2>1, <1>now DEF OpOK
  <2>3. r \in stopped' => r \in stopped \/ Told(r)
    BY <2>1, <2>2 DEF Confirmed, Told, Stopping
  <2>4. ~Stopping(r)' /\ (Told(r) => Stopping(r)) /\ (Told(r)' => Stopping(r)')
    BY <2>1, <1>kinds, NoOpIs DEF Stopping, Told
  <2> QED BY <2>1, <2>3, <2>4, <1>now, <1>done, <1>quiet DEF QuietOK, LateStarts
<1>6. ASSUME NEW h \in Hosts, Serve(h) PROVE QuietOK(r)' /\ LateStarts(r)' /\ StartsOK(r)'
  <2>1. /\ Carries(h, op.kind, CallRules(h)) /\ op.call[h] = "sent"
        /\ UNCHANGED <<late, stopped>>
        /\ \E result \in {"ok", "error"} : Answered(h, result)
    BY <1>6, ServeIs DEF Serve
  <2>2. /\ op'.kind = op.kind /\ op'.rules = op.rules /\ op'.racing = op.racing
        /\ \A g \in Hosts \ {h} : op'.call[g] = op.call[g]
    BY <2>1, AnsweredIs
  <2>3. /\ op.kind \in Kinds \ {"none"} /\ CallRules(h) \subseteq op.rules
        /\ op.phase # "servers" => CallRules(h) = op.rules \cap SrcAt(h)
    BY <2>1, SentIs
  <2>4. op.kind \in Starts \/ op.kind \in Stops
    BY <2>3 DEF Kinds, Starts, Stops
  <2>5. /\ Stopping(r)' <=> Stopping(r)
        /\ SrcHost[r] # h => (Told(r)' <=> Told(r))
        /\ Told(r)' => Stopping(r)
    BY <2>2, <1>now DEF Stopping, Told
  <2>6. Quiet(r) /\ (op.kind \in Stops \/ r \notin op.rules) => Quiet(r)'
    BY <2>1, <2>3, QuietCarried
  <2>7. Stopping(r) /\ SrcHost[r] = h => Quiet(r)'
    <3>1. Stopping(r) => op.kind \in Stops /\ op.phase # "servers" /\ r \in op.rules
      BY <1>now DEF Stopping, OpOK, Stops
    <3>2. Stopping(r) /\ SrcHost[r] = h => r \in CallRules(h)
      BY <2>3, <3>1 DEF SrcAt
    <3> QED BY <2>1, <3>1, <3>2, QuietCarried
  <2>8. QuietOK(r)'
    <3>1. ASSUME r \in stopped PROVE Quiet(r)'
      BY <3>1, <2>4, <2>6, <1>now DEF QuietOK, StartsOK
    <3>2. ASSUME Told(r)' PROVE Quiet(r)'
      <4>1. Stopping(r) /\ op.kind \in Stops
        BY <3>2, <2>5 DEF Stopping
      <4> QED BY <3>2, <4>1, <2>5, <2>6, <2>7, <1>now DEF QuietOK
    <3> QED BY <2>1, <3>1, <3>2 DEF QuietOK
  <2> QED BY <2>1, <2>2, <2>5, <2>8, <1>now DEF LateStarts, StartsOK
<1>7. ASSUME NEW h \in Hosts, Fail(h) PROVE QuietOK(r)' /\ LateStarts(r)' /\ StartsOK(r)'
  <2>1. Answered(h, "error") /\ UNCHANGED <<node, late, stopped>>
    BY <1>7 DEF Fail
  <2>2. QuietOK(r)' /\ StartsOK(r)' /\ (Stopping(r)' <=> Stopping(r))
    BY <2>1, <1>error
  <2> QED BY <2>1, <2>2, <1>now DEF LateStarts
<1>8. ASSUME NEW h \in Hosts, TimeOut(h) PROVE QuietOK(r)' /\ LateStarts(r)' /\ StartsOK(r)'
  <2>1. /\ Answered(h, "error") /\ UNCHANGED <<node, stopped>>
        /\ op.call[h] = "sent" /\ late' = late \cup Left({h})
    BY <1>8 DEF TimeOut
  <2>2. QuietOK(r)' /\ StartsOK(r)' /\ (Stopping(r)' <=> Stopping(r))
    BY <2>1, <1>error
  <2>3. {h} \in SUBSET {g \in Hosts : op.call[g] = "sent"}
    BY <2>1
  <2> QED BY <2>1, <2>2, <2>3, <1>left
<1>9. ASSUME NEW h \in Hosts, NodeDown(h) PROVE QuietOK(r)' /\ LateStarts(r)' /\ StartsOK(r)'
  <2>1. ASSUME NEW m, m = Dead(node[h], "down")
        PROVE  /\ m.clients = {} /\ m.on = node[h].on
               /\ node' = [node EXCEPT ![h] = m] /\ UNCHANGED <<late, op, stopped>>
    BY <2>1, <1>9, <1>now, DeadIs DEF NodeDown
  <2>2. Quiet(r) => Quiet(r)'
    BY <2>1, QuietGone
  <2> QED BY <2>1, <2>2, <1>same
<1>10. ASSUME NEW h \in Hosts, NodeUp(h) PROVE QuietOK(r)' /\ LateStarts(r)' /\ StartsOK(r)'
  <2>1. ASSUME NEW m, m = Resumed(node[h], h)
        PROVE  /\ m.clients \subseteq node[h].on \cap Internal /\ m.on = node[h].on
               /\ node' = [node EXCEPT ![h] = m] /\ UNCHANGED <<late, op, stopped>>
    BY <2>1, <1>10, <1>now, ResumedIs DEF NodeUp
  <2>2. Quiet(r) => Quiet(r)'
    BY <2>1, QuietGone
  <2> QED BY <2>1, <2>2, <1>same
<1>11. ASSUME NEW h \in Hosts, AddHost(h) PROVE QuietOK(r)' /\ LateStarts(r)' /\ StartsOK(r)'
  <2>1. ASSUME NEW d, d = Dead(node[h], "down"), NEW m, m = Resumed(d, h)
        PROVE  /\ d.clients = {} /\ d.on = node[h].on
               /\ m.clients \subseteq node[h].on \cap Internal /\ m.on = node[h].on
               /\ node' = [node EXCEPT ![h] = m] \/ node' = [node EXCEPT ![h] = d]
    <3>1. d \in Node /\ d.clients = {} /\ d.on = node[h].on
      BY <2>1, <1>now, DeadIs
    <3>2. m.clients = (d.on \cap Internal) \cap SrcAt(h) /\ m.on = d.on
      BY <2>1, <3>1, ResumedIs
    <3>3. node' = [node EXCEPT ![h] = m] \/ node' = [node EXCEPT ![h] = d]
      BY <1>11, <2>1 DEF AddHost
    <3> QED BY <3>1, <3>2, <3>3
  <2>2. Quiet(r) => Quiet(r)'
    BY <2>1, QuietGone
  <2> QED BY <1>11, <2>2, <1>same DEF AddHost
<1>12. ASSUME NEW h \in Hosts, NEW remove_db \in BOOLEAN, CleanupHost(h, remove_db)
       PROVE  QuietOK(r)' /\ LateStarts(r)' /\ StartsOK(r)'
  <2>1. ASSUME NEW d, d = Dead(node[h], "off")
        PROVE  /\ d.clients = {} /\ d.on = node[h].on
               /\ \/ node' = node \/ node' = [node EXCEPT ![h] = d]
                  \/ node' = [node EXCEPT ![h] = Off]
    BY <2>1, <1>12, <1>now, DeadIs DEF CleanupHost
  <2>2. Quiet(r) => Quiet(r)'
    BY <2>1, OffOK, QuietGone
  <2> QED BY <1>12, <2>2, <1>same DEF CleanupHost
<1>13. ASSUME ServeLate PROVE QuietOK(r)' /\ LateStarts(r)' /\ StartsOK(r)'
  <2>1. PICK c \in late : Carries(c.host, c.kind, c.rules) /\ late' = late \ {c}
    BY <1>13, ServeLateIs
  <2>2. UNCHANGED <<stopped, op>>
    BY <1>13 DEF ServeLate
  <2>3. c.kind \in Starts \/ c.kind \in Stops
    BY <2>1 DEF Carries, Kinds, Starts, Stops
  <2>4. Quiet(r) /\ (r \in stopped \/ Stopping(r)) => Quiet(r)'
    BY <2>1, <2>3, <1>now, QuietCarried DEF LateStarts
  <2>5. QuietOK(r)'
    BY <2>2, <2>4, <1>now DEF QuietOK, Told, Stopping
  <2> QED BY <2>1, <2>2, <2>5, <1>now DEF LateStarts, StartsOK, Stopping
<1>14. ASSUME PodiumRestart PROVE QuietOK(r)' /\ LateStarts(r)' /\ StartsOK(r)'
  <2>1. /\ op' = NoOp /\ UNCHANGED <<node, stopped>>
        /\ \E hs \in SUBSET {h \in Hosts : op.call[h] = "sent"} : late' = late \cup Left(hs)
    BY <1>14 DEF PodiumRestart
  <2>2. ~Stopping(r)' /\ (Told(r)' => Stopping(r)')
    BY <2>1, <1>kinds, NoOpIs DEF Stopping, Told
  <2>3. QuietOK(r)'
    BY <2>1, <2>2, <1>now, <1>quiet DEF QuietOK
  <2> QED BY <2>1, <2>2, <2>3, <1>left, <1>done
<1>15. CASE UNCHANGED vars
  BY <1>15, <1>same, <1>quiet DEF vars
<1> QED
  BY <1>1, <1>2, <1>3, <1>4, <1>5, <1>6, <1>7, <1>8, <1>9, <1>10, <1>11, <1>12, <1>13, <1>14, <1>15
  DEF Next

(* A rule that stop_traffic or unregister_traffic confirmed does not ping  *)
(* again until it is started, over restarts of its node and whatever was   *)
(* lost (podium.py _traffic_op).                                           *)
THEOREM StopHoldsAlways == Spec => []StopHolds
<1>1. TypeInv /\ StopInv => StopHolds
  BY DEF StopInv, QuietOK, Quiet, StopHolds, Running, TypeInv, TypeOK
<1> QED BY <1>1, TypeInit, TypeStep, StopInit, StopStep, PTL DEF Spec
(***************************************************************************)
(* Reach.                                                                  *)
(***************************************************************************)
(* The rules the podium has, or will have when the registration it is in   *)
(* ends, whatever its RPCs answer.                                         *)
Pending == IF op.kind = "register" THEN op.rules ELSE {}
Kept == cache \cup Pending

(* While no map was lost: every rule at a node, or under way to one, is    *)
(* the podium's, and the podium knows every host it has installed.         *)
RulesKept == \A h \in Hosts : node[h].rules \subseteq Kept
HostsKnown == \A h \in Hosts : node[h].st # "off" => h \in known
LatesKept == \A c \in late : c.kind = "register" => c.rules \subseteq Kept
ReachInv == ~astray => RulesKept /\ HostsKnown /\ LatesKept

LEMMA PendingIs ==
    ASSUME TypeInv
    PROVE  /\ op.phase \in {"servers", "clients"} => Pending = op.rules
           /\ op.phase \in {"idle", "calls"} => Pending = {}
BY DEF TypeInv, OpOK, Pending

(* A node that becomes m, with no rule that it did not have.               *)
LEMMA ReachSet ==
    ASSUME TypeInv, ~astray => RulesKept /\ HostsKnown, UNCHANGED <<cache, op>>,
           ~astray' => ~astray,
           NEW h \in Hosts, NEW m, node' = [node EXCEPT ![h] = m],
           m.rules \subseteq node[h].rules, m.st # "off" => h \in known',
           known \ {h} \subseteq known'
    PROVE  ~astray' => RulesKept' /\ HostsKnown'
<1>1. \A g \in Hosts : node'[g] = IF g = h THEN m ELSE node[g]
  BY DEF TypeInv, TypeOK
<1>2. Kept' = Kept
  BY DEF Kept, Pending
<1>3. ~astray' => RulesKept'
  BY <1>1, <1>2 DEF RulesKept
<1>4. ~astray' => HostsKnown'
  BY <1>1 DEF HostsKnown
<1> QED BY <1>3, <1>4

LEMMA ReachInit == Init => ReachInv
BY OffOK DEF Init, ReachInv, RulesKept, HostsKnown, LatesKept

LEMMA ReachStep == TypeInv /\ ReachInv /\ [Next]_vars => ReachInv'
<1> SUFFICES ASSUME TypeInv, ReachInv, [Next]_vars PROVE ReachInv'
  OBVIOUS
<1>now. /\ ~astray => RulesKept /\ HostsKnown /\ LatesKept
        /\ OpOK /\ node \in [Hosts -> Node] /\ known \subseteq Hosts
        /\ \A h \in Hosts : NodeOK(node[h], h) /\ node[h] \in Node
  BY DEF ReachInv, TypeInv, TypeOK, NodeOK
<1>same. ASSUME ~astray' => ~astray, UNCHANGED <<known, node, late>>, Kept \subseteq Kept'
         PROVE  ReachInv'
  BY <1>same, <1>now DEF ReachInv, RulesKept, HostsKnown, LatesKept
<1>late. ASSUME ~astray' => ~astray, UNCHANGED <<cache, op>>, late' \subseteq late
         PROVE  ~astray' => LatesKept'
  <2>1. Kept' = Kept
    BY <1>late DEF Kept, Pending
  <2> QED BY <1>late, <2>1, <1>now DEF LatesKept
<1>answered. ASSUME NEW h \in Hosts, NEW result \in {"ok", "error"}, Answered(h, result),
                    UNCHANGED cache
             PROVE  Kept' = Kept
  BY <1>answered, AnsweredIs DEF Kept, Pending
<1>carried. ASSUME NEW h, NEW kind, NEW rs, Carries(h, kind, rs), Kept' = Kept,
                   UNCHANGED <<known, astray>>,
                   kind = "register" /\ ~astray => rs \subseteq Kept
            PROVE  ~astray' => RulesKept' /\ HostsKnown'
  <2>1. /\ BecomesBy(node'[h], node[h], h, kind, rs)
        /\ \A g \in Hosts \ {h} : node'[g] = node[g]
    BY <1>carried, CarriesIs
  <2>2. h \in Hosts /\ node[h].st = "up"
    BY <1>carried DEF Carries
  <2>3. \/ kind = "register" /\ node'[h].rules = node[h].rules \cup rs
        \/ node'[h].rules \subseteq node[h].rules
    BY <2>1 DEF BecomesBy
  <2>4. ~astray' => RulesKept'
    BY <1>carried, <1>now, <2>1, <2>2, <2>3 DEF RulesKept
  <2>5. ~astray' => HostsKnown'
    BY <1>carried, <1>now, <2>1, <2>2 DEF HostsKnown
  <2> QED BY <2>4, <2>5
<1>1. ASSUME NEW q \in Requests, RegisterTraffic(q) PROVE ReachInv'
  <2> DEFINE rs == {r \in Rules \ used : Req[r] = q /\ {SrcHost[r], DstHost[r]} \subseteq known}
  <2>1. /\ Begin("register", "servers", rs) /\ Idle
        /\ UNCHANGED <<known, cache, node, late, astray>>
    BY <1>1 DEF RegisterTraffic
  <2>2. Kept \subseteq Kept'
    BY <2>1, PendingIs DEF Idle, Kept
  <2> QED BY <2>1, <2>2, <1>same
<1>2. ASSUME StartClients PROVE ReachInv'
  <2>1. /\ Begin("register", "clients", op.rules) /\ op.phase = "servers"
        /\ UNCHANGED <<known, cache, node, late, astray>>
    BY <1>2 DEF StartClients
  <2>2. op'.kind = "register" /\ op'.rules = op.rules
    <3>1. op.rules \in SUBSET Rules
      BY DEF TypeInv, TypeOK
    <3> QED BY <2>1, <3>1, BeginIs DEF Kinds, Phases
  <2>3. Kept \subseteq Kept'
    BY <2>1, <2>2, PendingIs DEF Pending, Kept
  <2> QED BY <2>1, <2>3, <1>same
<1>3. ASSUME AddRules PROVE ReachInv'
  <2>1. Kept \subseteq Kept'
    BY <1>3, PendingIs DEF AddRules, Kept
  <2> QED BY <1>3, <2>1, <1>same DEF AddRules
<1>4. ASSUME NEW q \in Requests, NEW kind \in {"start", "stop", "unregister"}, TrafficOp(q, kind)
      PROVE  ReachInv'
  <2>1. Idle /\ UNCHANGED <<known, cache, node, late, astray>>
    BY <1>4 DEF TrafficOp
  <2>2. Kept \subseteq Kept'
    BY <2>1, PendingIs DEF Idle, Kept
  <2> QED BY <2>1, <2>2, <1>same
<1>5. ASSUME EndOp PROVE ReachInv'
  <2>1. op.phase = "calls" /\ UNCHANGED <<known, cache, node, late, astray>>
    BY <1>5 DEF EndOp
  <2>2. Kept \subseteq Kept'
    BY <2>1, PendingIs DEF Kept
  <2> QED BY <2>1, <2>2, <1>same
<1>6. ASSUME NEW h \in Hosts, Serve(h) PROVE ReachInv'
  <2>1. /\ Carries(h, op.kind, CallRules(h)) /\ op.call[h] = "sent"
        /\ UNCHANGED <<known, cache, late, astray>>
    BY <1>6, ServeIs DEF Serve
  <2>2. Kept' = Kept
    BY <1>6, <1>answered DEF Serve
  <2>3. op.kind = "register" => CallRules(h) \subseteq Kept
    BY <2>1, SentIs DEF Kept, Pending
  <2>4. ~astray' => RulesKept' /\ HostsKnown'
    BY <2>1, <2>2, <2>3, <1>carried
  <2> QED BY <2>1, <2>2, <2>4, <1>now DEF ReachInv, LatesKept
<1>7. ASSUME NEW h \in Hosts, Fail(h) PROVE ReachInv'
  BY <1>7, <1>answered, <1>same DEF Fail
<1>8. ASSUME NEW h \in Hosts, TimeOut(h) PROVE ReachInv'
  <2>1. /\ op.call[h] = "sent" /\ late' = late \cup Left({h})
        /\ UNCHANGED <<known, cache, node, astray>>
    BY <1>8 DEF TimeOut
  <2>2. Kept' = Kept
    BY <1>8, <1>answered DEF TimeOut
  <2>3. ASSUME NEW c \in Left({h}), c.kind = "register" PROVE c.rules \subseteq Kept
    <3>1. {h} \in SUBSET {g \in Hosts : op.call[g] = "sent"}
      BY <2>1
    <3> QED BY <2>3, <3>1, LeftIs DEF Kept, Pending
  <2>4. ~astray' => LatesKept'
    BY <2>1, <2>2, <2>3, <1>now DEF LatesKept
  <2> QED BY <2>1, <2>2, <2>4, <1>now DEF ReachInv, RulesKept, HostsKnown
<1>9. ASSUME NEW h \in Hosts, NodeDown(h) PROVE ReachInv'
  <2>1. ASSUME NEW m, m = Dead(node[h], "down")
        PROVE  /\ m.rules = node[h].rules /\ node' = [node EXCEPT ![h] = m]
               /\ node[h].st = "up" /\ UNCHANGED <<known, cache, op, late, astray>>
    BY <2>1, <1>9, <1>now, DeadIs DEF NodeDown
  <2>2. ~astray => h \in known
    BY <2>1, <1>now DEF HostsKnown
  <2>3. ~astray' => RulesKept' /\ HostsKnown'
    BY <2>1, <2>2, <1>now, ReachSet
  <2> QED BY <2>1, <2>3, <1>late DEF ReachInv
<1>10. ASSUME NEW h \in Hosts, NodeUp(h) PROVE ReachInv'
  <2>1. ASSUME NEW m, m = Resumed(node[h], h)
        PROVE  /\ m.rules = node[h].rules /\ node' = [node EXCEPT ![h] = m]
               /\ node[h].st = "down" /\ UNCHANGED <<known, cache, op, late, astray>>
    BY <2>1, <1>10, <1>now, ResumedIs DEF NodeUp
  <2>2. ~astray => h \in known
    BY <2>1, <1>now DEF HostsKnown
  <2>3. ~astray' => RulesKept' /\ HostsKnown'
    BY <2>1, <2>2, <1>now, ReachSet
  <2> QED BY <2>1, <2>3, <1>late DEF ReachInv
<1>11. ASSUME NEW h \in Hosts, AddHost(h) PROVE ReachInv'
  <2>1. CASE astray'
    BY <2>1 DEF ReachInv
  <2>2. CASE ~astray'
    <3>1. ASSUME NEW d, d = Dead(node[h], "down"), NEW m, m = Resumed(d, h)
          PROVE  /\ m.rules = node[h].rules /\ node' = [node EXCEPT ![h] = m]
                 /\ known' = known \cup {h} /\ UNCHANGED <<cache, op, late, astray>>
      <4>1. d \in Node /\ d.rules = node[h].rules
        BY <3>1, <1>now, DeadIs
      <4>2. m.rules = d.rules
        BY <3>1, <4>1, ResumedIs
      <4> QED BY <3>1, <4>1, <4>2, <2>2, <1>11 DEF AddHost
    <3>2. RulesKept' /\ HostsKnown'
      BY <3>1, <2>2, <1>now, ReachSet
    <3> QED BY <3>1, <3>2, <1>late DEF ReachInv
  <2> QED BY <2>1, <2>2
<1>12. ASSUME NEW h \in Hosts, NEW remove_db \in BOOLEAN, CleanupHost(h, remove_db)
       PROVE  ReachInv'
  <2>1. CASE astray'
    BY <2>1 DEF ReachInv
  <2>2. CASE ~astray'
    <3>1. known' = known \ {h} /\ UNCHANGED <<cache, op, late, astray>>
      BY <1>12, <2>2 DEF CleanupHost
    <3>2. ASSUME NEW d, d = Dead(node[h], "off")
          PROVE  /\ d.rules = node[h].rules /\ d.st = "off"
                 /\ \/ node' = [node EXCEPT ![h] = d]
                    \/ node' = [node EXCEPT ![h] = Off]
      BY <3>2, <2>2, <1>12, <1>now, DeadIs DEF CleanupHost
    <3>3. RulesKept' /\ HostsKnown'
      BY <3>1, <3>2, <2>2, <1>now, OffOK, ReachSet
    <3> QED BY <3>1, <3>3, <1>late DEF ReachInv
  <2> QED BY <2>1, <2>2
<1>13. ASSUME ServeLate PROVE ReachInv'
  <2>1. PICK c \in late : Carries(c.host, c.kind, c.rules) /\ late' = late \ {c}
    BY <1>13, ServeLateIs
  <2>2. UNCHANGED <<known, cache, op, astray>>
    BY <1>13 DEF ServeLate
  <2>3. Kept' = Kept
    BY <2>2 DEF Kept, Pending
  <2>4. c.kind = "register" /\ ~astray => c.rules \subseteq Kept
    BY <1>now DEF LatesKept
  <2>5. ~astray' => RulesKept' /\ HostsKnown'
    BY <2>1, <2>2, <2>3, <2>4, <1>carried
  <2> QED BY <2>1, <2>2, <2>5, <1>late DEF ReachInv
<1>14. ASSUME PodiumRestart PROVE ReachInv'
  BY <1>14 DEF PodiumRestart, ReachInv
<1>15. CASE UNCHANGED vars
  BY <1>15, <1>same DEF vars, Kept, Pending
<1> QED
  BY <1>1, <1>2, <1>3, <1>4, <1>5, <1>6, <1>7, <1>8, <1>9, <1>10, <1>11, <1>12, <1>13, <1>14, <1>15
  DEF Next

(* Between the podium's calls, traffic that runs is within the reach of    *)
(* stop_traffic, whichever of the RPCs failed (podium.py register_traffic, *)
(* _traffic_op), as long as the podium has not lost its map.               *)
THEOREM StoppableHolds == Spec => []Stoppable
<1>1. TypeInv /\ ReachInv => Stoppable
  <2> SUFFICES ASSUME TypeInv, ReachInv, Idle, ~astray, NEW r \in Rules, Running(r)
               PROVE  r \in cache /\ SrcHost[r] \in known
    BY DEF Stoppable
  <2> DEFINE n == node[SrcHost[r]]
  <2>1. SrcHost[r] \in Hosts /\ r \in n.clients /\ r \in n.rules /\ n.st # "off"
    BY DEF TypeInv, NodeOK, Running
  <2>2. Kept = cache
    BY PendingIs DEF Idle, Kept
  <2> QED BY <2>1, <2>2 DEF ReachInv, RulesKept, HostsKnown
<1> QED BY <1>1, TypeInit, TypeStep, ReachInit, ReachStep, PTL DEF Spec
=============================================================================
