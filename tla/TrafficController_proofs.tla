---------------------- MODULE TrafficController_proofs ----------------------
(***************************************************************************)
(* Proofs about TrafficController, for any RPC threads, rules, batches and *)
(* tools.                                                                  *)
(***************************************************************************)
EXTENDS MCTrafficController, SequenceTheorems, TLAPS

USE ControllerAssumption

(***************************************************************************)
(* The jobs.                                                               *)
(***************************************************************************)
(* A registration: what is left of its batch is part of it, and no rule is *)
(* left twice.                                                             *)
WithRule == {"server", "putServer", "client", "putClient"}
Registers(j) ==
    /\ j.op = "register" /\ j.pc \in WithRule \cup {"rule", "save", "write"}
    /\ j.batch \in Batches /\ j.rule = RulesOf(j.batch)
    /\ \A i \in DOMAIN j.todo : \E k \in DOMAIN j.batch : j.todo[i] = j.batch[k]
    /\ \A i, k \in DOMAIN j.todo : j.todo[i].rule = j.todo[k].rule => i = k
    /\ j.pc \in WithRule => j.todo # <<>>
    /\ j.pc \in {"save", "write"} => j.todo = <<>>

(* Any other request is about one rule.                                    *)
Works(j) ==
    /\ \E r \in Rules : j.rule = {r}
    /\ \/ j.op = "start" /\ j.pc \in {"enable", "enableDB", "startClient"}
       \/ j.op \in {"stop", "unregister"} /\ j.pc \in {"stopClient", "disable", "disableDB"}
       \/ j.op = "unregister" /\ j.pc \in {"delete", "forget"}

JobOK(j) == j \in Job /\ (j = Idle \/ Registers(j) \/ Works(j))
JobsOK == \A w \in Workers : JobOK(job[w])
TypeInv == TypeOK /\ JobsOK

(* A step of one thread changes its own job. *)
LEMMA JobSet ==
    ASSUME TypeInv, NEW w \in Workers, NEW j, JobOK(j), job' = [job EXCEPT ![w] = j]
    PROVE  job' \in [Workers -> Job] /\ JobsOK'
BY DEF TypeInv, TypeOK, JobsOK, JobOK

LEMMA IdleOK == JobOK(Idle) /\ Idle \in Job
<1>1. <<>> \in Seq(Request)
  BY EmptySeq
<1> QED BY <1>1 DEF JobOK, Idle, Job, Pcs

(* Elements of batches. *)
LEMMA BatchElements ==
    ASSUME NEW b \in Batches
    PROVE  /\ b \in Seq(Request)
           /\ RulesOf(b) \subseteq Rules
           /\ \A i \in DOMAIN b : b[i] \in Request /\ b[i].rule \in RulesOf(b)
           /\ \A i \in DOMAIN b : RequestFor(b, b[i].rule) = b[i]
           /\ \A r \in RulesOf(b) : /\ RequestFor(b, r) \in Request
                                    /\ RequestFor(b, r).rule = r
<1>1. b \in Seq(Request) /\ \A i, k \in DOMAIN b : b[i].rule = b[k].rule => i = k
  OBVIOUS
<1>2. \A i \in DOMAIN b : b[i] \in Request
  BY <1>1, LenProperties, ElementOfSeq
<1>3. \A i \in DOMAIN b : b[i].rule \in RulesOf(b) /\ b[i].rule \in Rules
  BY <1>2 DEF RulesOf, Request
<1>4. ASSUME NEW i \in DOMAIN b PROVE RequestFor(b, b[i].rule) = b[i]
  <2> DEFINE P(k) == k \in DOMAIN b /\ b[k].rule = b[i].rule
  <2>1. \A k : P(k) <=> k = i
    BY <1>1
  <2>2. (CHOOSE k \in DOMAIN b : b[k].rule = b[i].rule) = i
    BY <2>1
  <2> QED BY <2>2 DEF RequestFor
<1>5. RulesOf(b) = {b[i].rule : i \in DOMAIN b}
  BY DEF RulesOf
<1> QED BY <1>1, <1>2, <1>3, <1>4, <1>5

LEMMA TodoElements ==
    ASSUME NEW j, JobOK(j), Registers(j), j.todo # <<>>
    PROVE  /\ Head(j.todo) \in Request /\ Head(j.todo).rule \in j.rule
           /\ Head(j.todo) = RequestFor(j.batch, Head(j.todo).rule)
           /\ Tail(j.todo) \in Seq(Request)
           /\ DOMAIN Tail(j.todo) \subseteq DOMAIN j.todo
           /\ \A i \in DOMAIN Tail(j.todo) :
                /\ i + 1 \in DOMAIN j.todo /\ i \in Nat
                /\ Tail(j.todo)[i] = j.todo[i + 1]
           /\ RulesOf(j.todo) = RulesOf(Tail(j.todo)) \cup {Head(j.todo).rule}
           /\ Head(j.todo).rule \notin RulesOf(Tail(j.todo))
<1> DEFINE s == j.todo
<1>1. s \in Seq(Request) /\ s # <<>>
  BY DEF JobOK, Job
<1>2. /\ Len(s) \in Nat \ {0} /\ DOMAIN s = 1 .. Len(s)
      /\ Tail(s) \in Seq(Request) /\ Len(Tail(s)) = Len(s) - 1
      /\ DOMAIN Tail(s) = 1 .. Len(s) - 1
      /\ Head(s) = s[1] /\ s[1] \in Request
      /\ \A i \in 1 .. Len(s) - 1 : Tail(s)[i] = s[i + 1]
  BY <1>1
<1>3. PICK k \in DOMAIN j.batch : s[1] = j.batch[k]
  BY <1>2 DEF Registers
<1>4. s[1].rule \in j.rule /\ s[1] = RequestFor(j.batch, s[1].rule)
  BY <1>3, BatchElements DEF Registers
<1>5. \A i \in DOMAIN Tail(s) : i + 1 \in DOMAIN s /\ i \in Nat /\ i + 1 # 1
  BY <1>2
<1>6. RulesOf(s) = RulesOf(Tail(s)) \cup {s[1].rule}
  <2>1. ASSUME NEW i \in DOMAIN s PROVE s[i].rule \in RulesOf(Tail(s)) \cup {s[1].rule}
    <3>1. CASE i = 1
      BY <3>1
    <3>2. CASE i # 1
      <4>1. i - 1 \in DOMAIN Tail(s) /\ Tail(s)[i - 1] = s[i]
        BY <1>2, <3>2
      <4> QED BY <4>1 DEF RulesOf
    <3> QED BY <3>1, <3>2
  <2>2. ASSUME NEW i \in DOMAIN Tail(s) PROVE Tail(s)[i].rule \in RulesOf(s)
    BY <1>2, <1>5 DEF RulesOf
  <2>3. s[1].rule \in RulesOf(s)
    BY <1>2 DEF RulesOf
  <2>4. RulesOf(Tail(s)) \subseteq RulesOf(s)
    BY <2>2 DEF RulesOf
  <2>5. RulesOf(s) \subseteq RulesOf(Tail(s)) \cup {s[1].rule}
    BY <2>1 DEF RulesOf
  <2> QED BY <2>3, <2>4, <2>5
<1>7. s[1].rule \notin RulesOf(Tail(s))
  <2>1. \A i, m \in DOMAIN s : s[i].rule = s[m].rule => i = m
    BY DEF Registers
  <2>2. ASSUME NEW i \in DOMAIN Tail(s) PROVE Tail(s)[i].rule # s[1].rule
    <3>1. i + 1 \in DOMAIN s /\ 1 \in DOMAIN s /\ i + 1 # 1 /\ Tail(s)[i] = s[i + 1]
      BY <1>2, <1>5
    <3> QED BY <2>1, <3>1
  <2> QED BY <2>2 DEF RulesOf
<1> QED BY <1>2, <1>4, <1>5, <1>6, <1>7

(* The ways a registration goes on. *)
LEMMA RegisterBegins ==
    ASSUME NEW b \in Batches
    PROVE  JobOK([Idle EXCEPT !.pc = "rule", !.op = "register", !.rule = RulesOf(b),
                              !.todo = b, !.batch = b])
<1> DEFINE j == [Idle EXCEPT !.pc = "rule", !.op = "register", !.rule = RulesOf(b),
                             !.todo = b, !.batch = b]
<1>1. /\ j.pc = "rule" /\ j.op = "register" /\ j.rule = RulesOf(b) /\ j.todo = b
      /\ j.batch = b
  BY DEF Idle
<1>2. j \in Job
  BY BatchElements DEF Idle, Job, Pcs
<1>3. Registers(j)
  BY <1>1 DEF Registers, WithRule
<1> QED BY <1>2, <1>3 DEF JobOK

LEMMA RegisterNext ==
    ASSUME NEW j, JobOK(j), Registers(j), j.todo # <<>>,
           NEW made \in {"none", j.made}
    PROVE  JobOK([j EXCEPT !.pc = "rule", !.todo = Tail(@), !.made = made])
<1> DEFINE n == [j EXCEPT !.pc = "rule", !.todo = Tail(@), !.made = made]
<1>1. n.pc = "rule" /\ n.op = j.op /\ n.rule = j.rule /\ n.todo = Tail(j.todo) /\ n.batch = j.batch
  BY DEF JobOK, Job
<1>2. n \in Job
  BY TodoElements DEF JobOK, Job, Pcs
<1>3. Registers(n)
  <2>1. \A i \in DOMAIN n.todo : \E k \in DOMAIN n.batch : n.todo[i] = n.batch[k]
    BY <1>1, TodoElements DEF Registers
  <2>2. \A i, k \in DOMAIN n.todo : n.todo[i].rule = n.todo[k].rule => i = k
    <3> SUFFICES ASSUME NEW i \in DOMAIN n.todo, NEW k \in DOMAIN n.todo,
                        n.todo[i].rule = n.todo[k].rule
                 PROVE  i = k
      OBVIOUS
    <3>1. i + 1 = k + 1 /\ i \in Nat /\ k \in Nat
      BY <1>1, TodoElements DEF Registers
    <3> QED BY <3>1
  <2> QED BY <1>1, <2>1, <2>2 DEF Registers, WithRule
<1> QED BY <1>2, <1>3 DEF JobOK

LEMMA RegisterReads ==
    ASSUME NEW j, JobOK(j), j.pc = "save", NEW seen \in SUBSET Rules
    PROVE  JobOK([j EXCEPT !.pc = "write", !.seen = seen])
<1> DEFINE n == [j EXCEPT !.pc = "write", !.seen = seen]
<1>1. j \in Job /\ Registers(j) /\ j.todo = <<>>
  BY DEF JobOK, Idle, Registers, Works
<1>2. n \in Job /\ n.pc = "write" /\ n.op = j.op /\ n.rule = j.rule /\ n.todo = j.todo
      /\ n.batch = j.batch
  BY <1>1 DEF Job, Pcs
<1> HIDE DEF n
<1>3. Registers(n)
  BY <1>1, <1>2 DEF Registers, WithRule
<1> QED BY <1>2, <1>3 DEF JobOK, n

LEMMA RegisterGoto ==
    ASSUME NEW j, JobOK(j), Registers(j), NEW pc \in WithRule \cup {"save"},
           pc \in WithRule => j.todo # <<>>, pc = "save" => j.todo = <<>>,
           NEW made \in {"none", "stopped", "running"}
    PROVE  JobOK([j EXCEPT !.pc = pc, !.made = made])
BY DEF JobOK, Job, Pcs, Registers, WithRule

(* The one rule of any other request. *)
LEMMA JobRuleIs ==
    ASSUME NEW w \in Workers, JobOK(job[w]), Works(job[w])
    PROVE  JobRule(w) \in Rules /\ job[w].rule = {JobRule(w)}
BY DEF Works, JobRule

LEMMA WorkBegins ==
    ASSUME NEW r \in Rules,
           NEW op, NEW pc,
           \/ op = "start" /\ pc = "enable"
           \/ op \in {"stop", "unregister"} /\ pc \in {"stopClient", "disable"}
           \/ op = "unregister" /\ pc = "forget"
    PROVE  JobOK([Idle EXCEPT !.pc = pc, !.op = op, !.rule = {r}])
<1> DEFINE j == [Idle EXCEPT !.pc = pc, !.op = op, !.rule = {r}]
<1>1. j.pc = pc /\ j.op = op /\ j.rule = {r}
  BY DEF Idle
<1>2. j \in Job
  BY IdleOK DEF Idle, Job, Pcs
<1> QED BY <1>1, <1>2 DEF JobOK, Works

(* The steps of such a request, by its operation. *)
After(op) ==
    CASE op = "start" -> {"enable", "enableDB", "startClient"}
      [] op = "stop" -> {"stopClient", "disable", "disableDB"}
      [] op = "unregister" -> {"stopClient", "disable", "disableDB", "delete", "forget"}
      [] OTHER -> {}

LEMMA WorkGoto ==
    ASSUME NEW j, JobOK(j), Works(j), NEW pc \in After(j.op)
    PROVE  JobOK([j EXCEPT !.pc = pc])
BY DEF JobOK, Job, Pcs, Works, After

(* What kind of job is at a step. *)
LEMMA JobAt ==
    ASSUME NEW j, JobOK(j)
    PROVE  /\ j.pc = "idle" => j = Idle
           /\ j.pc \in WithRule \cup {"rule", "save", "write"} <=> Registers(j)
           /\ j.pc \in WithRule \cup {"rule", "save", "write"} <=> j.op = "register"
           /\ j.pc \in {"enable", "enableDB", "startClient", "stopClient", "disable",
                        "disableDB", "delete", "forget"} <=> Works(j)
           /\ j.pc # "cache"
BY DEF JobOK, Registers, Works, WithRule, Idle

LEMMA RowRule == \A x \in Rule : Row(x) \in Rule /\ (Row(x) = Absent <=> x = Absent)
BY DEF Row, Rule, Absent, States, Tools

LEMMA EntryRule == \A q \in Request : Entry(q) \in Rule /\ Entry(q) # Absent
BY DEF Request, Entry, Rule, Absent, States, Tools

(* Disabling or enabling keeps the type of a rule that is there. *)
LEMMA StateRule ==
    ASSUME NEW x \in Rule, x # Absent, NEW s \in {"ACTIVE", "INACTIVE"}
    PROVE  [x EXCEPT !.state = s] \in Rule
BY DEF Rule, Absent, States, Tools

(* Every step of a thread changes its job to one that it may have. *)
LEMMA StepJob ==
    ASSUME TypeInv, NEW w \in Workers,
           \/ Register(w) \/ SkipForeign(w) \/ RegisterExternal(w) \/ RegisterInternal(w)
           \/ AddServer(w) \/ PutServer(w) \/ AddClient(w) \/ PutClient(w)
           \/ CacheRules(w) \/ ReadIds(w) \/ SaveRules(w) \/ Locked(w)
           \/ StartRule(w) \/ EnableCached(w) \/ EnableSaved(w) \/ StartClient(w)
           \/ StopRule(w) \/ Unregister(w) \/ StopClient(w)
           \/ DisableCached(w) \/ DisableSaved(w) \/ ForgetCached(w) \/ DeleteSaved(w)
    PROVE  \E j : JobOK(j) /\ job' = [job EXCEPT ![w] = j]
<1> DEFINE Moves == \E j : JobOK(j) /\ job' = [job EXCEPT ![w] = j]
<1>job. JobOK(job[w]) /\ job \in [Workers -> Job] /\ job[w] \in Job
  BY DEF TypeInv, TypeOK, JobsOK
<1>next. ASSUME Registers(job[w]), job[w].todo # <<>>, NextRule(w) PROVE Moves
  <2>1. job' = [job EXCEPT ![w] = [job[w] EXCEPT !.pc = "rule", !.todo = Tail(@), !.made = job[w].made]]
    BY <1>next, <1>job DEF NextRule, Job
  <2> QED BY <2>1, <1>next, <1>job, RegisterNext
<1>goto. ASSUME Registers(job[w]), NEW pc \in WithRule \cup {"save"}, Goto(w, pc),
                pc \in WithRule => job[w].todo # <<>>, pc = "save" => job[w].todo = <<>>
         PROVE Moves
  <2>1. job' = [job EXCEPT ![w] = [job[w] EXCEPT !.pc = pc, !.made = job[w].made]]
    BY <1>goto, <1>job DEF Goto, Job
  <2>2. job[w].made \in {"none", "stopped", "running"}
    BY <1>job DEF Job
  <2> QED BY <2>1, <2>2, <1>goto, <1>job, RegisterGoto
<1>work. ASSUME Works(job[w]), NEW pc \in After(job[w].op), Goto(w, pc) PROVE Moves
  <2>1. job' = [job EXCEPT ![w] = [job[w] EXCEPT !.pc = pc]]
    BY <1>work, <1>job DEF Goto, Job
  <2> QED BY <2>1, <1>work, <1>job, WorkGoto
<1>return. ASSUME Return(w) PROVE Moves
  BY <1>return, IdleOK DEF Return
<1>after. ASSUME Works(job[w]), job[w].op # "start", AfterStop(w) PROVE Moves
  <2>1. CASE job[w].op = "unregister"
    BY <2>1, <1>after, <1>work DEF AfterStop, After
  <2>2. CASE job[w].op # "unregister"
    BY <2>2, <1>after, <1>return DEF AfterStop
  <2> QED BY <2>1, <2>2
<1>1. ASSUME Register(w) PROVE Moves
  BY <1>1, RegisterBegins DEF Register
<1>2. ASSUME SkipForeign(w) PROVE Moves
  BY <1>2, <1>next, <1>job, JobAt DEF SkipForeign
<1>3. ASSUME RegisterExternal(w) PROVE Moves
  BY <1>3, <1>next, <1>job, JobAt DEF RegisterExternal
<1>4. ASSUME RegisterInternal(w) PROVE Moves
  BY <1>4, <1>goto, <1>job, JobAt DEF RegisterInternal, WithRule
<1>5. ASSUME AddServer(w) PROVE Moves
  <2>1. Registers(job[w]) /\ job[w].todo # <<>>
    BY <1>5, <1>job, JobAt DEF AddServer, Registers, WithRule
  <2>2. Return(w) \/ Goto(w, "client") \/ Goto(w, "putServer")
    BY <1>5 DEF AddServer
  <2> QED BY <2>1, <2>2, <1>goto, <1>return DEF WithRule
<1>6. ASSUME PutServer(w) PROVE Moves
  <2>1. Registers(job[w]) /\ job[w].todo # <<>>
    BY <1>6, <1>job, JobAt DEF PutServer, Registers, WithRule
  <2> QED BY <2>1, <1>6, <1>goto DEF WithRule, PutServer
<1>7. ASSUME AddClient(w) PROVE Moves
  <2>1. Registers(job[w]) /\ job[w].todo # <<>>
    BY <1>7, <1>job, JobAt DEF AddClient, Registers, WithRule
  <2>2. ASSUME NEW made \in {"stopped", "running"},
               job' = [job EXCEPT ![w].pc = "putClient", ![w].made = made]
        PROVE  Moves
    <3>1. job' = [job EXCEPT ![w] = [job[w] EXCEPT !.pc = "putClient", !.made = made]]
      BY <2>2, <1>job DEF Job
    <3> QED BY <3>1, <2>1, <1>job, RegisterGoto DEF WithRule
  <2>3. \/ NextRule(w) \/ Return(w)
        \/ \E made \in {"stopped", "running"} :
             job' = [job EXCEPT ![w].pc = "putClient", ![w].made = made]
    BY <1>7 DEF AddClient
  <2> QED BY <2>1, <2>2, <2>3, <1>next, <1>return
<1>8. ASSUME PutClient(w) PROVE Moves
  <2>1. Registers(job[w]) /\ job[w].todo # <<>>
    BY <1>8, <1>job, JobAt DEF PutClient, Registers, WithRule
  <2>2. job' = [job EXCEPT ![w] = [job[w] EXCEPT !.pc = "rule", !.todo = Tail(@), !.made = "none"]]
    BY <1>8, <1>job DEF PutClient, Job
  <2> QED BY <2>1, <2>2, <1>job, RegisterNext
<1>9. ASSUME CacheRules(w) PROVE Moves
  BY <1>9, <1>goto, <1>job, JobAt DEF CacheRules, WithRule
<1>10. ASSUME SaveRules(w) PROVE Moves
  BY <1>10, <1>return DEF SaveRules
<1>22. ASSUME ReadIds(w) PROVE Moves
  <2>1. job' = [job EXCEPT ![w] = [job[w] EXCEPT !.pc = "write",
                                                 !.seen = {r \in job[w].rule : db[r] # Absent}]]
    BY <1>22, <1>job DEF ReadIds, Job
  <2>2. {r \in job[w].rule : db[r] # Absent} \in SUBSET Rules /\ job[w].pc = "save"
    BY <1>22, <1>job DEF ReadIds, Job
  <2> QED BY <2>1, <2>2, <1>job, RegisterReads
<1>23. ASSUME Locked(w) PROVE Moves
  <2>1. CASE job[w].pc = "disableDB"
    <3>1. Works(job[w]) /\ job[w].op # "start"
      BY <2>1, <1>job, JobAt DEF Works
    <3> QED BY <1>23, <2>1, <3>1, <1>after DEF Locked
  <2>2. CASE job[w].pc # "disableDB"
    BY <1>23, <2>2, <1>return DEF Locked
  <2> QED BY <2>1, <2>2
<1>begin. ASSUME NEW r \in Rules, NEW op, NEW pc, Begin(w, op, {r}, pc),
                 \/ op = "start" /\ pc = "enable"
                 \/ op \in {"stop", "unregister"} /\ pc \in {"stopClient", "disable"}
                 \/ op = "unregister" /\ pc = "forget"
          PROVE  Moves
  BY <1>begin, WorkBegins DEF Begin
<1>11. ASSUME StartRule(w) PROVE Moves
  BY <1>11, <1>begin DEF StartRule
<1>12. ASSUME EnableCached(w) PROVE Moves
  <2>1. Works(job[w]) /\ job[w].op = "start"
    BY <1>12, <1>job, JobAt DEF EnableCached, Works
  <2>2. Goto(w, "startClient") \/ Goto(w, "enableDB")
    BY <1>12 DEF EnableCached
  <2> QED BY <2>1, <2>2, <1>work DEF After
<1>13. ASSUME EnableSaved(w) PROVE Moves
  <2>1. Works(job[w]) /\ job[w].op = "start"
    BY <1>13, <1>job, JobAt DEF EnableSaved, Works
  <2> QED BY <2>1, <1>13, <1>work DEF After, EnableSaved
<1>14. ASSUME StartClient(w) PROVE Moves
  BY <1>14, <1>return DEF StartClient
<1>15. ASSUME StopRule(w) PROVE Moves
  BY <1>15, <1>begin DEF StopRule, StopOp
<1>16. ASSUME Unregister(w) PROVE Moves
  BY <1>16, <1>begin DEF Unregister, StopOp
<1>17. ASSUME StopClient(w) PROVE Moves
  <2>1. Works(job[w]) /\ job[w].op \in {"stop", "unregister"}
    BY <1>17, <1>job, JobAt DEF StopClient, Works
  <2> QED BY <2>1, <1>17, <1>work DEF After, StopClient
<1>18. ASSUME DisableCached(w) PROVE Moves
  <2>1. Works(job[w]) /\ job[w].op \in {"stop", "unregister"}
    BY <1>18, <1>job, JobAt DEF DisableCached, Works
  <2>2. AfterStop(w) \/ Goto(w, "disableDB")
    BY <1>18 DEF DisableCached
  <2> QED BY <2>1, <2>2, <1>after, <1>work DEF After
<1>19. ASSUME DisableSaved(w) PROVE Moves
  <2>1. Works(job[w]) /\ job[w].op \in {"stop", "unregister"}
    BY <1>19, <1>job, JobAt DEF DisableSaved, Works
  <2> QED BY <2>1, <1>19, <1>after DEF DisableSaved
<1>20. ASSUME ForgetCached(w) PROVE Moves
  <2>1. Works(job[w]) /\ job[w].op = "unregister"
    BY <1>20, <1>job, JobAt DEF ForgetCached, Works
  <2> QED BY <2>1, <1>20, <1>work DEF ForgetCached, After
<1>21. ASSUME DeleteSaved(w) PROVE Moves
  BY <1>21, <1>return DEF DeleteSaved
<1> QED
  BY <1>1, <1>2, <1>3, <1>4, <1>5, <1>6, <1>7, <1>8, <1>9, <1>10, <1>11, <1>12, <1>13,
     <1>14, <1>15, <1>16, <1>17, <1>18, <1>19, <1>20, <1>21, <1>22, <1>23

(***************************************************************************)
(* Types.                                                                  *)
(***************************************************************************)
ThreadStep(w) ==
    \/ Register(w) \/ SkipForeign(w) \/ RegisterExternal(w) \/ RegisterInternal(w)
    \/ AddServer(w) \/ PutServer(w) \/ AddClient(w) \/ PutClient(w)
    \/ CacheRules(w) \/ ReadIds(w) \/ SaveRules(w) \/ Locked(w)
    \/ StartRule(w) \/ EnableCached(w) \/ EnableSaved(w) \/ StartClient(w)
    \/ StopRule(w) \/ Unregister(w) \/ StopClient(w)
    \/ DisableCached(w) \/ DisableSaved(w) \/ ForgetCached(w) \/ DeleteSaved(w)

LEMMA TypeStep == TypeInv /\ [Next]_vars => TypeInv'
<1> SUFFICES ASSUME TypeInv, [Next]_vars PROVE TypeInv'
  OBVIOUS
<1> USE DEF TypeInv, TypeOK
<1>1. ASSUME NEW w \in Workers, ThreadStep(w) PROVE TypeInv'
  <2>1. job' \in [Workers -> Job] /\ JobsOK'
    BY <1>1, StepJob, JobSet DEF ThreadStep
  <2>job. JobOK(job[w]) /\ job[w] \in Job
    BY DEF JobsOK
  <2>todo. job[w].pc \in WithRule => Current(w) \in Request
    BY <2>job, JobAt, TodoElements DEF Current, Registers
  <2>rule. Works(job[w]) => JobRule(w) \in Rules
    BY <2>job, JobRuleIs
  <2>batch. job[w].pc \in {"rule", "write"} => job[w].batch \in Batches /\ job[w].rule = RulesOf(job[w].batch)
    BY <2>job, JobAt DEF Registers
  <2> DEFINE Fits == /\ up' \in BOOLEAN
                     /\ cache' \in [Rules -> Rule] /\ db' \in [Rules -> Rule]
                     /\ servers' \subseteq Keys /\ ports' \subseteq Keys
                     /\ clients' \in [Rules -> {"none", "stopped", "running"}]
                     /\ orphans' \subseteq Rules /\ mock' \subseteq Rules
                     /\ failed' \in [Rules -> Writes]
  <2>2. ASSUME \/ Register(w) \/ SkipForeign(w) \/ RegisterInternal(w) \/ AddClient(w) PROVE Fits
    BY <2>2 DEF Register, SkipForeign, RegisterInternal, AddClient, tasks
  <2>21. ASSUME ReadIds(w) PROVE Fits
    BY <2>21 DEF ReadIds, tasks
  <2>22. ASSUME Locked(w) PROVE Fits
    BY <2>22 DEF Locked, Writes, tasks
  <2>3. ASSUME RegisterExternal(w) PROVE Fits
    BY <2>3 DEF RegisterExternal
  <2>4. ASSUME AddServer(w) PROVE Fits
    <3>1. ServerKey[Current(w).rule] \in Keys
      BY <2>4, <2>todo DEF AddServer, WithRule, Keys, Request
    <3> QED BY <2>4, <3>1 DEF AddServer
  <2>5. ASSUME PutServer(w) PROVE Fits
    <3>1. ServerKey[Current(w).rule] \in Keys
      BY <2>5, <2>todo DEF PutServer, WithRule, Keys, Request
    <3> QED BY <2>5, <3>1 DEF PutServer
  <2>6. ASSUME PutClient(w) PROVE Fits
    <3>1. Current(w).rule \in Rules /\ job[w].made \in {"none", "stopped", "running"}
      BY <2>6, <2>todo, <2>job DEF PutClient, WithRule, Request, Job
    <3> QED BY <2>6, <3>1 DEF PutClient
  <2>7. ASSUME CacheRules(w) PROVE Fits
    <3>1. \A r \in RulesOf(job[w].batch) : Entry(RequestFor(job[w].batch, r)) \in Rule
      BY <2>7, <2>batch, BatchElements, EntryRule DEF CacheRules
    <3> QED BY <2>7, <3>1 DEF CacheRules, tasks
  <2>8. ASSUME SaveRules(w) PROVE Fits
    <3>1. \A r \in job[w].rule : Row(Entry(RequestFor(job[w].batch, r))) \in Rule
      BY <2>8, <2>batch, BatchElements, EntryRule, RowRule DEF SaveRules
    <3>2. BeforeClash(w) \subseteq job[w].rule
      BY <2>8, <2>batch DEF SaveRules, BeforeClash, RulesOf
    <3>3. PICK saved \in {job[w].rule, {}, BeforeClash(w)} :
            /\ db' = [r \in Rules |->
                       IF r \in saved /\ ~(r \in job[w].seen /\ db[r] = Absent)
                       THEN Row(Entry(RequestFor(job[w].batch, r))) ELSE db[r]]
            /\ failed' = [r \in Rules |-> IF r \in saved THEN "none"
                                           ELSE IF r \in job[w].rule THEN "save" ELSE failed[r]]
      BY <2>8 DEF SaveRules
    <3>4. db' \in [Rules -> Rule] /\ failed' \in [Rules -> Writes]
      BY <3>1, <3>2, <3>3 DEF Writes
    <3> QED BY <2>8, <3>4 DEF SaveRules, tasks
  <2>9. ASSUME StartRule(w) PROVE Fits
    BY <2>9 DEF StartRule
  <2>10. ASSUME EnableCached(w) PROVE Fits
    <3>1. JobRule(w) \in Rules
      BY <2>10, <2>job, <2>rule, JobAt DEF EnableCached
    <3>2. cache[JobRule(w)] # Absent => [cache[JobRule(w)] EXCEPT !.state = "ACTIVE"] \in Rule
      BY <3>1, StateRule
    <3> QED BY <2>10, <3>1, <3>2 DEF EnableCached, tasks
  <2>11. ASSUME EnableSaved(w) PROVE Fits
    <3>1. JobRule(w) \in Rules
      BY <2>11, <2>job, <2>rule, JobAt DEF EnableSaved
    <3>2. db[JobRule(w)] # Absent => [db[JobRule(w)] EXCEPT !.state = "ACTIVE"] \in Rule
      BY <3>1, StateRule
    <3> QED BY <2>11, <3>1, <3>2 DEF EnableSaved, Written, Writes, tasks
  <2>12. ASSUME StartClient(w) PROVE Fits
    BY <2>12 DEF StartClient
  <2>13. ASSUME StopRule(w) PROVE Fits
    BY <2>13 DEF StopRule, StopOp
  <2>14. ASSUME Unregister(w) PROVE Fits
    BY <2>14 DEF Unregister, StopOp
  <2>15. ASSUME StopClient(w) PROVE Fits
    BY <2>15 DEF StopClient
  <2>16. ASSUME DisableCached(w) PROVE Fits
    <3>1. JobRule(w) \in Rules
      BY <2>16, <2>job, <2>rule, JobAt DEF DisableCached
    <3>2. cache[JobRule(w)] # Absent => [cache[JobRule(w)] EXCEPT !.state = "INACTIVE"] \in Rule
      BY <3>1, StateRule
    <3> QED BY <2>16, <3>1, <3>2 DEF DisableCached, tasks
  <2>17. ASSUME DisableSaved(w) PROVE Fits
    <3>1. JobRule(w) \in Rules
      BY <2>17, <2>job, <2>rule, JobAt DEF DisableSaved
    <3>2. db[JobRule(w)] # Absent => [db[JobRule(w)] EXCEPT !.state = "INACTIVE"] \in Rule
      BY <3>1, StateRule
    <3> QED BY <2>17, <3>1, <3>2 DEF DisableSaved, Written, Writes, tasks
  <2>18. ASSUME DeleteSaved(w) PROVE Fits
    BY <2>18 DEF DeleteSaved, Rule, Writes, tasks
  <2>19. ASSUME ForgetCached(w) PROVE Fits
    BY <2>19 DEF ForgetCached, Rule, tasks
  <2>20. Fits
    BY <1>1, <2>2, <2>3, <2>4, <2>5, <2>6, <2>7, <2>8, <2>9, <2>10, <2>11, <2>12, <2>13,
       <2>14, <2>15, <2>16, <2>17, <2>18, <2>19, <2>21, <2>22 DEF ThreadStep
  <2> QED BY <2>1, <2>20
<1>2. CASE Crash
  BY <1>2, IdleOK DEF Crash, JobsOK, Rule, Writes
<1>3. CASE Restart
  <2>1. servers' \subseteq Keys /\ ports' \subseteq Keys
    BY <1>3 DEF Restart, Keys
  <2>2. clients' \in [Rules -> {"none", "stopped", "running"}]
    BY <1>3 DEF Restart
  <2>3. mock' \subseteq Rules
    BY <1>3 DEF Restart
  <2> QED BY <1>3, <2>1, <2>2, <2>3 DEF Restart, JobsOK
<1>4. CASE UNCHANGED vars
  BY <1>4 DEF vars, JobsOK
<1> QED BY <1>1, <1>2, <1>3, <1>4 DEF Next, ThreadStep

LEMMA TypeInit == Init => TypeInv
BY IdleOK DEF Init, TypeInv, TypeOK, JobsOK, Rule, Writes

LEMMA TypeAlways == Spec => []TypeInv
BY TypeInit, TypeStep, PTL DEF Spec

(* Every variable has its type, and every job is one of a request the RPC  *)
(* threads serve, at a step of that request.                               *)
THEOREM TypeCorrect == Spec => []TypeOK
<1>1. TypeInv => TypeOK
  BY DEF TypeInv
<1> QED BY <1>1, TypeAlways, PTL

(* What a step of a thread makes of its job.                               *)
LEMMA GotoIs ==
    ASSUME TypeInv, NEW w \in Workers, NEW pc, Goto(w, pc)
    PROVE  /\ \A v \in Workers \ {w} : job'[v] = job[v]
           /\ job'[w].pc = pc /\ job'[w].op = job[w].op /\ job'[w].rule = job[w].rule
           /\ job'[w].todo = job[w].todo /\ job'[w].batch = job[w].batch
           /\ job'[w].made = job[w].made
BY DEF TypeInv, TypeOK, Goto, Job

LEMMA NextRuleIs ==
    ASSUME TypeInv, NEW w \in Workers, NextRule(w)
    PROVE  /\ \A v \in Workers \ {w} : job'[v] = job[v]
           /\ job'[w].pc = "rule" /\ job'[w].op = job[w].op /\ job'[w].rule = job[w].rule
           /\ job'[w].todo = Tail(job[w].todo) /\ job'[w].batch = job[w].batch
           /\ job'[w].made = job[w].made
BY DEF TypeInv, TypeOK, NextRule, Job

LEMMA ReadIs ==
    ASSUME TypeInv, NEW w \in Workers, ReadIds(w)
    PROVE  /\ \A v \in Workers \ {w} : job'[v] = job[v]
           /\ job'[w].pc = "write" /\ job'[w].op = job[w].op /\ job'[w].rule = job[w].rule
           /\ job'[w].todo = job[w].todo /\ job'[w].batch = job[w].batch
           /\ job'[w].made = job[w].made
           /\ job'[w].seen = {r \in job[w].rule : db[r] # Absent}
BY DEF TypeInv, TypeOK, ReadIds, Job

LEMMA ReturnIs ==
    ASSUME TypeInv, NEW w \in Workers, Return(w)
    PROVE  (\A v \in Workers \ {w} : job'[v] = job[v]) /\ job'[w] = Idle
BY DEF TypeInv, TypeOK, Return

LEMMA BeginIs ==
    ASSUME TypeInv, NEW w \in Workers, NEW op, NEW rs, NEW pc, Begin(w, op, rs, pc)
    PROVE  /\ \A v \in Workers \ {w} : job'[v] = job[v]
           /\ job'[w].pc = pc /\ job'[w].op = op /\ job'[w].rule = rs
           /\ job'[w].todo = <<>>
BY DEF TypeInv, TypeOK, Begin, Idle

(* The job of a registration that begins, or has made a client task.       *)
LEMMA RegisterIs ==
    ASSUME TypeInv, NEW w \in Workers, Register(w)
    PROVE  \E b \in Batches :
             /\ MayServe(w, "register", RulesOf(b))
             /\ "reregister" \in Allowed \/ \A r \in RulesOf(b) :
                  cache[r] = Absent /\ db[r] = Absent /\ clients[r] = "none" /\ r \notin mock
             /\ \A v \in Workers \ {w} : job'[v] = job[v]
             /\ job'[w].pc = "rule" /\ job'[w].op = "register" /\ job'[w].rule = RulesOf(b)
             /\ job'[w].todo = b /\ job'[w].batch = b
BY DEF TypeInv, TypeOK, Register, Idle

LEMMA MadeIs ==
    ASSUME TypeInv, NEW w \in Workers,
           job' = [job EXCEPT ![w].pc = "putClient",
                     ![w].made = IF WantsOn(Current(w)) THEN "running" ELSE "stopped"]
    PROVE  /\ \A v \in Workers \ {w} : job'[v] = job[v]
           /\ job'[w].pc = "putClient" /\ job'[w].op = job[w].op /\ job'[w].rule = job[w].rule
           /\ job'[w].todo = job[w].todo /\ job'[w].batch = job[w].batch
           /\ job'[w].made = IF WantsOn(Current(w)) THEN "running" ELSE "stopped"
BY DEF TypeInv, TypeOK, Job

LEMMA PutIs ==
    ASSUME TypeInv, NEW w \in Workers, PutClient(w)
    PROVE  /\ \A v \in Workers \ {w} : job'[v] = job[v]
           /\ job'[w].pc = "rule" /\ job'[w].op = job[w].op /\ job'[w].rule = job[w].rule
           /\ job'[w].todo = Tail(job[w].todo) /\ job'[w].batch = job[w].batch
           /\ job'[w].made = "none"
BY DEF TypeInv, TypeOK, PutClient, Job

(***************************************************************************)
(* Servers before clients, whatever the environment does.                  *)
(***************************************************************************)
(* Rules whose destination is here are registered active, as a rule is by  *)
(* default: the first of them to have a server's key launches it.          *)
ServersOn ==
    \A b \in Batches : \A i \in DOMAIN b : b[i].rule \in DstLocal => WantsOn(b[i])

(* A service that is down has nothing but its database.                    *)
DownInv ==
    ~up => /\ \A w \in Workers : job[w] = Idle
           /\ \A r \in Rules : clients[r] = "none"
           /\ orphans = {}

(* A server has a key of its own or is stored under one: it was launched.  *)
ServerInv ==
    /\ servers \subseteq ports
    /\ \A r \in DstLocal :
         clients[r] # "none" \/ r \in orphans => ServerKey[r] \in ports
    /\ \A w \in Workers :
         /\ job[w].pc = "putServer" => ServerKey[Current(w).rule] \in ports
         /\ job[w].pc \in {"client", "putClient"} /\ Current(w).rule \in DstLocal =>
              ServerKey[Current(w).rule] \in ports

LEMMA DownStep == TypeInv /\ DownInv /\ [Next]_vars => DownInv'
<1> SUFFICES ASSUME TypeInv, DownInv, [Next]_vars PROVE DownInv'
  OBVIOUS
<1>1. ASSUME NEW w \in Workers, ThreadStep(w) PROVE up'
  <2>1. up
    <3>1. job[w].pc # "idle" \/ up
      BY <1>1
      DEF ThreadStep, Register, SkipForeign, RegisterExternal, RegisterInternal, AddServer,
          PutServer, AddClient, PutClient, CacheRules, ReadIds, SaveRules, Locked, StartRule, EnableCached,
          EnableSaved, StartClient, StopRule, Unregister, StopClient, DisableCached,
          DisableSaved, DeleteSaved, ForgetCached, MayServe
    <3>2. job[w] = Idle => job[w].pc = "idle"
      BY DEF Idle
    <3> QED BY <3>1, <3>2 DEF DownInv
  <2> QED
    BY <1>1, <2>1
    DEF ThreadStep, Register, SkipForeign, RegisterExternal, RegisterInternal, AddServer,
        PutServer, AddClient, PutClient, CacheRules, ReadIds, SaveRules, Locked, StartRule, EnableCached,
        EnableSaved, StartClient, StopRule, Unregister, StopClient, DisableCached,
        DisableSaved, DeleteSaved, ForgetCached
<1>2. CASE Crash
  BY <1>2 DEF Crash, DownInv
<1>3. CASE Restart
  BY <1>3 DEF Restart, DownInv
<1>4. CASE UNCHANGED vars
  BY <1>4 DEF vars, DownInv
<1> QED BY <1>1, <1>2, <1>3, <1>4 DEF Next, ThreadStep, DownInv

(* The rule a registration is at was asked to be active, if its            *)
(* destination is here.                                                    *)
LEMMA CurrentOn ==
    ASSUME TypeInv, ServersOn, NEW w \in Workers, job[w].pc \in WithRule
    PROVE  /\ Current(w).rule \in Rules /\ ServerKey[Current(w).rule] \in Keys
           /\ Current(w).rule \in DstLocal => WantsOn(Current(w))
           /\ Registers(job[w]) /\ job[w].todo # <<>>
<1>1. JobOK(job[w]) /\ Registers(job[w]) /\ job[w].todo # <<>>
  BY JobAt DEF TypeInv, JobsOK, Registers
<1>2. Current(w) \in Request /\ Current(w) = RequestFor(job[w].batch, Current(w).rule)
  BY <1>1, TodoElements DEF Current
<1>3. PICK k \in DOMAIN job[w].batch : Current(w) = job[w].batch[k]
  <2>1. Current(w) = job[w].todo[1] /\ 1 \in DOMAIN job[w].todo
    BY <1>1 DEF JobOK, Job, Current
  <2> QED BY <1>1, <2>1 DEF Registers
<1> QED BY <1>1, <1>2, <1>3 DEF ServersOn, Registers, Request, Keys

LEMMA ServerStep ==
    ServersOn /\ TypeInv /\ DownInv /\ ServerInv /\ [Next]_vars => ServerInv'
<1> SUFFICES ASSUME ServersOn, TypeInv, DownInv, ServerInv, [Next]_vars PROVE ServerInv'
  OBVIOUS
<1> USE DEF ServerInv
<1>1. ASSUME NEW w \in Workers, ThreadStep(w) PROVE ServerInv'
  <2> DEFINE AtServer == job'[w].pc = "putServer" => ServerKey[Head(job'[w].todo).rule] \in ports'
             AtClient == job'[w].pc \in {"client", "putClient"} /\ Head(job'[w].todo).rule \in DstLocal =>
                           ServerKey[Head(job'[w].todo).rule] \in ports'
             Tasks == /\ servers' \subseteq ports' /\ ports \subseteq ports'
                      /\ \A r \in DstLocal :
                           clients'[r] # "none" \/ r \in orphans' => ServerKey[r] \in ports'
  <2>others. \A v \in Workers \ {w} : job'[v] = job[v]
    BY <1>1, StepJob DEF ThreadStep, TypeInv, TypeOK
  <2>frame. ASSUME AtServer, AtClient, Tasks PROVE ServerInv'
    <3>1. ASSUME NEW v \in Workers
          PROVE  /\ job'[v].pc = "putServer" => ServerKey[Head(job'[v].todo).rule] \in ports'
                 /\ job'[v].pc \in {"client", "putClient"} /\ Head(job'[v].todo).rule \in DstLocal =>
                      ServerKey[Head(job'[v].todo).rule] \in ports'
      BY <2>frame, <2>others DEF Current
    <3> QED BY <3>1, <2>frame DEF Current
  <2>same. ASSUME UNCHANGED tasks, job'[w].pc \notin {"putServer", "client", "putClient"}
           PROVE  ServerInv'
    BY <2>same, <2>frame DEF tasks
  <2>kept. ASSUME UNCHANGED <<servers, ports, clients, orphans>>,
                  job'[w].pc \notin {"putServer", "client", "putClient"}
           PROVE  ServerInv'
    BY <2>kept, <2>frame
  <2>known. ASSUME UNCHANGED <<servers, ports, orphans>>,
                   job'[w].pc \notin {"putServer", "client", "putClient"},
                   \A r \in Rules : clients[r] = "none" => clients'[r] = "none"
            PROVE  ServerInv'
    BY <2>known, <2>frame
  <2>1. ASSUME Register(w) PROVE ServerInv'
    BY <2>1, <2>same, RegisterIs DEF Register
  <2>2. ASSUME SkipForeign(w) PROVE ServerInv'
    BY <2>2, <2>same, NextRuleIs DEF SkipForeign
  <2>3. ASSUME RegisterExternal(w) PROVE ServerInv'
    BY <2>3, <2>kept, NextRuleIs DEF RegisterExternal
  <2>4. ASSUME RegisterInternal(w) PROVE ServerInv'
    BY <2>4, <2>same, GotoIs DEF RegisterInternal
  <2>5. ASSUME AddServer(w) PROVE ServerInv'
    <3> DEFINE r == Current(w).rule
    <3>1. /\ r \in Rules /\ r \in DstLocal => WantsOn(Current(w))
      BY <2>5, CurrentOn DEF AddServer, WithRule
    <3>2. CASE r \notin DstLocal \/ ServerKey[r] \in servers
      <4>1. Goto(w, "client") /\ UNCHANGED <<servers, ports, clients, orphans>>
        BY <2>5, <3>2 DEF AddServer
      <4>2. Head(job'[w].todo) = Current(w) /\ job'[w].pc = "client"
        BY <4>1, GotoIs DEF Current
      <4> QED BY <4>1, <4>2, <3>2, <2>frame
    <3>3. CASE r \in DstLocal /\ ServerKey[r] \notin servers /\ r \in Bad
      <4>1. Return(w) /\ UNCHANGED <<servers, ports, clients, orphans>>
        BY <2>5, <3>3 DEF AddServer
      <4> QED BY <4>1, ReturnIs, <2>kept DEF Idle
    <3>4. CASE r \in DstLocal /\ ServerKey[r] \notin servers /\ r \notin Bad
      <4>1. /\ Goto(w, "putServer") /\ UNCHANGED <<servers, clients, orphans>>
            /\ ports' = ports \cup {ServerKey[r]}
        BY <2>5, <3>1, <3>4 DEF AddServer
      <4>2. Head(job'[w].todo) = Current(w) /\ job'[w].pc = "putServer"
        BY <4>1, GotoIs DEF Current
      <4> QED BY <4>1, <4>2, <2>frame
    <3> QED BY <3>2, <3>3, <3>4
  <2>6. ASSUME PutServer(w) PROVE ServerInv'
    <3>1. ServerKey[Current(w).rule] \in ports
      BY <2>6 DEF PutServer
    <3>2. Head(job'[w].todo) = Current(w) /\ job'[w].pc = "client"
      BY <2>6, GotoIs DEF Current, PutServer
    <3> QED BY <2>6, <3>1, <3>2, <2>frame DEF PutServer
  <2>7. ASSUME AddClient(w) PROVE ServerInv'
    <3> DEFINE Made == job' = [job EXCEPT ![w].pc = "putClient",
                          ![w].made = IF WantsOn(Current(w)) THEN "running" ELSE "stopped"]
    <3>1. UNCHANGED <<servers, ports, clients, orphans>> /\ (NextRule(w) \/ Return(w) \/ Made)
      BY <2>7 DEF AddClient, tasks
    <3>2. CASE NextRule(w)
      BY <3>1, <3>2, <2>kept, NextRuleIs
    <3>3. CASE Return(w)
      BY <3>1, <3>3, <2>kept, ReturnIs DEF Idle
    <3>4. CASE Made
      <4>1. Head(job'[w].todo) = Current(w) /\ job'[w].pc = "putClient"
        BY <3>4, MadeIs DEF Current
      <4>2. Current(w).rule \in DstLocal => ServerKey[Current(w).rule] \in ports
        BY <2>7 DEF AddClient
      <4> QED BY <3>1, <4>1, <4>2, <2>frame
    <3> QED BY <3>1, <3>2, <3>3, <3>4
  <2>8. ASSUME PutClient(w) PROVE ServerInv'
    <3> DEFINE r == Current(w).rule
    <3>1. r \in DstLocal => ServerKey[r] \in ports
      BY <2>8 DEF PutClient
    <3>2. /\ UNCHANGED <<servers, ports>> /\ orphans' \subseteq orphans \cup {r}
          /\ \A q \in Rules \ {r} : clients'[q] = clients[q]
      BY <2>8 DEF PutClient, TypeInv, TypeOK
    <3>3. Tasks
      BY <3>1, <3>2
    <3> QED BY <2>8, <3>3, PutIs, <2>frame
  <2>9. ASSUME CacheRules(w) PROVE ServerInv'
    BY <2>9, <2>same, GotoIs DEF CacheRules
  <2>10. ASSUME SaveRules(w) PROVE ServerInv'
    BY <2>10, <2>same, ReturnIs DEF SaveRules, Idle
  <2>11. ASSUME StartRule(w) PROVE ServerInv'
    BY <2>11, <2>kept, BeginIs DEF StartRule
  <2>12. ASSUME EnableCached(w) PROVE ServerInv'
    BY <2>12, <2>same, GotoIs DEF EnableCached
  <2>13. ASSUME EnableSaved(w) PROVE ServerInv'
    BY <2>13, <2>same, GotoIs DEF EnableSaved
  <2>14. ASSUME StartClient(w) PROVE ServerInv'
    BY <2>14, <2>known, ReturnIs DEF StartClient, Idle, TypeInv, TypeOK
  <2>15. ASSUME StopRule(w) PROVE ServerInv'
    BY <2>15, <2>kept, BeginIs DEF StopRule, StopOp
  <2>16. ASSUME Unregister(w) PROVE ServerInv'
    BY <2>16, <2>kept, BeginIs DEF Unregister, StopOp
  <2>17. ASSUME StopClient(w) PROVE ServerInv'
    BY <2>17, <2>known, GotoIs DEF StopClient, TypeInv, TypeOK
  <2>18. ASSUME DisableCached(w) PROVE ServerInv'
    BY <2>18, <2>same, GotoIs, ReturnIs DEF DisableCached, AfterStop, Idle
  <2>19. ASSUME DisableSaved(w) PROVE ServerInv'
    BY <2>19, <2>same, GotoIs, ReturnIs DEF DisableSaved, AfterStop, Idle
  <2>20. ASSUME ForgetCached(w) PROVE ServerInv'
    BY <2>20, <2>same, GotoIs DEF ForgetCached
  <2>21. ASSUME DeleteSaved(w) PROVE ServerInv'
    BY <2>21, <2>same, ReturnIs DEF DeleteSaved, Idle
  <2>22. ASSUME ReadIds(w) PROVE ServerInv'
    BY <2>22, <2>same, ReadIs DEF ReadIds
  <2>23. ASSUME Locked(w) PROVE ServerInv'
    BY <2>23, <2>same, GotoIs, ReturnIs DEF Locked, AfterStop, Idle
  <2> QED
    BY <1>1, <2>1, <2>2, <2>3, <2>4, <2>5, <2>6, <2>7, <2>8, <2>9, <2>10, <2>11, <2>12, <2>13,
       <2>14, <2>15, <2>16, <2>17, <2>18, <2>19, <2>20, <2>21, <2>22, <2>23 DEF ThreadStep
<1>2. CASE Crash
  BY <1>2 DEF Crash, Idle
<1>3. CASE Restart
  <2>1. ~up /\ \A v \in Workers : job'[v].pc = "idle"
    BY <1>3 DEF Restart, DownInv, Idle
  <2>2. orphans' = {}
    BY <1>3, <2>1 DEF Restart, DownInv
  <2>3. \A r \in DstLocal : clients'[r] # "none" => ServerKey[r] \in ports'
    BY <1>3 DEF Restart
  <2> QED BY <1>3, <2>1, <2>2, <2>3 DEF Restart
<1>4. CASE UNCHANGED vars
  BY <1>4 DEF vars, Current
<1> QED BY <1>1, <1>2, <1>3, <1>4 DEF Next, ThreadStep

(* A client whose rule's server is to run here pings only after that       *)
(* server was launched (traffic_controller.py: "Start server before the    *)
(* client"), whatever requests overlap, are repeated or are cut off by a   *)
(* crash, and whatever tasks cannot be made - as long as rules are         *)
(* registered active.                                                      *)
THEOREM ServerBeforeClientHolds == ServersOn => (Spec => []ServerBeforeClient)
<1> DEFINE Inv == TypeInv /\ DownInv /\ ServerInv
<1> SUFFICES ASSUME ServersOn PROVE Spec => []ServerBeforeClient
  OBVIOUS
<1>1. Init => Inv
  BY TypeInit DEF Init, DownInv, ServerInv, Idle
<1>2. Inv /\ [Next]_vars => Inv'
  BY TypeStep, DownStep, ServerStep
<1>3. Inv => ServerBeforeClient
  BY DEF ServerInv, ServerBeforeClient, Pinging
<1> QED BY <1>1, <1>2, <1>3, PTL DEF Spec

(***************************************************************************)
(* Cache and database.                                                     *)
(***************************************************************************)
(* Requests about one rule are served one at a time.                       *)
OneAtATime == Allowed \cap {"overlap", "retry"} = {}
Disjoint ==
    \A v, w \in Workers : v # w => job[v].rule \cap job[w].rule = {}

(* The steps at which one of the two has been changed and the other not.   *)
Half == {"save", "write", "enableDB", "disableDB", "delete"}
Saved(r) == db[r] = Row(cache[r])

(* What the row is to become - if there is one: the request that was to    *)
(* add it may have failed -                                                *)
HalfInv(w) ==
    \A r \in job[w].rule :
      /\ job[w].pc \in {"save", "write"} => cache[r] = Entry(RequestFor(job[w].batch, r))
      /\ job[w].pc = "write" => (r \in job[w].seen <=> db[r] # Absent)
      /\ job[w].pc \in {"enableDB", "disableDB"} =>
           /\ cache[r] # Absent
           /\ cache[r].state = IF job[w].pc = "enableDB" THEN "ACTIVE" ELSE "INACTIVE"
           /\ db[r] # Absent \/ failed[r] # "none"
      /\ job[w].pc = "delete" => cache[r] = Absent

(* and that a row read from it would be written as it is.                  *)
SavedInv ==
    /\ \A r \in Rules : Row(db[r]) = db[r]
    /\ \A w \in Workers : HalfInv(w)
    /\ up => \A r \in Rules :
               \/ failed[r] # "none" \/ Saved(r)
               \/ \E w \in Workers : r \in job[w].rule /\ job[w].pc \in Half

(* Neither place ever has another tool than the rule was registered with.  *)
ToolOf(r) == IF Tool[r] = "unset" THEN "None" ELSE Tool[r]
ToolInv ==
    \A r \in Rules : /\ db[r] # Absent => db[r].tool = ToolOf(r)
                     /\ cache[r] # Absent => Row(cache[r]).tool = ToolOf(r)
PersistInv == DownInv /\ Disjoint /\ SavedInv /\ ToolInv

LEMMA RowRow == \A x \in Rule : Row(Row(x)) = Row(x)
BY DEF Row, Rule, Absent, States, Tools

(* What enabling or disabling does to a row, *)
LEMMA StateRow ==
    ASSUME NEW x \in Rule, NEW y \in Rule, x # Absent, y # Absent,
           NEW s \in {"ACTIVE", "INACTIVE"}, y.state = s, x.tool = Row(y).tool
    PROVE  [x EXCEPT !.state = s] = Row(y)
<1>1. x \in [state : States, tool : Tools] /\ y \in [state : States, tool : Tools]
  BY DEF Rule
<1>2. Row(y) = [state |-> s, tool |-> x.tool]
  BY <1>1 DEF Row
<1> QED BY <1>1, <1>2

(* and to a rule.                                                          *)
LEMMA StateCache ==
    ASSUME NEW x \in Rule, x # Absent, NEW s \in {"ACTIVE", "INACTIVE"}
    PROVE  /\ [x EXCEPT !.state = s] \in Rule /\ [x EXCEPT !.state = s] # Absent
           /\ [x EXCEPT !.state = s].state = s
           /\ [x EXCEPT !.state = s].tool = x.tool
           /\ Row([x EXCEPT !.state = s]).tool = Row(x).tool
<1>1. x \in [state : States, tool : Tools]
  BY DEF Rule
<1>2. [x EXCEPT !.state = s].state = s /\ [x EXCEPT !.state = s].tool = x.tool
  BY <1>1
<1>3. [x EXCEPT !.state = s] # Absent
  BY <1>2 DEF Absent
<1> QED BY <1>2, <1>3, StateRule DEF Row

(* A step of a thread leaves it its rules or none, or is the beginning of  *)
(* a request whose rules no other thread serves.                           *)
LEMMA StepRules ==
    ASSUME TypeInv, OneAtATime, NEW w \in Workers, ThreadStep(w)
    PROVE  \/ job'[w].rule = job[w].rule
           \/ job'[w].rule = {}
           \/ /\ job[w].rule = {} /\ \A v \in Workers : job[v].rule \cap job'[w].rule = {}
              /\ Register(w) \/ StartRule(w) \/ StopRule(w) \/ Unregister(w)
<1> DEFINE Keeps == job'[w].rule = job[w].rule \/ job'[w].rule = {}
           New == job[w].rule = {} /\ \A v \in Workers : job[v].rule \cap job'[w].rule = {}
<1>idle. job[w].pc = "idle" => job[w].rule = {}
  BY JobAt DEF TypeInv, JobsOK, Idle
<1>goto. ASSUME NEW pc, Goto(w, pc) PROVE Keeps
  BY <1>goto, GotoIs
<1>return. ASSUME Return(w) PROVE Keeps
  BY <1>return, ReturnIs DEF Idle
<1>next. ASSUME NextRule(w) PROVE Keeps
  BY <1>next, NextRuleIs
<1>1. CASE \/ SkipForeign(w) \/ RegisterExternal(w) \/ RegisterInternal(w)
           \/ AddServer(w) \/ PutServer(w) \/ CacheRules(w) \/ SaveRules(w) \/ Locked(w)
           \/ EnableCached(w) \/ EnableSaved(w) \/ StartClient(w) \/ StopClient(w)
           \/ DisableCached(w) \/ DisableSaved(w) \/ ForgetCached(w) \/ DeleteSaved(w)
  BY <1>1, <1>goto, <1>return, <1>next
  DEF SkipForeign, RegisterExternal, RegisterInternal, AddServer, PutServer, CacheRules,
      SaveRules, EnableCached, EnableSaved, StartClient, StopClient, DisableCached,
      DisableSaved, DeleteSaved, ForgetCached, AfterStop, Locked
<1>2. CASE AddClient(w)
  BY <1>2, <1>return, <1>next, MadeIs DEF AddClient
<1>3. CASE PutClient(w)
  BY <1>3, PutIs
<1>8. CASE ReadIds(w)
  BY <1>8, ReadIs
<1>serve. ASSUME NEW op, NEW rs, MayServe(w, op, rs), job'[w].rule = rs PROVE New
  BY <1>serve, <1>idle DEF MayServe, OneAtATime
<1>4. CASE Register(w)
  BY <1>4, <1>serve, RegisterIs
<1>5. CASE StartRule(w)
  <2>1. PICK r \in Rules : MayServe(w, "start", {r}) /\ \E pc : Begin(w, "start", {r}, pc)
    BY <1>5 DEF StartRule
  <2>2. job'[w].rule = {r}
    BY <2>1, BeginIs
  <2>3. New
    BY <2>1, <2>2, <1>serve
  <2> QED BY <1>5, <2>3
<1>6. CASE StopRule(w)
  <2>1. PICK r \in Rules : MayServe(w, "stop", {r}) /\ \E pc : Begin(w, "stop", {r}, pc)
    BY <1>6 DEF StopRule, StopOp
  <2>2. job'[w].rule = {r}
    BY <2>1, BeginIs
  <2>3. New
    BY <2>1, <2>2, <1>serve
  <2> QED BY <1>6, <2>3
<1>7. CASE Unregister(w)
  <2>1. PICK r \in Rules : MayServe(w, "unregister", {r}) /\ \E pc : Begin(w, "unregister", {r}, pc)
    BY <1>7 DEF Unregister, StopOp
  <2>2. job'[w].rule = {r}
    BY <2>1, BeginIs
  <2>3. New
    BY <2>1, <2>2, <1>serve
  <2> QED BY <1>7, <2>3
<1> QED BY <1>1, <1>2, <1>3, <1>4, <1>5, <1>6, <1>7, <1>8 DEF ThreadStep

LEMMA DisjointStep ==
    OneAtATime /\ TypeInv /\ DownInv /\ Disjoint /\ [Next]_vars => Disjoint'
<1> SUFFICES ASSUME OneAtATime, TypeInv, DownInv, Disjoint, [Next]_vars PROVE Disjoint'
  OBVIOUS
<1>1. ASSUME NEW w \in Workers, ThreadStep(w) PROVE Disjoint'
  <2>1. \A v \in Workers \ {w} : job'[v] = job[v]
    BY <1>1, StepJob DEF ThreadStep, TypeInv, TypeOK
  <2>2. \A v \in Workers \ {w} : job[v].rule \cap job'[w].rule = {}
    BY <1>1, StepRules DEF Disjoint
  <2> QED BY <2>1, <2>2 DEF Disjoint
<1>2. CASE Crash
  BY <1>2 DEF Crash, Disjoint, Idle
<1>3. CASE Restart
  BY <1>3 DEF Restart, Disjoint
<1>4. CASE UNCHANGED vars
  BY <1>4 DEF vars, Disjoint
<1> QED BY <1>1, <1>2, <1>3, <1>4 DEF Next, ThreadStep

(* The tool of a rule a thread has in hand, and the rows it makes of it.    *)
LEMMA EntryTool ==
    ASSUME NEW b \in Batches, NEW r \in RulesOf(b)
    PROVE  /\ Row(Entry(RequestFor(b, r))).tool = ToolOf(r)
           /\ Row(Row(Entry(RequestFor(b, r)))) = Row(Entry(RequestFor(b, r)))
<1>1. RequestFor(b, r).rule = r /\ Entry(RequestFor(b, r)) \in Rule
  BY BatchElements, EntryRule
<1> QED BY <1>1, RowRow DEF Entry, Row, ToolOf

LEMMA ToolStep == TypeInv /\ ToolInv /\ [Next]_vars => ToolInv'
<1> SUFFICES ASSUME TypeInv, ToolInv, [Next]_vars PROVE ToolInv'
  OBVIOUS
<1>type. cache \in [Rules -> Rule] /\ db \in [Rules -> Rule]
  BY DEF TypeInv, TypeOK
<1>same. ASSUME UNCHANGED <<cache, db>> PROVE ToolInv'
  BY <1>same DEF ToolInv
<1>1. ASSUME NEW w \in Workers, ThreadStep(w) PROVE ToolInv'
  <2>job. JobOK(job[w])
    BY DEF TypeInv, JobsOK
  <2>rule. Works(job[w]) => JobRule(w) \in Rules
    BY <2>job, JobRuleIs
  <2>batch. Registers(job[w]) => job[w].batch \in Batches /\ job[w].rule = RulesOf(job[w].batch)
    BY DEF Registers
  <2>1. CASE CacheRules(w)
    <3>1. job[w].batch \in Batches
      BY <2>1, <2>job, <2>batch, JobAt DEF CacheRules
    <3>2. \A r \in RulesOf(job[w].batch) : Row(Entry(RequestFor(job[w].batch, r))).tool = ToolOf(r)
      BY <3>1, EntryTool
    <3>3. /\ UNCHANGED db
          /\ cache' = [r \in Rules |-> IF r \in RulesOf(job[w].batch)
                                      THEN Entry(RequestFor(job[w].batch, r)) ELSE cache[r]]
      BY <2>1 DEF CacheRules
    <3> QED BY <3>2, <3>3 DEF ToolInv
  <2>2. CASE SaveRules(w)
    <3>1. job[w].batch \in Batches /\ job[w].rule = RulesOf(job[w].batch)
      BY <2>2, <2>job, <2>batch, JobAt DEF SaveRules
    <3>2. BeforeClash(w) \subseteq job[w].rule
      BY <3>1 DEF BeforeClash, RulesOf
    <3>3. PICK saved \in {job[w].rule, {}, BeforeClash(w)} :
            db' = [r \in Rules |->
                     IF r \in saved /\ ~(r \in job[w].seen /\ db[r] = Absent)
                     THEN Row(Entry(RequestFor(job[w].batch, r))) ELSE db[r]]
      BY <2>2 DEF SaveRules
    <3>4. saved \subseteq job[w].rule
      BY <3>2, <3>3
    <3>5. \A r \in saved : Row(Entry(RequestFor(job[w].batch, r))).tool = ToolOf(r)
      BY <3>1, <3>4, EntryTool
    <3>6. UNCHANGED cache
      BY <2>2 DEF SaveRules
    <3> QED BY <3>3, <3>5, <3>6 DEF ToolInv
  <2>3. CASE EnableCached(w) \/ DisableCached(w)
    <3> DEFINE r == JobRule(w)
    <3>1. r \in Rules /\ UNCHANGED db
      BY <2>3, <2>job, <2>rule, JobAt DEF EnableCached, DisableCached
    <3>2. CASE cache[r] = Absent
      BY <2>3, <3>2, <1>same DEF EnableCached, DisableCached
    <3>3. CASE cache[r] # Absent
      <4>1. PICK s \in {"ACTIVE", "INACTIVE"} : cache' = [cache EXCEPT ![r].state = s]
        BY <2>3, <3>3 DEF EnableCached, DisableCached
      <4>2. cache'[r] = [cache[r] EXCEPT !.state = s] /\ cache[r] \in Rule
        BY <3>1, <4>1, <1>type
      <4>3. Row([cache[r] EXCEPT !.state = s]).tool = Row(cache[r]).tool
        BY <3>3, <4>2, StateCache
      <4>4. \A q \in Rules \ {r} : cache'[q] = cache[q]
        BY <4>1, <1>type
      <4> QED BY <3>1, <3>3, <4>2, <4>3, <4>4 DEF ToolInv
    <3> QED BY <3>2, <3>3
  <2>4. CASE EnableSaved(w) \/ DisableSaved(w)
    <3> DEFINE r == JobRule(w)
    <3>1. r \in Rules /\ UNCHANGED cache
      BY <2>4, <2>job, <2>rule, JobAt DEF EnableSaved, DisableSaved
    <3>2. CASE db[r] = Absent
      BY <2>4, <3>2, <1>same DEF EnableSaved, DisableSaved
    <3>3. CASE db[r] # Absent
      <4>1. PICK s \in {"ACTIVE", "INACTIVE"} : db' = [db EXCEPT ![r].state = s]
        BY <2>4, <3>3 DEF EnableSaved, DisableSaved
      <4>2. db'[r] = [db[r] EXCEPT !.state = s] /\ db[r] \in Rule
        BY <3>1, <4>1, <1>type
      <4>3. [db[r] EXCEPT !.state = s].tool = db[r].tool
        BY <3>3, <4>2, StateCache
      <4>4. \A q \in Rules \ {r} : db'[q] = db[q]
        BY <4>1, <1>type
      <4> QED BY <3>1, <3>3, <4>2, <4>3, <4>4 DEF ToolInv
    <3> QED BY <3>2, <3>3
  <2>5. CASE ForgetCached(w)
    <3>1. JobRule(w) \in Rules /\ UNCHANGED db /\ cache' = [cache EXCEPT ![JobRule(w)] = Absent]
      BY <2>5, <2>job, <2>rule, JobAt DEF ForgetCached
    <3> QED BY <3>1, <1>type DEF ToolInv
  <2>6. CASE DeleteSaved(w)
    <3>1. JobRule(w) \in Rules /\ UNCHANGED cache /\ db' = [db EXCEPT ![JobRule(w)] = Absent]
      BY <2>6, <2>job, <2>rule, JobAt DEF DeleteSaved
    <3> QED BY <3>1, <1>type DEF ToolInv
  <2>7. CASE \/ Register(w) \/ SkipForeign(w) \/ RegisterExternal(w) \/ RegisterInternal(w)
             \/ AddServer(w) \/ PutServer(w) \/ AddClient(w) \/ PutClient(w)
             \/ ReadIds(w) \/ Locked(w) \/ StartRule(w) \/ StartClient(w)
             \/ StopRule(w) \/ Unregister(w) \/ StopClient(w)
    BY <2>7, <1>same
    DEF Register, SkipForeign, RegisterExternal, RegisterInternal, AddServer, PutServer,
        AddClient, PutClient, ReadIds, Locked, StartRule, StartClient, StopRule, Unregister,
        StopClient
  <2> QED BY <1>1, <2>1, <2>2, <2>3, <2>4, <2>5, <2>6, <2>7 DEF ThreadStep
<1>2. CASE Crash
  BY <1>2 DEF Crash, ToolInv
<1>3. CASE Restart
  <2>1. \A r \in Rules : db[r] # Absent => Row(db[r]).tool = ToolOf(r)
    BY DEF ToolInv, ToolOf, Row
  <2> QED BY <1>3, <2>1 DEF Restart, ToolInv
<1>4. CASE UNCHANGED vars
  BY <1>4, <1>same DEF vars
<1> QED BY <1>1, <1>2, <1>3, <1>4 DEF Next, ThreadStep

LEMMA SavedStep ==
    OneAtATime /\ TypeInv /\ PersistInv /\ [Next]_vars => SavedInv'
<1> SUFFICES ASSUME OneAtATime, TypeInv, PersistInv, [Next]_vars PROVE SavedInv'
  OBVIOUS
<1> USE DEF PersistInv
<1>type. cache \in [Rules -> Rule] /\ db \in [Rules -> Rule]
  BY DEF TypeInv, TypeOK
<1>failed. failed \in [Rules -> Writes]
  BY DEF TypeInv, TypeOK
<1>1. ASSUME NEW w \in Workers, ThreadStep(w) PROVE SavedInv'
  <2> DEFINE Mine(r) == failed'[r] # "none" \/ Saved(r)' \/ (r \in job'[w].rule /\ job'[w].pc \in Half)
  <2>others. \A v \in Workers \ {w} : job'[v] = job[v]
    BY <1>1, StepJob DEF ThreadStep, TypeInv, TypeOK
  <2>job. /\ JobOK(job[w]) /\ job[w] \in Job /\ job[w].rule \subseteq Rules
          /\ job[w].pc = "idle" => job[w].rule = {}
    BY JobAt DEF TypeInv, JobsOK, JobOK, Job, Idle
  <2>up. up
    <3>1. job[w].pc # "idle" \/ up
      BY <1>1
      DEF ThreadStep, Register, SkipForeign, RegisterExternal, RegisterInternal, AddServer,
          PutServer, AddClient, PutClient, CacheRules, ReadIds, SaveRules, Locked, StartRule, EnableCached,
          EnableSaved, StartClient, StopRule, Unregister, StopClient, DisableCached,
          DisableSaved, DeleteSaved, ForgetCached, MayServe
    <3> QED BY <3>1 DEF DownInv, Idle
  <2>mine. \A r \in job[w].rule : job[w].pc \notin Half => failed[r] # "none" \/ Saved(r)
    <3>1. \A r \in job[w].rule : \A v \in Workers : r \in job[v].rule => v = w
      BY DEF Disjoint
    <3> QED BY <3>1, <2>up, <2>job DEF SavedInv
  (* The rules of the other threads, and those nobody serves, are left     *)
  (* alone.                                                                *)
  <2>frame. ASSUME \A r \in Rules \ job[w].rule :
                     cache'[r] = cache[r] /\ db'[r] = db[r] /\ failed'[r] = failed[r],
                   \A r \in job[w].rule : Mine(r) /\ Row(db'[r]) = db'[r],
                   HalfInv(w)'
            PROVE  SavedInv'
    <3>1. ASSUME NEW v \in Workers \ {w} PROVE HalfInv(v)'
      <4>1. \A r \in job[v].rule : cache'[r] = cache[r] /\ db'[r] = db[r] /\ failed'[r] = failed[r]
        <5>1. job[v].rule \subseteq Rules \ job[w].rule
          BY <2>job DEF Disjoint, TypeInv, JobsOK, JobOK, Job
        <5> QED BY <5>1, <2>frame
      <4> QED BY <4>1, <2>others DEF SavedInv, HalfInv
    <3>2. ASSUME NEW r \in Rules \ job[w].rule
          PROVE  \/ failed'[r] # "none" \/ Saved(r)'
                 \/ \E v \in Workers : r \in job'[v].rule /\ job'[v].pc \in Half
      <4>1. CASE failed[r] # "none" \/ Saved(r)
        BY <4>1, <2>frame DEF Saved
      <4>2. CASE ~(failed[r] # "none" \/ Saved(r))
        <5>1. PICK v \in Workers : r \in job[v].rule /\ job[v].pc \in Half
          BY <2>up, <4>2 DEF SavedInv
        <5> QED BY <5>1, <2>others
      <4> QED BY <4>1, <4>2
    <3> QED BY <3>1, <3>2, <2>frame DEF SavedInv
  (* Steps that leave cache and database alone.                            *)
  <2>kept. ASSUME UNCHANGED <<cache, db, failed>>, job[w].pc \notin Half, job'[w].pc \notin Half
           PROVE  SavedInv'
    <3>1. HalfInv(w)'
      BY <2>kept DEF HalfInv, Half
    <3> QED BY <2>kept, <2>mine, <2>frame, <3>1, <2>job DEF Saved, SavedInv
  <2>1. ASSUME Register(w) PROVE SavedInv'
    BY <2>1, <2>kept, RegisterIs DEF Register, MayServe, Half
  <2>2. ASSUME SkipForeign(w) PROVE SavedInv'
    BY <2>2, <2>kept, NextRuleIs DEF SkipForeign, Half
  <2>3. ASSUME RegisterExternal(w) PROVE SavedInv'
    BY <2>3, <2>kept, NextRuleIs DEF RegisterExternal, Half
  <2>4. ASSUME RegisterInternal(w) PROVE SavedInv'
    BY <2>4, <2>kept, GotoIs DEF RegisterInternal, Half
  <2>5. ASSUME AddServer(w) PROVE SavedInv'
    BY <2>5, <2>kept, GotoIs, ReturnIs DEF AddServer, Idle, Half
  <2>6. ASSUME PutServer(w) PROVE SavedInv'
    BY <2>6, <2>kept, GotoIs DEF PutServer, Half
  <2>7. ASSUME AddClient(w) PROVE SavedInv'
    <3>1. UNCHANGED <<cache, db, failed>> /\ job[w].pc = "client"
      BY <2>7 DEF AddClient
    <3>2. job'[w].pc \in {"rule", "idle", "putClient"}
      BY <2>7, NextRuleIs, ReturnIs, MadeIs DEF AddClient, Idle
    <3> QED BY <3>1, <3>2, <2>kept DEF Half
  <2>8. ASSUME PutClient(w) PROVE SavedInv'
    BY <2>8, <2>kept, PutIs DEF PutClient, Half
  <2>9. ASSUME CacheRules(w) PROVE SavedInv'
    <3>1. job[w].rule = RulesOf(job[w].batch) /\ job[w].pc \notin Half
      BY <2>9, <2>job, JobAt DEF CacheRules, Registers, Half
    <3>2. job'[w].pc = "save" /\ job'[w].rule = job[w].rule /\ job'[w].batch = job[w].batch
      BY <2>9, GotoIs DEF CacheRules
    <3>3. \A r \in job[w].rule : cache'[r] = Entry(RequestFor(job[w].batch, r))
      BY <2>9, <2>job, <3>1 DEF CacheRules
    <3>4. \A r \in Rules \ job[w].rule : cache'[r] = cache[r]
      BY <2>9, <2>job, <3>1 DEF CacheRules
    <3>5. HalfInv(w)'
      BY <3>2, <3>3 DEF HalfInv
    <3>6. UNCHANGED <<db, failed>>
      BY <2>9 DEF CacheRules
    <3> QED BY <3>2, <3>4, <3>5, <3>6, <2>job, <2>frame DEF Half, SavedInv
  <2>10. ASSUME SaveRules(w) PROVE SavedInv'
    <3>1. job[w].rule = RulesOf(job[w].batch) /\ job[w].batch \in Batches /\ job[w].pc = "write"
      BY <2>10, <2>job, JobAt DEF SaveRules, Registers
    <3>2. \A r \in job[w].rule : /\ cache[r] = Entry(RequestFor(job[w].batch, r))
                                 /\ r \in job[w].seen <=> db[r] # Absent
      BY <3>1 DEF SavedInv, HalfInv
    <3>3. Clash(w) = {}
      BY <3>2 DEF Clash
    <3>4. \A r \in Rules : /\ db'[r] = IF r \in job[w].rule
                                       THEN Row(Entry(RequestFor(job[w].batch, r))) ELSE db[r]
                           /\ failed'[r] = IF r \in job[w].rule THEN "none" ELSE failed[r]
      BY <2>10, <3>2, <3>3 DEF SaveRules
    <3>5. \A r \in job[w].rule : Row(db'[r]) = db'[r]
      BY <3>1, <3>4, <2>job, EntryTool
    <3>6. HalfInv(w)'
      BY <2>10, ReturnIs DEF SaveRules, HalfInv, Idle
    <3>7. UNCHANGED cache
      BY <2>10 DEF SaveRules
    <3>8. \A r \in job[w].rule : Saved(r)'
      BY <3>2, <3>4, <3>7, <2>job DEF Saved
    <3> QED BY <3>4, <3>5, <3>6, <3>7, <3>8, <2>frame
  <2>11. ASSUME StartRule(w) PROVE SavedInv'
    BY <2>11, <2>kept, BeginIs DEF StartRule, MayServe, Half
  (* A step about the rule of the job changes nothing else.                *)
  <2>rule. ASSUME Works(job[w])
           PROVE  JobRule(w) \in Rules /\ job[w].rule = {JobRule(w)}
    BY <2>rule, <2>job, JobRuleIs
  <2>12. ASSUME EnableCached(w) PROVE SavedInv'
    <3> DEFINE r == JobRule(w)
    <3>1. r \in Rules /\ job[w].rule = {r} /\ (failed[r] # "none" \/ Saved(r))
      BY <2>12, <2>job, <2>rule, <2>mine, JobAt DEF EnableCached, Half
    <3>2. CASE cache[r] = Absent
      BY <2>12, <3>2, <2>kept, GotoIs DEF EnableCached, Half
    <3>3. CASE cache[r] # Absent
      <4>1. /\ Goto(w, "enableDB") /\ UNCHANGED <<db, failed>>
            /\ cache' = [cache EXCEPT ![r].state = "ACTIVE"]
        BY <2>12, <3>3 DEF EnableCached
      <4>2. cache'[r] = [cache[r] EXCEPT !.state = "ACTIVE"]
        BY <4>1, <3>1, <1>type
      <4>3. cache'[r] # Absent /\ cache'[r].state = "ACTIVE"
        <5>1. cache[r] \in Rule /\ "ACTIVE" \in {"ACTIVE", "INACTIVE"}
          BY <3>1, <1>type
        <5> QED BY <5>1, <4>2, <3>3, StateCache
      <4>4. db'[r] # Absent \/ failed'[r] # "none"
        <5>1. cache[r] \in Rule /\ Row(cache[r]) # Absent
          BY <3>1, <3>3, <1>type, RowRule
        <5> QED BY <5>1, <3>1, <4>1 DEF Saved
      <4>5. job'[w].pc = "enableDB" /\ job'[w].rule = {r}
        BY <4>1, <3>1, GotoIs
      <4>6. HalfInv(w)'
        BY <4>3, <4>4, <4>5 DEF HalfInv
      <4>7. \A q \in Rules \ {r} : cache'[q] = cache[q]
        BY <4>1, <1>type
      <4>8. Row(db[r]) = db[r] /\ job'[w].pc \in Half
        BY <4>5, <3>1 DEF SavedInv, Half
      <4> QED BY <4>1, <4>5, <4>6, <4>7, <4>8, <3>1, <2>frame
    <3> QED BY <3>2, <3>3
  <2>13. ASSUME EnableSaved(w) PROVE SavedInv'
    <3> DEFINE r == JobRule(w)
    <3>1. r \in Rules /\ job[w].rule = {r}
      BY <2>13, <2>job, <2>rule, JobAt DEF EnableSaved
    <3>2. cache[r] # Absent /\ cache[r].state = "ACTIVE" /\ (db[r] # Absent \/ failed[r] # "none")
      BY <2>13, <3>1 DEF EnableSaved, SavedInv, HalfInv
    <3>6. HalfInv(w)' /\ UNCHANGED cache
      BY <2>13, GotoIs DEF HalfInv, EnableSaved
    <3>3. CASE db[r] = Absent
      <4>1. UNCHANGED <<db, failed>>
        BY <2>13, <3>3 DEF EnableSaved, Written
      <4> QED BY <3>1, <3>2, <3>3, <3>6, <4>1, <2>frame DEF SavedInv
    <3>4. CASE db[r] # Absent
      <4>1. db' = [db EXCEPT ![r].state = "ACTIVE"] /\ failed' = [failed EXCEPT ![r] = "none"]
        BY <2>13, <3>4 DEF EnableSaved, Written
      <4>2. db[r].tool = Row(cache[r]).tool
        BY <3>1, <3>2, <3>4 DEF ToolInv
      <4>3. db'[r] = Row(cache[r])
        BY <3>1, <3>2, <3>4, <4>1, <4>2, <1>type, StateRow
      <4>4. Row(db'[r]) = db'[r]
        BY <3>1, <4>3, <1>type, RowRow
      <4>5. \A q \in Rules \ {r} : db'[q] = db[q] /\ failed'[q] = failed[q]
        BY <4>1, <1>type, <1>failed
      <4> QED BY <3>1, <3>6, <4>3, <4>4, <4>5, <2>frame DEF Saved
    <3> QED BY <3>3, <3>4
  <2>14. ASSUME StartClient(w) PROVE SavedInv'
    BY <2>14, <2>kept, ReturnIs DEF StartClient, Idle, Half
  <2>15. ASSUME StopRule(w) PROVE SavedInv'
    BY <2>15, <2>kept, BeginIs DEF StopRule, StopOp, MayServe, Half
  <2>16. ASSUME Unregister(w) PROVE SavedInv'
    BY <2>16, <2>kept, BeginIs DEF Unregister, StopOp, MayServe, Half
  <2>17. ASSUME StopClient(w) PROVE SavedInv'
    BY <2>17, <2>kept, GotoIs DEF StopClient, Half
  <2>18. ASSUME DisableCached(w) PROVE SavedInv'
    <3> DEFINE r == JobRule(w)
    <3>1. r \in Rules /\ job[w].rule = {r} /\ (failed[r] # "none" \/ Saved(r))
      BY <2>18, <2>job, <2>rule, <2>mine, JobAt DEF DisableCached, Half
    <3>2. CASE cache[r] = Absent
      BY <2>18, <3>2, <2>kept, GotoIs, ReturnIs DEF DisableCached, AfterStop, Idle, Half
    <3>3. CASE cache[r] # Absent
      <4>1. /\ Goto(w, "disableDB") /\ UNCHANGED <<db, failed>>
            /\ cache' = [cache EXCEPT ![r].state = "INACTIVE"]
        BY <2>18, <3>3 DEF DisableCached
      <4>2. cache'[r] = [cache[r] EXCEPT !.state = "INACTIVE"]
        BY <4>1, <3>1, <1>type
      <4>3. cache'[r] # Absent /\ cache'[r].state = "INACTIVE"
        <5>1. cache[r] \in Rule /\ "INACTIVE" \in {"ACTIVE", "INACTIVE"}
          BY <3>1, <1>type
        <5> QED BY <5>1, <4>2, <3>3, StateCache
      <4>4. db'[r] # Absent \/ failed'[r] # "none"
        <5>1. cache[r] \in Rule /\ Row(cache[r]) # Absent
          BY <3>1, <3>3, <1>type, RowRule
        <5> QED BY <5>1, <3>1, <4>1 DEF Saved
      <4>5. job'[w].pc = "disableDB" /\ job'[w].rule = {r}
        BY <4>1, <3>1, GotoIs
      <4>6. HalfInv(w)'
        BY <4>3, <4>4, <4>5 DEF HalfInv
      <4>7. \A q \in Rules \ {r} : cache'[q] = cache[q]
        BY <4>1, <1>type
      <4>8. Row(db[r]) = db[r] /\ job'[w].pc \in Half
        BY <4>5, <3>1 DEF SavedInv, Half
      <4> QED BY <4>1, <4>5, <4>6, <4>7, <4>8, <3>1, <2>frame
    <3> QED BY <3>2, <3>3
  <2>19. ASSUME DisableSaved(w) PROVE SavedInv'
    <3> DEFINE r == JobRule(w)
    <3>1. r \in Rules /\ job[w].rule = {r}
      BY <2>19, <2>job, <2>rule, JobAt DEF DisableSaved
    <3>2. cache[r] # Absent /\ cache[r].state = "INACTIVE" /\ (db[r] # Absent \/ failed[r] # "none")
      BY <2>19, <3>1 DEF DisableSaved, SavedInv, HalfInv
    <3>6. HalfInv(w)' /\ UNCHANGED cache
      <4>1. job'[w].pc \in {"forget", "idle"}
        BY <2>19, GotoIs, ReturnIs DEF DisableSaved, AfterStop, Idle
      <4> QED BY <2>19, <4>1 DEF HalfInv, DisableSaved
    <3>3. CASE db[r] = Absent
      <4>1. UNCHANGED <<db, failed>>
        BY <2>19, <3>3 DEF DisableSaved, Written
      <4> QED BY <3>1, <3>2, <3>3, <3>6, <4>1, <2>frame DEF SavedInv
    <3>4. CASE db[r] # Absent
      <4>1. db' = [db EXCEPT ![r].state = "INACTIVE"] /\ failed' = [failed EXCEPT ![r] = "none"]
        BY <2>19, <3>4 DEF DisableSaved, Written
      <4>2. db[r].tool = Row(cache[r]).tool
        BY <3>1, <3>2, <3>4 DEF ToolInv
      <4>3. db'[r] = Row(cache[r])
        BY <3>1, <3>2, <3>4, <4>1, <4>2, <1>type, StateRow
      <4>4. Row(db'[r]) = db'[r]
        BY <3>1, <4>3, <1>type, RowRow
      <4>5. \A q \in Rules \ {r} : db'[q] = db[q] /\ failed'[q] = failed[q]
        BY <4>1, <1>type, <1>failed
      <4> QED BY <3>1, <3>6, <4>3, <4>4, <4>5, <2>frame DEF Saved
    <3> QED BY <3>3, <3>4
  <2>20. ASSUME ForgetCached(w) PROVE SavedInv'
    <3> DEFINE r == JobRule(w)
    <3>1. r \in Rules /\ job[w].rule = {r}
      BY <2>20, <2>job, <2>rule, JobAt DEF ForgetCached
    <3>2. /\ Goto(w, "delete") /\ UNCHANGED <<db, failed>>
          /\ cache' = [cache EXCEPT ![r] = Absent]
      BY <2>20 DEF ForgetCached
    <3>3. job'[w].pc = "delete" /\ job'[w].rule = {r}
      BY <3>1, <3>2, GotoIs
    <3>4. HalfInv(w)'
      BY <3>1, <3>2, <3>3, <1>type DEF HalfInv
    <3>5. Row(db'[r]) = db'[r]
      BY <3>1, <3>2 DEF SavedInv
    <3> QED BY <3>1, <3>2, <3>3, <3>4, <3>5, <1>type, <2>frame DEF Half
  <2>21. ASSUME DeleteSaved(w) PROVE SavedInv'
    <3> DEFINE r == JobRule(w)
    <3>1. r \in Rules /\ job[w].rule = {r} /\ cache[r] = Absent
      BY <2>21, <2>job, <2>rule, JobAt DEF DeleteSaved, SavedInv, HalfInv
    <3>2. /\ Return(w) /\ UNCHANGED cache /\ db' = [db EXCEPT ![r] = Absent]
          /\ failed' = [failed EXCEPT ![r] = "none"]
      BY <2>21 DEF DeleteSaved
    <3>3. Row(Absent) = Absent
      BY DEF Row, Absent
    <3>4. HalfInv(w)'
      BY <3>2, ReturnIs DEF HalfInv, Idle
    <3> QED BY <3>1, <3>2, <3>3, <3>4, <1>type, <1>failed, <2>frame DEF Saved
  <2>22. ASSUME ReadIds(w) PROVE SavedInv'
    <3>1. UNCHANGED <<cache, db, failed>> /\ job[w].pc = "save"
      BY <2>22 DEF ReadIds
    <3>2. HalfInv(w)'
      BY <2>22, <3>1, ReadIs DEF HalfInv, SavedInv
    <3> QED BY <2>22, <3>1, <3>2, ReadIs, <2>job, <2>frame DEF Half, SavedInv
  (* What raised is on record, or nothing had been changed yet.            *)
  <2>23. ASSUME Locked(w) PROVE SavedInv'
    <3>1. UNCHANGED <<cache, db>>
      BY <2>23 DEF Locked
    <3>2. job'[w].pc \in {"forget", "idle"}
      BY <2>23, GotoIs, ReturnIs DEF Locked, AfterStop, Idle
    <3>3. HalfInv(w)'
      BY <3>2 DEF HalfInv
    <3>4. CASE job[w].pc \in {"save", "write"}
      <4>1. failed' = [r \in Rules |-> IF r \in job[w].rule THEN "save" ELSE failed[r]]
        BY <2>23, <3>4 DEF Locked
      <4> QED BY <3>1, <3>3, <4>1, <2>job, <2>frame DEF SavedInv
    <3>5. CASE job[w].pc \in {"enableDB", "disableDB", "delete"}
      <4>1. JobRule(w) \in Rules /\ job[w].rule = {JobRule(w)}
        BY <3>5, <2>job, <2>rule, JobAt
      <4>2. PICK x \in Writes \ {"none"} : failed' = [failed EXCEPT ![JobRule(w)] = x]
        BY <2>23, <3>5 DEF Locked, Writes
      <4>3. failed'[JobRule(w)] = x /\ \A q \in Rules \ {JobRule(w)} : failed'[q] = failed[q]
        BY <4>1, <4>2, <1>failed
      <4> QED BY <3>1, <3>3, <4>1, <4>3, <2>frame DEF SavedInv
    <3>6. CASE job[w].pc = "forget"
      BY <2>23, <3>1, <3>2, <3>6, <2>kept DEF Locked, Half
    <3> QED BY <2>23, <3>4, <3>5, <3>6 DEF Locked
  <2> QED
    BY <1>1, <2>1, <2>2, <2>3, <2>4, <2>5, <2>6, <2>7, <2>8, <2>9, <2>10, <2>11, <2>12, <2>13,
       <2>14, <2>15, <2>16, <2>17, <2>18, <2>19, <2>20, <2>21, <2>22, <2>23 DEF ThreadStep
<1>2. CASE Crash
  BY <1>2 DEF Crash, SavedInv, HalfInv, Idle
<1>3. CASE Restart
  <2>1. \A v \in Workers : job'[v].rule = {}
    BY <1>3 DEF Restart, DownInv, Idle
  <2> QED BY <1>3, <2>1 DEF Restart, SavedInv, Saved, HalfInv
<1>4. CASE UNCHANGED vars
  BY <1>4 DEF vars, SavedInv, HalfInv, Saved
<1> QED BY <1>1, <1>2, <1>3, <1>4 DEF Next, ThreadStep

LEMMA PersistAlways == OneAtATime => (Spec => [](TypeInv /\ PersistInv))
<1> DEFINE Inv == TypeInv /\ PersistInv
<1> SUFFICES ASSUME OneAtATime PROVE Spec => []Inv
  OBVIOUS
<1>1. Init => Inv
  BY TypeInit
  DEF Init, PersistInv, DownInv, Disjoint, SavedInv, HalfInv, Saved, ToolInv, Idle, Row, Absent
<1>2. Inv /\ [Next]_vars => Inv'
  BY TypeStep, DownStep, DisjointStep, SavedStep, ToolStep DEF PersistInv
<1> QED BY <1>1, <1>2, PTL DEF Spec

(* The database has every rule as the cache has it, once the requests      *)
(* about it have returned and unless a write of its row has raised with    *)
(* none reaching the row since - over crashes between any two of their     *)
(* steps, locks not to be had, registrations of known rules and            *)
(* registrations that raise, as long as the requests about one rule do not *)
(* overlap (rules.py).                                                     *)
THEOREM PersistedHolds == OneAtATime => (Spec => []Persisted)
<1> SUFFICES ASSUME OneAtATime PROVE Spec => []Persisted
  OBVIOUS
<1>1. TypeInv /\ PersistInv => Persisted
  <2> SUFFICES ASSUME TypeInv, PersistInv, NEW r \in Rules, Settled(r),
                      failed[r] = "none"
               PROVE  IF cache[r] = Absent THEN db[r] = Absent ELSE db[r] = Row(cache[r])
    BY DEF Persisted
  <2>1. Saved(r)
    BY DEF Settled, PersistInv, SavedInv
  <2> QED BY <2>1, RowRule DEF Saved, TypeInv, TypeOK
<1> QED BY <1>1, PersistAlways, PTL

(***************************************************************************)
(* Silence.                                                                *)
(***************************************************************************)
(* ... and nothing is registered that the node has had a task for.         *)
Orderly == Allowed \subseteq {"crash", "locked"}

(* A rule no task can be made for is registered alone: one after others of *)
(* a batch would leave their clients running, unknown to the cache.        *)
BadAlone == \A b \in Batches : \A r \in RulesOf(b) \cap Bad : RulesOf(b) = {r}

(* A registration has seen to the rules that are not left.                 *)
RegisteringInv(w) ==
    job[w].op = "register" /\ job[w].pc \notin {"save", "write"} =>
      /\ \A r \in job[w].rule :
           /\ cache[r] = Absent
           /\ clients[r] # "none" => r \in SrcLocal /\ ~External(Tool[r])
           /\ r \in RulesOf(job[w].todo) => clients[r] = "none"
      /\ job[w].pc \in WithRule => ~External(Tool[Current(w).rule])
      /\ job[w].pc = "putClient" =>
           /\ Current(w).rule \in SrcLocal
           /\ job[w].made = IF WantsOn(Current(w)) THEN "running" ELSE "stopped"

(* What a request knows of its rule.                                       *)
WorkingInv(w) ==
    \A r \in job[w].rule :
      /\ job[w].pc = "enable" => cache[r] # Absent
      /\ job[w].pc \in {"enableDB", "startClient"} => Enabled(cache[r])
      /\ job[w].pc \in {"disable", "disableDB", "delete", "forget"} => clients[r] # "running"
      /\ job[w].pc \in {"disableDB", "delete"} => ~Enabled(cache[r])

(* A running client is an active rule's or one that is being registered    *)
(* as active.                                                              *)
Registering(r) ==
    \E w \in Workers :
      /\ r \in job[w].rule /\ job[w].op = "register" /\ job[w].pc \notin {"save", "write"}
      /\ r \in SrcLocal /\ WantsOn(RequestFor(job[w].batch, r))
RunningInv ==
    \A r \in Rules : clients[r] = "running" => Enabled(cache[r]) \/ Registering(r)

(* A rule with a task is the internal tool's.                              *)
OwnInv ==
    \A r \in Rules : clients[r] # "none" /\ cache[r] # Absent => ~External(cache[r].tool)

ClientsInv ==
    /\ orphans = {}
    /\ \A w \in Workers : RegisteringInv(w) /\ WorkingInv(w)
    /\ RunningInv /\ OwnInv
SilentInv == DownInv /\ Disjoint /\ ClientsInv


LEMMA SilentStep ==
    Orderly /\ BadAlone /\ TypeInv /\ SilentInv /\ [Next]_vars => SilentInv'
<1> SUFFICES ASSUME Orderly, BadAlone, TypeInv, SilentInv, [Next]_vars PROVE SilentInv'
  OBVIOUS
<1>one. OneAtATime
  BY DEF Orderly, OneAtATime
<1>base. DownInv' /\ Disjoint'
  BY <1>one, DownStep, DisjointStep DEF SilentInv
<1> USE DEF SilentInv
<1>inv. /\ orphans = {} /\ RunningInv /\ OwnInv
        /\ \A w \in Workers : RegisteringInv(w) /\ WorkingInv(w)
  BY DEF ClientsInv
<1> USE <1>inv
<1>type. /\ cache \in [Rules -> Rule] /\ db \in [Rules -> Rule]
         /\ clients \in [Rules -> {"none", "stopped", "running"}]
  BY DEF TypeInv, TypeOK
<1>1. ASSUME NEW w \in Workers, ThreadStep(w) PROVE ClientsInv'
  <2> DEFINE Mine(r) == /\ r \in job[w].rule /\ job[w].op = "register" /\ job[w].pc \notin {"save", "write"}
                        /\ r \in SrcLocal /\ WantsOn(RequestFor(job[w].batch, r))
             Runs(r) == clients[r] = "running" => Enabled(cache[r]) \/ Mine(r)
             Has(r) == clients[r] # "none" /\ cache[r] # Absent => ~External(cache[r].tool)
  <2>others. \A v \in Workers \ {w} : job'[v] = job[v]
    BY <1>1, StepJob DEF ThreadStep, TypeInv, TypeOK
  <2>job. /\ JobOK(job[w]) /\ job[w] \in Job /\ job[w].rule \subseteq Rules
          /\ job[w].pc = "idle" => job[w].rule = {}
    BY JobAt DEF TypeInv, JobsOK, JobOK, Job, Idle
  <2>mine. \A r \in job[w].rule : Runs(r) /\ Has(r)
    BY <2>job DEF RunningInv, OwnInv, Registering, Disjoint
  <2>frame. ASSUME orphans' = {}, RegisteringInv(w)', WorkingInv(w)',
                   \A r \in Rules \ job[w].rule : cache'[r] = cache[r] /\ clients'[r] = clients[r],
                   \A r \in job[w].rule : Runs(r)' /\ Has(r)'
            PROVE  ClientsInv'
    <3>1. ASSUME NEW v \in Workers \ {w} PROVE RegisteringInv(v)' /\ WorkingInv(v)'
      <4>1. \A r \in job[v].rule : cache'[r] = cache[r] /\ clients'[r] = clients[r]
        <5>1. job[v].rule \subseteq Rules \ job[w].rule
          BY <2>job DEF Disjoint, TypeInv, JobsOK, JobOK, Job
        <5> QED BY <5>1, <2>frame
      <4>2. RegisteringInv(v) /\ job'[v] = job[v]
        BY <2>others
      <4>3. RegisteringInv(v)'
        BY <4>1, <4>2 DEF RegisteringInv, Current
      <4> QED BY <4>1, <4>2, <4>3 DEF WorkingInv
    <3>2. ASSUME NEW r \in Rules \ job[w].rule
          PROVE  /\ clients'[r] = "running" => Enabled(cache'[r]) \/ Registering(r)'
                 /\ Has(r)'
      <4>1. Registering(r) => Registering(r)'
        BY <2>others DEF Registering
      <4> QED BY <4>1, <2>frame DEF RunningInv, OwnInv
    <3>3. \A r \in job[w].rule : Mine(r)' => Registering(r)'
      BY DEF Registering
    <3> QED BY <3>1, <3>2, <3>3, <2>frame DEF RunningInv, OwnInv, ClientsInv
  (* A registration that goes on with what it has.                         *)
  <2>same. ASSUME UNCHANGED <<cache, clients, orphans>>,
                  job[w].op = "register", job[w].pc \notin {"save", "write"}, job'[w].pc \notin {"save", "write"},
                  job'[w].op = job[w].op, job'[w].rule = job[w].rule, job'[w].batch = job[w].batch,
                  RulesOf(job'[w].todo) \subseteq RulesOf(job[w].todo),
                  job'[w].pc \in WithRule => ~External(Tool[Head(job'[w].todo).rule]),
                  job'[w].pc = "putClient" =>
                    /\ Head(job'[w].todo).rule \in SrcLocal
                    /\ job'[w].made = IF WantsOn(Head(job'[w].todo)) THEN "running" ELSE "stopped"
           PROVE  ClientsInv'
    <3>1. RegisteringInv(w)'
      BY <2>same DEF RegisteringInv, Current
    <3>2. WorkingInv(w)'
      <4>1. job'[w].pc \notin {"enable", "enableDB", "startClient", "disable", "disableDB",
                               "delete", "forget"}
        <5>1. JobOK(job'[w])
          BY TypeStep DEF TypeInv, JobsOK
        <5> QED BY <5>1, <2>same, JobAt DEF WithRule
      <4> QED BY <4>1 DEF WorkingInv
    <3> QED BY <2>same, <3>1, <3>2, <2>mine, <2>frame
  (* What a registration is at.                                            *)
  <2>at. ASSUME Registers(job[w]), job[w].pc \notin {"save", "write"}, job[w].todo # <<>>
         PROVE  /\ Current(w).rule \in job[w].rule /\ Current(w).rule \in RulesOf(job[w].todo)
                /\ Current(w) = RequestFor(job[w].batch, Current(w).rule)
                /\ clients[Current(w).rule] = "none"
                /\ \A r \in job[w].rule : cache[r] = Absent
                /\ RulesOf(Tail(job[w].todo)) \subseteq RulesOf(job[w].todo) \ {Current(w).rule}
    <3>1. job[w].op = "register"
      BY <2>at DEF Registers
    <3>2. /\ Current(w).rule \in job[w].rule /\ Current(w).rule \in RulesOf(job[w].todo)
          /\ Current(w) = RequestFor(job[w].batch, Current(w).rule)
          /\ RulesOf(Tail(job[w].todo)) \subseteq RulesOf(job[w].todo) \ {Current(w).rule}
      <4>1. /\ Head(job[w].todo).rule \in job[w].rule
            /\ Head(job[w].todo) = RequestFor(job[w].batch, Head(job[w].todo).rule)
            /\ RulesOf(job[w].todo) = RulesOf(Tail(job[w].todo)) \cup {Head(job[w].todo).rule}
            /\ Head(job[w].todo).rule \notin RulesOf(Tail(job[w].todo))
        BY <2>at, <2>job, TodoElements
      <4> QED BY <4>1 DEF Current
    <3> QED BY <2>at, <3>1, <3>2 DEF RegisteringInv
  <2>with. ASSUME job[w].pc \in WithRule PROVE Registers(job[w]) /\ job[w].todo # <<>>
    BY <2>with, <2>job, JobAt DEF Registers
  <2>register. Registers(job[w]) => job[w].op = "register"
    BY DEF Registers
  (* One that raises.                                                      *)
  <2>raise. ASSUME UNCHANGED <<cache, clients, orphans>>, Return(w), job[w].pc \in WithRule,
                   Current(w).rule \in Bad
            PROVE  ClientsInv'
    <3>1. job[w].rule = {Current(w).rule}
      BY <2>raise, <2>with, <2>at DEF BadAlone, Registers, WithRule
    <3>2. \A r \in job[w].rule : clients[r] = "none"
      BY <2>raise, <2>with, <2>at, <3>1 DEF WithRule
    <3>3. RegisteringInv(w)' /\ WorkingInv(w)'
      BY <2>raise, ReturnIs DEF RegisteringInv, WorkingInv, Idle
    <3> QED BY <2>raise, <3>2, <3>3, <2>frame
  (* A request about one rule that goes on, or returns.                    *)
  <2>rule. ASSUME Works(job[w])
           PROVE  JobRule(w) \in Rules /\ job[w].rule = {JobRule(w)} /\ job[w].op # "register"
    BY <2>rule, <2>job, JobRuleIs DEF Works
  <2>work. ASSUME Works(job[w]), orphans' = orphans,
                  \A r \in Rules \ {JobRule(w)} : cache'[r] = cache[r] /\ clients'[r] = clients[r],
                  job'[w].rule \subseteq job[w].rule, job'[w].op # "register",
                  \A r \in job[w].rule :
                    /\ clients'[r] = "running" => Enabled(cache'[r])
                    /\ Has(r)'
                    /\ job'[w].pc = "enable" => cache'[r] # Absent
                    /\ job'[w].pc \in {"enableDB", "startClient"} => Enabled(cache'[r])
                    /\ job'[w].pc \in {"disable", "disableDB", "delete", "forget"} =>
                         clients'[r] # "running"
                    /\ job'[w].pc \in {"disableDB", "delete"} => ~Enabled(cache'[r])
           PROVE  ClientsInv'
    <3>1. RegisteringInv(w)' /\ WorkingInv(w)'
      BY <2>work DEF RegisteringInv, WorkingInv
    <3> QED BY <2>work, <2>rule, <3>1, <2>frame
  <2>known. ASSUME Works(job[w]) PROVE clients[JobRule(w)] = "running" => Enabled(cache[JobRule(w)])
    BY <2>known, <2>rule, <2>mine
  <2>1. ASSUME Register(w) PROVE ClientsInv'
    <3>1. PICK b \in Batches :
             /\ MayServe(w, "register", RulesOf(b))
             /\ "reregister" \in Allowed \/ \A r \in RulesOf(b) :
                  cache[r] = Absent /\ db[r] = Absent /\ clients[r] = "none" /\ r \notin mock
             /\ job'[w].pc = "rule" /\ job'[w].op = "register" /\ job'[w].rule = RulesOf(b)
             /\ job'[w].todo = b /\ job'[w].batch = b
      BY <2>1, RegisterIs
    <3>2. job[w].rule = {} /\ UNCHANGED <<cache, clients, orphans>>
      BY <2>1, <3>1, <2>job DEF MayServe, Register, tasks
    <3>3. \A r \in RulesOf(b) : cache[r] = Absent /\ clients[r] = "none"
      BY <3>1 DEF Orderly
    <3>4. RegisteringInv(w)' /\ WorkingInv(w)'
      BY <3>1, <3>2, <3>3 DEF RegisteringInv, WorkingInv, WithRule
    <3> QED BY <3>2, <3>4, <2>frame
  <2>2. ASSUME SkipForeign(w) \/ RegisterExternal(w) PROVE ClientsInv'
    <3>1. /\ job[w].pc = "rule" /\ job[w].todo # <<>> /\ NextRule(w)
          /\ UNCHANGED <<cache, clients, orphans>>
      BY <2>2 DEF SkipForeign, RegisterExternal, tasks
    <3>2. Registers(job[w]) /\ job[w].op = "register"
      BY <3>1, <2>job, JobAt
    <3>3. RulesOf(Tail(job[w].todo)) \subseteq RulesOf(job[w].todo)
      BY <3>1, <3>2, <2>at
    <3> QED BY <3>1, <3>2, <3>3, <2>same, NextRuleIs DEF WithRule
  <2>3. ASSUME RegisterInternal(w) PROVE ClientsInv'
    <3>1. /\ job[w].pc = "rule" /\ Goto(w, "server") /\ ~External(Tool[Current(w).rule])
          /\ UNCHANGED <<cache, clients, orphans>>
      BY <2>3 DEF RegisterInternal, tasks
    <3>2. job[w].op = "register"
      BY <3>1, <2>job, JobAt
    <3> QED BY <3>1, <3>2, <2>same, GotoIs DEF Current
  <2>4. ASSUME AddServer(w) \/ PutServer(w) PROVE ClientsInv'
    <3>1. job[w].pc \in {"server", "putServer"} /\ UNCHANGED <<cache, clients, orphans>>
      BY <2>4 DEF AddServer, PutServer
    <3>2. \/ \E pc \in {"client", "putServer"} : Goto(w, pc)
          \/ Return(w) /\ Current(w).rule \in Bad
      BY <2>4 DEF AddServer, PutServer
    <3>3. ASSUME NEW pc \in {"client", "putServer"}, Goto(w, pc) PROVE ClientsInv'
      <4>1. job[w].op = "register" /\ ~External(Tool[Current(w).rule])
        BY <3>1, <2>with, <2>register DEF WithRule, RegisteringInv
      <4> QED BY <3>1, <3>3, <4>1, <2>same, GotoIs DEF Current
    <3> QED BY <3>1, <3>2, <3>3, <2>raise DEF WithRule
  <2>5. ASSUME AddClient(w) PROVE ClientsInv'
    <3> DEFINE Made == job' = [job EXCEPT ![w].pc = "putClient",
                          ![w].made = IF WantsOn(Current(w)) THEN "running" ELSE "stopped"]
    <3>1. /\ job[w].pc = "client" /\ UNCHANGED <<cache, clients, orphans>>
          /\ \/ NextRule(w)
             \/ Return(w) /\ Current(w).rule \in Bad
             \/ Made /\ Current(w).rule \in SrcLocal
      BY <2>5 DEF AddClient, tasks
    <3>2. Registers(job[w]) /\ job[w].todo # <<>> /\ job[w].op = "register"
      BY <3>1, <2>with, <2>register DEF WithRule
    <3>3. CASE NextRule(w)
      <4>1. RulesOf(Tail(job[w].todo)) \subseteq RulesOf(job[w].todo)
        BY <3>1, <3>2, <2>at
      <4> QED BY <3>1, <3>2, <3>3, <4>1, <2>same, NextRuleIs DEF WithRule
    <3>4. CASE Made /\ Current(w).rule \in SrcLocal
      <4>1. ~External(Tool[Current(w).rule])
        BY <3>1, <3>2 DEF WithRule, RegisteringInv
      <4> QED BY <3>1, <3>2, <3>4, <4>1, <2>same, MadeIs DEF Current
    <3> QED BY <3>1, <3>3, <3>4, <2>raise DEF WithRule
  <2>6. ASSUME PutClient(w) PROVE ClientsInv'
    <3> DEFINE q == Current(w).rule
    <3>1. Registers(job[w]) /\ job[w].todo # <<>> /\ job[w].op = "register"
      BY <2>6, <2>with, <2>register DEF WithRule, PutClient
    <3>2. /\ q \in job[w].rule /\ clients[q] = "none"
          /\ Current(w) = RequestFor(job[w].batch, q)
          /\ \A r \in job[w].rule : cache[r] = Absent
          /\ RulesOf(Tail(job[w].todo)) \subseteq RulesOf(job[w].todo) \ {q}
      BY <2>6, <3>1, <2>at DEF PutClient
    <3>3. /\ q \in SrcLocal /\ ~External(Tool[q])
          /\ job[w].made = IF WantsOn(Current(w)) THEN "running" ELSE "stopped"
      BY <2>6, <3>1 DEF RegisteringInv, PutClient, WithRule
    <3>4. /\ UNCHANGED cache /\ orphans' = {} /\ clients'[q] = job[w].made
          /\ \A r \in Rules \ {q} : clients'[r] = clients[r]
      BY <2>6, <3>2, <2>job, <1>type DEF PutClient
    <3>5. RegisteringInv(w)' /\ WorkingInv(w)'
      <4>1. /\ job'[w].rule = job[w].rule /\ job'[w].todo = Tail(job[w].todo)
            /\ job'[w].pc = "rule"
        BY <2>6, PutIs
      <4>2. \A r \in job[w].rule :
              /\ clients'[r] # "none" => r \in SrcLocal /\ ~External(Tool[r])
              /\ r \in RulesOf(Tail(job[w].todo)) => clients'[r] = "none"
        BY <2>6, <3>1, <3>2, <3>3, <3>4, <2>job DEF RegisteringInv, PutClient
      <4> QED BY <4>1, <4>2, <3>2, <3>4 DEF RegisteringInv, WorkingInv, WithRule
    <3>6. ASSUME NEW r \in job[w].rule PROVE Runs(r)' /\ Has(r)'
      <4>1. /\ job'[w].rule = job[w].rule /\ job'[w].op = "register" /\ job'[w].pc = "rule"
            /\ job'[w].batch = job[w].batch
        BY <2>6, <3>1, PutIs
      <4>2. CASE r = q
        BY <4>1, <4>2, <3>2, <3>3, <3>4
      <4>3. CASE r # q
        BY <4>1, <4>3, <3>1, <3>2, <3>4, <2>mine, <2>job
      <4> QED BY <4>2, <4>3
    <3> QED BY <3>2, <3>4, <3>5, <3>6, <2>frame
  <2>7. ASSUME CacheRules(w) PROVE ClientsInv'
    <3>1. Registers(job[w]) /\ job[w].op = "register"
      BY <2>7, <2>job, JobAt DEF CacheRules
    <3>2. job[w].batch \in Batches /\ job[w].rule = RulesOf(job[w].batch)
      BY <3>1 DEF Registers
    <3>3. /\ job'[w].rule = job[w].rule /\ job'[w].pc = "save" /\ job'[w].op = "register"
          /\ UNCHANGED <<clients, orphans>>
      BY <2>7, <3>1, GotoIs DEF CacheRules, tasks
    <3>4. \A r \in Rules : cache'[r] = IF r \in job[w].rule
                             THEN Entry(RequestFor(job[w].batch, r)) ELSE cache[r]
      BY <2>7, <3>2 DEF CacheRules
    <3>5. RegisteringInv(w)' /\ WorkingInv(w)'
      BY <3>3 DEF RegisteringInv, WorkingInv
    <3>6. ASSUME NEW r \in job[w].rule PROVE Runs(r)' /\ Has(r)'
      <4> DEFINE e == RequestFor(job[w].batch, r)
      <4>1. e \in Request /\ e.rule = r /\ cache'[r] = Entry(e)
        BY <3>2, <3>4, <2>job, BatchElements
      <4>2. cache[r] = Absent /\ (clients[r] # "none" => ~External(Tool[r]))
        BY <2>7, <3>1 DEF RegisteringInv, CacheRules
      <4>3. clients[r] = "running" => r \in SrcLocal /\ WantsOn(e)
        <5>1. ~Enabled(Absent)
          BY DEF Enabled, Absent
        <5> QED BY <5>1, <4>2, <2>mine
      <4> QED BY <4>1, <4>2, <4>3, <3>3 DEF Entry, WantsOn, Enabled
    <3> QED BY <3>3, <3>4, <3>5, <3>6, <2>frame
  <2>8. ASSUME SaveRules(w) PROVE ClientsInv'
    <3>1. UNCHANGED <<cache, clients, orphans>> /\ job[w].pc = "write" /\ job'[w] = Idle
      BY <2>8, ReturnIs DEF SaveRules, tasks
    <3>2. RegisteringInv(w)' /\ WorkingInv(w)'
      BY <3>1 DEF RegisteringInv, WorkingInv, Idle
    <3> QED BY <3>1, <3>2, <2>mine, <2>frame
  (* A request about one rule that begins.                                 *)
  <2>begin. ASSUME NEW r \in Rules, NEW op, op # "register", NEW pc,
                   MayServe(w, op, {r}), Begin(w, op, {r}, pc),
                   UNCHANGED <<cache, clients, orphans>>,
                   pc = "enable" => cache[r] # Absent,
                   pc \notin {"enableDB", "startClient", "disableDB", "delete"},
                   pc \in {"disable", "forget"} => clients[r] # "running"
            PROVE  ClientsInv'
    <3>1. job[w].rule = {} /\ job'[w].rule = {r} /\ job'[w].op # "register" /\ job'[w].pc = pc
      BY <2>begin, <2>job, BeginIs DEF MayServe
    <3>2. RegisteringInv(w)' /\ WorkingInv(w)'
      BY <2>begin, <3>1 DEF RegisteringInv, WorkingInv
    <3> QED BY <2>begin, <3>1, <3>2, <2>frame
  (* A rule that is not enabled, or not the internal tool's, has no        *)
  (* running client while no request is about it.                          *)
  <2>quiet. ASSUME NEW r \in Rules, NEW op \in {"stop", "unregister"}, MayServe(w, op, {r}),
                   ~Enabled(cache[r]) \/ cache[r].tool \in {"None", "other", "mock"}
            PROVE  clients[r] # "running"
    <3>1. ~Registering(r)
      <4>1. \A v \in Workers : job[v].rule \cap {r} = {}
        BY <2>quiet DEF MayServe, Orderly
      <4> QED BY <4>1 DEF Registering
    <3>2. CASE ~Enabled(cache[r])
      BY <3>1, <3>2 DEF RunningInv
    <3>3. CASE cache[r].tool \in {"None", "other", "mock"}
      <4>1. cache[r] # Absent /\ External(cache[r].tool)
        BY <3>3 DEF Absent, External
      <4> QED BY <4>1 DEF OwnInv
    <3> QED BY <2>quiet, <3>2, <3>3
  <2>9. ASSUME StartRule(w) PROVE ClientsInv'
    <3>1. PICK r \in Rules :
            /\ MayServe(w, "start", {r}) /\ cache[r].state \in {"INACTIVE", "None"}
            /\ Begin(w, "start", {r}, "enable") /\ UNCHANGED <<cache, clients, orphans>>
      BY <2>9 DEF StartRule
    <3>2. cache[r] # Absent
      BY <3>1 DEF Absent
    <3> QED BY <3>1, <3>2, <2>begin
  <2>stop. ASSUME NEW r \in Rules, NEW op \in {"stop", "unregister"}, MayServe(w, op, {r}),
                  StopOp(w, r, op), UNCHANGED <<cache, clients, orphans>>
           PROVE  ClientsInv'
    <3>1. CASE Begin(w, op, {r}, "stopClient")
      <4>1. /\ op # "register" /\ MayServe(w, op, {r})
            /\ UNCHANGED <<cache, clients, orphans>>
        BY <2>stop
      <4> QED BY <3>1, <4>1, <2>begin
    <3>2. CASE Begin(w, op, {r}, "disable") /\ cache[r].tool = "mock"
      <4>1. /\ op # "register" /\ MayServe(w, op, {r}) /\ clients[r] # "running"
            /\ UNCHANGED <<cache, clients, orphans>> /\ Begin(w, op, {r}, "disable")
        BY <3>2, <2>stop, <2>quiet
      <4> QED BY <4>1, <2>begin
    <3> QED BY <2>stop, <3>1, <3>2 DEF StopOp
  <2>10. ASSUME StopRule(w) PROVE ClientsInv'
    <3>1. PICK r \in Rules : /\ MayServe(w, "stop", {r}) /\ StopOp(w, r, "stop")
                             /\ UNCHANGED <<cache, clients, orphans>>
      BY <2>10 DEF StopRule
    <3> QED BY <3>1, <2>stop
  <2>11. ASSUME Unregister(w) PROVE ClientsInv'
    <3>1. PICK r \in Rules :
            /\ MayServe(w, "unregister", {r}) /\ UNCHANGED <<cache, clients, orphans>>
            /\ \/ StopOp(w, r, "unregister")
               \/ /\ ~Enabled(cache[r]) \/ cache[r].tool \in {"None", "other", "mock"}
                  /\ Begin(w, "unregister", {r}, "forget")
      BY <2>11 DEF Unregister
    <3>2. CASE StopOp(w, r, "unregister")
      BY <3>1, <3>2, <2>stop
    <3>3. CASE /\ ~Enabled(cache[r]) \/ cache[r].tool \in {"None", "other", "mock"}
               /\ Begin(w, "unregister", {r}, "forget")
      <4>1. clients[r] # "running"
        BY <3>1, <3>3, <2>quiet
      <4>2. /\ MayServe(w, "unregister", {r}) /\ Begin(w, "unregister", {r}, "forget")
            /\ UNCHANGED <<cache, clients, orphans>>
        BY <3>1, <3>3
      <4> QED BY <4>1, <4>2, <2>begin
    <3> QED BY <3>1, <3>2, <3>3
  <2>12. ASSUME EnableCached(w) PROVE ClientsInv'
    <3> DEFINE r == JobRule(w)
    <3>1. Works(job[w]) /\ r \in Rules /\ job[w].rule = {r} /\ job[w].op # "register" /\ Has(r)
      BY <2>12, <2>job, <2>rule, <2>mine, JobAt DEF EnableCached
    <3>2. cache[r] # Absent
      BY <2>12, <3>1 DEF EnableCached, WorkingInv
    <3>3. /\ Goto(w, "enableDB") /\ UNCHANGED <<clients, orphans>>
          /\ cache' = [cache EXCEPT ![r].state = "ACTIVE"]
      BY <2>12, <3>2 DEF EnableCached, tasks
    <3>4. cache'[r].state = "ACTIVE" /\ cache'[r].tool = cache[r].tool
      <4>1. cache[r] \in Rule
        BY <3>1, <1>type
      <4> QED BY <4>1, <3>1, <3>2, <3>3, <1>type, StateCache
    <3>5. /\ job'[w].pc = "enableDB" /\ job'[w].rule = job[w].rule /\ job'[w].op = job[w].op
          /\ \A q \in Rules \ {r} : cache'[q] = cache[q]
      BY <3>3, <1>type, GotoIs
    <3> QED BY <3>1, <3>2, <3>3, <3>4, <3>5, <2>work DEF Enabled
  <2>13. ASSUME EnableSaved(w) PROVE ClientsInv'
    <3> DEFINE r == JobRule(w)
    <3>1. Works(job[w]) /\ r \in Rules /\ job[w].rule = {r} /\ job[w].op # "register" /\ Has(r)
      BY <2>13, <2>job, <2>rule, <2>mine, JobAt DEF EnableSaved
    <3>2. Enabled(cache[r])
      BY <2>13, <3>1 DEF EnableSaved, WorkingInv
    <3>3. Goto(w, "startClient") /\ UNCHANGED <<cache, clients, orphans>>
      BY <2>13 DEF EnableSaved, tasks
    <3>4. job'[w].pc = "startClient" /\ job'[w].rule = job[w].rule /\ job'[w].op = job[w].op
      BY <3>3, GotoIs
    <3> QED BY <3>1, <3>2, <3>3, <3>4, <2>work
  <2>14. ASSUME StartClient(w) PROVE ClientsInv'
    <3> DEFINE r == JobRule(w)
    <3>1. Works(job[w]) /\ r \in Rules /\ job[w].rule = {r} /\ Has(r)
      BY <2>14, <2>job, <2>rule, <2>mine, JobAt DEF StartClient
    <3>2. Enabled(cache[r])
      BY <2>14, <3>1 DEF StartClient, WorkingInv
    <3>3. /\ job'[w] = Idle /\ UNCHANGED <<cache, orphans>>
          /\ clients'[r] # "none" => clients[r] # "none"
          /\ \A q \in Rules \ {r} : clients'[q] = clients[q]
      BY <2>14, <1>type, ReturnIs DEF StartClient
    <3> QED BY <3>1, <3>2, <3>3, <2>work DEF Idle
  (* A step of a stop, or of an unregistration, after the client stopped.  *)
  <2>stopped. ASSUME Works(job[w]), UNCHANGED orphans,
                     \A r \in job[w].rule :
                       job'[w].pc \in {"disableDB", "delete"} => ~Enabled(cache'[r]),
                     \A q \in Rules \ {JobRule(w)} :
                       cache'[q] = cache[q] /\ clients'[q] = clients[q],
                     \A r \in job[w].rule : clients'[r] # "running" /\ Has(r)',
                     \/ AfterStop(w)
                     \/ \E pc \in {"disable", "disableDB", "delete", "forget"} : Goto(w, pc)
                     \/ Return(w)
              PROVE  ClientsInv'
    <3>1. /\ job'[w].rule \in {job[w].rule, {}} /\ job'[w].op # "register"
          /\ job'[w].pc \notin {"enable", "enableDB", "startClient"}
      BY <2>stopped, <2>rule, GotoIs, ReturnIs DEF AfterStop, Idle
    <3> QED BY <2>stopped, <2>rule, <3>1, <2>work
  <2>15. ASSUME StopClient(w) PROVE ClientsInv'
    <3> DEFINE r == JobRule(w)
    <3>1. Works(job[w]) /\ r \in Rules /\ job[w].rule = {r} /\ Has(r)
      BY <2>15, <2>job, <2>rule, <2>mine, JobAt DEF StopClient
    <3>2. /\ Goto(w, "disable") /\ UNCHANGED <<cache, orphans>>
          /\ clients'[r] # "none" => clients[r] # "none"
          /\ clients'[r] # "running"
          /\ \A q \in Rules \ {r} : clients'[q] = clients[q]
      BY <2>15, <3>1, <1>type DEF StopClient
    <3>3. job'[w].pc = "disable"
      BY <3>2, GotoIs
    <3> QED BY <3>1, <3>2, <3>3, <2>stopped
  <2>16. ASSUME DisableCached(w) PROVE ClientsInv'
    <3> DEFINE r == JobRule(w)
    <3>1. Works(job[w]) /\ r \in Rules /\ job[w].rule = {r} /\ Has(r) /\ cache[r] \in Rule
      BY <2>16, <2>job, <2>rule, <2>mine, <1>type, JobAt DEF DisableCached
    <3>2. clients'[r] # "running" /\ UNCHANGED <<clients, orphans>>
      BY <2>16, <3>1 DEF DisableCached, WorkingInv, tasks
    <3>3. /\ AfterStop(w) \/ Goto(w, "disableDB")
          /\ \A q \in Rules \ {r} : cache'[q] = cache[q]
      BY <2>16, <1>type DEF DisableCached
    <3>4. cache'[r] # Absent /\ clients'[r] # "none" => ~External(cache'[r].tool)
      <4>1. CASE cache[r] = Absent
        BY <4>1, <2>16, <3>1, <3>2 DEF DisableCached
      <4>2. CASE cache[r] # Absent
        <5>1. cache'[r] = [cache[r] EXCEPT !.state = "INACTIVE"]
          BY <4>2, <2>16, <3>1, <1>type DEF DisableCached
        <5>2. cache'[r].tool = cache[r].tool
          BY <4>2, <5>1, <3>1, StateCache
        <5> QED BY <4>2, <5>2, <3>1, <3>2
      <4> QED BY <4>1, <4>2
    <3>5. job'[w].pc \in {"disableDB", "delete"} => ~Enabled(cache'[r])
      <4>1. CASE cache[r] = Absent
        <5>1. AfterStop(w)
          BY <4>1, <2>16 DEF DisableCached
        <5> QED BY <5>1, GotoIs, ReturnIs DEF AfterStop, Idle
      <4>2. CASE cache[r] # Absent
        <5>1. cache'[r] = [cache[r] EXCEPT !.state = "INACTIVE"]
          BY <4>2, <2>16, <3>1, <1>type DEF DisableCached
        <5> QED BY <4>2, <5>1, <3>1, StateCache DEF Enabled
      <4> QED BY <4>1, <4>2
    <3> QED BY <3>1, <3>2, <3>3, <3>4, <3>5, <2>stopped
  <2>17. ASSUME DisableSaved(w) \/ DeleteSaved(w) PROVE ClientsInv'
    <3> DEFINE r == JobRule(w)
    <3>1. Works(job[w]) /\ r \in Rules /\ job[w].rule = {r} /\ Has(r)
      BY <2>17, <2>job, <2>rule, <2>mine, JobAt DEF DisableSaved, DeleteSaved
    <3>2. clients'[r] # "running" /\ UNCHANGED <<cache, clients, orphans>>
      BY <2>17, <3>1 DEF DisableSaved, DeleteSaved, WorkingInv, tasks
    <3>3. AfterStop(w) \/ Return(w)
      BY <2>17 DEF DisableSaved, DeleteSaved
    <3>4. job'[w].pc \in {"forget", "idle"}
      BY <3>3, GotoIs, ReturnIs DEF AfterStop, Idle
    <3> QED BY <3>1, <3>2, <3>3, <3>4, <2>stopped
  <2>18. ASSUME ForgetCached(w) PROVE ClientsInv'
    <3> DEFINE r == JobRule(w)
    <3>1. Works(job[w]) /\ r \in Rules /\ job[w].rule = {r}
      BY <2>18, <2>job, <2>rule, JobAt DEF ForgetCached
    <3>2. clients'[r] # "running" /\ UNCHANGED <<clients, orphans>>
      BY <2>18, <3>1 DEF ForgetCached, WorkingInv, tasks
    <3>3. /\ Goto(w, "delete") /\ cache'[r] = Absent /\ ~Enabled(Absent)
          /\ \A q \in Rules \ {r} : cache'[q] = cache[q]
      BY <2>18, <3>1, <1>type DEF ForgetCached, Enabled, Absent
    <3> QED BY <3>1, <3>2, <3>3, <2>stopped
  <2>19. ASSUME ReadIds(w) PROVE ClientsInv'
    <3>1. UNCHANGED <<cache, clients, orphans>> /\ job[w].pc = "save"
      BY <2>19 DEF ReadIds, tasks
    <3>2. RegisteringInv(w)' /\ WorkingInv(w)'
      BY <2>19, ReadIs DEF RegisteringInv, WorkingInv
    <3> QED BY <3>1, <3>2, <2>mine, <2>frame
  (* What raises leaves the client as it is: one of a rule that is being   *)
  (* started has not been, one of a rule that is being stopped has.        *)
  <2>20. ASSUME Locked(w) PROVE ClientsInv'
    <3>1. UNCHANGED <<cache, clients, orphans>>
      BY <2>20 DEF Locked, tasks
    <3>2. CASE job[w].pc \in {"save", "write"}
      <4>1. job'[w] = Idle
        BY <2>20, <3>2, ReturnIs DEF Locked
      <4>2. RegisteringInv(w)' /\ WorkingInv(w)'
        BY <4>1 DEF RegisteringInv, WorkingInv, Idle
      <4> QED BY <3>1, <3>2, <4>1, <4>2, <2>mine, <2>frame
    <3>3. CASE job[w].pc \in {"enableDB", "disableDB", "forget", "delete"}
      <4>1. Works(job[w]) /\ job[w].rule = {JobRule(w)}
        BY <3>3, <2>job, <2>rule, JobAt
      <4>2. \A r \in job[w].rule : Has(r)' /\ (clients'[r] = "running" => Enabled(cache'[r]))
        BY <3>1, <4>1, <2>rule, <2>mine
      <4>3. AfterStop(w) \/ Return(w)
        BY <2>20, <3>3 DEF Locked
      <4>4. job'[w].pc \in {"forget", "idle"} /\ job'[w].op # "register"
            /\ job'[w].rule \subseteq job[w].rule
        BY <4>1, <4>3, <2>rule, GotoIs, ReturnIs DEF AfterStop, Idle
      <4>5. job'[w].pc = "forget" => \A r \in job[w].rule : clients'[r] # "running"
        <5>1. CASE job[w].pc = "enableDB"
          BY <5>1, <2>20, ReturnIs DEF Locked, Idle
        <5>2. CASE job[w].pc # "enableDB"
          BY <5>2, <3>1, <3>3 DEF WorkingInv
        <5> QED BY <5>1, <5>2
      <4> QED BY <3>1, <4>1, <4>2, <4>4, <4>5, <2>work
    <3> QED BY <2>20, <3>2, <3>3 DEF Locked
  <2> QED
    BY <1>1, <2>1, <2>2, <2>3, <2>4, <2>5, <2>6, <2>7, <2>8, <2>9, <2>10, <2>11, <2>12, <2>13,
       <2>14, <2>15, <2>16, <2>17, <2>18, <2>19, <2>20 DEF ThreadStep
<1>idle. ASSUME NEW v \in Workers, job'[v] = Idle PROVE RegisteringInv(v)' /\ WorkingInv(v)'
  BY <1>idle DEF RegisteringInv, WorkingInv, Idle
<1>2. CASE Crash
  <2>1. RunningInv' /\ OwnInv' /\ orphans' = {}
    BY <1>2 DEF Crash, RunningInv, OwnInv
  <2>2. ASSUME NEW v \in Workers PROVE RegisteringInv(v)' /\ WorkingInv(v)'
    BY <1>2, <1>idle DEF Crash
  <2> QED BY <1>base, <2>1, <2>2 DEF ClientsInv
<1>3. CASE Restart
  <2>2. ASSUME NEW v \in Workers PROVE RegisteringInv(v)' /\ WorkingInv(v)'
    BY <1>3, <1>idle DEF Restart, DownInv
  <2>3. RunningInv' /\ OwnInv' /\ orphans' = {}
    BY <1>3 DEF Restart, Resumed, RunningInv, OwnInv
  <2> QED BY <1>base, <2>2, <2>3 DEF ClientsInv
<1>4. CASE UNCHANGED vars
  <2>1. RunningInv' /\ OwnInv' /\ orphans' = {}
    BY <1>4 DEF vars, RunningInv, OwnInv, Registering
  <2>2. ASSUME NEW v \in Workers PROVE RegisteringInv(v)' /\ WorkingInv(v)'
    <3>1. RegisteringInv(v) /\ WorkingInv(v)
      OBVIOUS
    <3> QED BY <1>4, <3>1 DEF vars, RegisteringInv, WorkingInv, Current
  <2> QED BY <1>base, <2>1, <2>2 DEF ClientsInv
<1> QED BY <1>base, <1>1, <1>2, <1>3, <1>4 DEF Next, ThreadStep

LEMMA SilentAlways == Orderly /\ BadAlone => (Spec => [](TypeInv /\ SilentInv))
<1> DEFINE Inv == TypeInv /\ SilentInv
<1> SUFFICES ASSUME Orderly, BadAlone PROVE Spec => []Inv
  OBVIOUS
<1>1. Init => Inv
  BY TypeInit DEF Init, SilentInv, ClientsInv, DownInv, Disjoint, RegisteringInv, WorkingInv,
                  RunningInv, OwnInv, Idle
<1>2. Inv /\ [Next]_vars => Inv'
  BY TypeStep, SilentStep
<1> QED BY <1>1, <1>2, PTL DEF Spec

(* A rule that is not active sends no traffic once the requests about it   *)
(* have returned, whatever the requests about other rules do meanwhile,    *)
(* whatever statement on the table raises and whenever the process dies    *)
(* and is started again - as long as requests about one rule do not        *)
(* overlap and no rule is registered again (traffic_controller.py, start,  *)
(* stop and unregister).                                                   *)
THEOREM StoppedIsSilentHolds == Orderly /\ BadAlone => (Spec => []StoppedIsSilent)
<1> SUFFICES ASSUME Orderly, BadAlone PROVE Spec => []StoppedIsSilent
  OBVIOUS
<1>1. TypeInv /\ SilentInv => StoppedIsSilent
  BY DEF SilentInv, ClientsInv, RunningInv, Registering, StoppedIsSilent, Settled, Pinging
<1> QED BY <1>1, SilentAlways, PTL

(***************************************************************************)
(* Activity.                                                               *)
(***************************************************************************)
Own(r) == r \in SrcLocal /\ Tool[r] = "internal"

(* The rules that are not cold have a task as soon as they are known, *)
TaskInv ==
    \A r \in Rules \ cold : Own(r) /\ cache[r] # Absent => clients[r] # "none"

(* one that runs if the rule is active and was not denied it, *)
Turning == {"enableDB", "startClient", "disable"}
ActiveInv ==
    \A r \in Rules \ cold : Own(r) /\ Enabled(cache[r]) /\ failed[r] # "enable" =>
      clients[r] = "running" \/ \E w \in Workers : r \in job[w].rule /\ job[w].pc \in Turning

(* and that a registration has made.                                       *)
MadeInv(w) ==
    job[w].op = "register" =>
      IF job[w].pc \in {"save", "write"}
      THEN \A r \in job[w].rule : Own(r) /\ Enabled(cache[r]) => clients[r] = "running"
      ELSE \A r \in job[w].rule \ RulesOf(job[w].todo) :
             Own(r) => clients[r] = IF WantsOn(RequestFor(job[w].batch, r))
                                    THEN "running" ELSE "stopped"

PingInv == ToolInv /\ TaskInv /\ ActiveInv /\ \A w \in Workers : MadeInv(w)

LEMMA PingStep ==
    Orderly /\ BadAlone /\ TypeInv /\ SilentInv /\ PingInv /\ [MCNext]_<<vars, cold>> => PingInv'
<1> SUFFICES ASSUME Orderly, BadAlone, TypeInv, SilentInv, PingInv, [MCNext]_<<vars, cold>>
             PROVE  PingInv'
  OBVIOUS
<1>inv. /\ ToolInv /\ TaskInv /\ ActiveInv /\ \A w \in Workers : MadeInv(w)
        /\ DownInv /\ Disjoint /\ \A w \in Workers : RegisteringInv(w) /\ WorkingInv(w)
  BY DEF PingInv, SilentInv, ClientsInv
<1> USE <1>inv
<1>type. /\ cache \in [Rules -> Rule] /\ failed \in [Rules -> Writes]
         /\ clients \in [Rules -> {"none", "stopped", "running"}]
  BY DEF TypeInv, TypeOK
<1>tool. ToolInv'
  <2>1. [Next]_vars
    BY DEF MCNext, vars
  <2> QED BY <2>1, ToolStep
<1>absent. ~Enabled(Absent)
  BY DEF Enabled, Absent
<1>1. ASSUME NEW w \in Workers, ThreadStep(w), cold' = IF up THEN cold
             ELSE {r \in Rules : ~Enabled(db[r]) /\ db[r] # Absent}
      PROVE  PingInv'
  <2> DEFINE Tasked(r) == r \notin cold /\ Own(r) /\ cache[r] # Absent => clients[r] # "none"
             Wants(r) == r \notin cold /\ Own(r) /\ Enabled(cache[r])
             Active(r) == Wants(r) /\ failed[r] # "enable" =>
               clients[r] = "running" \/ (job[w].pc \in Turning /\ r \in job[w].rule)
  <2>others. \A v \in Workers \ {w} : job'[v] = job[v]
    BY <1>1, StepJob DEF ThreadStep, TypeInv, TypeOK
  <2>job. /\ JobOK(job[w]) /\ job[w] \in Job /\ job[w].rule \subseteq Rules
          /\ job[w].pc = "idle" => job[w].rule = {}
    BY JobAt DEF TypeInv, JobsOK, JobOK, Job, Idle
  <2>up. cold' = cold
    <3>1. job[w].pc # "idle" \/ up
      BY <1>1
      DEF ThreadStep, Register, SkipForeign, RegisterExternal, RegisterInternal, AddServer,
          PutServer, AddClient, PutClient, CacheRules, ReadIds, SaveRules, Locked, StartRule,
          EnableCached, EnableSaved, StartClient, StopRule, Unregister, StopClient, DisableCached,
          DisableSaved, DeleteSaved, ForgetCached, MayServe
    <3> QED BY <1>1, <3>1 DEF DownInv, Idle
  <2>mine. \A r \in job[w].rule : Tasked(r) /\ Active(r)
    BY <2>job DEF TaskInv, ActiveInv, Disjoint
  <2>frame. ASSUME MadeInv(w)',
                   \A r \in Rules \ job[w].rule :
                     cache'[r] = cache[r] /\ failed'[r] = failed[r] /\ clients'[r] = clients[r],
                   \A r \in job[w].rule : Tasked(r)' /\ Active(r)'
            PROVE  PingInv'
    <3>1. ASSUME NEW v \in Workers \ {w} PROVE MadeInv(v)'
      <4>1. \A r \in job[v].rule : clients'[r] = clients[r] /\ cache'[r] = cache[r]
        <5>1. job[v].rule \subseteq Rules \ job[w].rule
          BY <2>job DEF Disjoint, TypeInv, JobsOK, JobOK, Job
        <5> QED BY <5>1, <2>frame
      <4>2. MadeInv(v) /\ job'[v] = job[v]
        BY <2>others
      <4> QED BY <4>1, <4>2 DEF MadeInv
    <3>2. TaskInv'
      <4>1. ASSUME NEW r \in Rules \ job[w].rule PROVE Tasked(r)'
        BY <2>frame, <2>up DEF TaskInv
      <4> QED BY <4>1, <2>frame DEF TaskInv
    <3>3. ActiveInv'
      <4> SUFFICES ASSUME NEW r \in Rules \ cold', Own(r), Enabled(cache'[r]),
                          failed'[r] # "enable"
                   PROVE  \/ clients'[r] = "running"
                          \/ \E v \in Workers : r \in job'[v].rule /\ job'[v].pc \in Turning
        BY DEF ActiveInv
      <4>1. CASE r \in job[w].rule
        BY <4>1, <2>frame
      <4>2. CASE r \notin job[w].rule
        <5>1. /\ cache'[r] = cache[r] /\ clients'[r] = clients[r] /\ failed'[r] = failed[r]
              /\ r \notin cold
          BY <4>2, <2>frame, <2>up
        <5>2. clients[r] = "running" \/ \E v \in Workers : r \in job[v].rule /\ job[v].pc \in Turning
          BY <5>1 DEF ActiveInv
        <5> QED BY <4>2, <5>1, <5>2, <2>others
      <4> QED BY <4>1, <4>2
    <3> QED BY <1>tool, <3>1, <3>2, <3>3, <2>frame DEF PingInv
  <2>with. ASSUME job[w].pc \in WithRule PROVE Registers(job[w]) /\ job[w].todo # <<>>
    BY <2>with, <2>job, JobAt DEF Registers
  <2>register. Registers(job[w]) => job[w].op = "register" /\ job[w].pc \notin Turning
    BY DEF Registers, WithRule, Turning
  <2>head. ASSUME Registers(job[w]), job[w].todo # <<>>
           PROVE  /\ Current(w).rule \in job[w].rule
                  /\ Current(w) = RequestFor(job[w].batch, Current(w).rule)
                  /\ RulesOf(job[w].todo) = RulesOf(Tail(job[w].todo)) \cup {Current(w).rule}
    <3>1. /\ Head(job[w].todo).rule \in job[w].rule
          /\ Head(job[w].todo) = RequestFor(job[w].batch, Head(job[w].todo).rule)
          /\ RulesOf(job[w].todo) = RulesOf(Tail(job[w].todo)) \cup {Head(job[w].todo).rule}
      BY <2>head, <2>job, TodoElements
    <3> QED BY <3>1 DEF Current
  (* A registration that goes on with the rule it has, or past one that is *)
  (* none of this node's own, or raises.                                   *)
  <2>same. ASSUME UNCHANGED <<cache, failed, clients>>, Registers(job[w]), MadeInv(w)'
           PROVE  PingInv'
    <3>1. ASSUME NEW r \in job[w].rule PROVE Tasked(r)' /\ Active(r)'
      <4>1. job[w].pc \notin Turning
        BY <2>same, <2>register
      <4>2. Tasked(r) /\ Active(r)
        BY <2>mine
      <4> QED BY <4>1, <4>2, <2>same, <2>up
    <3> QED BY <2>same, <3>1, <2>frame
  <2>goto. ASSUME UNCHANGED <<cache, failed, clients>>, Registers(job[w]), job[w].pc \notin {"save", "write"},
                  job'[w].rule = job[w].rule, job'[w].todo = job[w].todo,
                  job'[w].batch = job[w].batch, job'[w].pc \notin {"save", "write"}
           PROVE  PingInv'
    <3>1. MadeInv(w)'
      BY <2>goto, <2>register DEF MadeInv
    <3> QED BY <2>goto, <3>1, <2>same
  <2>past. ASSUME UNCHANGED <<cache, failed, clients>>, Registers(job[w]), job[w].pc \notin {"save", "write"},
                  job[w].todo # <<>>, NextRule(w), ~Own(Current(w).rule)
           PROVE  PingInv'
    <3>1. MadeInv(w)'
      BY <2>past, <2>register, <2>head, NextRuleIs DEF MadeInv
    <3> QED BY <2>past, <3>1, <2>same
  <2>raise. ASSUME UNCHANGED <<cache, failed, clients>>, Registers(job[w]), Return(w)
            PROVE  PingInv'
    <3>1. MadeInv(w)'
      BY <2>raise, ReturnIs DEF MadeInv, Idle
    <3> QED BY <2>raise, <3>1, <2>same
  (* A request that begins.                                                *)
  <2>begin. ASSUME NEW rs, NEW op, op # "register", NEW pc, MayServe(w, op, rs),
                   Begin(w, op, rs, pc), UNCHANGED <<cache, failed, clients>>
            PROVE  PingInv'
    <3>1. job[w].rule = {} /\ job'[w].op # "register"
      BY <2>begin, <2>job, BeginIs DEF MayServe
    <3>2. MadeInv(w)'
      BY <3>1 DEF MadeInv
    <3> QED BY <2>begin, <3>1, <3>2, <2>frame
  (* One about one rule that goes on, or returns.                          *)
  <2>rule. ASSUME Works(job[w])
           PROVE  JobRule(w) \in Rules /\ job[w].rule = {JobRule(w)} /\ job[w].op # "register"
    BY <2>rule, <2>job, JobRuleIs DEF Works
  <2>work. ASSUME Works(job[w]),
                  \A r \in Rules \ {JobRule(w)} :
                    cache'[r] = cache[r] /\ failed'[r] = failed[r] /\ clients'[r] = clients[r],
                  job'[w].op # "register",
                  \A r \in job[w].rule : Tasked(r)' /\ Active(r)'
           PROVE  PingInv'
    <3>1. MadeInv(w)'
      BY <2>work DEF MadeInv
    <3> QED BY <2>work, <2>rule, <3>1, <2>frame
  <2>1. ASSUME Register(w) PROVE PingInv'
    <3>1. PICK b \in Batches :
             /\ MayServe(w, "register", RulesOf(b))
             /\ job'[w].rule = RulesOf(b) /\ job'[w].todo = b /\ job'[w].pc = "rule"
      BY <2>1, RegisterIs
    <3>2. job[w].rule = {} /\ UNCHANGED <<cache, failed, clients>>
      BY <2>1, <3>1, <2>job DEF MayServe, Register, tasks
    <3>3. MadeInv(w)'
      BY <3>1 DEF MadeInv
    <3> QED BY <3>2, <3>3, <2>frame
  <2>2. ASSUME SkipForeign(w) \/ RegisterExternal(w) PROVE PingInv'
    <3>1. /\ job[w].pc = "rule" /\ job[w].todo # <<>> /\ NextRule(w)
          /\ UNCHANGED <<cache, failed, clients>>
          /\ Current(w).rule \notin SrcLocal \/ External(Tool[Current(w).rule])
      BY <2>2 DEF SkipForeign, RegisterExternal, tasks
    <3>2. Registers(job[w]) /\ ~Own(Current(w).rule)
      BY <3>1, <2>job, JobAt DEF Own, External
    <3> QED BY <3>1, <3>2, <2>past
  <2>3. ASSUME RegisterInternal(w) PROVE PingInv'
    <3>1. job[w].pc = "rule" /\ Goto(w, "server") /\ UNCHANGED <<cache, failed, clients>>
      BY <2>3 DEF RegisterInternal, tasks
    <3>2. Registers(job[w])
      BY <3>1, <2>job, JobAt
    <3> QED BY <3>1, <3>2, <2>goto, GotoIs
  <2>4. ASSUME AddServer(w) \/ PutServer(w) PROVE PingInv'
    <3>1. job[w].pc \in {"server", "putServer"} /\ UNCHANGED <<cache, failed, clients>>
      BY <2>4 DEF AddServer, PutServer
    <3>2. Registers(job[w])
      BY <3>1, <2>with DEF WithRule
    <3>3. (\E pc \in {"client", "putServer"} : Goto(w, pc)) \/ Return(w)
      BY <2>4 DEF AddServer, PutServer
    <3>4. ASSUME NEW pc \in {"client", "putServer"}, Goto(w, pc) PROVE PingInv'
      BY <3>1, <3>2, <3>4, <2>goto, GotoIs
    <3> QED BY <3>1, <3>2, <3>3, <3>4, <2>raise
  <2>5. ASSUME AddClient(w) PROVE PingInv'
    <3> DEFINE q == Current(w).rule
               Made == job' = [job EXCEPT ![w].pc = "putClient",
                          ![w].made = IF WantsOn(Current(w)) THEN "running" ELSE "stopped"]
    <3>1. /\ job[w].pc = "client" /\ UNCHANGED <<cache, failed, clients>>
          /\ \/ NextRule(w) /\ (q \notin SrcLocal \/ clients[q] # "none")
             \/ Return(w) \/ Made
      BY <2>5 DEF AddClient, tasks
    <3>2. Registers(job[w]) /\ job[w].todo # <<>>
      BY <3>1, <2>with DEF WithRule
    <3>3. CASE NextRule(w) /\ (q \notin SrcLocal \/ clients[q] # "none")
      <4>1. clients[q] = "none"
        BY <3>1, <3>2, <2>head, <2>register DEF RegisteringInv
      <4> QED BY <3>1, <3>2, <3>3, <4>1, <2>past DEF Own
    <3>4. CASE Made
      BY <3>1, <3>2, <3>4, <2>goto, MadeIs
    <3> QED BY <3>1, <3>2, <3>3, <3>4, <2>raise
  <2>6. ASSUME PutClient(w) PROVE PingInv'
    <3> DEFINE q == Current(w).rule
    <3>1. Registers(job[w]) /\ job[w].todo # <<>> /\ job[w].pc = "putClient"
      BY <2>6, <2>with DEF WithRule, PutClient
    <3>2. /\ q \in job[w].rule /\ Current(w) = RequestFor(job[w].batch, q)
          /\ RulesOf(job[w].todo) = RulesOf(Tail(job[w].todo)) \cup {q}
      BY <3>1, <2>head
    <3>3. /\ job[w].made = IF WantsOn(Current(w)) THEN "running" ELSE "stopped"
          /\ \A r \in job[w].rule : cache[r] = Absent
      BY <3>1, <2>register DEF RegisteringInv
    <3>4. /\ UNCHANGED <<cache, failed>> /\ clients'[q] = job[w].made
          /\ \A r \in Rules \ {q} : clients'[r] = clients[r]
      BY <2>6, <3>2, <2>job, <1>type DEF PutClient
    <3>5. MadeInv(w)'
      <4>1. /\ job'[w].rule = job[w].rule /\ job'[w].todo = Tail(job[w].todo)
            /\ job'[w].batch = job[w].batch /\ job'[w].pc = "rule"
        BY <2>6, PutIs
      <4>2. ASSUME NEW r \in job[w].rule \ RulesOf(Tail(job[w].todo)), Own(r)
            PROVE  clients'[r] = IF WantsOn(RequestFor(job[w].batch, r)) THEN "running" ELSE "stopped"
        <5>1. CASE r = q
          BY <5>1, <3>2, <3>3, <3>4
        <5>2. CASE r # q
          BY <5>2, <4>2, <3>1, <3>2, <3>4, <2>register, <2>job DEF MadeInv
        <5> QED BY <5>1, <5>2
      <4> QED BY <4>1, <4>2 DEF MadeInv
    <3>6. ASSUME NEW r \in job[w].rule PROVE Tasked(r)' /\ Active(r)'
      <4>1. cache'[r] = Absent /\ ~Enabled(Absent)
        BY <3>3, <3>4 DEF Enabled, Absent
      <4> QED BY <4>1, <2>mine
    <3> QED BY <3>2, <3>4, <3>5, <3>6, <2>frame
  <2>7. ASSUME CacheRules(w) PROVE PingInv'
    <3>1. Registers(job[w]) /\ job[w].pc = "rule" /\ job[w].todo = <<>>
      BY <2>7, <2>job, JobAt DEF CacheRules
    <3>2. job[w].batch \in Batches /\ job[w].rule = RulesOf(job[w].batch)
      BY <3>1 DEF Registers
    <3>3. job'[w].pc = "save" /\ UNCHANGED <<failed, clients>>
      BY <2>7, GotoIs DEF CacheRules, tasks
    <3>4. \A r \in Rules : cache'[r] = IF r \in job[w].rule
                             THEN Entry(RequestFor(job[w].batch, r)) ELSE cache[r]
      BY <2>7, <3>2 DEF CacheRules
    <3>5. ASSUME NEW r \in job[w].rule, Own(r)
          PROVE  clients'[r] # "none" /\ (Enabled(cache'[r]) => clients'[r] = "running")
      <4> DEFINE e == RequestFor(job[w].batch, r)
      <4>1. e \in Request /\ e.rule = r /\ cache'[r] = Entry(e)
        BY <3>2, <3>4, <2>job, BatchElements
      <4>2. Enabled(cache'[r]) => WantsOn(e)
        BY <4>1 DEF Entry, Enabled, WantsOn
      <4>3. clients[r] = IF WantsOn(e) THEN "running" ELSE "stopped"
        <5>1. r \notin RulesOf(job[w].todo)
          BY <3>1 DEF RulesOf
        <5> QED BY <5>1, <3>1, <3>5, <2>register DEF MadeInv
      <4> QED BY <4>2, <4>3, <3>3
    <3>6. MadeInv(w)'
      <4>1. job'[w].rule = job[w].rule
        BY <2>7, GotoIs DEF CacheRules
      <4> QED BY <3>3, <3>5, <4>1 DEF MadeInv
    <3>7. \A r \in job[w].rule : Tasked(r)' /\ Active(r)'
      BY <3>5
    <3> QED BY <3>3, <3>4, <3>6, <3>7, <2>frame
  (* What is left of a registration when its rules are in the cache.       *)
  <2>saved. ASSUME UNCHANGED <<cache, clients>>, job[w].pc \in {"save", "write"},
                   \A r \in Rules \ job[w].rule : failed'[r] = failed[r],
                   job'[w] = Idle \/ (job'[w].pc = "write" /\ job'[w].rule = job[w].rule)
            PROVE  PingInv'
    <3>1. Registers(job[w]) /\ job[w].op = "register"
      BY <2>saved, <2>job, JobAt
    <3>2. \A r \in job[w].rule : Own(r) /\ Enabled(cache[r]) => clients[r] = "running"
      BY <2>saved, <3>1 DEF MadeInv
    <3>3. MadeInv(w)'
      BY <2>saved, <3>2 DEF MadeInv, Idle
    <3>4. \A r \in job[w].rule : Tasked(r)' /\ Active(r)'
      BY <2>saved, <3>2, <2>mine, <2>up
    <3> QED BY <2>saved, <3>3, <3>4, <2>frame
  <2>8. ASSUME SaveRules(w) PROVE PingInv'
    <3>1. /\ UNCHANGED <<cache, clients>> /\ job[w].pc = "write" /\ job'[w] = Idle
      BY <2>8, ReturnIs DEF SaveRules, tasks
    <3>2. job[w].rule = RulesOf(job[w].batch)
      BY <3>1, <2>job, JobAt DEF Registers
    <3>3. BeforeClash(w) \subseteq job[w].rule
      BY <3>2 DEF BeforeClash, RulesOf
    <3>4. PICK saved \in {job[w].rule, {}, BeforeClash(w)} :
            failed' = [r \in Rules |-> IF r \in saved THEN "none"
                                       ELSE IF r \in job[w].rule THEN "save" ELSE failed[r]]
      BY <2>8 DEF SaveRules
    <3>5. \A r \in Rules \ job[w].rule : failed'[r] = failed[r]
      BY <3>3, <3>4
    <3> QED BY <3>1, <3>5, <2>saved
  <2>9. ASSUME StartRule(w) PROVE PingInv'
    <3>1. \E r \in Rules : /\ MayServe(w, "start", {r}) /\ Begin(w, "start", {r}, "enable")
                           /\ UNCHANGED <<cache, failed, clients>>
      BY <2>9 DEF StartRule
    <3> QED BY <3>1, <2>begin
  <2>10. ASSUME StopRule(w) PROVE PingInv'
    <3>1. PICK r \in Rules : /\ MayServe(w, "stop", {r}) /\ UNCHANGED <<cache, failed, clients>>
                             /\ \E pc : Begin(w, "stop", {r}, pc)
      BY <2>10 DEF StopRule, StopOp
    <3> QED BY <3>1, <2>begin
  <2>11. ASSUME Unregister(w) PROVE PingInv'
    <3>1. PICK r \in Rules : /\ MayServe(w, "unregister", {r}) /\ UNCHANGED <<cache, failed, clients>>
                             /\ \E pc : Begin(w, "unregister", {r}, pc)
      BY <2>11 DEF Unregister, StopOp
    <3> QED BY <3>1, <2>begin
  <2>12. ASSUME EnableCached(w) PROVE PingInv'
    <3> DEFINE r == JobRule(w)
    <3>1. Works(job[w]) /\ r \in Rules /\ job[w].rule = {r} /\ job[w].op # "register"
      BY <2>12, <2>job, <2>rule, JobAt DEF EnableCached
    <3>2. cache[r] # Absent /\ cache[r] \in Rule
      BY <2>12, <3>1, <1>type DEF EnableCached, WorkingInv
    <3>3. /\ Goto(w, "enableDB") /\ UNCHANGED <<failed, clients>>
          /\ cache' = [cache EXCEPT ![r].state = "ACTIVE"]
      BY <2>12, <3>2 DEF EnableCached, tasks
    <3>5. /\ job'[w].pc = "enableDB" /\ job'[w].rule = job[w].rule /\ job'[w].op = job[w].op
          /\ \A q \in Rules \ {r} : cache'[q] = cache[q]
      BY <3>3, <1>type, GotoIs
    <3>6. \A q \in job[w].rule : Tasked(q)' /\ Active(q)'
      BY <3>1, <3>2, <3>3, <3>5, <2>mine, <2>up DEF Turning
    <3> QED BY <3>1, <3>3, <3>5, <3>6, <2>work
  <2>13. ASSUME EnableSaved(w) PROVE PingInv'
    <3> DEFINE r == JobRule(w)
    <3>1. Works(job[w]) /\ r \in Rules /\ job[w].rule = {r} /\ job[w].op # "register"
      BY <2>13, <2>job, <2>rule, JobAt DEF EnableSaved
    <3>2. Goto(w, "startClient") /\ UNCHANGED <<cache, clients>>
      BY <2>13 DEF EnableSaved, tasks
    <3>3. /\ job'[w].pc = "startClient" /\ job'[w].rule = job[w].rule /\ job'[w].op = job[w].op
          /\ \A q \in Rules \ {r} : failed'[q] = failed[q]
      BY <2>13, <3>2, <1>type, GotoIs DEF EnableSaved, Written
    <3>4. \A q \in job[w].rule : Tasked(q)' /\ Active(q)'
      BY <3>1, <3>2, <3>3, <2>mine, <2>up DEF Turning
    <3> QED BY <3>1, <3>2, <3>3, <3>4, <2>work
  <2>14. ASSUME StartClient(w) PROVE PingInv'
    <3> DEFINE r == JobRule(w)
    <3>1. Works(job[w]) /\ r \in Rules /\ job[w].rule = {r}
      BY <2>14, <2>job, <2>rule, JobAt DEF StartClient
    <3>2. /\ job'[w] = Idle /\ UNCHANGED <<cache, failed>>
          /\ clients'[r] = IF clients[r] = "none" THEN "none" ELSE "running"
          /\ \A q \in Rules \ {r} : clients'[q] = clients[q]
      BY <2>14, <3>1, <1>type, ReturnIs DEF StartClient
    <3>3. ~Enabled(Absent)
      BY DEF Enabled, Absent
    <3>4. ASSUME NEW q \in job[w].rule PROVE Tasked(q)' /\ Active(q)'
      <4>1. Tasked(q) /\ Active(q)
        BY <2>mine
      <4>2. Tasked(q)'
        BY <4>1, <3>1, <3>2, <3>3, <2>up
      <4>3. Active(q)'
        BY <4>1, <3>1, <3>2, <3>3, <2>up
      <4> QED BY <4>2, <4>3
    <3> QED BY <3>1, <3>2, <3>4, <2>work DEF Idle
  <2>15. ASSUME StopClient(w) PROVE PingInv'
    <3> DEFINE r == JobRule(w)
    <3>1. Works(job[w]) /\ r \in Rules /\ job[w].rule = {r} /\ job[w].op # "register"
      BY <2>15, <2>job, <2>rule, JobAt DEF StopClient
    <3>2. /\ Goto(w, "disable") /\ UNCHANGED <<cache, failed>>
          /\ clients'[r] = "none" => clients[r] = "none"
          /\ \A q \in Rules \ {r} : clients'[q] = clients[q]
      BY <2>15, <3>1, <1>type DEF StopClient
    <3>3. job'[w].pc = "disable" /\ job'[w].rule = job[w].rule /\ job'[w].op = job[w].op
      BY <3>2, GotoIs
    <3>4. \A q \in job[w].rule : Tasked(q)' /\ Active(q)'
      BY <3>1, <3>2, <3>3, <2>mine, <2>up DEF Turning
    <3> QED BY <3>1, <3>2, <3>3, <3>4, <2>work
  (* The job of a stop, or of an unregistration, that goes on or returns.  *)
  <2>stop. ASSUME Works(job[w]),
                  (\E pc : Goto(w, pc)) \/ AfterStop(w) \/ Return(w)
           PROVE  job'[w].op # "register"
    BY <2>stop, <2>rule, GotoIs, ReturnIs DEF AfterStop, Idle
  <2>16. ASSUME DisableCached(w) PROVE PingInv'
    <3> DEFINE r == JobRule(w)
    <3>1. Works(job[w]) /\ r \in Rules /\ job[w].rule = {r} /\ cache[r] \in Rule
      BY <2>16, <2>job, <2>rule, <1>type, JobAt DEF DisableCached
    <3>2. /\ UNCHANGED <<failed, clients>> /\ \A q \in Rules \ {r} : cache'[q] = cache[q]
          /\ AfterStop(w) \/ Goto(w, "disableDB")
      BY <2>16, <1>type DEF DisableCached, tasks
    <3>3. \A q \in job[w].rule : Tasked(q)' /\ Active(q)'
      <4>1. CASE cache[r] = Absent
        <5>1. cache'[r] = Absent /\ ~Enabled(Absent)
          BY <4>1, <2>16 DEF DisableCached, Enabled, Absent
        <5> QED BY <5>1, <3>1, <3>2, <2>mine
      <4>2. CASE cache[r] # Absent
        <5>1. cache'[r] = [cache[r] EXCEPT !.state = "INACTIVE"]
          BY <4>2, <2>16, <3>1, <1>type DEF DisableCached
        <5>2. ~Enabled(cache'[r])
          BY <4>2, <5>1, <3>1, StateCache DEF Enabled
        <5> QED BY <4>2, <5>2, <3>1, <3>2, <2>mine, <2>up
      <4> QED BY <4>1, <4>2
    <3> QED BY <3>1, <3>2, <3>3, <2>stop, <2>work
  (* A step after which the rule is not active.                            *)
  <2>off. ASSUME Works(job[w]), UNCHANGED clients,
                 \A q \in Rules \ {JobRule(w)} : cache'[q] = cache[q] /\ failed'[q] = failed[q],
                 cache'[JobRule(w)] \in {cache[JobRule(w)], Absent},
                 ~Enabled(cache'[JobRule(w)]),
                 (\E pc : Goto(w, pc)) \/ AfterStop(w) \/ Return(w)
          PROVE  PingInv'
    <3>1. JobRule(w) \in Rules /\ job[w].rule = {JobRule(w)}
      BY <2>off, <2>rule
    <3>2. \A q \in job[w].rule : Tasked(q)' /\ Active(q)'
      BY <2>off, <3>1, <2>mine, <2>up
    <3> QED BY <2>off, <3>2, <2>stop, <2>work
  <2>17. ASSUME DisableSaved(w) \/ DeleteSaved(w) PROVE PingInv'
    <3> DEFINE r == JobRule(w)
    <3>1. Works(job[w]) /\ r \in Rules /\ job[w].rule = {r}
      BY <2>17, <2>job, <2>rule, JobAt DEF DisableSaved, DeleteSaved
    <3>2. /\ UNCHANGED <<cache, clients>> /\ \A q \in Rules \ {r} : failed'[q] = failed[q]
          /\ AfterStop(w) \/ Return(w)
      BY <2>17, <1>type DEF DisableSaved, DeleteSaved, Written, tasks
    <3>3. ~Enabled(cache'[r])
      BY <2>17, <3>1, <3>2 DEF DisableSaved, DeleteSaved, WorkingInv
    <3> QED BY <3>1, <3>2, <3>3, <2>off
  <2>18. ASSUME ForgetCached(w) PROVE PingInv'
    <3> DEFINE r == JobRule(w)
    <3>1. Works(job[w]) /\ r \in Rules
      BY <2>18, <2>job, <2>rule, JobAt DEF ForgetCached
    <3>2. /\ UNCHANGED <<failed, clients>> /\ Goto(w, "delete") /\ cache'[r] = Absent
          /\ \A q \in Rules \ {r} : cache'[q] = cache[q]
      BY <2>18, <3>1, <1>type DEF ForgetCached, tasks
    <3> QED BY <3>1, <3>2, <1>absent, <2>off
  <2>19. ASSUME ReadIds(w) PROVE PingInv'
    <3>1. UNCHANGED <<cache, clients, failed>> /\ job[w].pc = "save"
      BY <2>19 DEF ReadIds, tasks
    <3> QED BY <2>19, <3>1, ReadIs, <2>saved
  (* A rule that was to be active and could not be saved so is on record   *)
  (* as denied; the others are not active.                                 *)
  <2>20. ASSUME Locked(w) PROVE PingInv'
    <3> DEFINE r == JobRule(w)
    <3>1. UNCHANGED <<cache, clients>>
      BY <2>20 DEF Locked, tasks
    <3>2. CASE job[w].pc \in {"save", "write"}
      <4>1. job'[w] = Idle /\ \A q \in Rules \ job[w].rule : failed'[q] = failed[q]
        BY <2>20, <3>2, ReturnIs DEF Locked
      <4> QED BY <3>1, <3>2, <4>1, <2>saved
    <3>3. CASE job[w].pc = "enableDB"
      <4>1. Works(job[w]) /\ r \in Rules /\ job[w].rule = {r}
        BY <3>3, <2>job, <2>rule, JobAt
      <4>2. Return(w) /\ failed' = [failed EXCEPT ![r] = "enable"]
        BY <2>20, <3>3 DEF Locked
      <4>3. failed'[r] = "enable" /\ \A q \in Rules \ {r} : failed'[q] = failed[q]
        BY <4>1, <4>2, <1>type
      <4>4. \A q \in job[w].rule : Tasked(q)' /\ Active(q)'
        BY <3>1, <4>1, <4>3, <2>mine, <2>up
      <4> QED BY <3>1, <4>1, <4>2, <4>3, <4>4, <2>stop, <2>work
    <3>4. CASE job[w].pc \in {"disableDB", "delete"}
      <4>1. Works(job[w]) /\ r \in Rules /\ job[w].rule = {r}
        BY <3>4, <2>job, <2>rule, JobAt
      <4>2. /\ AfterStop(w) \/ Return(w)
            /\ \A q \in Rules \ {r} : failed'[q] = failed[q]
        BY <2>20, <3>4, <1>type DEF Locked
      <4>3. ~Enabled(cache'[r])
        BY <3>1, <3>4, <4>1 DEF WorkingInv
      <4> QED BY <3>1, <4>1, <4>2, <4>3, <2>off
    <3>5. CASE job[w].pc = "forget"
      <4>1. Works(job[w]) /\ job[w].rule = {r} /\ Return(w) /\ UNCHANGED failed
        BY <2>20, <3>5, <2>job, <2>rule, JobAt DEF Locked
      <4>2. \A q \in job[w].rule : Tasked(q)' /\ Active(q)'
        BY <3>1, <3>5, <4>1, <2>mine, <2>up DEF Turning
      <4> QED BY <3>1, <4>1, <4>2, <2>stop, <2>work
    <3> QED BY <2>20, <3>2, <3>3, <3>4, <3>5 DEF Locked
  <2> QED
    BY <1>1, <2>1, <2>2, <2>3, <2>4, <2>5, <2>6, <2>7, <2>8, <2>9, <2>10, <2>11, <2>12, <2>13,
       <2>14, <2>15, <2>16, <2>17, <2>18, <2>19, <2>20 DEF ThreadStep
<1>idle. ASSUME \A v \in Workers : job'[v] = Idle PROVE \A v \in Workers : MadeInv(v)'
  BY <1>idle DEF MadeInv, Idle
<1>2. ASSUME Crash, cold' = IF up THEN cold ELSE {r \in Rules : ~Enabled(db[r]) /\ db[r] # Absent}
      PROVE  PingInv'
  <2>1. TaskInv' /\ ActiveInv'
    BY <1>2, <1>absent DEF Crash, TaskInv, ActiveInv
  <2> QED BY <1>2, <1>tool, <1>idle, <2>1 DEF Crash, PingInv
<1>3. ASSUME Restart, cold' = IF up THEN cold ELSE {r \in Rules : ~Enabled(db[r]) /\ db[r] # Absent}
      PROVE  PingInv'
  <2>1. \A r \in Rules : Own(r) /\ Enabled(db[r]) => clients'[r] = "running"
    <3>1. ASSUME NEW r \in Rules, Own(r), Enabled(db[r]) PROVE ~External(db[r].tool)
      BY <3>1, <1>absent DEF ToolInv, ToolOf, Own, External
    <3> QED BY <1>3, <3>1 DEF Restart, Resumed, Own
  <2>2. cache' = db /\ cold' = {r \in Rules : ~Enabled(db[r]) /\ db[r] # Absent}
    BY <1>3 DEF Restart
  <2>3. TaskInv' /\ ActiveInv'
    BY <1>absent, <2>1, <2>2 DEF TaskInv, ActiveInv
  <2>4. \A v \in Workers : job'[v] = Idle
    BY <1>3 DEF Restart, DownInv
  <2> QED BY <1>tool, <1>idle, <2>3, <2>4 DEF PingInv
<1>4. CASE UNCHANGED <<vars, cold>>
  <2>1. TaskInv' /\ ActiveInv'
    BY <1>4 DEF vars, TaskInv, ActiveInv
  <2>2. ASSUME NEW v \in Workers PROVE MadeInv(v)'
    BY <1>4 DEF vars, MadeInv
  <2> QED BY <1>tool, <2>1, <2>2 DEF PingInv
<1> QED BY <1>1, <1>2, <1>3, <1>4 DEF MCNext, Next, ThreadStep

(* An active rule of the internal tool sends traffic once the requests     *)
(* about it have returned, over crashes, restarts and locks not to be had, *)
(* unless it was not active at the last start or its own enabling raised   *)
(* (traffic_controller.py, register_traffic, start and                     *)
(* _resume_active_rules).                                                  *)
THEOREM ActivePingsHolds == Orderly /\ BadAlone => (MCSpec => []ActivePings)
<1> DEFINE Inv == TypeInv /\ SilentInv
<1> SUFFICES ASSUME Orderly, BadAlone PROVE MCSpec => []ActivePings
  OBVIOUS
<1>1. MCInit => Inv /\ PingInv
  <2> SUFFICES ASSUME Init, cold = {} PROVE Inv /\ PingInv
    BY DEF MCInit
  <2>1. Inv
    BY TypeInit
    DEF Init, SilentInv, ClientsInv, DownInv, Disjoint, RegisteringInv, WorkingInv, RunningInv,
        OwnInv, Idle
  <2>2. PingInv
    BY DEF Init, PingInv, ToolInv, TaskInv, ActiveInv, MadeInv, Idle, Enabled, Absent
  <2> QED BY <2>1, <2>2
<1>2. Inv /\ PingInv /\ [MCNext]_<<vars, cold>> => (Inv /\ PingInv)'
  <2>1. [MCNext]_<<vars, cold>> => [Next]_vars
    BY DEF MCNext
  <2> QED BY <2>1, TypeStep, SilentStep, PingStep
<1>3. Inv /\ PingInv => ActivePings
  BY DEF PingInv, ActiveInv, Own, ActivePings, Settled, Pinging
<1> QED BY <1>1, <1>2, <1>3, PTL DEF MCSpec
=============================================================================
