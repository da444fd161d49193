------------------------- MODULE ConfigStore_proofs -------------------------
(***************************************************************************)
(* Theorems about ConfigStore, for any number of threads, parameters,      *)
(* values and subscribers.                                                 *)
(***************************************************************************)
EXTENDS MCConfigStore, TLAPS

USE ConfigAssumption

(* The values Idle chooses exist. *)
LEMMA IdleIsJob == Idle \in Job
BY DEF Idle, Job

(* TypeCorrect: every reachable state is well typed, whatever the          *)
(* environment is allowed.                                                 *)
THEOREM TypeCorrect == Spec => []TypeOK
<1>1. Init => TypeOK
  BY IdleIsJob DEF Init, TypeOK
<1>2. TypeOK /\ [Next]_vars => TypeOK'
  <2> SUFFICES ASSUME TypeOK, [Next]_vars PROVE TypeOK'
    OBVIOUS
  <2>1. CASE Start
    <3>1. PICK file \in [Params -> Values \cup {Unset}] : params' = Loaded(file)
      BY <2>1 DEF Start
    <3>2. params' \in [Params -> Values]
      BY <3>1 DEF Loaded, TypeOK
    <3>3. views' \in [Subscribers -> [Params -> Values]] /\ own' \subseteq Own
      BY <2>1, <3>2 DEF Start, Subscribe
    <3> QED BY <2>1, <3>2, <3>3 DEF TypeOK, Start
  <2>2. CASE Crash
    BY <2>2, IdleIsJob DEF TypeOK, Crash
  <2>3. ASSUME NEW w \in Writers, NEW p \in Params, NEW v \in Values, SetParam(w, p, v)
        PROVE TypeOK'
    <3>1. [Idle EXCEPT !.pc = "persist", !.param = p, !.val = v] \in Job
      BY IdleIsJob DEF Job
    <3> QED BY <2>3, <3>1 DEF TypeOK, SetParam
  <2>3m. ASSUME NEW w \in Writers, NEW p \in Params, NEW v \in Values, SetMemory(w, p, v)
         PROVE TypeOK'
    BY <2>3m DEF TypeOK, SetMemory
  <2>4. ASSUME NEW w \in Writers, Persist(w) PROVE TypeOK'
    <3>1. job[w] \in Job
      BY DEF TypeOK
    <3>2. [job[w] EXCEPT !.pc = "notify", !.todo = Subscribers] \in Job
      BY <3>1 DEF Job
    <3> QED BY <2>4, <3>2 DEF TypeOK, Persist
  <2>5. ASSUME NEW w \in Writers, PersistTimeout(w) PROVE TypeOK'
    <3>1. job[w].param \in Params
      BY DEF TypeOK, Job
    <3> QED BY <2>5, <3>1, IdleIsJob DEF TypeOK, PersistTimeout
  <2>6. ASSUME NEW w \in Writers, ReadParam(w) PROVE TypeOK'
    <3>1. PICK s \in job[w].todo :
             job' = [job EXCEPT ![w].pc = "store", ![w].told = s,
                                ![w].got = params[job[w].param]]
      BY <2>6 DEF ReadParam
    <3>2. job[w] \in Job /\ s \in Subscribers /\ params[job[w].param] \in Values
      BY DEF TypeOK, Job
    <3>3. [job[w] EXCEPT !.pc = "store", !.told = s,
                         !.got = params[job[w].param]] \in Job
      BY <3>2 DEF Job
    <3> QED BY <2>6, <3>1, <3>3 DEF TypeOK, ReadParam
  <2>7. ASSUME NEW w \in Writers, StoreParam(w) PROVE TypeOK'
    <3>1. job[w] \in Job
      BY DEF TypeOK
    <3>2. [job[w] EXCEPT !.pc = "notify", !.told = NoSubscriber,
                         !.todo = job[w].todo \ {job[w].told}] \in Job
      BY <3>1 DEF Job
    <3>3. job' \in [Writers -> Job]
      BY <2>7, <3>2 DEF TypeOK, StoreParam
    <3>4. views' \in [Subscribers -> [Params -> Values]]
      BY <2>7, <3>1 DEF TypeOK, StoreParam, Job
    <3> QED BY <2>7, <3>3, <3>4 DEF TypeOK, StoreParam
  <2>8. ASSUME NEW w \in Writers, Commit(w) \/ CommitTimeout(w) PROVE TypeOK'
    <3>1. job[w].param \in Params /\ job[w].val \in Values
      BY DEF TypeOK, Job
    <3> QED BY <2>8, <3>1, IdleIsJob DEF TypeOK, Commit, CommitTimeout
  <2>9. CASE UNCHANGED vars
    BY <2>9 DEF TypeOK, vars
  <2> QED
    BY <2>1, <2>2, <2>3, <2>3m, <2>4, <2>5, <2>6, <2>7, <2>8, <2>9 DEF Next
<1> QED BY <1>1, <1>2, PTL DEF Spec

-----------------------------------------------------------------------------
(***************************************************************************)
(* SubscribersFresh.  It is not inductive: while calls are under way a     *)
(* stale copy has to be somebody's business.                               *)
(***************************************************************************)

InTransaction(w) == job[w].pc \in {"notify", "store"}
Persisting(p) == \E w \in Writers : job[w].pc = "persist" /\ job[w].param = p
Telling(p, s) ==
    \E w \in Writers : InTransaction(w) /\ job[w].param = p /\ s \in job[w].todo

(* The lock is held by the one writer in its transaction. *)
LockInv == \A w \in Writers : InTransaction(w) <=> lock = w

(* A copy that differs from memory will be told again. *)
ViewsInv ==
    up => \A p \in Params, s \in Subscribers :
             p \notin ahead /\ <<s, p>> \notin own /\ views[s][p] # params[p]
               => Persisting(p) \/ Telling(p, s)

(* What a subscriber has switched off is off until it is told. *)
OwnInv == \A p \in Params, s \in Subscribers : <<s, p>> \in own => views[s][p] = Off

(* A value read before memory changed: another writer follows. *)
GotInv ==
    \A w \in Writers : job[w].pc = "store" =>
        /\ job[w].told \in job[w].todo
        /\ job[w].param \notin ahead /\ job[w].got # params[job[w].param]
             => Persisting(job[w].param)

DownInv == ~up => \A w \in Writers : job[w].pc = "idle"

FreshInv == TypeOK /\ LockInv /\ ViewsInv /\ OwnInv /\ GotInv /\ DownInv

LEMMA IdleHasNoSteps == Idle.pc = "idle"
BY DEF Idle

LEMMA FreshInit == Init => FreshInv
BY IdleIsJob, IdleHasNoSteps
   DEF Init, FreshInv, TypeOK, LockInv, ViewsInv, OwnInv, GotInv, DownInv, InTransaction

LEMMA FreshStep == FreshInv /\ TypeOK' /\ [Next]_vars => FreshInv'
<1> SUFFICES ASSUME FreshInv, TypeOK', [Next]_vars PROVE FreshInv'
  OBVIOUS
<1> USE DEF FreshInv
<1>own. OwnInv'
  <2>1. CASE UNCHANGED <<own, views>>
    BY <2>1 DEF OwnInv
  <2>2. CASE Start
    BY <2>2 DEF Start, Subscribe, OwnInv
  <2>3. ASSUME NEW w \in Writers, StoreParam(w) PROVE OwnInv'
    BY <2>3 DEF StoreParam, OwnInv, TypeOK
  <2> QED BY <2>1, <2>2, <2>3 DEF vars, Next, Crash, SetParam, SetMemory, Persist, PersistTimeout,
             ReadParam, Commit, CommitTimeout
<1>1. CASE Start
  <2>1. \A w \in Writers : job'[w].pc = "idle"
    BY <1>1 DEF Start, DownInv
  <2>2. LockInv' /\ GotInv' /\ DownInv'
    BY <1>1, <2>1 DEF Start, LockInv, GotInv, DownInv, InTransaction
  <2>3. ViewsInv'
    BY <1>1 DEF Start, Subscribe, ViewsInv
  <2> QED BY <1>own, <2>2, <2>3
<1>2. CASE Crash
  <2>1. \A w \in Writers : job'[w].pc = "idle"
    BY <1>2, IdleHasNoSteps DEF Crash
  <2> QED BY <1>own, <1>2, <2>1 DEF Crash, LockInv, ViewsInv, GotInv, DownInv, InTransaction
<1>3. ASSUME NEW w \in Writers, NEW p \in Params, NEW v \in Values, SetParam(w, p, v)
      PROVE FreshInv'
  <2>1. job'[w].pc = "persist" /\ job'[w].param = p
    BY <1>3, IdleIsJob DEF SetParam, TypeOK, Job
  <2>2. \A u \in Writers \ {w} : job'[u] = job[u]
    BY <1>3 DEF SetParam, TypeOK
  <2>3. \A q \in Params \ {p} : params'[q] = params[q]
    BY <1>3 DEF SetParam, TypeOK
  <2>4. up' = up /\ lock' = lock /\ views' = views /\ own' = own /\ ahead' = ahead
        /\ up /\ job[w].pc = "idle"
    BY <1>3 DEF SetParam
  <2>5. Persisting(p)'
    BY <2>1 DEF Persisting
  <2>6. \A q \in Params : Persisting(q) => Persisting(q)'
    BY <2>2, <2>4, <2>5 DEF Persisting
  <2>7. LockInv'
    BY <2>1, <2>2, <2>4 DEF LockInv, InTransaction
  <2>8. ViewsInv'
    BY <2>2, <2>3, <2>4, <2>5, <2>6 DEF ViewsInv, Telling, InTransaction
  <2>9. GotInv'
    BY <2>1, <2>2, <2>3, <2>4, <2>5, <2>6 DEF GotInv, TypeOK, Job
  <2> QED BY <1>own, <2>4, <2>7, <2>8, <2>9 DEF DownInv
<1>3m. ASSUME NEW w \in Writers, NEW p \in Params, NEW v \in Values, SetMemory(w, p, v)
       PROVE FreshInv'
  <2>1. /\ up' = up /\ lock' = lock /\ views' = views /\ own' = own /\ job' = job /\ up
        /\ ahead' = ahead \cup {p}
    BY <1>3m DEF SetMemory
  <2>2. \A q \in Params \ {p} : params'[q] = params[q]
    BY <1>3m DEF SetMemory, TypeOK
  <2>3. \A w_1 \in Writers : job[w_1].param \in Params
    BY DEF TypeOK, Job
  <2>4. LockInv' /\ DownInv'
    BY <2>1 DEF LockInv, InTransaction, DownInv
  <2>5. ViewsInv'
    BY <2>1, <2>2 DEF ViewsInv, Persisting, Telling, InTransaction
  <2>6. GotInv'
    BY <2>1, <2>2, <2>3 DEF GotInv, Persisting
  <2> QED BY <1>own, <2>4, <2>5, <2>6
<1>4. ASSUME NEW w \in Writers, Persist(w) PROVE FreshInv'
  <2>1. job'[w].pc = "notify" /\ job'[w].param = job[w].param /\ job'[w].todo = Subscribers
    BY <1>4 DEF Persist, TypeOK, Job
  <2>2. \A u \in Writers \ {w} : job'[u] = job[u]
    BY <1>4 DEF Persist, TypeOK
  <2>3. /\ up' = up /\ params' = params /\ views' = views /\ own' = own /\ lock' = w
        /\ ahead' = ahead \ {job[w].param}
        /\ lock = NoWriter /\ job[w].pc = "persist"
    BY <1>4 DEF Persist
  <2>4. \A s \in Subscribers : Telling(job[w].param, s)'
    BY <2>1 DEF Telling, InTransaction
  <2>5. \A u \in Writers : job[u].pc \notin {"notify", "store"}
    BY <2>3 DEF LockInv, InTransaction
  <2>6. LockInv'
    BY <2>1, <2>2, <2>3, <2>5 DEF LockInv, InTransaction
  <2>7. ViewsInv'
    BY <2>1, <2>2, <2>3, <2>4, <2>5
       DEF ViewsInv, Telling, Persisting, InTransaction
  <2>8. GotInv'
    BY <2>1, <2>2, <2>5 DEF GotInv
  <2> QED BY <1>own, <2>3, <2>6, <2>7, <2>8 DEF DownInv
<1>5. ASSUME NEW w \in Writers, PersistTimeout(w) PROVE FreshInv'
  <2>1. job'[w].pc = "idle"
    BY <1>5, IdleHasNoSteps DEF PersistTimeout, TypeOK
  <2>2. \A u \in Writers \ {w} : job'[u] = job[u]
    BY <1>5 DEF PersistTimeout, TypeOK
  <2>3. /\ up' = up /\ params' = params /\ views' = views /\ own' = own /\ lock' = lock
        /\ ahead' = ahead \cup {job[w].param} /\ job[w].pc = "persist"
    BY <1>5 DEF PersistTimeout
  <2>4. \A q \in Params \ {job[w].param} : Persisting(q) => Persisting(q)'
    BY <2>2 DEF Persisting
  <2>5. LockInv'
    BY <2>1, <2>2, <2>3 DEF LockInv, InTransaction
  <2>6. ViewsInv'
    BY <2>2, <2>3, <2>4 DEF ViewsInv, Telling, InTransaction
  <2>7. GotInv'
    BY <2>1, <2>2, <2>3, <2>4 DEF GotInv, TypeOK, Job
  <2> QED BY <1>own, <2>1, <2>2, <2>3, <2>5, <2>6, <2>7 DEF DownInv
<1>6. ASSUME NEW w \in Writers, ReadParam(w) PROVE FreshInv'
  <2>0. PICK s \in job[w].todo :
           job' = [job EXCEPT ![w].pc = "store", ![w].told = s,
                              ![w].got = params[job[w].param]]
    BY <1>6 DEF ReadParam
  <2>1. /\ job'[w].pc = "store" /\ job'[w].param = job[w].param
        /\ job'[w].todo = job[w].todo /\ job'[w].told = s
        /\ job'[w].got = params[job[w].param]
    BY <2>0 DEF TypeOK, Job
  <2>2. \A u \in Writers \ {w} : job'[u] = job[u]
    BY <2>0 DEF TypeOK
  <2>3. /\ up' = up /\ params' = params /\ views' = views /\ own' = own /\ lock' = lock
        /\ ahead' = ahead /\ job[w].pc = "notify"
    BY <1>6 DEF ReadParam
  <2>4. \A q \in Params : Persisting(q) => Persisting(q)'
    BY <2>2, <2>3 DEF Persisting
  <2>5. \A q \in Params, t \in Subscribers : Telling(q, t) => Telling(q, t)'
    BY <2>1, <2>2 DEF Telling, InTransaction
  <2>6. LockInv'
    BY <2>1, <2>2, <2>3 DEF LockInv, InTransaction
  <2>7. ViewsInv'
    BY <2>3, <2>4, <2>5 DEF ViewsInv
  <2>8. GotInv'
    BY <2>1, <2>2, <2>3, <2>4 DEF GotInv, TypeOK, Job
  <2> QED BY <1>own, <2>3, <2>6, <2>7, <2>8 DEF DownInv
<1>7. ASSUME NEW w \in Writers, StoreParam(w) PROVE FreshInv'
  <2>1. /\ job'[w].pc = "notify" /\ job'[w].param = job[w].param
        /\ job'[w].todo = job[w].todo \ {job[w].told}
    BY <1>7 DEF StoreParam, TypeOK, Job
  <2>2. \A u \in Writers \ {w} : job'[u] = job[u]
    BY <1>7 DEF StoreParam, TypeOK
  <2>3. /\ up' = up /\ params' = params /\ lock' = lock /\ ahead' = ahead
        /\ job[w].pc = "store"
        /\ views' = [views EXCEPT ![job[w].told][job[w].param] = job[w].got]
    BY <1>7 DEF StoreParam
  <2>4. \A q \in Params : Persisting(q) => Persisting(q)'
    BY <2>2, <2>3 DEF Persisting
  <2>5. ASSUME NEW q \in Params, NEW t \in Subscribers,
               ~(q = job[w].param /\ t = job[w].told)
        PROVE views'[t][q] = views[t][q] /\ (<<t, q>> \in own' <=> <<t, q>> \in own) /\ (Telling(q, t) => Telling(q, t)')
    <3>1. views'[t][q] = views[t][q]
      BY <2>3, <2>5 DEF TypeOK
    <3>2. Telling(q, t) => Telling(q, t)'
      BY <2>1, <2>2, <2>5 DEF Telling, InTransaction
    <3>3. <<t, q>> \in own' <=> <<t, q>> \in own
      BY <1>7, <2>5 DEF StoreParam
    <3> QED BY <3>1, <3>2, <3>3
  <2>6. job[w].told \in Subscribers /\ job[w].param \in Params
    BY <2>3 DEF GotInv, TypeOK, Job
  <2>7. views'[job[w].told][job[w].param] = job[w].got
    BY <2>3, <2>6 DEF TypeOK
  <2>8. ViewsInv'
    <3> SUFFICES ASSUME up', NEW q \in Params, NEW t \in Subscribers,
                        q \notin ahead', <<t, q>> \notin own', views'[t][q] # params'[q]
                 PROVE (Persisting(q) \/ Telling(q, t))'
      BY DEF ViewsInv
    <3>1. CASE q = job[w].param /\ t = job[w].told
      BY <3>1, <2>3, <2>4, <2>7 DEF GotInv
    <3>2. CASE ~(q = job[w].param /\ t = job[w].told)
      BY <3>2, <2>3, <2>4, <2>5 DEF ViewsInv
    <3> QED BY <3>1, <3>2
  <2>9. LockInv'
    BY <2>1, <2>2, <2>3 DEF LockInv, InTransaction
  <2>10. GotInv'
    BY <2>1, <2>2, <2>3, <2>4 DEF GotInv, TypeOK, Job
  <2> QED BY <1>own, <2>3, <2>8, <2>9, <2>10 DEF DownInv
<1>8. ASSUME NEW w \in Writers, Commit(w) \/ CommitTimeout(w) PROVE FreshInv'
  <2>1. job'[w].pc = "idle"
    BY <1>8, IdleHasNoSteps DEF Commit, CommitTimeout, TypeOK
  <2>2. \A u \in Writers \ {w} : job'[u] = job[u]
    BY <1>8 DEF Commit, CommitTimeout, TypeOK
  <2>3. /\ up' = up /\ params' = params /\ views' = views /\ own' = own /\ lock' = NoWriter
        /\ ahead' = ahead /\ job[w].pc = "notify" /\ job[w].todo = {}
    BY <1>8 DEF Commit, CommitTimeout
  <2>4. \A q \in Params : Persisting(q) => Persisting(q)'
    BY <2>2, <2>3 DEF Persisting
  <2>5. \A q \in Params, t \in Subscribers : Telling(q, t) => Telling(q, t)'
    BY <2>2, <2>3 DEF Telling, InTransaction
  <2>6. \A u \in Writers \ {w} : ~InTransaction(u)
    BY <2>3 DEF LockInv, InTransaction
  <2>7. LockInv'
    BY <2>1, <2>2, <2>3, <2>6 DEF LockInv, InTransaction
  <2>8. ViewsInv'
    BY <2>3, <2>4, <2>5 DEF ViewsInv
  <2>9. GotInv'
    BY <2>1, <2>2, <2>6 DEF GotInv, InTransaction
  <2> QED BY <1>own, <2>1, <2>2, <2>3, <2>7, <2>8, <2>9 DEF DownInv
<1>9. CASE UNCHANGED vars
  BY <1>9, <1>own DEF vars, LockInv, ViewsInv, GotInv, DownInv, InTransaction, Persisting, Telling
<1> QED
  BY <1>1, <1>2, <1>3, <1>3m, <1>4, <1>5, <1>6, <1>7, <1>8, <1>9 DEF Next

(* SubscribersFreshHolds: once no set_param of a parameter is under way    *)
(* and the last to change memory reached its transaction, every            *)
(* subscriber's copy of it is memory's, or off where the subscriber has    *)
(* switched it off and not been told since, whatever the environment is    *)
(* allowed (config.py set_param, core.py).                                 *)
THEOREM SubscribersFreshHolds == Spec => []SubscribersFresh
<1>1. FreshInv => SubscribersFresh
  BY DEF FreshInv, ViewsInv, OwnInv, SubscribersFresh, Settled, Setting,
         Persisting, Telling, InTransaction
<1> QED BY <1>1, TypeCorrect, FreshInit, FreshStep, PTL DEF Spec

-----------------------------------------------------------------------------
(***************************************************************************)
(* UnracedReflects.  Of a parameter that one call sets at a time, the call *)
(* under way was the last to change memory; the subscribers it has told    *)
(* hold its value, those it has still to tell what the table holds.        *)
(***************************************************************************)

OneSets(p) == \A u, w \in Writers : Setting(u, p) /\ Setting(w, p) => u = w
SetsLast(p) == \A w \in Writers : Setting(w, p) => job[w].val = params[p]
Agrees(p) ==
    up /\ p \notin ahead \cup torn /\ db[p] # params[p] => \E w \in Writers : Setting(w, p)

Transaction(w, p) == InTransaction(w) /\ job[w].param = p
TellsVal(p) ==
    \A w \in Writers : Transaction(w, p) =>
      /\ job[w].pc = "store" => job[w].got = job[w].val /\ job[w].told \in job[w].todo
      /\ \A s \in Subscribers \ job[w].todo : views[s][p] = job[w].val /\ <<s, p>> \notin own
Untold(p, s) ==
    up /\ p \notin torn /\ (\A w \in Writers : Transaction(w, p) => s \in job[w].todo)
      => views[s][p] = IF <<s, p>> \in own THEN Off ELSE db[p]

Reflected(p) ==
    /\ OneSets(p) /\ SetsLast(p) /\ Agrees(p) /\ TellsVal(p)
    /\ \A s \in Subscribers : Untold(p, s)

(* The process that does not run sets nothing. *)
LEMMA DownReflects ==
    ASSUME NEW p \in Params, DownInv, ~up PROVE Reflected(p)
BY DEF DownInv, Reflected, OneSets, SetsLast, Agrees, TellsVal, Untold, Transaction,
       InTransaction, Setting

LEMMA DownHolds == FreshInv => DownInv
BY DEF FreshInv

(* A step that only moves the calls for other parameters. *)
LEMMA OtherStep ==
    ASSUME NEW p \in Params, Reflected(p), TypeOK, NEW w \in Writers,
           ~Setting(w, p), ~Setting(w, p)',
           \A u \in Writers \ {w} : job'[u] = job[u],
           up' = up, params'[p] = params[p], db'[p] = db[p],
           p \in ahead' <=> p \in ahead, p \in torn' <=> p \in torn,
           \A s \in Subscribers : views'[s][p] = views[s][p] /\ (<<s, p>> \in own' <=> <<s, p>> \in own)
    PROVE  Reflected(p)'
<1>1. \A u \in Writers : /\ Setting(u, p)' <=> Setting(u, p)
                         /\ Setting(u, p) => job'[u] = job[u]
  BY DEF Setting
<1>2. \A u \in Writers : /\ Transaction(u, p)' <=> Transaction(u, p)
                         /\ Transaction(u, p) => job'[u] = job[u]
  BY DEF Transaction, InTransaction, Setting
<1>3. OneSets(p)' /\ SetsLast(p)' /\ Agrees(p)'
  BY <1>1 DEF Reflected, OneSets, SetsLast, Agrees
<1>4. TellsVal(p)'
  BY <1>2 DEF Reflected, TellsVal
<1>5. \A s \in Subscribers : Untold(p, s)'
  BY <1>2 DEF Reflected, Untold
<1> QED BY <1>3, <1>4, <1>5 DEF Reflected

(* What the steps of call w do to its job, and to nobody else's. *)
LEMMA JobSteps ==
    ASSUME TypeOK, NEW w \in Writers
    PROVE  /\ \A q \in Params, v \in Values : SetParam(w, q, v) =>
                /\ job[w].pc = "idle" /\ job'[w].pc = "persist" /\ job'[w].param = q /\ job'[w].val = v
                /\ \A u \in Writers \ {w} : job'[u] = job[u]
                /\ \A p \in Params : params'[p] = IF p = q THEN v ELSE params[p]
           /\ Persist(w) =>
                /\ job[w].pc = "persist" /\ job'[w].pc = "notify" /\ job'[w].todo = Subscribers
                /\ job'[w].param = job[w].param /\ job'[w].val = job[w].val
                /\ \A u \in Writers \ {w} : job'[u] = job[u]
           /\ ReadParam(w) =>
                /\ job[w].pc = "notify" /\ job'[w].pc = "store" /\ job'[w].todo = job[w].todo
                /\ job'[w].param = job[w].param /\ job'[w].val = job[w].val
                /\ job'[w].got = params[job[w].param] /\ job'[w].told \in job[w].todo
                /\ \A u \in Writers \ {w} : job'[u] = job[u]
           /\ StoreParam(w) =>
                /\ job[w].pc = "store" /\ job'[w].pc = "notify"
                /\ job'[w].todo = job[w].todo \ {job[w].told}
                /\ job'[w].param = job[w].param /\ job'[w].val = job[w].val
                /\ \A u \in Writers \ {w} : job'[u] = job[u]
           /\ PersistTimeout(w) \/ Commit(w) \/ CommitTimeout(w) =>
                /\ job'[w].pc = "idle" /\ \A u \in Writers \ {w} : job'[u] = job[u]
<1>1. ASSUME NEW q \in Params, NEW v \in Values, SetParam(w, q, v)
      PROVE  /\ job[w].pc = "idle" /\ job'[w].pc = "persist" /\ job'[w].param = q
             /\ job'[w].val = v /\ \A u \in Writers \ {w} : job'[u] = job[u]
             /\ \A p \in Params : params'[p] = IF p = q THEN v ELSE params[p]
  BY <1>1, IdleIsJob DEF SetParam, TypeOK, Job
<1>2. ASSUME Persist(w)
      PROVE  /\ job[w].pc = "persist" /\ job'[w].pc = "notify" /\ job'[w].todo = Subscribers
             /\ job'[w].param = job[w].param /\ job'[w].val = job[w].val
             /\ \A u \in Writers \ {w} : job'[u] = job[u]
  BY <1>2 DEF Persist, TypeOK, Job
<1>3. ASSUME ReadParam(w)
      PROVE  /\ job[w].pc = "notify" /\ job'[w].pc = "store" /\ job'[w].todo = job[w].todo
             /\ job'[w].param = job[w].param /\ job'[w].val = job[w].val
             /\ job'[w].got = params[job[w].param] /\ job'[w].told \in job[w].todo
             /\ \A u \in Writers \ {w} : job'[u] = job[u]
  <2>1. PICK s \in job[w].todo :
           job' = [job EXCEPT ![w].pc = "store", ![w].told = s,
                              ![w].got = params[job[w].param]]
    BY <1>3 DEF ReadParam
  <2>2. job[w].pc = "notify" /\ job[w] \in Job /\ job \in [Writers -> Job]
    BY <1>3 DEF ReadParam, TypeOK
  <2>3. job'[w] = [job[w] EXCEPT !.pc = "store", !.told = s, !.got = params[job[w].param]]
    BY <2>1, <2>2
  <2>4. \A u \in Writers \ {w} : job'[u] = job[u]
    BY <2>1, <2>2
  <2> QED BY <2>2, <2>3, <2>4 DEF Job
<1>4. ASSUME StoreParam(w)
      PROVE  /\ job[w].pc = "store" /\ job'[w].pc = "notify"
             /\ job'[w].todo = job[w].todo \ {job[w].told}
             /\ job'[w].param = job[w].param /\ job'[w].val = job[w].val
             /\ \A u \in Writers \ {w} : job'[u] = job[u]
  BY <1>4 DEF StoreParam, TypeOK, Job
<1>5. ASSUME PersistTimeout(w) \/ Commit(w) \/ CommitTimeout(w)
      PROVE  job'[w].pc = "idle" /\ \A u \in Writers \ {w} : job'[u] = job[u]
  BY <1>5, IdleHasNoSteps DEF PersistTimeout, Commit, CommitTimeout, TypeOK
<1> QED BY <1>1, <1>2, <1>3, <1>4, <1>5

(* A step leaves p reflected as long as one call sets it at a time and     *)
(* nobody changes memory under that call.                                  *)
LEMMA ReflectStep ==
    ASSUME FreshInv, NEW p \in Params, Reflected(p), OneSets(p)',
           params'[p] # params[p] => \A w \in Writers : ~Setting(w, p),
           [Next]_vars
    PROVE  Reflected(p)'
<1>now. /\ TypeOK /\ LockInv /\ DownInv /\ GotInv
        /\ OneSets(p) /\ SetsLast(p) /\ Agrees(p) /\ TellsVal(p)
        /\ \A s \in Subscribers : Untold(p, s)
  BY DEF FreshInv, Reflected
<1>1. CASE Start
  <2>1. \A w \in Writers : job'[w].pc = "idle"
    BY <1>now, <1>1 DEF Start, DownInv
  <2>2. SetsLast(p)' /\ TellsVal(p)'
    BY <2>1 DEF SetsLast, Setting, TellsVal, Transaction, InTransaction
  <2>3. Agrees(p)' /\ \A s \in Subscribers : Untold(p, s)'
    BY <1>1 DEF Start, Subscribe, Agrees, Untold
  <2> QED BY <2>2, <2>3 DEF Reflected
<1>2. CASE Crash
  <2>1. \A w \in Writers : job'[w].pc = "idle"
    BY <1>2, IdleHasNoSteps DEF Crash
  <2> QED BY <1>2, <2>1 DEF Crash, Reflected, SetsLast, Agrees, Setting, TellsVal, Untold,
                            Transaction, InTransaction
<1>3. ASSUME NEW w \in Writers, NEW q \in Params, NEW v \in Values, SetParam(w, q, v)
      PROVE  Reflected(p)'
  <2>1. /\ job[w].pc = "idle" /\ job'[w].pc = "persist" /\ job'[w].param = q /\ job'[w].val = v
        /\ \A u \in Writers \ {w} : job'[u] = job[u]
        /\ params'[p] = IF p = q THEN v ELSE params[p]
    BY <1>now, <1>3, JobSteps
  <2>2. UNCHANGED <<up, db, views, own, ahead, torn>>
    BY <1>3 DEF SetParam
  <2>3. CASE p = q
    <3>1. \A u \in Writers : Setting(u, p)' => u = w
      BY <2>1, <2>3 DEF OneSets, Setting
    <3>2. SetsLast(p)' /\ Agrees(p)'
      BY <2>1, <2>3, <3>1 DEF SetsLast, Agrees, Setting
    <3>3. \A u \in Writers : ~Transaction(u, p) /\ ~Transaction(u, p)'
      BY <2>1, <2>3, <3>1 DEF Transaction, InTransaction, Setting
    <3> QED BY <1>now, <2>2, <3>2, <3>3 DEF Reflected, TellsVal, Untold
  <2>4. CASE p # q
    <3>1. ~Setting(w, p) /\ ~Setting(w, p)'
      BY <2>1, <2>4 DEF Setting
    <3> QED BY <1>now, <2>1, <2>2, <2>4, <3>1, OtherStep
  <2> QED BY <2>3, <2>4
<1>4. ASSUME NEW w \in Writers, NEW q \in Params, NEW v \in Values, SetMemory(w, q, v)
      PROVE  Reflected(p)'
  <2>1. UNCHANGED <<up, db, views, own, job, torn>> /\ ahead' = ahead \cup {q} /\ job[w].pc = "idle"
    BY <1>4 DEF SetMemory
  <2>2. params'[p] = params[p] \/ (p = q /\ \A u \in Writers : ~Setting(u, p))
    BY <1>now, <1>4 DEF SetMemory, TypeOK
  <2>3. SetsLast(p)' /\ Agrees(p)'
    BY <1>now, <2>1, <2>2 DEF SetsLast, Agrees, Setting
  <2> QED BY <1>now, <2>1, <2>3 DEF Reflected, TellsVal, Untold, Transaction, InTransaction
<1>5. ASSUME NEW w \in Writers, Persist(w) PROVE Reflected(p)'
  <2>1. /\ job[w].pc = "persist" /\ job'[w].pc = "notify" /\ job'[w].todo = Subscribers
        /\ job'[w].param = job[w].param /\ job'[w].val = job[w].val
        /\ \A u \in Writers \ {w} : job'[u] = job[u]
    BY <1>now, <1>5, JobSteps
  <2>2. /\ UNCHANGED <<up, params, db, views, own, torn>> /\ ahead' = ahead \ {job[w].param}
        /\ lock = NoWriter
    BY <1>5 DEF Persist
  <2>3. CASE job[w].param = p
    <3>1. \A u \in Writers : ~Transaction(u, p) /\ (Transaction(u, p)' => u = w)
      BY <1>now, <2>1, <2>2 DEF LockInv, Transaction, InTransaction
    <3>2. SetsLast(p)' /\ Agrees(p)'
      BY <1>now, <2>1, <2>2, <2>3 DEF SetsLast, Agrees, Setting
    <3>3. TellsVal(p)'
      BY <2>1, <3>1 DEF TellsVal
    <3>4. \A s \in Subscribers : Untold(p, s)'
      BY <1>now, <2>2, <3>1 DEF Untold
    <3> QED BY <3>2, <3>3, <3>4 DEF Reflected
  <2>4. CASE job[w].param # p
    <3>1. ~Setting(w, p) /\ ~Setting(w, p)' /\ (p \in ahead' <=> p \in ahead)
      BY <2>1, <2>2, <2>4 DEF Setting
    <3> QED BY <1>now, <2>1, <2>2, <3>1, OtherStep
  <2> QED BY <2>3, <2>4
<1>6. ASSUME NEW w \in Writers, ReadParam(w) PROVE Reflected(p)'
  <2>1. /\ job[w].pc = "notify" /\ job'[w].pc = "store" /\ job'[w].todo = job[w].todo
        /\ job'[w].param = job[w].param /\ job'[w].val = job[w].val
        /\ job'[w].got = params[job[w].param] /\ job'[w].told \in job[w].todo
        /\ \A u \in Writers \ {w} : job'[u] = job[u]
    BY <1>now, <1>6, JobSteps
  <2>2. UNCHANGED <<up, params, db, views, own, ahead, torn>>
    BY <1>6 DEF ReadParam
  <2>3. CASE job[w].param = p
    <3>1. \A u \in Writers : /\ Transaction(u, p)' <=> Transaction(u, p)
                             /\ job'[u].todo = job[u].todo /\ job'[u].val = job[u].val
                             /\ Setting(u, p)' <=> Setting(u, p)
      BY <2>1 DEF Transaction, InTransaction, Setting
    <3>2. job'[w].got = job'[w].val
      BY <1>now, <2>1, <2>3 DEF SetsLast, Setting
    <3>3. SetsLast(p)' /\ Agrees(p)'
      BY <1>now, <2>2, <3>1 DEF SetsLast, Agrees
    <3>4. TellsVal(p)'
      BY <1>now, <2>1, <2>2, <3>1, <3>2 DEF TellsVal
    <3>5. \A s \in Subscribers : Untold(p, s)'
      BY <1>now, <2>2, <3>1 DEF Untold
    <3> QED BY <3>3, <3>4, <3>5 DEF Reflected
  <2>4. CASE job[w].param # p
    <3>1. ~Setting(w, p) /\ ~Setting(w, p)'
      BY <2>1, <2>4 DEF Setting
    <3> QED BY <1>now, <2>1, <2>2, <3>1, OtherStep
  <2> QED BY <2>3, <2>4
<1>7. ASSUME NEW w \in Writers, StoreParam(w) PROVE Reflected(p)'
  <2>1. /\ job[w].pc = "store" /\ job'[w].pc = "notify"
        /\ job'[w].todo = job[w].todo \ {job[w].told}
        /\ job'[w].param = job[w].param /\ job'[w].val = job[w].val
        /\ \A u \in Writers \ {w} : job'[u] = job[u]
    BY <1>now, <1>7, JobSteps
  <2>2. /\ UNCHANGED <<up, params, db, ahead, torn>>
        /\ views' = [views EXCEPT ![job[w].told][job[w].param] = job[w].got]
        /\ own' = own \ {<<job[w].told, job[w].param>>}
    BY <1>7 DEF StoreParam
  <2>3. ASSUME NEW s \in Subscribers, s # job[w].told \/ p # job[w].param
        PROVE  views'[s][p] = views[s][p] /\ (<<s, p>> \in own' <=> <<s, p>> \in own)
    BY <1>now, <2>2, <2>3 DEF TypeOK
  <2>4. CASE job[w].param = p
    <3>1. \A u \in Writers : /\ Transaction(u, p)' <=> Transaction(u, p)
                             /\ Setting(u, p)' <=> Setting(u, p)
                             /\ job'[u].val = job[u].val
      BY <2>1 DEF Transaction, InTransaction, Setting
    <3>2. Transaction(w, p) /\ \A u \in Writers : Transaction(u, p) => u = w
      BY <1>now, <2>1, <2>4 DEF Transaction, InTransaction, LockInv
    <3>3. job[w].got = job[w].val /\ job[w].told \in Subscribers
      BY <1>now, <2>1, <3>2 DEF TellsVal, TypeOK, Job
    <3>4. views'[job[w].told][p] = job[w].val /\ <<job[w].told, p>> \notin own'
      BY <1>now, <2>2, <2>4, <3>3 DEF TypeOK
    <3>5. SetsLast(p)' /\ Agrees(p)'
      BY <1>now, <2>2, <3>1 DEF SetsLast, Agrees
    <3>6. TellsVal(p)'
      <4>1. \A s \in Subscribers \ job'[w].todo : views'[s][p] = job[w].val /\ <<s, p>> \notin own'
        BY <1>now, <2>1, <2>3, <3>2, <3>4 DEF TellsVal
      <4> QED BY <2>1, <3>1, <3>2, <4>1 DEF TellsVal
    <3>7. \A s \in Subscribers : Untold(p, s)'
      <4> SUFFICES ASSUME NEW s \in Subscribers, up', p \notin torn', s \in job'[w].todo
                   PROVE  views'[s][p] = IF <<s, p>> \in own' THEN Off ELSE db'[p]
        BY <3>1, <3>2 DEF Untold
      <4>1. s # job[w].told /\ s \in job[w].todo
        BY <2>1
      <4>2. views[s][p] = IF <<s, p>> \in own THEN Off ELSE db[p]
        BY <1>now, <2>2, <3>2, <4>1 DEF Untold
      <4> QED BY <2>2, <2>3, <4>1, <4>2
    <3> QED BY <3>5, <3>6, <3>7 DEF Reflected
  <2>5. CASE job[w].param # p
    <3>1. ~Setting(w, p) /\ ~Setting(w, p)'
      BY <2>1, <2>5 DEF Setting
    <3> QED BY <1>now, <2>1, <2>2, <2>3, <2>5, <3>1, OtherStep
  <2> QED BY <2>4, <2>5
<1>8. ASSUME NEW w \in Writers, PersistTimeout(w) PROVE Reflected(p)'
  <2>1. job'[w].pc = "idle" /\ (\A u \in Writers \ {w} : job'[u] = job[u]) /\ job[w].pc = "persist"
    BY <1>now, <1>8, JobSteps DEF PersistTimeout
  <2>2. UNCHANGED <<up, params, db, views, own, torn>> /\ ahead' = ahead \cup {job[w].param}
    BY <1>8 DEF PersistTimeout
  <2>3. \A u \in Writers : /\ Transaction(u, p)' <=> Transaction(u, p)
                           /\ Transaction(u, p) => job'[u] = job[u]
                           /\ Setting(u, p)' => Setting(u, p) /\ job'[u] = job[u]
                           /\ Setting(u, p) /\ ~Setting(u, p)' => job[w].param = p
    BY <2>1 DEF Transaction, InTransaction, Setting
  <2>4. SetsLast(p)' /\ Agrees(p)'
    BY <1>now, <2>2, <2>3 DEF SetsLast, Agrees
  <2>5. TellsVal(p)'
    BY <1>now, <2>2, <2>3 DEF TellsVal
  <2>6. \A s \in Subscribers : Untold(p, s)'
    BY <1>now, <2>2, <2>3 DEF Untold
  <2> QED BY <2>4, <2>5, <2>6 DEF Reflected
<1>9. ASSUME NEW w \in Writers, Commit(w) \/ CommitTimeout(w) PROVE Reflected(p)'
  <2>1. job'[w].pc = "idle" /\ \A u \in Writers \ {w} : job'[u] = job[u]
    BY <1>now, <1>9, JobSteps
  <2>2. /\ UNCHANGED <<up, params, views, own, ahead>>
        /\ job[w].pc = "notify" /\ job[w].todo = {}
        /\ \/ Commit(w) /\ db' = [db EXCEPT ![job[w].param] = job[w].val] /\ torn' = torn \ {job[w].param}
           \/ CommitTimeout(w) /\ db' = db /\ torn' = torn \cup {job[w].param}
    BY <1>9 DEF Commit, CommitTimeout
  <2>3. CASE job[w].param = p
    <3>1. Transaction(w, p) /\ (\A u \in Writers : Transaction(u, p) => u = w) /\ Setting(w, p)
      BY <1>now, <2>2, <2>3 DEF Transaction, InTransaction, LockInv, Setting
    <3>2. \A u \in Writers : ~Transaction(u, p)' /\ ~Setting(u, p)'
      BY <1>now, <2>1, <3>1 DEF Transaction, InTransaction, Setting, OneSets
    <3>3. \A s \in Subscribers : views[s][p] = job[w].val /\ <<s, p>> \notin own
      BY <1>now, <2>2, <3>1 DEF TellsVal
    <3>4. job[w].val = params[p]
      BY <1>now, <3>1 DEF SetsLast
    <3>5. SetsLast(p)' /\ TellsVal(p)'
      BY <3>2 DEF SetsLast, TellsVal
    <3>6. p \notin torn' => db'[p] = job[w].val
      BY <1>now, <2>2, <2>3 DEF TypeOK
    <3>7. Agrees(p)' /\ \A s \in Subscribers : Untold(p, s)'
      BY <2>2, <3>3, <3>4, <3>6 DEF Agrees, Untold
    <3> QED BY <3>5, <3>7 DEF Reflected
  <2>4. CASE job[w].param # p
    <3>1. ~Setting(w, p) /\ ~Setting(w, p)' /\ db'[p] = db[p] /\ (p \in torn' <=> p \in torn)
      BY <1>now, <2>1, <2>2, <2>4 DEF Setting, TypeOK
    <3> QED BY <1>now, <2>1, <2>2, <3>1, OtherStep
  <2> QED BY <2>3, <2>4
<1>10. CASE UNCHANGED vars
  BY <1>now, <1>10 DEF vars, Reflected, SetsLast, Agrees, Setting, TellsVal, Untold,
                       Transaction, InTransaction
<1> QED BY <1>1, <1>2, <1>3, <1>4, <1>5, <1>6, <1>7, <1>8, <1>9, <1>10 DEF Next

RacedInv == (~up => raced = {}) /\ \A p \in Params \ raced : Reflected(p)

LEMMA RacedStep ==
    ASSUME FreshInv, FreshInv', RacedInv, [MCNext]_<<vars, raced>> PROVE RacedInv'
<1>1. [Next]_vars
  BY DEF MCNext
<1>2. CASE MCNext
  <2>1. ~up' => raced' = {}
    BY <1>2 DEF MCNext
  <2>2. ASSUME NEW p \in Params, p \notin raced' PROVE Reflected(p)'
    <3>1. CASE ~up'
      <4>1. DownInv'
        BY DEF FreshInv
      <4> QED BY <3>1, <4>1 DEF DownInv, Reflected, OneSets, SetsLast, Agrees, TellsVal, Untold,
                                Transaction, InTransaction, Setting
    <3>2. CASE up'
      <4>1. p \notin raced /\ p \notin Race' /\ p \notin Overwritten
        BY <1>2, <2>2, <3>2 DEF MCNext
      <4>2. OneSets(p)'
        BY <4>1 DEF Race, OneSets
      <4>3. params'[p] # params[p] => \A w \in Writers : ~Setting(w, p)
        BY <4>1 DEF Overwritten
      <4>4. Reflected(p)
        BY <4>1 DEF RacedInv
      <4> QED BY <1>1, <4>2, <4>3, <4>4, ReflectStep
    <3> QED BY <3>1, <3>2
  <2> QED BY <2>1, <2>2 DEF RacedInv
<1>3. CASE UNCHANGED <<vars, raced>>
  BY <1>3 DEF vars, RacedInv, Reflected, OneSets, SetsLast, Agrees, TellsVal, Untold,
              Transaction, InTransaction, Setting
<1> QED BY <1>2, <1>3

(* UnracedReflectsHolds: what memory, the table and the subscribers hold   *)
(* of every parameter that no two calls have set at a time since the       *)
(* start, whatever calls did to other parameters.  A call that got no lock *)
(* or wrote memory only has put memory ahead of the table, and no          *)
(* subscriber with it; one whose commit failed has put both ahead          *)
(* (config.py:153-161).                                                    *)
THEOREM UnracedReflectsHolds == MCSpec => []UnracedReflects
<1>1. MCInit => FreshInv /\ RacedInv
  <2> SUFFICES ASSUME MCInit PROVE FreshInv /\ RacedInv
    OBVIOUS
  <2>1. FreshInv /\ DownInv
    BY FreshInit, DownHolds DEF MCInit
  <2> QED BY <2>1, DownReflects DEF MCInit, Init, RacedInv
<1>2. FreshInv /\ TypeOK' /\ [MCNext]_<<vars, raced>> => FreshInv'
  BY FreshStep DEF MCNext, vars
<1>3. FreshInv /\ FreshInv' /\ RacedInv /\ [MCNext]_<<vars, raced>> => RacedInv'
  BY RacedStep
<1>4. RacedInv => UnracedReflects
  <2> SUFFICES ASSUME RacedInv, NEW p \in Params, p \notin raced, Settled(p)
               PROVE  /\ p \notin ahead \cup torn => db[p] = params[p]
                      /\ p \notin torn => \A s \in Subscribers :
                           views[s][p] = IF <<s, p>> \in own THEN Off ELSE db[p]
    BY DEF UnracedReflects
  <2>1. Reflected(p) /\ up /\ \A w \in Writers : ~Setting(w, p)
    BY DEF RacedInv, Settled
  <2>2. \A w \in Writers : ~Transaction(w, p)
    BY <2>1 DEF Transaction, InTransaction, Setting
  <2> QED BY <2>1, <2>2 DEF Reflected, Agrees, Untold
<1>5. MCSpec => Spec
  <2>1. [MCNext]_<<vars, raced>> => [Next]_vars
    BY DEF MCNext
  <2> QED BY <2>1, PTL DEF MCSpec, MCInit, Spec
<1> QED BY <1>1, <1>2, <1>3, <1>4, <1>5, TypeCorrect, PTL DEF MCSpec

=============================================================================
