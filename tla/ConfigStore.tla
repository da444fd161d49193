----------------------------- MODULE ConfigStore -----------------------------
(***************************************************************************)
(* The configuration of a node (lydian/apps/config.py): parameters in      *)
(* memory, the same in a database, and the copies its subscribers keep     *)
(* (lydian/common/core.py).                                                *)
(*                                                                         *)
(* RPC threads call set_param at the same time.  Only the "with            *)
(* ConfigDB()" block is a transaction: its first write takes SQLite's      *)
(* lock, its end commits and lets go.  A value in a file or in the         *)
(* database that is not there is Unset.                                    *)
(***************************************************************************)
EXTENDS FiniteSets

CONSTANTS
    Writers,      \* RPC threads that set parameters
    Params,       \* parameters
    Values,       \* their values
    Subscribers,  \* objects that subscribed
    Default,      \* the constants' value of each parameter
    Own,          \* the copies <<s, p>> a subscriber may switch off by itself
    Off,          \* the value it then gives them
    Allowed       \* what the environment may do, a subset of Disturbances

(* same      two threads set one parameter at a time                       *)
(* memory    a caller sets a parameter with write_to_db=False              *)
(* timeout   a writer does not get the lock, or does not get to commit, in *)
(*           SQLITE3_CONNECTION_TIMEOUT                                    *)
(* crash     the process dies between two steps, and is started again      *)
Disturbances == {"same", "memory", "timeout", "crash"}

Unset == "unset"
NoWriter == "none"

ASSUME ConfigAssumption ==
    /\ NoWriter \notin Writers /\ Unset \notin Values
    /\ Params # {} /\ Values # {}
    /\ Default \in [Params -> Values]
    /\ Own \subseteq Subscribers \X Params /\ Off \in Values
    /\ Allowed \subseteq Disturbances

VARIABLES
    up,       \* the process runs
    params,   \* Config._params
    db,       \* the configuration table, as committed
    lock,     \* the writer in a transaction
    views,    \* Subscribe._config_params of each subscriber
    job,      \* the set_param each writer is in
    ahead,    \* history: parameters whose last set_param changed memory and
              \* nothing else
    torn,     \* history: parameters whose last transaction did not commit
    own       \* history: copies a subscriber has switched off by itself and
              \* not been told of since

vars == <<up, params, db, lock, views, job, ahead, torn, own>>

NoSubscriber == "nobody"
(* A job: param is being set to val; the subscribers of todo are still to  *)
(* be told, one of them, told, has read got.                               *)
Job == [pc : {"idle", "persist", "notify", "store"}, param : Params,
        val : Values, got : Values,
        todo : SUBSET Subscribers, told : Subscribers \cup {NoSubscriber}]
Idle == [pc |-> "idle", param |-> CHOOSE p \in Params : TRUE,
         val |-> CHOOSE v \in Values : TRUE, got |-> CHOOSE v \in Values : TRUE,
         todo |-> {}, told |-> NoSubscriber]

TypeOK ==
    /\ up \in BOOLEAN
    /\ params \in [Params -> Values]
    /\ db \in [Params -> Values \cup {Unset}]
    /\ lock \in Writers \cup {NoWriter}
    /\ views \in [Subscribers -> [Params -> Values]]
    /\ job \in [Writers -> Job]
    /\ ahead \subseteq Params /\ torn \subseteq Params /\ own \subseteq Own

(* Before the first start there is no database. *)
Init ==
    /\ up = FALSE
    /\ params = Default
    /\ db = [p \in Params |-> Unset]
    /\ lock = NoWriter
    /\ views = [s \in Subscribers |-> Default]
    /\ job = [w \in Writers |-> Idle]
    /\ ahead = {} /\ torn = {} /\ own = {}

(* A set_param of p is in progress. *)
Setting(w, p) == job[w].pc # "idle" /\ job[w].param = p

(* The defaults, overridden by the configuration file, overridden by the   *)
(* database.                                                               *)
Loaded(file) ==
    [p \in Params |-> CASE db[p] # Unset -> db[p]
                        [] db[p] = Unset /\ file[p] # Unset -> file[p]
                        [] OTHER -> Default[p]]

(* Objects subscribe when they are made, after the parameters are loaded;  *)
(* a recorder that gets no client then switches its own copy off (core.py  *)
(* set_config), and tells nobody.                                          *)
Subscribe ==
    \E off \in SUBSET Own :
      /\ views' = [s \in Subscribers |->
                     [p \in Params |-> IF <<s, p>> \in off THEN Off ELSE params'[p]]]
      /\ own' = off

(* Mutant: what was read is not saved. *)
StartUnsaved ==
    /\ ~up
    /\ up' = TRUE
    /\ \E file \in [Params -> Values \cup {Unset}] : params' = Loaded(file)
    /\ Subscribe
    /\ ahead' = {} /\ torn' = {}
    /\ UNCHANGED <<db, lock, job>>

(* Config.__init__: what was loaded is saved. *)
Start ==
    /\ ~up
    /\ up' = TRUE
    /\ \E file \in [Params -> Values \cup {Unset}] : params' = Loaded(file)
    /\ db' = params'
    /\ Subscribe
    /\ ahead' = {} /\ torn' = {}
    /\ UNCHANGED <<lock, job>>

(* The transaction that was open is rolled back. *)
Crash ==
    /\ up /\ "crash" \in Allowed
    /\ up' = FALSE
    /\ lock' = NoWriter
    /\ job' = [w \in Writers |-> Idle]
    /\ UNCHANGED <<params, db, views, ahead, torn, own>>

(***************************************************************************)
(* set_param: memory first, then the transaction, in which the subscribers *)
(* are told one after the other.  A subscriber reads the parameter and     *)
(* stores it.                                                              *)
(***************************************************************************)
MayOverlap(p) == "same" \in Allowed \/ \A u \in Writers : ~Setting(u, p)

SetParam(w, p, v) ==
    /\ up /\ job[w].pc = "idle" /\ MayOverlap(p)
    /\ params' = [params EXCEPT ![p] = v]
    /\ job' = [job EXCEPT ![w] = [Idle EXCEPT !.pc = "persist", !.param = p, !.val = v]]
    /\ UNCHANGED <<up, db, lock, views, ahead, torn, own>>

(* With write_to_db=False memory is all it changes. *)
SetMemory(w, p, v) ==
    /\ up /\ job[w].pc = "idle" /\ MayOverlap(p)
    /\ "memory" \in Allowed
    /\ params' = [params EXCEPT ![p] = v]
    /\ ahead' = ahead \cup {p}
    /\ UNCHANGED <<up, db, lock, views, job, torn, own>>

(* Mutant: the transaction takes no lock. *)
PersistUnlocked(w) ==
    /\ job[w].pc = "persist"
    /\ job' = [job EXCEPT ![w].pc = "notify", ![w].todo = Subscribers]
    /\ ahead' = ahead \ {job[w].param}
    /\ UNCHANGED <<up, params, db, lock, views, torn, own>>

Persist(w) ==
    /\ job[w].pc = "persist" /\ lock = NoWriter
    /\ lock' = w
    /\ job' = [job EXCEPT ![w].pc = "notify", ![w].todo = Subscribers]
    /\ ahead' = ahead \ {job[w].param}
    /\ UNCHANGED <<up, params, db, views, torn, own>>

(* The call raises; memory keeps the value, nobody is told. *)
PersistTimeout(w) ==
    /\ job[w].pc = "persist" /\ lock # NoWriter
    /\ "timeout" \in Allowed
    /\ job' = [job EXCEPT ![w] = Idle]
    /\ ahead' = ahead \cup {job[w].param}
    /\ UNCHANGED <<up, params, db, lock, views, torn, own>>

(* update_config's call of get_param, and what it does with the answer. *)
ReadParam(w) ==
    /\ job[w].pc = "notify"
    /\ \E s \in job[w].todo :
         job' = [job EXCEPT ![w].pc = "store", ![w].told = s,
                            ![w].got = params[job[w].param]]
    /\ UNCHANGED <<up, params, db, lock, views, ahead, torn, own>>

StoreParam(w) ==
    /\ job[w].pc = "store"
    /\ views' = [views EXCEPT ![job[w].told][job[w].param] = job[w].got]
    /\ job' = [job EXCEPT ![w].pc = "notify", ![w].told = NoSubscriber,
                          ![w].todo = @ \ {job[w].told}]
    /\ own' = own \ {<<job[w].told, job[w].param>>}
    /\ UNCHANGED <<up, params, db, lock, ahead, torn>>

Commit(w) ==
    /\ job[w].pc = "notify" /\ job[w].todo = {}
    /\ db' = [db EXCEPT ![job[w].param] = job[w].val]
    /\ lock' = NoWriter
    /\ job' = [job EXCEPT ![w] = Idle]
    /\ torn' = torn \ {job[w].param}
    /\ UNCHANGED <<up, params, views, ahead, own>>

(* A reader keeps the transaction from committing: the call raises with    *)
(* memory changed and everybody told.                                      *)
CommitTimeout(w) ==
    /\ job[w].pc = "notify" /\ job[w].todo = {}
    /\ "timeout" \in Allowed
    /\ lock' = NoWriter
    /\ job' = [job EXCEPT ![w] = Idle]
    /\ torn' = torn \cup {job[w].param}
    /\ UNCHANGED <<up, params, db, views, ahead, own>>

Next ==
    \/ Start \/ Crash
    \/ \E w \in Writers :
         \/ \E p \in Params, v \in Values : SetParam(w, p, v) \/ SetMemory(w, p, v)
         \/ Persist(w) \/ PersistTimeout(w)
         \/ ReadParam(w) \/ StoreParam(w) \/ Commit(w) \/ CommitTimeout(w)

Spec == Init /\ [][Next]_vars

-----------------------------------------------------------------------------

(* No set_param of p is under way. *)
Settled(p) == up /\ \A w \in Writers : ~Setting(w, p)

(* Once every set_param of a parameter is over, and the last to change     *)
(* memory got as far as its transaction, every subscriber's copy is the    *)
(* parameter in memory, however the calls overlapped and whether or not    *)
(* the transaction could commit: the last notification runs after every    *)
(* change of memory (config.py set_param, core.py update_config).  A copy  *)
(* its owner has switched off (core.py set_config) stays off until then.   *)
SubscribersFresh ==
    \A p \in Params, s \in Subscribers :
      Settled(p) /\ p \notin ahead =>
        views[s][p] = IF <<s, p>> \in own THEN Off ELSE params[p]

=============================================================================
