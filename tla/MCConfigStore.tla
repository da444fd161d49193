---------------------------- MODULE MCConfigStore ----------------------------
(* ConfigStore with a few threads, parameters and subscribers, and a       *)
(* record of the parameters two threads have set at a time.                *)
EXTENDS ConfigStore, TLC

CONSTANTS w1, w2, p1, p2, s1, s2, v1, v2

VARIABLE raced    \* such parameters, since the last start

MCWriters == {w1, w2}
MCParams == {p1, p2}
MCSubscribers == {s1, s2}
MCValues == {v1, v2}
MCDefault == [p \in Params |-> v1]
MCOwn == {<<s1, p1>>, <<s2, p1>>}
AnyDisturbance == Disturbances

(* Two calls under way for one parameter, or memory changed during one.    *)
Race == {p \in Params : \E u, w \in Writers : u # w /\ Setting(u, p) /\ Setting(w, p)}
Overwritten == {p \in Params : params'[p] # params[p] /\ \E w \in Writers : Setting(w, p)}

MCInit == Init /\ raced = {}
MCNext == Next /\ raced' = IF up' THEN raced \cup Race' \cup Overwritten ELSE {}
MCSpec == MCInit /\ [][MCNext]_<<vars, raced>>

MCSymmetry == Permutations(Writers) \cup Permutations(Subscribers)

(* What memory, the table and the subscribers hold of a parameter that no  *)
(* two calls have set at a time, when no call for it is under way.  Memory *)
(* "is simply a reflector of database file" (config.py:153-154) unless the *)
(* last call to change it got no lock, did not commit, or was made with    *)
(* write_to_db=False; and even then a subscriber never acts on a value     *)
(* that is not in the table, except where the commit failed after it was   *)
(* told, or where it has switched itself off.  (Two calls for one          *)
(* parameter may leave memory with the value of one and the database with  *)
(* that of the other, until the next start.)                               *)
UnracedReflects ==
    \A p \in Params \ raced : Settled(p) =>
      /\ p \notin ahead \cup torn => db[p] = params[p]
      /\ p \notin torn => \A s \in Subscribers :
           views[s][p] = IF <<s, p>> \in own THEN Off ELSE db[p]
=============================================================================
