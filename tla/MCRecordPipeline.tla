-------------------------- MODULE MCRecordPipeline --------------------------
(* RecordPipeline with three recorders, and a record of what has been      *)
(* switched off and of whether the manager ran on clients it had closed.   *)
EXTENDS RecordPipeline

VARIABLES
    off,      \* recorders that have been off at some time
    again     \* the manager was started after a stop, or during one

MCRecorders == <<"sqlite", "wavefront", "elastic">>
OnlyElastic == {"elastic"}
OnlySqlite == {"sqlite"}
NoElastic == {"sqlite", "wavefront"}
NoSqlite == {"wavefront", "elastic"}

Off == {n \in Names : ~enabled[n]}
OnClosed == ~stopped /\ (closing # 0 \/ closed # {})

MCInit == Init /\ off = Off /\ again = FALSE
MCNext == Next /\ off' = off \cup Off' /\ again' = (again \/ OnClosed')
MCSpec == MCInit /\ [][MCNext]_<<vars, off, again>> /\ Fairness

(* A recorder with a healthy back end that was never off has written every *)
(* record the queue took, except those on which a recorder called before   *)
(* it raised (recorder.py:147-152): not those on which one after it did,   *)
(* or one that handles its client's errors itself (es_client.py), whatever *)
(* was switched meanwhile.  A stop() that closes its client under the      *)
(* handler (recorder.py:133-139) costs it the record in hand and no other: *)
(* only where the manager is started after a stop, on clients nobody opens *)
(* again, more may be lost.                                                *)
Missed(n) == {r \in 1 .. made :
    Gone(r) /\ (MayCut(n) => r \notin failed) /\ r \notin Logged(n)}

EveryRecorderServed ==
    \A n \in (WithClient \ Faulty) \ off : \A r \in Missed(n) :
      /\ n \in closed
      /\ again \/ \A q \in r + 1 .. made : ~Gone(q)
=============================================================================
