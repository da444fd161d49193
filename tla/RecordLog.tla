----------------------------- MODULE RecordLog -----------------------------
(***************************************************************************)
(* What a traffic recorder promises its reader: the log holds results of   *)
(* pings that were made, in the order in which they were made, none twice. *)
(* It does not promise all of them: a full queue drops results.            *)
(***************************************************************************)
EXTENDS Naturals, Sequences

VARIABLES
    made,    \* how many results the pings have produced: 1, 2, ..., made
    log      \* the results written

Newest == IF log = <<>> THEN 0 ELSE log[Len(log)]

Init == made = 0 /\ log = <<>>

Make == made' = made + 1 /\ UNCHANGED log

Write ==
    /\ \E r \in Newest + 1 .. made : log' = Append(log, r)
    /\ UNCHANGED made

Next == Make \/ Write

Spec == Init /\ [][Next]_<<made, log>>
============================================================================
