--------------------------- MODULE RecordPipeline ---------------------------
(***************************************************************************)
(* From a ping to the databases: ping handlers put traffic records on a    *)
(* bounded queue (lydian/traffic/task.py), and the RecordManager's handler *)
(* thread takes them off and hands each to the recorders one after the     *)
(* other (lydian/apps/recorder.py, lydian/recorder/).                      *)
(*                                                                         *)
(* A record is its number in the order the pings made them.                *)
(***************************************************************************)
EXTENDS Naturals, Sequences

CONSTANTS
    QueueSize,     \* RECORD_QUEUE_SIZE
    MaxRecords,    \* bound of the model on the records made
    Recorders,     \* the traffic recorders in the order they are called
    WithClient,    \* recorders that have what they need to write
    Closable,      \* recorders whose stop() closes their client
    Isolating,     \* recorders whose write() swallows its client's errors
    Faulty,        \* recorders whose back end may fail
    Restarts,      \* the manager may be started again
    Switches       \* recorders that may be switched on and off while running

ASSUME PipelineAssumption ==
    /\ QueueSize \in Nat \ {0}
    /\ MaxRecords \in Nat
    /\ Recorders \in Seq(STRING) /\ Len(Recorders) > 0
    /\ \A i, j \in DOMAIN Recorders : Recorders[i] = Recorders[j] => i = j
    /\ WithClient \subseteq {Recorders[i] : i \in DOMAIN Recorders}
    /\ Restarts \in BOOLEAN

Names == {Recorders[i] : i \in DOMAIN Recorders}

VARIABLES
    made,       \* records made by the pings so far
    dropped,    \* records the full queue refused
    queue,      \* the traffic record queue
    stopped,    \* RecordManager._stopped
    handler,    \* where the one handler thread that ever runs is
    surplus,    \* a handler was added that could not be launched
    held,       \* the record the handler took off the queue, 0 for none
    turn,       \* the recorder it calls next
    logs,       \* what each recorder has written
    enabled,    \* each recorder's own copy of its ..._RECORDING parameter
    failed,     \* records some recorder raised on
    caller,     \* close(): "no", "closing", "joining", or "returned"
    closing,    \* the recorder stop() stops next, 0 when none
    closed      \* recorders whose client stop() has closed

vars == <<made, dropped, queue, stopped, handler, surplus, held, turn, logs,
          enabled, failed, caller, closing, closed>>

TypeOK ==
    /\ made \in 0 .. MaxRecords
    /\ dropped \subseteq 1 .. made
    /\ queue \in Seq(1 .. made) /\ Len(queue) <= QueueSize
    /\ stopped \in BOOLEAN /\ surplus \in BOOLEAN
    /\ handler \in {"none", "check", "get", "write", "dead"}
    /\ held \in 0 .. made
    /\ turn \in 0 .. Len(Recorders)
    /\ logs \in [Names -> Seq(1 .. made)]
    /\ enabled \in [Names -> BOOLEAN]
    /\ failed \subseteq 1 .. made
    /\ caller \in {"no", "closing", "joining", "returned"}
    /\ closing \in 0 .. Len(Recorders)
    /\ closed \subseteq Closable \cap WithClient

(* A recorder that finds no client for itself switches itself off. *)
Init ==
    /\ made = 0 /\ dropped = {} /\ queue = <<>>
    /\ stopped = TRUE
    /\ handler = "none" /\ surplus = FALSE
    /\ held = 0 /\ turn = 0
    /\ logs = [n \in Names |-> <<>>]
    /\ enabled = [n \in Names |-> n \in WithClient]
    /\ failed = {}
    /\ caller = "no"
    /\ closing = 0 /\ closed = {}

(* ping_handler: put(block=False); a full queue costs the record. *)
Ping ==
    /\ made < MaxRecords
    /\ made' = made + 1
    /\ IF Len(queue) < QueueSize
       THEN queue' = Append(queue, made') /\ UNCHANGED dropped
       ELSE dropped' = dropped \cup {made'} /\ UNCHANGED queue
    /\ UNCHANGED <<stopped, handler, surplus, held, turn, logs, enabled, failed, caller, closing, closed>>

(* RecordManager.start: clear the event, add two new handlers, launch all  *)
(* handlers.  The second time the first of them has been launched before:  *)
(* it raises and the new ones never run.                                   *)
Start ==
    /\ caller = "no"
    /\ handler = "none" \/ (Restarts /\ stopped)
    /\ stopped' = FALSE
    /\ IF handler = "none"
       THEN handler' = "check" /\ UNCHANGED surplus
       ELSE surplus' = TRUE /\ UNCHANGED handler
    /\ UNCHANGED <<made, dropped, queue, held, turn, logs, enabled, failed, caller, closing, closed>>

(* stop: set the event, then stop the recorders one after the other.       *)
Stop ==
    /\ caller = "no" /\ closing = 0
    /\ stopped' = TRUE
    /\ closing' = 1
    /\ UNCHANGED <<made, dropped, queue, handler, surplus, held, turn, logs, enabled, failed, caller, closed>>

(* Mutant: close() joins the handlers and does not stop them. *)
CloseUnstopped ==
    /\ caller = "no" /\ closing = 0
    /\ caller' = "joining"
    /\ UNCHANGED <<made, dropped, queue, stopped, handler, surplus, held, turn, logs, enabled, failed, closing, closed>>

(* close: stop as above, then join the handlers. *)
Close ==
    /\ caller = "no" /\ closing = 0
    /\ stopped' = TRUE
    /\ closing' = 1 /\ caller' = "closing"
    /\ UNCHANGED <<made, dropped, queue, handler, surplus, held, turn, logs, enabled, failed, closed>>

(* A recorder's stop() flushes and closes the client it has, whatever the  *)
(* handler is doing with it; SQLite's does nothing.                        *)
Closes == {Recorders[closing]} \cap Closable \cap WithClient

StopRecorder ==
    /\ closing # 0
    /\ closed' = closed \cup Closes
    /\ IF closing < Len(Recorders)
       THEN closing' = closing + 1 /\ UNCHANGED caller
       ELSE closing' = 0 /\ caller' = IF caller = "closing" THEN "joining" ELSE caller
    /\ UNCHANGED <<made, dropped, queue, stopped, handler, surplus, held, turn, logs, enabled, failed>>

(* It raises: before or after the client is closed, or, behind the last    *)
(* one, the resource recorder's does.  The recorders after it are not      *)
(* stopped, and close() ends without its join.                             *)
StopRaises ==
    /\ closing # 0
    /\ Closes # {} \/ closing = Len(Recorders)
    /\ closed' \in {closed, closed \cup Closes}
    /\ closing' = 0
    /\ caller' = IF caller = "closing" THEN "returned" ELSE caller
    /\ UNCHANGED <<made, dropped, queue, stopped, handler, surplus, held, turn, logs, enabled, failed>>

(* Every handler is joined without a timeout (joining one that was never   *)
(* launched raises).                                                       *)
Joined ==
    /\ caller = "joining"
    /\ handler \in {"none", "dead"}
    /\ caller' = "returned"
    /\ UNCHANGED <<made, dropped, queue, stopped, handler, surplus, held, turn, logs, enabled, failed, closing, closed>>

(* _traffic_record_handler. *)
Check ==
    /\ handler = "check"
    /\ handler' = IF stopped THEN "dead" ELSE "get"
    /\ UNCHANGED <<made, dropped, queue, stopped, surplus, held, turn, logs, enabled, failed, caller, closing, closed>>

(* Mutants: the record stays on the queue; the newest comes first. *)
GetCopy ==
    /\ handler = "get" /\ queue # <<>>
    /\ held' = Head(queue)
    /\ handler' = "write" /\ turn' = 1
    /\ UNCHANGED <<made, dropped, queue, stopped, surplus, logs, enabled, failed, caller, closing, closed>>

GetNewest ==
    /\ handler = "get" /\ queue # <<>>
    /\ held' = queue[Len(queue)] /\ queue' = SubSeq(queue, 1, Len(queue) - 1)
    /\ handler' = "write" /\ turn' = 1
    /\ UNCHANGED <<made, dropped, stopped, surplus, logs, enabled, failed, caller, closing, closed>>

Get ==
    /\ handler = "get" /\ queue # <<>>
    /\ held' = Head(queue) /\ queue' = Tail(queue)
    /\ handler' = "write" /\ turn' = 1
    /\ UNCHANGED <<made, dropped, stopped, surplus, logs, enabled, failed, caller, closing, closed>>

(* Mutant: an empty queue ends the handler. *)
GetTimeoutEnds ==
    /\ handler = "get" /\ queue = <<>>
    /\ handler' = "dead"
    /\ UNCHANGED <<made, dropped, queue, stopped, surplus, held, turn, logs, enabled, failed, caller, closing, closed>>

GetTimeout ==
    /\ handler = "get" /\ queue = <<>>
    /\ handler' = "check"
    /\ UNCHANGED <<made, dropped, queue, stopped, surplus, held, turn, logs, enabled, failed, caller, closing, closed>>

(* Mutant: the loop ends with the first recorder. *)
NextFirstOnly ==
    /\ handler' = "check" /\ turn' = 0 /\ held' = 0

(* One recorder's write().  An error leaves the loop over the recorders,   *)
(* unless the recorder catches it itself.                                  *)
NextRecorder ==
    IF turn = Len(Recorders)
    THEN handler' = "check" /\ turn' = 0 /\ held' = 0
    ELSE turn' = turn + 1 /\ UNCHANGED <<handler, held>>

Current == Recorders[turn]
MayFail(n) == n \in Faulty \cup closed \/ n \notin WithClient

Skip ==
    /\ handler = "write"
    /\ ~enabled[Current]
    /\ NextRecorder
    /\ UNCHANGED <<made, dropped, queue, stopped, surplus, logs, enabled, failed, caller, closing, closed>>

(* What a closed client does with a record is its library's: it may still  *)
(* deliver it, drop it, or raise.                                          *)
Write ==
    /\ handler = "write"
    /\ enabled[Current] /\ Current \in WithClient
    /\ logs' = [logs EXCEPT ![Current] = Append(@, held)]
    /\ NextRecorder
    /\ UNCHANGED <<made, dropped, queue, stopped, surplus, enabled, failed, caller, closing, closed>>

WriteSwallowed ==
    /\ handler = "write"
    /\ enabled[Current] /\ MayFail(Current) /\ Current \in Isolating \cup closed
    /\ NextRecorder
    /\ UNCHANGED <<made, dropped, queue, stopped, surplus, logs, enabled, failed, caller, closing, closed>>

WriteRaises ==
    /\ handler = "write"
    /\ enabled[Current] /\ MayFail(Current) /\ Current \notin Isolating
    /\ failed' = failed \cup {held}
    /\ handler' = "check" /\ turn' = 0 /\ held' = 0
    /\ UNCHANGED <<made, dropped, queue, stopped, surplus, logs, enabled, caller, closing, closed>>

(* set_param on a recorder's ..._RECORDING parameter reaches its copy; the *)
(* recorder does not look at its client again.                             *)
Switch ==
    /\ \E n \in Names \cap Switches : enabled' = [enabled EXCEPT ![n] = ~@]
    /\ UNCHANGED <<made, dropped, queue, stopped, handler, surplus, held, turn, logs, failed, caller, closing, closed>>

HandlerStep == Check \/ Get \/ GetTimeout \/ Skip \/ Write \/ WriteSwallowed \/ WriteRaises

Next ==
    \/ Ping \/ Switch
    \/ Start \/ Stop \/ Close \/ StopRecorder \/ StopRaises \/ Joined
    \/ HandlerStep

Spec == Init /\ [][Next]_vars

(* The handler thread, a stop() under way and a caller whose join is over  *)
(* run on.  Nobody has to ping, to start, or to stop.                      *)
Fairness == WF_vars(HandlerStep) /\ WF_vars(StopRecorder) /\ WF_vars(Joined)
FairSpec == Spec /\ Fairness

(***************************************************************************)
(* Properties.                                                             *)
(***************************************************************************)
InQueue == {queue[i] : i \in DOMAIN queue}
Logged(n) == {logs[n][i] : i \in DOMAIN logs[n]}

(* Nothing is both dropped at the full queue and handed over, and nothing  *)
(* is handed over twice.                                                   *)
Handed == UNION {Logged(n) : n \in Names}
DroppedOrHanded ==
    /\ dropped \cap (InQueue \cup Handed \cup {held}) = {}
    /\ InQueue \cap (Handed \cup {held}) = {}

(* The record has been through the queue and the handler. *)
Gone(r) == r \notin dropped /\ r \notin InQueue /\ r # held

(* Recorders whose write() could end the turn of those after them.         *)
MayCut(n) ==
    \E i, j \in DOMAIN Recorders :
      /\ i < j /\ Recorders[j] = n
      /\ MayFail(Recorders[i]) /\ Recorders[i] \notin Isolating

(* close() returns: the handler's wait for a record is bounded.            *)
CloseReturns == caller # "no" ~> caller = "returned"

(* A started manager reads its queue: "act as a deamon to read traffic     *)
(* record queue" (RecordManager) - unless it was started twice: then the   *)
(* handler it has may be dead and the new one is never launched.           *)
QueueDrains ==
    \A r \in 1 .. MaxRecords :
      (r \in InQueue /\ ~stopped) ~> (r \notin InQueue \/ stopped \/ surplus)

(* What the first recorder (the traffic database the results are read      *)
(* from) holds is a RecordLog.                                             *)
TrafficDB == INSTANCE RecordLog WITH log <- logs[Recorders[1]]
LogInOrder == TrafficDB!Spec

============================================================================
