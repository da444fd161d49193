--------------------------- MODULE TrafficClient ---------------------------
(***************************************************************************)
(* One ping client of a node: a TrafficClientTask and the Client it wraps  *)
(* (lydian/traffic/task.py, client.py, connection.py).                     *)
(*                                                                         *)
(* RPC threads (Callers) start, stop and close the task.  start() makes a  *)
(* thread object, remembers it in _task_thread and launches it; the thread *)
(* runs Client.start(), a loop that pings until the stop event is set or   *)
(* its tries are used up.  stop() sets the event and joins the remembered  *)
(* thread for at most THREADS_JOIN_TIMEOUT seconds.  Every attribute of    *)
(* the task and of the client (_task_thread, _stop_event, socket) is       *)
(* shared by the callers and by every loop ever started, with no lock, so  *)
(* each read and each write of one of them is a step.                      *)
(***************************************************************************)
EXTENDS Naturals, FiniteSets

CONSTANTS
    Callers,   \* RPC threads that operate on the task
    Threads,   \* thread objects that exist at a time
    Tries,     \* bound of the model on a rule's "tries"
    Limited,   \* the rule has "tries" (else the client pings for ever)
    Attempts,  \* connection attempts of one ping
    Protocol,  \* "TCP" (HTTP shares its code) or "UDP"
    Allowed    \* what the environment may do, a subset of Disturbances

(***************************************************************************)
(* The code's callers and its scheduler promise none of these; a model in  *)
(* which one is absent says what the code delivers when it does not occur. *)
(*   overlap     two requests for the rule are in progress at a time       *)
(*   restart     start() is called on a task that is not stopped           *)
(*   slow_start  a request arrives before a launched thread has cleared    *)
(*               the event                                                 *)
(*   slow_ping   a ping and its sleep outlast THREADS_JOIN_TIMEOUT         *)
(*   close       the task is closed (its socket under it), not only stopped*)
(***************************************************************************)
Disturbances == {"overlap", "restart", "slow_start", "slow_ping", "close"}

NoThread == "none"      \* Python's None

ASSUME ClientAssumption ==
    /\ Callers \cap Threads = {}
    /\ NoThread \notin Callers \cup Threads
    /\ Tries \in Nat \ {0} /\ Attempts \in Nat \ {0}
    /\ Limited \in BOOLEAN
    /\ Protocol \in {"TCP", "UDP"}
    /\ Allowed \subseteq Disturbances

VARIABLES
    event,     \* Connection._stop_event is set
    thread,    \* TrafficTask._task_thread
    socket,    \* Connection.socket: the agent that created it, or NoThread
    pc,        \* where each caller and each ping thread is
    joining,   \* the thread a caller's join() waits for
    left,      \* tries a ping thread has left
    attempts,  \* attempts its current ping has left
    reported   \* its latest ping put a record on the queue

vars == <<event, thread, socket, pc, joining, left, attempts, reported>>

Agents == Callers \cup Threads

CallerPcs == {"idle", "launch", "join", "enter", "wait", "test", "shut", "null"}
Attempting == {"connect", "exchange", "test", "shut", "null"}
Looping == {"top", "create", "report", "sleep"} \cup Attempting
ThreadPcs == {"new", "check", "clear", "dead"} \cup Looping

TypeOK ==
    /\ event \in BOOLEAN
    /\ thread \in Threads \cup {NoThread}
    /\ socket \in Threads \cup {NoThread}
    /\ pc \in [Agents -> CallerPcs \cup ThreadPcs]
    /\ \A c \in Callers : pc[c] \in CallerPcs
    /\ \A t \in Threads : pc[t] \in ThreadPcs
    /\ joining \in [Callers -> Threads \cup {NoThread}]
    /\ left \in [Threads -> 0 .. Tries]
    /\ attempts \in [Threads -> 0 .. Attempts]
    /\ reported \in [Threads -> BOOLEAN]

Init ==
    /\ event = TRUE              \* stopped until started
    /\ thread = NoThread
    /\ socket = NoThread
    /\ pc = [a \in Agents |-> IF a \in Callers THEN "idle" ELSE "dead"]
    /\ joining = [c \in Callers |-> NoThread]
    /\ left = [t \in Threads |-> Tries]
    /\ attempts = [t \in Threads |-> 0]
    /\ reported = [t \in Threads |-> FALSE]

Goto(a, label) == pc' = [pc EXCEPT ![a] = label]

(***************************************************************************)
(* When a request may arrive.                                              *)
(***************************************************************************)
MayCall(c) ==
    /\ pc[c] = "idle"
    /\ "overlap" \in Allowed \/ \A d \in Callers : pc[d] = "idle"
    /\ "slow_start" \in Allowed \/ \A t \in Threads : pc[t] \notin {"check", "clear"}

(* An ended thread, or one that was never launched and never will be, whose *)
(* object nobody refers to any more.                                       *)
Free(t) ==
    /\ pc[t] \in {"new", "dead"}
    /\ thread # t
    /\ \A c \in Callers : joining[c] # t

(* Mutant: start() clears the event itself, before any thread runs. *)
StartClearing(c) ==
    /\ MayCall(c)
    /\ "restart" \in Allowed \/ event
    /\ event' = FALSE
    /\ \E t \in Threads :
         Free(t) /\ thread' = t /\ pc' = [pc EXCEPT ![t] = "new", ![c] = "launch"]
    /\ UNCHANGED <<socket, joining, left, attempts, reported>>

(***************************************************************************)
(* TrafficTask.start: make a thread, remember it, launch it.  The second   *)
(* step reads _task_thread again: an overlapping stop() or start() may     *)
(* have replaced it, and launching None or a launched thread raises.       *)
(***************************************************************************)
StartTask(c) ==
    /\ MayCall(c)
    /\ "restart" \in Allowed \/ event
    /\ \E t \in Threads :
         /\ Free(t)
         /\ thread' = t
         /\ pc' = [pc EXCEPT ![t] = "new", ![c] = "launch"]
    /\ UNCHANGED <<event, socket, joining, left, attempts, reported>>

LaunchTask(c) ==
    /\ pc[c] = "launch"
    /\ IF thread # NoThread /\ pc[thread] = "new"
       THEN pc' = [pc EXCEPT ![thread] = "check", ![c] = "idle"]
       ELSE Goto(c, "idle")
    /\ UNCHANGED <<event, thread, socket, joining, left, attempts, reported>>

(* Mutant: stop() does not join the thread. *)
StopWithoutJoin(c) ==
    /\ MayCall(c)
    /\ event' = TRUE
    /\ UNCHANGED <<thread, socket, pc, joining, left, attempts, reported>>

(***************************************************************************)
(* TrafficTask.stop and close set the event; close also closes the socket  *)
(* the loop is using.  Both then join the thread.                          *)
(***************************************************************************)
StopTask(c) ==
    /\ MayCall(c)
    /\ event' = TRUE
    /\ Goto(c, "join")
    /\ UNCHANGED <<thread, socket, joining, left, attempts, reported>>

CloseTask(c) ==
    /\ MayCall(c)
    /\ "close" \in Allowed
    /\ event' = TRUE
    /\ Goto(c, "test")
    /\ UNCHANGED <<thread, socket, joining, left, attempts, reported>>

(* TrafficTask._join_thread: it tests the attribute, reads it again to     *)
(* join, and forgets the thread whether or not the join timed out.         *)
JoinTest(c) ==
    /\ pc[c] = "join"
    /\ Goto(c, IF thread = NoThread THEN "idle" ELSE "enter")
    /\ UNCHANGED <<event, thread, socket, joining, left, attempts, reported>>

JoinEnter(c) ==
    /\ pc[c] = "enter"
    /\ IF thread = NoThread \/ pc[thread] = "new"
       THEN Goto(c, "idle") /\ UNCHANGED joining      \* raises
       ELSE Goto(c, "wait") /\ joining' = [joining EXCEPT ![c] = thread]
    /\ UNCHANGED <<event, thread, socket, left, attempts, reported>>

(* Mutant: the join waits for nothing. *)
JoinWithoutWait(c) ==
    /\ pc[c] = "wait"
    /\ thread' = NoThread
    /\ joining' = [joining EXCEPT ![c] = NoThread]
    /\ Goto(c, "idle")
    /\ UNCHANGED <<event, socket, left, attempts, reported>>

(* Mutant: the join has no timeout. *)
JoinForever(c) == pc[c] = "wait" /\ pc[joining[c]] = "dead" /\ JoinWithoutWait(c)

JoinReturn(c) ==
    /\ pc[c] = "wait"
    /\ \/ pc[joining[c]] = "dead"
       \/ "slow_ping" \in Allowed      \* times out
       \/ ~event                       \* it is not going to end: times out
    /\ thread' = NoThread
    /\ joining' = [joining EXCEPT ![c] = NoThread]
    /\ Goto(c, "idle")
    /\ UNCHANGED <<event, socket, left, attempts, reported>>

(***************************************************************************)
(* Connection.socket_close, run by a loop after each attempt and by        *)
(* close(): test the attribute, close what it now holds (None raises),     *)
(* reset it.                                                               *)
(***************************************************************************)
AfterSocketClose(a) ==
    CASE a \in Callers -> "join"
      [] a \in Threads /\ attempts[a] = 0 -> "report"
      [] OTHER -> "create"

SocketTest(a) ==
    /\ pc[a] = "test"
    /\ Goto(a, IF socket = NoThread THEN AfterSocketClose(a) ELSE "shut")
    /\ UNCHANGED <<event, thread, socket, joining, left, attempts, reported>>

(* A loop's exception is swallowed by ping(), without a record; a caller's *)
(* leaves close() before the join.                                         *)
SocketShut(a) ==
    /\ pc[a] = "shut"
    /\ \/ socket # NoThread /\ Goto(a, "null") /\ UNCHANGED reported
       \/ socket = NoThread /\ a \in Callers /\ Goto(a, "idle") /\ UNCHANGED reported
       \/ socket = NoThread /\ a \in Threads /\ Goto(a, "sleep")
            /\ reported' = [reported EXCEPT ![a] = FALSE]
    /\ UNCHANGED <<event, thread, socket, joining, left, attempts>>

(* Mutant: the closed socket is not forgotten. *)
SocketKept(a) ==
    /\ pc[a] = "null"
    /\ Goto(a, AfterSocketClose(a))
    /\ UNCHANGED <<event, thread, socket, joining, left, attempts, reported>>

SocketNull(a) ==
    /\ pc[a] = "null"
    /\ socket' = NoThread
    /\ Goto(a, AfterSocketClose(a))
    /\ UNCHANGED <<event, thread, joining, left, attempts, reported>>

(***************************************************************************)
(* Client.start, the body of a ping thread.                                *)
(***************************************************************************)
CheckStopped(t) ==
    /\ pc[t] = "check"
    /\ Goto(t, IF event THEN "clear" ELSE "dead")
    /\ UNCHANGED <<event, thread, socket, joining, left, attempts, reported>>

ClearEvent(t) ==
    /\ pc[t] = "clear"
    /\ event' = FALSE
    /\ left' = [left EXCEPT ![t] = Tries]
    /\ Goto(t, "top")
    /\ UNCHANGED <<thread, socket, joining, attempts, reported>>

(* Mutant: the loop looks at its tries only. *)
LoopHeadDeaf(t) ==
    /\ pc[t] = "top"
    /\ ~(Limited /\ left[t] = 0)
    /\ Goto(t, "create")
    /\ left' = IF Limited THEN [left EXCEPT ![t] = @ - 1] ELSE left
    /\ attempts' = [attempts EXCEPT ![t] = Attempts]
    /\ UNCHANGED <<event, thread, socket, joining, reported>>

(* The head of the while loop and its count of tries. *)
LoopHead(t) ==
    /\ pc[t] = "top"
    /\ IF event \/ (Limited /\ left[t] = 0)
       THEN Goto(t, "dead") /\ UNCHANGED <<left, attempts>>
       ELSE /\ Goto(t, "create")
            /\ left' = IF Limited THEN [left EXCEPT ![t] = @ - 1] ELSE left
            /\ attempts' = [attempts EXCEPT ![t] = Attempts]
    /\ UNCHANGED <<event, thread, socket, joining, reported>>

(* One attempt of send_and_recv: a fresh socket in the shared attribute,   *)
(* then the exchange on whatever the attribute holds by then.  Success     *)
(* leaves the loop over the attempts, an error tries again while any is    *)
(* left.                                                                   *)
CreateSocket(t) ==
    /\ pc[t] = "create"
    /\ attempts' = [attempts EXCEPT ![t] = @ - 1]
    /\ socket' = t
    /\ Goto(t, "connect")
    /\ UNCHANGED <<event, thread, joining, left, reported>>

Connect(t) ==
    /\ pc[t] = "connect"
    /\ \/ socket # NoThread /\ Goto(t, "exchange")
       \/ Goto(t, "test")
    /\ UNCHANGED <<event, thread, socket, joining, left, attempts, reported>>

Exchange(t) ==
    /\ pc[t] = "exchange"
    /\ Goto(t, "test")
    /\ \/ socket # NoThread /\ attempts' = [attempts EXCEPT ![t] = 0]
       \/ UNCHANGED attempts
    /\ UNCHANGED <<event, thread, socket, joining, left, reported>>

(* Mutant: an outcome that comes in after a stop is thrown away. *)
ReportUnlessStopped(t) ==
    /\ pc[t] = "report"
    /\ Goto(t, "sleep")
    /\ reported' = [reported EXCEPT ![t] = (Protocol = "TCP" /\ ~event)]
    /\ UNCHANGED <<event, thread, socket, joining, left, attempts>>

(* ping(): the outcome reaches the handler, which puts a record on the     *)
(* queue.  UDPClient.send_and_recv ends in "return data, latency, err" with *)
(* err never bound there: the ping is swallowed without a record.          *)
Report(t) ==
    /\ pc[t] = "report"
    /\ Goto(t, "sleep")
    /\ reported' = [reported EXCEPT ![t] = (Protocol = "TCP")]
    /\ UNCHANGED <<event, thread, socket, joining, left, attempts>>

Sleep(t) ==
    /\ pc[t] = "sleep"
    /\ Goto(t, "top")
    /\ UNCHANGED <<event, thread, socket, joining, left, attempts, reported>>

----------------------------------------------------------------------------
CallerStep(c) ==
    \/ LaunchTask(c)
    \/ JoinTest(c) \/ JoinEnter(c) \/ JoinReturn(c)
    \/ SocketTest(c) \/ SocketShut(c) \/ SocketNull(c)

ThreadStep(t) ==
    \/ CheckStopped(t) \/ ClearEvent(t) \/ LoopHead(t)
    \/ CreateSocket(t) \/ Connect(t) \/ Exchange(t)
    \/ SocketTest(t) \/ SocketShut(t) \/ SocketNull(t)
    \/ Report(t) \/ Sleep(t)

Next ==
    \/ \E c \in Callers : StartTask(c) \/ StopTask(c) \/ CloseTask(c) \/ CallerStep(c)
    \/ \E t \in Threads : ThreadStep(t)

Spec == Init /\ [][Next]_vars

(* The operating system schedules every runnable thread: a ping loop and a *)
(* call in progress take their next step.  Nobody is obliged to call.      *)
Fairness ==
    /\ \A c \in Callers : WF_vars(CallerStep(c))
    /\ \A t \in Threads : WF_vars(ThreadStep(t))

FairSpec == Spec /\ Fairness

(***************************************************************************)
(* Properties.                                                             *)
(***************************************************************************)
Alive(t) == pc[t] \in Looping
Quiet == \A c \in Callers : pc[c] = "idle"
Spent(t) == Limited /\ left[t] = 0

(* At most one ping loop serves the task: "Relationship { Traffic Client : *)
(* Traffic Rule } is 1:1" (manager.py).                                    *)
OneLoop == \A s, t \in Threads : Alive(s) /\ Alive(t) => s = t

(* Once stop() or close() has returned, no ping thread of the task is left: *)
(* "Pre-mature exit can lead to zombie threads [...] For this reason stop  *)
(* and other operations are blocking" (traffic_controller.py).             *)
NoZombies == Quiet /\ event => \A t \in Threads : ~Alive(t)

(* is_running() is the negation of the event: when it says the task runs,  *)
(* some loop is alive, or has ended because it used up its tries.          *)
RunningIsTrue == ~event => \E t \in Threads : Alive(t) \/ Spent(t)

(* A socket in the shared attribute belongs to a ping in progress: loops   *)
(* and close(), however they interleave, leave none open behind them.      *)
SocketHeld == socket # NoThread => pc[socket] \in Attempting

(* A loop talks on the socket it created, never on another loop's.         *)
OwnSocket ==
    \A t \in Threads : pc[t] \in {"connect", "exchange"} => socket \in {t, NoThread}

(* A loop sleeps between pings only after the handler had the outcome of   *)
(* its latest ping: "Results of each ping associatd with request id"       *)
(* (release_notes.txt).                                                    *)
PingsReported == \A t \in Threads : pc[t] = "sleep" => reported[t]

(* No RPC thread hangs in start(), stop() or close(): the join is bounded  *)
(* whatever the loop does.                                                 *)
CallsReturn == \A c \in Callers : []<>(pc[c] = "idle")

(* Every loop ends once the event is set for good, the loops a timed-out   *)
(* join gave up on and those it never knew of included.                    *)
StopsInTheEnd == <>[]event => <>[](\A t \in Threads : ~Alive(t))

(***************************************************************************)
(* Left alone by its environment (Allowed = {}), the task implements       *)
(* TaskLifecycle.                                                          *)
(***************************************************************************)
LifecyclePhase ==
    CASE \E c \in Callers : pc[c] \in CallerPcs \ {"idle", "launch"} -> "stopping"
      [] Quiet /\ event /\ \A t \in Threads : pc[t] \notin {"check", "clear"} -> "stopped"
      [] ~event /\ \E t \in Threads : Alive(t) -> "running"
      [] ~event /\ \A t \in Threads : ~Alive(t) -> "spent"
      [] OTHER -> "starting"

Lifecycle == INSTANCE TaskLifecycle WITH
    phase <- LifecyclePhase,
    workers <- Cardinality({t \in Threads : Alive(t)})

(* The task as its manager sees it: start, then pings of one loop, then a  *)
(* stop that returns only after the loop has ended.                        *)
ImplementsLifecycle == Lifecycle!Spec
============================================================================
