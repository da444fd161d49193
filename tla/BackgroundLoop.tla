--------------------------- MODULE BackgroundLoop ---------------------------
(***************************************************************************)
(* The background thread of an app: the resource monitor                   *)
(* (lydian/apps/monitor.py), and the two users of BackgroundMixin          *)
(* (lydian/common/background.py), the threat monitor (watch/threat.py) and *)
(* Lynis (pentest/lynis.py), whose thread saves the results of scans.      *)
(*                                                                         *)
(* RPC threads start and stop the app; no lock is taken.  A step is one    *)
(* access to the stop switch or to the thread attribute, or one call to a  *)
(* thread.                                                                 *)
(***************************************************************************)
EXTENDS Naturals, FiniteSets

CONSTANTS
    Apps,         \* the apps to model, a subset of AllApps: one is chosen
    Callers,      \* RPC threads
    MaxThreads,   \* bound of the model on the thread objects at one time
    MaxScans,     \* bound of the model on the scans of Lynis
    Allowed       \* what may happen, a subset of Disturbances

AllApps == {"monitor", "threat", "lynis"}

(* overlap   two RPC threads start or stop the app at once                 *)
(* fault     psutil raises in the resource monitor's loop                  *)
Disturbances == {"overlap", "fault"}

ASSUME LoopAssumption ==
    /\ Apps \subseteq AllApps
    /\ MaxThreads \in Nat /\ MaxScans \in Nat
    /\ Allowed \subseteq Disturbances

VARIABLES
    app,      \* the app
    switch,   \* _stop_switch is set
    thread,   \* _thread, _task_thread: a thread object, 0 for None
    loop,     \* the thread objects
    call,     \* the call each RPC thread is in
    scan,     \* the scans, in the order of the dictionary of requests
    done,     \* scans the loop is done with: saved, or failed to be
    raced,    \* two calls have overlapped (history)
    lost      \* the last thread started has died of an exception (history)

vars == <<app, switch, thread, loop, call, scan, done, raced, lost>>
scans == <<scan, done>>

Threads == 1 .. MaxThreads
Scans == 1 .. MaxScans

(* next, size: where the iteration over the requests is, and how many      *)
(* there were when it began.                                               *)
Loop == [at : {"none", "made", "test", "work", "dead"}, next : 1 .. MaxScans + 1, size : 0 .. MaxScans]
NoLoop == [at |-> "none", next |-> 1, size |-> 0]
Call == [at : {"idle", "test", "clear", "look", "make", "launch",
               "set?", "set", "running", "join", "joining"},
         thread : 0 .. MaxThreads]
Idle == [at |-> "idle", thread |-> 0]

TypeOK ==
    /\ app \in Apps
    /\ switch \in BOOLEAN /\ raced \in BOOLEAN /\ lost \in BOOLEAN
    /\ thread \in 0 .. MaxThreads
    /\ loop \in [Threads -> Loop]
    /\ call \in [Callers -> Call]
    /\ scan \in [Scans -> {"none", "running", "ended", "killed"}]
    /\ done \subseteq Scans /\ \A r \in done : scan[r] \in {"ended", "killed"}

Init ==
    /\ app \in Apps
    /\ switch = TRUE /\ thread = 0
    /\ loop = [t \in Threads |-> NoLoop]
    /\ call = [c \in Callers |-> Idle]
    /\ scan = [r \in Scans |-> "none"] /\ done = {}
    /\ raced = FALSE /\ lost = FALSE

Monitor == app = "monitor"
Alive(t) == loop[t].at \in {"test", "work"}

(* A thread object nobody holds any more may be used for a new thread.     *)
Garbage == {t \in Threads : /\ loop[t].at \in {"none", "dead"} /\ thread # t
                            /\ \A c \in Callers : call[c].thread # t}
Starting == {c \in Callers : call[c].at \in {"test", "clear", "look", "make"}}

Goto(c, at) == call' = [call EXCEPT ![c].at = at]
Return(c) == call' = [call EXCEPT ![c] = Idle]

(* A call comes in. *)
Begin(c, at) ==
    /\ call[c].at = "idle"
    /\ \/ \A d \in Callers : call[d].at = "idle"
       \/ "overlap" \in Allowed
    /\ raced' = (raced \/ \E d \in Callers : call[d].at # "idle")
    /\ Goto(c, at)
    /\ UNCHANGED <<app, switch, thread, loop, scans, lost>>

(* ResourceMonitor.start begins with the switch; on() with a test of it.   *)
BeginStart(c) ==
    /\ Cardinality(Garbage) > Cardinality(Starting)
    /\ Begin(c, IF Monitor THEN "clear" ELSE "test")

BeginStop(c) == Begin(c, IF Monitor THEN "set" ELSE "set?")

(***************************************************************************)
(* ResourceMonitor.start and BackgroundMixin.on.                           *)
(***************************************************************************)
TestStopped(c) ==
    /\ call[c].at = "test"
    /\ IF switch THEN Goto(c, "clear") ELSE Return(c)
    /\ UNCHANGED <<app, switch, thread, loop, scans, raced, lost>>

Clear(c) ==
    /\ call[c].at = "clear"
    /\ switch' = FALSE
    /\ Goto(c, IF Monitor THEN "look" ELSE "make")
    /\ UNCHANGED <<app, thread, loop, scans, raced, lost>>

(* The monitor makes a thread only if it has none, be it dead or alive.    *)
Look(c) ==
    /\ call[c].at = "look"
    /\ IF thread = 0 THEN Goto(c, "make") ELSE Return(c)
    /\ UNCHANGED <<app, switch, thread, loop, scans, raced, lost>>

Make(c) ==
    /\ call[c].at = "make"
    /\ \E t \in Garbage :
         /\ \A u \in Garbage : t <= u
         /\ thread' = t
         /\ loop' = [loop EXCEPT ![t] = [NoLoop EXCEPT !.at = "made"]]
    /\ Goto(c, "launch")
    /\ UNCHANGED <<app, switch, scans, raced, lost>>

(* The attribute is read again: another caller's thread may be there, and  *)
(* launched already, or None.  Both raise.                                 *)
Launch(c) ==
    /\ call[c].at = "launch"
    /\ IF thread # 0 /\ loop[thread].at = "made"
       THEN loop' = [loop EXCEPT ![thread].at = "test"] /\ lost' = FALSE
       ELSE UNCHANGED <<loop, lost>>
    /\ Return(c)
    /\ UNCHANGED <<app, switch, thread, scans, raced>>

(***************************************************************************)
(* ResourceMonitor.stop and BackgroundMixin.off.                           *)
(***************************************************************************)
TestRunning(c) ==
    /\ call[c].at = "set?"
    /\ IF switch THEN Return(c) ELSE Goto(c, "set")
    /\ UNCHANGED <<app, switch, thread, loop, scans, raced, lost>>

Set(c) ==
    /\ call[c].at = "set"
    /\ switch' = TRUE
    /\ Goto(c, IF Monitor THEN "running" ELSE "join")
    /\ UNCHANGED <<app, thread, loop, scans, raced, lost>>

(* The monitor joins, and forgets, only a thread that runs. *)
IsRunning(c) ==
    /\ call[c].at = "running"
    /\ IF thread # 0 /\ Alive(thread)
       THEN Goto(c, "join") /\ UNCHANGED lost
       ELSE Return(c) /\ lost' = (lost \/ thread # 0)
    /\ UNCHANGED <<app, switch, thread, loop, scans, raced>>

(* join() without a timeout; there may be none, or one not yet launched:   *)
(* both raise.                                                             *)
Join(c) ==
    /\ call[c].at = "join"
    /\ IF thread = 0 THEN Return(c)
       ELSE IF loop[thread].at = "made" THEN Return(c)
       ELSE call' = [call EXCEPT ![c] = [at |-> "joining", thread |-> thread]]
    /\ UNCHANGED <<app, switch, thread, loop, scans, raced, lost>>

(* Mutant: the thread is not forgotten. *)
JoinedKeeps(c) ==
    /\ call[c].at = "joining"
    /\ loop[call[c].thread].at = "dead"
    /\ Return(c)
    /\ UNCHANGED <<app, switch, thread, loop, scans, raced, lost>>

Joined(c) ==
    /\ call[c].at = "joining"
    /\ loop[call[c].thread].at = "dead"
    /\ thread' = 0
    /\ Return(c)
    /\ UNCHANGED <<app, switch, loop, scans, raced, lost>>

(***************************************************************************)
(* The loop.                                                               *)
(***************************************************************************)
Known == Cardinality({r \in Scans : scan[r] # "none"})

(* Mutant: the loop does not look at the switch. *)
TestIgnored(t) ==
    /\ loop[t].at = "test"
    /\ loop' = [loop EXCEPT ![t] = [at |-> "work", next |-> 1, size |-> Known]]
    /\ UNCHANGED <<app, switch, thread, call, scans, raced, lost>>

Test(t) ==
    /\ loop[t].at = "test"
    /\ loop' = [loop EXCEPT ![t] = IF switch THEN [NoLoop EXCEPT !.at = "dead"]
                                   ELSE [at |-> "work", next |-> 1, size |-> Known]]
    /\ UNCHANGED <<app, switch, thread, call, scans, raced, lost>>

Rest(t) == loop' = [loop EXCEPT ![t] = [NoLoop EXCEPT !.at = "test"]]

(* An exception nothing catches ends the thread; the switch and the        *)
(* attribute stay as they are.                                             *)
Fall(t) ==
    /\ loop' = [loop EXCEPT ![t] = [NoLoop EXCEPT !.at = "dead"]]
    /\ lost' = (lost \/ t = thread)

(* One turn of ResourceMonitor._run or ThreatMonitor.run, and the sleep    *)
(* after it.  The latter catches all.                                      *)
Work(t) ==
    /\ loop[t].at = "work" /\ app # "lynis"
    /\ \/ Rest(t) /\ UNCHANGED lost
       \/ Monitor /\ "fault" \in Allowed /\ Fall(t)
    /\ UNCHANGED <<app, switch, thread, call, scans, raced>>

(* Lynis.run: the next of the requests.  The iterator raises if a request  *)
(* was added since the iteration began.                                    *)
Visit(t) ==
    /\ loop[t].at = "work" /\ app = "lynis"
    /\ loop[t].size = Known /\ loop[t].next <= Known
    /\ LET r == loop[t].next IN
         done' = IF scan[r] \in {"ended", "killed"} THEN done \cup {r} ELSE done
    /\ loop' = [loop EXCEPT ![t].next = @ + 1]
    /\ UNCHANGED <<app, switch, thread, call, scan, raced, lost>>

(* Mutant: the first turn is the only one. *)
VisitedStops(t) ==
    /\ loop[t].at = "work" /\ app = "lynis"
    /\ \/ loop[t].size # Known /\ Fall(t)
       \/ loop[t].size = Known /\ loop[t].next > Known /\ UNCHANGED <<loop, lost>>
    /\ UNCHANGED <<app, switch, thread, call, scans, raced>>

VisitedAll(t) ==
    /\ loop[t].at = "work" /\ app = "lynis"
    /\ \/ loop[t].size # Known /\ Fall(t)
       \/ loop[t].size = Known /\ loop[t].next > Known /\ Rest(t) /\ UNCHANGED lost
    /\ UNCHANGED <<app, switch, thread, call, scans, raced>>

(* start_scan, stop_scan, and the end of a scan. *)
StartScan ==
    /\ app = "lynis"
    /\ \E r \in Scans :
         /\ scan[r] = "none" /\ \A q \in Scans : q < r => scan[q] # "none"
         /\ scan' = [scan EXCEPT ![r] = "running"]
    /\ UNCHANGED <<app, switch, thread, loop, call, done, raced, lost>>

StopScan(r) ==
    /\ scan[r] = "running"
    /\ scan' = [scan EXCEPT ![r] = "killed"]
    /\ UNCHANGED <<app, switch, thread, loop, call, done, raced, lost>>

ScanEnds(r) ==
    /\ scan[r] = "running"
    /\ scan' = [scan EXCEPT ![r] = "ended"]
    /\ UNCHANGED <<app, switch, thread, loop, call, done, raced, lost>>

CallStep(c) ==
    \/ TestStopped(c) \/ Clear(c) \/ Look(c) \/ Make(c) \/ Launch(c)
    \/ TestRunning(c) \/ Set(c) \/ IsRunning(c) \/ Join(c) \/ Joined(c)
LoopStep(t) == Test(t) \/ Work(t) \/ Visit(t) \/ VisitedAll(t)

Next ==
    \/ \E c \in Callers : BeginStart(c) \/ BeginStop(c) \/ CallStep(c)
    \/ \E t \in Threads : LoopStep(t)
    \/ StartScan
    \/ \E r \in Scans : StopScan(r) \/ ScanEnds(r)

Spec == Init /\ [][Next]_vars

(* Threads that can run do. *)
FairSpec ==
    /\ Spec
    /\ \A c \in Callers : WF_vars(CallStep(c))
    /\ \A t \in Threads : WF_vars(LoopStep(t))

(***************************************************************************)
(* Properties.                                                             *)
(***************************************************************************)
Quiet == \A c \in Callers : call[c].at = "idle"
Live == {t \in Threads : Alive(t)}

(* Between calls, as long as none have overlapped: no thread works for an  *)
(* app that is off and just one for one that is on (monitor.py:77-95,      *)
(* background.py:29-47), unless that one was lost: off() and on() mend it  *)
(* for a BackgroundMixin; the monitor, which makes a thread only if it has *)
(* none, never runs again.                                                 *)
SwitchTells ==
    Quiet /\ ~raced =>
      /\ Cardinality(Live) <= 1
      /\ switch => Live = {}
      /\ ~switch /\ ~lost => Live # {}

(* A stop that waits for the thread returns, however calls overlap, unless *)
(* a start() clears the switch again before the thread has seen it.        *)
StopReturns ==
    \A c \in Callers :
      call[c].at = "joining" /\ switch ~> (call[c].at # "joining" \/ ~switch)

(* The loop comes to every scan that has ended, while the app is on and    *)
(* has a thread: a scan added while it looks costs it that                 *)
(* (lynis.py:113-121).                                                     *)
ScansAreDone ==
    \A r \in Scans : scan[r] = "ended" ~> (r \in done \/ switch \/ Live = {})

=============================================================================
