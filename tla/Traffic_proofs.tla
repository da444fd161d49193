--------------------------- MODULE Traffic_proofs ---------------------------
(***************************************************************************)
(* Proofs about the two ends of a ping: TrafficClient, for any number of   *)
(* callers, threads, tries and attempts, and TrafficServer, for any keys,  *)
(* servers and connections.  Each is a system of its own here.             *)
(***************************************************************************)
EXTENDS TrafficClient, TrafficServer, FiniteSetTheorems, TLAPS

(***************************************************************************)
(* The client.  The first part holds whatever the environment does; the    *)
(* second is about an environment that does none of the Disturbances.      *)
(***************************************************************************)

LEMMA AgentFacts ==
    /\ \A c \in Callers : c \in Agents /\ c \notin Threads /\ c # NoThread
    /\ \A t \in Threads : t \in Agents /\ t \notin Callers /\ t # NoThread
    /\ \A a \in Agents : a \in Callers \/ a \in Threads
  BY ClientAssumption DEF Agents

(* An attempt is begun only while any is left. *)
AttemptsLeft == \A t \in Threads : pc[t] = "create" => attempts[t] # 0

TInv == TypeOK /\ AttemptsLeft

LEMMA InitTInv == Init => TInv
  BY ClientAssumption, AgentFacts DEF Init, TInv, TypeOK, AttemptsLeft, CallerPcs, ThreadPcs, Looping, Attempting

(* One step of Goto keeps the labels in their sets. *)
LEMMA GotoCaller ==
    ASSUME TypeOK, NEW c \in Callers, NEW label \in CallerPcs, Goto(c, label)
    PROVE  /\ pc' \in [Agents -> CallerPcs \cup ThreadPcs]
           /\ \A d \in Callers : pc'[d] \in CallerPcs
           /\ \A t \in Threads : pc'[t] \in ThreadPcs
  BY AgentFacts DEF TypeOK, Goto

LEMMA GotoThread ==
    ASSUME TypeOK, NEW s \in Threads, NEW label \in ThreadPcs, Goto(s, label)
    PROVE  /\ pc' \in [Agents -> CallerPcs \cup ThreadPcs]
           /\ \A d \in Callers : pc'[d] \in CallerPcs
           /\ \A t \in Threads : pc'[t] \in ThreadPcs
  BY AgentFacts DEF TypeOK, Goto

LEMMA AfterCloseFacts ==
    /\ \A c \in Callers : AfterSocketClose(c) = "join"
    /\ \A t \in Threads : AfterSocketClose(t) \in {"report", "create"}
  BY AgentFacts DEF AfterSocketClose

LEMMA NextTypeOK == TInv /\ [Next]_vars => TypeOK'
  <1> SUFFICES ASSUME TypeOK, AttemptsLeft, [Next]_vars PROVE TypeOK'
    BY DEF TInv
  <1> USE DEF CallerPcs, ThreadPcs, Looping, Attempting
  <1>1. ASSUME NEW c \in Callers, StartTask(c) PROVE TypeOK'
    BY <1>1, AgentFacts DEF StartTask, TypeOK
  <1>2. ASSUME NEW c \in Callers, StopTask(c) \/ CloseTask(c) PROVE TypeOK'
    BY <1>2, GotoCaller DEF StopTask, CloseTask, TypeOK
  <1>3. ASSUME NEW c \in Callers, LaunchTask(c) PROVE TypeOK'
    BY <1>3, GotoCaller, AgentFacts DEF LaunchTask, TypeOK
  <1>4. ASSUME NEW c \in Callers, JoinTest(c) \/ JoinEnter(c) \/ JoinReturn(c) PROVE TypeOK'
    BY <1>4, GotoCaller DEF JoinTest, JoinEnter, JoinReturn, TypeOK
  <1>5. ASSUME NEW c \in Callers, SocketTest(c) \/ SocketShut(c) \/ SocketNull(c) PROVE TypeOK'
    BY <1>5, GotoCaller, AfterCloseFacts, AgentFacts DEF SocketTest, SocketShut, SocketNull, TypeOK
  <1>6. ASSUME NEW t \in Threads, CheckStopped(t) \/ ClearEvent(t) PROVE TypeOK'
    <2>1. CASE CheckStopped(t)
      BY <2>1, GotoThread DEF CheckStopped, TypeOK
    <2>2. CASE ClearEvent(t)
      <3>1. left' \in [Threads -> 0 .. Tries]
        BY <2>2, ClientAssumption DEF ClearEvent, TypeOK
      <3> QED
        BY <2>2, <3>1, GotoThread DEF ClearEvent, TypeOK
    <2> QED
      BY <1>6, <2>1, <2>2
  <1>7. ASSUME NEW t \in Threads, LoopHead(t) PROVE TypeOK'
    BY <1>7, GotoThread, ClientAssumption DEF LoopHead, TypeOK
  <1>8. ASSUME NEW t \in Threads, CreateSocket(t) PROVE TypeOK'
    <2>1. attempts[t] \in 1 .. Attempts
      BY <1>8, ClientAssumption DEF CreateSocket, TypeOK, AttemptsLeft
    <2>2. attempts' \in [Threads -> 0 .. Attempts]
      BY <1>8, <2>1, ClientAssumption DEF CreateSocket, TypeOK
    <2> QED
      BY <1>8, <2>2, GotoThread DEF CreateSocket, TypeOK
  <1>9. ASSUME NEW t \in Threads, Connect(t) \/ Exchange(t) PROVE TypeOK'
    BY <1>9, GotoThread, ClientAssumption DEF Connect, Exchange, TypeOK
  <1>10. ASSUME NEW t \in Threads, SocketTest(t) \/ SocketShut(t) \/ SocketNull(t) PROVE TypeOK'
    BY <1>10, GotoThread, AfterCloseFacts, AgentFacts DEF SocketTest, SocketShut, SocketNull, TypeOK
  <1>11. ASSUME NEW t \in Threads, Report(t) \/ Sleep(t) PROVE TypeOK'
    BY <1>11, GotoThread DEF Report, Sleep, TypeOK
  <1>12. CASE UNCHANGED vars
    BY <1>12 DEF vars, TypeOK
  <1> QED
    BY <1>1, <1>2, <1>3, <1>4, <1>5, <1>6, <1>7, <1>8, <1>9, <1>10, <1>11, <1>12
    DEF Next, CallerStep, ThreadStep

LEMMA NextAttemptsLeft == TInv /\ [Next]_vars => AttemptsLeft'
  <1> SUFFICES ASSUME TypeOK, AttemptsLeft, [Next]_vars, NEW s \in Threads, pc'[s] = "create"
               PROVE  attempts'[s] # 0
    BY DEF TInv, AttemptsLeft
  <1> USE AgentFacts
  <1>1. ASSUME NEW c \in Callers,
               StartTask(c) \/ LaunchTask(c) \/ StopTask(c) \/ CloseTask(c)
        PROVE  attempts'[s] # 0
    BY <1>1 DEF StartTask, LaunchTask, StopTask, CloseTask, Goto, TypeOK, AttemptsLeft
  <1>2. ASSUME NEW c \in Callers,
               JoinTest(c) \/ JoinEnter(c) \/ JoinReturn(c)
        PROVE  attempts'[s] # 0
    BY <1>2 DEF JoinTest, JoinEnter, JoinReturn, Goto, TypeOK, AttemptsLeft
  <1>3. ASSUME NEW a \in Agents, SocketTest(a) \/ SocketShut(a) \/ SocketNull(a)
        PROVE  attempts'[s] # 0
    BY <1>3 DEF SocketTest, SocketShut, SocketNull, AfterSocketClose, Goto, TypeOK, AttemptsLeft
  <1>4. ASSUME NEW t \in Threads,
               CheckStopped(t) \/ ClearEvent(t) \/ LoopHead(t) \/ CreateSocket(t)
        PROVE  attempts'[s] # 0
    BY <1>4, ClientAssumption
    DEF CheckStopped, ClearEvent, LoopHead, CreateSocket, Goto, TypeOK, AttemptsLeft
  <1>5. ASSUME NEW t \in Threads, Connect(t) \/ Exchange(t) \/ Report(t) \/ Sleep(t)
        PROVE  attempts'[s] # 0
    BY <1>5 DEF Connect, Exchange, Report, Sleep, Goto, TypeOK, AttemptsLeft
  <1>6. CASE UNCHANGED vars
    BY <1>6 DEF vars, AttemptsLeft
  <1> QED
    BY <1>1, <1>2, <1>3, <1>4, <1>5, <1>6 DEF Next, CallerStep, ThreadStep

(* The task and its client never leave their types.                        *)
THEOREM TypeCorrect == Spec => []TypeOK
  <1>1. TInv /\ [Next]_vars => TInv'
    BY NextTypeOK, NextAttemptsLeft DEF TInv
  <1>2. TInv => TypeOK
    BY DEF TInv
  <1> QED
    BY InitTInv, <1>1, <1>2, PTL DEF Spec
----------------------------------------------------------------------------
(***************************************************************************)
(* Whatever the environment does.                                          *)
(***************************************************************************)


(* A loop ends only at its head, with the event set or its tries spent;    *)
(* the event is cleared only by a thread that then loops.                  *)
LEMMA LoopSteps ==
    ASSUME TypeOK, [Next]_vars, NEW s \in Threads, Alive(s) \/ Spent(s)
    PROVE  event' \/ Alive(s)' \/ Spent(s)'
  <1> USE AgentFacts DEF Alive, Spent, Looping, Attempting
  <1>1. ASSUME NEW c \in Callers, StartTask(c) \/ LaunchTask(c)
        PROVE  Alive(s)' \/ Spent(s)'
    BY <1>1 DEF StartTask, LaunchTask, Free, Goto, TypeOK
  <1>2. ASSUME NEW c \in Callers, StopTask(c) \/ CloseTask(c)
        PROVE  event'
    BY <1>2 DEF StopTask, CloseTask
  <1>3. ASSUME NEW c \in Callers, JoinTest(c) \/ JoinEnter(c) \/ JoinReturn(c)
        PROVE  Alive(s)' \/ Spent(s)'
    BY <1>3 DEF JoinTest, JoinEnter, JoinReturn, Goto, TypeOK
  <1>4. ASSUME NEW a \in Agents, SocketTest(a) \/ SocketShut(a) \/ SocketNull(a)
        PROVE  Alive(s)' \/ Spent(s)'
    BY <1>4 DEF SocketTest, SocketShut, SocketNull, AfterSocketClose, Goto, TypeOK
  <1>5. ASSUME NEW t \in Threads, CheckStopped(t) \/ ClearEvent(t)
        PROVE  Alive(s)' \/ Spent(s)'
    BY <1>5 DEF CheckStopped, ClearEvent, Goto, TypeOK
  <1>6. ASSUME NEW t \in Threads, LoopHead(t)
        PROVE  event' \/ Alive(s)' \/ Spent(s)'
    BY <1>6 DEF LoopHead, Goto, TypeOK
  <1>7. ASSUME NEW t \in Threads,
               CreateSocket(t) \/ Connect(t) \/ Exchange(t) \/ Report(t) \/ Sleep(t)
        PROVE  Alive(s)' \/ Spent(s)'
    BY <1>7 DEF CreateSocket, Connect, Exchange, Report, Sleep, Goto, TypeOK
  <1>8. CASE UNCHANGED vars
    BY <1>8 DEF vars
  <1> QED
    BY <1>1, <1>2, <1>3, <1>4, <1>5, <1>6, <1>7, <1>8 DEF Next, CallerStep, ThreadStep

LEMMA EventCleared ==
    ASSUME TypeOK, [Next]_vars, event, ~event'
    PROVE  \E t \in Threads : Alive(t)'
  <1>1. PICK t \in Threads : ClearEvent(t)
    BY DEF Next, CallerStep, ThreadStep, vars, StartTask, StopTask, CloseTask, LaunchTask,
           JoinTest, JoinEnter, JoinReturn, SocketTest, SocketShut, SocketNull,
           CheckStopped, LoopHead, CreateSocket, Connect, Exchange, Report, Sleep
  <1> QED
    BY <1>1, AgentFacts DEF ClearEvent, Goto, TypeOK, Alive, Looping

(* However the RPC threads interleave, what is_running() answers is true.  *)
THEOREM RunningIsTrueHolds == Spec => []RunningIsTrue
  <1>1. Init => RunningIsTrue
    BY DEF Init, RunningIsTrue
  <1>2. TypeOK /\ RunningIsTrue /\ [Next]_vars => RunningIsTrue'
    <2> SUFFICES ASSUME TypeOK, RunningIsTrue, [Next]_vars, ~event'
                 PROVE  \E t \in Threads : Alive(t)' \/ Spent(t)'
      BY DEF RunningIsTrue
    <2>1. CASE event
      BY <2>1, EventCleared
    <2>2. CASE ~event
      <3>1. PICK s \in Threads : Alive(s) \/ Spent(s)
        BY <2>2 DEF RunningIsTrue
      <3> QED
        BY <3>1, LoopSteps
    <2> QED
      BY <2>1, <2>2
  <1> QED
    BY TypeCorrect, <1>1, <1>2, PTL DEF Spec

(* The loop whose socket the attribute holds is still within the ping that *)
(* created it.                                                             *)
LEMMA NextSocketHeld == TypeOK /\ SocketHeld /\ [Next]_vars => SocketHeld'
  <1> SUFFICES ASSUME TypeOK, SocketHeld, [Next]_vars, socket' # NoThread
               PROVE  pc'[socket'] \in Attempting
    BY DEF SocketHeld
  <1> USE AgentFacts DEF Attempting, SocketHeld
  <1>1. ASSUME NEW c \in Callers,
               StartTask(c) \/ LaunchTask(c) \/ StopTask(c) \/ CloseTask(c)
        PROVE  pc'[socket'] \in Attempting
    BY <1>1 DEF StartTask, LaunchTask, StopTask, CloseTask, Free, Goto, TypeOK
  <1>2. ASSUME NEW c \in Callers, JoinTest(c) \/ JoinEnter(c) \/ JoinReturn(c)
        PROVE  pc'[socket'] \in Attempting
    BY <1>2 DEF JoinTest, JoinEnter, JoinReturn, Goto, TypeOK
  <1>3. ASSUME NEW a \in Agents, SocketTest(a) \/ SocketShut(a) \/ SocketNull(a)
        PROVE  pc'[socket'] \in Attempting
    BY <1>3 DEF SocketTest, SocketShut, SocketNull, AfterSocketClose, Goto, TypeOK
  <1>4. ASSUME NEW t \in Threads, CheckStopped(t) \/ ClearEvent(t) \/ LoopHead(t)
        PROVE  pc'[socket'] \in Attempting
    BY <1>4 DEF CheckStopped, ClearEvent, LoopHead, Goto, TypeOK
  <1>5. ASSUME NEW t \in Threads, CreateSocket(t)
        PROVE  pc'[socket'] \in Attempting
    BY <1>5 DEF CreateSocket, Goto, TypeOK
  <1>6. ASSUME NEW t \in Threads, Connect(t) \/ Exchange(t) \/ Report(t) \/ Sleep(t)
        PROVE  pc'[socket'] \in Attempting
    BY <1>6 DEF Connect, Exchange, Report, Sleep, Goto, TypeOK
  <1>7. CASE UNCHANGED vars
    BY <1>7 DEF vars
  <1> QED
    BY <1>1, <1>2, <1>3, <1>4, <1>5, <1>6, <1>7 DEF Next, CallerStep, ThreadStep

(* No interleaving of loops and close() leaves a socket open behind it.    *)
THEOREM SocketHeldHolds == Spec => []SocketHeld
  <1>1. Init => SocketHeld
    BY DEF Init, SocketHeld
  <1> QED
    BY TypeCorrect, NextSocketHeld, <1>1, PTL DEF Spec

----------------------------------------------------------------------------
(***************************************************************************)
(* Left alone by its environment: the inductive invariant behind OneLoop,  *)
(* NoZombies, OwnSocket and PingsReported.                                 *)
(***************************************************************************)
Entered(t) == pc[t] \in {"check", "clear"} \cup Looping
Stopping(c) == pc[c] \in {"join", "enter", "wait"}

(* One request at a time; it has set the event, or is about to launch the  *)
(* thread it made; it joins the thread the task remembers.                 *)
CallersInv ==
    /\ \A c, d \in Callers : pc[c] # "idle" /\ pc[d] # "idle" => c = d
    /\ \A c \in Callers : pc[c] \in {"idle", "launch"} \/ Stopping(c)
    /\ \A c \in Callers : pc[c] # "idle" => event
    /\ \A c \in Callers : pc[c] = "launch" => thread # NoThread /\ pc[thread] = "new"
    /\ \A c \in Callers : pc[c] = "wait" => joining[c] = thread /\ thread # NoThread

(* A thread made or running is the one the task has;  between its launch    *)
(* and its first ping nobody calls, and it loops on against the event only *)
(* while someone waits for it to end.                                      *)
ThreadsInv ==
    /\ \A t \in Threads : Entered(t) \/ pc[t] = "new" => thread = t
    /\ \A t \in Threads : pc[t] = "new" => \E c \in Callers : pc[c] = "launch"
    /\ \A t \in Threads : pc[t] \in {"check", "clear"} => event /\ Quiet
    /\ \A t \in Threads : Alive(t) /\ event => \E c \in Callers : Stopping(c)

PingInv ==
    /\ \A t \in Threads : pc[t] \in Attempting => socket = t
    /\ \A t \in Threads : pc[t] = "sleep" => reported[t] \/ Protocol # "TCP"

IInv == CallersInv /\ ThreadsInv /\ PingInv

LEMMA InitIInv == Init => IInv
  BY ClientAssumption, AgentFacts
  DEF Init, IInv, CallersInv, ThreadsInv, PingInv, Entered, Stopping, Quiet, Alive,
      Looping, Attempting

LEMMA StartIInv ==
    ASSUME Allowed = {}, TypeOK, IInv, NEW c \in Callers, StartTask(c)
    PROVE  IInv'
  <1> USE AgentFacts DEF Entered, Stopping, Quiet, Alive, Looping, Attempting
  <1>1. /\ Quiet /\ event /\ pc[c] = "idle"
        /\ \A t \in Threads : ~Entered(t) /\ pc[t] # "new"
    BY DEF StartTask, MayCall, IInv, CallersInv, ThreadsInv
  <1>2. PICK s \in Threads : thread' = s /\ pc' = [pc EXCEPT ![s] = "new", ![c] = "launch"]
    BY DEF StartTask
  <1>3. CallersInv'
    BY <1>1, <1>2 DEF StartTask, IInv, CallersInv, TypeOK
  <1>4. ThreadsInv'
    BY <1>1, <1>2 DEF StartTask, IInv, ThreadsInv, TypeOK
  <1>5. PingInv'
    BY <1>1, <1>2 DEF StartTask, IInv, PingInv, TypeOK
  <1> QED
    BY <1>3, <1>4, <1>5 DEF IInv

LEMMA LaunchIInv ==
    ASSUME Allowed = {}, TypeOK, IInv, NEW c \in Callers, LaunchTask(c)
    PROVE  IInv'
  <1> USE AgentFacts DEF Entered, Stopping, Quiet, Alive, Looping, Attempting
  <1>1. /\ thread \in Threads /\ event
        /\ pc' = [pc EXCEPT ![thread] = "check", ![c] = "idle"]
        /\ \A d \in Callers : d # c => pc[d] = "idle"
    BY DEF LaunchTask, IInv, CallersInv, TypeOK
  <1>2. CallersInv'
    BY <1>1 DEF LaunchTask, IInv, CallersInv, TypeOK
  <1>3. \A t \in Threads : t # thread => ~Entered(t) /\ pc[t] # "new"
    BY <1>1 DEF LaunchTask, IInv, ThreadsInv, CallersInv, TypeOK
  <1>4. ThreadsInv'
    BY <1>1, <1>3 DEF LaunchTask, IInv, ThreadsInv, TypeOK
  <1>5. PingInv'
    BY <1>1 DEF LaunchTask, IInv, PingInv, TypeOK
  <1> QED
    BY <1>2, <1>4, <1>5 DEF IInv

LEMMA StopIInv ==
    ASSUME Allowed = {}, TypeOK, IInv, NEW c \in Callers, StopTask(c) \/ CloseTask(c)
    PROVE  IInv'
  <1> USE AgentFacts DEF Entered, Stopping, Quiet, Alive, Looping, Attempting
  <1>1. /\ Quiet /\ event' /\ Goto(c, "join")
        /\ UNCHANGED <<thread, socket, joining, left, attempts, reported>>
        /\ \A t \in Threads : pc[t] \notin {"check", "clear", "new"}
    BY DEF StopTask, CloseTask, MayCall, IInv, ThreadsInv
  <1>2. CallersInv'
    BY <1>1 DEF Goto, IInv, CallersInv, TypeOK
  <1>3. ThreadsInv'
    BY <1>1 DEF Goto, IInv, ThreadsInv, TypeOK
  <1>4. PingInv'
    BY <1>1 DEF Goto, IInv, PingInv, TypeOK
  <1> QED
    BY <1>2, <1>3, <1>4 DEF IInv

LEMMA JoinIInv ==
    ASSUME Allowed = {}, TypeOK, IInv, NEW c \in Callers,
           JoinTest(c) \/ JoinEnter(c) \/ JoinReturn(c)
    PROVE  IInv'
  <1> USE AgentFacts DEF Entered, Stopping, Quiet, Alive, Looping, Attempting
  <1>1. /\ event /\ event' /\ Stopping(c)
        /\ \A d \in Callers : d # c => pc[d] = "idle"
        /\ \A t \in Threads : pc[t] \notin {"check", "clear", "new"}
    BY DEF JoinTest, JoinEnter, JoinReturn, IInv, CallersInv, ThreadsInv
  <1>2. /\ \A t \in Threads : pc'[t] = pc[t]
        /\ \A d \in Callers : d # c => pc'[d] = pc[d]
        /\ pc'[c] \in {"idle", "enter", "wait"}
    BY DEF JoinTest, JoinEnter, JoinReturn, Goto, TypeOK
  <1>3. pc'[c] = "idle" => \A t \in Threads : ~Entered(t)
    BY <1>1 DEF JoinTest, JoinEnter, JoinReturn, Goto, TypeOK, IInv, CallersInv, ThreadsInv
  <1>4. pc'[c] = "wait" => joining'[c] = thread' /\ thread' # NoThread
    BY DEF JoinTest, JoinEnter, JoinReturn, Goto, TypeOK
  <1>5. thread' = thread \/ pc'[c] = "idle"
    BY DEF JoinTest, JoinEnter, JoinReturn, Goto, TypeOK
  <1>6. CallersInv'
    BY <1>1, <1>2, <1>4 DEF IInv, CallersInv
  <1>7. ThreadsInv'
    BY <1>1, <1>2, <1>3, <1>5 DEF IInv, ThreadsInv
  <1>8. PingInv'
    BY <1>2 DEF JoinTest, JoinEnter, JoinReturn, IInv, PingInv
  <1> QED
    BY <1>6, <1>7, <1>8 DEF IInv

LEMMA SocketIInv ==
    ASSUME TypeOK, IInv, NEW a \in Agents, SocketTest(a) \/ SocketShut(a) \/ SocketNull(a)
    PROVE  IInv'
  <1> USE AgentFacts DEF Entered, Stopping, Quiet, Alive, Looping, Attempting
  <1>1. a \in Threads /\ thread = a /\ socket = a /\ pc[a] \in {"test", "shut", "null"}
    BY DEF SocketTest, SocketShut, SocketNull, IInv, CallersInv, ThreadsInv, PingInv
  <1>2. \A t \in Threads : t # a => ~Entered(t) /\ pc[t] # "new"
    BY <1>1 DEF IInv, ThreadsInv
  <1>3. UNCHANGED <<event, thread, joining, attempts>>
    BY DEF SocketTest, SocketShut, SocketNull
  <1>4. /\ \A b \in Agents : b # a => pc'[b] = pc[b]
        /\ \/ pc'[a] \in {"shut", "null"} /\ UNCHANGED <<socket, reported>>
           \/ pc'[a] \in {"create", "report"} /\ UNCHANGED reported
    BY <1>1, AfterCloseFacts DEF SocketTest, SocketShut, SocketNull, Goto, TypeOK
  <1>5. CallersInv'
    BY <1>1, <1>3, <1>4 DEF IInv, CallersInv, TypeOK
  <1>6. ThreadsInv'
    BY <1>1, <1>2, <1>3, <1>4 DEF IInv, ThreadsInv
  <1>7. PingInv'
    BY <1>1, <1>2, <1>4 DEF IInv, PingInv
  <1> QED
    BY <1>5, <1>6, <1>7 DEF IInv

LEMMA BeginIInv ==
    ASSUME TypeOK, IInv, NEW s \in Threads, CheckStopped(s) \/ ClearEvent(s)
    PROVE  IInv'
  <1> USE AgentFacts DEF Entered, Stopping, Quiet, Alive, Looping, Attempting
  <1>1. thread = s /\ event /\ Quiet
    BY DEF CheckStopped, ClearEvent, IInv, ThreadsInv
  <1>2. \A t \in Threads : t # s => ~Entered(t) /\ pc[t] # "new"
    BY <1>1 DEF IInv, ThreadsInv
  <1>3. /\ \A b \in Agents : b # s => pc'[b] = pc[b]
        /\ \/ pc'[s] = "clear" /\ event'
           \/ pc'[s] = "top" /\ ~event'
        /\ UNCHANGED <<thread, socket, joining, reported>>
    BY <1>1 DEF CheckStopped, ClearEvent, Goto, TypeOK
  <1>4. CallersInv'
    BY <1>1, <1>3 DEF IInv, CallersInv
  <1>5. ThreadsInv'
    BY <1>1, <1>2, <1>3 DEF IInv, ThreadsInv
  <1>6. PingInv'
    BY <1>3 DEF IInv, PingInv
  <1> QED
    BY <1>4, <1>5, <1>6 DEF IInv

LEMMA PingIInv ==
    ASSUME TypeOK, IInv, NEW s \in Threads,
           \/ LoopHead(s) \/ CreateSocket(s) \/ Connect(s) \/ Exchange(s)
           \/ Report(s) \/ Sleep(s)
    PROVE  IInv'
  <1> USE AgentFacts DEF Entered, Stopping, Quiet, Alive, Looping, Attempting
  <1>1. Alive(s) /\ thread = s
    BY DEF LoopHead, CreateSocket, Connect, Exchange, Report, Sleep, IInv, ThreadsInv
  <1>2. \A t \in Threads : t # s => ~Entered(t) /\ pc[t] # "new"
    BY <1>1 DEF IInv, ThreadsInv
  <1>3. /\ \A b \in Agents : b # s => pc'[b] = pc[b]
        /\ UNCHANGED <<event, thread, joining>>
    BY DEF LoopHead, CreateSocket, Connect, Exchange, Report, Sleep, Goto, TypeOK
  <1>4. Alive(s)' \/ pc'[s] = "dead"
    BY DEF LoopHead, CreateSocket, Connect, Exchange, Report, Sleep, Goto, TypeOK
  <1>5. CallersInv'
    BY <1>1, <1>3 DEF IInv, CallersInv, TypeOK
  <1>6. ThreadsInv'
    BY <1>1, <1>2, <1>3, <1>4 DEF IInv, ThreadsInv
  <1>7. pc'[s] \in Attempting => socket' = s
    BY DEF LoopHead, CreateSocket, Connect, Exchange, Report, Sleep, Goto, TypeOK,
           IInv, PingInv
  <1>8. pc'[s] = "sleep" => reported'[s] \/ Protocol # "TCP"
    BY DEF LoopHead, CreateSocket, Connect, Exchange, Report, Sleep, Goto, TypeOK
  <1>9. PingInv'
    BY <1>2, <1>3, <1>7, <1>8 DEF IInv, PingInv
  <1> QED
    BY <1>5, <1>6, <1>9 DEF IInv

LEMMA NextIInv ==
    ASSUME Allowed = {}, TypeOK, IInv, [Next]_vars
    PROVE  IInv'
  <1>1. CASE UNCHANGED vars
    BY <1>1 DEF vars, IInv, CallersInv, ThreadsInv, PingInv, Entered, Stopping, Quiet, Alive
  <1> QED
    BY <1>1, AgentFacts, StartIInv, LaunchIInv, StopIInv, JoinIInv, SocketIInv, BeginIInv, PingIInv
    DEF Next, CallerStep, ThreadStep

THEOREM OrderlyInvariance ==
    ASSUME Allowed = {} PROVE Spec => []IInv
  <1>1. TypeOK /\ IInv /\ [Next]_vars => IInv'
    BY NextIInv
  <1> QED
    BY TypeCorrect, InitIInv, <1>1, PTL DEF Spec

(* Requests that neither overlap nor hurry are served by one loop at most. *)
THEOREM OneLoopHolds ==
    ASSUME Allowed = {} PROVE Spec => []OneLoop
  <1>1. IInv => OneLoop
    BY DEF IInv, ThreadsInv, Entered, Alive, OneLoop
  <1> QED
    BY OrderlyInvariance, <1>1, PTL

(* And a stop that has returned leaves no ping thread behind.              *)
THEOREM NoZombiesHolds ==
    ASSUME Allowed = {} PROVE Spec => []NoZombies
  <1>1. IInv => NoZombies
    BY DEF IInv, ThreadsInv, Stopping, Quiet, NoZombies
  <1> QED
    BY OrderlyInvariance, <1>1, PTL

(* A loop then talks only on its own socket.                               *)
THEOREM OwnSocketHolds ==
    ASSUME Allowed = {} PROVE Spec => []OwnSocket
  <1>1. IInv => OwnSocket
    BY DEF IInv, PingInv, Attempting, OwnSocket
  <1> QED
    BY OrderlyInvariance, <1>1, PTL

(* And every ping of a TCP or HTTP client reaches the record queue.        *)
THEOREM PingsReportedHolds ==
    ASSUME Allowed = {}, Protocol = "TCP" PROVE Spec => []PingsReported
  <1>1. IInv => PingsReported
    BY DEF IInv, PingInv, PingsReported
  <1> QED
    BY OrderlyInvariance, <1>1, PTL

----------------------------------------------------------------------------
(***************************************************************************)
(* TaskLifecycle, step by step.                                            *)
(***************************************************************************)
Live == {t \in Threads : Alive(t)}
Beginning == \E t \in Threads : pc[t] \in {"check", "clear"}
Called == \E c \in Callers : Stopping(c)

(* Which phase a state is in, and how many work. *)
PhaseIs ==
    /\ Called => LifecyclePhase = "stopping"
    /\ Quiet /\ event /\ ~Beginning => LifecyclePhase = "stopped"
    /\ Quiet /\ event /\ Beginning => LifecyclePhase = "starting"
    /\ (\E c \in Callers : pc[c] = "launch") => LifecyclePhase = "starting"
    /\ ~event /\ Live # {} => LifecyclePhase = "running"
    /\ ~event /\ Live = {} => LifecyclePhase = "spent"

WorkersAre ==
    /\ Live = {} => Cardinality(Live) = 0
    /\ Live # {} => Cardinality(Live) = 1

LEMMA PhaseFacts == TypeOK /\ IInv => PhaseIs
  <1> SUFFICES ASSUME TypeOK, IInv PROVE PhaseIs
    OBVIOUS
  <1> USE DEF Stopping, CallerPcs, LifecyclePhase, Live, Beginning, Called
  <1>1. \A c \in Callers : pc[c] \in CallerPcs \ {"idle", "launch"} <=> Stopping(c)
    BY DEF IInv, CallersInv
  <1>2. Called => LifecyclePhase = "stopping"
    <2> SUFFICES ASSUME NEW c \in Callers, Stopping(c) PROVE LifecyclePhase = "stopping"
      OBVIOUS
    <2>1. ~Quiet /\ event /\ \E d \in Callers : pc[d] \in CallerPcs \ {"idle", "launch"}
      BY <1>1 DEF Quiet, IInv, CallersInv
    <2> QED BY <2>1
  <1>3. Quiet => ~(\E c \in Callers : pc[c] \in CallerPcs \ {"idle", "launch"})
    BY DEF Quiet
  <1>4. Quiet /\ event => (~Beginning => LifecyclePhase = "stopped")
                          /\ (Beginning => LifecyclePhase = "starting")
    BY <1>3
  <1>5. ~event => Quiet
    BY DEF Quiet, IInv, CallersInv
  <1>6. (\E c \in Callers : pc[c] = "launch") => LifecyclePhase = "starting"
    <2> SUFFICES ASSUME NEW c \in Callers, pc[c] = "launch" PROVE LifecyclePhase = "starting"
      OBVIOUS
    <2>1. \A d \in Callers : d # c => pc[d] = "idle"
      BY DEF IInv, CallersInv
    <2>2. event /\ ~Quiet
      BY DEF IInv, CallersInv, Quiet
    <2> QED BY <2>1, <2>2
  <1>7. ~event /\ Live # {} => LifecyclePhase = "running"
    BY <1>3, <1>5
  <1>8. ~event /\ Live = {} => LifecyclePhase = "spent"
    BY <1>3, <1>5
  <1> QED BY <1>2, <1>4, <1>6, <1>7, <1>8 DEF PhaseIs

LEMMA WorkerFacts == TypeOK /\ IInv => WorkersAre
  <1> SUFFICES ASSUME TypeOK, IInv PROVE WorkersAre
    OBVIOUS
  <1>1. \A s, t \in Live : s = t
    BY DEF Live, IInv, ThreadsInv, Entered, Alive
  <1>2. CASE Live = {}
    BY <1>2, FS_EmptySet DEF WorkersAre
  <1>3. CASE Live # {}
    <2>1. PICK t \in Live : TRUE
      BY <1>3
    <2>2. Live = {t}
      BY <1>1, <2>1
    <2> QED BY <1>3, <2>2, FS_Singleton DEF WorkersAre
  <1> QED BY <1>2, <1>3

(* A step of the task, seen from its manager. *)
Seen == Lifecycle!Next \/ UNCHANGED <<LifecyclePhase, Cardinality(Live)>>

LEMMA CallerSeen ==
    ASSUME Allowed = {}, TypeOK, IInv, PhaseIs, WorkersAre, PhaseIs', WorkersAre',
           TypeOK', IInv', NEW c \in Callers,
           \/ StartTask(c) \/ StopTask(c) \/ CloseTask(c) \/ LaunchTask(c)
           \/ JoinTest(c) \/ JoinEnter(c) \/ JoinReturn(c)
    PROVE  Seen
  <1> USE AgentFacts DEF Stopping, Beginning, Called, Live, Alive, Looping, Attempting
  <1>1. CASE StartTask(c)
    <2>1. Quiet /\ event /\ ~Beginning /\ pc[c] = "idle" /\ ~Called
      BY <1>1 DEF StartTask, MayCall, Quiet
    <2>2. Live = {}
      BY <2>1 DEF IInv, ThreadsInv
    <2>3. PICK t \in Threads : pc' = [pc EXCEPT ![t] = "new", ![c] = "launch"]
      BY <1>1 DEF StartTask
    <2>4. pc'[c] = "launch" /\ Live' = {}
      BY <2>2, <2>3 DEF TypeOK
    <2>5. LifecyclePhase = "stopped" /\ LifecyclePhase' = "starting"
      BY <2>1, <2>4 DEF PhaseIs
    <2>6. Cardinality(Live') = Cardinality(Live)
      BY <2>2, <2>4
    <2> QED BY <2>5, <2>6 DEF Seen, Lifecycle!Next, Lifecycle!Start
  <1>2. CASE StopTask(c)
    <2>1. Quiet /\ pc' = [pc EXCEPT ![c] = "join"] /\ ~Called
      BY <1>2 DEF StopTask, MayCall, Quiet, Goto
    <2>2. Called' /\ Live' = Live
      BY <2>1 DEF TypeOK
    <2>3. LifecyclePhase # "stopping"
      BY <2>1 DEF PhaseIs
    <2> QED BY <2>2, <2>3 DEF PhaseIs, Seen, Lifecycle!Next, Lifecycle!Stop
  <1>3. CASE LaunchTask(c)
    <2>1. thread \in Threads /\ pc[c] = "launch" /\ event /\ event'
          /\ pc' = [pc EXCEPT ![thread] = "check", ![c] = "idle"]
          /\ pc[thread] = "new" /\ \A d \in Callers : d # c => pc[d] = "idle"
      BY <1>3 DEF LaunchTask, IInv, CallersInv, TypeOK
    <2>2. Live' = Live /\ Quiet' /\ Beginning'
      BY <2>1 DEF TypeOK, Quiet
    <2>3. LifecyclePhase = "starting" /\ LifecyclePhase' = "starting"
      BY <2>1, <2>2 DEF PhaseIs
    <2> QED BY <2>2, <2>3 DEF Seen
  <1>4. CASE JoinTest(c) \/ JoinEnter(c) \/ JoinReturn(c)
    <2>1. /\ event /\ event' /\ Called
          /\ \A d \in Callers : d # c => pc[d] = "idle"
          /\ ~Beginning
      BY <1>4 DEF JoinTest, JoinEnter, JoinReturn, IInv, CallersInv, ThreadsInv, Quiet
    <2>2. /\ \A t \in Threads : pc'[t] = pc[t]
          /\ \A d \in Callers : d # c => pc'[d] = pc[d]
          /\ pc'[c] \in {"idle", "enter", "wait"}
      BY <1>4 DEF JoinTest, JoinEnter, JoinReturn, Goto, TypeOK
    <2>3. Live' = Live /\ ~Beginning'
      BY <2>1, <2>2
    <2>4. LifecyclePhase = "stopping"
      BY <2>1 DEF PhaseIs
    <2>5. CASE pc'[c] = "idle"
      <3>1. Quiet'
        BY <2>1, <2>2, <2>5 DEF Quiet
      <3>2. LifecyclePhase' = "stopped"
        BY <2>1, <2>3, <3>1 DEF PhaseIs
      <3>3. Live' = {}
        BY <2>1, <3>1 DEF IInv, ThreadsInv, Quiet
      <3> QED BY <2>3, <2>4, <3>2, <3>3 DEF WorkersAre, Seen, Lifecycle!Next, Lifecycle!Stopped
    <2>6. CASE pc'[c] # "idle"
      <3>1. Called'
        BY <2>2, <2>6
      <3> QED BY <2>3, <2>4, <3>1 DEF PhaseIs, Seen
    <2> QED BY <2>5, <2>6
  <1>5. ~CloseTask(c)
    BY DEF CloseTask
  <1> QED BY <1>1, <1>2, <1>3, <1>4, <1>5

LEMMA ThreadSeen ==
    ASSUME TypeOK, IInv, PhaseIs, WorkersAre, PhaseIs', WorkersAre', NEW s \in Threads,
           ThreadStep(s)
    PROVE  Seen
  <1> USE AgentFacts DEF Stopping, Beginning, Called, Alive, Looping, Attempting
  <1>1. CASE CheckStopped(s)
    <2>1. event /\ Quiet /\ event' /\ pc[s] = "check" /\ pc' = [pc EXCEPT ![s] = "clear"]
      BY <1>1 DEF CheckStopped, IInv, ThreadsInv, Goto
    <2>2. Quiet' /\ Beginning /\ Beginning' /\ Live' = Live
      BY <2>1 DEF TypeOK, Quiet, Live
    <2> QED BY <2>1, <2>2 DEF PhaseIs, Seen
  <1>2. CASE ClearEvent(s)
    <2>1. event /\ Quiet /\ ~event' /\ pc[s] = "clear" /\ pc' = [pc EXCEPT ![s] = "top"]
      BY <1>2 DEF ClearEvent, IInv, ThreadsInv, Goto
    <2>2. Beginning /\ ~Called
      BY <2>1 DEF Quiet
    <2>3. Live = {} /\ s \in Live'
      BY <2>1, <2>2 DEF TypeOK, Live, IInv, ThreadsInv
    <2>4. LifecyclePhase = "starting" /\ LifecyclePhase' = "running" /\ Cardinality(Live') = 1
      BY <2>1, <2>2, <2>3 DEF PhaseIs, WorkersAre
    <2> QED BY <2>4 DEF Seen, Lifecycle!Next, Lifecycle!Begin, Live
  <1>3. CASE LoopHead(s) /\ pc'[s] = "dead"
    <2>1. /\ pc[s] = "top" /\ pc' = [pc EXCEPT ![s] = "dead"] /\ event' = event
      BY <1>3 DEF LoopHead, Goto, TypeOK
    <2>2. s \in Live /\ \A t \in Live : t = s
      BY <2>1 DEF Live, IInv, ThreadsInv, Entered
    <2>3. Live' = {}
      BY <2>1, <2>2 DEF TypeOK, Live
    <2>4. Cardinality(Live) = 1 /\ Cardinality(Live') = 0
      BY <2>2, <2>3 DEF WorkersAre
    <2>5. CASE event
      <3>1. Called /\ Called'
        BY <2>1, <2>2, <2>5 DEF IInv, ThreadsInv, TypeOK, Live
      <3> QED BY <2>4, <3>1 DEF PhaseIs, Seen, Lifecycle!Next, Lifecycle!Wind, Live
    <2>6. CASE ~event
      <3>1. LifecyclePhase = "running" /\ LifecyclePhase' = "spent"
        BY <2>1, <2>2, <2>3, <2>6 DEF PhaseIs
      <3> QED BY <2>4, <3>1 DEF Seen, Lifecycle!Next, Lifecycle!Exhaust, Live
    <2> QED BY <2>5, <2>6
  <1>4. CASE \/ LoopHead(s) /\ pc'[s] # "dead"
             \/ CreateSocket(s) \/ Connect(s) \/ Exchange(s) \/ Report(s) \/ Sleep(s)
             \/ SocketTest(s) \/ SocketShut(s) \/ SocketNull(s)
    <2>1. Alive(s) /\ Alive(s)' /\ event' = event /\ \A b \in Agents : b # s => pc'[b] = pc[b]
      BY <1>4, AfterCloseFacts
      DEF LoopHead, CreateSocket, Connect, Exchange, Report, Sleep,
          SocketTest, SocketShut, SocketNull, Goto, TypeOK
    <2>2. Live' = Live /\ Live # {} /\ (Called <=> Called')
      BY <2>1 DEF Live
    <2>3. CASE event
      <3>1. Called
        BY <2>1, <2>3 DEF IInv, ThreadsInv
      <3> QED BY <2>2, <3>1 DEF PhaseIs, Seen
    <2>4. CASE ~event
      BY <2>1, <2>2, <2>4 DEF PhaseIs, Seen
    <2> QED BY <2>3, <2>4
  <1> QED BY <1>1, <1>2, <1>3, <1>4 DEF ThreadStep

LEMMA NextSeen ==
    ASSUME Allowed = {}, TypeOK, IInv, PhaseIs, WorkersAre, TypeOK', IInv', PhaseIs', WorkersAre',
           [Next]_vars
    PROVE  Seen
  <1>1. CASE UNCHANGED vars
    BY <1>1 DEF vars, Seen, LifecyclePhase, Live, Alive, Quiet
  <1>2. ASSUME NEW c \in Callers, SocketTest(c) \/ SocketShut(c) \/ SocketNull(c) PROVE FALSE
    BY <1>2 DEF SocketTest, SocketShut, SocketNull, IInv, CallersInv, Stopping
  <1> QED BY <1>1, <1>2, CallerSeen, ThreadSeen DEF Next, CallerStep

(* Left alone, every step of a task is a step of TaskLifecycle or none at  *)
(* all: it starts only when stopped, works with one loop only between a    *)
(* start and a stop, and has stopped only when the loop has ended          *)
(* (task.py:77-123).                                                       *)
THEOREM LifecycleSteps ==
    ASSUME Allowed = {} PROVE Spec => Lifecycle!SafeSpec
  <1>1. Init => Lifecycle!Init
    <2> SUFFICES ASSUME Init PROVE LifecyclePhase = "stopped" /\ Cardinality(Live) = 0
      BY DEF Lifecycle!Init, Live
    <2>1. \A t \in Threads : pc[t] = "dead"
      BY AgentFacts DEF Init
    <2>2. \A c \in Callers : pc[c] = "idle"
      BY AgentFacts DEF Init
    <2>3. Live = {}
      BY <2>1 DEF Live, Alive, Looping, Attempting
    <2> QED BY <2>1, <2>2, <2>3, FS_EmptySet DEF Init, LifecyclePhase, Quiet
  <1>2. TypeOK /\ IInv /\ TypeOK' /\ IInv' /\ PhaseIs /\ PhaseIs' /\ WorkersAre /\ WorkersAre'
          /\ [Next]_vars => [Lifecycle!Next]_<<LifecyclePhase, Cardinality(Live)>>
    BY NextSeen DEF Seen
  <1>3. [Lifecycle!Next]_<<LifecyclePhase, Cardinality(Live)>>
          => [Lifecycle!Next]_<<LifecyclePhase, Cardinality({t \in Threads : Alive(t)})>>
    BY DEF Live
  <1> QED BY TypeCorrect, OrderlyInvariance, PhaseFacts, WorkerFacts, <1>1, <1>2, <1>3, PTL
          DEF Spec, Lifecycle!SafeSpec

(* So a task that is stopped, or has used up its tries, works no more.     *)
THEOREM StoppedIsIdleHolds ==
    ASSUME Allowed = {} PROVE Spec => []Lifecycle!StoppedIsIdle
  <1>1. TypeOK /\ IInv /\ PhaseIs /\ WorkersAre => Lifecycle!StoppedIsIdle
    <2> SUFFICES ASSUME IInv, PhaseIs, WorkersAre, Live # {}
                 PROVE  LifecyclePhase \notin {"stopped", "spent"}
      BY DEF WorkersAre, Lifecycle!StoppedIsIdle, Live
    <2>1. CASE event
      <3>1. Called
        BY <2>1 DEF IInv, ThreadsInv, Called, Live
      <3> QED BY <3>1 DEF PhaseIs
    <2>2. CASE ~event
      BY <2>2 DEF PhaseIs
    <2> QED BY <2>1, <2>2
  <1> QED BY TypeCorrect, OrderlyInvariance, PhaseFacts, WorkerFacts, <1>1, PTL

----------------------------------------------------------------------------
(***************************************************************************)
(* The servers: the inductive invariant behind Serves and ClosedTakesOne.  *)
(***************************************************************************)
Unhurt(s) == Place(Key(s)) \notin hurt

(* The tables: what is registered has been made and not replaced; while    *)
(* the manager closes, what it has closed counts as disturbed.             *)
Registered ==
    /\ \A k \in Keys : table[k] # 0 => At(table[k]) # "free"
    /\ \A s \in Servers : At(s) # "free" /\ Unhurt(s) => table[Key(s)] = s
    /\ \A k \in closing : table[k] # 0
    /\ closing # {} => \A k \in Keys : table[k] # 0 => k \in closing \/ Place(k) \in hurt

(* A connection that is served is served at the place it was made to; one  *)
(* that was reset has disturbed its place.                                 *)
TakenAt(c) ==
    /\ conn[c].at = "served" =>
         /\ conn[c].by \in Servers /\ At(conn[c].by) # "free"
         /\ conn[c].place = Place(Key(conn[c].by))
    /\ conn[c].left = "reset" => conn[c].place \in hurt
Taken == \A c \in Conns : TakenAt(c)

(* Where no server has got as far as its socket there are no connections   *)
(* and there never were.                                                   *)
Fresh(p) == \A k \in Keys : Place(k) = p /\ table[k] # 0 => At(table[k]) \in {"launched", "cleared"}
Untouched ==
    \A p \in Places \ hurt : Fresh(p) =>
      /\ p \notin linger
      /\ \A c \in Conns : conn[c].place = p => conn[c].at \notin {"queued", "served"}

(* A server nobody has closed has its event clear and its socket open.     *)
Listening ==
    \A s \in Servers : Unhurt(s) =>
      /\ At(s) \in {"cleared", "loop", "accept", "handler"} => ~server[s].event
      /\ At(s) \in {"loop", "accept", "handler"} => server[s].socket

(* A server that has taken a connection after its close ends at the next   *)
(* test of the event.                                                      *)
Latest ==
    \A s \in Servers :
      \/ late[s] = 0
      \/ late[s] = 1 /\ server[s].event /\ At(s) \in {"handler", "loop", "dead"}

ServerInv == ServerTypeOK /\ Registered /\ Taken /\ Untouched /\ Listening /\ Latest /\ Serves

Ended == {"answered", "unheard", "dropped"}
AtOpen == {"queued", "served"}

LEMMA ServerFacts ==
    /\ \A s \in Servers : s \in Nat /\ s # 0 /\ s \in 0 .. MaxServers
    /\ \A c \in Conns : c \in Nat
    /\ Keys # {} /\ Unused \in Keys
    /\ \A k \in Keys : Place(k) \in Places
  BY ServerAssumption DEF Servers, Conns, Unused, Places

LEMMA TypesKept ==
    ASSUME ServerTypeOK, kind' = kind,
           table' \in [Keys -> 0 .. MaxServers], server' \in [Servers -> Server],
           conn' \in [Conns -> Conn], linger' \subseteq Places, closing' \subseteq Keys,
           late' \in [Servers -> 0 .. MaxConns], hurt' \subseteq Places,
           \A k \in Keys : table'[k] # 0 => server'[table'[k]].key = k
    PROVE  ServerTypeOK'
  BY DEF ServerTypeOK, Conn, Places, Place

(* What becomes of connections that end with a server's socket.            *)
LEMMA OverFacts ==
    ASSUME conn \in [Conns -> Conn], NEW c \in Conns, NEW how \in Ended
    PROVE  /\ Over(c, how) \in Conn
           /\ Over(c, how).at = how /\ Over(c, how).left = "no"
           /\ Over(c, how).place = conn[c].place
  <1>1. conn[c] \in Conn
    OBVIOUS
  <1>2. Over(c, how) = [conn[c] EXCEPT !.at = how, !.by = 0, !.said = FALSE, !.mute = FALSE, !.left = "no"]
    BY DEF Over
  <1>3. 0 \in 0 .. MaxServers
    BY ServerAssumption
  <1> QED BY <1>1, <1>2, <1>3 DEF Conn, Ended

LEMMA LostFacts ==
    ASSUME conn \in [Conns -> Conn], NEW cs \in [Conns -> Conn], NEW p
    PROVE  /\ Lost(cs, p) \in [Conns -> Conn]
           /\ \A c \in Conns : \/ Lost(cs, p)[c] = cs[c]
                               \/ /\ Lost(cs, p)[c].at = "dropped" /\ Lost(cs, p)[c].left = "no"
                                  /\ Lost(cs, p)[c].place = conn[c].place
  <1>1. \A c \in Conns : /\ Over(c, "dropped") \in Conn
                         /\ Over(c, "dropped").at = "dropped" /\ Over(c, "dropped").left = "no"
                         /\ Over(c, "dropped").place = conn[c].place
    BY OverFacts DEF Ended
  <1> HIDE DEF Over
  <1> QED BY <1>1 DEF Lost

(* A step of server s, and what it becomes: nothing but a start makes a    *)
(* server or takes it back to before its socket.                           *)
Moves(s, v) ==
    /\ At(s) # "free" /\ v \in Server /\ v.key = Key(s)
    /\ v.at \notin {"free", "launched"} /\ (v.at = "cleared" => At(s) = "launched")
    /\ server' = [server EXCEPT ![s] = v]
    /\ UNCHANGED <<kind, table, closing, hurt>>

LEMMA MovesFacts ==
    ASSUME ServerTypeOK, NEW s \in Servers, NEW v, Moves(s, v)
    PROVE  /\ server' \in [Servers -> Server]
           /\ server'[s] = v /\ \A t \in Servers \ {s} : server'[t] = server[t]
           /\ \A t \in Servers : Key(t)' = Key(t) /\ (Unhurt(t)' <=> Unhurt(t))
           /\ \A t \in Servers : At(t) # "free" => At(t)' # "free"
           /\ \A k \in Keys : table'[k] # 0 => server'[table'[k]].key = k
           /\ \A k \in Keys : Place(k)' = Place(k)
           /\ Places' = Places
  <1>1. /\ server \in [Servers -> Server] /\ v \in Server /\ v.key = Key(s) /\ v.at # "free"
        /\ server' = [server EXCEPT ![s] = v]
        /\ UNCHANGED <<kind, table, closing, hurt>>
    BY DEF Moves, ServerTypeOK
  <1>2. server' \in [Servers -> Server]
    BY <1>1
  <1>3. server'[s] = v /\ \A t \in Servers \ {s} : server'[t] = server[t]
    BY <1>1
  <1>4. /\ \A k \in Keys : Place(k)' = Place(k)
        /\ Places' = Places
    BY <1>1 DEF Place, Places
  <1>5. \A t \in Servers : Key(t)' = Key(t) /\ Key(t) \in Keys
    BY <1>1, <1>3 DEF Key, Server
  <1>6. \A t \in Servers : Unhurt(t)' <=> Unhurt(t)
    BY <1>1, <1>4, <1>5 DEF Unhurt
  <1>7. \A t \in Servers : At(t) # "free" => At(t)' # "free"
    BY <1>1, <1>3 DEF At
  <1>8. \A k \in Keys : table'[k] # 0 => server'[table'[k]].key = k
    <2> SUFFICES ASSUME NEW k \in Keys, table[k] # 0 PROVE server'[table[k]].key = k
      BY <1>1
    <2>1. table[k] \in Servers /\ Key(table[k]) = k
      BY DEF ServerTypeOK, Servers, Key
    <2> QED BY <2>1, <1>5 DEF Key
  <1> QED BY <1>2, <1>3, <1>4, <1>5, <1>6, <1>7, <1>8

LEMMA MovesRegistered ==
    ASSUME ServerTypeOK, Registered, NEW s \in Servers, NEW v, Moves(s, v)
    PROVE  Registered'
  <1>1. /\ \A t \in Servers : Key(t)' = Key(t) /\ (Unhurt(t)' <=> Unhurt(t))
        /\ \A t \in Servers : At(t) # "free" <=> At(t)' # "free"
    BY MovesFacts DEF Moves, At
  <1>2. \A k \in Keys : table[k] # 0 => table[k] \in Servers
    BY DEF ServerTypeOK, Servers
  <1>3. UNCHANGED <<table, closing, hurt>> /\ \A k \in Keys : Place(k)' = Place(k)
    BY MovesFacts DEF Moves
  <1> QED BY <1>1, <1>2, <1>3 DEF Registered, At

LEMMA MovesFresh ==
    ASSUME ServerTypeOK, NEW s \in Servers, NEW v, Moves(s, v), NEW p, Fresh(p)'
    PROVE  Fresh(p)
  <1>1. \A t \in Servers : At(t)' \in {"launched", "cleared"} => At(t) \in {"launched", "cleared"}
    BY MovesFacts DEF Moves, At
  <1>2. \A k \in Keys : table[k] # 0 => table[k] \in Servers
    BY DEF ServerTypeOK, Servers
  <1> QED BY <1>1, <1>2, MovesFacts DEF Fresh, Moves, At

LEMMA UntouchedKept ==
    ASSUME Untouched, Places' = Places, hurt \subseteq hurt',
           \A p \in Places \ hurt' : Fresh(p)' => Fresh(p),
           \A c \in Conns : conn'[c].at \in AtOpen =>
             conn[c].at \in AtOpen /\ conn'[c].place = conn[c].place,
           \A p \in linger' : p \in linger
             \/ \E c \in Conns : conn[c].at = "served" /\ conn[c].place = p
    PROVE  Untouched'
  BY DEF Untouched, AtOpen

LEMMA MovesListening ==
    ASSUME ServerTypeOK, Listening, NEW s \in Servers, NEW v, Moves(s, v),
           Unhurt(s) /\ v.at \in {"cleared", "loop", "accept", "handler"} => ~v.event,
           Unhurt(s) /\ v.at \in {"loop", "accept", "handler"} => v.socket
    PROVE  Listening'
  BY MovesFacts DEF Listening, At

(* Whoever else holds the port is registered for it as well.               *)
LEMMA MovesServes ==
    ASSUME ServerTypeOK, Serves, NEW s \in Servers, NEW v, Moves(s, v),
           v.at = "dead" /\ Unhurt(s) => At(s) = "dead" \/ Shares(Key(s))
    PROVE  Serves'
  <1> SUFFICES ASSUME NEW k \in Keys, table'[k] # 0, Place(k)' \notin hurt', ~Shares(k)'
               PROVE  At(table[k])' # "dead"
    BY DEF Serves, Moves
  <1>0. /\ \A j \in Keys : Place(j)' = Place(j)
        /\ table' = table /\ hurt' = hurt
    BY MovesFacts DEF Moves
  <1>1. table[k] # 0 /\ Place(k) \notin hurt /\ ~Shares(k) /\ table' = table
    BY <1>0 DEF Shares
  <1>2. At(table[k]) # "dead" /\ table[k] \in Servers /\ Key(table[k]) = k
    BY <1>1 DEF Serves, ServerTypeOK, Servers, Key
  <1>3. CASE table[k] = s
    BY <1>1, <1>2, <1>3, MovesFacts DEF Unhurt, At
  <1>4. CASE table[k] # s
    BY <1>1, <1>2, <1>4, MovesFacts DEF At
  <1> QED BY <1>3, <1>4

(* What a step may do to the connections, and to the ports they occupy.    *)
Lawful(c, r) ==
    /\ r.at \in AtOpen =>
         \/ conn[c].at \in AtOpen /\ r.place = conn[c].place
         \/ ~Fresh(r.place) \/ r.place \in hurt
    /\ r.at = "served" =>
         \/ conn[c].at = "served" /\ r.by = conn[c].by /\ r.place = conn[c].place
         \/ r.by \in Servers /\ At(r.by) # "free" /\ r.place = Place(Key(r.by))
    /\ r.left = "reset" =>
         \/ conn[c].left = "reset" /\ r.place = conn[c].place
         \/ r.place \in hurt'
ConnsOK == \A c \in Conns : Lawful(c, conn'[c])

LingerOK ==
    \A p \in linger' : p \in linger \/ \E c \in Conns : conn[c].at = "served" /\ conn[c].place = p

LEMMA UntouchedStep ==
    ASSUME Untouched, Places' = Places, hurt \subseteq hurt', ConnsOK, LingerOK,
           \A p \in Places \ hurt' : Fresh(p)' => Fresh(p)
    PROVE  Untouched'
  <1> SUFFICES ASSUME NEW p \in Places \ hurt', Fresh(p)'
               PROVE  /\ p \notin linger'
                      /\ \A c \in Conns : conn'[c].place = p => conn'[c].at \notin AtOpen
    BY DEF Untouched, AtOpen
  <1>1. Fresh(p) /\ p \in Places \ hurt
    OBVIOUS
  <1>2. p \notin linger /\ \A c \in Conns : conn[c].place = p => conn[c].at \notin AtOpen
    BY <1>1 DEF Untouched, AtOpen
  <1>3. p \notin linger'
    BY <1>2 DEF LingerOK, AtOpen
  <1>4. ASSUME NEW c \in Conns, conn'[c].place = p PROVE conn'[c].at \notin AtOpen
    BY <1>1, <1>2, <1>4 DEF ConnsOK, Lawful
  <1> QED BY <1>3, <1>4

LEMMA TakenStep ==
    ASSUME Taken, ConnsOK, hurt \subseteq hurt', ServerTypeOK,
           \A t \in Servers : Key(t)' = Key(t) /\ (At(t) # "free" => At(t)' # "free"),
           \A k \in Keys : Place(k)' = Place(k)
    PROVE  Taken'
  <1>1. \A t \in Servers : Key(t) \in Keys
    BY DEF ServerTypeOK, Server, Key
  <1> SUFFICES ASSUME NEW c \in Conns PROVE TakenAt(c)'
    BY DEF Taken
  <1>2. conn'[c].left = "reset" => conn'[c].place \in hurt'
    BY DEF ConnsOK, Lawful, Taken, TakenAt
  <1>3. CASE conn'[c].at # "served"
    BY <1>2, <1>3 DEF TakenAt
  <1>4. CASE conn'[c].at = "served"
    <2>1. /\ conn'[c].by \in Servers /\ At(conn'[c].by) # "free"
          /\ conn'[c].place = Place(Key(conn'[c].by))
      BY <1>4 DEF ConnsOK, Lawful, Taken, TakenAt
    <2>2. ASSUME NEW b \in Servers, b = conn'[c].by, At(b) # "free", conn'[c].place = Place(Key(b))
          PROVE  TakenAt(c)'
      <3>1. Key(b) \in Keys /\ Key(b)' = Key(b) /\ At(b)' # "free"
        BY <1>1, <2>2
      <3>2. Place(Key(b))' = Place(Key(b))
        BY <3>1 DEF Key, Place
      <3> QED BY <1>2, <2>2, <3>1, <3>2 DEF TakenAt, At, Key, Place
    <2> QED BY <2>1, <2>2
  <1> QED BY <1>3, <1>4

(* A step of a server keeps the invariant if it closes itself only for a   *)
(* reason, and takes connections only while it may.                        *)
LEMMA MovesInv ==
    ASSUME ServerInv, NEW s \in Servers, NEW v, Moves(s, v),
           conn' \in [Conns -> Conn], linger' \subseteq Places, ConnsOK, LingerOK,
           Unhurt(s) /\ v.at \in {"cleared", "loop", "accept", "handler"} => ~v.event,
           Unhurt(s) /\ v.at \in {"loop", "accept", "handler"} => v.socket,
           v.at = "dead" /\ Unhurt(s) => At(s) = "dead" \/ Shares(Key(s)),
           late' \in [Servers -> 0 .. MaxConns],
           \A t \in Servers \ {s} : late'[t] = late[t],
           \/ late'[s] = 0
           \/ late'[s] = 1 /\ v.event /\ v.at \in {"handler", "loop", "dead"}
    PROVE  ServerInv'
  <1> USE DEF ServerInv
  <1>1. Registered' /\ Listening' /\ Serves'
    BY MovesRegistered, MovesListening, MovesServes
  <1>2. Places' = Places /\ hurt' = hurt
    BY MovesFacts DEF Moves
  <1>3. Untouched'
    BY <1>2, UntouchedStep, MovesFresh
  <1>4. Taken'
    BY <1>2, TakenStep, MovesFacts
  <1>5. Latest'
    BY MovesFacts DEF Latest, At
  <1>6. ServerTypeOK'
    BY <1>2, MovesFacts, TypesKept DEF ServerTypeOK, Moves
  <1> QED BY <1>1, <1>3, <1>4, <1>5, <1>6

(* And so does a step that concerns the connections only.                  *)
LEMMA ConnsInv ==
    ASSUME ServerInv, UNCHANGED <<kind, table, server, closing, late>>,
           hurt \subseteq hurt', hurt' \subseteq Places,
           conn' \in [Conns -> Conn], linger' \subseteq Places, ConnsOK, LingerOK
    PROVE  ServerInv'
  <1> USE DEF ServerInv
  <1>1. /\ \A t \in Servers : Key(t)' = Key(t) /\ At(t)' = At(t)
        /\ \A k \in Keys : Place(k)' = Place(k)
        /\ Places' = Places
    BY DEF Key, At, Place, Places
  <1>2. \A t \in Servers : Unhurt(t)' => Unhurt(t)
    <2> SUFFICES ASSUME NEW t \in Servers, Unhurt(t)' PROVE Unhurt(t)
      OBVIOUS
    <2> QED BY DEF Unhurt, Place, Key
  <1>3. Registered' /\ Listening' /\ Latest'
    <2>1. Registered'
      BY <1>1, <1>2 DEF Registered, At, Key
    <2>2. Listening'
      BY <1>1, <1>2 DEF Listening, At
    <2>3. Latest'
      BY DEF Latest, At
    <2> QED BY <2>1, <2>2, <2>3
  <1>4. \A p \in Places \ hurt' : Fresh(p)' => Fresh(p)
    BY <1>1 DEF Fresh, At
  <1>5. Untouched'
    BY <1>1, <1>4, UntouchedStep
  <1>6. Taken'
    BY <1>1, TakenStep
  <1>7. ServerTypeOK'
    BY TypesKept DEF ServerTypeOK
  <1>8. Serves'
    BY <1>1 DEF Serves, Shares, At
  <1> QED BY <1>3, <1>5, <1>6, <1>7, <1>8

LEMMA LawfulFacts ==
    ASSUME NEW c \in Conns
    PROVE  /\ Lawful(c, conn[c])
           /\ \A r : r.at \in Ended /\ r.left = "no" => Lawful(c, r)
  BY DEF Lawful, Ended, AtOpen

(* A server that closes itself takes its backlog with it. *)
LEMMA EndInv ==
    ASSUME ServerInv, NEW s \in Servers, At(s) # "free",
           UNCHANGED <<kind, table, closing, hurt>>,
           NEW cs \in [Conns -> Conn], \A c \in Conns : Lawful(c, cs[c]), End(s, cs),
           linger' \subseteq Places, LingerOK,
           Unhurt(s) => At(s) = "dead" \/ Shares(Key(s)),
           late' \in [Servers -> 0 .. MaxConns],
           \A t \in Servers \ {s} : late'[t] = late[t],
           late'[s] \in {0, 1}
    PROVE  ServerInv'
  <1> DEFINE v == [server[s] EXCEPT !.at = "dead", !.event = TRUE, !.socket = FALSE]
  <1>1. server[s] \in Server /\ server[s].key = Key(s)
    BY DEF ServerInv, ServerTypeOK, Key
  <1>2. v \in Server /\ v.key = Key(s) /\ v.at = "dead" /\ v.event
    BY <1>1 DEF Server, Steps
  <1>3. server' = [server EXCEPT ![s] = v]
    BY DEF End
  <1>4. conn' \in [Conns -> Conn] /\ ConnsOK
    <2>1. CASE Bound(s)
      <3>1. conn' = Lost(cs, Place(Key(s))) /\ conn \in [Conns -> Conn]
        BY <2>1 DEF End, ServerInv, ServerTypeOK
      <3>2. conn' \in [Conns -> Conn]
        BY <3>1, LostFacts
      <3>3. \A c \in Conns : conn'[c] = cs[c] \/ (conn'[c].at = "dropped" /\ conn'[c].left = "no")
        BY <3>1, LostFacts
      <3> QED BY <3>2, <3>3, LawfulFacts DEF ConnsOK, Ended
    <2>2. CASE ~Bound(s)
      BY <2>2 DEF End, ConnsOK
    <2> QED BY <2>1, <2>2
  <1> HIDE DEF v
  <1>5. Moves(s, v)
    BY <1>2, <1>3 DEF Moves
  <1> QED BY <1>2, <1>4, <1>5, MovesInv

(* Where nothing was disturbed and no other key has the port, a server is  *)
(* alone; one that has no socket yet finds the port free.                  *)
LEMMA Alone ==
    ASSUME ServerInv, NEW s \in Servers, At(s) # "free", Unhurt(s), ~Shares(Key(s))
    PROVE  /\ Key(s) \in Keys
           /\ \A t \in Servers : At(t) # "free" /\ Place(Key(t)) = Place(Key(s)) => t = s
           /\ \A k \in Keys : Place(k) = Place(Key(s)) /\ table[k] # 0 => table[k] = s
  <1>1. \A t \in Servers : Key(t) \in Keys
    BY DEF ServerInv, ServerTypeOK, Server, Key
  <1>2. \A t \in Servers : At(t) # "free" /\ Unhurt(t) => table[Key(t)] = t /\ t # 0
    BY ServerFacts DEF ServerInv, Registered
  <1>3. \A k \in Keys : Place(k) = Place(Key(s)) /\ table[k] # 0 => table[k] = s
    BY <1>1, <1>2 DEF Shares
  <1>4. \A t \in Servers : At(t) # "free" /\ Place(Key(t)) = Place(Key(s)) => t = s
    BY <1>1, <1>2, <1>3 DEF Unhurt
  <1> QED BY <1>1, <1>3, <1>4

LEMMA FindsFree ==
    ASSUME ServerInv, NEW s \in Servers, At(s) \in {"launched", "cleared"},
           Unhurt(s), ~Shares(Key(s))
    PROVE  Holders(Place(Key(s))) = {} /\ PortFree(Place(Key(s)))
  <1> DEFINE p == Place(Key(s))
  <1>1. Key(s) \in Keys /\ p \in Places \ hurt
    BY Alone, ServerFacts DEF Unhurt
  <1>2. Holders(p) = {}
    BY Alone DEF Holders, Bound
  <1>3. Fresh(p)
    BY Alone DEF Fresh
  <1>4. p \notin linger /\ ~Accepted(p)
    BY <1>1, <1>3 DEF ServerInv, Untouched, Accepted
  <1> QED BY <1>2, <1>4 DEF PortFree

(* The steps that do not touch a connection. *)
LEMMA SettleInv ==
    ASSUME ServerInv, NEW s \in Servers, Clear(s) \/ Bind(s) \/ Loop(s) \/ Serve(s)
    PROVE  ServerInv'
  <1>1. server[s] \in Server /\ At(s) = server[s].at /\ server[s].key = Key(s)
    BY DEF ServerInv, ServerTypeOK, At, Key
  <1>2. conn \in [Conns -> Conn] /\ linger \subseteq Places /\ late \in [Servers -> 0 .. MaxConns]
    BY DEF ServerInv, ServerTypeOK
  <1>3. \A c \in Conns : Lawful(c, conn[c])
    BY LawfulFacts
  <1>4. late[s] = 0 \/ (late[s] = 1 /\ server[s].event /\ At(s) \in {"handler", "loop", "dead"})
    BY DEF ServerInv, Latest
  <1>5. ASSUME NEW v, Moves(s, v), UNCHANGED <<conn, linger, late>>,
               Unhurt(s) /\ v.at \in {"cleared", "loop", "accept", "handler"} => ~v.event,
               Unhurt(s) /\ v.at \in {"loop", "accept", "handler"} => v.socket,
               v.at = "dead" /\ Unhurt(s) => Shares(Key(s)),
               late[s] = 0 \/ (v.event /\ v.at \in {"handler", "loop", "dead"})
        PROVE  ServerInv'
    <2>1. ConnsOK /\ LingerOK
      BY <1>3, <1>5 DEF ConnsOK, LingerOK
    <2> QED BY <1>2, <1>4, <1>5, <2>1, MovesInv
  <1>6. ASSUME At(s) \in {"cleared", "loop"}, End(s, conn), Unhurt(s) => Shares(Key(s)),
               UNCHANGED <<kind, table, linger, closing, late, hurt>>
        PROVE  ServerInv'
    <2>1. LingerOK /\ late'[s] \in {0, 1}
      BY <1>4, <1>6 DEF LingerOK
    <2> QED BY <1>2, <1>3, <1>6, <2>1, EndInv
  <1>7. CASE Clear(s)
    <2> DEFINE v == [server[s] EXCEPT !.at = "cleared", !.event = FALSE]
    <2>1. At(s) = "launched" /\ server' = [server EXCEPT ![s] = v]
          /\ UNCHANGED <<kind, table, conn, linger, closing, late, hurt>>
      BY <1>7 DEF Clear
    <2>2. v \in Server /\ v.key = Key(s) /\ v.at = "cleared" /\ ~v.event
      BY <1>1 DEF Server, Steps
    <2> HIDE DEF v
    <2> QED BY <1>4, <1>5, <2>1, <2>2 DEF Moves
  <1>8. CASE Bind(s)
    <2> DEFINE v == [server[s] EXCEPT !.at = "loop", !.socket = TRUE]
    <2>1. At(s) = "cleared" /\ UNCHANGED <<kind, table, linger, closing, late, hurt>>
      BY <1>8 DEF Bind
    <2>2. CASE PortFree(Place(Key(s)))
      <3>1. server' = [server EXCEPT ![s] = v] /\ conn' = conn
        BY <1>8, <2>2 DEF Bind
      <3>2. v \in Server /\ v.key = Key(s) /\ v.at = "loop" /\ v.event = server[s].event /\ v.socket
        BY <1>1 DEF Server, Steps
      <3>3. Unhurt(s) => ~server[s].event
        BY <2>1 DEF ServerInv, Listening
      <3> HIDE DEF v
      <3> QED BY <1>4, <1>5, <2>1, <3>1, <3>2, <3>3 DEF Moves
    <2>3. CASE ~PortFree(Place(Key(s)))
      <3>1. Unhurt(s) => Shares(Key(s))
        BY <2>1, <2>3, FindsFree
      <3> QED BY <1>6, <1>8, <2>1, <2>3, <3>1 DEF Bind
    <2> QED BY <2>2, <2>3
  <1>9. CASE Loop(s)
    <2> DEFINE v == [server[s] EXCEPT !.at = "accept"]
    <2>1. At(s) = "loop" /\ UNCHANGED <<kind, table, linger, closing, late, hurt>>
      BY <1>9 DEF Loop
    <2>2. Unhurt(s) => ~server[s].event /\ server[s].socket
      BY <2>1 DEF ServerInv, Listening
    <2>3. CASE server[s].event
      BY <1>6, <1>9, <2>1, <2>2, <2>3 DEF Loop
    <2>4. CASE ~server[s].event
      <3>1. server' = [server EXCEPT ![s] = v] /\ conn' = conn
        BY <1>9, <2>4 DEF Loop
      <3>2. v \in Server /\ v.key = Key(s) /\ v.at = "accept" /\ v.event = server[s].event
            /\ v.socket = server[s].socket
        BY <1>1 DEF Server, Steps
      <3> HIDE DEF v
      <3> QED BY <1>4, <1>5, <2>1, <2>2, <2>4, <3>1, <3>2 DEF Moves
    <2> QED BY <2>3, <2>4
  <1>10. CASE Serve(s)
    <2> DEFINE at == IF Holders(Place(Key(s))) = {} THEN "forever" ELSE "dead"
               v == [server[s] EXCEPT !.at = at]
    <2>1. At(s) = "launched" /\ server' = [server EXCEPT ![s] = v]
          /\ UNCHANGED <<kind, table, conn, linger, closing, late, hurt>>
      BY <1>10 DEF Serve
    <2>2. v \in Server /\ v.key = Key(s) /\ v.at = at
      BY <1>1 DEF Server, Steps
    <2>3. at \in {"forever", "dead"} /\ (at = "dead" /\ Unhurt(s) => Shares(Key(s)))
      BY <2>1, FindsFree
    <2> HIDE DEF v, at
    <2> QED BY <1>4, <1>5, <2>1, <2>2, <2>3 DEF Moves
  <1> QED BY <1>7, <1>8, <1>9, <1>10

LEMMA TookLateFacts ==
    ASSUME ServerInv, NEW s \in Servers, At(s) = "accept", TookLate(s), NEW c \in Conns
    PROVE  /\ late' \in [Servers -> 0 .. MaxConns]
           /\ \A t \in Servers \ {s} : late'[t] = late[t]
           /\ late'[s] = 0 \/ (late'[s] = 1 /\ server[s].event)
  <1>1. late \in [Servers -> 0 .. MaxConns] /\ late[s] = 0
    BY DEF ServerInv, ServerTypeOK, Latest
  <1>2. 1 \in 0 .. MaxConns
    BY ServerAssumption DEF Conns
  <1>3. late' = [late EXCEPT ![s] = IF server[s].event THEN 1 ELSE 0]
    BY <1>1 DEF TookLate
  <1> QED BY <1>1, <1>2, <1>3

(* A connection is over: answered, unheard or dropped. *)
LEMMA OverLawful ==
    ASSUME ServerInv, NEW c \in Conns, NEW how \in Ended
    PROVE  /\ [conn EXCEPT ![c] = Over(c, how)] \in [Conns -> Conn]
           /\ \A d \in Conns : Lawful(d, [conn EXCEPT ![c] = Over(c, how)][d])
  <1>1. conn \in [Conns -> Conn]
    BY DEF ServerInv, ServerTypeOK
  <1>2. Over(c, how) \in Conn /\ Over(c, how).at \in Ended /\ Over(c, how).left = "no"
    BY <1>1, OverFacts
  <1> HIDE DEF Over
  <1>3. [conn EXCEPT ![c] = Over(c, how)] \in [Conns -> Conn]
    BY <1>1, <1>2
  <1>4. \A d \in Conns : [conn EXCEPT ![c] = Over(c, how)][d] = IF d = c THEN Over(c, how) ELSE conn[d]
    BY <1>1
  <1> QED BY <1>2, <1>3, <1>4, LawfulFacts

LEMMA AcceptInv ==
    ASSUME ServerInv, NEW s \in Servers, Accept(s)
    PROVE  ServerInv'
  <1>1. server[s] \in Server /\ server[s].key = Key(s) /\ conn \in [Conns -> Conn]
    BY DEF ServerInv, ServerTypeOK, Key
  <1>2. PICK c \in Conns :
          /\ First(s, c)
          /\ conn' = IF server[s].socket THEN [conn EXCEPT ![c].at = "served", ![c].by = s]
                     ELSE Lost([conn EXCEPT ![c].at = "served", ![c].by = s], conn[c].place)
    BY DEF Accept
  <1> DEFINE v == [server[s] EXCEPT !.at = "handler"]
             r == [conn[c] EXCEPT !.at = "served", !.by = s]
             cs == [conn EXCEPT ![c] = r]
  <1>3. /\ At(s) = "accept" /\ server' = [server EXCEPT ![s] = v] /\ TookLate(s)
        /\ conn' = IF server[s].socket THEN cs ELSE Lost(cs, conn[c].place)
        /\ UNCHANGED <<kind, table, linger, closing, hurt>>
    BY <1>1, <1>2 DEF Accept
  <1>4. v \in Server /\ v.key = Key(s) /\ v.at = "handler" /\ v.event = server[s].event
        /\ v.socket = server[s].socket
    BY <1>1 DEF Server, Steps
  <1>5. r \in Conn /\ r.at = "served" /\ r.by = s /\ r.place = conn[c].place /\ r.left = conn[c].left
    BY <1>1, ServerFacts DEF Conn
  <1>6. conn[c].at = "queued" /\ conn[c].place = Place(Key(s))
    BY <1>2 DEF First
  <1> HIDE DEF v, r
  <1>7. Lawful(c, r)
    BY <1>3, <1>5, <1>6 DEF Lawful, AtOpen
  <1>8. cs \in [Conns -> Conn] /\ \A d \in Conns : Lawful(d, cs[d])
    BY <1>1, <1>5, <1>7, LawfulFacts
  <1> HIDE DEF cs
  <1>9. conn' \in [Conns -> Conn] /\ ConnsOK
    <2>1. CASE server[s].socket
      BY <1>3, <1>8, <2>1 DEF ConnsOK
    <2>2. CASE ~server[s].socket
      <3>1. conn' = Lost(cs, conn[c].place)
        BY <1>3, <2>2
      <3>2. conn' \in [Conns -> Conn]
        BY <1>1, <1>8, <3>1, LostFacts
      <3>3. \A d \in Conns : conn'[d] = cs[d] \/ (conn'[d].at = "dropped" /\ conn'[d].left = "no")
        BY <1>1, <1>8, <3>1, LostFacts
      <3> QED BY <1>8, <3>2, <3>3, LawfulFacts DEF ConnsOK, Ended
    <2> QED BY <2>1, <2>2
  <1>10. Unhurt(s) => ~server[s].event /\ server[s].socket
    BY <1>3 DEF ServerInv, Listening
  <1>11. LingerOK /\ linger' \subseteq Places
    BY <1>3 DEF LingerOK, ServerInv, ServerTypeOK
  <1>12. /\ late' \in [Servers -> 0 .. MaxConns]
         /\ \A t \in Servers \ {s} : late'[t] = late[t]
         /\ late'[s] = 0 \/ (late'[s] = 1 /\ server[s].event)
    BY <1>3, TookLateFacts
  <1>13. Moves(s, v)
    BY <1>3, <1>4 DEF Moves
  <1> QED BY <1>4, <1>9, <1>10, <1>11, <1>12, <1>13, MovesInv

LEMMA EchoInv ==
    ASSUME ServerInv, NEW s \in Servers, Echo(s)
    PROVE  ServerInv'
  <1>1. server[s] \in Server /\ server[s].key = Key(s) /\ linger \subseteq Places
        /\ late \in [Servers -> 0 .. MaxConns]
    BY DEF ServerInv, ServerTypeOK, Key
  <1>2. /\ At(s) = "handler" /\ UNCHANGED <<kind, table, closing, late, hurt>>
        /\ Unhurt(s) => ~server[s].event /\ server[s].socket
        /\ late[s] = 0 \/ (late[s] = 1 /\ server[s].event)
    BY DEF Echo, ServerInv, Listening, Latest
  <1>3. PICK c \in Conns :
          /\ conn[c].at = "served" /\ conn[c].by = s
          /\ IF conn[c].left = "reset"
             THEN End(s, [conn EXCEPT ![c] = Over(c, "dropped")]) /\ UNCHANGED linger
             ELSE /\ conn' = [conn EXCEPT ![c] = Over(c, IF conn[c].said THEN "answered" ELSE "unheard")]
                  /\ linger' = IF conn[c].left = "no" THEN linger \cup {conn[c].place} ELSE linger
                  /\ server' = [server EXCEPT ![s].at = "loop"]
    BY DEF Echo
  <1>4. conn[c].place = Place(Key(s)) /\ (conn[c].left = "reset" => ~Unhurt(s))
    BY <1>3 DEF ServerInv, Taken, TakenAt, Unhurt
  <1>5. Key(s) \in Keys
    BY <1>1 DEF Server
  <1>6. linger' \subseteq Places /\ LingerOK
    BY <1>1, <1>3, <1>4, <1>5, ServerFacts DEF LingerOK
  <1>7. CASE conn[c].left = "reset"
    <2>1. End(s, [conn EXCEPT ![c] = Over(c, "dropped")])
      BY <1>3, <1>7
    <2>2. /\ [conn EXCEPT ![c] = Over(c, "dropped")] \in [Conns -> Conn]
          /\ \A d \in Conns : Lawful(d, [conn EXCEPT ![c] = Over(c, "dropped")][d])
      BY OverLawful DEF Ended
    <2>3. ASSUME NEW cs, cs = [conn EXCEPT ![c] = Over(c, "dropped")] PROVE ServerInv'
      <3>1. cs \in [Conns -> Conn] /\ (\A d \in Conns : Lawful(d, cs[d])) /\ End(s, cs)
        BY <2>1, <2>2, <2>3
      <3>2. late' \in [Servers -> 0 .. MaxConns] /\ late'[s] \in {0, 1}
            /\ \A t \in Servers \ {s} : late'[t] = late[t]
        BY <1>1, <1>2
      <3> QED BY <1>2, <1>4, <1>6, <1>7, <3>1, <3>2, EndInv
    <2> QED BY <2>3
  <1>8. CASE conn[c].left # "reset"
    <2> DEFINE v == [server[s] EXCEPT !.at = "loop"]
               how == IF conn[c].said THEN "answered" ELSE "unheard"
    <2>1. how \in Ended
      BY DEF Ended
    <2>2. server' = [server EXCEPT ![s] = v] /\ conn' = [conn EXCEPT ![c] = Over(c, how)]
      BY <1>3, <1>8
    <2>3. v \in Server /\ v.key = Key(s) /\ v.at = "loop" /\ v.event = server[s].event
          /\ v.socket = server[s].socket
      BY <1>1 DEF Server, Steps
    <2> HIDE DEF v, how
    <2>4. conn' \in [Conns -> Conn] /\ ConnsOK
      BY <2>1, <2>2, OverLawful DEF ConnsOK
    <2>5. Moves(s, v)
      BY <1>2, <2>2, <2>3 DEF Moves
    <2>6. /\ late' \in [Servers -> 0 .. MaxConns]
          /\ \A t \in Servers \ {s} : late'[t] = late[t]
          /\ late'[s] = 0 \/ (late'[s] = 1 /\ server[s].event)
      BY <1>1, <1>2
    <2> QED BY <1>2, <1>6, <2>3, <2>4, <2>5, <2>6, MovesInv
  <1> QED BY <1>7, <1>8

LEMMA DatagramInv ==
    ASSUME ServerInv, NEW s \in Servers, Datagram(s)
    PROVE  ServerInv'
  <1>1. server[s] \in Server /\ server[s].key = Key(s) /\ linger \subseteq Places
    BY DEF ServerInv, ServerTypeOK, Key
  <1>2. /\ At(s) = "accept" /\ TookLate(s)
        /\ UNCHANGED <<kind, table, linger, closing, hurt>>
        /\ Unhurt(s) => ~server[s].event /\ server[s].socket
    BY DEF Datagram, ServerInv, Listening
  <1>3. PICK c \in Conns :
          IF server[s].socket
          THEN /\ conn' = [conn EXCEPT ![c] = Over(c, "answered")]
               /\ server' = [server EXCEPT ![s].at = "loop"]
          ELSE End(s, [conn EXCEPT ![c] = Over(c, "unheard")])
    BY DEF Datagram
  <1>4. /\ late' \in [Servers -> 0 .. MaxConns]
        /\ \A t \in Servers \ {s} : late'[t] = late[t]
        /\ late'[s] = 0 \/ (late'[s] = 1 /\ server[s].event)
    BY <1>2, TookLateFacts
  <1>5. linger' \subseteq Places /\ LingerOK
    BY <1>1, <1>2 DEF LingerOK
  <1>6. CASE ~server[s].socket
    <2>1. End(s, [conn EXCEPT ![c] = Over(c, "unheard")])
      BY <1>3, <1>6
    <2>2. /\ [conn EXCEPT ![c] = Over(c, "unheard")] \in [Conns -> Conn]
          /\ \A d \in Conns : Lawful(d, [conn EXCEPT ![c] = Over(c, "unheard")][d])
      BY OverLawful DEF Ended
    <2>3. ASSUME NEW cs, cs = [conn EXCEPT ![c] = Over(c, "unheard")] PROVE ServerInv'
      <3>1. cs \in [Conns -> Conn] /\ (\A d \in Conns : Lawful(d, cs[d])) /\ End(s, cs)
        BY <2>1, <2>2, <2>3
      <3>2. late'[s] \in {0, 1}
        BY <1>4
      <3> QED BY <1>2, <1>4, <1>5, <1>6, <3>1, <3>2, EndInv
    <2> QED BY <2>3
  <1>7. CASE server[s].socket
    <2> DEFINE v == [server[s] EXCEPT !.at = "loop"]
    <2>1. server' = [server EXCEPT ![s] = v] /\ conn' = [conn EXCEPT ![c] = Over(c, "answered")]
      BY <1>3, <1>7
    <2>2. v \in Server /\ v.key = Key(s) /\ v.at = "loop" /\ v.event = server[s].event
          /\ v.socket = server[s].socket
      BY <1>1 DEF Server, Steps
    <2> HIDE DEF v
    <2>3. conn' \in [Conns -> Conn] /\ ConnsOK
      BY <2>1, OverLawful DEF ConnsOK, Ended
    <2>4. Moves(s, v)
      BY <1>2, <2>1, <2>2 DEF Moves
    <2> QED BY <1>2, <1>4, <1>5, <1>7, <2>2, <2>3, <2>4, MovesInv
  <1> QED BY <1>6, <1>7

LEMMA OneConn ==
    ASSUME ServerInv, NEW c \in Conns, NEW r \in Conn, Lawful(c, r), conn' = [conn EXCEPT ![c] = r]
    PROVE  conn' \in [Conns -> Conn] /\ ConnsOK
  <1>1. conn \in [Conns -> Conn]
    BY DEF ServerInv, ServerTypeOK
  <1>2. conn' \in [Conns -> Conn] /\ \A d \in Conns : conn'[d] = IF d = c THEN r ELSE conn[d]
    BY <1>1
  <1> QED BY <1>2, LawfulFacts DEF ConnsOK

LEMMA HandOverInv ==
    ASSUME ServerInv, NEW s \in Servers, HandOver(s)
    PROVE  ServerInv'
  <1>1. PICK c \in Conns : First(s, c) /\ conn' = [conn EXCEPT ![c].at = "served", ![c].by = s]
    BY DEF HandOver
  <1> DEFINE r == [conn[c] EXCEPT !.at = "served", !.by = s]
  <1>2. conn \in [Conns -> Conn] /\ linger \subseteq Places /\ hurt \subseteq Places
    BY DEF ServerInv, ServerTypeOK
  <1>3. r \in Conn /\ r.at = "served" /\ r.by = s /\ r.place = conn[c].place /\ r.left = conn[c].left
    BY <1>2, ServerFacts DEF Conn
  <1>4. conn' = [conn EXCEPT ![c] = r]
    BY <1>1, <1>2
  <1>5. conn[c].at = "queued" /\ conn[c].place = Place(Key(s)) /\ At(s) = "forever"
    BY <1>1 DEF First, HandOver
  <1> HIDE DEF r
  <1>6. Lawful(c, r)
    BY <1>3, <1>5 DEF Lawful, AtOpen
  <1>7. conn' \in [Conns -> Conn] /\ ConnsOK
    BY <1>3, <1>4, <1>6, OneConn
  <1>8. UNCHANGED <<kind, table, server, linger, closing, late, hurt>>
    BY DEF HandOver
  <1> QED BY <1>2, <1>7, <1>8, ConnsInv DEF LingerOK

LEMMA GetInv ==
    ASSUME ServerInv, NEW c \in Conns, Get(c)
    PROVE  ServerInv'
  <1> DEFINE how == IF conn[c].left = "reset" THEN "dropped"
                    ELSE IF conn[c].said THEN "answered" ELSE "unheard"
  <1>1. conn[c] \in Conn /\ linger \subseteq Places /\ hurt \subseteq Places
    BY DEF ServerInv, ServerTypeOK
  <1>2. /\ conn[c].at = "served" /\ conn' = [conn EXCEPT ![c] = Over(c, how)]
        /\ linger' = IF conn[c].left = "no" THEN linger \cup {conn[c].place} ELSE linger
        /\ UNCHANGED <<kind, table, server, closing, late, hurt>>
    BY DEF Get
  <1>3. how \in Ended
    BY DEF Ended
  <1> HIDE DEF how
  <1>4. conn' \in [Conns -> Conn] /\ ConnsOK
    BY <1>2, <1>3, OverLawful DEF ConnsOK
  <1>5. linger' \subseteq Places /\ LingerOK
    BY <1>1, <1>2 DEF LingerOK, Conn
  <1> QED BY <1>1, <1>2, <1>4, <1>5, ConnsInv

(* What a peer does. *)
LEMMA PeerInv ==
    ASSUME ServerInv, NEW c \in Conns, Say(c) \/ Leave(c) \/ ResetConn(c)
    PROVE  ServerInv'
  <1>1. conn \in [Conns -> Conn] /\ linger \subseteq Places /\ hurt \subseteq Places
    BY DEF ServerInv, ServerTypeOK
  <1>2. /\ UNCHANGED <<kind, table, server, linger, closing, late>>
        /\ hurt' = hurt \/ (ResetConn(c) /\ hurt' = hurt \cup {conn[c].place})
    BY DEF Say, Leave, ResetConn
  <1>3. \E r \in Conn :
          /\ r.at = conn[c].at /\ r.by = conn[c].by /\ r.place = conn[c].place
          /\ r.left = "reset" => r.left = conn[c].left \/ r.place \in hurt'
          /\ conn' = [conn EXCEPT ![c] = r]
    <2>1. CASE Say(c)
      <3> DEFINE r == [conn[c] EXCEPT !.said = TRUE]
      <3>1. r \in Conn /\ r.at = conn[c].at /\ r.by = conn[c].by /\ r.place = conn[c].place
            /\ r.left = conn[c].left
        BY <1>1 DEF Conn
      <3>2. conn' = [conn EXCEPT ![c] = r]
        BY <1>1, <2>1 DEF Say
      <3> HIDE DEF r
      <3> QED BY <3>1, <3>2
    <2>2. CASE Leave(c)
      <3> DEFINE r == [conn[c] EXCEPT !.left = "closed"]
      <3>1. r \in Conn /\ r.at = conn[c].at /\ r.by = conn[c].by /\ r.place = conn[c].place
            /\ r.left # "reset"
        BY <1>1 DEF Conn
      <3>2. conn' = [conn EXCEPT ![c] = r]
        BY <1>1, <2>2 DEF Leave
      <3> HIDE DEF r
      <3> QED BY <3>1, <3>2
    <2>3. CASE ResetConn(c)
      <3> DEFINE r == [conn[c] EXCEPT !.left = "reset"]
      <3>1. r \in Conn /\ r.at = conn[c].at /\ r.by = conn[c].by /\ r.place = conn[c].place
        BY <1>1 DEF Conn
      <3>2. conn' = [conn EXCEPT ![c] = r] /\ conn[c].place \in hurt'
        BY <1>1, <2>3 DEF ResetConn
      <3> HIDE DEF r
      <3> QED BY <3>1, <3>2
    <2> QED BY <2>1, <2>2, <2>3
  <1>4. PICK r \in Conn :
          /\ r.at = conn[c].at /\ r.by = conn[c].by /\ r.place = conn[c].place
          /\ r.left = "reset" => r.left = conn[c].left \/ r.place \in hurt'
          /\ conn' = [conn EXCEPT ![c] = r]
    BY <1>3
  <1>5. Lawful(c, r)
    BY <1>4 DEF Lawful
  <1>6. conn' \in [Conns -> Conn] /\ ConnsOK
    BY <1>4, <1>5, OneConn
  <1>7. hurt \subseteq hurt' /\ hurt' \subseteq Places
    BY <1>1, <1>2 DEF Conn
  <1> QED BY <1>1, <1>2, <1>6, <1>7, ConnsInv DEF LingerOK

(* A connection is made only where a server listens.                       *)
LEMMA PeerConnectInv ==
    ASSUME ServerInv, NEW p \in Places, PeerConnect(p) \/ TimeWaitOver(p)
    PROVE  ServerInv'
  <1>1. conn \in [Conns -> Conn] /\ linger \subseteq Places /\ hurt \subseteq Places
    BY DEF ServerInv, ServerTypeOK
  <1>2. CASE TimeWaitOver(p)
    <2>1. UNCHANGED <<kind, table, server, conn, closing, late, hurt>> /\ linger' \subseteq linger
      BY <1>2 DEF TimeWaitOver
    <2>2. ConnsOK /\ LingerOK
      BY <2>1, LawfulFacts DEF ConnsOK, LingerOK
    <2> QED BY <1>1, <2>1, <2>2, ConnsInv
  <1>3. CASE PeerConnect(p)
    <2>1. PICK c \in Conns, mute \in BOOLEAN :
            conn' = [conn EXCEPT ![c] = [at |-> "queued", place |-> p, by |-> 0,
                      said |-> p[2], mute |-> mute, left |-> "no"]]
      BY <1>3 DEF PeerConnect
    <2> DEFINE r == [at |-> "queued", place |-> p, by |-> 0, said |-> p[2], mute |-> mute, left |-> "no"]
    <2>2. p[2] \in BOOLEAN
      <3>1. PICK k \in Keys : p = <<Port[k], kind[k] = "udp">>
        BY DEF Places, Place
      <3>2. ASSUME NEW a, NEW b \in BOOLEAN PROVE <<a, b>>[2] \in BOOLEAN
        OBVIOUS
      <3>3. (kind[k] = "udp") \in BOOLEAN
        OBVIOUS
      <3> QED BY <3>1, <3>2, <3>3
    <2>3. r \in Conn
      BY <2>2, ServerAssumption DEF Conn
    <2>4. ~Fresh(p) \/ p \in hurt
      <3> SUFFICES ASSUME p \notin hurt PROVE ~Fresh(p)
        OBVIOUS
      <3>1. PICK t \in Servers : At(t) # "free" /\ Place(Key(t)) = p /\ Bound(t)
        BY <1>3 DEF PeerConnect, Holders
      <3>2. Key(t) \in Keys /\ table[Key(t)] = t /\ t # 0
        BY <3>1, ServerFacts DEF ServerInv, ServerTypeOK, Registered, Unhurt, Key, Server
      <3>3. At(t) \notin {"launched", "cleared"}
        BY <3>1 DEF Bound
      <3> QED BY <3>1, <3>2, <3>3 DEF Fresh
    <2>5. Lawful(c, r)
      BY <2>4 DEF Lawful
    <2>6. conn' = [conn EXCEPT ![c] = r]
      BY <2>1
    <2> HIDE DEF r
    <2>7. conn' \in [Conns -> Conn] /\ ConnsOK
      BY <2>3, <2>5, <2>6, OneConn
    <2>8. UNCHANGED <<kind, table, server, linger, closing, late, hurt>>
      BY <1>3 DEF PeerConnect
    <2> QED BY <1>1, <2>7, <2>8, ConnsInv DEF LingerOK
  <1> QED BY <1>2, <1>3

LEMMA AddInv ==
    ASSUME ServerInv, NEW k \in Keys, Add(k)
    PROVE  ServerInv'
  <1>1. PICK s \in Servers :
          /\ At(s) = "free" /\ table' = [table EXCEPT ![k] = s]
          /\ server' = [server EXCEPT ![s] = [key |-> k, at |-> "launched",
                          event |-> kind[k] # "http", socket |-> FALSE]]
    BY DEF Add
  <1>2. table[k] = 0 /\ closing = {} /\ UNCHANGED <<kind, conn, linger, closing, late, hurt>>
    BY DEF Add
  <1> DEFINE v == [key |-> k, at |-> "launched", event |-> kind[k] # "http", socket |-> FALSE]
  <1>3. v \in Server /\ v.key = k /\ v.at = "launched"
    BY DEF Server, Steps
  <1>4. server \in [Servers -> Server] /\ table \in [Keys -> 0 .. MaxServers] /\ server' = [server EXCEPT ![s] = v]
    BY <1>1 DEF ServerInv, ServerTypeOK
  <1> HIDE DEF v
  <1>5. server' \in [Servers -> Server] /\ server'[s] = v /\ \A t \in Servers \ {s} : server'[t] = server[t]
    BY <1>3, <1>4
  <1>6. /\ table' \in [Keys -> 0 .. MaxServers] /\ table'[k] = s
        /\ \A j \in Keys \ {k} : table'[j] = table[j]
    BY <1>1, <1>4, ServerFacts
  <1>7. \A j \in Keys : table[j] # 0 => table[j] \in Servers \ {s} /\ Key(table[j]) = j
    BY <1>1, <1>4 DEF ServerInv, ServerTypeOK, Registered, Servers, Key
  <1>8. /\ \A j \in Keys : Place(j)' = Place(j)
        /\ Places' = Places
    BY <1>2 DEF Place, Places
  <1>9. /\ \A t \in Servers \ {s} : Key(t)' = Key(t) /\ At(t)' = At(t)
        /\ \A t \in Servers : Key(t) \in Keys
        /\ Key(s)' = k /\ At(s)' = "launched"
    BY <1>3, <1>4, <1>5 DEF Key, At, Server
  <1>10. \A t \in Servers \ {s} : Unhurt(t)' <=> Unhurt(t)
    <2> SUFFICES ASSUME NEW t \in Servers \ {s} PROVE Unhurt(t)' <=> Unhurt(t)
      OBVIOUS
    <2>1. server'[t].key = server[t].key
      BY <1>5
    <2> QED BY <2>1, <1>2 DEF Unhurt, Place, Key
  <1>11. ServerTypeOK'
    <2>1. \A j \in Keys : table'[j] # 0 => server'[table'[j]].key = j
      BY <1>3, <1>5, <1>6, <1>7 DEF Key
    <2> QED BY <1>2, <1>5, <1>6, <2>1, TypesKept DEF ServerInv, ServerTypeOK
  <1>12. Registered'
    <2>1. \A j \in Keys : table'[j] # 0 => server'[table'[j]].at # "free"
      <3> SUFFICES ASSUME NEW j \in Keys, table'[j] # 0 PROVE server'[table'[j]].at # "free"
        OBVIOUS
      <3>1. CASE j = k
        BY <1>3, <1>5, <1>6, <3>1
      <3>2. CASE j # k
        BY <1>5, <1>6, <1>7, <3>2 DEF ServerInv, Registered, At
      <3> QED BY <3>1, <3>2
    <2>2. \A t \in Servers : At(t)' # "free" /\ Unhurt(t)' => table'[server'[t].key] = t
      <3> SUFFICES ASSUME NEW t \in Servers, At(t)' # "free", Unhurt(t)'
                   PROVE  table'[server'[t].key] = t
        OBVIOUS
      <3>1. CASE t = s
        BY <1>3, <1>5, <1>6, <3>1
      <3>2. CASE t # s
        <4>1. table[Key(t)] = t /\ Key(t) # k /\ Key(t) \in Keys /\ table'[Key(t)] = t
          BY <1>6, <1>2, <1>9, <1>10, <3>2, ServerFacts DEF ServerInv, Registered
        <4> QED BY <1>5, <3>2, <4>1 DEF Key
      <3> QED BY <3>1, <3>2
    <2> QED BY <1>2, <2>1, <2>2 DEF Registered, At, Key
  <1>13. Taken'
    <2> SUFFICES ASSUME NEW c \in Conns PROVE TakenAt(c)'
      BY DEF Taken
    <2>1. TakenAt(c) /\ conn' = conn /\ hurt' = hurt
      BY <1>2 DEF ServerInv, Taken
    <2>2. CASE conn[c].at # "served"
      BY <2>1, <2>2 DEF TakenAt
    <2>3. CASE conn[c].at = "served"
      <3>1. conn[c].by \in Servers \ {s} /\ conn[c].place = Place(Key(conn[c].by)) /\ At(conn[c].by) # "free"
        BY <1>1, <2>1, <2>3 DEF TakenAt
      <3>2. server'[conn[c].by] = server[conn[c].by]
        BY <1>5, <3>1
      <3> QED BY <1>2, <2>1, <3>1, <3>2 DEF TakenAt, At, Key, Place
    <2> QED BY <2>2, <2>3
  <1>14. Untouched'
    <2>1. ASSUME NEW p, Fresh(p)' PROVE Fresh(p)
      <3> SUFFICES ASSUME NEW j \in Keys, Place(j) = p, table[j] # 0
                   PROVE  At(table[j]) \in {"launched", "cleared"}
        BY DEF Fresh
      <3>1. j # k /\ table'[j] = table[j] /\ Place(j)' = p
        BY <1>2, <1>6, <1>8
      <3>2. server'[table[j]].at \in {"launched", "cleared"}
        BY <2>1, <3>1 DEF Fresh, At
      <3> QED BY <1>5, <1>7, <3>2 DEF At
    <2>2. ConnsOK /\ LingerOK
      BY <1>2, LawfulFacts DEF ConnsOK, LingerOK
    <2> QED BY <1>2, <1>8, <2>1, <2>2, UntouchedStep DEF ServerInv
  <1>15. Listening'
    BY <1>5, <1>9, <1>10 DEF ServerInv, Listening, At
  <1>16. Latest'
    BY <1>1, <1>2, <1>5, <1>9 DEF ServerInv, Latest, At
  <1>17. Serves'
    <2> SUFFICES ASSUME NEW j \in Keys, table'[j] # 0, Place(j)' \notin hurt', ~Shares(j)'
                 PROVE  server'[table'[j]].at # "dead"
      BY DEF Serves, At
    <2>1. CASE j = k
      BY <1>3, <1>5, <1>6, <2>1
    <2>2. CASE j # k
      <3>1. table[j] # 0 /\ table'[j] = table[j] /\ Place(j) \notin hurt
        BY <1>2, <1>6, <1>8, <2>2
      <3>2. ~Shares(j)
        BY <1>2, <1>6, <1>8 DEF Shares
      <3> QED BY <1>5, <1>7, <3>1, <3>2 DEF ServerInv, Serves, At
    <2> QED BY <2>1, <2>2
  <1> QED BY <1>11, <1>12, <1>13, <1>14, <1>15, <1>16, <1>17 DEF ServerInv

LEMMA CloseAllInv ==
    ASSUME ServerInv, CloseAll
    PROVE  ServerInv'
  <1>1. /\ closing' = {k \in Keys : table[k] # 0}
        /\ UNCHANGED <<kind, table, server, conn, linger, late, hurt>>
    BY DEF CloseAll
  <1>2. /\ \A t \in Servers : Key(t)' = Key(t) /\ At(t)' = At(t)
        /\ \A j \in Keys : Place(j)' = Place(j)
        /\ Places' = Places
    BY <1>1 DEF Key, At, Place, Places
  <1>3. \A t \in Servers : Unhurt(t)' <=> Unhurt(t)
    BY <1>1 DEF Unhurt, Place, Key
  <1>4. ConnsOK /\ LingerOK
    BY <1>1, LawfulFacts DEF ConnsOK, LingerOK
  <1>5. ServerTypeOK'
    BY <1>1, TypesKept DEF ServerInv, ServerTypeOK
  <1>6. Registered'
    BY <1>1, <1>2, <1>3 DEF ServerInv, Registered, At, Key
  <1>7. Taken'
    BY <1>1, <1>2, <1>4, TakenStep DEF ServerInv
  <1>8. Untouched'
    BY <1>1, <1>2, <1>4, UntouchedStep DEF ServerInv, Fresh, At
  <1>9. Listening' /\ Latest'
    BY <1>1, <1>2, <1>3 DEF ServerInv, Listening, Latest, At
  <1>10. Serves'
    BY <1>1, <1>2 DEF ServerInv, Serves, Shares, At
  <1> QED BY <1>5, <1>6, <1>7, <1>8, <1>9, <1>10 DEF ServerInv

LEMMA CloseOneInv ==
    ASSUME ServerInv, NEW k \in Keys, CloseOne(k)
    PROVE  ServerInv'
  <1> DEFINE s == table[k]
             v == IF kind[k] = "http"
                  THEN [server[s] EXCEPT !.event = TRUE, !.at = IF At(s) = "forever" THEN "dead" ELSE At(s)]
                  ELSE [server[s] EXCEPT !.event = TRUE, !.socket = FALSE]
  <1>1. k \in closing /\ s \in Servers /\ Key(s) = k /\ server[s] \in Server /\ At(s) # "free"
    BY DEF CloseOne, ServerInv, ServerTypeOK, Registered, Servers, Key
  <1>2. /\ hurt' = hurt \cup {Place(k)} /\ closing' = closing \ {k}
        /\ table' = IF closing' = {} THEN [j \in Keys |-> 0] ELSE table
        /\ UNCHANGED <<kind, linger, late>>
    BY DEF CloseOne
  <1>6. /\ server \in [Servers -> Server] /\ table \in [Keys -> 0 .. MaxServers]
        /\ conn \in [Conns -> Conn] /\ Place(k) \in Places /\ 0 \in 0 .. MaxServers
    BY ServerFacts, ServerAssumption DEF ServerInv, ServerTypeOK
  <1>0. IF kind[k] = "http" THEN ShutDown(s) ELSE CloseServer(s)
    BY DEF CloseOne
  <1>3. server' = [server EXCEPT ![s] = v]
    <2>1. CASE kind[k] = "http"
      <3>1. v = [server[s] EXCEPT !.event = TRUE, !.at = IF At(s) = "forever" THEN "dead" ELSE At(s)]
        BY <2>1
      <3> QED BY <1>0, <1>6, <2>1, <3>1 DEF ShutDown
    <2>2. CASE kind[k] # "http"
      <3>1. v = [server[s] EXCEPT !.event = TRUE, !.socket = FALSE]
        BY <2>2
      <3> QED BY <1>0, <1>6, <2>2, <3>1 DEF CloseServer
    <2> QED BY <2>1, <2>2
  <1>4. conn' = conn \/ conn' = Lost(conn, Place(Key(s)))
    <2> HIDE DEF s
    <2> QED BY <1>0 DEF ShutDown, CloseServer
  <1>5. /\ v \in Server /\ v.key = k /\ v.event
        /\ v.at = At(s) \/ (At(s) = "forever" /\ v.at = "dead")
    <2>1. CASE kind[k] = "http"
      BY <1>1, <2>1 DEF Server, Steps, At, Key
    <2>2. CASE kind[k] # "http"
      BY <1>1, <2>2 DEF Server, Steps, At, Key
    <2> QED BY <2>1, <2>2
  <1> HIDE DEF v, s
  <1>7. server' \in [Servers -> Server] /\ server'[s] = v /\ \A t \in Servers \ {s} : server'[t] = server[t]
    BY <1>1, <1>3, <1>5, <1>6
  <1>8. /\ \A t \in Servers : Key(t)' = Key(t) /\ Key(t) \in Keys /\ (At(t)' # "free" <=> At(t) # "free")
        /\ \A t \in Servers \ {s} : At(t)' = At(t)
    BY <1>1, <1>5, <1>6, <1>7 DEF Key, At, Server
  <1>9. /\ \A j \in Keys : Place(j)' = Place(j)
        /\ Places' = Places
    BY <1>2 DEF Place, Places
  <1>10. /\ \A t \in Servers : Unhurt(t)' => Unhurt(t) /\ t # s /\ Place(Key(t)) # Place(k)
    <2> SUFFICES ASSUME NEW t \in Servers, Unhurt(t)'
                 PROVE  Unhurt(t) /\ t # s /\ Place(Key(t)) # Place(k)
      OBVIOUS
    <2>1. server'[t].key = server[t].key
      BY <1>8 DEF Key
    <2>2. Place(Key(t)) \notin hurt'
      BY <1>2, <2>1 DEF Unhurt, Place, Key
    <2> QED BY <1>1, <1>2, <2>2 DEF Unhurt
  <1>11. \A j \in Keys : table[j] # 0 => table[j] \in Servers /\ Key(table[j]) = j
    BY <1>6 DEF ServerInv, ServerTypeOK, Servers, Key
  <1>12. closing' # {} => table' = table
    BY <1>2
  <1>13. closing' = {} => \A j \in Keys : table'[j] = 0 /\ (table[j] # 0 => Place(j) \in hurt')
    <2> SUFFICES ASSUME closing' = {}, NEW j \in Keys
                 PROVE  table'[j] = 0 /\ (table[j] # 0 => Place(j) \in hurt')
      OBVIOUS
    <2>1. table'[j] = 0
      BY <1>2
    <2>2. table[j] # 0 => j \in closing \/ Place(j) \in hurt
      BY <1>1 DEF ServerInv, Registered
    <2> QED BY <1>2, <2>1, <2>2
  <1>14. conn' \in [Conns -> Conn] /\ ConnsOK /\ LingerOK
    <2>1. LingerOK
      BY <1>2 DEF LingerOK
    <2>2. CASE conn' = conn
      BY <1>6, <2>1, <2>2, LawfulFacts DEF ConnsOK
    <2>3. CASE conn' = Lost(conn, Place(Key(s)))
      <3>1. conn' \in [Conns -> Conn]
        BY <1>6, <2>3, LostFacts
      <3>2. \A d \in Conns : conn'[d] = conn[d] \/ (conn'[d].at = "dropped" /\ conn'[d].left = "no")
        BY <1>6, <2>3, LostFacts
      <3> QED BY <2>1, <3>1, <3>2, LawfulFacts DEF ConnsOK, Ended
    <2> QED BY <1>4, <2>2, <2>3
  <1>15. ServerTypeOK'
    <2>1. table' \in [Keys -> 0 .. MaxServers]
      BY <1>2, <1>6
    <2>2. \A j \in Keys : table'[j] # 0 => table'[j] = table[j]
      BY <1>12, <1>13
    <2>3. \A j \in Keys : table'[j] # 0 => server'[table'[j]].key = j
      BY <1>8, <1>11, <2>2 DEF Key
    <2>4. hurt' \subseteq Places /\ closing' \subseteq Keys
      BY <1>2, <1>6 DEF ServerInv, ServerTypeOK
    <2>5. linger' \subseteq Places /\ late' \in [Servers -> 0 .. MaxConns] /\ kind' = kind
      BY <1>2 DEF ServerInv, ServerTypeOK
    <2> QED BY <1>7, <1>14, <2>1, <2>3, <2>4, <2>5, TypesKept DEF ServerInv
  <1>16. Registered'
    <2>1. \A j \in Keys : table'[j] # 0 => server'[table'[j]].at # "free"
      BY <1>8, <1>11, <1>12, <1>13 DEF ServerInv, Registered, At
    <2>2. \A t \in Servers : At(t)' # "free" /\ Unhurt(t)' => table'[server'[t].key] = t
      <3> SUFFICES ASSUME NEW t \in Servers, At(t)' # "free", Unhurt(t)'
                   PROVE  table'[server'[t].key] = t
        OBVIOUS
      <3>1. Unhurt(t) /\ table[Key(t)] = t /\ Key(t) \in Keys /\ t # 0 /\ Place(Key(t)) # Place(k)
        BY <1>8, <1>10, ServerFacts DEF ServerInv, Registered
      <3>2. Place(Key(t)) \notin hurt'
        BY <1>2, <3>1 DEF Unhurt
      <3>3. table' = table
        BY <1>12, <1>13, <3>1, <3>2
      <3> QED BY <1>8, <3>1, <3>3 DEF Key
    <2>3. \A j \in closing' : table'[j] # 0
      BY <1>2, <1>12 DEF ServerInv, Registered
    <2>4. closing' # {} => \A j \in Keys : table'[j] # 0 => j \in closing' \/ Place(j)' \in hurt'
      BY <1>1, <1>2, <1>9, <1>12 DEF ServerInv, Registered
    <2> QED BY <2>1, <2>2, <2>3, <2>4 DEF Registered, At, Key
  <1>17. Taken'
    BY <1>2, <1>8, <1>9, <1>14, TakenStep DEF ServerInv
  <1>18. Untouched'
    <2>1. ASSUME NEW p \in Places \ hurt', Fresh(p)' PROVE Fresh(p)
      <3> SUFFICES ASSUME NEW j \in Keys, Place(j) = p, table[j] # 0
                   PROVE  At(table[j]) \in {"launched", "cleared"}
        BY DEF Fresh
      <3>1. table' = table /\ Place(j)' = p
        BY <1>9, <1>12, <1>13, <2>1
      <3>2. server'[table[j]].at \in {"launched", "cleared"}
        BY <2>1, <3>1 DEF Fresh, At
      <3>3. table[j] \in Servers \ {s}
        BY <1>1, <1>2, <1>11, <2>1
      <3> QED BY <1>7, <3>2, <3>3 DEF At
    <2> QED BY <1>2, <1>9, <1>14, <2>1, UntouchedStep DEF ServerInv
  <1>19. Listening'
    BY <1>7, <1>10 DEF ServerInv, Listening, At
  <1>20. Latest'
    BY <1>2, <1>5, <1>7 DEF ServerInv, Latest, At
  <1>21. Serves'
    <2> SUFFICES ASSUME NEW j \in Keys, table'[j] # 0, Place(j)' \notin hurt', ~Shares(j)'
                 PROVE  server'[table'[j]].at # "dead"
      BY DEF Serves, At
    <2>1. table' = table /\ Place(j) \notin hurt /\ Place(j) # Place(k)
      BY <1>2, <1>9, <1>12, <1>13
    <2>2. ~Shares(j)
      BY <1>9, <2>1 DEF Shares
    <2>3. table[j] \in Servers \ {s}
      BY <1>1, <1>11, <2>1
    <2> QED BY <1>7, <2>1, <2>2, <2>3 DEF ServerInv, Serves, At
  <1> QED BY <1>15, <1>16, <1>17, <1>18, <1>19, <1>20, <1>21 DEF ServerInv

LEMMA RestartInv ==
    ASSUME ServerInv, Restart
    PROVE  ServerInv'
  <1>1. /\ table' = [k \in Keys |-> 0] /\ closing' = {} /\ hurt' = Places
        /\ server' = [s \in Servers |-> [server[s] EXCEPT !.at = "free", !.socket = FALSE]]
        /\ conn' = [c \in Conns |-> IF conn[c].at \in {"queued", "served"}
                                    THEN Over(c, "dropped") ELSE conn[c]]
        /\ late' = [s \in Servers |-> 0]
        /\ UNCHANGED <<kind, linger>>
    BY DEF Restart
  <1>2. \A s \in Servers : server'[s] \in Server /\ server'[s].at = "free" /\ server'[s].key = Key(s)
    BY <1>1 DEF ServerInv, ServerTypeOK, Server, Steps, Key
  <1>3. conn \in [Conns -> Conn]
    BY DEF ServerInv, ServerTypeOK
  <1>4. \A c \in Conns : Over(c, "dropped") \in Conn /\ Over(c, "dropped").at = "dropped"
                         /\ Over(c, "dropped").left = "no"
    BY <1>3, OverFacts DEF Ended
  <1>5. \A c \in Conns :
          /\ conn'[c] \in Conn /\ conn'[c].at \notin {"queued", "served"}
    <2> HIDE DEF Over
    <2> QED BY <1>1, <1>3, <1>4
  <1>6. conn' \in [Conns -> Conn]
    BY <1>1, <1>5
  <1>7. Places' = Places /\ \A k \in Keys : Place(k) \in Places
    BY <1>1, ServerFacts DEF Place, Places
  <1>8. ServerTypeOK'
    <2>1. table' \in [Keys -> 0 .. MaxServers] /\ late' \in [Servers -> 0 .. MaxConns]
      <3>1. 0 \in 0 .. MaxServers /\ 0 \in 0 .. MaxConns
        BY ServerAssumption
      <3> QED BY <1>1, <3>1
    <2>2. server' \in [Servers -> Server]
      BY <1>1, <1>2
    <2>3. linger' \subseteq Places /\ hurt' \subseteq Places
      BY <1>1 DEF ServerInv, ServerTypeOK
    <2>4. \A k \in Keys : table'[k] # 0 => server'[table'[k]].key = k
      BY <1>1
    <2> QED BY <1>1, <1>6, <2>1, <2>2, <2>3, <2>4, TypesKept DEF ServerInv
  <1>9. Registered' /\ Serves'
    BY <1>1, <1>2 DEF Registered, Serves, At
  <1>10. Taken'
    <2> SUFFICES ASSUME NEW c \in Conns PROVE TakenAt(c)'
      BY DEF Taken
    <2>1. conn'[c].place \in Places
      BY <1>5 DEF Conn
    <2> QED BY <1>1, <1>5, <2>1 DEF TakenAt
  <1>11. Untouched' /\ Listening' /\ Latest'
    <2>1. Untouched'
      BY <1>1, <1>7 DEF Untouched
    <2>2. Listening'
      BY <1>2 DEF Listening, At
    <2>3. Latest'
      BY <1>1 DEF Latest
    <2> QED BY <2>1, <2>2, <2>3
  <1> QED BY <1>8, <1>9, <1>10, <1>11 DEF ServerInv

LEMMA InitServerInv == ServerInit => ServerInv
  <1> SUFFICES ASSUME ServerInit PROVE ServerInv
    OBVIOUS
  <1>1. /\ \A k \in Keys : table[k] = 0
        /\ \A s \in Servers : server[s] = [key |-> Unused, at |-> "free", event |-> TRUE, socket |-> FALSE]
        /\ \A c \in Conns : conn[c] = [at |-> "none", place |-> Place(Unused), by |-> 0,
                                       said |-> FALSE, mute |-> FALSE, left |-> "no"]
        /\ linger = {} /\ closing = {} /\ hurt = {}
        /\ \A s \in Servers : late[s] = 0
    BY DEF ServerInit
  <1>2. 0 \in 0 .. MaxServers /\ 0 \in 0 .. MaxConns
    BY ServerAssumption
  <1>3. ServerTypeOK
    <2>1. [key |-> Unused, at |-> "free", event |-> TRUE, socket |-> FALSE] \in Server
      BY ServerFacts DEF Server, Steps
    <2>2. [at |-> "none", place |-> Place(Unused), by |-> 0,
           said |-> FALSE, mute |-> FALSE, left |-> "no"] \in Conn
      BY <1>2, ServerFacts DEF Conn
    <2>3. server \in [Servers -> Server] /\ conn \in [Conns -> Conn]
      BY <2>1, <2>2 DEF ServerInit
    <2> QED BY <1>1, <1>2, <2>3 DEF ServerInit, ServerTypeOK
  <1>4. Registered /\ Serves
    BY <1>1 DEF Registered, Serves, At
  <1>5. Taken /\ Untouched /\ Listening /\ Latest
    BY <1>1 DEF Taken, TakenAt, Untouched, Listening, Latest, At
  <1> QED BY <1>3, <1>4, <1>5 DEF ServerInv

LEMMA NextServerInv == ServerInv /\ [ServerNext]_serverVars => ServerInv'
  <1> SUFFICES ASSUME ServerInv, [ServerNext]_serverVars PROVE ServerInv'
    OBVIOUS
  <1>1. CASE UNCHANGED serverVars
    <2>1. UNCHANGED <<kind, table, server, conn, linger, closing, late, hurt>>
      BY <1>1 DEF serverVars
    <2>2. ConnsOK /\ LingerOK
      BY <2>1, LawfulFacts DEF ConnsOK, LingerOK
    <2>3. conn' \in [Conns -> Conn] /\ linger' \subseteq Places /\ hurt' \subseteq Places
      BY <2>1 DEF ServerInv, ServerTypeOK
    <2> QED BY <2>1, <2>2, <2>3, ConnsInv
  <1>2. CASE ServerNext
    <2>1. ASSUME NEW s \in Servers, ServerStep(s) PROVE ServerInv'
      BY <2>1, SettleInv, AcceptInv, EchoInv, DatagramInv, HandOverInv DEF ServerStep
    <2>2. ASSUME NEW k \in Keys, Add(k) \/ CloseOne(k) PROVE ServerInv'
      BY <2>2, AddInv, CloseOneInv
    <2>3. ASSUME NEW p \in Places, PeerConnect(p) \/ TimeWaitOver(p) PROVE ServerInv'
      BY <2>3, PeerConnectInv
    <2>4. ASSUME NEW c \in Conns, Get(c) \/ Say(c) \/ Leave(c) \/ ResetConn(c) PROVE ServerInv'
      BY <2>4, GetInv, PeerInv
    <2> QED BY <1>2, <2>1, <2>2, <2>3, <2>4, CloseAllInv, RestartInv DEF ServerNext
  <1> QED BY <1>1, <1>2

THEOREM ServerInvariance == ServerSpec => []ServerInv
  BY InitServerInv, NextServerInv, PTL DEF ServerSpec

(* The servers of a node, their tables and their connections never leave   *)
(* their types (server.py, manager.py).                                    *)
THEOREM ServerTypeCorrect == ServerSpec => []ServerTypeOK
  <1>1. ServerInv => ServerTypeOK
    BY DEF ServerInv
  <1> QED BY <1>1, ServerInvariance, PTL

(* Whatever peers do but reset a connection, the server of a rule whose    *)
(* port was not disturbed before and is not shared is on its way or serves *)
(* (server.py:57-83).                                                      *)
THEOREM ServesHolds == ServerSpec => []Serves
  <1>1. ServerInv => Serves
    BY DEF ServerInv
  <1> QED BY <1>1, ServerInvariance, PTL

(* A closed server takes one more connection and no more                   *)
(* (server.py:74-79).                                                      *)
THEOREM ClosedTakesOneHolds == ServerSpec => []ClosedTakesOne
  <1>1. ServerInv => ClosedTakesOne
    BY DEF ServerInv, Latest, ClosedTakesOne
  <1> QED BY <1>1, ServerInvariance, PTL
=============================================================================
