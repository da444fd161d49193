----------------------- MODULE BackgroundLoop_proofs -----------------------
(***************************************************************************)
(* Proofs about BackgroundLoop, for any apps, any number of RPC threads,   *)
(* of thread objects and of scans.                                         *)
(***************************************************************************)
EXTENDS BackgroundLoop, FiniteSetTheorems, TLAPS

USE LoopAssumption

(* There are no more known scans than scans.                               *)
LEMMA KnownType == Known \in 0 .. MaxScans
<1>1. IsFiniteSet(Scans) /\ Cardinality(Scans) = MaxScans
  BY FS_Interval DEF Scans
<1> DEFINE K == {r \in Scans : scan[r] # "none"}
<1>2. K \subseteq Scans
  OBVIOUS
<1>3. IsFiniteSet(K) /\ Cardinality(K) <= MaxScans /\ Cardinality(K) \in Nat
  BY <1>1, <1>2, FS_Subset, FS_CardinalityType
<1> QED BY <1>3 DEF Known

(* What a thread object may become.                                        *)
LEMMA LoopValues ==
    /\ NoLoop \in Loop
    /\ [NoLoop EXCEPT !.at = "made"] \in Loop
    /\ [NoLoop EXCEPT !.at = "dead"] \in Loop
    /\ [NoLoop EXCEPT !.at = "test"] \in Loop
    /\ [at |-> "work", next |-> 1, size |-> Known] \in Loop
BY KnownType DEF NoLoop, Loop

(* What a call may become.                                                 *)
Ats == {"test", "clear", "look", "make", "launch", "set?", "set", "running", "join"}

(* The type of the calls over each way a call goes on: it returns, *)
LEMMA ReturnType ==
    ASSUME call \in [Callers -> Call], NEW c \in Callers, Return(c)
    PROVE  call' \in [Callers -> Call]
<1>1. Idle \in Call
  BY DEF Idle, Call
<1> QED BY <1>1 DEF Return

(* goes to its next step, *)
LEMMA GotoType ==
    ASSUME call \in [Callers -> Call], NEW c \in Callers, NEW at \in Ats, Goto(c, at)
    PROVE  call' \in [Callers -> Call]
<1>1. [call[c] EXCEPT !.at = at] \in Call
  BY DEF Call, Ats
<1> QED BY <1>1 DEF Goto

(* or waits for a thread. *)
LEMMA JoiningType ==
    ASSUME call \in [Callers -> Call], NEW c \in Callers, NEW t \in 0 .. MaxThreads,
           call' = [call EXCEPT ![c] = [at |-> "joining", thread |-> t]]
    PROVE  call' \in [Callers -> Call]
<1>1. [at |-> "joining", thread |-> t] \in Call
  BY DEF Call
<1> QED BY <1>1

(* Every step keeps the type of the calls, *)
LEMMA CallType == TypeOK /\ [Next]_vars => call' \in [Callers -> Call]
<1> SUFFICES ASSUME TypeOK, [Next]_vars PROVE call' \in [Callers -> Call]
  OBVIOUS
<1> USE DEF TypeOK, Ats
<1>1. CASE UNCHANGED call
  BY <1>1
<1>2. ASSUME NEW c \in Callers, BeginStart(c) \/ BeginStop(c) PROVE call' \in [Callers -> Call]
  BY <1>2, GotoType DEF BeginStart, BeginStop, Begin
<1>3. ASSUME NEW c \in Callers,
             TestStopped(c) \/ Clear(c) \/ Look(c) \/ Make(c) \/ Launch(c)
      PROVE  call' \in [Callers -> Call]
  BY <1>3, GotoType, ReturnType DEF TestStopped, Clear, Look, Make, Launch
<1>4. ASSUME NEW c \in Callers,
             TestRunning(c) \/ Set(c) \/ IsRunning(c) \/ Join(c) \/ Joined(c)
      PROVE  call' \in [Callers -> Call]
  BY <1>4, GotoType, ReturnType, JoiningType DEF TestRunning, Set, IsRunning, Join, Joined
<1> QED
  BY <1>1, <1>2, <1>3, <1>4
  DEF vars, Next, CallStep, LoopStep, Test, Work, Visit, VisitedAll, StartScan, StopScan, ScanEnds

(* that of the thread objects, *)
LEMMA LoopType == TypeOK /\ [Next]_vars => loop' \in [Threads -> Loop] /\ thread' \in 0 .. MaxThreads
<1> SUFFICES ASSUME TypeOK, [Next]_vars
             PROVE  loop' \in [Threads -> Loop] /\ thread' \in 0 .. MaxThreads
  OBVIOUS
<1> USE DEF TypeOK, Threads
<1>1. CASE UNCHANGED <<loop, thread>>
  BY <1>1
<1>2. ASSUME NEW c \in Callers, Make(c)
      PROVE  loop' \in [Threads -> Loop] /\ thread' \in 0 .. MaxThreads
  BY <1>2, LoopValues DEF Make, Garbage
<1>3. ASSUME NEW c \in Callers, Launch(c)
      PROVE  loop' \in [Threads -> Loop] /\ thread' \in 0 .. MaxThreads
  <2>1. thread # 0 => [loop[thread] EXCEPT !.at = "test"] \in Loop
    BY DEF Loop
  <2> QED BY <1>3, <2>1 DEF Launch
<1>4. ASSUME NEW c \in Callers, Joined(c)
      PROVE  loop' \in [Threads -> Loop] /\ thread' \in 0 .. MaxThreads
  BY <1>4 DEF Joined
<1>5. ASSUME NEW t \in Threads, Test(t) \/ Work(t) \/ VisitedAll(t)
      PROVE  loop' \in [Threads -> Loop] /\ thread' \in 0 .. MaxThreads
  BY <1>5, LoopValues DEF Test, Work, VisitedAll, Rest, Fall
<1>6. ASSUME NEW t \in Threads, Visit(t)
      PROVE  loop' \in [Threads -> Loop] /\ thread' \in 0 .. MaxThreads
  <2>1. loop[t].next + 1 \in 0 .. MaxScans + 1
    BY <1>6, KnownType DEF Visit, Loop
  <2>2. loop[t] \in Loop
    OBVIOUS
  <2>3. [loop[t] EXCEPT !.next = loop[t].next + 1] \in Loop
    BY <2>1, <2>2, <1>6, KnownType DEF Loop, Visit
  <2> QED BY <1>6, <2>3 DEF Visit
<1> QED
  BY <1>1, <1>2, <1>3, <1>4, <1>5, <1>6
  DEF vars, Next, CallStep, LoopStep, BeginStart, BeginStop, Begin, TestStopped, Clear, Look,
      TestRunning, Set, IsRunning, Join, StartScan, StopScan, ScanEnds

(* and all the others. *)
LEMMA TypeStep == TypeOK /\ [Next]_vars => TypeOK'
<1> SUFFICES ASSUME TypeOK, [Next]_vars PROVE TypeOK'
  OBVIOUS
<1>1. app' = app
  BY DEF vars, Next, CallStep, LoopStep, BeginStart, BeginStop, Begin, TestStopped, Clear, Look,
         Make, Launch, TestRunning, Set, IsRunning, Join, Joined, Test, Work, Visit, VisitedAll,
         StartScan, StopScan, ScanEnds
<1>2. switch' \in BOOLEAN
  BY DEF TypeOK, vars, Next, CallStep, LoopStep, BeginStart, BeginStop, Begin, TestStopped, Clear,
         Look, Make, Launch, TestRunning, Set, IsRunning, Join, Joined, Test, Work, Visit,
         VisitedAll, StartScan, StopScan, ScanEnds
<1>3. raced' \in BOOLEAN /\ lost' \in BOOLEAN
  BY DEF TypeOK, vars, Next, CallStep, LoopStep, BeginStart, BeginStop, Begin, TestStopped, Clear,
         Look, Make, Launch, TestRunning, Set, IsRunning, Join, Joined, Test, Work, Visit,
         VisitedAll, StartScan, StopScan, ScanEnds, Fall
<1>4. /\ scan' \in [Scans -> {"none", "running", "ended", "killed"}]
      /\ done' \subseteq Scans /\ \A r \in done' : scan'[r] \in {"ended", "killed"}
  <2> USE DEF TypeOK
  <2>1. CASE UNCHANGED scans
    BY <2>1 DEF scans
  <2>2. CASE StartScan
    <3>1. PICK r \in Scans : scan[r] = "none" /\ scan' = [scan EXCEPT ![r] = "running"] /\ done' = done
      BY <2>2 DEF StartScan
    <3> QED BY <3>1
  <2>3. ASSUME NEW r \in Scans, StopScan(r) \/ ScanEnds(r)
        PROVE  /\ scan' \in [Scans -> {"none", "running", "ended", "killed"}]
               /\ done' \subseteq Scans /\ \A q \in done' : scan'[q] \in {"ended", "killed"}
    BY <2>3 DEF StopScan, ScanEnds
  <2>4. ASSUME NEW t \in Threads, Visit(t)
        PROVE  /\ scan' \in [Scans -> {"none", "running", "ended", "killed"}]
               /\ done' \subseteq Scans /\ \A q \in done' : scan'[q] \in {"ended", "killed"}
    <3>1. loop[t].next \in Scans
      BY <2>4, KnownType DEF Visit, Loop, Scans
    <3> QED BY <2>4, <3>1 DEF Visit
  <2> QED
    BY <2>1, <2>2, <2>3, <2>4
    DEF vars, scans, Next, CallStep, LoopStep, BeginStart, BeginStop, Begin, TestStopped, Clear,
        Look, Make, Launch, TestRunning, Set, IsRunning, Join, Joined, Test, Work, VisitedAll
<1> QED BY <1>1, <1>2, <1>3, <1>4, CallType, LoopType DEF TypeOK

(* TypeCorrect: every reachable state is well typed, however calls overlap *)
(* and threads die; the loop never looks beyond the requests there are.    *)
THEOREM TypeCorrect == Spec => []TypeOK
<1>1. Init => TypeOK
  <2> SUFFICES ASSUME Init PROVE TypeOK
    OBVIOUS
  <2>1. Idle \in Call
    BY DEF Idle, Call
  <2>2. call \in [Callers -> Call] /\ loop \in [Threads -> Loop]
    BY <2>1, LoopValues DEF Init
  <2>3. switch \in BOOLEAN /\ raced \in BOOLEAN /\ lost \in BOOLEAN
    BY DEF Init
  <2>4. /\ scan \in [Scans -> {"none", "running", "ended", "killed"}]
        /\ done \subseteq Scans /\ \A r \in done : scan[r] \in {"ended", "killed"}
    BY DEF Init
  <2>5. app \in Apps /\ thread \in 0 .. MaxThreads
    BY DEF Init
  <2> QED BY <2>2, <2>3, <2>4, <2>5 DEF TypeOK
<1> QED BY <1>1, TypeStep, PTL DEF Spec

-----------------------------------------------------------------------------
(* The thread that is on. *)
On == thread # 0 /\ Alive(thread)
Serial == \A c, d \in Callers : call[c].at # "idle" /\ call[d].at # "idle" => c = d
OnlyThread == \A t \in Threads : loop[t].at \in {"made", "test", "work"} => t = thread
MadeIsLaunched ==
    \A t \in Threads : loop[t].at = "made" => \E c \in Callers : call[c].at = "launch"

(* What the switch tells, and what a dead thread in the attribute does. *)
Told ==
    /\ switch => ~On
    /\ ~switch /\ ~lost => On
    /\ thread # 0 /\ ~On => lost

(* What each call relies on. *)
Phase(c) ==
    /\ call[c].at \in {"test", "set?", "set", "clear"} => Told
    /\ call[c].at = "clear" => Monitor \/ switch
    /\ call[c].at = "look" => ~switch /\ (thread # 0 /\ ~On => lost)
    /\ call[c].at = "make" => ~switch /\ ~On
    /\ call[c].at = "launch" => ~switch /\ thread # 0 /\ loop[thread].at = "made"
    /\ call[c].at \in {"running", "join"} => switch
    /\ call[c].at = "joining" => switch /\ thread # 0 /\ call[c].thread = thread

SwitchInv ==
    ~raced => /\ Serial /\ OnlyThread /\ MadeIsLaunched
              /\ \A c \in Callers : Phase(c)
              /\ Quiet => Told

(* Only the caller's own steps move it, and they find the others idle.     *)
LEMMA CallFrame ==
    ASSUME TypeOK, Serial, NEW c \in Callers, call[c].at # "idle",
           NEW r, call' = [call EXCEPT ![c] = r]
    PROVE  /\ call'[c] = r
           /\ \A d \in Callers \ {c} : call'[d] = call[d] /\ call[d].at = "idle"
           /\ Serial'
BY DEF TypeOK, Serial

(* Its next step and its own phase are all that need a proof.              *)
LEMMA CallSuffices ==
    ASSUME TypeOK, Serial, NEW c \in Callers, call[c].at # "idle",
           NEW r, call' = [call EXCEPT ![c] = r],
           OnlyThread', MadeIsLaunched', Phase(c)', r.at = "idle" => Told'
    PROVE  SwitchInv'
<1>1. /\ call'[c] = r /\ Serial'
      /\ \A d \in Callers \ {c} : call'[d].at = "idle"
  BY CallFrame
<1>2. \A d \in Callers \ {c} : Phase(d)'
  BY <1>1 DEF Phase
<1>3. \A d \in Callers : Phase(d)'
  BY <1>2
<1>4. Quiet' => Told'
  BY <1>1 DEF Quiet
<1> QED BY <1>1, <1>3, <1>4 DEF SwitchInv

(* A step that leaves the threads alone. *)
LEMMA SameThreads ==
    ASSUME OnlyThread, MadeIsLaunched, UNCHANGED <<thread, loop>>
    PROVE  OnlyThread' /\ (On' <=> On)
BY DEF OnlyThread, On, Alive

(* What is left to show for a call that goes on, *)
LEMMA GoSuffices ==
    ASSUME TypeOK, Serial, NEW c \in Callers, call[c].at # "idle",
           NEW at \in Ats, Goto(c, at),
           OnlyThread', MadeIsLaunched', call'[c].at = at => Phase(c)'
    PROVE  SwitchInv'
<1> DEFINE r == [call[c] EXCEPT !.at = at]
<1>1. r.at = at /\ at # "idle"
  BY DEF TypeOK, Call, Ats
<1>2. call' = [call EXCEPT ![c] = r]
  BY DEF Goto
<1> HIDE DEF r
<1>3. call'[c].at = at
  BY <1>1, <1>2, CallFrame
<1> QED BY <1>1, <1>2, <1>3, CallSuffices

(* and for one that returns. *)
LEMMA ReturnSuffices ==
    ASSUME TypeOK, Serial, NEW c \in Callers, call[c].at # "idle", Return(c),
           OnlyThread', MadeIsLaunched', Told'
    PROVE  SwitchInv'
<1>1. call' = [call EXCEPT ![c] = Idle] /\ Idle.at = "idle"
  BY DEF Return, Idle
<1>2. call'[c].at = "idle"
  BY <1>1, CallFrame
<1>3. Phase(c)'
  BY <1>2 DEF Phase
<1> QED BY <1>1, <1>3, CallSuffices

(* The steps of a call keep the invariant, *)
LEMMA CallStepKeeps ==
    ASSUME TypeOK, SwitchInv, ~raced, NEW c \in Callers, CallStep(c) PROVE SwitchInv'
<1>1. Serial /\ OnlyThread /\ MadeIsLaunched /\ Phase(c)
  BY DEF SwitchInv
<1>2. thread \in Threads \cup {0} /\ 0 \notin Threads
  BY DEF TypeOK, Threads
<1>3. call[c].at # "launch" /\ call[c].at # "idle" => \A t \in Threads : loop[t].at # "made"
  BY <1>1 DEF Serial, MadeIsLaunched
<1>4. ASSUME call[c].at # "launch", call[c].at # "idle", UNCHANGED <<thread, loop>>
      PROVE  OnlyThread' /\ MadeIsLaunched' /\ (On' <=> On)
  BY <1>1, <1>3, <1>4, SameThreads DEF MadeIsLaunched
<1> USE <1>1
<1>5. CASE TestStopped(c)
  <2>1. /\ OnlyThread' /\ MadeIsLaunched' /\ (On' <=> On) /\ call[c].at = "test"
        /\ UNCHANGED <<thread, switch, lost, app>>
    BY <1>4, <1>5 DEF TestStopped
  <2>2. CASE switch
    <3>1. Goto(c, "clear")
      BY <1>5, <2>2 DEF TestStopped
    <3>2. call'[c].at = "clear" => Phase(c)'
      BY <2>1, <2>2 DEF Phase, Told
    <3> QED BY <2>1, <3>1, <3>2, GoSuffices DEF Ats
  <2>3. CASE ~switch
    <3>1. Return(c) /\ Told'
      BY <1>5, <2>1, <2>3 DEF TestStopped, Phase, Told
    <3> QED BY <2>1, <3>1, ReturnSuffices
  <2> QED BY <2>2, <2>3
<1>6. CASE Clear(c)
  <2>1. /\ OnlyThread' /\ MadeIsLaunched' /\ (On' <=> On) /\ call[c].at = "clear"
        /\ UNCHANGED <<thread, lost, app>> /\ switch' = FALSE
    BY <1>4, <1>6 DEF Clear
  <2>2. CASE Monitor
    <3>1. Goto(c, "look")
      BY <1>6, <2>2 DEF Clear
    <3>2. call'[c].at = "look" => Phase(c)'
      BY <2>1 DEF Phase, Told
    <3> QED BY <2>1, <3>1, <3>2, GoSuffices DEF Ats
  <2>3. CASE ~Monitor
    <3>1. Goto(c, "make")
      BY <1>6, <2>3 DEF Clear
    <3>2. call'[c].at = "make" => Phase(c)'
      BY <2>1, <2>3 DEF Phase, Told
    <3> QED BY <2>1, <3>1, <3>2, GoSuffices DEF Ats
  <2> QED BY <2>2, <2>3
<1>7. CASE Look(c)
  <2>1. /\ OnlyThread' /\ MadeIsLaunched' /\ (On' <=> On) /\ call[c].at = "look"
        /\ UNCHANGED <<thread, switch, lost>>
    BY <1>4, <1>7 DEF Look
  <2>2. CASE thread = 0
    <3>1. Goto(c, "make")
      BY <1>7, <2>2 DEF Look
    <3>2. call'[c].at = "make" => Phase(c)'
      BY <2>1, <2>2 DEF Phase, On
    <3> QED BY <2>1, <3>1, <3>2, GoSuffices DEF Ats
  <2>3. CASE thread # 0
    <3>1. Return(c) /\ Told'
      BY <1>7, <2>1, <2>3 DEF Look, Phase, Told
    <3> QED BY <2>1, <3>1, ReturnSuffices
  <2> QED BY <2>2, <2>3
<1>8. CASE Make(c)
  <2>1. call[c].at = "make" /\ ~switch /\ ~On /\ switch' = switch /\ Goto(c, "launch")
    BY <1>8 DEF Make, Phase
  <2>2. PICK t \in Threads : thread' = t /\ loop' = [loop EXCEPT ![t] = [NoLoop EXCEPT !.at = "made"]]
    BY <1>8 DEF Make, Garbage
  <2>3. loop'[t].at = "made" /\ \A u \in Threads \ {t} : loop'[u] = loop[u]
    BY <2>2 DEF TypeOK, NoLoop
  <2>4. \A u \in Threads : loop[u].at \notin {"made", "test", "work"}
    BY <1>2, <1>3, <2>1 DEF OnlyThread, On, Alive
  <2>5. OnlyThread'
    BY <2>2, <2>3, <2>4 DEF OnlyThread
  <2>6. call'[c].at = "launch"
    BY <2>1 DEF Goto, TypeOK, Call
  <2>7. MadeIsLaunched'
    BY <2>6 DEF MadeIsLaunched
  <2>8. Phase(c)'
    BY <1>2, <2>1, <2>2, <2>3, <2>6 DEF Phase
  <2> QED BY <2>1, <2>5, <2>7, <2>8, GoSuffices DEF Ats
<1>9. CASE Launch(c)
  <2>1. /\ call[c].at = "launch" /\ ~switch /\ thread # 0 /\ loop[thread].at = "made"
        /\ UNCHANGED <<switch, thread>> /\ Return(c)
    BY <1>9 DEF Launch, Phase
  <2>2. loop' = [loop EXCEPT ![thread].at = "test"] /\ lost' = FALSE
    BY <1>9, <2>1 DEF Launch
  <2>3. thread \in Threads /\ loop[thread] \in Loop
    BY <1>2, <2>1 DEF TypeOK
  <2>4. loop'[thread].at = "test" /\ \A u \in Threads \ {thread} : loop'[u] = loop[u]
    BY <2>2, <2>3 DEF TypeOK, Loop
  <2>5. OnlyThread'
    BY <2>1, <2>4 DEF OnlyThread
  <2>6. MadeIsLaunched'
    BY <2>1, <2>4, <2>5 DEF MadeIsLaunched, OnlyThread
  <2>7. Told'
    BY <2>1, <2>2, <2>4 DEF Told, On, Alive
  <2> QED BY <2>1, <2>5, <2>6, <2>7, ReturnSuffices
<1>10. CASE TestRunning(c)
  <2>1. /\ OnlyThread' /\ MadeIsLaunched' /\ (On' <=> On) /\ call[c].at = "set?"
        /\ UNCHANGED <<thread, switch, lost>>
    BY <1>4, <1>10 DEF TestRunning
  <2>2. Told'
    BY <2>1 DEF Phase, Told
  <2>3. CASE switch
    <3>1. Return(c)
      BY <1>10, <2>3 DEF TestRunning
    <3> QED BY <2>1, <2>2, <3>1, ReturnSuffices
  <2>4. CASE ~switch
    <3>1. Goto(c, "set")
      BY <1>10, <2>4 DEF TestRunning
    <3>2. call'[c].at = "set" => Phase(c)'
      BY <2>2 DEF Phase
    <3> QED BY <2>1, <3>1, <3>2, GoSuffices DEF Ats
  <2> QED BY <2>3, <2>4
<1>11. CASE Set(c)
  <2>1. OnlyThread' /\ MadeIsLaunched' /\ call[c].at = "set" /\ switch' = TRUE
    BY <1>4, <1>11 DEF Set
  <2>2. PICK at \in {"running", "join"} : Goto(c, at)
    BY <1>11 DEF Set
  <2>3. call'[c].at = at => Phase(c)'
    BY <2>1 DEF Phase
  <2> QED BY <2>1, <2>2, <2>3, GoSuffices DEF Ats
<1>12. CASE IsRunning(c)
  <2>1. /\ OnlyThread' /\ MadeIsLaunched' /\ (On' <=> On) /\ call[c].at = "running"
        /\ UNCHANGED <<thread, switch>> /\ switch
    BY <1>4, <1>12 DEF IsRunning, Phase
  <2>2. CASE On
    <3>1. Goto(c, "join")
      BY <1>12, <2>2 DEF IsRunning, On
    <3>2. call'[c].at = "join" => Phase(c)'
      BY <2>1 DEF Phase
    <3> QED BY <2>1, <3>1, <3>2, GoSuffices DEF Ats
  <2>3. CASE ~On
    <3>1. Return(c) /\ (thread # 0 => lost')
      BY <1>12, <2>3 DEF IsRunning, On
    <3>2. Told'
      BY <2>1, <2>3, <3>1 DEF Told
    <3> QED BY <2>1, <3>1, <3>2, ReturnSuffices
  <2> QED BY <2>2, <2>3
<1>13. CASE Join(c)
  <2>1. /\ OnlyThread' /\ MadeIsLaunched' /\ (On' <=> On) /\ call[c].at = "join"
        /\ UNCHANGED <<thread, switch>> /\ switch
    BY <1>4, <1>13 DEF Join, Phase
  <2>2. CASE thread = 0
    <3>1. Return(c)
      BY <1>13, <2>2 DEF Join
    <3>2. Told'
      BY <2>1, <2>2 DEF Told, On
    <3> QED BY <2>1, <3>1, <3>2, ReturnSuffices
  <2>3. CASE thread # 0
    <3> DEFINE r == [at |-> "joining", thread |-> thread]
    <3>1. loop[thread].at # "made"
      BY <1>2, <1>3, <2>1, <2>3
    <3>2. call' = [call EXCEPT ![c] = r]
      BY <1>13, <2>3, <3>1 DEF Join
    <3>3. r.at = "joining" /\ r.thread = thread
      OBVIOUS
    <3> HIDE DEF r
    <3>4. call'[c] = r
      BY <2>1, <3>2, CallFrame
    <3>5. Phase(c)'
      BY <2>1, <2>3, <3>3, <3>4 DEF Phase
    <3> QED BY <2>1, <3>2, <3>3, <3>5, CallSuffices
  <2> QED BY <2>2, <2>3
<1>14. CASE Joined(c)
  <2>1. /\ call[c].at = "joining" /\ switch /\ thread # 0 /\ loop[thread].at = "dead"
        /\ UNCHANGED <<switch, loop>> /\ thread' = 0 /\ Return(c)
    BY <1>14 DEF Joined, Phase
  <2>2. \A u \in Threads : loop'[u].at \notin {"made", "test", "work"}
    BY <2>1 DEF OnlyThread
  <2>3. OnlyThread' /\ MadeIsLaunched' /\ Told'
    BY <2>1, <2>2 DEF OnlyThread, MadeIsLaunched, Told, On
  <2> QED BY <2>1, <2>3, ReturnSuffices
<1> QED
  BY <1>5, <1>6, <1>7, <1>8, <1>9, <1>10, <1>11, <1>12, <1>13, <1>14 DEF CallStep

(* so do new calls, *)
LEMMA BeginKeeps ==
    ASSUME TypeOK, SwitchInv, ~raced', NEW c \in Callers, BeginStart(c) \/ BeginStop(c)
    PROVE  SwitchInv'
<1>1. PICK at \in {"test", "clear", "set", "set?"} : Begin(c, at) /\ (at = "clear" => Monitor)
  BY DEF BeginStart, BeginStop
<1>2. Quiet /\ ~raced
  BY <1>1 DEF Begin, Quiet
<1>3. OnlyThread /\ MadeIsLaunched /\ Told
  BY <1>2 DEF SwitchInv
<1>4. UNCHANGED <<app, switch, thread, loop, lost>> /\ Goto(c, at)
  BY <1>1 DEF Begin
<1>5. call'[c].at = at /\ \A d \in Callers \ {c} : call'[d].at = "idle"
  BY <1>2, <1>4 DEF Goto, Quiet, TypeOK, Call
<1>6. OnlyThread' /\ (On' <=> On) /\ Told'
  BY <1>3, <1>4, SameThreads DEF Told
<1>7. \A t \in Threads : loop[t].at # "made"
  BY <1>2, <1>3 DEF MadeIsLaunched, Quiet
<1>8. MadeIsLaunched'
  BY <1>4, <1>7 DEF MadeIsLaunched
<1>9. \A d \in Callers : Phase(d)'
  BY <1>1, <1>4, <1>5, <1>6 DEF Phase, Monitor
<1>10. Serial'
  BY <1>5 DEF Serial
<1> QED BY <1>6, <1>8, <1>9, <1>10 DEF SwitchInv

(* the steps of a thread, *)
LEMMA LoopStepKeeps ==
    ASSUME TypeOK, SwitchInv, ~raced, NEW t \in Threads, LoopStep(t) PROVE SwitchInv'
<1>1. Serial /\ OnlyThread /\ MadeIsLaunched /\ (\A c \in Callers : Phase(c)) /\ (Quiet => Told)
  BY DEF SwitchInv
<1>2. loop[t].at \in {"test", "work"} /\ UNCHANGED <<app, switch, thread, call, raced>>
  BY DEF LoopStep, Test, Work, Visit, VisitedAll
<1>3. t = thread /\ thread # 0 /\ On
  BY <1>1, <1>2 DEF OnlyThread, On, Alive, Threads
<1>4. /\ \A u \in Threads \ {t} : loop'[u] = loop[u]
      /\ loop'[t].at \in {"test", "work", "dead"}
      /\ loop'[t].at = "dead" => switch \/ lost'
      /\ lost => lost'
  <2> USE DEF TypeOK
  <2>1. CASE Test(t)
    <3>1. /\ [NoLoop EXCEPT !.at = "dead"].at = "dead"
          /\ [at |-> "work", next |-> 1, size |-> Known].at = "work"
      BY DEF NoLoop
    <3>2. lost' = lost /\ \A u \in Threads \ {t} : loop'[u] = loop[u]
      BY <2>1 DEF Test
    <3>3. switch => loop'[t].at = "dead"
      BY <2>1, <3>1 DEF Test
    <3>4. ~switch => loop'[t].at = "work"
      BY <2>1, <3>1 DEF Test
    <3> QED BY <3>2, <3>3, <3>4
  <2>2. CASE Work(t)
    <3>1. CASE Rest(t) /\ UNCHANGED lost
      BY <3>1 DEF Rest, NoLoop
    <3>2. CASE Fall(t)
      <4>1. lost'
        BY <3>2, <1>3 DEF Fall
      <4>2. loop'[t].at = "dead" /\ \A u \in Threads \ {t} : loop'[u] = loop[u]
        BY <3>2 DEF Fall, NoLoop
      <4> QED BY <4>1, <4>2
    <3> QED BY <2>2, <3>1, <3>2 DEF Work
  <2>3. CASE Visit(t)
    BY <2>3, <1>2 DEF Visit, Loop
  <2>4. CASE VisitedAll(t)
    BY <2>4, <1>3 DEF VisitedAll, Rest, Fall, NoLoop
  <2> QED BY <2>1, <2>2, <2>3, <2>4 DEF LoopStep
<1>5. Serial' /\ (Quiet' <=> Quiet)
  BY <1>1, <1>2 DEF Serial, Quiet
<1>6. OnlyThread'
  BY <1>1, <1>2, <1>3, <1>4 DEF OnlyThread
<1>7. MadeIsLaunched'
  BY <1>1, <1>2, <1>4 DEF MadeIsLaunched
<1>8. On' \/ switch \/ lost'
  BY <1>2, <1>3, <1>4 DEF On, Alive
<1>9. Told => Told'
  BY <1>2, <1>3, <1>8 DEF Told
<1>10. \A c \in Callers : Phase(c)'
  <2> SUFFICES ASSUME NEW c \in Callers PROVE Phase(c)'
    OBVIOUS
  <2>1. call'[c] = call[c]
    BY <1>2
  <2>2. call[c].at # "make" /\ call[c].at # "launch"
    BY <1>1, <1>2, <1>3 DEF Phase
  <2> QED BY <1>1, <1>2, <1>3, <1>8, <1>9, <2>1, <2>2 DEF Phase, Monitor
<1> QED BY <1>1, <1>5, <1>6, <1>7, <1>9, <1>10 DEF SwitchInv

(* and so all steps; *)
LEMMA SwitchStep == TypeOK /\ SwitchInv /\ [Next]_vars => SwitchInv'
<1> SUFFICES ASSUME TypeOK, SwitchInv, [Next]_vars, ~raced' PROVE SwitchInv'
  BY DEF SwitchInv
<1>1. ASSUME NEW c \in Callers, BeginStart(c) \/ BeginStop(c) PROVE SwitchInv'
  BY <1>1, BeginKeeps
<1>2. ASSUME NEW c \in Callers, CallStep(c) PROVE SwitchInv'
  <2>1. raced' = raced
    BY <1>2 DEF CallStep, TestStopped, Clear, Look, Make, Launch, TestRunning, Set, IsRunning, Join, Joined
  <2> QED BY <1>2, <2>1, CallStepKeeps
<1>3. ASSUME NEW t \in Threads, LoopStep(t) PROVE SwitchInv'
  <2>1. raced' = raced
    BY <1>3 DEF LoopStep, Test, Work, Visit, VisitedAll
  <2> QED BY <1>3, <2>1, LoopStepKeeps
<1>4. CASE UNCHANGED <<app, switch, thread, loop, call, raced, lost>>
  <2>1. SwitchInv' <=> SwitchInv
    BY <1>4 DEF SwitchInv, Serial, OnlyThread, MadeIsLaunched, Phase, Quiet, Told, On, Alive, Monitor
  <2> QED BY <2>1
<1> QED
  BY <1>1, <1>2, <1>3, <1>4 DEF Next, vars, StartScan, StopScan, ScanEnds

(* it holds at first. *)
LEMMA SwitchInit == Init => SwitchInv
<1> SUFFICES ASSUME Init PROVE SwitchInv
  OBVIOUS
<1>1. (\A c \in Callers : call[c].at = "idle") /\ (\A t \in Threads : loop[t].at = "none")
  BY DEF Init, Idle, NoLoop
<1> QED BY <1>1 DEF Init, SwitchInv, Serial, OnlyThread, MadeIsLaunched, Phase, Told, On

(* SwitchTellsHolds: for any number of threads, as long as no two calls    *)
(* overlap, an app that is off has no thread, and one that is on has       *)
(* exactly one unless that one was lost to an exception (monitor.py:77-95, *)
(* background.py:29-47).                                                   *)
THEOREM SwitchTellsHolds == Spec => []SwitchTells
<1>1. TypeOK /\ SwitchInv => SwitchTells
  <2> SUFFICES ASSUME TypeOK, SwitchInv, Quiet, ~raced
               PROVE  /\ Cardinality(Live) <= 1
                      /\ switch => Live = {}
                      /\ ~switch /\ ~lost => Live # {}
    BY DEF SwitchTells
  <2>1. OnlyThread /\ Told
    BY DEF SwitchInv
  <2>2. Live \subseteq {thread}
    BY <2>1 DEF Live, Alive, OnlyThread
  <2>3. Cardinality(Live) <= 1
    <3>1. IsFiniteSet({thread}) /\ Cardinality({thread}) = 1
      BY FS_Singleton
    <3> QED BY <2>2, <3>1, FS_Subset
  <2>4. On => thread \in Live
    BY DEF On, Live, TypeOK, Threads
  <2>5. ~On => Live = {}
    BY <2>2 DEF On, Live, Threads
  <2> QED BY <2>1, <2>3, <2>4, <2>5 DEF Told
<1> QED BY <1>1, TypeCorrect, SwitchInit, SwitchStep, PTL DEF Spec
=============================================================================
