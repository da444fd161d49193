----------------------- MODULE RecordPipeline_proofs -----------------------
(***************************************************************************)
(* Proofs about RecordPipeline, for every queue size, every list of        *)
(* recorders and every choice of which of them may fail.                   *)
(***************************************************************************)
EXTENDS MCRecordPipeline, TLAPS

Slots == DOMAIN Recorders

(* The handler holds a record exactly while it writes it. *)
HeldWhileWriting ==
    IF handler = "write" THEN held \in 1 .. made /\ turn \in Slots ELSE held = 0

(* Records wait in the order they were made. *)
QueueOrdered == \A i, j \in DOMAIN queue : i < j => queue[i] < queue[j]

(* The held record is older than all that wait. *)
HeldIsOldest == \A i \in DOMAIN queue : held < queue[i]

(* What has been written is older than all that waits, and than the held   *)
(* record for the recorders that have not been called with it yet.         *)
LogsAreOlder ==
    \A k \in Slots : \A i \in DOMAIN logs[Recorders[k]] :
        LET r == logs[Recorders[k]][i] IN
          /\ \A j \in DOMAIN queue : r < queue[j]
          /\ handler = "write" /\ turn <= k => r < held
          /\ handler = "write" => r <= held

DroppedApart ==
    /\ \A i \in DOMAIN queue : queue[i] \notin dropped
    /\ held \notin dropped
    /\ \A k \in Slots : \A i \in DOMAIN logs[Recorders[k]] :
         logs[Recorders[k]][i] \notin dropped

IInv ==
    /\ TypeOK
    /\ HeldWhileWriting
    /\ QueueOrdered
    /\ HeldIsOldest
    /\ LogsAreOlder
    /\ DroppedApart
----------------------------------------------------------------------------
LEMMA RecorderFacts ==
    /\ Slots = 1 .. Len(Recorders) /\ Len(Recorders) \in Nat \ {0}
    /\ \A k \in Slots : Recorders[k] \in Names
    /\ \A j, k \in Slots : Recorders[j] = Recorders[k] => j = k
    /\ \A n \in Names : \E k \in Slots : n = Recorders[k]
  BY PipelineAssumption DEF Slots, Names

LEMMA InitIInv == Init => IInv
  <1> SUFFICES ASSUME Init PROVE IInv
    OBVIOUS
  <1>1. DOMAIN queue = {} /\ \A k \in Slots : DOMAIN logs[Recorders[k]] = {}
    BY RecorderFacts DEF Init
  <1>2. TypeOK
    <2>1. queue \in Seq(1 .. made) /\ Len(queue) <= QueueSize
      BY PipelineAssumption DEF Init
    <2>2. logs \in [Names -> Seq(1 .. made)]
      BY DEF Init
    <2>3. /\ made \in 0 .. MaxRecords /\ held \in 0 .. made
          /\ turn \in 0 .. Len(Recorders)
      BY PipelineAssumption, RecorderFacts DEF Init
    <2>4. enabled \in [Names -> BOOLEAN]
      <3>1. \A n \in Names : (n \in WithClient) \in BOOLEAN
        OBVIOUS
      <3> QED
        BY <3>1 DEF Init
    <2>5. /\ dropped \subseteq 1 .. made /\ failed \subseteq 1 .. made
          /\ stopped \in BOOLEAN /\ surplus \in BOOLEAN
          /\ handler \in {"none", "check", "get", "write", "dead"}
          /\ caller \in {"no", "closing", "joining", "returned"}
          /\ closed \subseteq Closable \cap WithClient
      BY DEF Init
    <2>6. closing \in 0 .. Len(Recorders)
      BY RecorderFacts DEF Init
    <2> QED
      BY <2>1, <2>2, <2>3, <2>4, <2>5, <2>6 DEF TypeOK
  <1>3. HeldWhileWriting
    BY DEF Init, HeldWhileWriting
  <1>4. QueueOrdered /\ HeldIsOldest /\ LogsAreOlder /\ DroppedApart
    BY <1>1 DEF Init, QueueOrdered, HeldIsOldest, LogsAreOlder, DroppedApart
  <1> QED
    BY <1>2, <1>3, <1>4 DEF IInv

LEMMA SeqElement ==
    ASSUME NEW S, NEW s \in Seq(S), NEW i \in DOMAIN s
    PROVE  s[i] \in S
  OBVIOUS

LEMMA LogElements ==
    ASSUME TypeOK, NEW k \in Slots, NEW i \in DOMAIN logs[Recorders[k]]
    PROVE  logs[Recorders[k]] \in Seq(1 .. made) /\ logs[Recorders[k]][i] \in 1 .. made
  <1>1. Recorders[k] \in Names
    BY RecorderFacts
  <1>2. logs[Recorders[k]] \in Seq(1 .. made)
    BY <1>1 DEF TypeOK
  <1> QED
    BY <1>2, SeqElement

(* A longer sequence over a larger set of records. *)
LEMMA SeqGrows ==
    ASSUME NEW m \in Nat, NEW s \in Seq(1 .. m)
    PROVE  s \in Seq(1 .. m + 1)
  OBVIOUS

LEMMA PingIInv == IInv /\ Ping => IInv'
  <1> SUFFICES ASSUME IInv, Ping PROVE IInv'
    OBVIOUS
  <1> USE DEF IInv
  <1>1. made \in Nat /\ made' = made + 1 /\ queue \in Seq(1 .. made)
    BY PipelineAssumption DEF TypeOK, Ping
  <1>2. \A n \in Names : logs[n] \in Seq(1 .. made)
    BY DEF TypeOK
  <1>3. \A n \in Names : logs'[n] \in Seq(1 .. made')
    BY <1>1, <1>2, SeqGrows DEF Ping
  <1>4. logs' \in [Names -> Seq(1 .. made')]
    BY <1>3 DEF Ping, TypeOK
  <1>5. UNCHANGED <<logs, handler, turn, held>>
    BY DEF Ping
  <1>5b. /\ made' \in 0 .. MaxRecords /\ held' \in 0 .. made'
        /\ 1 .. made \subseteq 1 .. made' /\ made + 1 \in 1 .. made'
    BY <1>1, <1>5, PipelineAssumption DEF TypeOK, Ping
  <1>6. CASE Len(queue) < QueueSize
    <2>1. queue' = Append(queue, made + 1) /\ UNCHANGED dropped
      BY <1>1, <1>6 DEF Ping
    <2>2. queue' \in Seq(1 .. made') /\ Len(queue') <= QueueSize
      BY <1>1, <1>6, <2>1, PipelineAssumption
    <2>3. TypeOK'
      BY <1>1, <1>4, <1>5b, <2>1, <2>2 DEF TypeOK, Ping
    <2>4. \A i \in DOMAIN queue' : queue'[i] = IF i \in DOMAIN queue THEN queue[i] ELSE made + 1
      BY <1>1, <2>1
    <2>5. \A i \in DOMAIN queue : queue[i] \in 1 .. made
      BY <1>1
    <2>6. \A i, j \in DOMAIN queue' : i < j => i \in DOMAIN queue
      BY <1>1, <2>1
    <2>7. QueueOrdered'
      BY <1>1, <2>4, <2>5, <2>6 DEF QueueOrdered
    <2>8. HeldWhileWriting' /\ held' = held /\ held \in 0 .. made
      BY <1>1 DEF HeldWhileWriting, Ping, TypeOK
    <2>9. HeldIsOldest'
      BY <1>1, <2>4, <2>8 DEF HeldIsOldest
    <2>10. LogsAreOlder'
      <3> SUFFICES ASSUME NEW k \in Slots, NEW i \in DOMAIN logs[Recorders[k]]
                   PROVE  /\ \A j \in DOMAIN queue' : logs[Recorders[k]][i] < queue'[j]
                          /\ handler = "write" /\ turn <= k => logs[Recorders[k]][i] < held
                          /\ handler = "write" => logs[Recorders[k]][i] <= held
        BY <1>5 DEF LogsAreOlder
      <3>1. logs[Recorders[k]][i] \in 1 .. made
        BY LogElements, <1>1
      <3>2. \A j \in DOMAIN queue : logs[Recorders[k]][i] < queue[j]
        BY DEF LogsAreOlder
      <3>3. \A j \in DOMAIN queue' : logs[Recorders[k]][i] < queue'[j]
        BY <1>1, <2>4, <3>1, <3>2
      <3> QED
        BY <3>3 DEF LogsAreOlder
    <2>11. made + 1 \notin dropped
      BY <1>1 DEF TypeOK
    <2>12. DroppedApart'
      BY <2>1, <2>4, <2>8, <2>11 DEF DroppedApart, Ping
    <2> QED
      BY <2>3, <2>7, <2>8, <2>9, <2>10, <2>12
  <1>7. CASE ~(Len(queue) < QueueSize)
    <2>1. UNCHANGED queue /\ dropped' = dropped \cup {made + 1}
      BY <1>1, <1>7 DEF Ping
    <2>2. queue \in Seq(1 .. made + 1)
      BY <1>1, SeqGrows
    <2>3. TypeOK'
      BY <1>1, <1>4, <1>5b, <2>1, <2>2 DEF TypeOK, Ping
    <2>4. HeldWhileWriting' /\ QueueOrdered' /\ HeldIsOldest' /\ LogsAreOlder'
      BY <1>1, <2>1 DEF HeldWhileWriting, QueueOrdered, HeldIsOldest, LogsAreOlder, Ping, TypeOK
    <2>5. (\A i \in DOMAIN queue : queue[i] # made + 1) /\ held # made + 1
      BY <1>1 DEF TypeOK
    <2>7. \A k \in Slots : \A i \in DOMAIN logs[Recorders[k]] : logs[Recorders[k]][i] \in 1 .. made
      BY LogElements
    <2>6. DroppedApart'
      <3>1. \A i \in DOMAIN queue : queue[i] \notin dropped'
        BY <2>1, <2>5 DEF DroppedApart
      <3>2. held \notin dropped' /\ held' = held /\ logs' = logs
        BY <2>1, <2>5 DEF DroppedApart, Ping
      <3>3. ASSUME NEW k \in Slots, NEW i \in DOMAIN logs[Recorders[k]]
            PROVE logs[Recorders[k]][i] \notin dropped'
        <4>0. logs[Recorders[k]][i] \in 1 .. made
          BY <2>7
        <4>1. logs[Recorders[k]][i] # made + 1
          BY <1>1, <4>0
        <4>2. logs[Recorders[k]][i] \notin dropped
          BY DEF DroppedApart
        <4> QED BY <2>1, <4>1, <4>2
      <3> QED BY <2>1, <3>1, <3>2, <3>3 DEF DroppedApart
    <2> QED
      BY <2>3, <2>4, <2>6
  <1> QED
    BY <1>6, <1>7

LEMMA GetIInv == IInv /\ Get => IInv'
  <1> SUFFICES ASSUME IInv, Get PROVE IInv'
    OBVIOUS
  <1> USE DEF IInv
  <1>1. made \in Nat /\ queue \in Seq(1 .. made) /\ queue # <<>> /\ made' = made
    BY DEF TypeOK, Get
  <1>2. held' = queue[1] /\ queue' = Tail(queue) /\ 1 \in DOMAIN queue
    BY <1>1 DEF Get
  <1>3. queue' \in Seq(1 .. made) /\ Len(queue') = Len(queue) - 1
    BY <1>1, <1>2
  <1>4. \A i \in DOMAIN queue' : i + 1 \in DOMAIN queue /\ queue'[i] = queue[i + 1] /\ i \in Nat \ {0}
    BY <1>1, <1>2, <1>3
  <1>5. held' \in 1 .. made /\ handler' = "write" /\ turn' = 1 /\ 1 \in Slots
    BY <1>1, <1>2, RecorderFacts DEF Get
  <1>6. TypeOK'
    BY <1>1, <1>3, <1>5, RecorderFacts, PipelineAssumption DEF TypeOK, Get
  <1>7. HeldWhileWriting'
    BY <1>1, <1>5 DEF HeldWhileWriting
  <1>8. QueueOrdered'
    BY <1>4 DEF QueueOrdered
  <1>9. HeldIsOldest'
    BY <1>2, <1>4 DEF HeldIsOldest, QueueOrdered
  <1>10. LogsAreOlder'
    <2> SUFFICES ASSUME NEW k \in Slots, NEW i \in DOMAIN logs[Recorders[k]]
                 PROVE  /\ \A j \in DOMAIN queue' : logs[Recorders[k]][i] < queue'[j]
                        /\ logs[Recorders[k]][i] < held'
                        /\ logs[Recorders[k]][i] <= held'
      BY DEF LogsAreOlder, Get
    <2>1. \A j \in DOMAIN queue : logs[Recorders[k]][i] < queue[j]
      BY DEF LogsAreOlder
    <2>2. logs[Recorders[k]][i] \in 1 .. made
      BY LogElements
    <2> QED
      BY <1>1, <1>2, <1>4, <1>5, <2>1, <2>2
  <1>11. DroppedApart'
    BY <1>2, <1>4 DEF DroppedApart, Get
  <1> QED
    BY <1>6, <1>7, <1>8, <1>9, <1>10, <1>11

(* Moving on to the next recorder, whether the one just called wrote the   *)
(* held record (its log then ends in it) or not.                           *)
LEMMA NextRecorderFacts ==
    ASSUME IInv, handler = "write", NextRecorder
    PROVE  /\ \/ handler' = "check" /\ held' = 0 /\ turn' = 0
              \/ handler' = "write" /\ held' = held /\ turn' = turn + 1 /\ turn' \in Slots
           /\ held \in 1 .. made /\ turn \in Slots
  BY RecorderFacts DEF IInv, NextRecorder, HeldWhileWriting

(* A step that leaves the queue, the logs and what was made and dropped    *)
(* alone, and lets go of the held record or goes on to the next recorder.  *)
LEMMA MoveOnIInv ==
    ASSUME IInv, TypeOK',
           UNCHANGED <<made, dropped, queue, logs>>,
           \/ handler' # "write" /\ held' = 0
           \/ handler' = "write" /\ handler = "write" /\ held' = held /\ turn' = turn + 1
                /\ turn' \in Slots
    PROVE  IInv'
  <1> USE DEF IInv
  <1>1. HeldWhileWriting'
    BY DEF HeldWhileWriting
  <1>2. QueueOrdered'
    BY DEF QueueOrdered
  <1>3. \A i \in DOMAIN queue : queue[i] \in 1 .. made /\ made \in Nat
    BY DEF TypeOK
  <1>4. HeldIsOldest'
    BY <1>3 DEF HeldIsOldest
  <1>5. LogsAreOlder'
    <2>1. handler' = "write" => turn \in Nat /\ turn' = turn + 1 /\ held' = held /\ handler = "write"
      BY RecorderFacts DEF HeldWhileWriting
    <2>2. \A k \in Slots : k \in Nat
      BY RecorderFacts
    <2>3. handler' = "write" => \A k \in Slots : turn' <= k => turn <= k
      BY <2>1, <2>2
    <2> QED
      BY <2>1, <2>3 DEF LogsAreOlder
  <1>6. 0 \notin dropped
    BY DEF TypeOK
  <1>7. DroppedApart'
    BY <1>6 DEF DroppedApart
  <1> QED
    BY <1>1, <1>2, <1>4, <1>5, <1>7

LEMMA WriteIInv == IInv /\ Write => IInv'
  <1> SUFFICES ASSUME IInv, Write PROVE IInv'
    OBVIOUS
  <1> USE DEF IInv
  <1>1. /\ \/ handler' = "check" /\ held' = 0 /\ turn' = 0
           \/ handler' = "write" /\ held' = held /\ turn' = turn + 1 /\ turn' \in Slots
        /\ held \in 1 .. made /\ turn \in Slots /\ handler = "write"
    BY NextRecorderFacts DEF Write
  <1>2. /\ made \in Nat /\ made' = made /\ queue' = queue /\ dropped' = dropped
        /\ queue \in Seq(1 .. made)
        /\ turn \in Nat /\ Current \in Names
    BY <1>1, RecorderFacts DEF Write, TypeOK, Current
  <1>3. logs[Current] \in Seq(1 .. made) /\ logs' = [logs EXCEPT ![Current] = Append(logs[Current], held)]
    BY <1>2 DEF Write, TypeOK
  <1>4. Append(logs[Current], held) \in Seq(1 .. made)
    BY <1>1, <1>3
  <1>5. logs' \in [Names -> Seq(1 .. made)]
    BY <1>2, <1>3, <1>4 DEF TypeOK
  <1>6. TypeOK'
    BY <1>1, <1>2, <1>5, RecorderFacts, PipelineAssumption DEF TypeOK, Write
  <1>7. \A k \in Slots : \A i \in DOMAIN logs'[Recorders[k]] :
          \/ i \in DOMAIN logs[Recorders[k]] /\ logs'[Recorders[k]][i] = logs[Recorders[k]][i]
          \/ k = turn /\ logs'[Recorders[k]][i] = held
    <2> SUFFICES ASSUME NEW k \in Slots, NEW i \in DOMAIN logs'[Recorders[k]]
                 PROVE  \/ i \in DOMAIN logs[Recorders[k]] /\ logs'[Recorders[k]][i] = logs[Recorders[k]][i]
                        \/ k = turn /\ logs'[Recorders[k]][i] = held
      OBVIOUS
    <2>1. Recorders[k] \in Names
      BY RecorderFacts
    <2>2. CASE k = turn
      <3>1. logs'[Recorders[k]] = Append(logs[Current], held)
        BY <1>2, <1>3, <2>2 DEF Current, TypeOK
      <3> QED
        BY <1>3, <2>2, <3>1 DEF Current
    <2>3. CASE k # turn
      BY <1>1, <1>3, <2>1, <2>3, RecorderFacts DEF Current, TypeOK
    <2> QED
      BY <2>2, <2>3
  <1>8. HeldWhileWriting' /\ QueueOrdered'
    BY <1>1, <1>2 DEF HeldWhileWriting, QueueOrdered
  <1>9. \A i \in DOMAIN queue : queue[i] \in 1 .. made /\ held < queue[i]
    BY <1>2 DEF HeldIsOldest
  <1>10. HeldIsOldest'
    BY <1>1, <1>2, <1>9 DEF HeldIsOldest
  <1>11. LogsAreOlder'
    <2> SUFFICES ASSUME NEW k \in Slots, NEW i \in DOMAIN logs'[Recorders[k]]
                 PROVE  /\ \A j \in DOMAIN queue : logs'[Recorders[k]][i] < queue[j]
                        /\ handler' = "write" /\ turn' <= k => logs'[Recorders[k]][i] < held'
                        /\ handler' = "write" => logs'[Recorders[k]][i] <= held'
      BY <1>2 DEF LogsAreOlder
    <2>1. CASE i \in DOMAIN logs[Recorders[k]] /\ logs'[Recorders[k]][i] = logs[Recorders[k]][i]
      <3>1. /\ \A j \in DOMAIN queue : logs[Recorders[k]][i] < queue[j]
            /\ turn <= k => logs[Recorders[k]][i] < held
            /\ logs[Recorders[k]][i] <= held
        BY <1>1, <2>1 DEF LogsAreOlder
      <3>2. k \in Nat
        BY RecorderFacts
      <3> QED
        BY <1>1, <1>2, <2>1, <3>1, <3>2
    <2>2. CASE k = turn /\ logs'[Recorders[k]][i] = held
      BY <1>1, <1>2, <1>9, <2>2
    <2> QED
      BY <1>7, <2>1, <2>2
  <1>12. DroppedApart'
    <2>1. held' \notin dropped /\ held \notin dropped
      BY <1>1 DEF DroppedApart, TypeOK
    <2> QED
      BY <1>2, <1>7, <2>1 DEF DroppedApart
  <1> QED
    BY <1>6, <1>8, <1>10, <1>11, <1>12

(* The manager's own operations, the switches and the handler's loop head  *)
(* touch neither records nor logs.                                         *)
LEMMA ControlIInv ==
    ASSUME IInv, Start \/ Stop \/ Close \/ StopRecorder \/ StopRaises \/ Joined \/ Check \/ GetTimeout \/ Switch
    PROVE  IInv'
  <1> USE DEF IInv
  <1>1. /\ UNCHANGED <<made, dropped, queue, logs, held, turn>>
        /\ (handler' = "write") <=> (handler = "write")
    BY DEF Start, Stop, Close, StopRecorder, StopRaises, Closes, Joined, Check, GetTimeout, Switch
  <1>2. TypeOK'
    <2>1. CASE StopRecorder \/ StopRaises
      <3>1. closed' \subseteq Closable \cap WithClient /\ closing' \in 0 .. Len(Recorders)
        BY <2>1, RecorderFacts DEF TypeOK, StopRecorder, StopRaises, Closes
      <3>2. /\ caller' \in {"no", "closing", "joining", "returned"}
            /\ UNCHANGED <<stopped, surplus, handler, enabled, failed>>
        BY <2>1 DEF TypeOK, StopRecorder, StopRaises
      <3> QED BY <1>1, <3>1, <3>2 DEF TypeOK
    <2>2. CASE Stop \/ Close
      <3>1. closing' = 1 /\ 1 \in 0 .. Len(Recorders)
        BY <2>2, RecorderFacts DEF Stop, Close
      <3> QED BY <1>1, <2>2, <3>1 DEF TypeOK, Stop, Close
    <2>3. CASE Start \/ Joined \/ Check \/ GetTimeout \/ Switch
      BY <2>3 DEF TypeOK, Start, Joined, Check, GetTimeout, Switch
    <2> QED BY <2>1, <2>2, <2>3
  <1>3. HeldWhileWriting' /\ QueueOrdered' /\ HeldIsOldest' /\ LogsAreOlder' /\ DroppedApart'
    BY <1>1 DEF HeldWhileWriting, QueueOrdered, HeldIsOldest, LogsAreOlder, DroppedApart
  <1> QED
    BY <1>2, <1>3

LEMMA PassOverIInv ==
    ASSUME IInv, Skip \/ WriteSwallowed \/ WriteRaises
    PROVE  IInv'
  <1> USE DEF IInv
  <1>1. handler = "write" /\ held \in 1 .. made /\ turn \in Slots
    BY DEF Skip, WriteSwallowed, WriteRaises, HeldWhileWriting
  <1>2. \/ handler' = "check" /\ held' = 0 /\ turn' = 0
        \/ handler' = "write" /\ held' = held /\ turn' = turn + 1 /\ turn' \in Slots
    BY NextRecorderFacts DEF Skip, WriteSwallowed, WriteRaises
  <1>3. UNCHANGED <<made, dropped, queue, stopped, surplus, logs, enabled, caller, closing, closed>>
    BY DEF Skip, WriteSwallowed, WriteRaises
  <1>4. failed' \subseteq 1 .. made
    BY <1>1 DEF TypeOK, Skip, WriteSwallowed, WriteRaises
  <1>5. held' \in 0 .. made /\ turn' \in 0 .. Len(Recorders)
    BY <1>1, <1>2, RecorderFacts DEF TypeOK
  <1>6. TypeOK'
    BY <1>2, <1>3, <1>4, <1>5 DEF TypeOK
  <1> QED
    BY <1>1, <1>2, <1>3, <1>6, MoveOnIInv

LEMMA NextIInv == IInv /\ [Next]_vars => IInv'
  <1> SUFFICES ASSUME IInv, [Next]_vars PROVE IInv'
    OBVIOUS
  <1>1. CASE Ping
    BY <1>1, PingIInv
  <1>2. CASE Start \/ Stop \/ Close \/ StopRecorder \/ StopRaises \/ Joined \/ Check \/ GetTimeout \/ Switch
    BY <1>2, ControlIInv
  <1>3. CASE Get
    BY <1>3, GetIInv
  <1>4. CASE Write
    BY <1>4, WriteIInv
  <1>5. CASE Skip \/ WriteSwallowed \/ WriteRaises
    BY <1>5, PassOverIInv
  <1>6. CASE UNCHANGED vars
    BY <1>6 DEF IInv, TypeOK, HeldWhileWriting, QueueOrdered, HeldIsOldest,
                LogsAreOlder, DroppedApart, vars
  <1> QED
    BY <1>1, <1>2, <1>3, <1>4, <1>5, <1>6 DEF Next, HandlerStep

THEOREM Invariance == Spec => []IInv
  BY InitIInv, NextIInv, PTL DEF Spec

(* The record pipeline never leaves its types (RecordManager, ping_handler). *)
THEOREM TypeCorrect == Spec => []TypeOK
  <1>1. IInv => TypeOK
    BY DEF IInv
  <1> QED
    BY <1>1, Invariance, PTL

(* No record is dropped by ping_handler and written all the same, and none *)
(* is taken off the queue twice.                                           *)
THEOREM DroppedOrHandedHolds == Spec => []DroppedOrHanded
  <1>1. IInv => DroppedOrHanded
    <2> SUFFICES ASSUME IInv PROVE DroppedOrHanded
      OBVIOUS
    <2> USE DEF IInv
    <2>1. \A n \in Names : \A i \in DOMAIN logs[n] :
            /\ logs[n][i] \notin dropped
            /\ \A j \in DOMAIN queue : logs[n][i] < queue[j] /\ logs[n][i] \in 1 .. made
      BY RecorderFacts, LogElements DEF DroppedApart, LogsAreOlder
    <2>2. made \in Nat /\ \A j \in DOMAIN queue : queue[j] \in 1 .. made /\ held < queue[j]
      BY DEF TypeOK, HeldIsOldest
    <2>3. held \in Nat
      BY <2>2 DEF TypeOK
    <2>4. InQueue \cap (Handed \cup {held}) = {}
      BY <2>1, <2>2, <2>3 DEF InQueue, Handed, Logged
    <2>5. dropped \cap (InQueue \cup Handed \cup {held}) = {}
      BY <2>1 DEF InQueue, Handed, Logged, DroppedApart
    <2> QED
      BY <2>4, <2>5 DEF DroppedOrHanded
  <1> QED
    BY <1>1, Invariance, PTL

(* The traffic database holds results of pings that were made, in their    *)
(* order and none twice: it implements RecordLog.                          *)
THEOREM LogIsInOrder == Spec => LogInOrder
  <1> DEFINE log == logs[Recorders[1]]
  <1>0. 1 \in Slots /\ Recorders[1] \in Names
    BY RecorderFacts
  <1>1. Init => TrafficDB!Init
    BY <1>0 DEF Init, TrafficDB!Init
  <1>2. IInv /\ [Next]_vars => [TrafficDB!Next]_<<made, log>>
    <2> SUFFICES ASSUME IInv, Next
                 PROVE  TrafficDB!Next \/ UNCHANGED <<made, log>>
      BY DEF vars
    <2>1. CASE Ping
      BY <2>1 DEF Ping, TrafficDB!Next, TrafficDB!Make
    <2>2. CASE Write
      <3>1. CASE turn = 1
        <4>1. handler = "write" /\ held \in 1 .. made /\ made \in Nat
          BY <2>2 DEF Write, IInv, HeldWhileWriting, TypeOK
        <4>2. log' = Append(log, held) /\ made' = made
          BY <1>0, <2>2, <3>1 DEF Write, Current, IInv, TypeOK
        <4>3. log \in Seq(1 .. made)
          BY <1>0 DEF IInv, TypeOK
        <4>4. \A i \in DOMAIN log : log[i] < held
          BY <1>0, <3>1, <4>1 DEF IInv, LogsAreOlder
        <4>5. held \in TrafficDB!Newest + 1 .. made
          <5>1. CASE log = <<>>
            BY <4>1, <5>1 DEF TrafficDB!Newest
          <5>2. CASE log # <<>>
            <6>1. Len(log) \in DOMAIN log
              BY <4>3, <5>2
            <6>2. log[Len(log)] \in 1 .. made
              BY <4>3, <6>1, SeqElement
            <6> QED
              BY <4>1, <4>4, <5>2, <6>1, <6>2 DEF TrafficDB!Newest
          <5> QED
            BY <5>1, <5>2
        <4> QED
          BY <4>2, <4>5 DEF TrafficDB!Next, TrafficDB!Write
      <3>2. CASE turn # 1
        <4>1. turn \in Slots
          BY <2>2 DEF Write, IInv, HeldWhileWriting
        <4>2. Current # Recorders[1] /\ Recorders[1] \in Names
          BY <1>0, <3>2, <4>1, RecorderFacts DEF Current
        <4> QED
          BY <2>2, <4>2 DEF Write, IInv, TypeOK
      <3> QED
        BY <3>1, <3>2
    <2>3. CASE Start \/ Stop \/ Close \/ StopRecorder \/ StopRaises \/ Joined \/ Check \/ Get \/ GetTimeout \/ Switch
      BY <2>3 DEF Start, Stop, Close, StopRecorder, StopRaises, Closes, Joined, Check, Get, GetTimeout, Switch
    <2>4. CASE Skip \/ WriteSwallowed \/ WriteRaises
      BY <2>4 DEF Skip, WriteSwallowed, WriteRaises
    <2> QED
      BY <2>1, <2>2, <2>3, <2>4 DEF Next, HandlerStep
  <1> QED
    BY <1>1, <1>2, Invariance, PTL DEF Spec, LogInOrder, TrafficDB!Spec

----------------------------------------------------------------------------
(* A recorder with a healthy back end.                                     *)
Healthy == WithClient \ Faulty

(* What is gone after the record's steps other than the end of its turn.   *)
LEMMA GoneBefore ==
    ASSUME IInv, Next, handler = "write" => held' = held, NEW r \in 1 .. made', Gone(r)'
    PROVE  r \in 1 .. made /\ Gone(r)
  <1> USE DEF IInv, Gone, InQueue
  <1>1. made \in Nat /\ queue \in Seq(1 .. made)
    BY PipelineAssumption DEF TypeOK
  <1>2. CASE Ping
    <2>1. made' = made + 1 /\ held' = held
      BY <1>1, <1>2 DEF Ping
    <2>2. CASE Len(queue) < QueueSize
      <3>1. queue' = Append(queue, made + 1) /\ dropped' = dropped
        BY <1>1, <1>2, <2>2 DEF Ping
      <3>2. Len(queue) + 1 \in DOMAIN queue' /\ queue'[Len(queue) + 1] = made + 1
        BY <1>1, <3>1
      <3>3. \A i \in DOMAIN queue : i \in DOMAIN queue' /\ queue'[i] = queue[i]
        BY <1>1, <3>1
      <3> QED BY <1>1, <2>1, <3>1, <3>2, <3>3
    <2>3. CASE ~(Len(queue) < QueueSize)
      <3>1. queue' = queue /\ dropped' = dropped \cup {made + 1}
        BY <1>1, <1>2, <2>3 DEF Ping
      <3> QED BY <1>1, <2>1, <3>1
    <2> QED BY <2>2, <2>3
  <1>3. CASE Get
    <2>1. /\ held = 0 /\ held' = queue[1] /\ queue' = Tail(queue) /\ queue # <<>>
          /\ made' = made /\ dropped' = dropped
      BY <1>1, <1>3 DEF Get, HeldWhileWriting
    <2>2. \A i \in DOMAIN queue : i = 1 \/ (i - 1 \in DOMAIN queue' /\ queue'[i - 1] = queue[i])
      BY <1>1, <2>1
    <2>3. queue[1] \in 1 .. made /\ r \in 1 .. made
      BY <1>1, <2>1
    <2>4. r # 0 /\ r # queue[1] /\ r \notin dropped
      BY <2>1, <2>3
    <2>5. \A i \in DOMAIN queue : queue[i] # r
      <3> SUFFICES ASSUME NEW i \in DOMAIN queue, queue[i] = r PROVE FALSE
        OBVIOUS
      <3>1. i - 1 \in DOMAIN queue' /\ queue'[i - 1] = r
        BY <2>2, <2>4
      <3>2. \A j \in DOMAIN queue' : queue'[j] # r
        OBVIOUS
      <3> QED BY <3>1, <3>2
    <2> QED BY <2>1, <2>3, <2>4, <2>5
  <1>4. CASE ~Ping /\ ~Get
    <2>1. UNCHANGED <<made, dropped, queue>>
      BY <1>4 DEF Next, HandlerStep, Start, Stop, Close, StopRecorder, StopRaises, Joined, Check, GetTimeout, Skip,
                  Write, WriteSwallowed, WriteRaises, Switch
    <2>2. held' = held
      BY <1>4 DEF Next, HandlerStep, Start, Stop, Close, StopRecorder, StopRaises, Joined, Check, GetTimeout, Skip,
                  Write, WriteSwallowed, WriteRaises, Switch
    <2> QED BY <2>1, <2>2
  <1> QED BY <1>2, <1>3, <1>4

(* What is gone is older than all that waits and than the held record.     *)
GoneIsOlder ==
    \A r \in 1 .. made : Gone(r) =>
      /\ \A j \in DOMAIN queue : r < queue[j]
      /\ handler = "write" => r < held

LEMMA GoneIsOlderStep == IInv /\ GoneIsOlder /\ [Next]_vars => GoneIsOlder'
  <1> SUFFICES ASSUME IInv, GoneIsOlder, [Next]_vars PROVE GoneIsOlder'
    OBVIOUS
  <1> USE DEF IInv
  <1>0. made \in Nat /\ queue \in Seq(1 .. made)
    BY PipelineAssumption DEF TypeOK
  <1>1. CASE UNCHANGED vars
    BY <1>1 DEF vars, GoneIsOlder, Gone, InQueue
  <1>2. CASE Next /\ (handler = "write" => held' = held)
    <2> SUFFICES ASSUME NEW r \in 1 .. made', Gone(r)'
                 PROVE  /\ \A j \in DOMAIN queue' : r < queue'[j]
                        /\ handler' = "write" => r < held'
      BY DEF GoneIsOlder
    <2>1. r \in 1 .. made /\ Gone(r)
      BY <1>2, GoneBefore
    <2>2. (\A j \in DOMAIN queue : r < queue[j]) /\ (handler = "write" => r < held)
      BY <2>1 DEF GoneIsOlder
    <2>3. CASE Ping
      <3>0. queue' = queue \/ queue' = Append(queue, made + 1)
        BY <1>0, <2>3 DEF Ping
      <3>1. \A j \in DOMAIN queue' : (j \in DOMAIN queue /\ queue'[j] = queue[j]) \/ queue'[j] = made + 1
        BY <1>0, <3>0
      <3>2. handler' = handler /\ held' = held
        BY <2>3 DEF Ping
      <3> QED BY <1>0, <2>1, <2>2, <3>1, <3>2
    <2>4. CASE Get
      <3>1. /\ 1 \in DOMAIN queue /\ held' = queue[1] /\ queue' = Tail(queue)
            /\ \A j \in DOMAIN queue' : j + 1 \in DOMAIN queue /\ queue'[j] = queue[j + 1]
        BY <1>0, <2>4 DEF Get
      <3> QED BY <2>2, <3>1
    <2>5. CASE ~Ping /\ ~Get
      <3>1. queue' = queue /\ (handler' = "write" => handler = "write")
        BY <1>2, <2>5 DEF Next, HandlerStep, Start, Stop, Close, StopRecorder, StopRaises, Joined,
              Check, GetTimeout, Skip, Write, WriteSwallowed, WriteRaises, Switch
      <3> QED BY <1>2, <2>2, <3>1
    <2> QED BY <2>3, <2>4, <2>5
  <1>3. CASE Next /\ handler = "write" /\ held' # held
    <2>1. Skip \/ Write \/ WriteSwallowed \/ WriteRaises
      BY <1>3 DEF Next, HandlerStep, Ping, Start, Stop, Close, StopRecorder, StopRaises, Joined,
            Check, Get, GetTimeout, Switch
    <2>2. UNCHANGED <<made, dropped, queue>> /\ handler' = "check"
      BY <1>3, <2>1, NextRecorderFacts DEF Skip, Write, WriteSwallowed, WriteRaises
    <2>3. \A r \in 1 .. made : Gone(r)' => Gone(r) \/ r = held
      BY <2>2 DEF Gone, InQueue
    <2> QED BY <2>2, <2>3 DEF GoneIsOlder, HeldIsOldest
  <1> QED BY <1>1, <1>2, <1>3 DEF vars

(* Logs and the failures noted only grow, and no client is opened again. *)
LEMMA LogGrows ==
    ASSUME IInv, [Next]_vars, NEW n \in Names
    PROVE  /\ Logged(n) \subseteq Logged(n)' /\ failed \subseteq failed'
           /\ closed \subseteq closed' /\ (MayCut(n) => MayCut(n)')
           /\ Write /\ Current = n => held \in Logged(n)'
  <1> USE DEF IInv
  <1>1a. failed \subseteq failed' /\ closed \subseteq closed'
    BY DEF vars, Next, HandlerStep, Ping, Start, Stop, Close, StopRecorder, StopRaises, Joined, Check, Get, GetTimeout,
           Skip, Write, WriteSwallowed, WriteRaises, Switch
  <1>1. failed \subseteq failed' /\ closed \subseteq closed' /\ (MayCut(n) => MayCut(n)')
    BY <1>1a DEF MayCut, MayFail
  <1>2. CASE Write
    <2>1. Current \in Names
      BY <1>2, RecorderFacts DEF Write, Current, HeldWhileWriting
    <2>2. logs[n] \in Seq(1 .. made)
      BY DEF TypeOK
    <2>3. logs'[n] = IF n = Current THEN Append(logs[n], held) ELSE logs[n]
      BY <1>2, <2>1 DEF Write, TypeOK
    <2>4. \A i \in DOMAIN logs[n] : i \in DOMAIN logs'[n] /\ logs'[n][i] = logs[n][i]
      BY <2>2, <2>3
    <2>5. n = Current => Len(logs[n]) + 1 \in DOMAIN logs'[n] /\ logs'[n][Len(logs[n]) + 1] = held
      BY <2>2, <2>3
    <2> QED BY <1>1, <2>4, <2>5 DEF Logged
  <1>3. CASE ~Write
    <2>1. logs' = logs
      BY <1>3 DEF vars, Next, HandlerStep, Ping, Start, Stop, Close, StopRecorder, StopRaises, Joined, Check, Get, GetTimeout,
             Skip, WriteSwallowed, WriteRaises, Switch
    <2> QED BY <1>1, <1>3, <2>1 DEF Logged
  <1> QED BY <1>2, <1>3

(* What recorder n of slot k has been served: a record that is gone it has *)
(* written, or a recorder before it raised, or its client was closed; then *)
(* the handler, unless started again, is about to end and no later record  *)
(* is gone.  The held record it has written if its turn is over.           *)
Ending(r) ==
    /\ stopped /\ handler \in {"check", "dead"}
    /\ \A q \in r + 1 .. made : ~Gone(q)

Served(n, k) ==
    /\ enabled[n]
    /\ \A r \in Missed(n) : n \in closed /\ (again \/ Ending(r))
    /\ handler = "write" /\ k < turn => held \in Logged(n) \/ n \in closed

ServedInv ==
    /\ OnClosed => again
    /\ GoneIsOlder
    /\ \A k \in Slots : Recorders[k] \in Healthy \ off => Served(Recorders[k], k)

(* A step of the manager after which recorder n still has been served: the *)
(* records missed before are so on, and the only new one is the record the *)
(* handler lets go of.                                                     *)
LEMMA ServedStep ==
    ASSUME IInv, MCNext, OnClosed => again, GoneIsOlder,
           NEW k \in Slots, NEW n, n = Recorders[k], n \in Healthy,
           Served(n, k), enabled'[n]
    PROVE  Served(n, k)'
  <1> USE DEF IInv
  <1>0. Next /\ (again => again') /\ (OnClosed' => again')
    BY DEF MCNext
  <1>1. /\ n \in Names /\ enabled[n] /\ k \in Nat
        /\ n \in WithClient \ Faulty
        /\ made \in Nat /\ held \in 0 .. made
        /\ Logged(n) \subseteq Logged(n)' /\ failed \subseteq failed'
        /\ closed \subseteq closed' /\ (MayCut(n) => MayCut(n)')
    <2>1. n \in Names /\ k \in Nat
      BY RecorderFacts
    <2>2. made \in Nat /\ held \in 0 .. made
      BY PipelineAssumption DEF TypeOK
    <2> QED BY <1>0, <2>1, <2>2, LogGrows DEF Served, Healthy
  <1>2. CASE ~(handler = "write" /\ held' # held)
    <2>1. \A r \in Missed(n)' : r \in Missed(n)
      BY <1>0, <1>1, <1>2, GoneBefore DEF Missed
    <2>2. ASSUME NEW r \in Missed(n)', ~again' PROVE Ending(r)'
      <3>1. n \in closed /\ Ending(r) /\ stopped'
        BY <1>0, <1>1, <2>1, <2>2 DEF Served, OnClosed
      <3>2. handler' \in {"check", "dead"}
        BY <1>0, <3>1 DEF Ending, Next, HandlerStep, Ping, Start, Stop, Close, StopRecorder,
              StopRaises, Joined, Check, Get, GetTimeout, Skip, Write, WriteSwallowed, WriteRaises, Switch
      <3>3. ASSUME NEW q \in r + 1 .. made', Gone(q)' PROVE FALSE
        <4>1. r \in Nat /\ made' \in Nat
          BY <1>1, <1>0 DEF Missed, Next, HandlerStep, Ping, Start, Stop, Close, StopRecorder,
              StopRaises, Joined, Check, Get, GetTimeout, Skip, Write, WriteSwallowed, WriteRaises, Switch
        <4>2. q \in 1 .. made'
          BY <4>1, <3>3
        <4>3. q \in 1 .. made /\ Gone(q)
          BY <1>0, <1>2, <3>3, <4>2, GoneBefore
        <4> QED BY <3>1, <4>1, <4>3 DEF Ending
      <3> QED BY <3>1, <3>2, <3>3 DEF Ending
    <2>3. \A r \in Missed(n)' : n \in closed' /\ (again' \/ Ending(r)')
      BY <1>1, <2>1, <2>2 DEF Served
    <2>4. handler' = "write" /\ k < turn' => held' \in Logged(n)' \/ n \in closed'
      <3>1. CASE Get
        <4>1. turn' = 1 /\ k # 0
          BY <3>1, RecorderFacts DEF Get
        <4> QED BY <1>1, <4>1
      <3>2. CASE Skip \/ Write \/ WriteSwallowed \/ WriteRaises
        <4>1. /\ handler = "write" /\ held' = held /\ turn \in Nat
              /\ handler' = "write" => turn' = turn + 1
          BY <1>2, <3>2, RecorderFacts, NextRecorderFacts
             DEF Skip, Write, WriteSwallowed, WriteRaises, HeldWhileWriting
        <4>2. k = turn => (Write /\ Current = n) \/ n \in closed
          BY <1>1, <3>2 DEF Skip, WriteSwallowed, WriteRaises, Current, MayFail
        <4>3. k = turn => held \in Logged(n)' \/ n \in closed'
          BY <1>0, <1>1, <4>2, LogGrows
        <4>4. k < turn => held \in Logged(n)' \/ n \in closed'
          BY <1>1, <4>1 DEF Served
        <4> QED BY <1>1, <4>1, <4>3, <4>4
      <3>3. CASE ~Get /\ ~(Skip \/ Write \/ WriteSwallowed \/ WriteRaises)
        <4>1. held' = held /\ turn' = turn /\ (handler' = "write" => handler = "write")
          BY <1>0, <3>3 DEF Next, HandlerStep, Ping, Start, Stop, Close, StopRecorder,
              StopRaises, Joined, Check, GetTimeout, Switch
        <4> QED BY <1>1, <4>1 DEF Served
      <3> QED BY <3>1, <3>2, <3>3
    <2> QED BY <2>3, <2>4 DEF Served
  <1>3. CASE handler = "write" /\ held' # held
    <2>1. Skip \/ Write \/ WriteSwallowed \/ WriteRaises
      BY <1>0, <1>3 DEF Next, HandlerStep, Ping, Start, Stop, Close, StopRecorder, StopRaises, Joined,
            Check, Get, GetTimeout, Switch
    <2>2. /\ UNCHANGED <<made, dropped, queue, stopped, closed, closing>> /\ handler' = "check"
          /\ held' = 0 /\ held \in 1 .. made /\ turn \in Slots /\ turn \in Nat
          /\ ~WriteRaises => turn = Len(Recorders)
      <3>1. UNCHANGED <<made, dropped, queue, stopped, closed, closing>> /\ held \in 1 .. made /\ turn \in Slots
        BY <1>3, <2>1 DEF Skip, Write, WriteSwallowed, WriteRaises, HeldWhileWriting
      <3>2. handler' = "check" /\ held' = 0 /\ (~WriteRaises => turn = Len(Recorders))
        BY <1>3, <2>1 DEF Skip, Write, WriteSwallowed, WriteRaises, NextRecorder
      <3> QED BY <3>1, <3>2, RecorderFacts
    <2>3. k <= turn => held \in Logged(n)' \/ n \in closed
      <3>1. k = turn => (Write /\ Current = n) \/ n \in closed
        BY <1>1, <2>1 DEF Skip, WriteSwallowed, WriteRaises, Current, MayFail
      <3>2. k = turn => held \in Logged(n)' \/ n \in closed
        BY <1>0, <1>1, <3>1, LogGrows
      <3>3. k < turn => held \in Logged(n)' \/ n \in closed
        BY <1>1, <1>3 DEF Served
      <3> QED BY <1>1, <2>2, <3>2, <3>3
    <2>4. turn < k => MayCut(n)' /\ held \in failed'
      <3>1. k <= Len(Recorders)
        BY RecorderFacts
      <3>2. turn < k => WriteRaises
        BY <1>1, <2>2, <3>1
      <3>3. turn < k => MayCut(n)
        BY <3>2, <2>2, RecorderFacts DEF WriteRaises, MayCut, Current, Slots
      <3> QED BY <1>1, <3>2, <3>3 DEF WriteRaises
    <2>5. held \in Missed(n)' => n \in closed
      BY <1>1, <2>2, <2>3, <2>4 DEF Missed
    <2>6. \A r \in Missed(n)' : r \in Missed(n) \/ r = held
      <3>1. \A r \in 1 .. made : Gone(r)' => Gone(r) \/ r = held
        BY <2>2 DEF Gone, InQueue
      <3> QED BY <1>1, <2>2, <3>1 DEF Missed
    <2>7. \A r \in Missed(n)' : n \in closed' /\ (again' \/ Ending(r)')
      <3> SUFFICES ASSUME NEW r \in Missed(n)' PROVE n \in closed' /\ (again' \/ Ending(r)')
        OBVIOUS
      <3>1. CASE r \in Missed(n)
        BY <1>0, <1>3, <2>2, <3>1 DEF Served, Ending
      <3>2. CASE r = held
        <4>1. n \in closed' /\ (again' \/ stopped')
          BY <1>0, <2>2, <2>5, <3>2 DEF OnClosed
        <4>2. ASSUME NEW q \in held + 1 .. made, Gone(q)' PROVE FALSE
          <5>1. q \in 1 .. made /\ q # held /\ held < q
            BY <2>2, <4>2, <1>1
          <5>2. Gone(q)
            BY <2>2, <4>2, <5>1 DEF Gone, InQueue
          <5>3. q < held
            BY <1>3, <5>1, <5>2 DEF GoneIsOlder
          <5> QED BY <1>1, <5>1, <5>3
        <4> QED BY <2>2, <3>2, <4>1, <4>2 DEF Ending
      <3> QED BY <2>6, <3>1, <3>2
    <2> QED BY <2>2, <2>7 DEF Served
  <1> QED BY <1>2, <1>3

LEMMA ServedInit == MCInit => ServedInv
  <1> SUFFICES ASSUME MCInit PROVE ServedInv
    OBVIOUS
  <1>1. handler # "write" /\ 1 .. made = {} /\ stopped
    BY DEF MCInit, Init
  <1>2. \A k \in Slots : Recorders[k] \in Healthy => Served(Recorders[k], k)
    <2> SUFFICES ASSUME NEW k \in Slots, Recorders[k] \in Healthy PROVE Served(Recorders[k], k)
      OBVIOUS
    <2>1. Recorders[k] \in Names /\ enabled[Recorders[k]]
      BY RecorderFacts DEF MCInit, Init, Healthy
    <2> QED BY <1>1, <2>1 DEF Served, Missed
  <1> QED BY <1>1, <1>2 DEF ServedInv, GoneIsOlder, OnClosed

(* EveryRecorderServedHolds: for every list of recorders, a healthy one    *)
(* that was never off has written each record the queue took, except those *)
(* on which a recorder before it raised (recorder.py:147-152) and, where   *)
(* stop() closed its client under the handler, the one then in hand; more  *)
(* only after a start that finds the client closed.                        *)
THEOREM EveryRecorderServedHolds == MCSpec => []EveryRecorderServed
  <1>1. MCInit => IInv /\ ServedInv
    BY InitIInv, ServedInit DEF MCInit
  <1>2. IInv /\ [MCNext]_<<vars, off, again>> => IInv'
    BY NextIInv DEF MCNext, vars
  <1>3. IInv /\ ServedInv /\ [MCNext]_<<vars, off, again>> => ServedInv'
    <2> SUFFICES ASSUME IInv, ServedInv, [MCNext]_<<vars, off, again>> PROVE ServedInv'
      OBVIOUS
    <2>1. CASE MCNext
      <3>0. (OnClosed' => again') /\ GoneIsOlder'
        BY <2>1, GoneIsOlderStep DEF MCNext, ServedInv
      <3> SUFFICES ASSUME NEW k \in Slots, Recorders[k] \in Healthy \ off'
                   PROVE  Served(Recorders[k], k)'
        BY <3>0 DEF ServedInv, Slots, Healthy
      <3>1. Recorders[k] \in Names
        BY RecorderFacts
      <3>2. Recorders[k] \notin off /\ enabled'[Recorders[k]]
        BY <2>1, <3>1 DEF MCNext, Off
      <3>3. Served(Recorders[k], k) /\ (OnClosed => again) /\ GoneIsOlder
        BY <3>2 DEF ServedInv
      <3>4. ASSUME NEW n, n = Recorders[k] PROVE Served(n, k)'
        BY <2>1, <3>2, <3>3, <3>4, ServedStep
      <3> QED BY <3>4 DEF Served, Missed, Logged, MayCut
    <2>2. CASE UNCHANGED <<vars, off, again>>
      <3>1. UNCHANGED <<made, dropped, queue, stopped, handler, held, turn, logs, enabled, failed,
                        closing, closed, off, again>>
        BY <2>2 DEF vars
      <3>2. (OnClosed' => again') /\ GoneIsOlder'
        BY <3>1 DEF ServedInv, OnClosed, GoneIsOlder, Gone, InQueue
      <3>3. \A n \in Names : (Missed(n)' = Missed(n)) /\ (Logged(n)' = Logged(n))
        BY <3>1 DEF Missed, Gone, InQueue, Logged, MayCut, MayFail
      <3>4. \A r : Ending(r) => Ending(r)'
        BY <3>1 DEF Ending, Gone, InQueue
      <3>5. ASSUME NEW k \in Slots, Recorders[k] \in Healthy \ off, NEW n, n = Recorders[k]
            PROVE  Served(n, k)'
        <4>1. Served(n, k) /\ n \in Names
          BY <3>5, RecorderFacts DEF ServedInv
        <4> QED BY <3>1, <3>3, <3>4, <4>1 DEF Served
      <3>6. ASSUME NEW k \in Slots, Recorders[k] \in (Healthy \ off)' PROVE Served(Recorders[k], k)'
        <4>1. Recorders[k] \in Healthy \ off
          BY <3>1, <3>6 DEF Healthy
        <4>2. ASSUME NEW n, n = Recorders[k] PROVE Served(n, k)'
          BY <3>5, <4>1, <4>2
        <4> QED BY <4>2 DEF Served, Missed, Logged, MayCut
      <3> QED BY <3>2, <3>6 DEF ServedInv, Slots, Healthy
    <2> QED BY <2>1, <2>2
  <1>4. ServedInv => EveryRecorderServed
    <2> SUFFICES ASSUME ServedInv, NEW n \in Healthy \ off, NEW r \in Missed(n)
                 PROVE  n \in closed /\ (again \/ \A q \in r + 1 .. made : ~Gone(q))
      BY DEF EveryRecorderServed, Healthy
    <2>1. PICK k \in Slots : n = Recorders[k]
      BY PipelineAssumption DEF Healthy, Slots
    <2> QED BY <2>1 DEF ServedInv, Served, Ending
  <1> QED BY <1>1, <1>2, <1>3, <1>4, PTL DEF MCSpec
=============================================================================
