-------------------------- MODULE IperfJobs_proofs --------------------------
(***************************************************************************)
(* Proofs about IperfJobs, for any number of scripts, of ports and of      *)
(* draws.                                                                  *)
(***************************************************************************)
EXTENDS IperfJobs, FiniteSetTheorems, TLAPS

USE IperfAssumption

(* The scripts that have yet to draw a job id.                             *)
Waiting == {s \in Scripts : At(s) \in {"port", "look", "probe", "client", "number"}}

(* A script has a port from the answer of its request for one on, and a    *)
(* job id from the moment it counts one up.                                *)
Known ==
    /\ \A s \in Scripts : script[s].port = None <=> At(s) \in {"idle", "port"}
    /\ \A s \in Scripts : At(s) = "put" => jobId > 0
    /\ jobId + Cardinality(Waiting) <= MaxJobs

(* Served: the script believes in its server.                              *)
Served == {"client", "number", "put", "poll", "kill"}

(* A port nothing has hurt: one user, whose server and whose handle are    *)
(* the only ones.                                                          *)
PortInv(p) ==
    /\ \A s \in Users(p) : \A t \in Users(p) : s = t
    /\ \A t \in Scripts : server[t].port = p => t \in Users(p) /\ At(t) \in Served \cup {"probe"}
    /\ handles[p] # None =>
         handles[p] \in Users(p) /\ At(handles[p]) \in Served \cup {"pop"}
    /\ \A s \in Users(p) : At(s) \in Served =>
         server[s].at = "listening" /\ server[s].port = p /\ handles[p] = s

PortsInv == \A p \in Ports \ hurt : PortInv(p)

(* The job ids of clients that were started one after the other: at most   *)
(* one script between its id and its entry, which nobody has yet, and      *)
(* every script that knows a job with an entry of its own.                 *)
Holds == {"poll", "kill", "pop", "stop"}
JobsInv ==
    ~raced =>
      /\ \A s, t \in Scripts :
           At(s) \in {"number", "put"} /\ At(t) \in {"number", "put"} => s = t
      /\ \A s, t \in Scripts :
           At(s) = "put" /\ At(t) \in Holds => script[t].job # jobId
      /\ \A s \in Scripts : At(s) \in Holds /\ script[s].job # 0 =>
           script[s].job \in JobIds /\ script[s].job <= jobId /\ jobs[script[s].job] = s
      /\ \A s \in Scripts : At(s) = "poll" => script[s].job # 0

IInv == TypeOK /\ Known

(* Fewer scripts that wait for an id are not more.                         *)
LEMMA WaitingType == IsFiniteSet(Waiting) /\ Cardinality(Waiting) \in Nat
<1>1. Waiting \subseteq Scripts
  BY DEF Waiting
<1> QED BY <1>1, FS_Subset, FS_CardinalityType

(* If none joins them, their number does not grow. *)
LEMMA FewerWait ==
    ASSUME Waiting' \subseteq Waiting
    PROVE  Cardinality(Waiting') \in Nat /\ Cardinality(Waiting') <= Cardinality(Waiting)
BY WaitingType, FS_Subset, FS_CardinalityType

(* One script's step: its new place, and the others where they were.       *)
Moves(s, r) ==
    /\ r \in Script
    /\ script' \in [Scripts -> Script]
    /\ script'[s] = r
    /\ \A t \in Scripts \ {s} : script'[t] = script[t]

(* Setting one record is such a step, *)
LEMMA OneMoves ==
    ASSUME script \in [Scripts -> Script], NEW s \in Scripts, NEW r \in Script,
           script' = [script EXCEPT ![s] = r]
    PROVE  Moves(s, r)
BY DEF Moves

Ats == {"idle", "port", "look", "probe", "client", "number", "put",
        "poll", "kill", "pop", "stop"}

(* so are Goto, *)
LEMMA GotoMoves ==
    ASSUME script \in [Scripts -> Script], NEW s \in Scripts, NEW at \in Ats, Goto(s, at)
    PROVE  Moves(s, [script[s] EXCEPT !.at = at])
<1>1. [script[s] EXCEPT !.at = at] \in Script
  BY DEF Script, Ats
<1> QED BY <1>1, OneMoves DEF Goto

(* Done, *)
LEMMA DoneMoves ==
    ASSUME script \in [Scripts -> Script], NEW s \in Scripts, Done(s)
    PROVE  Moves(s, Idle)
<1>1. Idle \in Script
  BY DEF Script, Idle
<1> QED BY <1>1, OneMoves DEF Done

(* and Use. *)
LEMMA UseMoves ==
    ASSUME script \in [Scripts -> Script], NEW s \in Scripts, NEW p \in Ports, Use(s, p)
    PROVE  Moves(s, [script[s] EXCEPT !.at = "look", !.port = p])
<1>1. [script[s] EXCEPT !.at = "look", !.port = p] \in Script
  BY DEF Script
<1>2. script' = [script EXCEPT ![s] = [script[s] EXCEPT !.at = "look", !.port = p]]
  BY <1>1 DEF Use, Script
<1> QED BY <1>1, <1>2, OneMoves

(* What a script becomes is a script. *)
LEMMA ScriptValues ==
    ASSUME NEW r \in Script
    PROVE  /\ [r EXCEPT !.at = "probe", !.tries = 3] \in Script
           /\ [r EXCEPT !.at = "client", !.tries = 0] \in Script
           /\ r.tries > 1 => [r EXCEPT !.tries = @ - 1] \in Script
           /\ \A j \in 0 .. MaxJobs : [r EXCEPT !.at = "poll", !.job = j] \in Script
           /\ [r EXCEPT !.at = "kill", !.job = 0] \in Script
<1>1. ASSUME NEW n \in 0 .. 3 PROVE [r EXCEPT !.at = "probe", !.tries = n] \in Script
  BY DEF Script
<1>2. ASSUME NEW n \in 0 .. 3 PROVE [r EXCEPT !.at = "client", !.tries = n] \in Script
  BY DEF Script
<1>3. ASSUME r.tries > 1 PROVE [r EXCEPT !.tries = @ - 1] \in Script
  <2>1. r.tries - 1 \in 0 .. 3
    BY <1>3 DEF Script
  <2>2. \A n \in 0 .. 3 : [r EXCEPT !.tries = n] \in Script
    BY DEF Script
  <2> QED BY <2>1, <2>2
<1>4. ASSUME NEW j \in 0 .. MaxJobs PROVE [r EXCEPT !.at = "poll", !.job = j] \in Script
  BY DEF Script
<1>5. 0 \in 0 .. 3 /\ 3 \in 0 .. 3 /\ 0 \in 0 .. MaxJobs
  OBVIOUS
<1>6. ASSUME NEW j \in 0 .. MaxJobs PROVE [r EXCEPT !.at = "kill", !.job = j] \in Script
  BY DEF Script
<1> QED BY <1>1, <1>2, <1>3, <1>4, <1>5, <1>6

(***************************************************************************)
(* What every step does to the scripts, in one list.                       *)
(***************************************************************************)
Moved(s) ==
    \/ At(s) = "idle" /\ Moves(s, [script[s] EXCEPT !.at = "port"])
    \/ /\ At(s) = "port"
       /\ \E p \in Ports : Moves(s, [script[s] EXCEPT !.at = "look", !.port = p])
    \/ At(s) = "look" /\ Moves(s, [script[s] EXCEPT !.at = "client"])
    \/ At(s) = "look" /\ Moves(s, [script[s] EXCEPT !.at = "probe", !.tries = 3])
    \/ At(s) = "probe" /\ Moves(s, [script[s] EXCEPT !.at = "client", !.tries = 0])
    \/ At(s) = "probe" /\ script[s].tries > 1 /\ Moves(s, [script[s] EXCEPT !.tries = @ - 1])
    \/ At(s) = "client" /\ Moves(s, [script[s] EXCEPT !.at = "number"])
    \/ At(s) = "number" /\ Moves(s, [script[s] EXCEPT !.at = "put"])
    \/ At(s) = "put" /\ Moves(s, [script[s] EXCEPT !.at = "poll", !.job = jobId])
    \/ At(s) = "poll" /\ Moves(s, [script[s] EXCEPT !.at = "kill"])
    \/ At(s) = "kill" /\ Moves(s, [script[s] EXCEPT !.at = "stop"])
    \/ At(s) = "kill" /\ Moves(s, [script[s] EXCEPT !.at = "pop"])
    \/ At(s) = "pop" /\ Moves(s, [script[s] EXCEPT !.at = "stop"])
    \/ At(s) \in {"client", "poll"} /\ Moves(s, [script[s] EXCEPT !.at = "kill", !.job = 0])
    \/ /\ At(s) \in {"port", "look", "probe", "client", "kill", "pop", "stop", "poll"}
       /\ Moves(s, Idle)

(* Every action is in that list, or leaves the scripts alone. *)
LEMMA StepMoves ==
    ASSUME IInv, NEW s \in Scripts,
           Begin(s) \/ Step(s) \/ Listen(s) \/ ClientEnds(s) \/ CallFails(s) \/ Die(s)
    PROVE  Moved(s) \/ UNCHANGED script
<1> USE DEF IInv, TypeOK, Ats
<1>0. script[s] \in Script /\ jobId \in 0 .. MaxJobs
  OBVIOUS
<1>1. CASE Begin(s)
  BY <1>1, GotoMoves DEF Begin, Moved
<1>2. CASE GivenPort(s)
  <2>1. given[s] \in Ports
    BY <1>2 DEF GivenPort
  <2> QED BY <1>2, <2>1, UseMoves DEF GivenPort, Moved
<1>3. CASE Draw(s)
  <2>1. CASE UNCHANGED script
    BY <2>1
  <2>2. CASE \E p \in Ports : Use(s, p)
    BY <1>3, <2>2, UseMoves DEF Draw, Moved
  <2> QED BY <1>3, <2>1, <2>2 DEF Draw
<1>4. CASE NoDraw(s)
  BY <1>4, DoneMoves DEF NoDraw, Moved
<1>5. CASE Look(s)
  <2>1. [script[s] EXCEPT !.at = "probe", !.tries = 3] \in Script
    BY <1>0, ScriptValues
  <2>2. CASE Goto(s, "client")
    BY <1>5, <2>2, GotoMoves DEF Look, Moved
  <2>3. CASE script' = [script EXCEPT ![s].at = "probe", ![s].tries = 3]
    <3>1. script' = [script EXCEPT ![s] = [script[s] EXCEPT !.at = "probe", !.tries = 3]]
      BY <2>3 DEF Script
    <3> QED BY <1>5, <2>1, <3>1, OneMoves DEF Look, Moved
  <2> QED BY <1>5, <2>2, <2>3 DEF Look
<1>6. CASE Probe(s)
  <2>1. [script[s] EXCEPT !.at = "client", !.tries = 0] \in Script
    BY <1>0, ScriptValues
  <2>2. script' = [script EXCEPT ![s] = [script[s] EXCEPT !.at = "client", !.tries = 0]]
    BY <1>6 DEF Probe, Script
  <2> QED BY <1>6, <2>1, <2>2, OneMoves DEF Probe, Moved
<1>7. CASE ProbeAgain(s)
  <2>1. CASE Done(s)
    BY <1>7, <2>1, DoneMoves DEF ProbeAgain, Moved
  <2>2. CASE script[s].tries > 1 /\ script' = [script EXCEPT ![s].tries = @ - 1]
    <3>1. [script[s] EXCEPT !.tries = @ - 1] \in Script
      BY <1>0, <2>2, ScriptValues
    <3>2. script' = [script EXCEPT ![s] = [script[s] EXCEPT !.tries = @ - 1]]
      BY <2>2
    <3> QED BY <1>7, <2>2, <3>1, <3>2, OneMoves DEF ProbeAgain, Moved
  <2> QED BY <1>7, <2>1, <2>2 DEF ProbeAgain
<1>8. CASE StartClient(s)
  BY <1>8, GotoMoves DEF StartClient, Moved
<1>9. CASE NextId(s)
  BY <1>9, GotoMoves DEF NextId, Moved
<1>10. CASE PutJob(s)
  <2>1. [script[s] EXCEPT !.at = "poll", !.job = jobId] \in Script
    BY <1>0, ScriptValues
  <2>2. script' = [script EXCEPT ![s] = [script[s] EXCEPT !.at = "poll", !.job = jobId]]
    BY <1>10 DEF PutJob, Script
  <2> QED BY <1>10, <2>1, <2>2, OneMoves DEF PutJob, Moved
<1>11. CASE Poll(s)
  BY <1>11, GotoMoves DEF Poll, Moved
<1>12. CASE Kill(s)
  BY <1>12, GotoMoves DEF Kill, Moved
<1>13. CASE Pop(s)
  BY <1>13, GotoMoves, DoneMoves DEF Pop, Moved
<1>14. CASE StopClient(s)
  BY <1>14, DoneMoves DEF StopClient, Moved
<1>15. CASE Die(s)
  BY <1>15, DoneMoves DEF Die, Moved
<1>16. CASE Listen(s) \/ ClientEnds(s)
  BY <1>16 DEF Listen, ClientEnds
<1>17. CASE CallFails(s)
  <2>1. CASE Done(s)
    BY <1>17, <2>1, DoneMoves DEF CallFails, Moved
  <2>2. CASE At(s) = "poll" /\ Goto(s, "kill")
    BY <2>2, GotoMoves DEF Moved
  <2>3. CASE /\ At(s) \in {"client", "poll"}
             /\ script' = [script EXCEPT ![s].at = "kill", ![s].job = 0]
    <3>1. [script[s] EXCEPT !.at = "kill", !.job = 0] \in Script
      BY <1>0, ScriptValues
    <3>2. script' = [script EXCEPT ![s] = [script[s] EXCEPT !.at = "kill", !.job = 0]]
      BY <2>3 DEF Script
    <3> QED BY <2>3, <3>1, <3>2, OneMoves DEF Moved
  <2> QED BY <1>17, <2>1, <2>2, <2>3 DEF CallFails
<1> QED
  BY <1>1, <1>2, <1>3, <1>4, <1>5, <1>6, <1>7, <1>8, <1>9, <1>10, <1>11, <1>12,
     <1>13, <1>14, <1>15, <1>16, <1>17 DEF Step

(* A script has a port until it is done. *)
LEMMA PortKept ==
    ASSUME NEW s \in Scripts, script[s] \in Script, Moved(s),
           script[s].port = None <=> At(s) \in {"idle", "port"}
    PROVE  script'[s].port = None <=> script'[s].at \in {"idle", "port"}
<1>1. ASSUME NEW p \in Ports, At(s) = "port",
             Moves(s, [script[s] EXCEPT !.at = "look", !.port = p])
      PROVE  script'[s].port # None /\ script'[s].at = "look"
  BY <1>1 DEF Moves, Script
<1>2. CASE Moves(s, Idle)
  BY <1>2 DEF Moves, Idle
<1>3. ASSUME NEW at \in Ats, Moves(s, [script[s] EXCEPT !.at = at])
      PROVE  script'[s].port = script[s].port /\ script'[s].at = at
  BY <1>3 DEF Moves, Script
<1>4. ASSUME NEW at, NEW n, Moves(s, [script[s] EXCEPT !.at = at, !.tries = n])
      PROVE  script'[s].port = script[s].port /\ script'[s].at = at
  BY <1>4 DEF Moves, Script
<1>5. ASSUME NEW at, NEW n, Moves(s, [script[s] EXCEPT !.at = at, !.job = n])
      PROVE  script'[s].port = script[s].port /\ script'[s].at = at
  BY <1>5 DEF Moves, Script
<1>6. ASSUME Moves(s, [script[s] EXCEPT !.tries = @ - 1])
      PROVE  script'[s].port = script[s].port /\ script'[s].at = script[s].at
  BY <1>6 DEF Moves, Script
<1> QED
  BY <1>1, <1>2, <1>3, <1>4, <1>5, <1>6 DEF Moved, Ats, At

(* Whoever has a port keeps it until the script is over, and nobody joins  *)
(* those that wait for an id but a script that begins.                     *)
LEMMA KnownStep ==
    ASSUME IInv, NEW s \in Scripts, Moved(s)
    PROVE  /\ script' \in [Scripts -> Script]
           /\ \A t \in Scripts : (script[t].port = None <=> At(t) \in {"idle", "port"})'
           /\ At(s) # "idle" => Waiting' \subseteq Waiting
           /\ At(s) = "idle" => Waiting' \subseteq Waiting \cup {s}
           /\ At(s) = "number" => Waiting' \subseteq Waiting \ {s}
           /\ \A t \in Scripts \ {s} : At(t)' = At(t)
           /\ (At(s) = "put")' => At(s) = "number"
<1> USE DEF IInv, TypeOK, Known, At
<1>1. script' \in [Scripts -> Script] /\ \A t \in Scripts \ {s} : script'[t] = script[t]
  BY DEF Moved, Moves
<1>2. script[s] \in Script
  OBVIOUS
<1>3. script'[s].port = None <=> script'[s].at \in {"idle", "port"}
  BY <1>2, PortKept
<1>4. /\ At(s) \notin {"idle", "port", "look", "probe", "client", "number"} =>
           script'[s].at \notin {"port", "look", "probe", "client", "number"}
      /\ At(s) = "number" => script'[s].at = "put"
      /\ script'[s].at = "put" => At(s) = "number"
  BY <1>2 DEF Moved, Moves, Script, Idle
<1>5. At(s) # "idle" => Waiting' \subseteq Waiting
  BY <1>1, <1>4 DEF Waiting
<1>6. Waiting' \subseteq Waiting \cup {s}
  BY <1>1 DEF Waiting
<1>7. At(s) = "number" => Waiting' \subseteq Waiting \ {s}
  BY <1>1, <1>4, <1>5 DEF Waiting
<1> QED BY <1>1, <1>3, <1>4, <1>5, <1>6, <1>7

(* An id for everybody who waits for one.                                  *)
LEMMA BoundStep ==
    ASSUME IInv, NEW s \in Scripts,
           Begin(s) \/ Step(s) \/ Listen(s) \/ ClientEnds(s) \/ CallFails(s) \/ Die(s)
    PROVE  /\ jobId' \in 0 .. MaxJobs /\ jobId' >= jobId
           /\ jobId' + Cardinality(Waiting') <= MaxJobs
           /\ (At(s) = "put")' => jobId' > 0 \/ UNCHANGED script
<1> USE DEF IInv, TypeOK, Known
<1>0. jobId \in 0 .. MaxJobs /\ Cardinality(Waiting) \in Nat
      /\ jobId + Cardinality(Waiting) <= MaxJobs
  BY WaitingType
<1>1. CASE UNCHANGED script /\ UNCHANGED jobId
  <2>1. Waiting' = Waiting
    BY <1>1 DEF Waiting, At
  <2> QED BY <1>0, <1>1, <2>1
<1>2. CASE Begin(s)
  <2> DEFINE Busy == {t \in Scripts : At(t) # "idle"}
  <2>1. Moved(s) \/ UNCHANGED script
    BY <1>2, StepMoves
  <2>2. Waiting' \subseteq Waiting \cup {s}
    BY <1>2, <2>1, KnownStep DEF Begin, Waiting, At
  <2>3. Waiting \subseteq Busy /\ Busy \subseteq Scripts /\ s \notin Waiting
    BY <1>2 DEF Waiting, Begin
  <2>4. IsFiniteSet(Busy) /\ Cardinality(Busy) \in Nat
    BY <2>3, FS_Subset, FS_CardinalityType
  <2>5. Cardinality(Waiting) <= Cardinality(Busy)
    BY <2>3, <2>4, FS_Subset
  <2>6. /\ IsFiniteSet(Waiting \cup {s})
        /\ Cardinality(Waiting \cup {s}) = Cardinality(Waiting) + 1
    BY <2>3, WaitingType, FS_AddElement
  <2>7. Cardinality(Waiting') \in Nat /\ Cardinality(Waiting') <= Cardinality(Waiting) + 1
    BY <2>2, <2>6, FS_Subset, FS_CardinalityType
  <2>8. jobId + Cardinality(Busy) < MaxJobs /\ jobId' = jobId
    BY <1>2 DEF Begin
  <2>9. ~(At(s) = "put")'
    BY <1>2 DEF Begin, Goto, At
  <2> QED BY <1>0, <2>4, <2>5, <2>7, <2>8, <2>9
<1>3. CASE NextId(s)
  <2>1. Moved(s) \/ UNCHANGED script
    BY <1>3, StepMoves DEF Step
  <2>2. s \in Waiting /\ At(s) = "number"
    BY <1>3 DEF NextId, Waiting
  <2>3. script' # script
    <3>1. script'[s] = [script[s] EXCEPT !.at = "put"] /\ script[s] \in Script
      BY <1>3, GotoMoves DEF NextId, Ats, Moves
    <3>2. script'[s].at = "put"
      BY <3>1 DEF Script
    <3> QED BY <2>2, <3>2 DEF At
  <2>4. Waiting' \subseteq Waiting \ {s}
    BY <2>1, <2>2, <2>3, KnownStep
  <2>5. /\ IsFiniteSet(Waiting \ {s})
        /\ Cardinality(Waiting \ {s}) = Cardinality(Waiting) - 1
    BY <2>2, WaitingType, FS_RemoveElement
  <2>6. Cardinality(Waiting') \in Nat /\ Cardinality(Waiting') <= Cardinality(Waiting) - 1
    BY <1>0, <2>4, <2>5, FS_Subset, FS_CardinalityType
  <2>7. jobId' = jobId + 1
    BY <1>3 DEF NextId
  <2> QED BY <1>0, <2>6, <2>7
<1>4. CASE Moved(s) /\ At(s) \notin {"idle", "number"} /\ UNCHANGED jobId
  <2>1. Waiting' \subseteq Waiting /\ ~(At(s) = "put")'
    BY <1>4, KnownStep
  <2> QED BY <1>0, <1>4, <2>1, FewerWait
<1>5. CASE Step(s) /\ ~NextId(s)
  <2>1. UNCHANGED jobId /\ At(s) \notin {"idle", "number"}
    BY <1>5 DEF Step, GivenPort, Draw, NoDraw, Look, Probe, ProbeAgain, StartClient,
       PutJob, Poll, Kill, Pop, StopClient
  <2> QED BY <1>1, <1>4, <1>5, <2>1, StepMoves
<1>6. CASE Die(s) \/ CallFails(s)
  <2>1. UNCHANGED jobId /\ At(s) \notin {"idle", "number"}
    BY <1>6 DEF Die, CallFails
  <2> QED BY <1>1, <1>4, <1>6, <2>1, StepMoves
<1>7. CASE Listen(s) \/ ClientEnds(s)
  BY <1>1, <1>7 DEF Listen, ClientEnds
<1> QED BY <1>2, <1>3, <1>5, <1>6, <1>7

(* A job id that was counted up stays one.                                 *)
LEMMA JobsCounted ==
    ASSUME IInv, NEW s \in Scripts, Moved(s), jobId' \in Nat, jobId' >= jobId
    PROVE  \A t \in Scripts : (script[t].job # 0 => script[t].job <= jobId)'
<1>1. script[s] \in Script /\ script \in [Scripts -> Script] /\ jobId \in Nat
      /\ \A t \in Scripts : script[t].job # 0 => script[t].job <= jobId
  BY DEF IInv, TypeOK
<1>2. script'[s].job \in {script[s].job, jobId, 0}
  <2>1. CASE Moves(s, Idle)
    BY <2>1 DEF Moves, Idle
  <2>2. CASE \E p \in Ports : Moves(s, [script[s] EXCEPT !.at = "look", !.port = p])
    BY <1>1, <2>2 DEF Moves, Script
  <2>3. CASE \/ Moves(s, [script[s] EXCEPT !.at = "poll", !.job = jobId])
             \/ Moves(s, [script[s] EXCEPT !.at = "kill", !.job = 0])
    BY <1>1, <2>3 DEF Moves, Script
  <2>4. ASSUME NEW at, Moves(s, [script[s] EXCEPT !.at = at])
        PROVE  script'[s].job = script[s].job
    BY <1>1, <2>4 DEF Moves, Script
  <2>5. ASSUME NEW at, NEW n, Moves(s, [script[s] EXCEPT !.at = at, !.tries = n])
        PROVE  script'[s].job = script[s].job
    BY <1>1, <2>5 DEF Moves, Script
  <2>6. CASE Moves(s, [script[s] EXCEPT !.tries = @ - 1])
    BY <1>1, <2>6 DEF Moves, Script
  <2> QED BY <2>1, <2>2, <2>3, <2>4, <2>5, <2>6 DEF Moved
<1>3. \A t \in Scripts \ {s} : script'[t] = script[t]
  BY DEF Moved, Moves
<1>4. \A t \in Scripts : script[t].job \in Nat
  BY <1>1 DEF Script
<1> QED BY <1>1, <1>2, <1>3, <1>4

(***************************************************************************)
(* The types: IInv is inductive.                                           *)
(***************************************************************************)
LEMMA TypeStep ==
    ASSUME IInv, NEW s \in Scripts,
           Begin(s) \/ Step(s) \/ Listen(s) \/ ClientEnds(s) \/ CallFails(s) \/ Die(s)
    PROVE  IInv'
<1>1. /\ script' \in [Scripts -> Script]
      /\ \A t \in Scripts : (script[t].port = None <=> At(t) \in {"idle", "port"})'
      /\ \A t \in Scripts : (At(t) = "put" => jobId > 0)'
      /\ \A t \in Scripts : (script[t].job # 0 => script[t].job <= jobId)'
  <2>1. jobId \in 0 .. MaxJobs /\ jobId' \in 0 .. MaxJobs /\ jobId' >= jobId
    BY BoundStep DEF IInv, TypeOK
  <2>2. CASE UNCHANGED script
    BY <2>1, <2>2 DEF IInv, TypeOK, Known, At, Script
  <2>3. CASE Moved(s) /\ ~UNCHANGED script
    <3>1. \A t \in Scripts \ {s} : At(t) = "put" => jobId' > 0
      BY <2>1 DEF IInv, Known
    <3>2. \A t \in Scripts : (At(t) = "put" => jobId > 0)'
      BY <2>1, <2>3, <3>1, KnownStep, BoundStep DEF At
    <3> QED BY <2>1, <2>3, <3>2, KnownStep, JobsCounted
  <2> QED BY <2>2, <2>3, StepMoves
<1>2. jobId' \in 0 .. MaxJobs /\ jobId' + Cardinality(Waiting') <= MaxJobs
  BY BoundStep
<1> USE DEF IInv, TypeOK
<1>3. script[s] \in Script /\ script[s].port \in Ports \cup {None}
  BY DEF Script
<1>4. At(s) \notin {"idle", "port"} => script[s].port \in Ports
  BY <1>3 DEF Known
<1>5. given' \in Givens /\ drawn' \in 0 .. Draws
  BY DEF Begin, Step, GivenPort, Draw, NoDraw, Look, Probe, ProbeAgain, StartClient,
     NextId, PutJob, Poll, Kill, Pop, StopClient, Listen, ClientEnds, CallFails, Die
<1>6. handles' \in [Ports -> Scripts \cup {None}]
  BY <1>4 DEF Begin, Step, GivenPort, Draw, NoDraw, Look, Probe, ProbeAgain, StartClient,
     NextId, PutJob, Poll, Kill, Pop, StopClient, Listen, ClientEnds, CallFails, Die
<1>7. server' \in [Scripts -> [at : Live \cup {"none"}, port : Ports \cup {None}]]
  <2>1. [at |-> "none", port |-> None] \in [at : Live \cup {"none"}, port : Ports \cup {None}]
        /\ \A p \in Ports \cup {None} :
             [at |-> "starting", port |-> p] \in [at : Live \cup {"none"}, port : Ports \cup {None}]
    BY DEF Live
  <2>2. [server[s] EXCEPT !.at = "listening"] \in [at : Live \cup {"none"}, port : Ports \cup {None}]
    BY DEF Live
  <2>3. CASE UNCHANGED server
    BY <2>3
  <2>4. CASE Look(s)
    BY <1>3, <2>1, <2>4 DEF Look
  <2>5. CASE Listen(s)
    BY <2>1, <2>2, <2>5 DEF Listen
  <2>6. CASE Kill(s)
    BY <2>1, <2>6 DEF Kill
  <2> QED BY <2>3, <2>4, <2>5, <2>6 DEF Begin, Step, GivenPort, Draw, NoDraw, Probe,
     ProbeAgain, StartClient, NextId, PutJob, Poll, Pop, StopClient, ClientEnds,
     CallFails, Die
<1>8. jobs' \in [JobIds -> Scripts \cup {None}]
  BY DEF Begin, Step, GivenPort, Draw, NoDraw, Look, Probe, ProbeAgain, StartClient,
     NextId, PutJob, Poll, Kill, Pop, StopClient, Listen, ClientEnds, CallFails, Die
<1>9. client' \in [Scripts -> {"none", "running", "stuck", "ended"}]
  BY DEF Begin, Step, GivenPort, Draw, NoDraw, Look, Probe, ProbeAgain, StartClient,
     NextId, PutJob, Poll, Kill, Pop, StopClient, Listen, ClientEnds, CallFails, Die
<1>10. hurt' \subseteq Ports
  <2>1. CASE UNCHANGED hurt
    BY <2>1
  <2>2. CASE GivenPort(s)
    BY <2>2 DEF GivenPort, Use
  <2>3. CASE Draw(s)
    BY <2>3 DEF Draw, Use
  <2>4. CASE ProbeAgain(s) \/ CallFails(s) \/ Die(s)
    BY <1>4, <2>4 DEF ProbeAgain, CallFails, Die
  <2> QED BY <2>1, <2>2, <2>3, <2>4 DEF Begin, Step, NoDraw, Look, Probe, StartClient,
     NextId, PutJob, Poll, Kill, Pop, StopClient, Listen, ClientEnds
<1>11. raced' \in BOOLEAN
  BY DEF Begin, Step, GivenPort, Draw, NoDraw, Look, Probe, ProbeAgain, StartClient,
     NextId, PutJob, Poll, Kill, Pop, StopClient, Listen, ClientEnds, CallFails, Die
<1> QED
  BY <1>1, <1>2, <1>5, <1>6, <1>7, <1>8, <1>9, <1>10, <1>11 DEF Known

(* IInv holds at first. *)
LEMMA TypeInit == Init => IInv
<1> SUFFICES ASSUME Init PROVE IInv
  OBVIOUS
<1>1. Idle \in Script
  BY DEF Idle, Script
<1>2. Waiting = {} /\ \A s \in Scripts : script[s].port = None /\ At(s) = "idle"
  BY DEF Init, Waiting, At, Idle
<1>3. Cardinality(Waiting) = 0
  BY <1>2, FS_EmptySet
<1>4. TypeOK
  <2>1. /\ given \in Givens /\ script \in [Scripts -> Script]
        /\ handles \in [Ports -> Scripts \cup {None}]
    BY <1>1 DEF Init
  <2>2. server \in [Scripts -> [at : Live \cup {"none"}, port : Ports \cup {None}]]
    BY DEF Init, Live
  <2>3. /\ drawn \in 0 .. Draws /\ jobId \in 0 .. MaxJobs
        /\ jobs \in [JobIds -> Scripts \cup {None}]
        /\ client \in [Scripts -> {"none", "running", "stuck", "ended"}]
        /\ hurt \subseteq Ports /\ raced \in BOOLEAN
    <3>1. drawn \in 0 .. Draws /\ jobId \in 0 .. MaxJobs
      BY DEF Init
    <3>2. jobs \in [JobIds -> Scripts \cup {None}]
      BY DEF Init
    <3>3. client \in [Scripts -> {"none", "running", "stuck", "ended"}]
      BY DEF Init
    <3>4. hurt \subseteq Ports /\ raced \in BOOLEAN
      BY DEF Init
    <3> QED BY <3>1, <3>2, <3>3, <3>4
  <2>4. \A s \in Scripts : script[s].job = 0
    BY DEF Init, Idle
  <2> QED BY <2>1, <2>2, <2>3, <2>4 DEF TypeOK
<1> QED BY <1>2, <1>3, <1>4 DEF Init, IInv, Known

(* Every variable of the model keeps its type.                             *)
THEOREM TypeCorrect == Spec => []TypeOK
<1>1. IInv /\ [Next]_vars => IInv'
  <2>1. CASE Next
    BY <2>1, TypeStep DEF Next
  <2>2. CASE UNCHANGED vars
    BY <2>2 DEF vars, IInv, TypeOK, Known, Waiting, At
  <2> QED BY <2>1, <2>2
<1> QED BY <1>1, TypeInit, PTL DEF Spec, IInv

(***************************************************************************)
(* What a step leaves of the other scripts' places, for the two results    *)
(* below.                                                                  *)
(***************************************************************************)
LEMMA Others ==
    ASSUME NEW s \in Scripts, Moved(s), script[s] \in Script
    PROVE  /\ \A t \in Scripts \ {s} : At(t)' = At(t) /\ script'[t] = script[t]
           /\ \E r \in Script : script'[s] = r
BY DEF Moved, Moves, At

(***************************************************************************)
(* The jobs.                                                               *)
(***************************************************************************)
LEMMA JobsStep ==
    ASSUME IInv, JobsInv, NEW s \in Scripts,
           Begin(s) \/ Step(s) \/ Listen(s) \/ ClientEnds(s) \/ CallFails(s) \/ Die(s)
    PROVE  JobsInv'
<1> SUFFICES ASSUME ~raced' PROVE JobsInv'
  BY DEF JobsInv
<1>0. /\ script \in [Scripts -> Script] /\ jobs \in [JobIds -> Scripts \cup {None}]
      /\ jobId \in Nat /\ jobId <= MaxJobs
      /\ \A t \in Scripts : script[t].job \in Nat
      /\ \A t \in Scripts : At(t) = "put" => jobId > 0
  BY DEF IInv, TypeOK, Known, Script
<1>1. ~raced
  BY DEF Begin, Step, GivenPort, Draw, NoDraw, Look, Probe, ProbeAgain, StartClient,
     NextId, PutJob, Poll, Kill, Pop, StopClient, Listen, ClientEnds, CallFails, Die
<1>2. /\ \A t, u \in Scripts :
           At(t) \in {"number", "put"} /\ At(u) \in {"number", "put"} => t = u
      /\ \A t, u \in Scripts :
           At(t) = "put" /\ At(u) \in Holds => script[u].job # jobId
      /\ \A t \in Scripts : At(t) \in Holds /\ script[t].job # 0 =>
           script[t].job \in JobIds /\ script[t].job <= jobId /\ jobs[script[t].job] = t
      /\ \A t \in Scripts : At(t) = "poll" => script[t].job # 0
  BY <1>1 DEF JobsInv
<1>3. CASE UNCHANGED <<jobs, jobId>> /\ UNCHANGED script
  BY <1>2, <1>3 DEF JobsInv, At
(* A step to a place that is no nearer to an entry, or from one entry's    *)
(* place to the next, or away from it.                                     *)
<1>4. ASSUME UNCHANGED <<jobs, jobId>>,
             \A t \in Scripts \ {s} : script'[t] = script[t],
             \/ script'[s].at \notin Holds \cup {"number", "put"}
             \/ script'[s].at \in Holds \ {"poll"} /\ script'[s].job = 0
             \/ /\ script'[s].at \in Holds \ {"poll"} /\ At(s) \in Holds
                /\ script'[s].job = script[s].job
      PROVE  JobsInv'
  <2>1. (\A t, u \in Scripts :
           At(t) \in {"number", "put"} /\ At(u) \in {"number", "put"} => t = u)'
    BY <1>2, <1>4 DEF At, Holds
  <2>2. (\A t, u \in Scripts :
           At(t) = "put" /\ At(u) \in Holds => script[u].job # jobId)'
    BY <1>0, <1>2, <1>4 DEF At, Holds
  <2>3. (\A t \in Scripts : At(t) \in Holds /\ script[t].job # 0 =>
           script[t].job \in JobIds /\ script[t].job <= jobId /\ jobs[script[t].job] = t)'
    BY <1>2, <1>4 DEF At, Holds
  <2>4. (\A t \in Scripts : At(t) = "poll" => script[t].job # 0)'
    BY <1>2, <1>4 DEF At, Holds
  <2> QED BY <2>1, <2>2, <2>3, <2>4 DEF JobsInv
<1>5. CASE Begin(s) \/ GivenPort(s) \/ Draw(s) \/ NoDraw(s) \/ Look(s) \/ Probe(s)
           \/ ProbeAgain(s) \/ Die(s)
  <2>1. UNCHANGED <<jobs, jobId>>
    BY <1>5 DEF Begin, GivenPort, Draw, NoDraw, Look, Probe, ProbeAgain, Die
  <2>2. At(s) \in {"idle", "port", "look", "probe"} \/ Die(s)
    BY <1>5 DEF Begin, GivenPort, Draw, NoDraw, Look, Probe, ProbeAgain
  <2>3. Moved(s) \/ UNCHANGED script
    BY <1>5, StepMoves DEF Step
  <2>4. CASE Moved(s)
    <3>1. script'[s].at \notin Holds \cup {"number", "put"}
      <4>1. CASE Die(s)
        <5>1. Moves(s, Idle)
          BY <1>0, <4>1, DoneMoves DEF Die
        <5> QED BY <5>1 DEF Moves, Idle, Holds
      <4>2. CASE At(s) \in {"idle", "port", "look", "probe"}
        <5>1. CASE Moves(s, Idle)
          BY <5>1 DEF Moves, Idle, Holds
        <5>2. ASSUME NEW at \in {"port", "client"}, Moves(s, [script[s] EXCEPT !.at = at])
              PROVE  script'[s].at \notin Holds \cup {"number", "put"}
          BY <1>0, <5>2 DEF Moves, Script, Holds
        <5>3. ASSUME NEW at \in {"probe", "client"}, NEW n,
                     Moves(s, [script[s] EXCEPT !.at = at, !.tries = n])
              PROVE  script'[s].at \notin Holds \cup {"number", "put"}
          BY <1>0, <5>3 DEF Moves, Script, Holds
        <5>4. ASSUME NEW p, Moves(s, [script[s] EXCEPT !.at = "look", !.port = p])
              PROVE  script'[s].at \notin Holds \cup {"number", "put"}
          BY <1>0, <5>4 DEF Moves, Script, Holds
        <5>5. CASE Moves(s, [script[s] EXCEPT !.tries = @ - 1])
          BY <1>0, <4>2, <5>5 DEF Moves, Script, Holds, At
        <5> QED BY <2>4, <4>2, <5>1, <5>2, <5>3, <5>4, <5>5 DEF Moved
      <4> QED BY <2>2, <4>1, <4>2
    <3> QED BY <1>0, <1>4, <2>1, <2>4, <3>1, Others
  <2> QED BY <1>3, <2>1, <2>3, <2>4
<1>6. CASE StartClient(s)
  <2>1. Moves(s, [script[s] EXCEPT !.at = "number"])
    BY <1>0, <1>6, GotoMoves DEF StartClient, Ats
  <2>2. script'[s].at = "number" /\ \A t \in Scripts \ {s} : script'[t] = script[t]
    BY <1>0, <2>1 DEF Moves, Script
  <2>3. UNCHANGED <<jobs, jobId>> /\ \A t \in Scripts : At(t) \notin {"number", "put"}
    BY <1>6 DEF StartClient
  <2> QED BY <1>2, <2>2, <2>3 DEF JobsInv, At, Holds
<1>7. CASE NextId(s)
  <2>1. Moves(s, [script[s] EXCEPT !.at = "put"])
    BY <1>0, <1>7, GotoMoves DEF NextId, Ats
  <2>2. script'[s].at = "put" /\ \A t \in Scripts \ {s} : script'[t] = script[t]
    BY <1>0, <2>1 DEF Moves, Script
  <2>3. jobs' = jobs /\ jobId' = jobId + 1 /\ At(s) = "number"
    BY <1>7 DEF NextId
  <2>4. \A t, u \in Scripts : (At(t) \in {"number", "put"} /\ At(u) \in {"number", "put"})'
           => t = u
    BY <1>2, <2>2, <2>3 DEF At
  <2>5. \A t \in Scripts : (At(t) \in Holds)' => t # s /\ At(t) \in Holds
    BY <2>2 DEF At, Holds
  <2>6. \A u \in Scripts : (At(u) \in Holds)' /\ script'[u].job # 0 =>
           /\ script'[u].job # jobId + 1 /\ script'[u].job <= jobId + 1
           /\ script'[u].job \in JobIds /\ jobs[script'[u].job] = u
    BY <1>0, <1>2, <2>2, <2>5 DEF At
  <2>7. \A u \in Scripts : (At(u) = "poll")' => script'[u].job # 0
    BY <1>2, <2>2 DEF At
  <2> QED BY <1>0, <2>3, <2>4, <2>6, <2>7 DEF JobsInv
<1>8. CASE PutJob(s)
  <2>1. Moved(s) \/ UNCHANGED script
    BY <1>8, StepMoves DEF Step
  <2>2. /\ script' = [script EXCEPT ![s].at = "poll", ![s].job = jobId]
        /\ jobs' = [jobs EXCEPT ![jobId] = s] /\ jobId' = jobId /\ At(s) = "put"
    BY <1>8 DEF PutJob
  <2>3. script'[s].at = "poll" /\ script'[s].job = jobId
    BY <1>0, <2>2 DEF Script
  <2>4. \A t \in Scripts \ {s} : script'[t] = script[t]
    BY <1>0, <2>2
  <2>5. jobId \in JobIds
    BY <1>0, <2>2 DEF JobIds
  <2>6. \A t \in Scripts : (At(t) \notin {"number", "put"})'
    BY <1>2, <2>2, <2>3, <2>4 DEF At
  <2>7. \A t \in Scripts \ {s} : (At(t) \in Holds)' => script'[t].job # jobId
    BY <1>2, <2>2, <2>4 DEF At
  <2>8. \A t \in Scripts : (At(t) \in Holds)' /\ script'[t].job # 0 =>
           script'[t].job \in JobIds /\ script'[t].job <= jobId /\ jobs'[script'[t].job] = t
    BY <1>0, <1>2, <2>2, <2>3, <2>4, <2>5, <2>7 DEF At
  <2>9. \A t \in Scripts : (At(t) = "poll")' => script'[t].job # 0
    BY <1>0, <1>2, <2>2, <2>3, <2>4 DEF At
  <2>10. /\ (\A t, u \in Scripts :
               At(t) \in {"number", "put"} /\ At(u) \in {"number", "put"} => t = u)'
         /\ (\A t, u \in Scripts :
               At(t) = "put" /\ At(u) \in Holds => script[u].job # jobId)'
    BY <2>6
  <2>11. (\A t \in Scripts : At(t) \in Holds /\ script[t].job # 0 =>
            script[t].job \in JobIds /\ script[t].job <= jobId /\ jobs[script[t].job] = t)'
    BY <2>2, <2>8 DEF JobIds
  <2> QED BY <2>9, <2>10, <2>11 DEF JobsInv
<1>9. CASE Poll(s) \/ Kill(s) \/ Pop(s)
  <2>1. UNCHANGED <<jobs, jobId>> /\ At(s) \in {"poll", "kill", "pop"}
    BY <1>9 DEF Poll, Kill, Pop
  <2>2. Goto(s, "kill") \/ Goto(s, "pop") \/ Goto(s, "stop") \/ Done(s)
    BY <1>9 DEF Poll, Kill, Pop
  <2>3. CASE Done(s)
    <3>1. Moves(s, Idle)
      BY <1>0, <2>3, DoneMoves
    <3> QED BY <1>4, <2>1, <3>1 DEF Moves, Idle, Holds
  <2>4. ASSUME NEW at \in {"kill", "pop", "stop"}, Goto(s, at) PROVE JobsInv'
    <3>1. Moves(s, [script[s] EXCEPT !.at = at])
      BY <1>0, <2>4, GotoMoves DEF Ats
    <3>2. script'[s].at \in Holds \ {"poll"} /\ script'[s].job = script[s].job
      BY <1>0, <3>1 DEF Moves, Script, Holds
    <3> QED BY <1>4, <2>1, <3>1, <3>2 DEF Moves, Holds
  <2> QED BY <2>2, <2>3, <2>4
<1>10. CASE StopClient(s)
  <2>1. Moves(s, Idle) /\ jobId' = jobId /\ At(s) = "stop"
    BY <1>0, <1>10, DoneMoves DEF StopClient
  <2>2. script'[s].at = "idle" /\ \A t \in Scripts \ {s} : script'[t] = script[t]
    BY <2>1 DEF Moves, Idle
  <2>3. \A t \in Scripts : (At(t) \in Holds)' => t # s /\ At(t) \in Holds
    BY <2>2 DEF At, Holds
  <2>4. \A t \in Scripts : (At(t) \in Holds)' /\ script'[t].job # 0 =>
           jobs'[script'[t].job] = t
    <3>1. CASE UNCHANGED jobs
      BY <1>2, <2>2, <2>3, <3>1
    <3>2. CASE script[s].job # 0 /\ jobs' = [jobs EXCEPT ![script[s].job] = None]
      <4>1. \A t \in Scripts : (At(t) \in Holds)' /\ script[t].job # 0 =>
               script[t].job # script[s].job
        BY <1>2, <2>1, <2>3, <3>2 DEF Holds
      <4> QED BY <1>0, <1>2, <2>2, <2>3, <3>2, <4>1
    <3> QED BY <1>10, <3>1, <3>2 DEF StopClient
  <2>5. \A t \in Scripts : (At(t) \in Holds)' /\ script'[t].job # 0 =>
           script'[t].job \in JobIds /\ script'[t].job <= jobId
    BY <1>2, <2>2, <2>3
  <2>6. \A t \in Scripts : (At(t) = "poll")' => script'[t].job # 0
    BY <1>2, <2>2 DEF At
  <2> QED BY <1>2, <2>1, <2>2, <2>3, <2>4, <2>5, <2>6 DEF JobsInv, At, Holds
<1>11. CASE Listen(s) \/ ClientEnds(s)
  BY <1>3, <1>11 DEF Listen, ClientEnds
<1>12. CASE CallFails(s)
  <2>1. UNCHANGED <<jobs, jobId>>
    BY <1>12 DEF CallFails
  <2>2. \/ script' = [script EXCEPT ![s].at = "kill", ![s].job = 0]
        \/ At(s) = "poll" /\ Goto(s, "kill")
        \/ Done(s)
    BY <1>12 DEF CallFails
  <2>3. \A t \in Scripts \ {s} : script'[t] = script[t]
    BY <1>0, <2>2 DEF Goto, Done
  <2>4. \/ script'[s].at = "kill" /\ script'[s].job = 0
        \/ At(s) = "poll" /\ script'[s].at = "kill" /\ script'[s].job = script[s].job
        \/ script'[s].at = "idle"
    BY <1>0, <2>2 DEF Goto, Done, Idle, Script
  <2> QED BY <1>4, <2>1, <2>3, <2>4 DEF Holds
<1> QED BY <1>5, <1>6, <1>7, <1>8, <1>9, <1>10, <1>11, <1>12 DEF Step

(* The job a script polls is that of its own client, unless two clients    *)
(* were being started at once: the counter and the dictionary need no lock *)
(* as long as the start of one client ends before the next begins.         *)
THEOREM OwnJobHolds == Spec => []OwnJob
<1>1. Init => JobsInv
  BY DEF Init, JobsInv, At, Idle, Holds
<1>2. IInv /\ JobsInv /\ [Next]_vars => IInv' /\ JobsInv'
  <2>1. CASE Next
    BY <2>1, TypeStep, JobsStep DEF Next
  <2>2. CASE UNCHANGED vars
    BY <2>2 DEF vars, IInv, TypeOK, Known, Waiting, At, JobsInv
  <2> QED BY <2>1, <2>2
<1>3. JobsInv => OwnJob
  BY DEF JobsInv, OwnJob, Holds
<1> QED BY <1>1, <1>2, <1>3, TypeInit, PTL DEF Spec

(***************************************************************************)
(* The ports.                                                              *)
(***************************************************************************)
(* A step on another port: the servers on p and its handle are untouched.  *)
LEMMA ElsewhereStep ==
    ASSUME NEW p, PortInv(p), NEW s \in Scripts,
           script[s].port # p, script'[s].port # p,
           \A t \in Scripts \ {s} : script'[t] = script[t],
           \A t \in Scripts :
             server[t].port = p \/ server'[t].port = p => server'[t] = server[t],
           handles'[p] = handles[p]
    PROVE  PortInv(p)'
<1> USE DEF Users, At
<1>1. \A t \in Scripts : script[t].port = p \/ script'[t].port = p =>
         t # s /\ script'[t] = script[t]
  OBVIOUS
<1>2. (\A t, u \in Scripts : script[t].port = p /\ script[u].port = p => t = u)'
  BY <1>1 DEF PortInv
<1>3. \A t \in Scripts : server'[t].port = p =>
         script'[t].port = p /\ script'[t].at \in Served \cup {"probe"}
  BY <1>1 DEF PortInv
<1>4. handles'[p] # None =>
         /\ handles'[p] \in Scripts /\ script'[handles'[p]].port = p
         /\ script'[handles'[p]].at \in Served \cup {"pop"}
  BY <1>1 DEF PortInv
<1>5. \A t \in Scripts : script'[t].port = p /\ script'[t].at \in Served =>
         server'[t].at = "listening" /\ server'[t].port = p /\ handles'[p] = t
  BY <1>1 DEF PortInv
<1> QED BY <1>2, <1>3, <1>4, <1>5 DEF PortInv

(* A step of the one user of p.                                            *)
LEMMA OwnStep ==
    ASSUME IInv, NEW p \in Ports, PortInv(p), NEW s \in Scripts, script[s].port = p,
           Step(s) \/ CallFails(s) \/ Die(s) \/ Listen(s), p \notin hurt'
    PROVE  PortInv(p)'
<1> USE DEF At
<1>0. /\ script \in [Scripts -> Script] /\ script[s] \in Script
      /\ handles \in [Ports -> Scripts \cup {None}]
      /\ server \in [Scripts -> [at : Live \cup {"none"}, port : Ports \cup {None}]]
      /\ At(s) \notin {"idle", "port"} /\ p # None /\ None \notin Scripts
  BY DEF IInv, TypeOK, Known
<1>1. /\ \A t \in Scripts \ {s} : script[t].port # p /\ server[t].port # p
      /\ \A t \in Scripts : server[t].port = p => At(t) \in Served \cup {"probe"}
      /\ handles[p] # None => handles[p] = s /\ At(s) \in Served \cup {"pop"}
      /\ At(s) \in Served => server[s].at = "listening" /\ server[s].port = p /\ handles[p] = s
      /\ Listening(p) => server[s].at = "listening" /\ server[s].port = p
  BY DEF PortInv, Users, Listening
(* What has to hold of s, once it is clear that nobody else comes to p.    *)
<1>2. ASSUME \A t \in Scripts \ {s} : script'[t].port # p /\ server'[t].port # p,
             handles'[p] \in {None, s}, script'[s].port = p,
             server'[s].port = p => script'[s].at \in Served \cup {"probe"},
             handles'[p] = s => script'[s].at \in Served \cup {"pop"},
             script'[s].at \in Served =>
               server'[s].at = "listening" /\ server'[s].port = p /\ handles'[p] = s
      PROVE  PortInv(p)'
  BY <1>0, <1>2 DEF PortInv, Users
<1>3. ASSUME \A t \in Scripts : script'[t].port # p /\ server'[t].port # p,
             handles'[p] = None
      PROVE  PortInv(p)'
  BY <1>0, <1>3 DEF PortInv, Users
<1>4. CASE Look(s)
  <2>1. ~Listening(p)
    BY <1>1, <1>4 DEF Look, Served
  <2>2. /\ server' = [server EXCEPT ![s] = [at |-> "starting", port |-> p]]
        /\ script' = [script EXCEPT ![s].at = "probe", ![s].tries = 3]
        /\ handles' = handles /\ At(s) = "look"
    BY <1>4, <2>1 DEF Look
  <2>3. script'[s].at = "probe" /\ script'[s].port = p /\ server'[s].port = p
    BY <1>0, <2>2 DEF Script
  <2>4. \A t \in Scripts \ {s} : script'[t] = script[t] /\ server'[t] = server[t]
    BY <1>0, <2>2
  <2>5. handles'[p] = None
    BY <1>0, <1>1, <2>2 DEF Served
  <2> QED BY <1>0, <1>1, <1>2, <2>3, <2>4, <2>5 DEF Served
<1>5. CASE Probe(s)
  <2>1. /\ handles' = [handles EXCEPT ![p] = s] /\ server' = server /\ Listening(p)
        /\ script' = [script EXCEPT ![s].at = "client", ![s].tries = 0]
    BY <1>5 DEF Probe
  <2>2. script'[s].at = "client" /\ script'[s].port = p /\ handles'[p] = s
    BY <1>0, <2>1 DEF Script
  <2>3. \A t \in Scripts \ {s} : script'[t] = script[t]
    BY <1>0, <2>1
  <2> QED BY <1>0, <1>1, <1>2, <2>1, <2>2, <2>3 DEF Served
<1>6. CASE ProbeAgain(s)
  <2>1. /\ script' = [script EXCEPT ![s].tries = @ - 1]
        /\ UNCHANGED <<handles, server>> /\ At(s) = "probe"
    BY <1>6 DEF ProbeAgain
  <2>2. script'[s].at = "probe" /\ script'[s].port = p
    BY <1>0, <2>1 DEF Script
  <2>3. \A t \in Scripts \ {s} : script'[t] = script[t]
    BY <1>0, <2>1
  <2> QED BY <1>0, <1>1, <1>2, <2>1, <2>2, <2>3 DEF Served
<1>7. CASE StartClient(s) \/ NextId(s) \/ PutJob(s) \/ Poll(s)
  <2>1. UNCHANGED <<handles, server>> /\ At(s) \in Served
    BY <1>7 DEF StartClient, NextId, PutJob, Poll, Served
  <2>2. /\ script'[s].at \in Served /\ script'[s].port = p
        /\ \A t \in Scripts \ {s} : script'[t] = script[t]
    <3>1. CASE PutJob(s)
      BY <1>0, <3>1 DEF PutJob, Script, Served
    <3>2. ASSUME NEW at \in {"number", "put", "kill"}, Goto(s, at)
          PROVE  /\ script'[s].at \in Served /\ script'[s].port = p
                 /\ \A t \in Scripts \ {s} : script'[t] = script[t]
      BY <1>0, <3>2 DEF Goto, Script, Served
    <3> QED BY <1>7, <3>1, <3>2 DEF StartClient, NextId, Poll
  <2> QED BY <1>0, <1>1, <1>2, <2>1, <2>2
<1>8. CASE Kill(s)
  <2>1. handles[p] = s /\ server[s].port = p
    BY <1>1, <1>8 DEF Kill, Served
  <2>2. /\ Goto(s, "pop") /\ handles' = handles
        /\ server' = [server EXCEPT ![s] = [at |-> "none", port |-> None]]
    BY <1>0, <1>8, <2>1 DEF Kill
  <2>3. script'[s].at = "pop" /\ script'[s].port = p /\ server'[s].port = None
    BY <1>0, <2>2 DEF Goto, Script
  <2>4. \A t \in Scripts \ {s} : script'[t] = script[t] /\ server'[t] = server[t]
    BY <1>0, <2>2 DEF Goto
  <2> QED BY <1>0, <1>1, <1>2, <2>1, <2>2, <2>3, <2>4 DEF Served
<1>9. CASE Pop(s)
  <2>1. server' = server /\ At(s) = "pop"
    BY <1>9 DEF Pop
  <2>2. \A t \in Scripts : server[t].port # p
    BY <1>1, <2>1 DEF Served
  <2>3. CASE handles[p] = None
    <3>1. Moves(s, Idle) /\ handles' = handles
      BY <1>0, <1>9, <2>3, DoneMoves DEF Pop
    <3>2. \A t \in Scripts : script'[t].port # p
      BY <1>0, <1>1, <3>1 DEF Moves, Idle
    <3> QED BY <1>3, <2>1, <2>2, <2>3, <3>1, <3>2
  <2>4. CASE handles[p] # None
    <3>1. Goto(s, "stop") /\ handles' = [handles EXCEPT ![p] = None]
      BY <1>9, <2>4 DEF Pop
    <3>2. script'[s].at = "stop" /\ script'[s].port = p /\ handles'[p] = None
      BY <1>0, <3>1 DEF Goto, Script
    <3>3. \A t \in Scripts \ {s} : script'[t] = script[t]
      BY <1>0, <3>1 DEF Goto
    <3> QED BY <1>0, <1>1, <1>2, <2>1, <2>2, <3>2, <3>3 DEF Served
  <2> QED BY <2>3, <2>4
<1>10. CASE StopClient(s)
  <2>1. Moves(s, Idle) /\ UNCHANGED <<handles, server>> /\ At(s) = "stop"
    BY <1>0, <1>10, DoneMoves DEF StopClient
  <2>2. \A t \in Scripts : server[t].port # p /\ script'[t].port # p
    BY <1>0, <1>1, <2>1 DEF Moves, Idle, Served
  <2>3. handles[p] = None
    BY <1>1, <2>1 DEF Served
  <2> QED BY <1>3, <2>1, <2>2, <2>3
<1>11. CASE Die(s)
  BY <1>11 DEF Die
<1>12. CASE Listen(s)
  <2>1. server[s].at = "starting" /\ UNCHANGED <<script, handles>>
    BY <1>12 DEF Listen
  <2>2. CASE server[s].port = p
    <3>1. ~Listening(p) /\ At(s) = "probe"
      BY <1>1, <2>1, <2>2 DEF Served
    <3>2. server' = [server EXCEPT ![s].at = "listening"]
      BY <1>12, <2>2, <3>1 DEF Listen
    <3>3. server'[s].port = p /\ \A t \in Scripts \ {s} : server'[t] = server[t]
      BY <1>0, <2>2, <3>2
    <3> QED BY <1>0, <1>1, <1>2, <2>1, <3>1, <3>3 DEF Served
  <2>3. CASE server[s].port # p
    <3>1. server'[s].port # p /\ \A t \in Scripts \ {s} : server'[t] = server[t]
      BY <1>0, <1>12, <2>3 DEF Listen
    <3>2. At(s) \notin Served
      BY <1>1, <2>3
    <3> QED BY <1>0, <1>1, <1>2, <2>1, <3>1, <3>2
  <2> QED BY <2>2, <2>3
<1>13. ~GivenPort(s) /\ ~Draw(s) /\ ~NoDraw(s)
  BY <1>0 DEF GivenPort, Draw, NoDraw
<1>14. CASE CallFails(s)
  <2>1. UNCHANGED <<handles, server>>
    BY <1>14 DEF CallFails
  <2>2. CASE At(s) \in {"look", "stop"} /\ Done(s)
    <3>1. Moves(s, Idle)
      BY <1>0, <2>2, DoneMoves
    <3>2. \A t \in Scripts : server[t].port # p /\ script'[t].port # p
      BY <1>0, <1>1, <2>2, <3>1 DEF Moves, Idle, Served
    <3>3. handles[p] = None
      BY <1>1, <2>2 DEF Served
    <3> QED BY <1>3, <2>1, <3>2, <3>3
  <2>3. CASE /\ At(s) \in Served
             /\ \/ script' = [script EXCEPT ![s].at = "kill", ![s].job = 0]
                \/ Goto(s, "kill")
    <3>1. /\ script'[s].at = "kill" /\ script'[s].port = p
          /\ \A t \in Scripts \ {s} : script'[t] = script[t]
      BY <1>0, <2>3 DEF Goto, Script
    <3> QED BY <1>0, <1>1, <1>2, <2>1, <2>3, <3>1 DEF Served
  <2> QED BY <1>0, <1>14, <2>2, <2>3 DEF CallFails, Served
<1> QED BY <1>4, <1>5, <1>6, <1>7, <1>8, <1>9, <1>10, <1>11, <1>12, <1>13, <1>14 DEF Step

(* A script that comes to p finds nobody there, or p is hurt.              *)
LEMMA ComesStep ==
    ASSUME IInv, NEW p \in Ports, PortInv(p), NEW s \in Scripts, NEW q \in Ports,
           At(s) = "port", Use(s, q), UNCHANGED <<server, handles>>, p \notin hurt'
    PROVE  PortInv(p)'
<1> USE DEF At
<1>0. /\ script \in [Scripts -> Script] /\ script[s] \in Script /\ p # None
      /\ handles \in [Ports -> Scripts \cup {None}] /\ None \notin Scripts
      /\ script[s].port = None
  BY DEF IInv, TypeOK, Known
<1>1. script'[s].at = "look" /\ script'[s].port = q
      /\ \A t \in Scripts \ {s} : script'[t] = script[t]
  BY <1>0 DEF Use, Script
<1>2. CASE q # p
  BY <1>0, <1>1, <1>2, ElsewhereStep
<1>3. CASE q = p
  <2>1. \A t \in Scripts : script[t].port # p
    BY <1>3 DEF Use, Users
  <2>2. handles[p] = None /\ \A t \in Scripts : server[t].port # p
    BY <2>1 DEF PortInv, Users
  <2>3. \A t \in Scripts \ {s} : script'[t].port # p
    BY <1>1, <2>1
  <2> QED BY <1>1, <2>2, <2>3 DEF PortInv, Users, Served
<1> QED BY <1>2, <1>3

(* Every step keeps every port that it does not hurt. *)
LEMMA PortsStep ==
    ASSUME IInv, PortsInv, NEW s \in Scripts,
           Begin(s) \/ Step(s) \/ Listen(s) \/ ClientEnds(s) \/ CallFails(s) \/ Die(s)
    PROVE  PortsInv'
<1> SUFFICES ASSUME NEW p \in Ports, p \notin hurt' PROVE PortInv(p)'
  BY DEF PortsInv
<1>0. /\ script \in [Scripts -> Script] /\ script[s] \in Script /\ p # None
      /\ handles \in [Ports -> Scripts \cup {None}] /\ None \notin Scripts
      /\ server \in [Scripts -> [at : Live \cup {"none"}, port : Ports \cup {None}]]
      /\ script[s].port = None <=> At(s) \in {"idle", "port"}
  BY DEF IInv, TypeOK, Known
<1>1. PortInv(p)
  <2>1. hurt \subseteq hurt'
    BY DEF Begin, Step, GivenPort, Draw, NoDraw, Look, Probe, ProbeAgain, StartClient,
       NextId, PutJob, Poll, Kill, Pop, StopClient, Listen, ClientEnds, CallFails,
       Die, Use
  <2> QED BY <2>1 DEF PortsInv
<1>2. CASE UNCHANGED <<script, server, handles>>
  BY <1>1, <1>2 DEF PortInv, Users, At
<1>3. CASE GivenPort(s)
  <2>1. given[s] \in Ports
    BY <1>3 DEF GivenPort, IInv, TypeOK
  <2> QED BY <1>1, <1>3, <2>1, ComesStep DEF GivenPort
<1>4. CASE Draw(s)
  BY <1>1, <1>2, <1>4, ComesStep DEF Draw
<1>5. CASE /\ Step(s) \/ CallFails(s) \/ Die(s) \/ Listen(s)
           /\ script[s].port = p
  BY <1>1, <1>5, OwnStep
<1>6. CASE Begin(s) \/ NoDraw(s)
  <2>1. UNCHANGED <<server, handles>> /\ script[s].port = None
    BY <1>0, <1>6 DEF Begin, NoDraw
  <2>2. script'[s].port = None /\ \A t \in Scripts \ {s} : script'[t] = script[t]
    <3>1. CASE Begin(s)
      BY <1>0, <2>1, <3>1 DEF Begin, Goto, Script
    <3>2. CASE NoDraw(s)
      BY <1>0, <3>2 DEF NoDraw, Done, Idle
    <3> QED BY <1>6, <3>1, <3>2
  <2> QED BY <1>0, <1>1, <2>1, <2>2, ElsewhereStep
<1>7. CASE /\ Look(s) \/ Probe(s) \/ ProbeAgain(s) \/ StartClient(s) \/ NextId(s)
              \/ PutJob(s) \/ Poll(s) \/ Kill(s) \/ Pop(s) \/ StopClient(s) \/ Die(s)
           /\ script[s].port # p
  <2>1. script[s].port \in Ports
    BY <1>0, <1>7 DEF Look, Probe, ProbeAgain, StartClient, NextId, PutJob, Poll, Kill,
       Pop, StopClient, Die, Script
  <2>2. script'[s].port # p /\ \A t \in Scripts \ {s} : script'[t] = script[t]
    <3>1. CASE Done(s)
      BY <1>0, <3>1 DEF Done, Idle
    <3>2. ASSUME NEW at, Goto(s, at)
          PROVE  script'[s].port # p /\ \A t \in Scripts \ {s} : script'[t] = script[t]
      BY <1>0, <1>7, <3>2 DEF Goto, Script
    <3>3. CASE Look(s) \/ Probe(s) \/ ProbeAgain(s) \/ PutJob(s)
      <4>1. CASE Look(s)
        BY <1>0, <1>7, <3>2, <4>1 DEF Look, Script
      <4>2. CASE Probe(s)
        BY <1>0, <1>7, <4>2 DEF Probe, Script
      <4>3. CASE ProbeAgain(s)
        BY <1>0, <1>7, <3>1, <4>3 DEF ProbeAgain, Script
      <4>4. CASE PutJob(s)
        BY <1>0, <1>7, <4>4 DEF PutJob, Script
      <4> QED BY <3>3, <4>1, <4>2, <4>3, <4>4
    <3> QED BY <1>7, <3>1, <3>2, <3>3 DEF StartClient, NextId, Poll, Kill, Pop, StopClient, Die
  <2>3. handles'[p] = handles[p]
    BY <1>0, <1>7, <2>1 DEF Look, Probe, ProbeAgain, StartClient, NextId, PutJob, Poll,
       Kill, Pop, StopClient, Die
  <2>4. \A t \in Scripts :
          server[t].port = p \/ server'[t].port = p => server'[t] = server[t]
    <3>1. CASE UNCHANGED server
      BY <3>1
    <3>2. CASE Look(s)
      <4>1. server[s].port # p
        BY <1>1, <1>7 DEF PortInv, Users
      <4> QED BY <1>0, <1>7, <3>1, <3>2, <4>1 DEF Look
    <3>3. CASE Kill(s)
      BY <1>0, <1>7, <3>1, <3>3 DEF Kill
    <3> QED BY <1>7, <3>1, <3>2, <3>3 DEF Probe, ProbeAgain, StartClient, NextId, PutJob,
       Poll, Pop, StopClient, Die
  <2> QED BY <1>1, <1>7, <2>2, <2>3, <2>4, ElsewhereStep
<1>8. CASE Listen(s) /\ script[s].port # p
  <2>1. UNCHANGED <<script, handles>> /\ server[s].port # p
    BY <1>1, <1>8 DEF Listen, PortInv, Users
  <2>2. \A t \in Scripts :
          server[t].port = p \/ server'[t].port = p => server'[t] = server[t]
    BY <1>0, <1>8, <2>1 DEF Listen
  <2> QED BY <1>1, <1>8, <2>1, <2>2, ElsewhereStep
<1>9. CASE ClientEnds(s)
  BY <1>2, <1>9 DEF ClientEnds
<1>10. CASE CallFails(s) /\ script[s].port # p
  <2>1. /\ UNCHANGED <<handles, server>>
        /\ \/ script' = [script EXCEPT ![s].at = "kill", ![s].job = 0]
           \/ Goto(s, "kill")
           \/ Done(s)
    BY <1>10 DEF CallFails
  <2>2. script'[s].port # p /\ \A t \in Scripts \ {s} : script'[t] = script[t]
    BY <1>0, <1>10, <2>1 DEF Goto, Done, Idle, Script
  <2> QED BY <1>1, <1>10, <2>1, <2>2, ElsewhereStep
<1> QED BY <1>3, <1>4, <1>5, <1>6, <1>7, <1>8, <1>9, <1>10 DEF Step

(* The invariant of the ports, with the types. *)
LEMMA PortsAlways == Spec => [](IInv /\ PortsInv)
<1>1. Init => PortsInv
  BY DEF Init, PortsInv, PortInv, Users, At, Idle, Served
<1>2. IInv /\ PortsInv /\ [Next]_vars => IInv' /\ PortsInv'
  <2>1. CASE Next
    BY <2>1, TypeStep, PortsStep DEF Next
  <2>2. CASE UNCHANGED vars
    BY <2>2 DEF vars, IInv, TypeOK, Known, Waiting, At, PortsInv, PortInv, Users
  <2> QED BY <2>1, <2>2
<1> QED BY <1>1, <1>2, TypeInit, PTL DEF Spec

(* A script that is alone on its port, and has not been left there by an   *)
(* earlier one, has a listening server from the start of its client to its *)
(* own finally, whatever the scripts on other ports do.                    *)
THEOREM ServerStaysHolds == Spec => []ServerStays
<1>1. IInv /\ PortsInv => ServerStays
  <2> SUFFICES ASSUME IInv, PortsInv, NEW s \in Scripts,
                      At(s) \in {"client", "number", "put", "poll", "kill"},
                      script[s].port \notin hurt
               PROVE  Listening(script[s].port)
    BY DEF ServerStays
  <2>1. script[s].port \in Ports
    BY DEF IInv, TypeOK, Known, Script
  <2>2. s \in Users(script[s].port) /\ At(s) \in Served
    BY DEF Users, Served
  <2> QED BY <2>1, <2>2 DEF PortsInv, PortInv, Listening
<1> QED BY <1>1, PortsAlways, PTL

(* A port no script uses has neither a server nor a handle, unless two     *)
(* scripts shared it, or one was killed there, gave its server up, or lost *)
(* a call about its server.                                                *)
THEOREM CleansUpHolds == Spec => []CleansUp
<1>1. IInv /\ PortsInv => CleansUp
  <2> SUFFICES ASSUME IInv, PortsInv, NEW p \in Ports \ hurt, Users(p) = {}
               PROVE  handles[p] = None /\ \A s \in Scripts : server[s].port # p
    BY DEF CleansUp
  <2> QED BY DEF PortsInv, PortInv
<1> QED BY <1>1, PortsAlways, PTL
=============================================================================
