-------------------------- MODULE HostPrep_proofs --------------------------
(***************************************************************************)
(* Proofs about HostPrep, for any number of podiums and of other threads,  *)
(* any platforms and whatever may happen.                                  *)
(***************************************************************************)
EXTENDS HostPrep, TLAPS

USE PrepAssumption

(* What is noted is noted for good, or hidden by something worse.          *)
Noted == trouble \cap Worst # {}
Keeps(t) ==
    /\ t \subseteq Troubles
    /\ Noted => t \cap Worst # {}
    /\ "torn" \in trouble => t \cap (Worst \cup {"torn"}) # {}
    /\ "unrefreshed" \in trouble => t \cap (Worst \cup {"unrefreshed"}) # {}
    /\ t = {} => trouble = {}

(* Trouble, once noted, stays noted. *)
LEMMA TroubleStep == trouble \subseteq Troubles /\ [Next]_vars => Keeps(trouble')
<1> SUFFICES ASSUME trouble \subseteq Troubles, [Next]_vars PROVE Keeps(trouble')
  OBVIOUS
<1> USE DEF Keeps, With, Troubles, Worst, Noted, Agents
<1>1. ASSUME NEW p \in Agents, Construct(p) PROVE Keeps(trouble')
  BY <1>1 DEF Construct, Enter, Mixed
<1>2. ASSUME NEW p \in Agents, Remove(p) PROVE Keeps(trouble')
  BY <1>2 DEF Remove
<1>3. ASSUME NEW p \in Agents, Wait(p) PROVE Keeps(trouble')
  BY <1>3 DEF Wait
<1>4. ASSUME NEW p \in Agents, Exists(p) PROVE Keeps(trouble')
  BY <1>4 DEF Exists
<1>5. ASSUME NEW p \in Agents, Lock(p) PROVE Keeps(trouble')
  BY <1>5 DEF Lock
<1>6. ASSUME NEW p \in Agents, Copy(p) PROVE Keeps(trouble')
  BY <1>6 DEF Copy
<1>7. ASSUME NEW p \in Agents, Copied(p) PROVE Keeps(trouble')
  BY <1>7 DEF Copied
<1>8. ASSUME NEW p \in Agents, Unlock(p) PROVE Keeps(trouble')
  BY <1>8 DEF Unlock
<1>9. ASSUME NEW p \in Agents, AddHost(p) PROVE Keeps(trouble')
  BY <1>9 DEF AddHost, Enter, Mixed
<1>10. ASSUME NEW p \in Agents, Stop(p) PROVE Keeps(trouble')
  BY <1>10 DEF Stop, Tried, Fail
<1>11. ASSUME NEW p \in Agents, CopyEgg(p) PROVE Keeps(trouble')
  BY <1>11 DEF CopyEgg
<1>12. ASSUME NEW p \in Agents, Put(p) PROVE Keeps(trouble')
  BY <1>12 DEF Put, Fail
<1>13. ASSUME NEW p \in Agents, Config(p) PROVE Keeps(trouble')
  BY <1>13 DEF Config, Command, Fail
<1>14. ASSUME NEW p \in Agents, Unit(p) PROVE Keeps(trouble')
  BY <1>14 DEF Unit, Command, Fail
<1>15. ASSUME NEW p \in Agents, Firewall(p) PROVE Keeps(trouble')
  BY <1>15 DEF Firewall, NoNumber, Command, Fail
<1>16. ASSUME NEW p \in Agents, Refresh(p) PROVE Keeps(trouble')
  BY <1>16 DEF Refresh
<1>17. ASSUME NEW p \in Agents, Start(p) PROVE Keeps(trouble')
  BY <1>17 DEF Start
<1>18. ASSUME NEW p \in Agents, AddEndpoints(p) PROVE Keeps(trouble')
  BY <1>18 DEF AddEndpoints
<1>19. ASSUME NEW p \in Agents, Added(p) PROVE Keeps(trouble')
  BY <1>19 DEF Added
<1>20. ASSUME NEW p \in Agents, Discover(p) PROVE Keeps(trouble')
  BY <1>20 DEF Discover, Mixed
<1>21. ASSUME NEW p \in Agents, Cleanup(p) PROVE Keeps(trouble')
  BY <1>21 DEF Cleanup, Mixed
<1>22. ASSUME NEW p \in Agents, CleanStop(p) PROVE Keeps(trouble')
  BY <1>22 DEF CleanStop, Tried, Fail
<1>23. ASSUME NEW p \in Agents, CleanConfig(p) PROVE Keeps(trouble')
  BY <1>23 DEF CleanConfig, Tried, Fail
<1>24. ASSUME NEW p \in Agents, CleanUnit(p) PROVE Keeps(trouble')
  BY <1>24 DEF CleanUnit, Tried, Fail
<1>25. ASSUME NEW p \in Agents, CleanEgg(p) PROVE Keeps(trouble')
  BY <1>25 DEF CleanEgg, Tried, Fail
<1>26. ASSUME NEW p \in Agents, Forget(p) PROVE Keeps(trouble')
  BY <1>26 DEF Forget
<1>27. ASSUME NEW p \in Agents, Crash(p) PROVE Keeps(trouble')
  BY <1>27 DEF Crash
<1>28. ASSUME NEW p \in Agents, CopyFails(p) PROVE Keeps(trouble')
  BY <1>28 DEF CopyFails
<1>29. ASSUME NEW p \in Others, AddOther(p) \/ OtherSent(p) PROVE Keeps(trouble')
  BY <1>29 DEF AddOther, OtherSent, Mixed
<1>30. CASE UNCHANGED vars
  BY <1>30 DEF vars
<1> QED
  BY <1>1, <1>2, <1>3, <1>4, <1>5, <1>6, <1>7, <1>8, <1>9, <1>10,
         <1>11, <1>12, <1>13, <1>14, <1>15, <1>16, <1>17, <1>18, <1>19, <1>20,
         <1>21, <1>22, <1>23, <1>24, <1>25, <1>26, <1>27, <1>28, <1>29, <1>30
  DEF Next, Calls, InstallStep, PrepStep

(* Where a podium may be. *)
Ats == {"out", "remove", "wait", "exists", "lock", "copy", "copying", "unlock",
        "idle", "stop", "egg", "put", "config", "unit", "firewall", "refresh",
        "start", "endpoints", "added",
        "cleanStop", "cleanConfig", "cleanUnit", "cleanEgg", "forget"}

(* Only hosts with a firewall get to its steps. *)
FirewallOnEsx == \A p \in Agents : At(p) \in {"firewall", "refresh"} => platform = "esx"

(* A step of a podium moves that podium and no other. *)
Moves(p, at) ==
    /\ podium' \in [Agents -> Podium]
    /\ podium'[p].at = at
    /\ \A q \in Agents \ {p} : podium'[q] = podium[q]

(* Goto moves a podium to the step it names. *)
LEMMA GotoMoves ==
    ASSUME podium \in [Agents -> Podium], NEW p \in Agents, NEW at \in Ats, Goto(p, at)
    PROVE  Moves(p, at)
<1>1. podium[p] \in Podium
  OBVIOUS
<1>2. [podium[p] EXCEPT !.at = at] \in Podium
  BY <1>1 DEF Podium, Ats
<1>3. podium' = [podium EXCEPT ![p] = [podium[p] EXCEPT !.at = at]]
  BY DEF Goto
<1>4. [podium[p] EXCEPT !.at = at].at = at
  BY <1>1 DEF Podium
<1> QED BY <1>2, <1>3, <1>4 DEF Moves

(* So does setting its whole record. *)
LEMMA SetMoves ==
    ASSUME podium \in [Agents -> Podium], NEW p \in Agents, NEW r \in Podium,
           podium' = [podium EXCEPT ![p] = r]
    PROVE  Moves(p, r.at)
BY DEF Moves

(* Every step of a podium moves it to a step that there is, and to those   *)
(* of the firewall only on an ESX host; and it goes on to live.            *)
Goes(p) ==
    \E at \in Ats \ {"out"} :
      Moves(p, at) /\ (at \in {"firewall", "refresh"} => platform = "esx")

(* Goto, as a move that Goes allows. *)
LEMMA GotoGoes ==
    ASSUME podium \in [Agents -> Podium], NEW p \in Agents, NEW at \in Ats \ {"out"}, Goto(p, at),
           at \in {"firewall", "refresh"} => platform = "esx"
    PROVE  Goes(p)
BY GotoMoves DEF Goes

(* A new record, likewise. *)
LEMMA SetGoes ==
    ASSUME podium \in [Agents -> Podium], NEW p \in Agents, NEW r \in Podium,
           podium' = [podium EXCEPT ![p] = r],
           r.at \in {"firewall", "refresh"} => platform = "esx", r.at # "out"
    PROVE  Goes(p)
<1>1. r.at \in Ats \ {"out"}
  BY DEF Podium, Ats
<1> QED BY <1>1, SetMoves DEF Goes

(* The first step of a request, likewise. *)
LEMMA EnterGoes ==
    ASSUME podium \in [Agents -> Podium], NEW p \in Agents, NEW at \in Ats \ {"out", "firewall", "refresh"},
           Begins(p, at)
    PROVE  Goes(p)
<1> DEFINE r == [at |-> at, then |-> "idle", ok |-> TRUE]
<1>1. r \in Podium /\ r.at = at
  BY DEF Podium, Ats
<1>2. podium' = [podium EXCEPT ![p] = r]
  BY DEF Begins
<1> HIDE DEF r
<1> QED BY <1>1, <1>2, SetGoes

(* A failed step, likewise. *)
LEMMA NotOkGoes ==
    ASSUME podium \in [Agents -> Podium], NEW p \in Agents, NEW at \in Ats \ {"out", "firewall", "refresh"},
           podium' = [podium EXCEPT ![p].at = at, ![p].ok = FALSE]
    PROVE  Goes(p)
<1> DEFINE r == [podium[p] EXCEPT !.at = at, !.ok = FALSE]
<1>1. r \in Podium /\ r.at = at
  BY DEF Podium, Ats
<1>2. podium' = [podium EXCEPT ![p] = r]
  OBVIOUS
<1> HIDE DEF r
<1> QED BY <1>1, <1>2, SetGoes

(* A step after which the endpoints are added, likewise. *)
LEMMA ThenGoes ==
    ASSUME podium \in [Agents -> Podium], NEW p \in Agents, NEW at \in Ats \ {"out", "firewall", "refresh"},
           podium' = [podium EXCEPT ![p].at = at, ![p].then = "put"]
    PROVE  Goes(p)
<1> DEFINE r == [podium[p] EXCEPT !.at = at, !.then = "put"]
<1>1. r \in Podium /\ r.at = at
  BY DEF Podium, Ats
<1>2. podium' = [podium EXCEPT ![p] = r]
  OBVIOUS
<1> HIDE DEF r
<1> QED BY <1>1, <1>2, SetGoes

(* Every action of a podium is such a move. *)
LEMMA Moved ==
    ASSUME TypeOK, FirewallOnEsx, NEW p \in Agents,
           InstallStep(p) \/ PrepStep(p) \/ Construct(p) \/ AddHost(p) \/ Cleanup(p)
             \/ CopyFails(p) \/ AddOther(p)
    PROVE  Goes(p)
<1> USE DEF TypeOK, FirewallOnEsx, At, Ats
<1>1. podium[p].then \in Ats \ {"out", "firewall", "refresh"}
  BY DEF Podium
<1>2. CASE Construct(p)
  BY <1>2, EnterGoes DEF Construct, Enter
<1>3. CASE Remove(p)
  BY <1>3, GotoGoes DEF Remove
<1>4. CASE Wait(p)
  BY <1>4, GotoGoes DEF Wait
<1>5. CASE Exists(p)
  BY <1>5, <1>1, GotoGoes DEF Exists
<1>6. CASE Lock(p)
  BY <1>6, GotoGoes DEF Lock
<1>7. CASE Copy(p)
  BY <1>7, GotoGoes DEF Copy
<1>8. CASE Copied(p)
  BY <1>8, GotoGoes DEF Copied
<1>9. CASE Unlock(p)
  BY <1>9, <1>1, GotoGoes DEF Unlock
<1>10. CASE AddHost(p)
  BY <1>10, EnterGoes DEF AddHost, Enter
<1>11. CASE Stop(p)
  BY <1>11, GotoGoes, NotOkGoes, EnterGoes DEF Stop, Tried, Fail, Free
<1>12. CASE CopyEgg(p)
  BY <1>12, ThenGoes DEF CopyEgg
<1>13. CASE Put(p)
  BY <1>13, GotoGoes, EnterGoes DEF Put, Fail, Free
<1>14. CASE Config(p)
  BY <1>14, GotoGoes, EnterGoes DEF Config, Command, Fail, Free
<1>15. CASE Unit(p)
  BY <1>15, GotoGoes, EnterGoes DEF Unit, Command, Fail, Free
<1>16. CASE Firewall(p)
  BY <1>16, GotoGoes, NotOkGoes, EnterGoes DEF Firewall, NoNumber, Command, Fail, Free
<1>17. CASE Refresh(p)
  BY <1>17, GotoGoes, EnterGoes DEF Refresh, Free
<1>18. CASE Start(p)
  BY <1>18, GotoGoes, NotOkGoes DEF Start
<1>19. CASE AddEndpoints(p)
  BY <1>19, GotoGoes DEF AddEndpoints
<1>20. CASE Added(p)
  BY <1>20, EnterGoes DEF Added, Free
<1>21. CASE Cleanup(p)
  BY <1>21, EnterGoes DEF Cleanup
<1>22. CASE CleanStop(p)
  BY <1>22, GotoGoes, NotOkGoes, EnterGoes DEF CleanStop, Tried, Fail, Free
<1>23. CASE CleanConfig(p)
  BY <1>23, GotoGoes, NotOkGoes, EnterGoes DEF CleanConfig, Tried, Fail, Free
<1>24. CASE CleanUnit(p)
  BY <1>24, GotoGoes, NotOkGoes, EnterGoes DEF CleanUnit, Tried, Fail, Free
<1>25. CASE CleanEgg(p)
  BY <1>25, GotoGoes, NotOkGoes, EnterGoes DEF CleanEgg, Tried, Fail, Free
<1>26. CASE Forget(p)
  BY <1>26, EnterGoes DEF Forget, Free
<1>27. CASE CopyFails(p)
  BY <1>27, GotoGoes DEF CopyFails
<1>28. CASE AddOther(p)
  BY <1>28, EnterGoes DEF AddOther
<1> QED
  BY <1>2, <1>3, <1>4, <1>5, <1>6, <1>7, <1>8, <1>9, <1>10, <1>11,
     <1>12, <1>13, <1>14, <1>15, <1>16, <1>17, <1>18, <1>19, <1>20, <1>21,
     <1>22, <1>23, <1>24, <1>25, <1>26, <1>27, <1>28
  DEF InstallStep, PrepStep

(* A kill ends a podium and its threads, the end of a thread itself.       *)
Ends(dead) ==
    /\ podium' \in [Agents -> Podium]
    /\ \A a \in Agents : podium'[a] = IF a \in dead THEN Out ELSE podium[a]

LEMMA Ended ==
    ASSUME TypeOK
    PROVE  /\ \A p \in Podiums : Crash(p) => Ends(Crew(p))
           /\ \A o \in Others : OtherSent(o) => Ends({o})
<1>1. Out \in Podium
  BY DEF Out, Podium
<1>2. ASSUME NEW p \in Podiums, Crash(p) PROVE Ends(Crew(p))
  BY <1>1, <1>2 DEF Crash, Ends, TypeOK
<1>3. ASSUME NEW o \in Others, OtherSent(o) PROVE Ends({o})
  BY <1>1, <1>3 DEF OtherSent, Ends, TypeOK, Agents
<1> QED BY <1>2, <1>3

(* The host stays a host, and its firewall is left alone if it has none.   *)
HostOK(h) == h \in Host /\ (h.firewall # "closed" => platform = "esx")

(* The host keeps its type, and has a firewall on ESX only. *)
LEMMA HostStep ==
    ASSUME TypeOK, FirewallOnEsx, [Next]_vars PROVE HostOK(host')
<1> USE DEF TypeOK, HostOK, Host
<1>1. ASSUME NEW p \in Agents, AddHost(p) PROVE HostOK(host')
  BY <1>1 DEF AddHost
<1>2. ASSUME NEW p \in Agents, Stop(p) PROVE HostOK(host')
  BY <1>2 DEF Stop, Tried, Fail, Running
<1>3. ASSUME NEW p \in Agents, Put(p) PROVE HostOK(host')
  BY <1>3 DEF Put, Fail, Whole
<1>4. ASSUME NEW p \in Agents, Config(p) PROVE HostOK(host')
  BY <1>4 DEF Config, Command, Fail
<1>5. ASSUME NEW p \in Agents, Unit(p) PROVE HostOK(host')
  BY <1>5 DEF Unit, Command, Fail
<1>6. ASSUME NEW p \in Agents, Firewall(p) PROVE HostOK(host')
  BY <1>6 DEF Firewall, NoNumber, Command, Fail, FirewallOnEsx, At
<1>7. ASSUME NEW p \in Agents, Refresh(p) PROVE HostOK(host')
  BY <1>7 DEF Refresh, FirewallOnEsx, At
<1>8. ASSUME NEW p \in Agents, Start(p) PROVE HostOK(host')
  BY <1>8 DEF Start, Started, Running
<1>9. ASSUME NEW p \in Agents, CleanStop(p) PROVE HostOK(host')
  BY <1>9 DEF CleanStop, Tried, Fail
<1>10. ASSUME NEW p \in Agents, CleanConfig(p) PROVE HostOK(host')
  BY <1>10 DEF CleanConfig, Tried, Fail
<1>11. ASSUME NEW p \in Agents, CleanUnit(p) PROVE HostOK(host')
  BY <1>11 DEF CleanUnit, Tried, Fail
<1>12. ASSUME NEW p \in Agents, CleanEgg(p) PROVE HostOK(host')
  BY <1>12 DEF CleanEgg, Tried, Fail
<1>13. CASE UNCHANGED host
  BY <1>13
<1> QED
  BY <1>1, <1>2, <1>3, <1>4, <1>5, <1>6, <1>7, <1>8, <1>9, <1>10,
     <1>11, <1>12, <1>13
  DEF vars, Next, Calls, InstallStep, PrepStep, Agents,
      Construct, Remove, Wait, Exists, Lock, Copy, Copied,
      Unlock, CopyEgg, AddEndpoints, Added, Discover, Cleanup, Forget,
      Crash, CopyFails, AddOther, OtherSent

TypeInv == TypeOK /\ FirewallOnEsx

(* The typing invariant is inductive ... *)
LEMMA TypeStep == TypeInv /\ [Next]_vars => TypeInv'
<1> SUFFICES ASSUME TypeInv, [Next]_vars PROVE TypeInv'
  OBVIOUS
<1>1. trouble' \subseteq Troubles
  BY TroubleStep DEF TypeInv, TypeOK, Keeps
<1>2. host' \in Host /\ (host'.firewall # "closed" => platform = "esx")
  BY HostStep DEF TypeInv, HostOK
<1>3. platform' = platform
  BY DEF vars, Next, Calls, InstallStep, PrepStep,
      Construct, Remove, Wait, Exists, Lock, Copy, Copied,
      Unlock, AddHost, Stop, CopyEgg, Put, Config, Unit,
      Firewall, Refresh, Start, AddEndpoints, Added, Discover, Cleanup,
      CleanStop, CleanConfig, CleanUnit, CleanEgg, Forget, Crash,
      CopyFails, AddOther, OtherSent
<1>4. podium' \in [Agents -> Podium] /\ FirewallOnEsx'
  <2>1. CASE UNCHANGED podium
    BY <2>1, <1>3 DEF TypeInv, TypeOK, FirewallOnEsx, At
  <2>2. ASSUME NEW p \in Agents, Goes(p) PROVE podium' \in [Agents -> Podium] /\ FirewallOnEsx'
    BY <2>2, <1>3 DEF TypeInv, FirewallOnEsx, At, Goes, Moves
  <2>3. ASSUME NEW dead, Ends(dead) PROVE podium' \in [Agents -> Podium] /\ FirewallOnEsx'
    BY <2>3, <1>3 DEF TypeInv, FirewallOnEsx, At, Ends, Out
  <2>4. Podiums \subseteq Agents /\ Others \subseteq Agents
    BY DEF Agents
  <2> QED
    BY <2>1, <2>2, <2>3, <2>4, Moved, Ended DEF TypeInv, Next, Calls, vars, Discover
<1>5. egg' \in {"none", "torn", "file"} /\ writers' \subseteq Agents
  BY DEF TypeInv, TypeOK, vars, Next, Calls, InstallStep, PrepStep,
      Construct, Remove, Wait, Exists, Lock, Copy, Copied,
      Unlock, AddHost, Stop, CopyEgg, Put, Config, Unit,
      Firewall, Refresh, Start, AddEndpoints, Added, Discover, Cleanup,
      CleanStop, CleanConfig, CleanUnit, CleanEgg, Forget, Crash,
      CopyFails, AddOther, OtherSent
<1>6. lock' \in BOOLEAN
  BY DEF TypeInv, TypeOK, vars, Next, Calls, InstallStep, PrepStep,
      Construct, Remove, Wait, Exists, Lock, Copy, Copied,
      Unlock, AddHost, Stop, CopyEgg, Put, Config, Unit,
      Firewall, Refresh, Start, AddEndpoints, Added, Discover, Cleanup,
      CleanStop, CleanConfig, CleanUnit, CleanEgg, Forget, Crash,
      CopyFails, AddOther, OtherSent
<1>7. known' \subseteq Podiums
  BY DEF TypeInv, TypeOK, vars, Next, Calls, InstallStep, PrepStep,
      Construct, Remove, Wait, Exists, Lock, Copy, Copied,
      Unlock, AddHost, Stop, CopyEgg, Put, Config, Unit,
      Firewall, Refresh, Start, AddEndpoints, Added, Discover, Cleanup,
      CleanStop, CleanConfig, CleanUnit, CleanEgg, Forget, Crash,
      CopyFails, AddOther, OtherSent
<1> QED BY <1>1, <1>2, <1>3, <1>4, <1>5, <1>6, <1>7 DEF TypeInv, TypeOK

(* ... and holds at first. *)
LEMMA TypeInit == Init => TypeInv
<1> SUFFICES ASSUME Init PROVE TypeInv
  OBVIOUS
<1>1. Out \in Podium /\ Out.at = "out"
  BY DEF Out, Podium
<1>2. podium \in [Agents -> Podium] /\ FirewallOnEsx
  BY <1>1 DEF Init, FirewallOnEsx, At
<1>3. host \in Host /\ host.firewall = "closed"
  BY DEF Init, Host
<1> QED BY <1>2, <1>3 DEF Init, TypeInv, TypeOK

(* TypeCorrect: every reachable state is well typed, and only an ESX       *)
(* host's firewall is ever touched.                                        *)
THEOREM TypeCorrect == Spec => []TypeOK
<1>1. Init => TypeInv
  BY TypeInit
<1>2. TypeInv => TypeOK
  BY DEF TypeInv
<1> QED BY <1>1, <1>2, TypeStep, PTL DEF Spec

-----------------------------------------------------------------------------
(* Whoever writes the egg is copying it; it is cut short only by what is   *)
(* noted; the threads of a podium end with it; two podiums do not work at  *)
(* once without that being noted.                                          *)
Home(a) == IF a \in Podiums THEN a ELSE Owner[a]
WritersCopy == \A q \in writers : At(q) = "copying"
TornFile == egg = "torn" => Noted
HomeIn == \A o \in Others : o \in Busy => At(Owner[o]) # "out"
Alone == \A a, b \in Busy : Home(a) = Home(b) \/ Noted

(* As long as nothing is noted the egg is made by constructors only, each  *)
(* of which is alone; before the first there may be none, after it the egg *)
(* is whole.                                                               *)
Made ==
    /\ \A a \in Agents : Constructing(a) => a \in Podiums /\ Busy \subseteq {a}
    /\ \A a \in Agents : AtEgg(a) => Constructing(a)
    /\ \A a \in Agents : At(a) \in {"copying", "unlock"} => egg = "file"
    /\ Whole \/ (\A a \in Agents : At(a) = "out") \/ (\E a \in Agents : Constructing(a))

EggInv == WritersCopy /\ TornFile /\ HomeIn /\ Alone /\ (Noted \/ Made) /\ WholeEgg

(* A move of one agent leaves the others where they are. *)
LEMMA OthersStay ==
    ASSUME TypeInv, NEW p \in Agents, Goes(p)
    PROVE  \A q \in Agents \ {p} : At(q)' = At(q) /\ podium'[q] = podium[q]
BY DEF Goes, Moves, At

(* Whoever writes the egg is copying it, after every step. *)
LEMMA WritersStep == TypeInv /\ WritersCopy /\ [Next]_vars => WritersCopy'
<1> SUFFICES ASSUME TypeInv, WritersCopy, [Next]_vars PROVE WritersCopy'
  OBVIOUS
<1> USE DEF TypeInv, TypeOK, Agents
<1>1. CASE UNCHANGED <<podium, writers>>
  BY <1>1 DEF WritersCopy, At
<1>2. ASSUME NEW p \in Agents, Copy(p) PROVE WritersCopy'
  <2>1. Goto(p, "copying") /\ writers' = writers \cup {p}
    BY <1>2 DEF Copy
  <2>2. Moves(p, "copying")
    BY <2>1, GotoMoves DEF Ats
  <2> QED BY <2>1, <2>2 DEF WritersCopy, Moves, At
<1>3. ASSUME NEW p \in Agents, Copied(p) \/ Remove(p) \/ CopyFails(p) PROVE WritersCopy'
  <2>1. \A q \in Agents \ {p} : At(q)' = At(q)
    BY <1>3, Moved, OthersStay DEF InstallStep
  <2>2. writers' \subseteq writers \ {p}
    BY <1>3 DEF Copied, Remove, CopyFails, WritersCopy
  <2> QED BY <2>1, <2>2 DEF WritersCopy
<1>4. ASSUME NEW p \in Agents, Goes(p), writers' = writers, At(p) # "copying" PROVE WritersCopy'
  BY <1>4, OthersStay DEF WritersCopy
<1>5. ASSUME NEW p \in Agents,
             Wait(p) \/ Exists(p) \/ Lock(p) \/ Unlock(p) \/ CopyEgg(p) \/ PrepStep(p)
               \/ Construct(p) \/ AddHost(p) \/ Cleanup(p) \/ AddOther(p)
      PROVE  WritersCopy'
  <2>1. Goes(p)
    BY <1>5, Moved DEF InstallStep
  <2>2. writers' = writers /\ At(p) # "copying"
    BY <1>5 DEF PrepStep,
      Construct, Wait, Exists, Lock, Unlock, AddHost, Stop,
      CopyEgg, Put, Config, Unit, Firewall, Refresh, Start,
      AddEndpoints, Added, Discover, Cleanup, CleanStop, CleanConfig, CleanUnit,
      CleanEgg, Forget, AddOther
  <2> QED BY <2>1, <2>2, <1>4
<1>6. ASSUME NEW o \in Others, OtherSent(o) PROVE WritersCopy'
  BY <1>6 DEF OtherSent, WritersCopy, At
<1>7. ASSUME NEW p \in Podiums, Crash(p) PROVE WritersCopy'
  <2>1. writers' \subseteq writers \ Crew(p)
    BY <1>7 DEF Crash
  <2>2. \A a \in Agents \ Crew(p) : podium'[a] = podium[a]
    BY <1>7, Ended DEF Ends
  <2> QED BY <2>1, <2>2 DEF WritersCopy, At
<1> QED
  BY <1>1, <1>2, <1>3, <1>5, <1>6, <1>7 DEF vars, Next, Calls, InstallStep, Discover

(* A note on trouble stays. *)
LEMMA NotedStays == TypeInv /\ [Next]_vars => (Noted => Noted')
BY TroubleStep DEF TypeInv, TypeOK, Keeps, Noted

(* What a kill and a bad copy are noted as. *)
LEMMA Notes ==
    /\ \A p : Crash(p) => Noted'
    /\ \A p : CopyFails(p) => Noted'
    /\ trouble' = With({"mixed"}) => Noted'
BY DEF Crash, CopyFails, With, Noted, Worst

(* What a step makes of a podium's record. *)
LEMMA StepIs ==
    ASSUME TypeOK, NEW p \in Agents
    PROVE  /\ \A at : Goto(p, at) =>
                podium'[p].at = at /\ podium'[p].then = podium[p].then /\ podium'[p].ok = podium[p].ok
           /\ Free(p) => podium'[p].at = "idle" /\ podium'[p].ok
           /\ \A at : podium' = [podium EXCEPT ![p].at = at, ![p].ok = FALSE] =>
                podium'[p].at = at /\ ~podium'[p].ok
           /\ \A at : podium' = [podium EXCEPT ![p].at = at, ![p].then = "put"] =>
                podium'[p].at = at /\ podium'[p].then = "put" /\ podium'[p].ok = podium[p].ok
           /\ \A at : Begins(p, at) =>
                podium'[p].at = at /\ podium'[p].then = "idle" /\ podium'[p].ok
<1>1. podium[p] \in Podium /\ DOMAIN podium = Agents
  BY DEF TypeOK
<1>2. podium[p].ok \in BOOLEAN
  BY <1>1 DEF Podium
<1> QED BY <1>1, <1>2 DEF Goto, Free, Begins, Podium

(* Whoever makes a step of an installation or a preparation is at work. *)
LEMMA AtWork ==
    ASSUME NEW a \in Agents, InstallStep(a) \/ PrepStep(a) \/ OtherSent(a)
    PROVE  a \in Busy
BY DEF Busy, InstallStep, PrepStep, OtherSent,
   Remove, Wait, Exists, Lock, Copy, Copied, Unlock,
   Stop, CopyEgg, Put, Config, Unit, Firewall, Refresh,
   Start, AddEndpoints, Added, CleanStop, CleanConfig, CleanUnit, CleanEgg,
   Forget

(* The threads of a podium end with it. *)
LEMMA HomeStep == TypeInv /\ HomeIn /\ [Next]_vars => HomeIn'
<1> SUFFICES ASSUME TypeInv, HomeIn, [Next]_vars PROVE HomeIn'
  OBVIOUS
<1> USE DEF Agents
<1>0. \A o \in Others : Owner[o] \in Podiums /\ o # Owner[o]
  OBVIOUS
<1>1. CASE UNCHANGED podium
  BY <1>1 DEF HomeIn, Busy, At
<1>2. ASSUME NEW p \in Agents, Goes(p), p \in Podiums \/ p \in Busy PROVE HomeIn'
  <2>1. At(p)' # "out"
    BY <1>2 DEF Goes, Moves, At
  <2>2. \A o \in Others : (o \in Busy)' => o = p \/ o \in Busy
    BY <1>2, OthersStay DEF Busy
  <2> QED BY <1>0, <1>2, <2>1, <2>2, OthersStay DEF HomeIn
<1>3. ASSUME NEW o \in Others, AddOther(o) PROVE HomeIn'
  <2>1. Goes(o) /\ At(Owner[o]) # "out"
    BY <1>3, Moved DEF TypeInv, AddOther, Adds, AtEgg
  <2> QED BY <1>0, <2>1, OthersStay DEF HomeIn, Busy
<1>4. ASSUME NEW o \in Others, OtherSent(o) PROVE HomeIn'
  <2>1. \A a \in Agents : At(a)' = IF a = o THEN "out" ELSE At(a)
    BY <1>4, Ended DEF TypeInv, Ends, At, Out
  <2> QED BY <1>0, <2>1 DEF HomeIn, Busy
<1>5. ASSUME NEW p \in Podiums, Crash(p) PROVE HomeIn'
  <2>1. \A a \in Agents : At(a)' = IF a \in Crew(p) THEN "out" ELSE At(a)
    BY <1>5, Ended DEF TypeInv, Ends, At, Out
  <2>2. \A o \in Others : o \in Crew(p) <=> Owner[o] \in Crew(p)
    BY <1>0 DEF Crew
  <2> QED BY <1>0, <2>1, <2>2 DEF HomeIn, Busy
<1>6. ASSUME NEW a \in Agents, CopyFails(a) PROVE a \in Busy
  BY <1>6 DEF CopyFails, Busy
<1> QED
  BY <1>1, <1>2, <1>3, <1>4, <1>5, <1>6, Moved, AtWork DEF TypeInv, vars, Next, Calls, Discover

(* Podiums at work at once are noted, after every step. *)
LEMMA AloneStep == TypeInv /\ HomeIn /\ Alone /\ [Next]_vars => Alone'
<1> SUFFICES ASSUME TypeInv, HomeIn, Alone, [Next]_vars, ~Noted' PROVE Alone'
  BY DEF Alone
<1> USE DEF Agents
<1>1. ~Noted
  BY NotedStays
<1>2. CASE Busy' \subseteq Busy
  BY <1>1, <1>2 DEF Alone
<1>3. ASSUME NEW a \in Agents, Goes(a), \A b \in Busy : Home(b) = Home(a) PROVE Alone'
  <2>1. Busy' \subseteq Busy \cup {a}
    BY <1>3, OthersStay DEF Busy
  <2> QED BY <1>3, <2>1 DEF Alone
<1>4. ASSUME NEW p \in Podiums, Busy \subseteq Crew(p)
      PROVE  \A b \in Busy : Home(b) = p
  BY <1>4 DEF Crew, Home
<1>5. ASSUME NEW p \in Podiums, Construct(p) \/ AddHost(p) \/ Cleanup(p) PROVE Alone'
  <2>1. Goes(p) /\ Home(p) = p
    BY <1>5, Moved DEF TypeInv, Home
  <2>2. Busy \subseteq Crew(p)
    <3>1. CASE Construct(p) \/ AddHost(p)
      BY <3>1, Notes DEF Construct, AddHost, Enter, Mixed
    <3>2. CASE Cleanup(p)
      <4>1. ASSUME ~(Busy \subseteq Crew(p)) PROVE FALSE
        BY <3>2, <4>1 DEF Cleanup, Mixed, With, Noted, Worst
      <4> QED BY <4>1
    <3> QED BY <1>5, <3>1, <3>2
  <2> QED BY <2>1, <2>2, <1>3, <1>4
<1>6. ASSUME NEW o \in Others, AddOther(o) PROVE Alone'
  <2>1. Goes(o) /\ Home(o) = Owner[o] /\ Owner[o] \in Podiums
    BY <1>6, Moved DEF TypeInv, Home
  <2>2. Busy \subseteq Crew(Owner[o])
    BY <1>6, Notes DEF AddOther, Mixed
  <2> QED BY <2>1, <2>2, <1>3, <1>4
<1>7. ASSUME NEW a \in Agents, InstallStep(a) \/ PrepStep(a) PROVE Alone'
  <2>1. Goes(a) /\ a \in Busy
    BY <1>7, Moved, AtWork DEF TypeInv
  <2> QED BY <1>1, <1>3, <2>1 DEF Alone
<1>8. ASSUME NEW o \in Others, OtherSent(o) PROVE Alone'
  <2>1. \A a \in Agents : At(a)' = IF a = o THEN "out" ELSE At(a)
    BY <1>8, Ended DEF TypeInv, Ends, At, Out
  <2>2. Busy' \subseteq Busy
    BY <2>1 DEF Busy
  <2> QED BY <2>2, <1>2
<1>9. CASE UNCHANGED podium
  <2>1. Busy' = Busy
    BY <1>9 DEF Busy, At
  <2> QED BY <2>1, <1>2
<1> QED BY <1>5, <1>6, <1>7, <1>8, <1>9, Notes DEF vars, Next, Calls, Discover

(* While anybody works elsewhere than at the egg, the egg is whole and     *)
(* nobody is at it.                                                        *)
LEMMA Clear ==
    ASSUME Made, NEW a \in Agents, a \in Busy, ~AtEgg(a)
    PROVE  Whole /\ \A b \in Agents : ~AtEgg(b)
<1>1. \A b \in Agents : ~AtEgg(b)
  BY DEF Made, Constructing
<1> QED BY <1>1 DEF Made, Constructing, Busy

(* So it stays then, whoever moves to another place than the egg.          *)
LEMMA ClearStays ==
    ASSUME Whole, UNCHANGED <<egg, writers>>, \A b \in Agents : ~AtEgg(b)'
    PROVE  Made'
BY DEF Made, Whole, Constructing, AtEgg

(* Where a step of a preparation leads. *)
LEMMA PrepLeaves ==
    ASSUME TypeOK, NEW p \in Agents, PrepStep(p)
    PROVE  ~AtEgg(p) /\ ~AtEgg(p)'
<1> USE DEF AtEgg, At
<1>0. podium[p] \in Podium /\ DOMAIN podium = Agents
  BY DEF TypeOK
<1>1. \A at : Goto(p, at) => podium'[p].at = at
  BY <1>0 DEF Goto, Podium
<1>2. Free(p) => podium'[p].at = "idle"
  BY <1>0 DEF Free, Begins
<1>3. \A at : podium' = [podium EXCEPT ![p].at = at, ![p].ok = FALSE] => podium'[p].at = at
  BY <1>0 DEF Podium
<1>4. CASE Stop(p) \/ Put(p) \/ Config(p) \/ Unit(p)
  BY <1>1, <1>2, <1>3, <1>4 DEF Stop, Put, Config, Unit, Tried, Command, Fail
<1>5. CASE Firewall(p) \/ Refresh(p) \/ Start(p) \/ AddEndpoints(p) \/ Added(p)
  BY <1>1, <1>2, <1>3, <1>5 DEF Firewall, Refresh, Start, AddEndpoints, Added, NoNumber,
     Command, Fail
<1>6. CASE CleanStop(p) \/ CleanConfig(p) \/ CleanUnit(p) \/ CleanEgg(p) \/ Forget(p)
  BY <1>1, <1>2, <1>3, <1>6 DEF CleanStop, CleanConfig, CleanUnit, CleanEgg, Forget, Tried, Fail
<1> QED BY <1>4, <1>5, <1>6 DEF PrepStep


(* Made, after every step with nothing noted: the installations ...        *)
LEMMA InstallMade ==
    ASSUME TypeInv, EggInv, Made, ~Noted, NEW a \in Agents, InstallStep(a)
    PROVE  Made'
<1> USE DEF InstallStep
<1>1. TypeOK /\ Goes(a) /\ a \in Busy
  BY Moved, AtWork DEF TypeInv
<1>2. \A b \in Agents \ {a} : At(b)' = At(b) /\ podium'[b] = podium[b]
  BY <1>1, OthersStay
<1>3. CASE CopyEgg(a)
  <2>1. ~AtEgg(a)
    BY <1>3 DEF CopyEgg, AtEgg
  <2>2. Whole /\ \A b \in Agents : ~AtEgg(b)
    BY <1>1, <2>1, Clear
  <2>3. podium' = [podium EXCEPT ![a].at = "put", ![a].then = "put"] /\ UNCHANGED <<egg, writers>>
    BY <1>3, <2>2 DEF CopyEgg, Whole
  <2>4. At(a)' = "put"
    BY <1>1, <2>3, StepIs DEF At
  <2> QED BY <1>2, <2>2, <2>3, <2>4, ClearStays DEF AtEgg
<1>4. CASE ~CopyEgg(a)
  <2>1. AtEgg(a)
    BY <1>4 DEF AtEgg, Remove, Wait, Exists, Lock, Copy, Copied, Unlock
  <2>2. Constructing(a) /\ a \in Podiums /\ Busy \subseteq {a}
    BY <2>1 DEF Made
  <2>3. podium'[a].then = "idle" /\ podium[a].then = "idle"
    BY <1>1, <1>4, <2>2, StepIs
    DEF Constructing, Remove, Wait, Exists, Lock, Copy, Copied, Unlock
  <2>4. \A b \in Agents \ {a} : ~AtEgg(b)'
    BY <1>2, <2>2 DEF Busy, AtEgg
  <2>5. Busy' \subseteq {a}
    BY <1>2, <2>2 DEF Busy
  <2>6. egg # "torn" /\ egg' # "torn"
    BY <1>4 DEF EggInv, TornFile, Remove, Wait, Exists, Lock, Copy, Copied, Unlock
  <2>7. At(a) # "copying" => writers = {}
    BY <2>2 DEF EggInv, WritersCopy, Busy, TypeInv, TypeOK
  <2>8. CASE AtEgg(a)' /\ (At(a)' \in {"copying", "unlock"} => egg' = "file")
    BY <2>2, <2>3, <2>4, <2>5, <2>8 DEF Made, Constructing, AtEgg
  <2>9. CASE At(a)' = "idle" /\ Whole'
    BY <2>4, <2>9 DEF Made, Constructing, AtEgg
  <2>10. CASE Exists(a)
    <3>1. Goto(a, IF egg = "none" THEN "lock" ELSE "idle") /\ UNCHANGED <<egg, writers>>
          /\ writers = {}
      BY <2>3, <2>7, <2>10 DEF Exists
    <3>2. CASE egg = "none"
      BY <1>1, <2>8, <3>1, <3>2, StepIs DEF AtEgg, At
    <3>3. CASE egg # "none"
      <4>1. At(a)' = "idle"
        BY <1>1, <3>1, <3>3, StepIs DEF At
      <4> QED BY <1>1, <2>6, <2>9, <3>1, <3>3, <4>1 DEF Whole, TypeOK
    <3> QED BY <3>2, <3>3
  <2>11. CASE Unlock(a)
    <3>1. At(a)' = "idle"
      BY <1>1, <2>3, <2>11, StepIs DEF Unlock, At
    <3>2. egg = "file" /\ writers = {}
      BY <2>7, <2>11 DEF Unlock, Made
    <3> QED BY <2>9, <2>11, <3>1, <3>2 DEF Unlock, Whole
  <2>12. CASE Remove(a) \/ Wait(a) \/ Lock(a)
    BY <1>1, <2>8, <2>12, StepIs DEF Remove, Wait, Lock, At, AtEgg
  <2>13. CASE Copy(a)
    BY <1>1, <2>8, <2>13, StepIs DEF Copy, At, AtEgg
  <2>14. CASE Copied(a)
    <3>1. egg = "file" /\ egg' = egg
      BY <2>14 DEF Copied, Made
    <3> QED BY <1>1, <2>8, <2>14, <3>1, StepIs DEF Copied, At, AtEgg
  <2> QED BY <1>4, <2>10, <2>11, <2>12, <2>13, <2>14
<1> QED BY <1>3, <1>4

(* ... and the rest: a constructor is alone, a thread starts under a       *)
(* podium that is past its constructor.                                    *)
LEMMA MadeStep == TypeInv /\ EggInv /\ [Next]_vars => Noted' \/ Made'
<1> SUFFICES ASSUME TypeInv, EggInv, [Next]_vars, ~Noted' PROVE Made'
  OBVIOUS
<1>now. ~Noted /\ Made /\ TypeOK /\ Podiums \subseteq Agents /\ Others \subseteq Agents
  BY NotedStays DEF EggInv, TypeInv, Agents
<1>1. CASE UNCHANGED <<podium, egg, writers>>
  <2>1. \A a \in Agents : At(a)' = At(a) /\ AtEgg(a)' = AtEgg(a)
                          /\ Constructing(a)' = Constructing(a)
    BY <1>1 DEF At, AtEgg, Constructing
  <2>2. Busy' = Busy /\ Whole' = Whole
    BY <1>1, <2>1 DEF Busy, Whole
  <2> QED BY <1>1, <1>now, <2>1, <2>2 DEF Made
<1>2. ASSUME NEW p \in Podiums, Construct(p) \/ AddHost(p) \/ Cleanup(p) PROVE Busy \subseteq Crew(p)
  <2>1. CASE Construct(p) \/ AddHost(p)
    BY <2>1, Notes DEF Construct, AddHost, Enter, Mixed
  <2>2. CASE Cleanup(p)
    <3>1. ASSUME ~(Busy \subseteq Crew(p)) PROVE FALSE
      BY <2>2, <3>1 DEF Cleanup, Mixed, With, Noted, Worst
    <3> QED BY <3>1
  <2> QED BY <1>2, <2>1, <2>2
<1>3. ASSUME NEW p \in Podiums, Construct(p) PROVE Made'
  <2>1. Busy = {}
    <3>1. p \notin Busy /\ \A o \in Others : Owner[o] = p => o \notin Busy
      BY <1>3 DEF Construct, Busy, EggInv, HomeIn
    <3> QED BY <1>2, <1>3, <3>1 DEF Crew
  <2>2. At(p)' \in {"remove", "wait"} /\ podium'[p].then = "idle" /\ Goes(p)
    BY <1>3, <1>now, Moved, StepIs DEF Construct, Enter, At, TypeInv
  <2>3. \A b \in Agents \ {p} : At(b)' \in {"out", "idle"}
    BY <1>now, <2>1, <2>2, OthersStay DEF Busy
  <2>4. Busy' \subseteq {p}
    BY <2>3 DEF Busy
  <2> QED BY <1>now, <2>2, <2>3, <2>4 DEF Made, Constructing, AtEgg
<1>4. ASSUME NEW a \in Agents, Goes(a), ~AtEgg(a)', UNCHANGED <<egg, writers>>,
             Whole, \A b \in Agents : ~AtEgg(b)
      PROVE  Made'
  <2>1. \A b \in Agents : ~AtEgg(b)'
    BY <1>4, OthersStay DEF AtEgg
  <2> QED BY <1>4, <2>1, ClearStays
<1>5. ASSUME NEW p \in Podiums, AddHost(p) \/ Cleanup(p) PROVE Made'
  <2>1. At(p) = "idle" /\ UNCHANGED <<egg, writers>> /\ Goes(p)
    BY <1>5, <1>now, Moved DEF AddHost, Cleanup, TypeInv
  <2>2. At(p)' \in {"stop", "cleanStop"}
    BY <1>5, <1>now, StepIs DEF AddHost, Cleanup, Enter, At
  <2>3. ASSUME NEW c \in Agents, AtEgg(c) PROVE FALSE
    <3>1. Constructing(c) /\ c \in Podiums /\ c \in Busy
      BY <2>3, <1>now DEF Made, AtEgg, Busy
    <3>2. c = p
      BY <1>2, <1>5, <3>1 DEF Crew
    <3> QED BY <2>1, <2>3, <3>2 DEF AtEgg
  <2>4. Whole
    BY <1>now, <2>1, <2>3 DEF Made, Constructing
  <2> QED BY <1>now, <2>1, <2>2, <2>3, <2>4, <1>4 DEF AtEgg
<1>6. ASSUME NEW o \in Others, AddOther(o) PROVE Made'
  <2>1. Goes(o) /\ At(o)' = "egg" /\ UNCHANGED <<egg, writers>> /\ Adds(Owner[o])
    BY <1>6, <1>now, Moved, StepIs DEF AddOther, At, TypeInv
  <2>2. Owner[o] \in Busy /\ ~AtEgg(Owner[o])
    BY <1>now, <2>1 DEF Adds, AtEgg, Busy, Made
  <2>3. Whole /\ \A b \in Agents : ~AtEgg(b)
    BY <1>now, <2>2, Clear
  <2> QED BY <1>now, <2>1, <2>3, <1>4 DEF AtEgg
<1>7. ASSUME NEW o \in Others, OtherSent(o) PROVE Made'
  <2>1. o \in Busy /\ ~AtEgg(o) /\ UNCHANGED <<egg, writers>>
    BY <1>7, <1>now, AtWork DEF OtherSent, AtEgg
  <2>2. Whole /\ \A b \in Agents : ~AtEgg(b)
    BY <1>now, <2>1, Clear
  <2>3. \A a \in Agents : At(a)' = IF a = o THEN "out" ELSE At(a)
    BY <1>7, <1>now, Ended DEF Ends, At, Out
  <2> QED BY <2>1, <2>2, <2>3, ClearStays DEF AtEgg
<1>8. ASSUME NEW p \in Podiums, PrepStep(p) PROVE Made'
  <2>1. p \in Busy /\ ~AtEgg(p) /\ ~AtEgg(p)' /\ Goes(p)
    BY <1>8, <1>now, AtWork, PrepLeaves, Moved DEF TypeInv
  <2>2. UNCHANGED <<egg, writers>>
    BY <1>8 DEF PrepStep, Stop, Put, Config, Unit, Firewall, Refresh,
      Start, AddEndpoints, Added, CleanStop, CleanConfig, CleanUnit, CleanEgg, Forget
  <2>3. Whole /\ \A b \in Agents : ~AtEgg(b)
    BY <1>now, <2>1, Clear
  <2> QED BY <1>now, <2>1, <2>2, <2>3, <1>4
<1> QED
  BY <1>1, <1>3, <1>5, <1>6, <1>7, <1>8, <1>now, InstallMade, Notes
  DEF Next, Calls, Discover, vars

(* The egg is cut short, and a host gets half of it, only if that is noted. *)
LEMMA EggStep == TypeInv /\ EggInv /\ [Next]_vars => TornFile' /\ WholeEgg'
<1> SUFFICES ASSUME TypeInv, EggInv, [Next]_vars PROVE TornFile' /\ WholeEgg'
  OBVIOUS
<1>now. Keeps(trouble') /\ host \in Host /\ Podiums \subseteq Agents /\ Others \subseteq Agents
  BY TroubleStep DEF TypeInv, TypeOK, Agents
<1>1. TornFile'
  <2>1. egg' = "torn" => egg = "torn" \/ Noted'
    BY Notes DEF vars, Next, Calls, InstallStep, PrepStep,
      Construct, Remove, Wait, Exists, Lock, Copy, Copied,
      Unlock, AddHost, Stop, CopyEgg, Put, Config, Unit,
      Firewall, Refresh, Start, AddEndpoints, Added, Discover, Cleanup,
      CleanStop, CleanConfig, CleanUnit, CleanEgg, Forget, AddOther, OtherSent
  <2> QED BY <2>1, NotedStays DEF EggInv, TornFile
<1>2. ASSUME host'.egg = "torn" => host.egg = "torn" PROVE WholeEgg'
  <2>1. trouble \cap {"crash", "torn", "mixed", "badcopy"} # {} =>
          trouble' \cap {"crash", "torn", "mixed", "badcopy"} # {}
    BY <1>now DEF Keeps, Noted, Worst
  <2> QED BY <1>2, <2>1 DEF EggInv, WholeEgg
<1>3. ASSUME NEW p \in Podiums, Put(p) PROVE WholeEgg'
  <2>1. CASE Noted
    BY <1>now, <2>1 DEF Noted, Worst, Keeps, WholeEgg
  <2>2. CASE ~Noted
    <3>1. Whole
      BY <1>3, <1>now, <2>2, Clear DEF EggInv, Put, Busy, AtEgg
    <3>2. CASE trouble' = With({"failed", "torn"})
      <4>1. trouble' \cap {"crash", "torn", "mixed", "badcopy"} # {}
        BY <3>2 DEF With
      <4> QED BY <4>1 DEF WholeEgg
    <3>3. CASE trouble' # With({"failed", "torn"})
      <4>1. host'.egg = "torn" => host.egg = "torn"
        BY <1>3, <1>now, <3>1, <3>3 DEF Put, Fail, Host
      <4> QED BY <4>1, <1>2
    <3> QED BY <3>2, <3>3
  <2> QED BY <2>1, <2>2
<1>4. ASSUME \A p \in Podiums : ~Put(p) PROVE host'.egg = "torn" => host.egg = "torn"
  <2> USE <1>now DEF Host
  <2>1. CASE host' = host
    BY <2>1
  <2>2. ASSUME NEW p, AddHost(p) PROVE host'.egg = host.egg
    BY <2>2 DEF AddHost
  <2>3. ASSUME NEW p, Stop(p) PROVE host'.egg = host.egg
    BY <2>3 DEF Stop, Tried, Fail, Running
  <2>4. ASSUME NEW p, Config(p) PROVE host'.egg = host.egg
    BY <2>4 DEF Config, Command, Fail
  <2>5. ASSUME NEW p, Unit(p) PROVE host'.egg = host.egg
    BY <2>5 DEF Unit, Command, Fail
  <2>6. ASSUME NEW p, Firewall(p) PROVE host'.egg = host.egg
    BY <2>6 DEF Firewall, NoNumber, Command, Fail
  <2>7. ASSUME NEW p, Refresh(p) PROVE host'.egg = host.egg
    BY <2>7 DEF Refresh
  <2>8. ASSUME NEW p, Start(p) PROVE host'.egg = host.egg
    BY <2>8 DEF Start, Started, Running
  <2>9. ASSUME NEW p, CleanStop(p) PROVE host'.egg \in {host.egg, "none"}
    BY <2>9 DEF CleanStop, Tried, Fail
  <2>10. ASSUME NEW p, CleanConfig(p) PROVE host'.egg = host.egg
    BY <2>10 DEF CleanConfig, Tried, Fail
  <2>11. ASSUME NEW p, CleanUnit(p) PROVE host'.egg = host.egg
    BY <2>11 DEF CleanUnit, Tried, Fail
  <2>12. ASSUME NEW p, CleanEgg(p) PROVE host'.egg \in {host.egg, "none"}
    BY <2>12 DEF CleanEgg, Tried, Fail
  <2> QED
    BY <1>4, <2>1, <2>2, <2>3, <2>4, <2>5, <2>6, <2>7, <2>8, <2>9, <2>10, <2>11, <2>12
    DEF vars, Next, Calls, InstallStep, PrepStep,
      Construct, Remove, Wait, Exists, Lock, Copy, Copied,
      Unlock, CopyEgg, AddEndpoints, Added, Discover, Cleanup, Forget,
      Crash, CopyFails, AddOther, OtherSent
<1> QED BY <1>1, <1>2, <1>3, <1>4

(* Together. *)
LEMMA EggInvStep == TypeInv /\ EggInv /\ [Next]_vars => EggInv'
BY WritersStep, HomeStep, AloneStep, MadeStep, EggStep DEF EggInv

LEMMA EggInit == Init => EggInv
<1> SUFFICES ASSUME Init PROVE EggInv
  OBVIOUS
<1>1. \A a \in Agents : At(a) = "out"
  BY DEF Init, At, Out
<1>2. Made /\ HomeIn /\ Alone
  BY <1>1 DEF Made, HomeIn, Alone, Busy, Constructing, AtEgg
<1> QED BY <1>2 DEF Init, EggInv, WritersCopy, TornFile, WholeEgg

(* WholeEggHolds: for any number of podiums and of threads in which they   *)
(* prepare hosts at the same time (podium.py:248-250), a host has half an  *)
(* egg only if a podium was killed, a transfer broke, the egg was badly    *)
(* made or copied (install.py:132-135), or two podiums worked at once:     *)
(* threads of one podium never meet an egg under way, for its constructor  *)
(* has made it before them.                                                *)
THEOREM WholeEggHolds == Spec => []WholeEgg
<1>1. EggInv => WholeEgg
  BY DEF EggInv
<1> QED BY <1>1, TypeInit, TypeStep, EggInit, EggInvStep, PTL DEF Spec

-----------------------------------------------------------------------------
(***************************************************************************)
(* What add_host makes of a host.                                          *)
(***************************************************************************)
Clean == trouble \cap (Worst \cup {"unrefreshed"}) = {}

(* A podium that is at s on its way to copy_egg installs the egg.          *)
Installing(s) ==
    s.at \in {"remove", "wait", "exists", "lock", "copy", "copying", "unlock"} /\ s.then = "put"

(* How far a call without a failed command has brought the host h: what    *)
(* runs was there before the call, then nothing runs; the egg, the         *)
(* configuration, the service file and the firewall's rule are there, one  *)
(* after the other; and the service runs, within reach.                    *)
Ready(s, h) ==
    /\ s.at = "stop" => h.run # "fresh"
    /\ s.at \in {"egg", "put", "config", "unit", "firewall", "refresh", "start"} \/ Installing(s) =>
         h.run = "off"
    /\ s.at \in {"config", "unit", "firewall", "refresh", "start"} => h.egg = "whole"
    /\ s.at \in {"unit", "firewall", "refresh", "start"} => h.config
    /\ s.at \in {"firewall", "refresh", "start"} => h.unit
    /\ s.at = "start" /\ platform = "esx" => h.firewall = "open"
    /\ s.at \in {"endpoints", "added"} =>
         h.run = "fresh" /\ (platform = "esx" => h.firewall = "open")

(* A firewall file is put in force by the call that wrote it, or never.    *)
Written == host.firewall = "written" => \E p \in Podiums : At(p) = "refresh"

AddedInv ==
    Clean => Written /\ \A p \in Podiums : podium[p].ok => Ready(podium[p], host)

(* What is clean was clean before, and one podium works at a time.         *)
LEMMA OneWorks ==
    ASSUME TypeInv, EggInv, [Next]_vars, Clean'
    PROVE  /\ Clean /\ ~Noted /\ ~Noted'
           /\ \A p : ~Crash(p) /\ ~CopyFails(p)
           /\ \A p \in Podiums :
                InstallStep(p) \/ PrepStep(p) \/ Construct(p) \/ AddHost(p) \/ Cleanup(p) =>
                  Busy \cap Podiums \subseteq {p}
<1>1. Clean /\ ~Noted /\ ~Noted'
  BY TroubleStep DEF TypeInv, TypeOK, Keeps, Clean, Noted
<1>2. \A p : ~Crash(p) /\ ~CopyFails(p)
  BY <1>1, Notes
<1>3. ASSUME NEW p \in Podiums, InstallStep(p) \/ PrepStep(p)
      PROVE  Busy \cap Podiums \subseteq {p}
  <2>1. p \in Busy
    BY <1>3, AtWork DEF Agents
  <2> QED BY <2>1, <1>1 DEF EggInv, Alone, Home
<1>4. ASSUME NEW p \in Podiums, Construct(p) \/ AddHost(p) \/ Cleanup(p)
      PROVE  Busy \cap Podiums \subseteq {p}
  <2>1. Busy \subseteq Crew(p)
    <3>1. CASE Construct(p) \/ AddHost(p)
      BY <1>1, <3>1, Notes DEF Construct, AddHost, Enter, Mixed
    <3>2. CASE Cleanup(p)
      <4>1. ASSUME ~(Busy \subseteq Crew(p)) PROVE FALSE
        BY <1>1, <3>2, <4>1 DEF Cleanup, Mixed, With, Noted, Worst
      <4> QED BY <4>1
    <3> QED BY <1>4, <3>1, <3>2
  <2> QED BY <2>1 DEF Crew
<1> QED BY <1>1, <1>2, <1>3, <1>4

(* A podium that works alone gets the host ready, step by step.            *)
LEMMA ReadyStep ==
    ASSUME TypeInv, EggInv, AddedInv, Clean, NEW p \in Podiums, Busy \cap Podiums \subseteq {p},
           InstallStep(p) \/ PrepStep(p) \/ Construct(p) \/ AddHost(p) \/ Cleanup(p),
           podium'[p].ok
    PROVE  Ready(podium'[p], host')
<1> USE DEF Installing, Running
<1>now. /\ host \in Host /\ podium[p] \in Podium /\ platform' = platform
        /\ podium[p].ok => Ready(podium[p], host)
        /\ podium[p].then \in {"idle", "put"} /\ TypeOK /\ p \in Agents
  <2>1. platform' = platform
    BY DEF InstallStep, PrepStep,
      Construct, Remove, Wait, Exists, Lock, Copy, Copied,
      Unlock, AddHost, Stop, CopyEgg, Put, Config, Unit,
      Firewall, Refresh, Start, AddEndpoints, Added, Cleanup,
      CleanStop, CleanConfig, CleanUnit, CleanEgg, Forget
  <2> QED BY <2>1 DEF TypeInv, TypeOK, AddedInv, Podium, Agents
<1>away. podium'[p].at \in {"idle", "cleanStop", "cleanConfig", "cleanUnit", "cleanEgg", "forget"}
           => Ready(podium'[p], host')
  BY DEF Ready
<1>1. CASE Construct(p)
  BY <1>1, <1>now, StepIs DEF Construct, Enter, Ready
<1>2. CASE AddHost(p)
  <2>1. podium'[p].at = "stop"
    BY <1>2, <1>now, StepIs DEF AddHost, Enter
  <2>2. host'.run # "fresh"
    BY <1>2, <1>now DEF AddHost, Host
  <2> QED BY <2>1, <2>2 DEF Ready
<1>3. CASE Cleanup(p)
  BY <1>3, <1>now, <1>away, StepIs DEF Cleanup
<1>4. CASE InstallStep(p) /\ ~CopyEgg(p)
  <2>1. host' = host /\ podium'[p].then = podium[p].then /\ podium'[p].ok = podium[p].ok
        /\ \/ Installing(podium[p]) /\ (Installing(podium'[p]) \/ podium'[p].at = "put")
           \/ /\ podium[p].then = "idle"
              /\ podium'[p].at \in {"idle", "remove", "wait", "exists", "lock", "copy", "copying", "unlock"}
    BY <1>4, <1>now, StepIs DEF InstallStep, Remove, Wait, Exists, Lock, Copy, Copied, Unlock, At
  <2>2. podium'[p].at \notin {"stop", "config", "unit", "firewall", "refresh", "start", "endpoints", "added"}
    BY <2>1
  <2> QED BY <2>1, <2>2, <1>now DEF Ready
<1>5. CASE Stop(p)
  BY <1>5, <1>now, <1>away, StepIs DEF Stop, Tried, Fail, Ready, Host, At
<1>6. CASE CopyEgg(p)
  <2> DEFINE at == IF egg = "none" THEN "wait" ELSE "put"
  <2>1. podium' = [podium EXCEPT ![p].at = at, ![p].then = "put"] /\ host' = host
        /\ podium[p].at = "egg"
    BY <1>6 DEF CopyEgg, At
  <2>2. at \in {"wait", "put"}
    OBVIOUS
  <2> HIDE DEF at
  <2>3. podium'[p].at = at /\ podium'[p].ok = podium[p].ok
    BY <2>1, <1>now, StepIs
  <2> QED BY <2>1, <2>2, <2>3, <1>now DEF Ready
<1>7. CASE Put(p)
  <2>1. p \in Busy /\ ~AtEgg(p) /\ ~Noted
    BY <1>7, <1>now, AtWork DEF PrepStep, Put, AtEgg, Clean, Noted
  <2>2. Whole
    BY <1>now, <2>1, Clear DEF EggInv
  <2> QED BY <1>7, <2>2, <1>now, <1>away, StepIs DEF Put, Fail, Ready, Host, At
<1>8. CASE Config(p)
  BY <1>8, <1>now, <1>away, StepIs DEF Config, Command, Fail, Ready, Host, At
<1>9. CASE Unit(p)
  BY <1>9, <1>now, <1>away, StepIs DEF Unit, Command, Fail, Ready, Host, At
<1>10. CASE Firewall(p)
  <2>1. host.firewall # "written"
    BY <1>10 DEF Firewall, AddedInv, Written, Busy, Agents
  <2> QED BY <1>10, <2>1, <1>now, <1>away, StepIs DEF Firewall, NoNumber, Command, Fail, Ready, Host, At
<1>11. CASE Refresh(p)
  BY <1>11, <1>now, <1>away, StepIs DEF Refresh, Ready, Host, At
<1>12. CASE Start(p)
  BY <1>12, <1>now, StepIs DEF Start, Started, Ready, Host, At
<1>13. CASE AddEndpoints(p)
  BY <1>13, <1>now, StepIs DEF AddEndpoints, Ready, At
<1>14. CASE Added(p) \/ Forget(p)
  BY <1>14, <1>now, <1>away, StepIs DEF Added, Forget
<1>15. CASE CleanStop(p) \/ CleanConfig(p) \/ CleanUnit(p) \/ CleanEgg(p)
  BY <1>15, <1>now, <1>away, StepIs DEF CleanStop, CleanConfig, CleanUnit, CleanEgg, Tried, Fail
<1> QED
  BY <1>1, <1>2, <1>3, <1>4, <1>5, <1>6, <1>7, <1>8, <1>9, <1>10, <1>11, <1>12, <1>13, <1>14, <1>15
  DEF PrepStep

(* Who writes the firewall file goes on to put it in force.                *)
LEMMA WrittenStep ==
    ASSUME TypeInv, Written, NEW p \in Podiums, Busy \cap Podiums \subseteq {p}, Clean',
           InstallStep(p) \/ PrepStep(p) \/ Construct(p) \/ AddHost(p) \/ Cleanup(p)
    PROVE  Written'
<1>now. host \in Host /\ TypeOK /\ p \in Agents
  BY DEF TypeInv, TypeOK, Agents
<1>1. CASE Refresh(p)
  <2>1. trouble' # With({"failed", "unrefreshed"})
    BY DEF With, Clean, Worst
  <2>2. host'.firewall = "open"
    BY <1>1, <2>1, <1>now DEF Refresh, Host
  <2> QED BY <2>2 DEF Written
<1>2. CASE Firewall(p)
  <2>1. host.firewall # "written"
    BY <1>2 DEF Firewall, Written, Busy, Agents
  <2>2. host' = host \/ podium'[p].at = "refresh"
    BY <1>2, <1>now, StepIs DEF Firewall, NoNumber, Command, Fail
  <2> QED BY <2>1, <2>2 DEF Written, At
<1>3. CASE ~Refresh(p) /\ ~Firewall(p)
  <2>1. At(p) # "refresh"
    BY <1>3 DEF InstallStep, PrepStep,
      Construct, Remove, Wait, Exists, Lock, Copy, Copied,
      Unlock, AddHost, Stop, CopyEgg, Put, Config, Unit,
      Start, AddEndpoints, Added, Cleanup,
      CleanStop, CleanConfig, CleanUnit, CleanEgg, Forget
  <2>2. host.firewall # "written"
    BY <2>1 DEF Written, Busy, Agents
  <2>3. host'.firewall = host.firewall
    <3> USE DEF Host
    <3>1. CASE AddHost(p)
      BY <3>1, <1>now DEF AddHost
    <3>2. CASE Stop(p)
      BY <3>2, <1>now DEF Stop, Tried, Fail, Running
    <3>3. CASE Put(p)
      BY <3>3, <1>now DEF Put, Fail
    <3>4. CASE Config(p) \/ Unit(p)
      BY <3>4, <1>now DEF Config, Unit, Command, Fail
    <3>5. CASE Start(p)
      BY <3>5, <1>now DEF Start, Started, Running
    <3>6. CASE CleanStop(p) \/ CleanConfig(p) \/ CleanUnit(p) \/ CleanEgg(p)
      BY <3>6, <1>now DEF CleanStop, CleanConfig, CleanUnit, CleanEgg, Tried, Fail
    <3>7. CASE host' = host
      BY <3>7
    <3> QED
      BY <1>3, <3>1, <3>2, <3>3, <3>4, <3>5, <3>6, <3>7
      DEF InstallStep, PrepStep,
        Construct, Remove, Wait, Exists, Lock, Copy, Copied,
        Unlock, CopyEgg, AddEndpoints, Added, Cleanup, Forget
  <2> QED BY <2>2, <2>3 DEF Written
<1> QED BY <1>1, <1>2, <1>3

(* Threads for other hosts leave the host and the podiums alone.           *)
LEMMA OthersLeave ==
    ASSUME TypeOK, NEW o \in Others, InstallStep(o) \/ AddOther(o) \/ OtherSent(o)
    PROVE  /\ UNCHANGED <<platform, host, known>>
           /\ \A p \in Podiums : podium'[p] = podium[p]
<1>1. UNCHANGED <<platform, host, known>>
  BY DEF InstallStep, Remove, Wait, Exists, Lock, Copy, Copied, Unlock, CopyEgg,
     AddOther, OtherSent
<1>2. \E r : podium' = [podium EXCEPT ![o] = r]
  BY DEF InstallStep, Remove, Wait, Exists, Lock, Copy, Copied, Unlock, CopyEgg,
     AddOther, OtherSent, Goto, Begins
<1>3. \A p \in Podiums : podium'[p] = podium[p]
  BY <1>2 DEF TypeOK, Agents
<1> QED BY <1>1, <1>3

LEMMA AddedStep == TypeInv /\ EggInv /\ AddedInv /\ [Next]_vars => AddedInv'
<1> SUFFICES ASSUME TypeInv, EggInv, AddedInv, [Next]_vars, Clean'
             PROVE  Written' /\ \A p \in Podiums : podium'[p].ok => Ready(podium[p], host)'
  BY DEF AddedInv
<1>1. /\ Clean /\ Written /\ platform' = platform
      /\ \A p \in Podiums : podium[p].ok => Ready(podium[p], host)
  <2>1. platform' = platform
    BY DEF vars, Next, Calls, InstallStep, PrepStep,
      Construct, Remove, Wait, Exists, Lock, Copy, Copied,
      Unlock, AddHost, Stop, CopyEgg, Put, Config, Unit,
      Firewall, Refresh, Start, AddEndpoints, Added, Discover, Cleanup,
      CleanStop, CleanConfig, CleanUnit, CleanEgg, Forget, Crash,
      CopyFails, AddOther, OtherSent
  <2> QED BY <2>1, OneWorks DEF AddedInv
<1>2. CASE UNCHANGED <<podium, host>>
  BY <1>1, <1>2 DEF Written, At, Ready, Installing
<1>3. ASSUME NEW o \in Others, InstallStep(o) \/ AddOther(o) \/ OtherSent(o)
      PROVE  Written' /\ \A p \in Podiums : podium'[p].ok => Ready(podium[p], host)'
  <2>1. host' = host /\ \A p \in Podiums : podium'[p] = podium[p]
    BY <1>3, OthersLeave DEF TypeInv
  <2> QED BY <1>1, <2>1 DEF Written, At, Ready, Installing
<1>4. ASSUME NEW p \in Podiums,
             InstallStep(p) \/ PrepStep(p) \/ Construct(p) \/ AddHost(p) \/ Cleanup(p)
      PROVE  Written' /\ \A q \in Podiums : podium'[q].ok => Ready(podium[q], host)'
  <2>1. Busy \cap Podiums \subseteq {p} /\ Goes(p)
    BY <1>4, OneWorks, Moved DEF TypeInv, Agents
  <2>2. Written'
    BY <1>1, <1>4, <2>1, WrittenStep
  <2>3. podium'[p].ok => Ready(podium'[p], host')
    BY <1>1, <1>4, <2>1, ReadyStep
  <2>4. \A q \in Podiums \ {p} : podium'[q].at \in {"out", "idle"}
    BY <2>1 DEF Goes, Moves, Busy, At, Agents
  <2>5. \A q \in Podiums \ {p} : Ready(podium'[q], host')
    BY <2>4 DEF Ready, Installing
  <2>6. ASSUME NEW q \in Podiums, podium'[q].ok PROVE Ready(podium[q], host)'
    <3>1. Ready(podium'[q], host')
      BY <2>3, <2>5, <2>6
    <3> QED BY <3>1, <1>1 DEF Ready, Installing
  <2> QED BY <2>2, <2>6
<1> QED BY <1>2, <1>3, <1>4, OneWorks DEF Next, Calls, vars, Discover, Agents

LEMMA AddedInit == Init => AddedInv
BY DEF Init, AddedInv, Written, Ready, Installing, Out, Agents

(* AddedServesHolds: where no command of the call failed, the host serves  *)
(* what was just copied, whatever calls before it have left behind and     *)
(* whatever other hosts the podium prepares meanwhile, except a firewall   *)
(* file that was never put in force and an egg badly copied before         *)
(* (podium.py:213).                                                        *)
THEOREM AddedServesHolds == Spec => []AddedServes
<1>1. AddedInv => AddedServes
  BY DEF AddedInv, AddedServes, Clean, Ready, At, Reachable, Running
<1> QED BY <1>1, TypeInit, TypeStep, EggInit, EggInvStep, AddedInit, AddedStep, PTL DEF Spec

-----------------------------------------------------------------------------
(***************************************************************************)
(* What podiums know.                                                      *)
(***************************************************************************)
Cleaning(s) == s.at \in {"cleanStop", "cleanConfig", "cleanUnit", "cleanEgg", "forget"}
Preparing(s) ==
    s.at \in {"stop", "egg", "put", "config", "unit", "firewall", "refresh", "start"} \/ Installing(s)

(* While nothing has gone wrong, a host that is known and out of reach is  *)
(* being prepared again, or cleaned up by the one podium that knows it.    *)
KnownInv ==
    trouble = {} =>
      /\ \A p \in Podiums : podium[p].ok /\ (Cleaning(podium[p]) => known \subseteq {p})
      /\ known = {} \/ Reachable \/ \E p \in Podiums : Preparing(podium[p]) \/ Cleaning(podium[p])

(* A step without a failure, of a podium that works alone.                 *)
LEMMA KnownMove ==
    ASSUME TypeInv, AddedInv, KnownInv, trouble = {}, trouble' = {},
           NEW p \in Podiums, Busy \cap Podiums \subseteq {p},
           InstallStep(p) \/ PrepStep(p) \/ Construct(p) \/ AddHost(p) \/ Cleanup(p),
           podium'[p].ok => Ready(podium'[p], host')
    PROVE  /\ podium'[p].ok /\ (Cleaning(podium'[p]) => known' \subseteq {p})
           /\ known' = {} \/ Reachable' \/ Preparing(podium'[p]) \/ Cleaning(podium'[p])
<1> USE DEF Installing, Preparing, Cleaning
<1>now. /\ host \in Host /\ podium[p] \in Podium /\ platform' = platform
        /\ podium[p].ok /\ Ready(podium[p], host)
        /\ Cleaning(podium[p]) => known \subseteq {p}
        /\ known = {} \/ Reachable \/ Preparing(podium[p]) \/ Cleaning(podium[p])
        /\ podium[p].then \in {"idle", "put"} /\ TypeOK /\ p \in Agents
  <2>1. platform' = platform
    BY DEF InstallStep, PrepStep,
      Construct, Remove, Wait, Exists, Lock, Copy, Copied,
      Unlock, AddHost, Stop, CopyEgg, Put, Config, Unit,
      Firewall, Refresh, Start, AddEndpoints, Added, Cleanup,
      CleanStop, CleanConfig, CleanUnit, CleanEgg, Forget
  <2>2. podium[p].ok /\ Ready(podium[p], host)
    BY DEF KnownInv, AddedInv, Clean, Worst
  <2>3. \A q \in Podiums \ {p} : ~Preparing(podium[q]) /\ ~Cleaning(podium[q])
    BY DEF Busy, At, Agents
  <2> QED BY <2>1, <2>2, <2>3 DEF TypeInv, TypeOK, KnownInv, Podium, Agents
<1>never. \A new : new # {} => trouble' # With(new)
  BY DEF With
<1>same. ASSUME host' = host, Reachable PROVE Reachable'
  BY <1>same, <1>now DEF Reachable, Running
<1>1. CASE Construct(p)
  <2>1. podium'[p].at \in {"remove", "wait"} /\ podium'[p].then = "idle" /\ podium'[p].ok
    BY <1>1, <1>now, StepIs DEF Construct, Enter
  <2>2. host' = host /\ known' = known /\ podium[p].at = "out"
    BY <1>1 DEF Construct, At
  <2> QED BY <2>1, <2>2, <1>now, <1>same
<1>2. CASE AddHost(p)
  <2>1. podium'[p].at = "stop" /\ podium'[p].ok /\ known' = known
    BY <1>2, <1>now, StepIs DEF AddHost, Enter
  <2> QED BY <2>1
<1>3. CASE Cleanup(p)
  <2>1. podium'[p].at = "cleanStop" /\ podium'[p].ok /\ known' = known
    <3>1. Begins(p, "cleanStop") /\ known' = known
      BY <1>3 DEF Cleanup
    <3>2. TypeOK /\ p \in Agents
      BY <1>now
    <3> QED BY <3>1, <3>2, StepIs
  <2>2. known \subseteq {p}
    BY <1>3 DEF Cleanup, With
  <2> QED BY <2>1, <2>2
<1>4. CASE InstallStep(p) /\ ~CopyEgg(p)
  <2>1. host' = host /\ known' = known /\ podium'[p].ok = podium[p].ok
        /\ \/ Installing(podium[p]) /\ Preparing(podium'[p])
           \/ podium[p].then = "idle" /\ podium[p].at \in {"remove", "wait", "exists", "lock", "copy", "copying", "unlock"}
        /\ podium'[p].at \in {"idle", "put", "wait", "exists", "lock", "copy", "copying", "unlock"}
    BY <1>4, <1>now, StepIs DEF InstallStep, Remove, Wait, Exists, Lock, Copy, Copied, Unlock, At
  <2> QED BY <2>1, <1>now, <1>same
<1>5. CASE Stop(p) \/ CopyEgg(p) \/ Put(p) \/ Config(p) \/ Unit(p) \/ Firewall(p) \/ Refresh(p)
  <2>1. known' = known
    BY <1>5 DEF Stop, CopyEgg, Put, Config, Unit, Firewall, Refresh
  <2>2. ~Fail(p, host)
    BY <1>never DEF Fail
  <2>3. CASE Stop(p)
    BY <2>1, <2>2, <2>3, <1>now, <1>never, StepIs DEF Stop, Tried
  <2>4. CASE CopyEgg(p)
    <3> DEFINE at == IF egg = "none" THEN "wait" ELSE "put"
    <3>1. podium' = [podium EXCEPT ![p].at = at, ![p].then = "put"]
      BY <2>4 DEF CopyEgg
    <3>2. at \in {"wait", "put"}
      OBVIOUS
    <3> HIDE DEF at
    <3>3. podium'[p].at = at /\ podium'[p].then = "put" /\ podium'[p].ok = podium[p].ok
      BY <3>1, <1>now, StepIs
    <3> QED BY <3>2, <3>3, <2>1, <1>now
  <2>5. CASE Put(p)
    BY <2>1, <2>2, <2>5, <1>now, <1>never, StepIs DEF Put
  <2>6. CASE Config(p)
    BY <2>1, <2>2, <2>6, <1>now, StepIs DEF Config, Command
  <2>7. CASE Unit(p)
    BY <2>1, <2>2, <2>7, <1>now, StepIs DEF Unit, Command
  <2>8. CASE Firewall(p)
    BY <2>1, <2>2, <2>8, <1>now, <1>never, StepIs DEF Firewall, Command, NoNumber
  <2>9. CASE Refresh(p)
    BY <2>1, <2>9, <1>now, <1>never, StepIs DEF Refresh
  <2> QED BY <1>5, <2>3, <2>4, <2>5, <2>6, <2>7, <2>8, <2>9
<1>6. CASE Start(p)
  <2>1. podium'[p].at = "endpoints" /\ podium'[p].ok /\ known' = known
    BY <1>6, <1>now, <1>never, StepIs DEF Start
  <2>2. Reachable'
    BY <2>1, <1>now DEF Ready, Reachable, Running
  <2> QED BY <2>1, <2>2
<1>7. CASE AddEndpoints(p)
  <2>1. podium'[p].at = "added" /\ podium'[p].ok
    BY <1>7, <1>now, StepIs DEF AddEndpoints
  <2>2. Reachable'
    BY <2>1, <1>now DEF Ready, Reachable, Running
  <2> QED BY <2>1, <2>2
<1>8. CASE Added(p)
  <2>1. podium'[p].at = "idle" /\ podium'[p].ok /\ known' = known /\ host' = host
        /\ podium[p].at = "added"
    BY <1>8, <1>now, StepIs DEF Added, At
  <2>2. Reachable'
    BY <2>1, <1>now DEF Ready, Reachable, Running
  <2> QED BY <2>1, <2>2
<1>9. CASE CleanStop(p) \/ CleanConfig(p) \/ CleanUnit(p) \/ CleanEgg(p)
  <2>1. known' = known /\ Cleaning(podium[p])
    BY <1>9 DEF CleanStop, CleanConfig, CleanUnit, CleanEgg, At
  <2>2. ~Fail(p, host)
    BY <1>never DEF Fail
  <2>3. Cleaning(podium'[p]) /\ podium'[p].ok
    BY <1>9, <2>2, <1>now, <1>never, StepIs
    DEF CleanStop, CleanConfig, CleanUnit, CleanEgg, Tried
  <2> QED BY <2>1, <2>3, <1>now
<1>10. CASE Forget(p)
  <2>1. known' = known \ {p} /\ known \subseteq {p} /\ podium'[p].at = "idle" /\ podium'[p].ok
    BY <1>10, <1>now, StepIs DEF Forget, At
  <2> QED BY <2>1
<1> QED
  BY <1>1, <1>2, <1>3, <1>4, <1>5, <1>6, <1>7, <1>8, <1>9, <1>10 DEF PrepStep

LEMMA KnownStep == TypeInv /\ EggInv /\ AddedInv /\ KnownInv /\ [Next]_vars => KnownInv'
<1> SUFFICES ASSUME TypeInv, EggInv, AddedInv, KnownInv, [Next]_vars, trouble' = {}
             PROVE  KnownInv'
  BY DEF KnownInv
<1> USE DEF Preparing, Cleaning, Installing
<1>1. trouble = {} /\ Clean /\ Clean'
  <2>1. trouble = {}
    BY TroubleStep DEF TypeInv, TypeOK, Keeps
  <2> QED BY <2>1 DEF Clean, Worst
<1>2. CASE UNCHANGED <<podium, host, known, platform>>
  BY <1>1, <1>2 DEF KnownInv, Reachable, Running
<1>3. ASSUME NEW p \in Podiums, Discover(p) PROVE KnownInv'
  <2>1. Reachable /\ UNCHANGED <<host, platform, podium>>
    BY <1>3 DEF Discover
  <2>2. Reachable'
    BY <2>1 DEF Reachable, Running
  <2>3. Busy \subseteq Crew(p) /\ p \notin Busy
    BY <1>3 DEF Discover, Mixed, With, Busy
  <2>4. \A q \in Podiums : podium[q].ok /\ ~Cleaning(podium[q])
    BY <2>3, <1>1 DEF KnownInv, Busy, At, Agents, Crew
  <2> QED BY <2>1, <2>2, <2>4 DEF KnownInv
<1>4. ASSUME NEW o \in Others, InstallStep(o) \/ AddOther(o) \/ OtherSent(o) PROVE KnownInv'
  <2>1. UNCHANGED <<platform, host, known>> /\ \A p \in Podiums : podium'[p] = podium[p]
    BY <1>4, OthersLeave DEF TypeInv
  <2> QED BY <1>1, <2>1 DEF KnownInv, Reachable, Running
<1>5. ASSUME NEW p \in Podiums,
             InstallStep(p) \/ PrepStep(p) \/ Construct(p) \/ AddHost(p) \/ Cleanup(p)
      PROVE  KnownInv'
  <2>1. Busy \cap Podiums \subseteq {p} /\ Goes(p)
    BY <1>1, <1>5, OneWorks, Moved DEF TypeInv, Agents
  <2>2. \A q \in Podiums \ {p} : podium'[q] = podium[q] /\ podium'[q].at \in {"out", "idle"}
    BY <2>1 DEF Goes, Moves, Busy, At, Agents
  <2>3. podium'[p].ok => Ready(podium'[p], host')
    BY <1>1, <1>5, <2>1, ReadyStep
  <2>4. /\ podium'[p].ok /\ (Cleaning(podium'[p]) => known' \subseteq {p})
        /\ known' = {} \/ Reachable' \/ Preparing(podium'[p]) \/ Cleaning(podium'[p])
    BY <1>1, <1>5, <2>1, <2>3, KnownMove
  <2>5. \A q \in Podiums \ {p} : podium'[q].ok /\ ~Cleaning(podium'[q])
    BY <2>2, <1>1 DEF KnownInv
  <2> QED BY <2>4, <2>5 DEF KnownInv
<1> QED BY <1>2, <1>3, <1>4, <1>5, <1>1, OneWorks DEF Next, Calls, vars, Agents

LEMMA KnownInit == Init => KnownInv
BY DEF Init, KnownInv, Cleaning, Out, Agents

(* KnownServesHolds: a podium knows the endpoints of a host it can reach,  *)
(* as long as no command fails and no other podium works on the host or    *)
(* cleans it up (podium.py add_host, cleanup_hosts).                       *)
THEOREM KnownServesHolds == Spec => []KnownServes
<1>1. KnownInv => KnownServes
  BY DEF KnownInv, KnownServes, Preparing, Cleaning, Installing, Busy, At, Agents
<1> QED
  BY <1>1, TypeInit, TypeStep, EggInit, EggInvStep, AddedInit, AddedStep, KnownInit, KnownStep,
     PTL DEF Spec
=============================================================================
