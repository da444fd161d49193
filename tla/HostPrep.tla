------------------------------ MODULE HostPrep ------------------------------
(***************************************************************************)
(* How a host comes to run the service: a podium makes the egg of the      *)
(* program in its data directory (install_egg in lydian/utils/install.py), *)
(* copies it over SSH with the configuration and the service file, starts  *)
(* the service (lydian/utils/prep.py), and learns the host's endpoints     *)
(* (add_host, cleanup_hosts in lydian/apps/podium.py).                     *)
(*                                                                         *)
(* Podiums are processes on one machine: they share the data directory.    *)
(* There is one host, and threads in which a podium prepares other hosts   *)
(* at the same time (add_hosts): of those only what they do with the egg   *)
(* of the data directory is here.  A step is one remote command or file    *)
(* transfer, or one operation on the egg or on its lock file.              *)
(***************************************************************************)
EXTENDS FiniteSets

CONSTANTS
    Podiums,     \* podium processes
    Others,      \* threads that prepare other hosts
    Owner,       \* the podium of each of them
    Platforms,   \* what the host may be, a subset of {"ubuntu", "esx"}
    Allowed      \* what may happen, a subset of Disturbances

(* fail    a remote command has a nonzero status                           *)
(* cut     the connection to the host breaks, or cannot be made            *)
(* disk    the egg cannot be made, or its cp fails half-way                *)
(* crash   a podium is killed                                              *)
Disturbances == {"fail", "cut", "disk", "crash"}

ASSUME PrepAssumption ==
    /\ Podiums \cap Others = {} /\ Owner \in [Others -> Podiums]
    /\ Platforms \subseteq {"ubuntu", "esx"}
    /\ Allowed \subseteq Disturbances

VARIABLES
    platform,   \* what the host is
    egg,        \* lydian.egg in the data directory: "none", "torn", "file"
    writers,    \* whose cp is writing that file
    lock,       \* install.lock exists
    podium,     \* where each podium and each other thread is
    known,      \* podiums whose map of endpoints has the host's
    host,       \* the host
    trouble     \* what has gone wrong so far (history)

vars == <<platform, egg, writers, lock, podium, known, host, trouble>>

(* at:   the next step                                                     *)
(* then: what follows the installation of the egg                          *)
(* ok:   no command of the call under way has failed                       *)
Podium == [at : {"out", "remove", "wait", "exists", "lock", "copy", "copying", "unlock",
                 "idle", "stop", "egg", "put", "config", "unit", "firewall", "refresh",
                 "start", "endpoints", "added",
                 "cleanStop", "cleanConfig", "cleanUnit", "cleanEgg", "forget"},
           then : {"idle", "put"}, ok : BOOLEAN]
Out == [at |-> "out", then |-> "idle", ok |-> TRUE]

(* run: the service is off, was started before ("stale") or by the call    *)
(* under way or the last one ("fresh").  firewall: the rule is in the      *)
(* file, and is in force.                                                  *)
Host == [egg : {"none", "torn", "whole"}, config : BOOLEAN, unit : BOOLEAN,
         run : {"off", "stale", "fresh"}, firewall : {"closed", "written", "open"}]

Troubles == {"crash", "mixed", "badcopy", "torn", "unrefreshed", "failed"}

Agents == Podiums \cup Others
Crew(p) == {p} \cup {o \in Others : Owner[o] = p}

TypeOK ==
    /\ platform \in Platforms
    /\ egg \in {"none", "torn", "file"} /\ writers \subseteq Agents
    /\ lock \in BOOLEAN
    /\ podium \in [Agents -> Podium]
    /\ known \subseteq Podiums
    /\ host \in Host
    /\ trouble \subseteq Troubles
    /\ host.firewall # "closed" => platform = "esx"

Init ==
    /\ platform \in Platforms
    /\ egg \in {"none", "file"} /\ writers = {} /\ lock = FALSE
    /\ podium = [p \in Agents |-> Out]
    /\ known = {}
    /\ host = [egg |-> "none", config |-> FALSE, unit |-> FALSE, run |-> "off",
               firewall |-> "closed"]
    /\ trouble = {}

At(p) == podium[p].at
Goto(p, at) == podium' = [podium EXCEPT ![p].at = at]
Busy == {a \in Agents : At(a) \notin {"out", "idle"}}
(* A crash, the work of two podiums at once, or a bad copy of the egg      *)
(* hides what else went wrong: no property below asks for more then.       *)
Worst == {"crash", "mixed", "badcopy"}
With(new) ==
    LET all == trouble \cup new
    IN IF "crash" \in all THEN {"crash"}
       ELSE IF "mixed" \in all THEN {"mixed"}
       ELSE IF "badcopy" \in all THEN {"badcopy"} ELSE all
(* Bound of the model: after a crash or mixed work only the egg is         *)
(* followed further, by the podiums that are at it or start then.          *)
Further == trouble \cap {"crash", "mixed"} = {}
Mixed(p) == IF Busy \subseteq Crew(p) THEN {} ELSE {"mixed"}
Begins(a, at) == podium' = [podium EXCEPT ![a] = [at |-> at, then |-> "idle", ok |-> TRUE]]
Free(p) == Begins(p, "idle")
Enter(p, at) == Begins(p, at) /\ trouble' = With(Mixed(p))

(***************************************************************************)
(* The egg.                                                                *)
(***************************************************************************)
(* Podium.update_egg: a LOCAL egg is made anew, one to REUSE is kept.      *)
Construct(p) ==
    /\ At(p) = "out"
    /\ Enter(p, "remove") \/ Enter(p, "wait")
    /\ UNCHANGED <<platform, egg, writers, lock, known, host>>

(* remove_egg takes no notice of the lock. *)
Remove(p) ==
    /\ At(p) = "remove"
    /\ egg' = "none" /\ writers' = {}
    /\ Goto(p, "wait")
    /\ UNCHANGED <<platform, lock, known, host, trouble>>

(* install_egg: wait until there is no lock file; nothing to do if there   *)
(* is an egg; make the lock file.                                          *)
Wait(p) ==
    /\ At(p) = "wait" /\ ~lock
    /\ Goto(p, "exists")
    /\ UNCHANGED <<platform, egg, writers, lock, known, host, trouble>>

Exists(p) ==
    /\ At(p) = "exists"
    /\ Goto(p, IF egg = "none" THEN "lock" ELSE podium[p].then)
    /\ UNCHANGED <<platform, egg, writers, lock, known, host, trouble>>

Lock(p) ==
    /\ At(p) = "lock"
    /\ lock' = TRUE
    /\ Goto(p, "copy")
    /\ UNCHANGED <<platform, egg, writers, known, host, trouble>>

(* The zip file is made elsewhere and copied; cp truncates the egg first.  *)
Copy(p) ==
    /\ At(p) = "copy"
    /\ egg' = "file" /\ writers' = writers \cup {p}
    /\ Goto(p, "copying")
    /\ UNCHANGED <<platform, lock, known, host, trouble>>

(* Mutant: the copy is not waited for. *)
CopiedNot(p) ==
    /\ At(p) = "copying"
    /\ Goto(p, "unlock")
    /\ UNCHANGED <<platform, egg, writers, lock, known, host, trouble>>

Copied(p) ==
    /\ At(p) = "copying"
    /\ writers' = writers \ {p}
    /\ Goto(p, "unlock")
    /\ UNCHANGED <<platform, egg, lock, known, host, trouble>>

(* Mutant: the lock file stays. *)
UnlockNot(p) ==
    /\ At(p) = "unlock"
    /\ Goto(p, podium[p].then)
    /\ UNCHANGED <<platform, egg, writers, lock, known, host, trouble>>

Unlock(p) ==
    /\ At(p) = "unlock"
    /\ lock' = FALSE
    /\ Goto(p, podium[p].then)
    /\ UNCHANGED <<platform, egg, writers, known, host, trouble>>

(* What goes wrong with the egg is logged or not even seen, and the lock   *)
(* is removed all the same: the zip file or its lock cannot be made; the   *)
(* status of cp is not looked at.  (Once, and while trouble is not worse.) *)
CopyFails(p) ==
    /\ "disk" \in Allowed /\ trouble \cap Worst = {}
    /\ \/ At(p) \in {"lock", "copy"} /\ UNCHANGED <<egg, writers>>
       \/ /\ At(p) = "copying"
          /\ egg' = IF p \in writers THEN "torn" ELSE egg
          /\ writers' = writers \ {p}
    /\ Goto(p, "unlock")
    /\ trouble' = With({"badcopy"})
    /\ UNCHANGED <<platform, lock, known, host>>

Whole == egg = "file" /\ writers = {}

(* While its podium prepares the host, another one is: the egg is looked   *)
(* for, made if need be, and sent there.                                   *)
AtEgg(a) == At(a) \in {"remove", "wait", "exists", "lock", "copy", "copying", "unlock"}
HasLock(a) == At(a) \in {"copy", "copying", "unlock"}
Constructing(p) == AtEgg(p) /\ podium[p].then = "idle"
Adds(p) ==
    \/ At(p) \in {"stop", "egg", "put", "config", "unit", "firewall", "refresh", "start",
                  "endpoints", "added"}
    \/ AtEgg(p) /\ ~Constructing(p)

AddOther(o) ==
    /\ At(o) = "out" /\ Adds(Owner[o])
    /\ Begins(o, "egg") /\ trouble' = With(Mixed(Owner[o]))
    /\ UNCHANGED <<platform, egg, writers, lock, known, host>>

OtherSent(o) ==
    /\ At(o) = "put"
    /\ podium' = [podium EXCEPT ![o] = Out]
    /\ UNCHANGED <<platform, egg, writers, lock, known, host, trouble>>

(***************************************************************************)
(* Commands on the host.                                                   *)
(***************************************************************************)
(* add_host and cleanup_node return: what they raise is caught. *)
Fail(p, h) ==
    /\ Free(p)
    /\ host' = h
    /\ trouble' = With({"failed"})

(* One command whose success leads to h and to the step at: a nonzero      *)
(* status and a broken connection both raise, and nobody catches them      *)
(* before add_host.  (Where no connection could be made at all the first   *)
(* command raises.)                                                        *)
Command(p, at, h) ==
    \/ Goto(p, at) /\ host' = h /\ UNCHANGED trouble
    \/ {"fail", "cut"} \cap Allowed # {} /\ Fail(p, host)

(* One command of which a ValueError, the nonzero status, is ignored.      *)
Tried(p, at, h) ==
    \/ Goto(p, at) /\ host' = h /\ UNCHANGED trouble
    \/ /\ "fail" \in Allowed
       /\ podium' = [podium EXCEPT ![p].at = at, ![p].ok = FALSE]
       /\ trouble' = With({"failed"}) /\ UNCHANGED host
    \/ "cut" \in Allowed /\ Fail(p, host)

NoNumber(p) ==
    /\ podium' = [podium EXCEPT ![p].at = "start", ![p].ok = FALSE]
    /\ trouble' = With({"failed"}) /\ UNCHANGED host

Running(h) == h.run # "off"
Reachable == Running(host) /\ (platform = "esx" => host.firewall = "open")

(* add_host -> prep_node.  What runs by now is what ran before. *)
AddHost(p) ==
    /\ At(p) = "idle"
    /\ Enter(p, "stop")
    /\ host' = [host EXCEPT !.run = IF @ = "fresh" THEN "stale" ELSE @]
    /\ UNCHANGED <<platform, egg, writers, lock, known>>

(* Stopping what does not run fails too, "preparing for first time".       *)
Stop(p) ==
    /\ At(p) = "stop"
    /\ IF Running(host) THEN Tried(p, "egg", [host EXCEPT !.run = "off"])
       ELSE \/ Goto(p, "egg") /\ UNCHANGED <<host, trouble>>
            \/ "cut" \in Allowed /\ Fail(p, host)
    /\ UNCHANGED <<platform, egg, writers, lock, known>>

(* copy_egg installs the egg if there is none, *)
CopyEgg(p) ==
    /\ At(p) = "egg"
    /\ podium' = [podium EXCEPT ![p].at = IF egg = "none" THEN "wait" ELSE "put", ![p].then = "put"]
    /\ UNCHANGED <<platform, egg, writers, lock, known, host, trouble>>

(* and sends what there is.  A transfer that breaks leaves half a file.    *)
Put(p) ==
    /\ At(p) = "put"
    /\ \/ /\ egg # "none"
          /\ Goto(p, "config")
          /\ host' = [host EXCEPT !.egg = IF Whole THEN "whole" ELSE "torn"]
          /\ UNCHANGED trouble
       \/ egg = "none" /\ Fail(p, host)
       \/ /\ "cut" \in Allowed
          /\ Free(p)
          /\ host' = [host EXCEPT !.egg = "torn"]
          /\ trouble' = With({"failed", "torn"})
    /\ UNCHANGED <<platform, egg, writers, lock, known>>

Config(p) ==
    /\ At(p) = "config"
    /\ Command(p, "unit", [host EXCEPT !.config = TRUE])
    /\ UNCHANGED <<platform, egg, writers, lock, known>>

(* Mutant: the service file is left out on the first platform. *)
UnitEsx(p) ==
    /\ At(p) = "unit"
    /\ Command(p, IF platform = "esx" THEN "firewall" ELSE "start",
               [host EXCEPT !.unit = (platform = "esx")])
    /\ UNCHANGED <<platform, egg, writers, lock, known>>

(* setup_service, or copy_service and the start script. *)
Unit(p) ==
    /\ At(p) = "unit"
    /\ Command(p, IF platform = "esx" THEN "firewall" ELSE "start", [host EXCEPT !.unit = TRUE])
    /\ UNCHANGED <<platform, egg, writers, lock, known>>

(* config_firewall: nothing to do if the program is named in the file; the *)
(* new file is put in place, and the firewall told to read it.  If no      *)
(* number for the rule can be found it returns as if all were well.        *)
Firewall(p) ==
    /\ At(p) = "firewall"
    /\ IF host.firewall = "closed"
       THEN \/ Command(p, "refresh", [host EXCEPT !.firewall = "written"])
            \/ {"fail", "cut"} \cap Allowed # {} /\ NoNumber(p)
       ELSE Command(p, "start", host)
    /\ UNCHANGED <<platform, egg, writers, lock, known>>

Refresh(p) ==
    /\ At(p) = "refresh"
    /\ \/ Goto(p, "start") /\ host' = [host EXCEPT !.firewall = "open"] /\ UNCHANGED trouble
       \/ /\ {"fail", "cut"} \cap Allowed # {}
          /\ Free(p)
          /\ trouble' = With({"failed", "unrefreshed"}) /\ UNCHANGED host
    /\ UNCHANGED <<platform, egg, writers, lock, known>>

(* The service starts and lives if its files are there and whole.  One     *)
(* that runs goes on as it is.  Any error makes prep_node return False,    *)
(* which add_host does not look at.                                        *)
Started ==
    IF Running(host) THEN host
    ELSE [host EXCEPT !.run = IF host.unit /\ host.config /\ host.egg = "whole" THEN "fresh" ELSE "off"]

Start(p) ==
    /\ At(p) = "start"
    /\ \/ Goto(p, "endpoints") /\ host' = Started /\ UNCHANGED trouble
       \/ /\ {"fail", "cut"} \cap Allowed # {}
          /\ podium' = [podium EXCEPT ![p].at = "endpoints", ![p].ok = FALSE]
          /\ host' \in {host, Started}
          /\ trouble' = With({"failed"})
    /\ UNCHANGED <<platform, egg, writers, lock, known>>

(* wait_on_host, whose verdict is logged; add_endpoints, whose errors are: *)
(* it asks the service for the interfaces unless the host is known.        *)
AddEndpoints(p) ==
    /\ At(p) = "endpoints"
    /\ Goto(p, "added")
    /\ known' = IF Reachable THEN known \cup {p} ELSE known
    /\ UNCHANGED <<platform, egg, writers, lock, host, trouble>>

(* add_host returns True. *)
Added(p) ==
    /\ At(p) = "added"
    /\ Free(p)
    /\ UNCHANGED <<platform, egg, writers, lock, known, host, trouble>>

(* discover_interfaces *)
Discover(p) ==
    /\ At(p) = "idle" /\ Reachable
    /\ known' = known \cup {p}
    /\ trouble' = With(Mixed(p))
    /\ UNCHANGED <<platform, egg, writers, lock, podium, host>>

(* cleanup_hosts -> cleanup_node.  What other podiums know of the host is  *)
(* no longer so.                                                           *)
Cleanup(p) ==
    /\ At(p) = "idle"
    /\ Begins(p, "cleanStop")
    /\ trouble' = With(Mixed(p) \cup (IF known \subseteq {p} THEN {} ELSE {"failed"}))
    /\ UNCHANGED <<platform, egg, writers, lock, known, host>>

(* (The uninstallation of the ESX service removes its egg as well.) *)
CleanStop(p) ==
    /\ At(p) = "cleanStop"
    /\ Tried(p, "cleanConfig", [host EXCEPT !.run = "off",
                                            !.egg = IF platform = "esx" THEN "none" ELSE @])
    /\ UNCHANGED <<platform, egg, writers, lock, known>>

CleanConfig(p) ==
    /\ At(p) = "cleanConfig"
    /\ Tried(p, IF platform = "esx" THEN "cleanEgg" ELSE "cleanUnit", [host EXCEPT !.config = FALSE])
    /\ UNCHANGED <<platform, egg, writers, lock, known>>

CleanUnit(p) ==
    /\ At(p) = "cleanUnit"
    /\ Tried(p, "cleanEgg", [host EXCEPT !.unit = FALSE])
    /\ UNCHANGED <<platform, egg, writers, lock, known>>

CleanEgg(p) ==
    /\ At(p) = "cleanEgg"
    /\ Tried(p, "forget", [host EXCEPT !.egg = "none"])
    /\ UNCHANGED <<platform, egg, writers, lock, known>>

(* Mutant: the endpoints stay. *)
ForgetNothing(p) ==
    /\ At(p) = "forget"
    /\ Free(p)
    /\ UNCHANGED <<platform, egg, writers, lock, known, host, trouble>>

(* cleanup_node has returned True: remove_endpoints. *)
Forget(p) ==
    /\ At(p) = "forget"
    /\ known' = known \ {p}
    /\ Free(p)
    /\ UNCHANGED <<platform, egg, writers, lock, host, trouble>>

(* A podium is killed with its threads and their cp; its lock file stays.  *)
(* (Bound of the model: once, and while it has the lock.  Elsewhere it     *)
(* leaves the egg as it is, and the host as a failed command does.)        *)
Crash(p) ==
    /\ "crash" \in Allowed \ trouble /\ \E a \in Crew(p) : HasLock(a)
    /\ LET cut == Crew(p) \cap writers # {} IN
         /\ egg' = IF cut THEN "torn" ELSE egg
         /\ writers' = IF cut THEN {} ELSE writers
    /\ podium' = [a \in Agents |-> IF a \in Crew(p) THEN Out ELSE podium[a]]
    /\ known' = known \ {p}
    /\ trouble' = With({"crash"})
    /\ UNCHANGED <<platform, lock, host>>

InstallStep(a) ==
    \/ Remove(a) \/ Wait(a) \/ Exists(a) \/ Lock(a) \/ Copy(a) \/ Copied(a) \/ Unlock(a)
    \/ CopyEgg(a)
PrepStep(p) ==
    \/ Stop(p) \/ Put(p) \/ Config(p) \/ Unit(p) \/ Firewall(p) \/ Refresh(p)
    \/ Start(p) \/ AddEndpoints(p) \/ Added(p)
    \/ CleanStop(p) \/ CleanConfig(p) \/ CleanUnit(p) \/ CleanEgg(p) \/ Forget(p)
Calls(p) == AddHost(p) \/ Discover(p) \/ Cleanup(p)

Next ==
    \/ \E p \in Podiums :
         Construct(p) \/ Crash(p) \/ (Further /\ (Calls(p) \/ PrepStep(p)))
    \/ \E o \in Others : (Further /\ AddOther(o)) \/ OtherSent(o)
    \/ \E a \in Agents : InstallStep(a) \/ CopyFails(a)

Spec == Init /\ [][Next]_vars

(* An installation of the egg that can go on does. *)
FairSpec == Spec /\ \A a \in Agents : WF_vars(InstallStep(a))

(***************************************************************************)
(* Properties.                                                             *)
(***************************************************************************)
(* A host gets half an egg only when a podium was killed, a transfer       *)
(* broke, the egg could not be made or copied (which nobody is told,       *)
(* install.py:132-135), or two podiums worked at once: neither remove_egg  *)
(* nor copy_egg looks at the lock ("not a full proof locking mechanism").  *)
(* The threads of one podium, which prepare its hosts at the same time,    *)
(* do not do it: its constructor has made the egg before them              *)
(* (podium.py:80-95, 248-250).                                             *)
WholeEgg == host.egg = "torn" => trouble \cap {"crash", "torn", "mixed", "badcopy"} # {}

(* "Prepare node and return True on success" (podium.py:213): where no     *)
(* command of the call failed the host serves what was just copied,        *)
(* whatever calls before it have left behind - except a firewall file that *)
(* was written and not put in force, which no later call mends             *)
(* (prep.py:253-307), and an egg that was badly copied before it was sent. *)
AddedServes ==
    \A p \in Podiums :
      At(p) = "added" /\ podium[p].ok /\ trouble \cap (Worst \cup {"unrefreshed"}) = {} =>
        Reachable /\ host.run = "fresh"

(* A podium knows the endpoints of a host it can reach, as long as no      *)
(* command fails and no other podium works on the host or cleans it up.    *)
KnownServes ==
    \A p \in known : Busy \cap Podiums = {} /\ trouble = {} => Reachable

(* Whoever waits for another installation of the egg gets on, unless the   *)
(* lock is that of a podium that was killed (install.py:104).              *)
Orphan == "crash" \in trouble /\ lock /\ \A a \in Agents : ~HasLock(a)
InstallsEnd ==
    \A a \in Agents : At(a) = "wait" ~> (At(a) # "wait" \/ Orphan)

=============================================================================
