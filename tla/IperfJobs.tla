------------------------------ MODULE IperfJobs ------------------------------
(***************************************************************************)
(* Scripts that run iperf between two hosts (run_iperf in                  *)
(* lydian/apps/podium.py) and the Iperf app of the two nodes               *)
(* (lydian/apps/iperf.py) that starts and kills the iperf processes.       *)
(*                                                                         *)
(* The scripts run one server each on the same node and one client each on *)
(* the same other node.  A step is one access to a dictionary or a counter *)
(* of the app, or one call about a process.                                *)
(***************************************************************************)
EXTENDS Naturals, FiniteSets

CONSTANTS
    Scripts,      \* calls of run_iperf that may be under way at once
    Ports,        \* _START_RAND_PORT .. _END_RAND_PORT
    Givens,       \* the dst_port of each script, None for a random one:
                  \* one of these functions is chosen
    None,
    Draws,        \* what the generator of ports draws in the life of the app
    MaxJobs,      \* bound of the model on the client jobs
    Allowed       \* what may happen, a subset of Disturbances

(* slow   a server does not listen by the third look                       *)
(* long   the client's output does not fit its pipe                        *)
(* die    a script is killed                                               *)
(* lost   a call of a script fails, or its answer is lost                  *)
Disturbances == {"slow", "long", "die", "lost"}

ASSUME IperfAssumption ==
    /\ IsFiniteSet(Scripts) /\ None \notin Ports \cup Scripts
    /\ Givens \subseteq [Scripts -> Ports \cup {None}]
    /\ Draws \in Nat /\ MaxJobs \in Nat
    /\ Allowed \subseteq Disturbances

VARIABLES
    given,     \* the dst_port of each script
    script,    \* where each script is, and its local variables
    handles,   \* Iperf._server_handles: port -> the process of a script's start
    server,    \* the server process each script has started, and its port
    drawn,     \* ports drawn by the generator
    jobs,      \* Iperf._client_handles: job id -> the client of a script
    jobId,     \* Iperf._job_id (the _STARTING_JOB_ID is 1 here)
    client,    \* the client process each script has started
    hurt,      \* ports two scripts were given, or a script left behind (history)
    raced      \* two clients were started at once (history)

vars == <<given, script, handles, server, drawn, jobs, jobId, client, hurt, raced>>

JobIds == 1 .. MaxJobs
Live == {"starting", "listening"}

Script == [at : {"idle", "port", "look", "probe", "client", "number", "put",
                 "poll", "kill", "pop", "stop"},
           port : Ports \cup {None}, tries : 0 .. 3, job : 0 .. MaxJobs]
Idle == [at |-> "idle", port |-> None, tries |-> 0, job |-> 0]

TypeOK ==
    /\ given \in Givens
    /\ script \in [Scripts -> Script]
    /\ handles \in [Ports -> Scripts \cup {None}]
    /\ server \in [Scripts -> [at : Live \cup {"none"}, port : Ports \cup {None}]]
    /\ drawn \in 0 .. Draws
    /\ jobs \in [JobIds -> Scripts \cup {None}] /\ jobId \in 0 .. MaxJobs
    /\ client \in [Scripts -> {"none", "running", "stuck", "ended"}]
    /\ hurt \subseteq Ports /\ raced \in BOOLEAN
    /\ \A s \in Scripts : script[s].job # 0 => script[s].job <= jobId

Init ==
    /\ given \in Givens
    /\ script = [s \in Scripts |-> Idle]
    /\ handles = [p \in Ports |-> None]
    /\ server = [s \in Scripts |-> [at |-> "none", port |-> None]]
    /\ drawn = 0
    /\ jobs = [j \in JobIds |-> None] /\ jobId = 0
    /\ client = [s \in Scripts |-> "none"]
    /\ hurt = {} /\ raced = FALSE

At(s) == script[s].at
Goto(s, at) == script' = [script EXCEPT ![s].at = at]
Done(s) == script' = [script EXCEPT ![s] = Idle]
Users(p) == {s \in Scripts : script[s].port = p}
Listening(p) == \E s \in Scripts : server[s].at = "listening" /\ server[s].port = p

(* run_iperf: start_iperf_server comes first.  (The model has one server   *)
(* and one client process for a script.)                                   *)
Begin(s) ==
    /\ At(s) = "idle"
    /\ server[s].at = "none" /\ client[s] \notin {"running", "stuck"}
    /\ jobId + Cardinality({t \in Scripts : At(t) # "idle"}) < MaxJobs
    /\ Goto(s, "port")
    /\ client' = [client EXCEPT ![s] = "none"]
    /\ UNCHANGED <<given, handles, server, drawn, jobs, jobId, hurt, raced>>

Use(s, p) ==
    /\ script' = [script EXCEPT ![s].at = "look", ![s].port = p]
    /\ hurt' = IF Users(p) # {} THEN hurt \cup {p} ELSE hurt

GivenPort(s) ==
    /\ At(s) = "port" /\ given[s] # None
    /\ Use(s, given[s])
    /\ UNCHANGED <<given, handles, server, drawn, jobs, jobId, client, raced>>

(* One random draw of the generator: again if the port is taken.           *)
Draw(s) ==
    /\ At(s) = "port" /\ given[s] = None
    /\ drawn < Draws /\ drawn' = drawn + 1
    /\ \E p \in Ports :
         IF handles[p] = None THEN Use(s, p) ELSE UNCHANGED <<script, hurt>>
    /\ UNCHANGED <<given, handles, server, jobs, jobId, client, raced>>

(* The generator's loop is over for good, or another thread is in it: the  *)
(* script ends with an exception.                                          *)
NoDraw(s) ==
    /\ At(s) = "port" /\ given[s] = None
    /\ drawn = Draws \/ \E t \in Scripts \ {s} : At(t) = "port" /\ given[t] = None
    /\ Done(s)
    /\ UNCHANGED <<given, handles, server, drawn, jobs, jobId, client, hurt, raced>>

(* A server on the port will do, whoever started it; else start one.       *)
Look(s) ==
    /\ At(s) = "look"
    /\ IF Listening(script[s].port)
       THEN Goto(s, "client") /\ UNCHANGED server
       ELSE /\ server' = [server EXCEPT ![s] = [at |-> "starting", port |-> script[s].port]]
            /\ script' = [script EXCEPT ![s].at = "probe", ![s].tries = 3]
    /\ UNCHANGED <<given, handles, drawn, jobs, jobId, client, hurt, raced>>

Listen(s) ==
    /\ server[s].at = "starting"
    /\ server' = [server EXCEPT ![s] = IF Listening(@.port)
                    THEN [at |-> "none", port |-> None]      \* address in use
                    ELSE [@ EXCEPT !.at = "listening"]]
    /\ UNCHANGED <<given, script, handles, drawn, jobs, jobId, client, hurt, raced>>

(* Mutant: the handle is not kept. *)
ProbeOnly(s) ==
    /\ At(s) = "probe" /\ Listening(script[s].port)
    /\ script' = [script EXCEPT ![s].at = "client", ![s].tries = 0]
    /\ UNCHANGED <<given, handles, server, drawn, jobs, jobId, client, hurt, raced>>

(* Three looks, a second apart, for a server on the port, whoever's.       *)
Probe(s) ==
    /\ At(s) = "probe" /\ Listening(script[s].port)
    /\ handles' = [handles EXCEPT ![script[s].port] = s]
    /\ script' = [script EXCEPT ![s].at = "client", ![s].tries = 0]
    /\ UNCHANGED <<given, server, drawn, jobs, jobId, client, hurt, raced>>

(* After the third in vain it raises: run_iperf does not know the port, so *)
(* its finally stops nothing.                                              *)
ProbeAgain(s) ==
    /\ At(s) = "probe" /\ ~Listening(script[s].port)
    /\ IF script[s].tries > 1
       THEN script' = [script EXCEPT ![s].tries = @ - 1] /\ UNCHANGED hurt
       ELSE "slow" \in Allowed /\ Done(s) /\ hurt' = hurt \cup {script[s].port}
    /\ UNCHANGED <<given, handles, server, drawn, jobs, jobId, client, raced>>

(* start_iperf_client: the process, the next job id, the handle under      *)
(* whatever the id is by now.                                              *)
StartClient(s) ==
    /\ At(s) = "client"
    /\ \E how \in {"running", "stuck"} :
         /\ how = "stuck" => "long" \in Allowed
         /\ client' = [client EXCEPT ![s] = how]
    /\ raced' = (raced \/ \E t \in Scripts : At(t) \in {"number", "put"})
    /\ Goto(s, "number")
    /\ UNCHANGED <<given, handles, server, drawn, jobs, jobId, hurt>>

(* Mutant: the id is not counted up. *)
SameId(s) ==
    /\ At(s) = "number"
    /\ jobId' = 1
    /\ Goto(s, "put")
    /\ UNCHANGED <<given, handles, server, drawn, jobs, client, hurt, raced>>

NextId(s) ==
    /\ At(s) = "number"
    /\ jobId' = jobId + 1
    /\ Goto(s, "put")
    /\ UNCHANGED <<given, handles, server, drawn, jobs, client, hurt, raced>>

PutJob(s) ==
    /\ At(s) = "put"
    /\ jobs' = [jobs EXCEPT ![jobId] = s]
    /\ script' = [script EXCEPT ![s].at = "poll", ![s].job = jobId]
    /\ UNCHANGED <<given, handles, server, drawn, jobId, client, hurt, raced>>

ClientEnds(s) ==
    /\ client[s] = "running"
    /\ client' = [client EXCEPT ![s] = "ended"]
    /\ UNCHANGED <<given, script, handles, server, drawn, jobs, jobId, hurt, raced>>

(* get_client_job_info until the client is over: its output is only read   *)
(* then.  None for a job that is gone; using that raises.                  *)
Poll(s) ==
    /\ At(s) = "poll"
    /\ LET owner == jobs[script[s].job] IN owner # None => client[owner] \in {"none", "ended"}
    /\ Goto(s, "kill")
    /\ UNCHANGED <<given, handles, server, drawn, jobs, jobId, client, hurt, raced>>

(* Mutant: every server of the node is stopped. *)
KillAll(s) ==
    /\ At(s) = "kill"
    /\ IF handles[script[s].port] = None THEN Goto(s, "stop") /\ UNCHANGED server
       ELSE Goto(s, "pop") /\ server' = [t \in Scripts |-> [at |-> "none", port |-> None]]
    /\ UNCHANGED <<given, handles, drawn, jobs, jobId, client, hurt, raced>>

(* finally: stop_iperf_server, which knows only what is in the handles,    *)
Kill(s) ==
    /\ At(s) = "kill"
    /\ LET owner == handles[script[s].port] IN
         IF owner = None THEN Goto(s, "stop") /\ UNCHANGED server
         ELSE /\ Goto(s, "pop")
              /\ server' = [server EXCEPT ![owner] =
                   IF @.port = script[s].port THEN [at |-> "none", port |-> None] ELSE @]
    /\ UNCHANGED <<given, handles, drawn, jobs, jobId, client, hurt, raced>>

(* Mutant: it waits for the handle to be there. *)
PopWaits(s) ==
    /\ At(s) = "pop" /\ handles[script[s].port] # None
    /\ handles' = [handles EXCEPT ![script[s].port] = None] /\ Goto(s, "stop")
    /\ UNCHANGED <<given, server, drawn, jobs, jobId, client, hurt, raced>>

(* pop() raises if another script has popped it meanwhile,                 *)
Pop(s) ==
    /\ At(s) = "pop"
    /\ IF handles[script[s].port] = None THEN Done(s) /\ UNCHANGED handles
       ELSE handles' = [handles EXCEPT ![script[s].port] = None] /\ Goto(s, "stop")
    /\ UNCHANGED <<given, server, drawn, jobs, jobId, client, hurt, raced>>

(* and stop_iperf_client, if the id of the job has arrived.                *)
StopClient(s) ==
    /\ At(s) = "stop"
    /\ LET owner == IF script[s].job = 0 THEN None ELSE jobs[script[s].job] IN
         IF owner = None THEN UNCHANGED <<jobs, client>>
         ELSE /\ client' = [client EXCEPT ![owner] = "ended"]
              /\ jobs' = [jobs EXCEPT ![script[s].job] = None]
    /\ Done(s)
    /\ UNCHANGED <<given, handles, server, drawn, jobId, hurt, raced>>

(* A call fails: it does not arrive, raises, or its answer is lost; one    *)
(* that times out is taken to be lost at its end.  Without the answer of   *)
(* start_iperf_server the port is not known and finally stops nothing;     *)
(* without that of start_iperf_client it stops the server only; and a call *)
(* of the finally that fails is the last.                                  *)
CallFails(s) ==
    /\ "lost" \in Allowed
    /\ \/ At(s) \in {"port", "look"} /\ Done(s) /\ UNCHANGED hurt
       \/ At(s) \in {"client", "kill"} /\ Done(s) /\ hurt' = hurt \cup {script[s].port}
       \/ /\ At(s) \in {"client", "poll"}
          /\ script' = [script EXCEPT ![s].at = "kill", ![s].job = 0]
          /\ UNCHANGED hurt
       \/ At(s) = "poll" /\ Goto(s, "kill") /\ UNCHANGED hurt
       \/ At(s) = "stop" /\ Done(s) /\ UNCHANGED hurt
    /\ UNCHANGED <<given, handles, server, drawn, jobs, jobId, client, raced>>

(* The podium's process is killed; the calls under way on the nodes finish *)
(* by themselves, what follows them is not done.                           *)
Die(s) ==
    /\ "die" \in Allowed /\ At(s) = "poll"
    /\ Done(s)
    /\ hurt' = hurt \cup {script[s].port}
    /\ UNCHANGED <<given, handles, server, drawn, jobs, jobId, client, raced>>

Step(s) ==
    \/ GivenPort(s) \/ Draw(s) \/ NoDraw(s) \/ Look(s) \/ Probe(s) \/ ProbeAgain(s)
    \/ StartClient(s) \/ NextId(s) \/ PutJob(s) \/ Poll(s) \/ Kill(s) \/ Pop(s)
    \/ StopClient(s)

Next == \E s \in Scripts : Begin(s) \/ Step(s) \/ Listen(s) \/ ClientEnds(s) \/ CallFails(s)
                        \/ Die(s)

Spec == Init /\ [][Next]_vars

(* Calls go on, servers come up or fail, and a transfer has a duration.    *)
FairSpec ==
    /\ Spec
    /\ \A s \in Scripts : WF_vars(Step(s)) /\ WF_vars(Listen(s)) /\ WF_vars(ClientEnds(s))

(***************************************************************************)
(* Properties.                                                             *)
(***************************************************************************)
(* From the answer of start_iperf_server to its own finally a script has a *)
(* server on its port, unless it is not alone on it (podium.py:646-672).   *)
ServerStays ==
    \A s \in Scripts :
      At(s) \in {"client", "number", "put", "poll", "kill"} /\ script[s].port \notin hurt =>
        Listening(script[s].port)

(* A port no script uses has no server and no handle, whatever happened to *)
(* the client and its calls, unless two scripts shared the port, or one    *)
(* was killed there, gave its server up after three looks, or lost the     *)
(* answer of start_iperf_server or the call of stop_iperf_server           *)
(* (podium.py:650-673, iperf.py:71-80, 103-110).                           *)
CleansUp ==
    \A p \in Ports \ hurt :
      Users(p) = {} => handles[p] = None /\ \A s \in Scripts : server[s].port # p

(* The job a script polls and reports is that of its own client, unless    *)
(* two clients were being started at once (iperf.py:161-170).              *)
OwnJob ==
    \A s \in Scripts : At(s) = "poll" /\ ~raced => jobs[script[s].job] = s

(* run_iperf returns, whatever other scripts do, unless a client waits for *)
(* somebody to read its output (iperf.py:192-194).                         *)
ScriptsEnd ==
    \A s \in Scripts : At(s) # "idle" ~>
      (At(s) = "idle" \/ \E t \in Scripts : client[t] = "stuck")

=============================================================================
