# Lydian: specifications

TLA+ specifications of Lydian, a tool that runs test
traffic between hosts and records what gets through.  The modules are
translated from the code under `src/LYDIAN/lydian`; paths below are relative to
it.  TLC checks them on small instances, TLAPS proves every safety property of
the passing runs for all values of the constants.  `PROJECT.json` has, in machine-readable form, the
runs, the line of code behind each definition, the hazards and the findings.

## 1. The system and its parts

A **podium** (a script on the user's machine) prepares hosts over ssh, asks each
for its endpoints, and registers traffic rules (source endpoint, destination
endpoint, protocol, port) at the hosts that have these endpoints.  On each host
the **Lydian service** has a traffic controller which makes a *server* for the
destination of a rule and a *client* for its source.  The client pings the
server for ever; the outcome of every ping goes through a queue to recorders.

| part | code | state it keeps | operations | with whom |
|---|---|---|---|---|
| client task | `traffic/task.py`, `client.py`, `connection.py` | stop event, thread, socket, tries | `start`, `stop`, `close`, the ping loop | started and stopped by the client manager, from several RPC threads; puts records on the queue |
| servers | `traffic/server.py`, `manager.py`, `connection.py`, `task.py` | event, listening socket, its thread | `add`, `start` (accept loop), `close` | made by the server manager; pinged by clients |
| traffic controller, managers | `apps/traffic_controller.py`, `traffic/manager.py` | two dictionaries of tasks, ports | `register_traffic`, `start`, `stop`, `unregister_traffic`, resume at start | called by the podium, 50 RPC threads; calls the managers, the rules and the tools |
| rules | `apps/rules.py` | cache and SQLite table of rules | `add_rules`, `enable`, `disable`, `delete_rules`, `load_from_db` | used by the controller and by the podium |
| record pipeline | `apps/recorder.py`, `recorder/*`, handlers in `traffic/task.py` | bounded queues, handler threads, recorders | `put`, `start`, `stop`, `close`, `write` | filled by client tasks, read by one handler thread per queue |
| configuration | `apps/config.py`, `common/core.py` | parameters in memory, SQLite table, subscribers' copies | `set_param`, `get_param`, start | set over RPC; recorders and tasks subscribe |
| podium | `apps/podium.py`, `controller/client.py`, `utils/parallel.py` | endpoint map, rules | `add_host`, `cleanup_hosts`, `register_traffic`, `start/stop/unregister_traffic`, results | one RPC per host and phase, in a thread pool |
| RPC service | `controller/rpyc_controller.py`, `apps/base.py` | thread pool | dispatch | wires the apps |
| resource monitor, background loops | `apps/monitor.py`, `common/background.py`, `apps/watch/threat.py`, `apps/pentest/lynis.py` | switch, thread, scans | `start`, `stop`, `on`, `off`, scans | fills the resource queue; called over RPC |
| namespaces, interfaces | `utils/network_utils.py`, `nsenter.py`, `apps/namespace.py`, `interface.py` | cached interfaces, the thread's netns | discovery, entering | endpoint map of the controller |
| iperf, tcpdump | `apps/iperf.py`, `tcpdump.py` | processes by port, job or file | start, stop, state | called over RPC |
| preparation | `utils/prep.py`, `install.py`, `ssh_host.py` | lock file, egg | `prep_node`, `cleanup_node`, `install_egg` | podium |
| results, console, web | `apps/results.py`, `console.py`, `utils/api_server.py`, `LYDIAN-UI` | none of their own | queries, parsing | read the traffic database |

What is hard in it, and what would make it correct:

* **Client task.**  Nothing is locked: the stop event, the thread and the
  socket are shared by every RPC thread and by every loop ever started, and a
  join gives up after five seconds.  Correct: one loop per task, none after a
  stop, a loop's socket is its own, no socket is leaked, every ping is
  reported, no call hangs.
* **Controller and rules.**  Rule state is in a cache, in a database and in the
  tasks; requests interleave; the process may die between any two updates and
  resumes from the database; any statement on the table may raise.  Correct: what
  is stopped is silent, what is active pings, the server is there before the
  client, cache and database agree.
* **Record pipeline.**  A full queue, failing recorders, run-time switches,
  restarts, and a stop that closes the recorders' clients under the handler.
  Correct: results in order and none twice, recorders independent, the queue
  drains, `close` returns.
* **Configuration.**  Memory is changed before the lock is taken, subscribers
  read and then store, a recorder may switch its own copy off, and a call may
  time out half way.  Correct: no stale subscriber, memory and database agree.
* **Podium.**  Calls fail, lose their answers, or land late; nodes and the
  podium restart.  Correct: servers before clients, a confirmed stop holds,
  running traffic stays within reach.
* **Servers.**  A server binds in a thread of its own some time after
  registration has answered, blocks in `accept`, and answers one peer after the
  other.  Correct: the server of a registered rule stays up whatever peers do,
  a closed one goes, a peer is not kept waiting by others.
* **Monitor and background loops.**  Switch and thread are set and tested
  without a lock.  Correct: the switch tells whether a thread works, there is one
  at most, a stop returns, every scan is seen to.
* **iperf.**  Ports, job numbers and process handles are shared by every script
  that uses a node.  Correct: a script has a server for as long as it needs it,
  polls its own job, leaves nothing behind, and returns, also when calls of it
  are lost.
* **Preparation.**  Podiums share one egg and a lock file that is tested and
  made in separate steps; one podium prepares several hosts at once; remote
  commands, and the making of the egg, fail half way.  Correct: no host gets
  half an egg, a host reported as added serves, nobody waits for ever.

## 2. Modules

| module | what it is | code it stands for |
|---|---|---|
| `TrafficClient` | the client task with its threads | `traffic/task.py`, `client.py`, `connection.py` |
| `TaskLifecycle` | what a client task promises its manager (abstract) | - |
| `TrafficServer` | the echo servers of one node and their peers | `traffic/server.py`, `manager.py`, `connection.py`, `task.py` |
| `TrafficController` | the controller, managers and rules of one node | `apps/traffic_controller.py`, `apps/rules.py`, `traffic/manager.py`, `apps/mocktraffic.py` |
| `RecordPipeline` | from the ping handlers to the recorders | `traffic/task.py`, `apps/recorder.py`, `recorder/` |
| `RecordLog` | what the log of a recorder promises (abstract) | - |
| `ConfigStore` | parameters, their database and subscribers | `apps/config.py`, `common/core.py` |
| `BackgroundLoop` | the thread of an app that is switched on and off | `apps/monitor.py`, `common/background.py`, `apps/watch/threat.py`, `apps/pentest/lynis.py` |
| `IperfJobs` | scripts that run iperf between two nodes | `apps/iperf.py`, `apps/podium.py` (`run_iperf`), `apps/console.py` |
| `HostPrep` | how the program gets onto a host | `utils/install.py`, `prep.py`, `ssh_host.py`, `apps/podium.py`, the service file |
| `Podium` | the primary and, coarsely, its nodes | `apps/podium.py`, `utils/parallel.py`, `controller/client.py` |
| `MC...` | the instances TLC checks | |
| `Traffic_proofs` | theorems about `TrafficClient` (with `TaskLifecycle`) and `TrafficServer` | |
| other `..._proofs` | theorems about the module of that name, or its MC module | |

How they fit together: `HostPrep` ends where `Podium` begins, with a host that
serves and whose endpoints are known; `Podium` takes each node as
`TrafficController` leaves it between requests; what the controller calls
"start the client", "stop the client" and "add the server" is one step there and
is `TrafficClient` and `TrafficServer` in detail; the client's report of a ping
is the `Ping` of `RecordPipeline`; the switches of the recorders are parameters of
`ConfigStore`.  `BackgroundLoop` and `IperfJobs` stand beside these.

In every module the constant `Allowed` (`ServerAllowed` in `TrafficServer`) names what the environment may do
beyond the ordinary (overlapping requests, crashes, lost calls ...); each such
word is explained where the module declares it.  It is how a property that holds
only for well-behaved callers is stated without hiding the others: the same
actions run in all cases, and the guard of the environment alone differs.
(In `RecordPipeline` the constants `Faulty`, `WithClient`, `Restarts` and
`Switches` do the same.)

Three MC modules add a history variable to the module they instantiate, for a
property that has to know more than the program does: `MCTrafficController`
(`cold`: rules that were not active at the last start), `MCConfigStore`
(`raced`: parameters two calls have set at a time), `MCRecordPipeline`
(`off`: recorders that have been switched off; `again`: the manager was started on
clients it had closed, or was closing).

Operators marked `Mutant` are plausible mistakes in the code.  They are not part
of the specifications: put in the place of the definition that follows, each
makes a property fail, which shows that the property depends on that code.

### TrafficClient

`event` is `Connection._stop_event`, `thread` is `TrafficTask._task_thread`,
`socket` is `Connection.socket`; `pc` says where each RPC thread and each ping
thread is.  One read or write of a shared attribute is one step: `start()` is
`StartTask` (make and remember a thread) and `LaunchTask` (launch what is
remembered *now*); `stop()` is `StopTask`, `JoinTest`, `JoinEnter`,
`JoinReturn`; `close()` adds the steps of `socket_close()`
(`SocketTest`, `SocketShut`, `SocketNull`), which the loop uses too.
A ping is `create`, `connect`, `exchange`, the close of the socket, the next
attempt or the report.  `TaskLifecycle` has a phase (stopped, starting,
running, spent, stopping) and the number of loops; `ImplementsLifecycle` is the
refinement.

### TrafficServer

`table` is `ServerManager._traffic_tasks`; a server object has its event and
where its thread is: launched, past the clearing of the event, in the loop,
blocked in `accept()`, in a handler, over.  A connection is its number, so
that the backlog is first come, first served.  `Add` makes and launches a server
(only the first rule of a key does), `Clear`, `Bind`, `Loop`, `Accept`, `Echo` are
the TCP thread, `Datagram` the UDP thread, `Serve`, `HandOver` and `Get` the HTTP
server with a thread per request; `CloseAll`/`CloseOne` are
`TrafficManager.close`, `Restart` the death and restart of the process.  Peers
`PeerConnect`, `Say`, `Leave`, `ResetConn`.  `linger` are places whose closed
connections are still in TIME_WAIT: a TCP server cannot bind there.  `late`
(how many connections a server has taken with its event set) and `hurt` are
history.  The module's own names of the usual definitions begin with `Server`, so
that it can be extended together with `TrafficClient`.

### TrafficController

`cache` and `db` are the rules in memory and in the table, `servers`/`ports` and
`clients` the managers' dictionaries and what runs, `orphans` the running
clients that a dictionary lost to an overwrite.  Each of the node's RPC threads
(`Workers`) has a `job`; a step is one access to the cache, the table or a
dictionary, in the code's order.  `Row` is the round trip through the table:
a missing tool comes back as `None`.  `ReadIds` and `SaveRules` are `save_to_db`,
which chooses between update and insertion by the ids it has read (`seen`): a
rule that has got a row in between violates the primary key (`Clash`).
`ForgetCached` and `DeleteSaved` are `delete_rules`, which changes the cache
before the deletion is committed.  `Locked` is any statement on the table, or its
commit, that raises because the lock is not to be had: the cache stays changed,
the request ends where it is, and an unregistration goes on after the stop whose
error the thread pool has swallowed.  `Restart` loads the table and resumes.
`failed` (which write of a rule's row raised, until one reaches it or the process
is started again) is history.

### RecordPipeline

Records are numbers.  `Ping` puts one on the queue or drops it, the handler
takes one with a timeout and gives it to each recorder in turn; a recorder that
raises ends the round (only the Elasticsearch recorder swallows its client's
errors, constant `Isolating`).  `Stop` and `Close` set the event and then stop the
recorders one after the other (`StopRecorder`), whatever the handler is doing: the
Wavefront and Elasticsearch recorders close their clients (`Closable`), and no
later start opens them again.  A stop that raises (`StopRaises`) leaves the
recorders after it unstopped and `close` without its join.  What a closed client
does with a record is its library's: it delivers it, drops it, or raises.  Of the
libraries' own `flush` and `close` it is assumed that they return; a record is
written when the library has taken it.  `RecordLog` is the abstract log that the first
recorder, the traffic database, implements (`LogInOrder`).

### ConfigStore

`set_param` is `SetParam` (memory), `Persist` (SQLite's write lock),
`ReadParam`/`StoreParam` for each subscriber, `Commit` at the end of the `with`
block.  `PersistTimeout` is the lock that does not come, `CommitTimeout` the commit
a reader prevents, `SetMemory` the call with `write_to_db=False`.  `Start` is
`Config.__init__`, after which the subscribers are made (`Subscribe`): a recorder
without a client then switches its own copy off (`Subscribe.set_config`) and tells
nobody.  `ahead` (the last call changed memory only), `torn` (the last
transaction did not commit) and `own` (copies their owner has switched off and
has not been told of since) are history.

### BackgroundLoop

One module for three apps that differ in the order of the same accesses: the
resource monitor keeps its thread object until `stop()` has joined it, a
`BackgroundMixin` makes a new one at each `on()`.  `call` is where each RPC thread
is (`Clear`, `Look`, `Make`, `Launch`; `TestRunning`, `Set`, `IsRunning`, `Join`,
`Joined`), `loop` where each thread object is.  Lynis' loop iterates over the
dictionary of requests: `Visit` raises, and the thread dies, when the dictionary
has grown since the iteration began.

### IperfJobs

`handles`, `drawn`, `jobs` and `jobId` are the attributes of the `Iperf` app of
the two nodes, `server` and `client` the processes each script has started,
`script` the local variables of `run_iperf`.  The steps are its calls in order:
draw a port, look whether it is served, start the server, probe it up to
three times, start the client, count the job, store it, poll, kill,
and the `finally` that stops the server.  `CallFails` is a call that does not arrive,
raises, or loses its answer, at any of these places: `run_iperf` goes on with
what it was answered, so without the port its `finally` stops nothing, and without
the job it stops the server only.  A call that times out is taken as lost at its
end.

### HostPrep

`egg`, `lock` and `writers` are the data directory all podiums share; `host` is
what is installed and running on the one host; `podium` is where each podium is,
and each thread in which a podium prepares another host (`Others`, `Owner`): of
such a thread, what it does with the shared egg is modelled.
`Construct` is `update_egg`, followed by `install_egg`
(`Wait`, `Exists`, `Lock`, `Copy`/`Copied`, `Unlock`); `CopyFails` is a zip file
that cannot be made or a `cp` that fails half way, of which nobody is told;
`AddHost` goes through
`prep_node` one remote command at a time (`Stop` ... `Start`), with the
`Firewall` and `Refresh` of an ESX host, to the endpoints; `Cleanup` is
`cleanup_hosts`.  A command fails (nonzero status) or loses its connection; the
actions differ, as the code does, in which of the two is ignored, makes
`prep_node` answer False, or ends `add_host`.

### Podium

`op` is the call the script is in, with its phase and the state of the RPC to
each host; `node` is each service as `TrafficController` leaves it between
requests; `late` are RPCs whose caller has given up.  `Serve` answers (or loses
the answer), `Fail` never arrives, `TimeOut`/`ServeLate` arrive late.  The nodes
include the resumption fault of `ctl_resume` (`odd`).  `used`, `missed`,
`stopped`, `astray` and `op.racing` are history.

## 3. Runs

Passing:

| run | question | instance |
|---|---|---|
| `client_orderly` | does a task under orderly requests have one loop, no zombies, its own socket, every ping reported, and implement its lifecycle? | 2 callers, 3 threads, 2 tries, 2 attempts |
| `client_disturbed` | what survives overlapping, hasty, repeated requests, slow pings and closes: the truth of `is_running()`, no leaked socket, no call that hangs, every loop ends after a last stop | 2 callers, 2 threads, unlimited pings |
| `ctl_crash` | does what is stopped stay silent and what is active ping, are servers first, do cache and table agree, with a crash at any step and any statement on the table raising? | 2 RPC threads, 4 rules: internal, without a tool, mock, foreign; one server key; bound `OneFails` |
| `rec_any` | order and uniqueness of the log, a healthy recorder misses only what another has spoilt, the queue drains and `close` returns, with faults, switches, stops that close clients, and restarts | queue of 2, 3 records, 3 recorders: SQLite fails, Wavefront is well, Elasticsearch has no client and swallows errors |
| `cfg_any` | does any overlap, timeout, call for memory only or crash leave a subscriber stale, or memory, table and copies of an uncontended parameter different, other than as the call that failed leaves them? | 2 writers, 2 parameters, 2 values, 2 subscribers that may switch one copy off |
| `pod_any` | servers first, confirmed stops, reach, with every failure the model has | 2 hosts, a rule each way, 1 late RPC at a time |
| `srv_any` | does the server of a registered rule stay up, does a closed one take one connection at most, are peers answered? | 2 keys that share a port number (TCP and HTTP, or UDP and HTTP), 2 server objects, 2 connections |
| `back_any` | does the switch tell whether a thread works, does a stop return, is every scan seen to? | each of the 3 apps, 2 callers, 2 thread objects, 2 scans |
| `iperf_any` | does a script keep its server, clean up, poll its own job, return, also when calls fail or lose their answers? | 2 scripts, both with random ports or both with the same one; 2 ports, 2 draws, 3 jobs |
| `prep_any` | does a host get a whole egg, serve once added, is nobody left waiting for the lock, with commands, connections, copies of the egg and podiums that fail? | 2 podiums, one with a thread for another host; 1 host, Ubuntu or ESX |

Failing, each a disagreement of the code with what is written about it:

| run | what it shows | what is said |
|---|---|---|
| `ctl_resume` | rules registered without a tool are not resumed after a restart | "When None (default), internal tool is used", `traffic/core.py:100` |
| `pod_unregister` | an unregistration confirmed by all leaves the rule in the podium's memory and at the destination's host | "Stop traffic, delete rules and result records", `podium.py:434` |

The properties of the passing runs say, by history variables, under which
circumstances they do not hold; each of these is a weakness of the code the
model shows when the conjunct is left out, or with the constants in brackets:

* Client task.  A thread just launched clears the event that a `stop()` has just
  set, and the loop lives on (`traffic/client.py:115`, although
  `traffic_controller.py:220` calls stops blocking to avoid zombies): `NoZombies`
  [`Allowed = {"slow_start"}` or `{"overlap"}`].  Two loops of one task: `OneLoop`
  [`{"slow_ping"}`: the join gives up, the next start clears the event for
  both].  A `close()` empties the socket under a ping, whose record is lost:
  `PingsReported` [`{"close"}`]; UDP pings are never reported at all
  [`Protocol = "UDP"`].
* Controller.  An active rule without a client after stop, restart, start:
  `ActiveIsPinging` [`{"crash"}`]; after being unregistered and registered again
  [`{"reregister"}`].  A rule registered inactive keeps its server's key without
  listening: `ServerBeforeClient` [a batch with a rule in state INACTIVE].  An
  unregistration that overlaps a start of the same rule, or a registration in
  progress: `StoppedIsSilent` [`{"overlap"}`, `{"retry"}`].  A rule that raises in
  the middle of a batch leaves the clients before it running, unknown to cache
  and table: `StoppedIsSilent` [`Bad` not empty].
* Rules table.  A statement that raises (`locked`) leaves the cache changed and the
  table not: `Persisted` without `failed`.  A rule whose save raised gets no row
  from a later start or stop, which only update one; one whose deletion did not
  commit is gone from the cache and is back after the next restart.  A rule whose
  enabling raised is active and has no client: `ActivePings` without `failed`; the
  next start says "already started", and only a stop followed by a start mends
  it.  Two registrations of one rule at once: the second has read no id, inserts,
  and violates the primary key [`{"retry"}`].  If `load_from_db` raises at the
  start, the service does not come up (not modelled).
* Recorders.  A failing recorder takes a record away from those after it; one
  without a client raises once it is switched on (`failed`, `off`).  A stop closes
  clients under the handler, which may cost the record in hand, and a start after
  it runs on closed clients (`closed`, `again`).
* Configuration.  Two calls for one parameter leave memory with the value of one
  and the table with that of the other: `UnracedReflects` without `raced`;
  "simply a reflector of database file", `config.py:153`.  A call that gets no lock,
  or sets memory only, leaves memory alone with its value (`ahead`); one that
  cannot commit has told the subscribers of a value that is not in the table
  (`torn`); a recorder that has switched itself off differs from both (`own`).
* Servers.  A peer that resets its connection ends the accept loop of a TCP
  server for good; after a restart, a TCP server that finds its place in
  TIME_WAIT does not bind (there is no SO_REUSEADDR); a TCP and an HTTP
  rule of one port fight for it: `Serves` without `hurt` and `Shares`.  A close
  before the thread has begun is undone by the thread's own `clear()`, and the
  server serves on; since its event is clear, `ClosedTakesOne` does not speak
  of it.  A peer that connects and says nothing holds
  every other one up, since `recv` has no timeout: `PeersAnswered` without
  `Blocked`.
* Monitor and loops.  Two overlapping calls of `start()` or `on()` leave two
  threads (`raced`).  The monitor never replaces a thread: once its thread
  has died of an exception, or died before `stop()` looked at it so that
  `_thread` is not reset, `start()` runs nothing, whatever the
  docstring at `monitor.py:89` says (`lost`).  A scan added while
  Lynis' loop iterates over the scans kills the loop; the loop also
  calls a `LydianDB` that `lynis.py` does not import.
* iperf.  A server that listens too late is given up and left running; a killed
  script leaves its server and handle behind, and so does one that loses the
  answer of `start_iperf_server` or the call of `stop_iperf_server`; a server that
  two scripts share is stopped by the first to finish (`hurt`); two clients started at
  once can share a job number (`raced`); a client whose output fills its pipe is
  waited for for ever (`stuck`); the generator of random ports is not renewed
  once it is used up.
* Preparation.  `remove_egg` and `copy_egg` take no notice of the lock file, and
  the lock is tested and made in two steps ("mixed"); a podium killed with the
  lock leaves everybody waiting ("crash").  A `cp` that fails half way leaves half
  an egg that every later preparation sends, since the file is there ("badcopy");
  the threads of one podium meet a half-written egg only then, or when another
  podium works, because its constructor has made the egg before them.  An ESX firewall file that was written
  but not refreshed is never put in force by a later call, since the file is
  there ("unrefreshed").  `add_host` answers True for a host on which a command
  failed (`podium.py:213` says "return True on success else False"); a host
  whose cleanup raises is missing in the result of `cleanup_hosts`.

Seen while translating, not modelled: `ssh_host.py:199` reads `.message` of an
exception, which Python 3 does not have; the `main` of `prep.py` uses an
undefined `taction`; `lydian_esx.service` has the verb `retart`; nothing in the
service calls `close` of the traffic controller.

## 4. Bounds

* *Threads of the client task*: two callers are enough for every race of two
  calls, the races the code has; three thread objects let a loop that a join
  gave up on coexist with the current one and one being made (two in
  `client_disturbed`, where temporal properties cost most).  `Tries` bounds
  the counter of a rule with tries; without them (`Limited = FALSE`) the loop
  is unbounded and the state is finite anyway.
* *Controller*: two RPC threads; four rules cover one with both ends here, one
  with each end here and a foreign one, all sharing the server's key.  Every rule
  is registered with its default state, so the inactive rule of section 3 is
  not met.  `OneFails`: rows are out of date in the rules of one batch at a time, and
  while they are, requests are about that batch.  A rule's row and entry in the
  cache are read by requests about that rule alone, so the bound leaves out
  combinations of independent rules; the proofs do not have it.
* *Records*: a queue of 2 is full within 3 records; a record's number only
  matters through order.
* *Configuration*: two writers, so that one waits for the lock or changes memory
  while the other has it.  The proofs have no such bound.
* *Podium*: two hosts and a rule each way, so that each host is a destination
  and a source; `MaxLate = 1` abandoned RPC at a time; a rule is registered once
  because its id is a fresh UUID.
* *Servers*: two server objects let a closed server and its successor, or the
  servers of two keys, meet at one port; two connections let one be in the
  handler and one in the backlog.
* *Background loops*: two thread objects at one time (dead ones that nothing
  refers to are forgotten), so that a thread given up meets the one that follows;
  two scans, so that one is added while the other is visited.
* *iperf*: two ports and two draws exhaust the generator, three jobs let one
  script run twice beside another.
* *Preparation*: two podiums are enough for a race about the egg, one
  host because nothing about two hosts is shared but the egg, and one thread that
  prepares another host meanwhile.  After a crash, or the work of two podiums at
  once, only the egg is followed further (`Further`), and a podium is killed once,
  while it has the lock: the properties about the host ask nothing of such states.
  A copy fails while nothing worse has happened.

Deadlock is checked in the runs of `TrafficClient`, `TrafficController`,
`ConfigStore` and `Podium`.  It is not in `rec_any`, `srv_any`, `iperf_any` and
`back_any`, whose bounds on records, connections, jobs and thread objects end all activity
in some states, nor in `prep_any`, where killed podiums do nothing.

Simplifications: the `finally` of `install_egg` tests for the lock file and removes
it in one step; "another thread is in the generator", for which Python raises, is
possible in `IperfJobs` whenever two scripts draw; each script of `IperfJobs` has one
server and one client process.

## 5. Fairness

Weak fairness is assumed of what the operating system schedules, nothing else:

* `TrafficClient`: a caller within a call, a launched ping thread, the return of a
  join that may return.  A socket operation ends because the code sets timeouts
  on it; a join because it has one.
* `RecordPipeline`: the handler thread, the stopping of one recorder after the other,
  and the return of `close`, whose join ends because the handler's `get` has a
  timeout.  No start during or after a `close` is modelled: one during the join
  would clear the event, and the join then waits for a handler that runs on.
* `TrafficServer`: server threads, HTTP request threads, and peers that are going
  to speak; a silent peer is never obliged to.
* `BackgroundLoop`: callers within a call, and loops, whose turns end in a sleep.
* `IperfJobs`: scripts, a server that comes up or fails, a transfer that ends
  because it has a duration; a call that fails needs no fairness.  `HostPrep`: the
  steps that install the egg (`InstallStep`), all of them local.

Nobody is assumed to start, stop, ping, add, connect or close anything.
`TrafficController`, `ConfigStore` and `Podium` have safety properties only.

## 6. Proofs

All for every value of the constants, under the assumptions the modules name
(`ClientAssumption`, `ServerAssumption`, `ControllerAssumption`,
`PipelineAssumption`, `ConfigAssumption`, `LoopAssumption`, `IperfAssumption`,
`PrepAssumption`, `PodiumAssumption`), which TLC also evaluates in the runs: they give
each constant its type, and say that a batch names a rule once and that recorders have
different names.  No number of threads, hosts, rules, records or servers is
fixed.  `TypeCorrect` (`ServerTypeCorrect` for the servers) is the type invariant
the other proofs of a module use.

* `Traffic_proofs`, the client task.  `TypeCorrect`, `RunningIsTrueHolds` and
  `SocketHeldHolds` hold whatever the environment does.  `OneLoopHolds`,
  `NoZombiesHolds`, `OwnSocketHolds` and, for TCP and HTTP,
  `PingsReportedHolds` assume `Allowed = {}` and rest on one inductive invariant
  of three parts: what a caller within a call knows of the event and of the
  remembered thread (`CallersInv`), that every live loop is the remembered
  thread (`ThreadsInv`), and what a loop within a ping knows of its socket, its
  attempts and its report (`PingInv`).  "No zombies" alone is not inductive: it
  says nothing of the time between the stop and the end of the join.
  `LifecycleSteps`: under the same assumption the task implements the safety part
  of `TaskLifecycle`, each step of a caller or a thread being a step of the
  lifecycle or a stutter.  `PhaseIs` and `WorkersAre` read phase and number of
  loops off the invariant, so that a step is settled by what it does to the event
  and to the places of its agents.  `StoppedIsIdleHolds` is the lifecycle's promise.
* `Traffic_proofs`, the servers.  `ServesHolds` and `ClosedTakesOneHolds` assume
  nothing of the environment.  `ServerInv` says that a server at an undisturbed
  place is the one the table has for its key (`Registered`), that a connection in a server's hands is one
  of its place (`Taken`), what a place no one has disturbed looks like
  (`Untouched`, `Listening`), and that a server that has taken a connection
  with its event set is at most on its way back to the test (`Latest`).
* `TrafficController_proofs`.  `ServerBeforeClientHolds` assumes only that rules
  whose destination is here are registered active (`ServersOn`), the default: an
  inactive one keeps its key without listening (section 3).  Its
  invariant adds to the property that a key in the manager's dictionary, or of a
  registration past its server, has been launched, and that a service that is
  down has nothing running.  `PersistedHolds` assumes that requests about one
  rule do not overlap and none is registered while it is being worked on
  (`OneAtATime`); rules may still be registered again and registrations may raise.
  `SavedInv` says that only a thread between its change of the cache and its
  change of the table, or a write that has raised and has not been made up for
  (`failed`), can separate the two, and which value the cache then has.
  `StoppedIsSilentHolds` and `ActivePingsHolds` assume, besides, that nothing is
  registered again (`Orderly` allows crashes and statements that raise, no more) and that a rule that raises is registered alone
  (`BadAlone`); section 3 has what happens otherwise.  Crashes and restarts are included throughout.  The invariant says
  that each running client is that of an active rule or of a registration under
  way, what the request at each step knows of its rule (`WorkingInv`,
  `RegisteringInv`), and, for `ActivePings`, that a rule which was active at
  the last start has a task, running unless a request is just turning it
  or its own enabling has raised (`TaskInv`, `ActiveInv`).  Neither property is inductive alone: each says
  nothing of a rule a request is working on.
* `RecordPipeline_proofs`.  `TypeCorrect`, `DroppedOrHandedHolds`, and
  `LogIsInOrder`: the pipeline implements `RecordLog`.  The invariant orders the
  log, the record in hand and the queue, so that what is written next is newer
  than what is written; the record in hand may already be in the log of the
  recorder just called, which the turn tells.  `EveryRecorderServedHolds` adds,
  per recorder, that it is still on and that the record in hand is in its log
  once its turn is over; where a stop has closed its client, that a record it
  misses is the last one the handler took, which is about to end (`ServedInv`,
  `Ending`) unless the manager was started on closed clients.
* `ConfigStore_proofs`.  `TypeCorrect`, and `SubscribersFreshHolds`, whatever
  times out, overlaps or crashes.  Freshness is not inductive while calls are under way: the
  invariant says that a stale copy is always the business of a writer that has
  not got the lock yet, or of the one that has and still lists that subscriber
  (`ViewsInv`), that a value read too early is followed by such a writer
  (`GotInv`), that a copy switched off by its owner is off until it is told
  (`OwnInv`), and that the lock has one owner (`LockInv`).
  A copy may be stale only where the last call to change memory never got the lock
  or set memory only (`ahead`), which no notification follows.
  `UnracedReflectsHolds` speaks of the parameters no two calls have set at a time:
  for each, the one setter has the value of memory in hand (`SetsLast`), what it
  has told is that value (`TellsVal`), and a difference of memory, table and copies
  is its business or recorded in `ahead`, `torn` or `own` (`Reflected`, `RacedInv`).
* `BackgroundLoop_proofs`.  `SwitchTellsHolds`: between calls the switch tells
  whether a thread works, as long as no two calls have overlapped.  What holds
  between calls is not inductive: the invariant (`SwitchInv`) says that at
  most one caller is in a call, that only the thread the attribute names can be
  alive, and for each place in a call (`Phase`) what the switch and that thread
  are.
* `IperfJobs_proofs`.  `OwnJobHolds`, `ServerStaysHolds` and `CleansUpHolds`.
  `JobsInv`: while no two clients have been started at once, at most one script is
  between counting and storing its job, the number it has counted is no other
  script's, and a stored job is its script's.  `PortsInv` says of a port that is
  not in `hurt`, whatever calls have failed, which of "a script uses it", "a
  handle is stored", "a process listens" there is at each place of that script
  (`PortInv`).
* `HostPrep_proofs`.  `WholeEggHolds`: no host has half an egg unless a podium
  was killed, a transfer broke, the egg could not be made or copied, or two podiums
  worked at a time.  The invariant (`EggInv`) follows the half egg back: who writes
  the file is at the copy (`WritersCopy`), a torn file is among what is noted
  (`TornFile`), threads run only while their podium does (`HomeIn`), agents at work
  are of one podium (`Alone`), and as long as nothing is noted the egg is made by
  constructors only, each alone, before any thread looks for it (`Made`).
  `AddedServesHolds`: at each command of a preparation without failures the host is
  as the commands before it have left it (`Ready`), and a firewall file not in
  force is on its way to be refreshed (`Written`).  `KnownServesHolds`: while
  nothing has gone wrong a known host out of reach is being prepared again, or
  cleaned up by the only podium that knows it (`KnownInv`).
* `Podium_proofs`.  Nothing is excluded: RPCs fail, lose their answer or come late,
  nodes and the podium restart.  `ServersFirstHolds`: a rule between two hosts
  that pings, whose client is being started, or whose client's registration
  may still land, has a server at its destination or is already counted as missed
  (`ServerInv`).  `StopHoldsAlways`: a rule whose stop is confirmed, or answered
  by its host so far, is quiet, and no RPC that could start it is under way
  or late (`StopInv`).  `StoppableHolds`: what a node has, and what a late
  registration would give it, the podium has or is about to save, and it knows
  every host that is not off (`ReachInv`).

## 7. Model-checked only

The liveness properties `CallsReturn`, `StopsInTheEnd`, `CloseReturns`,
`QueueDrains`, `PeersAnswered`, `StopReturns`, `ScansAreDone`, `ScriptsEnd` and
`InstallsEnd`, and the fairness part of `ImplementsLifecycle`: TLAPS reasons neither
about fairness nor about ENABLED.  The two properties of the failing runs are
refuted, by TLC.

What the theorems about the client task and the controller say nothing of is
what their hypotheses exclude: overlapping, hasty and repeated requests.
`client_disturbed` checks what of the client is left then; the
counterexamples of section 3 are what is not.

## 8. Not modelled, and the plan

Still worth doing, in this order:

1. A composition of `Podium` with the node's promises stated as a module of its
   own, which `TrafficController` implements, and the proof that it does;
   duplicated rules in a batch (`rules.py:126`).
2. Proofs of the controller's properties under weaker hypotheses: `StoppedIsSilent`
   for the rules no request has raced about, told by a history variable instead
   of excluded for all (as `UnracedReflects` does for parameters).
3. The remaining operations of the controller (`register_rule`, `close`,
   interface discovery), of the `Iperf` app (`stop`), and tcpdump.

Left out for good: parsing and typing of configuration values and
`write_config_file`; HTTP and payload formats; argument parsing and output
(command line, console, API server); the Rapidscan wrapper; results and host
information, which are queries; the web front end; logging; NTP, the removal of
databases and the package set-up of a host; Windows hosts.  The service
and its RPC controller appear in every module as its concurrent callers.  The
namespace of a thread (`task.py:72`) needs a model of the kernel's per-thread
namespace; it is listed as a hazard only.
