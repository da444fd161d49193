---------------------------- MODULE TrafficServer ----------------------------
(***************************************************************************)
(* The echo servers of one node (lydian/traffic/server.py): a server task  *)
(* per key of ServerManager, each in a daemon thread of its own, and the   *)
(* peers that connect to them.                                             *)
(*                                                                         *)
(* A TCP server answers one connection after the other in its own thread;  *)
(* a UDP server one datagram after the other; an HTTP server each          *)
(* connection in a thread of its own.  A step is one system call, or one   *)
(* access to the stop event or to self.socket, that another thread could   *)
(* come before.  A connection is its number: the backlog of a listening    *)
(* socket is first come, first served.                                     *)
(***************************************************************************)
EXTENDS Naturals, FiniteSets

CONSTANTS
    Keys,           \* (target, protocol, port) of the server tasks
    Port,           \* the port of each key
    Kinds,          \* the protocols the keys may have: functions on Keys
    MaxServers,     \* bound of the model on the server objects of one process
    MaxConns,       \* bound of the model on the connections made
    ServerAllowed   \* what the environment may do, a subset of ServerDisturbances

(* close    the manager is closed and its servers with it                  *)
(* hasty    ... even while the thread of a server has not begun            *)
(* restart  the process dies and starts again                              *)
(* reset    a peer resets its connection                                   *)
(* silent   a peer connects and never says anything                        *)
(* clash    a TCP and an HTTP key have one port                            *)
ServerDisturbances == {"close", "hasty", "restart", "reset", "silent", "clash"}

ASSUME ServerAssumption ==
    /\ IsFiniteSet(Keys) /\ Keys # {} /\ DOMAIN Port = Keys
    /\ Kinds \subseteq [Keys -> {"tcp", "udp", "http"}]
    /\ MaxServers \in Nat /\ MaxConns \in Nat
    /\ ServerAllowed \subseteq ServerDisturbances

VARIABLES
    kind,      \* the protocol of each key, chosen once
    table,     \* ServerManager._traffic_tasks: key -> server, 0 for none
    server,    \* the server objects
    conn,      \* the connections (for UDP, the datagrams)
    linger,    \* places with connections of this side in TIME_WAIT
    closing,   \* keys TrafficManager.close has yet to close
    late,      \* connections a server took with its event set (history)
    hurt       \* places where the environment has disturbed a server (history)

serverVars == <<kind, table, server, conn, linger, closing, late, hurt>>

Servers == 1 .. MaxServers
Conns == 1 .. MaxConns

(* Where a server is bound: UDP ports are not TCP ports. *)
Place(k) == <<Port[k], kind[k] = "udp">>
Places == {Place(k) : k \in Keys}

(* A server object: its thread has yet to begin ("launched"), has cleared  *)
(* the event, is at the test of its loop, blocked in accept(), in the      *)
(* handler of a connection, in serve_forever(), or over.                   *)
Steps == {"free", "launched", "cleared", "loop", "accept", "handler", "forever", "dead"}
Server == [key : Keys, at : Steps, event : BOOLEAN, socket : BOOLEAN]

Conn == [at : {"none", "queued", "served", "answered", "unheard", "dropped"},
         place : Places, by : 0 .. MaxServers, said : BOOLEAN, mute : BOOLEAN,
         left : {"no", "closed", "reset"}]

ServerTypeOK ==
    /\ kind \in Kinds
    /\ table \in [Keys -> 0 .. MaxServers]
    /\ server \in [Servers -> Server]
    /\ conn \in [Conns -> Conn]
    /\ linger \subseteq Places
    /\ closing \subseteq Keys
    /\ late \in [Servers -> 0 .. MaxConns]
    /\ hurt \subseteq Places
    /\ \A k \in Keys : table[k] # 0 => server[table[k]].key = k

Key(s) == server[s].key
Kind(s) == kind[Key(s)]
At(s) == server[s].at

(* The kernel's side: accept() holds the listening socket even if another  *)
(* thread has closed it meanwhile.                                         *)
Bound(s) == \/ At(s) \in {"accept", "forever"}
            \/ At(s) \in {"loop", "handler"} /\ server[s].socket
Holders(p) == {s \in Servers : At(s) # "free" /\ Place(Key(s)) = p /\ Bound(s)}

Unused == CHOOSE k \in Keys : TRUE
ServerInit ==
    /\ kind \in Kinds
    /\ "clash" \in ServerAllowed \/ \A j, k \in Keys : Place(j) = Place(k) => j = k
    /\ table = [k \in Keys |-> 0]
    /\ server = [s \in Servers |-> [key |-> Unused, at |-> "free", event |-> TRUE, socket |-> FALSE]]
    /\ conn = [c \in Conns |-> [at |-> "none", place |-> Place(Unused), by |-> 0,
                                said |-> FALSE, mute |-> FALSE, left |-> "no"]]
    /\ linger = {} /\ closing = {}
    /\ late = [s \in Servers |-> 0]
    /\ hurt = {}

(***************************************************************************)
(* The tasks.                                                              *)
(***************************************************************************)
(* Mutant: the key leaves the protocol out. *)
AddByPort(k) ==
    /\ table[k] = 0 /\ closing = {}
    /\ \E s \in Servers :
         /\ At(s) = "free" /\ \A t \in Servers : At(t) = "free" => s <= t
         /\ table' = [j \in Keys |-> IF Port[j] = Port[k] THEN s ELSE table[j]]
         /\ server' = [server EXCEPT ![s] = [key |-> k, at |-> "launched",
                         event |-> kind[k] # "http", socket |-> FALSE]]
    /\ UNCHANGED <<kind, conn, linger, closing, late, hurt>>

(* add_task of an enabled rule whose key is new.  A Connection is stopped  *)
(* until it starts; the constructor of an HTTP server clears the event.    *)
Add(k) ==
    /\ table[k] = 0 /\ closing = {}
    /\ \E s \in Servers :
         /\ At(s) = "free" /\ \A t \in Servers : At(t) = "free" => s <= t
         /\ table' = [table EXCEPT ![k] = s]
         /\ server' = [server EXCEPT ![s] = [key |-> k, at |-> "launched",
                         event |-> kind[k] # "http", socket |-> FALSE]]
    /\ UNCHANGED <<kind, conn, linger, closing, late, hurt>>

(* What became of a connection, once it is over. *)
Over(c, how) == [conn[c] EXCEPT !.at = how, !.by = 0, !.said = FALSE, !.mute = FALSE, !.left = "no"]

(* A listening socket is gone and so are the connections in its backlog.   *)
Lost(conns, p) ==
    [c \in Conns |-> IF conns[c].at = "queued" /\ conns[c].place = p
                     THEN Over(c, "dropped") ELSE conns[c]]

(* The end of TCPServer.start or UDPServer.start: whatever was raised is   *)
(* caught and the server closed.  cs: the connections as the step left     *)
(* them.                                                                   *)
End(s, cs) ==
    /\ server' = [server EXCEPT ![s] = [@ EXCEPT !.at = "dead", !.event = TRUE, !.socket = FALSE]]
    /\ conn' = IF Bound(s) THEN Lost(cs, Place(Key(s))) ELSE cs

Clear(s) ==
    /\ At(s) = "launched" /\ Kind(s) # "http"
    /\ server' = [server EXCEPT ![s].at = "cleared", ![s].event = FALSE]
    /\ UNCHANGED <<kind, table, conn, linger, closing, late, hurt>>

(* Connections accepted at a place occupy its port as well. *)
Accepted(p) == \E c \in Conns : conn[c].at = "served" /\ conn[c].place = p
PortFree(p) == Holders(p) = {} /\ p \notin linger /\ ~Accepted(p)

(* socket, bind and listen: no SO_REUSEADDR, so a port in TIME_WAIT is in  *)
(* use.  (A close() between the calls takes the socket away and bind       *)
(* raises; one before them is seen at the test of the loop.)               *)
Bind(s) ==
    /\ At(s) = "cleared"
    /\ IF PortFree(Place(Key(s)))
       THEN server' = [server EXCEPT ![s].at = "loop", ![s].socket = TRUE] /\ UNCHANGED conn
       ELSE End(s, conn)
    /\ UNCHANGED <<kind, table, linger, closing, late, hurt>>

(* Mutant: the loop does not test the event. *)
LoopForever(s) ==
    /\ At(s) = "loop"
    /\ server' = [server EXCEPT ![s].at = "accept"]
    /\ UNCHANGED <<kind, table, conn, linger, closing, late, hurt>>

Loop(s) ==
    /\ At(s) = "loop"
    /\ IF server[s].event THEN End(s, conn)
       ELSE server' = [server EXCEPT ![s].at = "accept"] /\ UNCHANGED conn
    /\ UNCHANGED <<kind, table, linger, closing, late, hurt>>

(* The first connection in the backlog of a server's socket. *)
First(s, c) ==
    /\ conn[c].at = "queued" /\ conn[c].place = Place(Key(s))
    /\ \A d \in Conns : conn[d].at = "queued" /\ conn[d].place = conn[c].place => c <= d

TookLate(s) == late' = [late EXCEPT ![s] = IF server[s].event THEN @ + 1 ELSE @]

(* accept() returns; the handler has the connection. *)
Accept(s) ==
    /\ At(s) = "accept" /\ Kind(s) = "tcp"
    /\ \E c \in Conns :
         /\ First(s, c)
         /\ LET cs == [conn EXCEPT ![c].at = "served", ![c].by = s] IN
              conn' = IF server[s].socket THEN cs ELSE Lost(cs, conn[c].place)
    /\ server' = [server EXCEPT ![s].at = "handler"]
    /\ TookLate(s)
    /\ UNCHANGED <<kind, table, linger, closing, hurt>>

(* Mutant: an empty message is taken for an error. *)
EchoOrFail(s) ==
    /\ At(s) = "handler"
    /\ \E c \in Conns :
         /\ conn[c].at = "served" /\ conn[c].by = s
         /\ conn[c].said \/ conn[c].left # "no"
         /\ IF conn[c].left = "reset" \/ ~conn[c].said
            THEN End(s, [conn EXCEPT ![c] = Over(c, "dropped")]) /\ UNCHANGED linger
            ELSE /\ conn' = [conn EXCEPT ![c] = Over(c, "answered")]
                 /\ linger' = IF conn[c].left = "no" THEN linger \cup {conn[c].place} ELSE linger
                 /\ server' = [server EXCEPT ![s].at = "loop"]
    /\ UNCHANGED <<kind, table, closing, late, hurt>>

(* Mutant: the handler waits for a message from a peer that has left. *)
EchoSaidOnly(s) ==
    /\ At(s) = "handler"
    /\ \E c \in Conns :
         /\ conn[c].at = "served" /\ conn[c].by = s
         /\ conn[c].said
         /\ IF conn[c].left = "reset"
            THEN End(s, [conn EXCEPT ![c] = Over(c, "dropped")]) /\ UNCHANGED linger
            ELSE /\ conn' = [conn EXCEPT ![c] = Over(c, "answered")]
                 /\ linger' = IF conn[c].left = "no" THEN linger \cup {conn[c].place} ELSE linger
                 /\ server' = [server EXCEPT ![s].at = "loop"]
    /\ UNCHANGED <<kind, table, closing, late, hurt>>

(* TCPServer.echo_handler: wait for the message, or the end, of this one   *)
(* connection, send it back, close.  Who closes first waits in TIME_WAIT.  *)
(* A reset raises, and that leaves the loop.                               *)
Echo(s) ==
    /\ At(s) = "handler"
    /\ \E c \in Conns :
         /\ conn[c].at = "served" /\ conn[c].by = s
         /\ conn[c].said \/ conn[c].left # "no"
         /\ IF conn[c].left = "reset"
            THEN End(s, [conn EXCEPT ![c] = Over(c, "dropped")]) /\ UNCHANGED linger
            ELSE /\ conn' = [conn EXCEPT ![c] = Over(c, IF conn[c].said THEN "answered" ELSE "unheard")]
                 /\ linger' = IF conn[c].left = "no" THEN linger \cup {conn[c].place} ELSE linger
                 /\ server' = [server EXCEPT ![s].at = "loop"]
    /\ UNCHANGED <<kind, table, closing, late, hurt>>

(* recvfrom() returns; the reply goes through self.socket, which close()   *)
(* has set to None.                                                        *)
Datagram(s) ==
    /\ At(s) = "accept" /\ Kind(s) = "udp"
    /\ \E c \in Conns :
         /\ First(s, c)
         /\ IF server[s].socket
            THEN /\ conn' = [conn EXCEPT ![c] = Over(c, "answered")]
                 /\ server' = [server EXCEPT ![s].at = "loop"]
            ELSE End(s, [conn EXCEPT ![c] = Over(c, "unheard")])
    /\ TookLate(s)
    /\ UNCHANGED <<kind, table, linger, closing, hurt>>

(* HTTPServer.start: http.server reuses an address in TIME_WAIT.  What the *)
(* constructor raises on a port in use ends the thread.                    *)
Serve(s) ==
    /\ At(s) = "launched" /\ Kind(s) = "http"
    /\ server' = [server EXCEPT ![s].at = IF Holders(Place(Key(s))) = {} THEN "forever" ELSE "dead"]
    /\ UNCHANGED <<kind, table, conn, linger, closing, late, hurt>>

HandOver(s) ==
    /\ At(s) = "forever"
    /\ \E c \in Conns :
         First(s, c) /\ conn' = [conn EXCEPT ![c].at = "served", ![c].by = s]
    /\ UNCHANGED <<kind, table, server, linger, closing, late, hurt>>

(* do_GET, in the connection's thread: an error ends that thread only.     *)
Get(c) ==
    /\ conn[c].at = "served" /\ conn[c].place[2] = FALSE
    /\ Kind(conn[c].by) = "http"
    /\ conn[c].said \/ conn[c].left # "no"
    /\ conn' = [conn EXCEPT ![c] = Over(c,
                  IF conn[c].left = "reset" THEN "dropped"
                  ELSE IF conn[c].said THEN "answered" ELSE "unheard")]
    /\ linger' = IF conn[c].left = "no" THEN linger \cup {conn[c].place} ELSE linger
    /\ UNCHANGED <<kind, table, server, closing, late, hurt>>

(***************************************************************************)
(* TrafficManager.close: every task is closed, its thread joined for a     *)
(* while, then all are forgotten.                                          *)
(***************************************************************************)
CloseAll ==
    /\ "close" \in ServerAllowed
    /\ closing = {} /\ \E k \in Keys : table[k] # 0
    /\ closing' = {k \in Keys : table[k] # 0}
    /\ UNCHANGED <<kind, table, server, conn, linger, late, hurt>>

(* Connection.close: set the event, close the socket if there is one.      *)
CloseServer(s) ==
    /\ server' = [server EXCEPT ![s] = [@ EXCEPT !.event = TRUE, !.socket = FALSE]]
    /\ conn' = IF Bound(s) /\ At(s) # "accept" THEN Lost(conn, Place(Key(s))) ELSE conn

(* HTTPServer.stop: shutdown() waits for serve_forever() to end.  Nothing  *)
(* is shut down if the thread has not made the httpd yet.                  *)
ShutDown(s) ==
    /\ server' = [server EXCEPT ![s].event = TRUE,
                                ![s].at = IF At(s) = "forever" THEN "dead" ELSE At(s)]
    /\ conn' = IF Bound(s) THEN Lost(conn, Place(Key(s))) ELSE conn

CloseOne(k) ==
    /\ k \in closing
    /\ At(table[k]) = "launched" => "hasty" \in ServerAllowed
    /\ IF kind[k] = "http" THEN ShutDown(table[k]) ELSE CloseServer(table[k])
    /\ hurt' = hurt \cup {Place(k)}
    /\ closing' = closing \ {k}
    /\ table' = IF closing' = {} THEN [j \in Keys |-> 0] ELSE table
    /\ UNCHANGED <<kind, linger, late>>

(* The process dies.  The rules it resumes add their servers again.        *)
Restart ==
    /\ "restart" \in ServerAllowed
    /\ \E k \in Keys : table[k] # 0
    /\ table' = [k \in Keys |-> 0]
    /\ server' = [s \in Servers |-> [server[s] EXCEPT !.at = "free", !.socket = FALSE]]
    /\ conn' = [c \in Conns |-> IF conn[c].at \in {"queued", "served"}
                                THEN Over(c, "dropped") ELSE conn[c]]
    /\ late' = [s \in Servers |-> 0]
    /\ closing' = {}
    /\ hurt' = Places
    /\ UNCHANGED <<kind, linger>>

(***************************************************************************)
(* The peers and the kernel.                                               *)
(***************************************************************************)
(* A peer connects.  The clients of this program speak at once; others may *)
(* not.                                                                    *)
PeerConnect(p) ==
    /\ Holders(p) # {}
    /\ \E c \in Conns, mute \in BOOLEAN :
         /\ conn[c].at = "none" /\ \A d \in Conns : conn[d].at = "none" => c <= d
         /\ mute => "silent" \in ServerAllowed /\ ~p[2]
         /\ conn' = [conn EXCEPT ![c] = [at |-> "queued", place |-> p, by |-> 0,
                       said |-> p[2], mute |-> mute, left |-> "no"]]
    /\ UNCHANGED <<kind, table, server, linger, closing, late, hurt>>

Open(c) == conn[c].at \in {"queued", "served"} /\ conn[c].left = "no" /\ ~conn[c].place[2]

Say(c) ==
    /\ Open(c) /\ ~conn[c].said /\ ~conn[c].mute
    /\ conn' = [conn EXCEPT ![c].said = TRUE]
    /\ UNCHANGED <<kind, table, server, linger, closing, late, hurt>>

(* The client gives up after its timeout. *)
Leave(c) ==
    /\ Open(c)
    /\ conn' = [conn EXCEPT ![c].left = "closed"]
    /\ UNCHANGED <<kind, table, server, linger, closing, late, hurt>>

ResetConn(c) ==
    /\ "reset" \in ServerAllowed /\ Open(c)
    /\ conn' = [conn EXCEPT ![c].left = "reset"]
    /\ hurt' = hurt \cup {conn[c].place}
    /\ UNCHANGED <<kind, table, server, linger, closing, late>>

TimeWaitOver(p) ==
    /\ p \in linger
    /\ linger' = linger \ {p}
    /\ UNCHANGED <<kind, table, server, conn, closing, late, hurt>>

ServerStep(s) ==
    \/ Clear(s) \/ Bind(s) \/ Loop(s) \/ Accept(s) \/ Echo(s)
    \/ Datagram(s) \/ Serve(s) \/ HandOver(s)

ServerNext ==
    \/ \E s \in Servers : ServerStep(s)
    \/ \E k \in Keys : Add(k) \/ CloseOne(k)
    \/ CloseAll \/ Restart
    \/ \E p \in Places : PeerConnect(p) \/ TimeWaitOver(p)
    \/ \E c \in Conns : Get(c) \/ Say(c) \/ Leave(c) \/ ResetConn(c)

ServerSpec == ServerInit /\ [][ServerNext]_serverVars

(* Threads that can run do; a peer that is going to speak speaks.          *)
FairServerSpec ==
    /\ ServerSpec
    /\ \A s \in Servers : WF_serverVars(ServerStep(s))
    /\ \A c \in Conns : WF_serverVars(Get(c)) /\ WF_serverVars(Say(c))

(***************************************************************************)
(* Properties.                                                             *)
(***************************************************************************)
Shares(k) == \E j \in Keys \ {k} : Place(j) = Place(k) /\ table[j] # 0

(* The server of a registered rule is on its way or serves: unless a peer  *)
(* reset a connection, or the place was used before, or another key has    *)
(* the port, nothing peers do ends its loop (server.py:79-83), so that a   *)
(* rule that fails fails for the network's sake.                           *)
Serves ==
    \A k \in Keys :
      table[k] # 0 /\ Place(k) \notin hurt /\ ~Shares(k) => At(table[k]) # "dead"

(* close() does not wake the thread in accept(): it takes one more         *)
(* connection, and no more (server.py:74-79).  (One closed before its      *)
(* thread has begun has its event cleared again, and serves on.)           *)
ClosedTakesOne == \A s \in Servers : late[s] <= 1

(* A peer that speaks, or leaves, is answered or turned away; only a       *)
(* silent one before it in the line of a TCP server can keep it waiting    *)
(* (server.py:89 has no timeout).                                          *)
Waiting(c) == conn[c].at \in {"queued", "served"} /\ (~conn[c].mute \/ conn[c].left # "no")
Blocked(c) ==
    \E d \in Conns :
      /\ d < c /\ conn[d].at = "served" /\ conn[d].place = conn[c].place
      /\ conn[d].mute /\ conn[d].left = "no" /\ Kind(conn[d].by) = "tcp"
PeersAnswered == \A c \in Conns : Waiting(c) ~> (~Waiting(c) \/ Blocked(c))

=============================================================================
