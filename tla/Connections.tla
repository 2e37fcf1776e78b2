----------------------------- MODULE Connections ----------------------------
(***************************************************************************)
(* One charger id and its websockets to the CSMS, one after the other or    *)
(* several at once: the charger's connect and disconnect calls, the CSMS's  *)
(* endpoint for each websocket, the registry entry they share, and the      *)
(* heartbeat tasks.  Sockets are numbered in the order of their opening.    *)
(*                                                                          *)
(* The websocket library and the ASGI server are external: a handshake      *)
(* takes a network round trip, an end that is closed is noticed by the      *)
(* other in the end, and close() waits for that.                            *)
(***************************************************************************)
EXTENDS Naturals

CONSTANTS
    MaxSockets,    \* bound: how many websockets may be opened
    Environment    \* what users and the network may do: see Situations

\* reconnect: connect may be called while the charger holds a websocket
\* overlap: connect and disconnect may be called while such a call runs
\* drop: a handshake may fail; a websocket may break, and its two ends notice
\*   at different times
Situations == {"reconnect", "overlap", "drop"}

ASSUME MaxSocketsAssumption == MaxSockets \in Nat
ASSUME EnvironmentAssumption == Environment \subseteq Situations

Sockets == 1 .. MaxSockets
NoSocket == 0

VARIABLES
    opened,       \* how many websockets were opened
    clients,      \* the charger's end of each websocket
    servers,      \* the CSMS's end of each websocket
    connects,     \* the connect_to_csms call that opened each websocket
    ws,           \* _ws
    connection,   \* _connection, the websocket that call() sends on
    closing,      \* the websocket whose close() disconnect_from_csms awaits
    heartbeats,   \* the heartbeat tasks alive, by the boot that created them
    heartbeat,    \* _heartbeat_task: the one created last
    endpoints,    \* the CSMS's endpoint coroutine of each websocket
    tasks,        \* the ConnectedChargePoint.start() task of each websocket
    registry      \* the entry of the charger id, in _connections and _tasks

clientVars == <<connects, ws, connection, closing, heartbeats, heartbeat>>
csmsVars == <<endpoints, tasks, registry>>
socketVars == <<opened, clients, servers>>
vars == <<clientVars, csmsVars, socketVars>>

-----------------------------------------------------------------------------
(* State formulae                                                           *)

\* A call sent on g is answered.
Answered(g) ==
    g \in Sockets /\ clients[g] = "open" /\ servers[g] = "open" /\ tasks[g] = "running"

\* Something at the CSMS is ready to run.  asyncio runs what is ready before a
\* further round trip of the network can complete.
Broken(g) == tasks[g] = "running" /\ servers[g] = "closed"
Abandoned(g) == endpoints[g] = "serving" /\ tasks[g] # "running"
LoopIdle == \A g \in Sockets : ~Broken(g) /\ ~Abandoned(g)

NoCall == closing = NoSocket /\ \A g \in Sockets : connects[g] \in {"none", "done"}

\* No call runs, nothing is ready to run, and no end waits to be noticed.
AtRest ==
    /\ NoCall /\ LoopIdle
    /\ \A g \in Sockets : endpoints[g] # "accepted" /\ (clients[g] = "open" <=> servers[g] = "open")

-----------------------------------------------------------------------------
(* The charger                                                              *)

\* connect_to_csms up to the websocket handshake.  It does not look at _ws.
Connect(g) ==
    /\ "overlap" \in Environment \/ NoCall
    /\ "reconnect" \in Environment \/ ws = NoSocket \/ closing # NoSocket
    /\ g = opened + 1
    /\ opened' = g
    /\ connects' = [connects EXCEPT ![g] = "handshake"]
    /\ UNCHANGED <<clients, servers, ws, connection, closing, heartbeats, heartbeat, csmsVars>>

\* The handshake raises, refused or not answered in time, and connect_to_csms
\* with it.  An endpoint that has accepted it has to notice.
HandshakeFails(g) ==
    /\ "drop" \in Environment
    /\ connects[g] = "handshake"
    /\ endpoints[g] # "accepted"
    /\ connects' = [connects EXCEPT ![g] = "done"]
    /\ clients' = [clients EXCEPT ![g] = "closed"]
    /\ UNCHANGED <<opened, servers, ws, connection, closing, heartbeats, heartbeat, csmsVars>>

\* Mutant: the heartbeat task is created before the boot is answered.
ConnectedBeating(g) ==
    /\ connects[g] = "handshake"
    /\ endpoints[g] # "none"
    /\ connects' = [connects EXCEPT ![g] = "boot"]
    /\ clients' = [clients EXCEPT ![g] = "open"]
    /\ ws' = g
    /\ connection' = g
    /\ heartbeats' = heartbeats \cup {g}
    /\ heartbeat' = g
    /\ UNCHANGED <<opened, servers, closing, csmsVars>>

\* The handshake is done: start() is created and the boot sequence begins.
Connected(g) ==
    /\ connects[g] = "handshake"
    /\ endpoints[g] # "none"
    /\ connects' = [connects EXCEPT ![g] = "boot"]
    /\ clients' = [clients EXCEPT ![g] = "open"]
    /\ ws' = g
    /\ connection' = g
    /\ UNCHANGED <<opened, servers, closing, heartbeats, heartbeat, csmsVars>>

\* Mutant: the heartbeat task is created only once, for the first boot.
BootReturnsBeatingOnce(g) ==
    /\ connects[g] = "boot"
    /\ Answered(connection)
    /\ connects' = [connects EXCEPT ![g] = "done"]
    /\ heartbeats' = IF heartbeat = NoSocket THEN {g} ELSE heartbeats
    /\ heartbeat' = IF heartbeat = NoSocket THEN g ELSE heartbeat
    /\ UNCHANGED <<socketVars, ws, connection, closing, csmsVars>>

\* BootNotification is answered: the heartbeat task is created.  The status
\* notifications that follow change no state.
BootReturns(g) ==
    /\ connects[g] = "boot"
    /\ Answered(connection)
    /\ connects' = [connects EXCEPT ![g] = "done"]
    /\ heartbeats' = heartbeats \cup {g}
    /\ heartbeat' = g
    /\ UNCHANGED <<socketVars, ws, connection, closing, csmsVars>>

\* Mutant: a boot call that failed is made again, for ever.
BootRetries(g) ==
    /\ connects[g] = "boot"
    /\ ~Answered(connection)
    /\ UNCHANGED vars

\* The call raises: closed websocket, or no answer in time.
BootFails(g) ==
    /\ connects[g] = "boot"
    /\ ~Answered(connection)
    /\ endpoints[connection] # "accepted"
    /\ connects' = [connects EXCEPT ![g] = "done"]
    /\ UNCHANGED <<socketVars, ws, connection, closing, heartbeats, heartbeat, csmsVars>>

\* The loop ends when its call fails, or when it finds no websocket after it.
HeartbeatEnds(k) ==
    /\ k \in heartbeats
    /\ ~Answered(connection) \/ ws = NoSocket
    /\ heartbeats' = heartbeats \ {k}
    /\ UNCHANGED <<socketVars, connects, ws, connection, closing, heartbeat, csmsVars>>

\* Mutant: the heartbeat task is not cancelled.
DisconnectKeepsHeartbeat ==
    /\ "overlap" \in Environment \/ NoCall
    /\ closing = NoSocket
    /\ \/ ws = NoSocket /\ UNCHANGED <<clients, closing, ws>>
       \/ /\ ws # NoSocket /\ clients[ws] = "closed"
          /\ ws' = NoSocket
          /\ UNCHANGED <<clients, closing>>
       \/ /\ ws # NoSocket /\ clients[ws] # "closed"
          /\ clients' = [clients EXCEPT ![ws] = "closed"]
          /\ closing' = ws
          /\ UNCHANGED ws
    /\ UNCHANGED <<opened, servers, connects, connection, heartbeats, heartbeat, csmsVars>>

\* disconnect_from_csms up to its await.  close() on a websocket whose end is
\* closed already returns at once.  Bound: one disconnect awaits at a time.
Disconnect ==
    /\ "overlap" \in Environment \/ NoCall
    /\ closing = NoSocket
    /\ heartbeats' = heartbeats \ {heartbeat}
    /\ \/ ws = NoSocket /\ UNCHANGED <<clients, closing, ws>>
       \/ /\ ws # NoSocket /\ clients[ws] = "closed"
          /\ ws' = NoSocket
          /\ UNCHANGED <<clients, closing>>
       \/ /\ ws # NoSocket /\ clients[ws] # "closed"
          /\ clients' = [clients EXCEPT ![ws] = "closed"]
          /\ closing' = ws
          /\ UNCHANGED ws
    /\ UNCHANGED <<opened, servers, connects, connection, heartbeat, csmsVars>>

\* close() returns: _ws is cleared, whatever it has become meanwhile.
CloseReturns ==
    /\ closing # NoSocket
    /\ servers[closing] = "closed"
    /\ closing' = NoSocket
    /\ ws' = NoSocket
    /\ UNCHANGED <<socketVars, connects, connection, heartbeats, heartbeat, csmsVars>>

-----------------------------------------------------------------------------
(* The websocket                                                            *)

\* One end breaks.
Drop(g) ==
    /\ "drop" \in Environment
    /\ clients[g] = "open" /\ servers[g] = "open"
    /\ \/ clients' = [clients EXCEPT ![g] = "closed"] /\ UNCHANGED servers
       \/ servers' = [servers EXCEPT ![g] = "closed"] /\ UNCHANGED clients
    /\ UNCHANGED <<opened, clientVars, csmsVars>>

\* The other end notices: a close frame, or a ping that is not answered.
Notice(g) ==
    /\ \/ /\ clients[g] = "closed" /\ servers[g] = "open"
          /\ servers' = [servers EXCEPT ![g] = "closed"] /\ UNCHANGED clients
       \/ /\ servers[g] = "closed" /\ clients[g] = "open"
          /\ clients' = [clients EXCEPT ![g] = "closed"] /\ UNCHANGED servers
    /\ UNCHANGED <<opened, clientVars, csmsVars>>

-----------------------------------------------------------------------------
(* The CSMS                                                                 *)

\* ocpp_websocket begins: accept() answers the handshake.
Accept(g) ==
    /\ connects[g] = "handshake"
    /\ endpoints[g] = "none"
    /\ LoopIdle
    /\ endpoints' = [endpoints EXCEPT ![g] = "accepted"]
    /\ servers' = [servers EXCEPT ![g] = "open"]
    /\ UNCHANGED <<opened, clients, clientVars, tasks, registry>>

\* Mutant: an entry of that charger id is kept.
RegisterIfAbsent(g) ==
    /\ endpoints[g] = "accepted"
    /\ registry' = IF registry = NoSocket THEN g ELSE registry
    /\ tasks' = [tasks EXCEPT ![g] = "running"]
    /\ endpoints' = [endpoints EXCEPT ![g] = "serving"]
    /\ UNCHANGED <<socketVars, clientVars>>

\* CsmsRegistry.connect: an entry of that charger id is overwritten.  Then the
\* endpoint awaits the task it finds in the registry, which is its own.
Register(g) ==
    /\ endpoints[g] = "accepted"
    /\ registry' = g
    /\ tasks' = [tasks EXCEPT ![g] = "running"]
    /\ endpoints' = [endpoints EXCEPT ![g] = "serving"]
    /\ UNCHANGED <<socketVars, clientVars>>

\* recv() of the adapter raises, and start() with it.
TaskEnds(g) ==
    /\ Broken(g)
    /\ tasks' = [tasks EXCEPT ![g] = "ended"]
    /\ UNCHANGED <<socketVars, clientVars, endpoints, registry>>

\* Mutant: the task is cancelled, the entry stays.
CancelOnly(rest) ==
    /\ tasks' = [h \in Sockets |->
                    IF h = registry /\ rest[h] = "running" THEN "ended" ELSE rest[h]]
    /\ UNCHANGED registry

\* CsmsRegistry.disconnect: by charger id, so it pops and cancels whichever
\* websocket's entry is there.
Unregister(rest) ==
    /\ registry' = NoSocket
    /\ tasks' = [h \in Sockets |->
                    IF h = registry /\ rest[h] = "running" THEN "ended" ELSE rest[h]]

\* The awaited task has ended or was cancelled: the endpoint cleans up, and
\* returns, which closes the websocket.
EndpointEnds(g) ==
    /\ Abandoned(g)
    /\ Unregister(tasks)
    /\ endpoints' = [endpoints EXCEPT ![g] = "done"]
    /\ servers' = [servers EXCEPT ![g] = "closed"]
    /\ UNCHANGED <<opened, clients, clientVars>>

-----------------------------------------------------------------------------
Init ==
    /\ opened = 0
    /\ clients = [g \in Sockets |-> "none"]
    /\ servers = [g \in Sockets |-> "none"]
    /\ connects = [g \in Sockets |-> "none"]
    /\ ws = NoSocket
    /\ connection = NoSocket
    /\ closing = NoSocket
    /\ heartbeats = {}
    /\ heartbeat = NoSocket
    /\ endpoints = [g \in Sockets |-> "none"]
    /\ tasks = [g \in Sockets |-> "none"]
    /\ registry = NoSocket

\* What happens to websocket g without any user
Progress(g) ==
    \/ Connected(g) \/ BootReturns(g) \/ BootFails(g)
    \/ Notice(g) \/ Accept(g) \/ Register(g) \/ TaskEnds(g) \/ EndpointEnds(g)

Next ==
    \/ \E g \in Sockets : Connect(g) \/ HandshakeFails(g) \/ Drop(g) \/ Progress(g) \/ HeartbeatEnds(g)
    \/ Disconnect
    \/ CloseReturns

\* asyncio runs every ready coroutine; a closed end is noticed in the end.
Fairness ==
    /\ \A g \in Sockets : WF_vars(Progress(g)) /\ WF_vars(HeartbeatEnds(g))
    /\ WF_vars(CloseReturns)

Spec == Init /\ [][Next]_vars
FairSpec == Spec /\ Fairness

-----------------------------------------------------------------------------
(* Properties                                                               *)

\* Every variable has its type; websockets are numbered as they are opened, and
\* a heartbeat task is created by a boot that has come to its end.
TypeOK ==
    /\ opened \in 0 .. MaxSockets
    /\ clients \in [Sockets -> {"none", "open", "closed"}]
    /\ servers \in [Sockets -> {"none", "open", "closed"}]
    /\ connects \in [Sockets -> {"none", "handshake", "boot", "done"}]
    /\ ws \in Sockets \cup {NoSocket}
    /\ connection \in Sockets \cup {NoSocket}
    /\ closing \in Sockets \cup {NoSocket}
    /\ \A g \in Sockets : connects[g] = "none" <=> g > opened
    /\ heartbeats \subseteq {g \in Sockets : connects[g] = "done"}
    /\ heartbeat \in Sockets \cup {NoSocket}
    /\ endpoints \in [Sockets -> {"none", "accepted", "serving", "done"}]
    /\ tasks \in [Sockets -> {"none", "running", "ended"}]
    /\ registry \in Sockets \cup {NoSocket}

\* The registry never holds on to a charge point whose endpoint has gone.
RegisteredIsServed == registry # NoSocket => endpoints[registry] = "serving"

\* At rest, the registry and the charger mean the same websocket, or none.
RegistryMatches ==
    AtRest /\ (ws = NoSocket \/ Answered(ws)) => registry = ws

\* No heartbeat outlives the charger's hold on its websocket; and a charger that
\* is connected, with no call under way, beats as long as calls are answered.
OneHeartbeat ==
    /\ heartbeats \subseteq {ws}
    /\ NoCall /\ Answered(ws) => ws \in heartbeats

\* The registry gives up a charge point only when its websocket is closed.
StaysRegistered ==
    [][registry # NoSocket /\ servers[registry] = "open" => registry' # NoSocket]_vars

\* A websocket that is closed at the CSMS leaves the registry.
ClosedIsForgotten ==
    \A g \in Sockets : (registry = g /\ servers[g] = "closed") ~> registry # g

\* Every connect call returns, also when its websocket breaks underneath it.
ConnectReturns ==
    \A g \in Sockets : connects[g] = "handshake" ~> connects[g] = "done"
=============================================================================
