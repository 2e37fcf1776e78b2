-------------------------- MODULE ConnectionsProofs --------------------------
(* Proofs about Connections, for every number of websockets: of the registry *)
(* for every Environment, of what is left when nothing is under way for      *)
(* users who make one call at a time.                                        *)
EXTENDS Connections, TLAPS

USE DEF vars, clientVars, csmsVars, socketVars

LEMMA SocketsAreNumbers ==
    /\ Sockets \subseteq Nat
    /\ NoSocket \notin Sockets
    /\ \A g \in Sockets : g \in 0 .. MaxSockets
BY MaxSocketsAssumption DEF Sockets, NoSocket

LEMMA ClientType ==
    ASSUME TypeOK, NEW g \in Sockets,
           \/ Connect(g) \/ HandshakeFails(g) \/ Connected(g)
           \/ BootReturns(g) \/ BootFails(g) \/ HeartbeatEnds(g)
    PROVE  TypeOK'
<1>1. CASE Connect(g)
    <2>1. /\ opened' = opened + 1 /\ opened' = g /\ opened \in Nat
          /\ connects' = [connects EXCEPT ![g] = "handshake"]
        BY <1>1 DEF Connect, TypeOK
    <2>2. \A h \in Sockets :
              connects'[h] = IF h = g THEN "handshake" ELSE connects[h]
        BY <2>1 DEF TypeOK
    <2>3. \A h \in Sockets : connects'[h] = "none" <=> h > opened'
        BY <2>1, <2>2, SocketsAreNumbers DEF TypeOK
    <2>4. heartbeats' \subseteq {h \in Sockets : connects'[h] = "done"}
        BY <1>1, <2>1, <2>2, SocketsAreNumbers DEF Connect, TypeOK
    <2>. QED
        BY <1>1, <2>3, <2>4, SocketsAreNumbers DEF Connect, TypeOK
<1>6. CASE HandshakeFails(g)
    BY <1>6 DEF HandshakeFails, TypeOK
<1>2. CASE Connected(g)
    BY <1>2 DEF Connected, TypeOK
<1>3. CASE BootReturns(g)
    BY <1>3 DEF BootReturns, TypeOK
<1>4. CASE BootFails(g)
    BY <1>4 DEF BootFails, TypeOK
<1>5. CASE HeartbeatEnds(g)
    BY <1>5 DEF HeartbeatEnds, TypeOK
<1>. QED
    BY <1>1, <1>2, <1>3, <1>4, <1>5, <1>6

LEMMA DisconnectType ==
    ASSUME TypeOK, Disconnect \/ CloseReturns
    PROVE  TypeOK'
<1>1. CASE Disconnect
    BY <1>1 DEF Disconnect, TypeOK
<1>2. CASE CloseReturns
    BY <1>2 DEF CloseReturns, TypeOK
<1>. QED
    BY <1>1, <1>2

LEMMA SocketType ==
    ASSUME TypeOK, NEW g \in Sockets, Drop(g) \/ Notice(g)
    PROVE  TypeOK'
BY DEF Drop, Notice, TypeOK

LEMMA CsmsType ==
    ASSUME TypeOK, NEW g \in Sockets,
           Accept(g) \/ Register(g) \/ TaskEnds(g) \/ EndpointEnds(g)
    PROVE  TypeOK'
<1>1. CASE Accept(g)
    BY <1>1 DEF Accept, TypeOK
<1>2. CASE Register(g)
    BY <1>2 DEF Register, TypeOK
<1>3. CASE TaskEnds(g)
    BY <1>3 DEF TaskEnds, TypeOK
<1>4. CASE EndpointEnds(g)
    <2>1. tasks' \in [Sockets -> {"none", "running", "ended"}] /\ registry' = NoSocket
        BY <1>4 DEF EndpointEnds, Unregister, TypeOK
    <2>. QED
        BY <1>4, <2>1 DEF EndpointEnds, TypeOK
<1>. QED
    BY <1>1, <1>2, <1>3, <1>4

LEMMA TypeStep == TypeOK /\ [Next]_vars => TypeOK'
<1> SUFFICES ASSUME TypeOK, [Next]_vars PROVE TypeOK'
    OBVIOUS
<1>1. CASE UNCHANGED vars
    BY <1>1 DEF TypeOK
<1>2. CASE Next
    BY <1>2, ClientType, DisconnectType, SocketType, CsmsType DEF Next, Progress
<1>. QED
    BY <1>1, <1>2

LEMMA TypeInit == Init => TypeOK
<1>1. \A g \in Sockets : g \in Nat /\ g > 0
    BY MaxSocketsAssumption DEF Sockets
<1>. QED
    BY <1>1, MaxSocketsAssumption DEF Init, TypeOK

\* Every variable keeps its type, for any number of websockets.
THEOREM ConnectionsTypeCorrect == Spec => []TypeOK
BY TypeInit, TypeStep, PTL DEF Spec

-----------------------------------------------------------------------------
(* The registry and the endpoints                                            *)

\* Besides the property itself: a task runs only while its endpoint awaits it.
\* An endpoint that ends therefore leaves no task of its own behind.
ServedInv ==
    /\ TypeOK
    /\ RegisteredIsServed
    /\ \A g \in Sockets : tasks[g] = "running" => endpoints[g] = "serving"

LEMMA ServedStep == ServedInv /\ [Next]_vars => ServedInv'
<1> SUFFICES ASSUME ServedInv, [Next]_vars PROVE ServedInv'
    OBVIOUS
<1>1. TypeOK /\ TypeOK' /\ RegisteredIsServed
    BY TypeStep DEF ServedInv
<1>2. CASE UNCHANGED <<endpoints, tasks, registry>>
    BY <1>1, <1>2 DEF ServedInv, RegisteredIsServed
<1>3. ASSUME NEW g \in Sockets, Accept(g) PROVE ServedInv'
    <2>1. registry # g /\ tasks[g] # "running"
        BY <1>1, <1>3, SocketsAreNumbers DEF Accept, ServedInv, RegisteredIsServed
    <2>2. \A h \in Sockets \ {g} : endpoints'[h] = endpoints[h]
        BY <1>1, <1>3 DEF Accept, TypeOK
    <2>3. UNCHANGED <<tasks, registry>>
        BY <1>3 DEF Accept
    <2>. QED
        BY <1>1, <2>1, <2>2, <2>3 DEF ServedInv, RegisteredIsServed, TypeOK
<1>4. ASSUME NEW g \in Sockets, Register(g) PROVE ServedInv'
    BY <1>1, <1>4 DEF Register, ServedInv, RegisteredIsServed, TypeOK
<1>5. ASSUME NEW g \in Sockets, TaskEnds(g) PROVE ServedInv'
    BY <1>1, <1>5 DEF TaskEnds, ServedInv, RegisteredIsServed, TypeOK
<1>6. ASSUME NEW g \in Sockets, EndpointEnds(g) PROVE ServedInv'
    <2>1. registry' = NoSocket /\ tasks[g] # "running"
        BY <1>6 DEF EndpointEnds, Unregister, Abandoned
    <2>2. \A h \in Sockets : tasks'[h] = "running" => tasks[h] = "running"
        BY <1>1, <1>6 DEF EndpointEnds, Unregister, TypeOK
    <2>3. \A h \in Sockets \ {g} : endpoints'[h] = endpoints[h]
        BY <1>1, <1>6 DEF EndpointEnds, TypeOK
    <2>. QED
        BY <1>1, <2>1, <2>2, <2>3 DEF ServedInv, RegisteredIsServed
<1>7. ASSUME NEW g \in Sockets,
             \/ Connect(g) \/ Connected(g) \/ BootReturns(g) \/ BootFails(g)
             \/ HandshakeFails(g) \/ HeartbeatEnds(g) \/ Drop(g) \/ Notice(g)
      PROVE  UNCHANGED <<endpoints, tasks, registry>>
    BY <1>7 DEF Connect, HandshakeFails, Connected, BootReturns, BootFails, HeartbeatEnds,
          Drop, Notice
<1>8. Disconnect \/ CloseReturns => UNCHANGED <<endpoints, tasks, registry>>
    BY DEF Disconnect, CloseReturns
<1>. QED
    BY <1>2, <1>3, <1>4, <1>5, <1>6, <1>7, <1>8 DEF Next, Progress

\* Whatever breaks, overlaps or is cleaned up late: the registry never holds on
\* to a charge point whose endpoint has gone.
THEOREM RegistryIsServed == Spec => []RegisteredIsServed
<1>1. Init => ServedInv
    BY TypeInit DEF Init, ServedInv, RegisteredIsServed
<1>2. ServedInv => RegisteredIsServed
    BY DEF ServedInv
<1>. QED
    BY <1>1, <1>2, ServedStep, PTL DEF Spec

-----------------------------------------------------------------------------
(* One call at a time                                                        *)

\* Users wait for a connect or disconnect call to return, and disconnect before
\* they connect again.  Websockets may still break at any moment.
OneByOne == Environment \cap {"reconnect", "overlap"} = {}

\* A websocket that was not opened is unknown to everybody; one that was
\* followed by another was registered, or its handshake failed before that.
InTurn(g) ==
    /\ g > opened =>
          /\ connects[g] = "none" /\ clients[g] = "none" /\ servers[g] = "none"
          /\ endpoints[g] = "none" /\ tasks[g] = "none"
    /\ g = opened => connects[g] # "none"
    /\ g < opened => connects[g] = "done"
    /\ connects[g] = "done" => endpoints[g] # "accepted"
    /\ endpoints[g] \in {"accepted", "serving"} => servers[g] # "none"

\* The charger has at most the websocket opened last, and lets go of it only
\* when its end is closed.
Held(g) ==
    /\ ws = g => g = opened
    /\ connects[g] = "handshake" => ws = NoSocket
    /\ connects[g] = "boot" => ws = g /\ connection = g /\ endpoints[g] # "none"
    /\ clients[g] = "open" => ws = g
    /\ closing # NoSocket => connects[g] \in {"none", "done"}
    /\ closing = g => ws = g /\ clients[g] = "closed"

\* A heartbeat is that of the websocket held, and the one a disconnect cancels;
\* a boot that is over has created one, which ends only once calls fail.
\* A start() task of that websocket is the one in the registry.
Current(g) ==
    /\ g \in heartbeats =>
          g = ws /\ g = heartbeat /\ g = connection /\ connects[g] = "done" /\ closing = NoSocket
    /\ connects[g] = "done" /\ Answered(g) => g \in heartbeats
    /\ g = opened /\ tasks[g] = "running" => registry = g

OrderInv == ServedInv /\ \A g \in Sockets : InTurn(g) /\ Held(g) /\ Current(g)

\* What a proof about one step needs of the state before it.
LEMMA OrderFacts ==
    ASSUME OrderInv
    PROVE  /\ TypeOK /\ RegisteredIsServed
           /\ \A g \in Sockets : InTurn(g) /\ Held(g) /\ Current(g)
           /\ \A g \in Sockets : tasks[g] = "running" => endpoints[g] = "serving"
BY DEF OrderInv, ServedInv

\* Nothing is open and nothing beats when the charger may connect.
LEMMA ConnectOrder ==
    ASSUME OneByOne, OrderInv, NEW g \in Sockets, Connect(g), NEW h \in Sockets
    PROVE  InTurn(h)' /\ Held(h)' /\ Current(h)'
<1>1. NoCall /\ ws = NoSocket /\ g = opened + 1 /\ opened' = g
    BY DEF Connect, OneByOne, NoCall
<1>2. TypeOK /\ InTurn(h) /\ Held(h) /\ Current(h) /\ InTurn(g) /\ opened \in Nat
    BY OrderFacts DEF TypeOK
<1>3. /\ connects' = [connects EXCEPT ![g] = "handshake"]
      /\ UNCHANGED <<clients, servers, ws, connection, closing, heartbeats, heartbeat>>
      /\ UNCHANGED <<endpoints, tasks, registry>>
    BY DEF Connect
<1>4. connects' \in [Sockets -> {"none", "handshake", "boot", "done"}]
      /\ connects'[h] = IF h = g THEN "handshake" ELSE connects[h]
    BY <1>2, <1>3 DEF TypeOK
<1>5. InTurn(h)'
    BY <1>1, <1>2, <1>3, <1>4, SocketsAreNumbers DEF InTurn, NoCall
<1>6. Held(h)'
    BY <1>1, <1>2, <1>3, <1>4, SocketsAreNumbers DEF Held, NoCall
<1>7. Current(h)'
    BY <1>1, <1>2, <1>3, <1>4, SocketsAreNumbers DEF Current, InTurn, Answered
<1>. QED
    BY <1>5, <1>6, <1>7

\* A handshake that fails leaves the charger as it was.
LEMMA HandshakeOrder ==
    ASSUME OrderInv, NEW g \in Sockets, HandshakeFails(g), NEW h \in Sockets
    PROVE  InTurn(h)' /\ Held(h)' /\ Current(h)'
<1>1. TypeOK /\ InTurn(h) /\ Held(h) /\ Current(h) /\ InTurn(g) /\ Held(g)
    BY OrderFacts
<1>2. /\ connects[g] = "handshake" /\ endpoints[g] # "accepted"
      /\ connects' = [connects EXCEPT ![g] = "done"]
      /\ clients' = [clients EXCEPT ![g] = "closed"]
      /\ UNCHANGED <<opened, servers, ws, connection, closing, heartbeats, heartbeat>>
      /\ UNCHANGED <<endpoints, tasks, registry>>
    BY DEF HandshakeFails
<1>3. /\ connects'[h] = IF h = g THEN "done" ELSE connects[h]
      /\ clients'[h] = IF h = g THEN "closed" ELSE clients[h]
    BY <1>1, <1>2 DEF TypeOK
<1>4. InTurn(h)'
    BY <1>1, <1>2, <1>3 DEF InTurn
<1>5. Held(h)'
    BY <1>1, <1>2, <1>3 DEF Held
<1>6. Current(h)'
    BY <1>1, <1>2, <1>3 DEF Current, Answered
<1>. QED
    BY <1>4, <1>5, <1>6

LEMMA ConnectedOrder ==
    ASSUME OrderInv, NEW g \in Sockets, Connected(g), NEW h \in Sockets
    PROVE  InTurn(h)' /\ Held(h)' /\ Current(h)'
<1>1. /\ TypeOK /\ InTurn(h) /\ Held(h) /\ Current(h) /\ InTurn(g) /\ Held(g) /\ opened \in Nat
      /\ \A k \in Sockets : InTurn(k) /\ Held(k)
    BY OrderFacts DEF TypeOK
<1>2. /\ connects[g] = "handshake" /\ endpoints[g] # "none" /\ ws' = g /\ connection' = g
      /\ connects' = [connects EXCEPT ![g] = "boot"]
      /\ clients' = [clients EXCEPT ![g] = "open"]
      /\ UNCHANGED <<opened, servers, closing, heartbeats, heartbeat>>
      /\ UNCHANGED <<endpoints, tasks, registry>>
    BY DEF Connected
<1>3. /\ connects'[h] = IF h = g THEN "boot" ELSE connects[h]
      /\ clients'[h] = IF h = g THEN "open" ELSE clients[h]
    BY <1>1, <1>2 DEF TypeOK
<1>4. g = opened /\ ws = NoSocket /\ closing = NoSocket
    BY <1>1, <1>2, SocketsAreNumbers DEF InTurn, Held, TypeOK
<1>5. h # g => connects[h] \in {"none", "done"}
    BY <1>1, <1>4, SocketsAreNumbers DEF InTurn
<1>6. InTurn(h)'
    BY <1>1, <1>2, <1>3, <1>4 DEF InTurn
<1>7. Held(h)'
    BY <1>1, <1>2, <1>3, <1>4, <1>5, SocketsAreNumbers DEF Held
<1>8. Current(h)'
    BY <1>1, <1>2, <1>3, <1>4, SocketsAreNumbers DEF Current, Answered
<1>. QED
    BY <1>6, <1>7, <1>8

\* The one connect call that is at its boot is that of the websocket held.
LEMMA BootOrder ==
    ASSUME OrderInv, NEW g \in Sockets, BootReturns(g) \/ BootFails(g), NEW h \in Sockets
    PROVE  InTurn(h)' /\ Held(h)' /\ Current(h)'
<1>1. /\ TypeOK /\ InTurn(h) /\ Held(h) /\ Current(h) /\ InTurn(g) /\ Held(g) /\ Current(g)
      /\ (tasks[g] = "running" => endpoints[g] = "serving")
    BY OrderFacts
<1>2. /\ connects[g] = "boot" /\ connects' = [connects EXCEPT ![g] = "done"]
      /\ \/ heartbeats' = heartbeats \cup {g} /\ heartbeat' = g /\ Answered(connection)
         \/ /\ heartbeats' = heartbeats /\ heartbeat' = heartbeat
            /\ endpoints[connection] # "accepted" /\ ~Answered(connection)
      /\ UNCHANGED <<opened, clients, servers, ws, connection, closing, endpoints, tasks, registry>>
    BY DEF BootReturns, BootFails
<1>3. connects'[h] = IF h = g THEN "done" ELSE connects[h]
    BY <1>1, <1>2 DEF TypeOK
<1>4. ws = g /\ connection = g /\ closing = NoSocket
    BY <1>1, <1>2, SocketsAreNumbers DEF Held, TypeOK
<1>5. endpoints[g] # "accepted"
    BY <1>1, <1>2, <1>4 DEF Held, Answered, TypeOK
<1>6. InTurn(h)'
    BY <1>1, <1>2, <1>3, <1>5 DEF InTurn
<1>7. Held(h)'
    BY <1>1, <1>2, <1>3, <1>4 DEF Held
<1>8. Current(h)'
    <2>1. Answered(h)' = Answered(h)
        BY <1>2 DEF Answered
    <2>. QED
        BY <1>1, <1>2, <1>3, <1>4, <2>1 DEF Current
<1>. QED
    BY <1>6, <1>7, <1>8

\* A disconnect cancels the only heartbeat there is.
LEMMA DisconnectOrder ==
    ASSUME OneByOne, OrderInv, Disconnect \/ CloseReturns, NEW h \in Sockets
    PROVE  InTurn(h)' /\ Held(h)' /\ Current(h)'
<1>1. /\ TypeOK /\ InTurn(h) /\ Held(h) /\ Current(h)
      /\ ws \in Sockets \cup {NoSocket} /\ NoSocket \notin Sockets
    BY OrderFacts, SocketsAreNumbers DEF TypeOK
<1>2. UNCHANGED <<opened, servers, connects, connection, heartbeat, endpoints, tasks, registry>>
    BY DEF Disconnect, CloseReturns
<1>3. CASE Disconnect
    <2>1. NoCall /\ connects[h] \in {"none", "done"} /\ heartbeats' = heartbeats \ {heartbeat}
        BY <1>3 DEF Disconnect, OneByOne, NoCall
    <2>2. h \notin heartbeats'
        BY <1>1, <2>1 DEF Current
    <2>3. \/ ws = NoSocket /\ ws' = ws /\ closing' = NoSocket /\ clients' = clients
          \/ /\ ws' = NoSocket /\ closing' = NoSocket /\ clients' = clients
             /\ ws # NoSocket /\ clients[ws] = "closed"
          \/ /\ ws' = ws /\ closing' = ws /\ ws # NoSocket
             /\ clients' = [clients EXCEPT ![ws] = "closed"]
        BY <1>3 DEF Disconnect
    <2>4. \/ clients'[h] = clients[h]
          \/ h = ws /\ clients'[h] = "closed"
        BY <1>1, <2>3 DEF TypeOK
    <2>5. InTurn(h)'
        BY <1>1, <1>2, <2>4, SocketsAreNumbers DEF InTurn, Held, TypeOK
    <2>6. Held(h)'
        <3>1. closing' = h => clients'[h] = "closed"
            BY <1>1, <2>3 DEF TypeOK
        <3>2. clients'[h] = "open" => ws' = h
            BY <1>1, <2>3, <2>4 DEF Held
        <3>. QED
            BY <1>1, <1>2, <2>1, <2>3, <3>1, <3>2 DEF Held
    <2>7. Current(h)'
        <3>1. ~Answered(h)'
            BY <1>1, <2>3, <2>4 DEF Held, Answered, TypeOK
        <3>. QED
            BY <1>1, <1>2, <2>2, <3>1 DEF Current
    <2>. QED
        BY <2>5, <2>6, <2>7
<1>4. CASE CloseReturns
    <2>1. /\ closing # NoSocket /\ closing' = NoSocket /\ ws' = NoSocket
          /\ UNCHANGED <<clients, heartbeats>>
        BY <1>4 DEF CloseReturns
    <2>2. closing \in Sockets /\ Held(closing)
        BY <1>1, <2>1, OrderFacts DEF TypeOK
    <2>3. clients[h] # "open" /\ h \notin heartbeats
        BY <1>1, <2>1, <2>2 DEF Held, Current
    <2>. QED
        BY <1>1, <1>2, <2>1, <2>3 DEF InTurn, Held, Current, Answered
<1>. QED
    BY <1>3, <1>4

\* Ends of websockets close, and heartbeats end.
LEMMA SocketOrder ==
    ASSUME OrderInv, NEW g \in Sockets, Drop(g) \/ Notice(g) \/ HeartbeatEnds(g),
           NEW h \in Sockets
    PROVE  InTurn(h)' /\ Held(h)' /\ Current(h)'
<1>1. TypeOK /\ InTurn(h) /\ Held(h) /\ Current(h) /\ InTurn(g)
    BY OrderFacts
<1>2. /\ UNCHANGED <<opened, connects, ws, connection, closing, heartbeat>>
      /\ UNCHANGED <<endpoints, tasks, registry>>
      /\ heartbeats' \subseteq heartbeats
    BY DEF Drop, Notice, HeartbeatEnds
<1>3. /\ \/ clients'[h] = clients[h]
         \/ clients[h] = "open" /\ clients'[h] = "closed"
      /\ \/ servers'[h] = servers[h]
         \/ servers[h] = "open" /\ servers'[h] = "closed"
    BY <1>1 DEF Drop, Notice, HeartbeatEnds, TypeOK
<1>4. InTurn(h)' /\ Held(h)'
    BY <1>1, <1>2, <1>3 DEF InTurn, Held
<1>5. h \in heartbeats /\ h \notin heartbeats' => ~Answered(h)
    BY <1>1, SocketsAreNumbers DEF Drop, Notice, HeartbeatEnds, Current
<1>6. Answered(h)' => Answered(h)
    BY <1>2, <1>3 DEF Answered
<1>. QED
    BY <1>1, <1>2, <1>4, <1>5, <1>6 DEF Current

\* The endpoints of the CSMS.
LEMMA EndpointOrder ==
    ASSUME OrderInv, NEW g \in Sockets,
           Accept(g) \/ Register(g) \/ TaskEnds(g) \/ EndpointEnds(g), NEW h \in Sockets
    PROVE  InTurn(h)' /\ Held(h)' /\ Current(h)'
<1>1. /\ TypeOK /\ InTurn(h) /\ Held(h) /\ Current(h) /\ InTurn(g) /\ Held(g) /\ Current(g)
      /\ opened \in Nat /\ \A k \in Sockets : tasks[k] = "running" => endpoints[k] = "serving"
    BY OrderFacts DEF TypeOK
<1>2. UNCHANGED <<opened, clients, connects, ws, connection, closing, heartbeats, heartbeat>>
    BY DEF Accept, Register, TaskEnds, EndpointEnds
<1>3. /\ endpoints'[h] # endpoints[h] \/ servers'[h] # servers[h] => h = g
      /\ endpoints[h] # "none" => endpoints'[h] # "none"
    BY <1>1 DEF Accept, Register, TaskEnds, EndpointEnds, TypeOK
<1>4. Held(h)'
    BY <1>1, <1>2, <1>3 DEF Held
<1>5. CASE Accept(g)
    <2>1. /\ connects[g] = "handshake" /\ endpoints'[g] = "accepted" /\ servers'[g] = "open"
          /\ UNCHANGED <<tasks, registry>>
        BY <1>1, <1>5 DEF Accept, TypeOK
    <2>. QED
        BY <1>1, <1>2, <1>3, <1>4, <2>1 DEF InTurn, Current, Answered
<1>6. CASE Register(g)
    <2>1. /\ endpoints[g] = "accepted" /\ endpoints'[g] = "serving" /\ registry' = g
          /\ tasks' = [tasks EXCEPT ![g] = "running"] /\ servers' = servers
        BY <1>1, <1>6 DEF Register, TypeOK
    <2>2. tasks'[h] = IF h = g THEN "running" ELSE tasks[h]
        BY <1>1, <2>1 DEF TypeOK
    <2>3. g = opened
        BY <1>1, <2>1, SocketsAreNumbers DEF InTurn
    <2>4. servers[g] # "none"
        BY <1>1, <2>1 DEF InTurn
    <2>. QED
        BY <1>1, <1>2, <1>3, <1>4, <2>1, <2>2, <2>3, <2>4 DEF InTurn, Current, Answered
<1>7. CASE TaskEnds(g)
    <2>1. /\ UNCHANGED <<endpoints, registry, servers>> /\ tasks[g] = "running"
          /\ tasks' = [tasks EXCEPT ![g] = "ended"]
        BY <1>7 DEF TaskEnds, Broken
    <2>2. tasks'[h] = IF h = g THEN "ended" ELSE tasks[h]
        BY <1>1, <2>1 DEF TypeOK
    <2>. QED
        BY <1>1, <1>2, <1>4, <2>1, <2>2 DEF InTurn, Current, Answered
<1>8. CASE EndpointEnds(g)
    <2>1. /\ endpoints[g] = "serving" /\ endpoints'[g] = "done" /\ servers'[g] = "closed"
          /\ tasks'[h] = IF h = registry /\ tasks[h] = "running" THEN "ended" ELSE tasks[h]
        BY <1>1, <1>8 DEF EndpointEnds, Abandoned, Unregister, TypeOK
    <2>2. h = opened => tasks'[h] # "running"
        BY <1>1, <2>1 DEF Current
    <2>3. h > opened => (h # g /\ h # registry) \/ tasks[h] # "running"
        BY <1>1 DEF InTurn
    <2>. QED
        BY <1>1, <1>2, <1>3, <1>4, <2>1, <2>2, <2>3 DEF InTurn, Current, Answered
<1>. QED
    BY <1>5, <1>6, <1>7, <1>8

LEMMA OrderStep == OneByOne /\ OrderInv /\ [Next]_vars => OrderInv'
<1> SUFFICES ASSUME OneByOne, OrderInv, [Next]_vars PROVE OrderInv'
    OBVIOUS
<1>1. ServedInv'
    BY ServedStep DEF OrderInv
<1>2. ASSUME NEW h \in Sockets PROVE InTurn(h)' /\ Held(h)' /\ Current(h)'
    <2>1. CASE UNCHANGED vars
        BY <2>1, OrderFacts DEF InTurn, Held, Current, Answered
    <2>2. CASE Next
        BY <2>2, ConnectOrder, HandshakeOrder, ConnectedOrder, BootOrder, DisconnectOrder, SocketOrder,
           EndpointOrder DEF Next, Progress
    <2>. QED
        BY <2>1, <2>2
<1>. QED
    BY <1>1, <1>2 DEF OrderInv

LEMMA OrderInit == Init => OrderInv
<1> SUFFICES ASSUME Init PROVE OrderInv
    OBVIOUS
<1>1. ServedInv
    BY TypeInit DEF Init, ServedInv, RegisteredIsServed
<1>2. ASSUME NEW h \in Sockets PROVE InTurn(h) /\ Held(h) /\ Current(h)
    <2>1. h \in Nat /\ h > 0
        BY MaxSocketsAssumption DEF Sockets
    <2>. QED
        BY <2>1 DEF Init, InTurn, Held, Current, Answered, NoSocket
<1>. QED
    BY <1>1, <1>2 DEF OrderInv

\* Users who make one call at a time and disconnect before they connect leave
\* the registry, whenever nothing is under way, with the websocket the charger
\* holds, however many have broken.
THEOREM RegistryIsRight ==
    ASSUME OneByOne
    PROVE  Spec => []RegistryMatches
<1>1. OrderInv => RegistryMatches
    <2> SUFFICES ASSUME OrderInv, AtRest, ws = NoSocket \/ Answered(ws)
                 PROVE  registry = ws
        BY DEF RegistryMatches
    <2>1. TypeOK /\ RegisteredIsServed
        BY OrderFacts
    <2>2. CASE ws = NoSocket
        <3>1. SUFFICES ASSUME registry # NoSocket PROVE FALSE
            BY <2>2, <3>1
        <3>2. registry \in Sockets /\ endpoints[registry] = "serving"
            BY <2>1, <3>1 DEF TypeOK, RegisteredIsServed
        <3>3. tasks[registry] = "running" /\ servers[registry] # "closed"
            BY <3>2 DEF AtRest, LoopIdle, Abandoned, Broken
        <3>4. servers[registry] = "open"
            BY <2>1, <3>2, <3>3, OrderFacts DEF InTurn, TypeOK
        <3>5. clients[registry] = "open"
            BY <3>2, <3>4 DEF AtRest
        <3>. QED
            BY <2>2, <3>2, <3>5, OrderFacts, SocketsAreNumbers DEF Held
    <2>3. CASE Answered(ws)
        BY <2>3, OrderFacts DEF Answered, Held, Current
    <2>. QED
        BY <2>2, <2>3
<1>. QED
    BY <1>1, OrderInit, OrderStep, PTL DEF Spec

\* They never leave a heartbeat of an earlier websocket behind, and their charger
\* beats on the current one as long as it is answered.
THEOREM HeartbeatIsOne ==
    ASSUME OneByOne
    PROVE  Spec => []OneHeartbeat
<1>1. OrderInv => OneHeartbeat
    <2> SUFFICES ASSUME OrderInv PROVE OneHeartbeat
        OBVIOUS
    <2>1. TypeOK /\ \A g \in Sockets : Held(g) /\ Current(g)
        BY OrderFacts
    <2>2. heartbeats \subseteq {ws}
        BY <2>1 DEF Current, TypeOK
    <2>3. ASSUME NoCall, Answered(ws) PROVE ws \in heartbeats
        <3>1. ws \in Sockets /\ clients[ws] = "open" /\ connects[ws] \in {"none", "done"}
            BY <2>3 DEF NoCall, Answered
        <3>2. connects[ws] # "none"
            BY <3>1, OrderFacts, SocketsAreNumbers DEF InTurn, Held
        <3>. QED
            BY <2>1, <2>3, <3>1, <3>2 DEF Current
    <2>. QED
        BY <2>2, <2>3 DEF OneHeartbeat
<1>. QED
    BY <1>1, OrderInit, OrderStep, PTL DEF Spec
=============================================================================
