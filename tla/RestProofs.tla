---------------------------- MODULE RestProofs ----------------------------
(***************************************************************************)
(* What is found at rest.  For any number of connectors, EVs, coroutines   *)
(* and transactions: of users who wait for each other and a connection     *)
(* that holds, whatever faults are injected, whenever nothing is under way *)
(* the CSMS's sessions, the charger's transaction, the EVs and the         *)
(* connector statuses tell one story.                                      *)
(***************************************************************************)
EXTENDS LedgerProofs

\* Users wait for each other and start what can be charged; no drop, no reset.
\* Connector errors and power losses may be injected at any moment.
Calm == Environment \subseteq {"fault"}

-----------------------------------------------------------------------------
(* The inductive invariant: what is still to come of what is under way     *)

\* Every call is answered; before the connection nothing but faults happens.
ConnectionHolds ==
    /\ handler = None /\ reply # "lost" /\ simulator.state # "dead"
    /\ \A i \in DOMAIN downlink : downlink[i].command # "reset"
    /\ ~connected =>
          /\ downlink = <<>>
          /\ charger.transactionId = NoTransaction
          /\ \A t \in Tasks : tasks[t].kind \in {"none", "connector_error"}

\* A start that is requested finds an EV that can be charged.
StartsCharge ==
    \A i \in DOMAIN downlink : downlink[i].command = "start" =>
        LET e == pluggedEvs[downlink[i].connector]
        IN  e # None /\ ~evs[e].atTarget

\* The EV that is charged charges, or is full and the simulator is about to have
\* it stopped.
ChargeGoesOn ==
    charger.isCharging =>
        LET e == pluggedEvs[charger.activeConnector]
        IN  /\ e # None /\ evs[e].session = charger.transactionId
            /\ \/ evs[e].status = "charging"
               \/ simulator.state = "saving" /\ simulator.ev = e
               \/ simulator.state = "waiting"

\* What is started and stopped is the active connector and the EV on it.
OnActiveConnector ==
    /\ \A t \in Tasks :
          /\ tasks[t].kind = "start" => tasks[t].connector = charger.activeConnector
          /\ Stopping(tasks[t]) =>
                /\ tasks[t].connector = charger.activeConnector
                /\ tasks[t].ev = pluggedEvs[charger.activeConnector]
    /\ \A i \in DOMAIN uplink :
          uplink[i].call = "started" => uplink[i].connector = charger.activeConnector
    /\ charger.isCharging =>
          \A i \in DOMAIN sessions : Active(i) =>
              /\ sessions[i].connector = charger.activeConnector
              /\ sessions[i].ev = pluggedEvs[charger.activeConnector]

\* The connector that is charged on says so; the others, and that one once its
\* transaction is over, say whether an EV is plugged in.
StatusesInOrder ==
    /\ charger.isCharging => connectorStatuses[charger.activeConnector] = "Charging"
    /\ \A c \in Connectors :
          c # charger.activeConnector \/ charger.transactionId = NoTransaction =>
              /\ connectorStatuses[c] # "Charging"
              /\ connectorStatuses[c] = "Available" <=> pluggedEvs[c] = None

\* A transaction that is over for the charger is being stopped; one without an
\* active record is about to be reported, or its stop has closed the record.
SequencesGoOn ==
    charger.transactionId # NoTransaction =>
        /\ ~charger.isCharging => \E t \in Tasks : Stopping(tasks[t])
        /\ ~HasActive => \E t \in Tasks : Unreported(t) \/ Settled(t)

\* An Ended on its way is the message that is awaited.
EndedIsAwaited ==
    \A i \in DOMAIN uplink :
        uplink[i].call = "ended" => i = Len(uplink) /\ reply = "awaited"

RestOrder ==
    /\ ConnectionHolds /\ StartsCharge /\ ChargeGoesOn /\ OnActiveConnector
    /\ StatusesInOrder /\ SequencesGoOn /\ EndedIsAwaited

RestInv == LedgerInv /\ RestOrder

USE DEF vars, deviceVars, plugVars, loopVars, netVars

\* What a proof about one step needs of the state before it.
LEMMA RestFacts ==
    ASSUME RestInv
    PROVE  /\ LedgerInv /\ TypeOK /\ PlugAgreement /\ ChargingIsPlugged /\ LockDiscipline
           /\ TransactionIds /\ StartWaitsAlone /\ StartRunsAlone /\ TasksInOrder
           /\ ChargingIsServed /\ MessagesInOrder /\ RecordsInOrder /\ ReportsInOrder
           /\ ConnectionHolds /\ StartsCharge /\ ChargeGoesOn /\ OnActiveConnector
           /\ StatusesInOrder /\ SequencesGoOn /\ EndedIsAwaited
BY DEF RestInv, RestOrder, LedgerInv, PlugInv, LockInv, OrderInv

\* At rest no coroutine is inside a stop.
LEMMA StoppingIsBusy ==
    ASSUME RestInv, Quiet, NEW t \in Tasks
    PROVE  tasks[t].pc \in {"free", "sleeping", "updated"} /\ ~Stopping(tasks[t])
<1>1. TypeOK /\ TasksInOrder /\ tasks[t].kind \in {"none", "meter"}
    BY RestFacts DEF Quiet
<1>2. tasks[t].pc \in {"free", "sleeping", "updated"}
    BY <1>1, TaskAtPoint, FreeFields DEF TasksInOrder, TaskInOrder
<1>. QED
    BY <1>2 DEF Stopping

\* With nothing under way an open transaction charges an EV, and is recorded.
LEMMA NothingToCome ==
    ASSUME RestInv, Quiet
    PROVE  /\ ~StartRequested /\ downlink = <<>>
           /\ charger.transactionId # NoTransaction => charger.isCharging /\ HasActive
           /\ charger.isCharging =>
                 LET e == pluggedEvs[charger.activeConnector]
                 IN  /\ e # None /\ evs[e].status = "charging"
                     /\ evs[e].session = charger.transactionId
<1>1. ConnectionHolds /\ ChargeGoesOn /\ SequencesGoOn
    BY RestFacts
<1>2. \A t \in Tasks : tasks[t].kind \in {"none", "meter"}
    BY DEF Quiet
<1>3. \A t \in Tasks : ~Stopping(tasks[t]) /\ ~Unreported(t) /\ ~Settled(t)
    BY <1>2, StoppingIsBusy DEF Unreported, Settled, Returned
<1>4. charger.transactionId # NoTransaction => charger.isCharging /\ HasActive
    BY <1>1, <1>3 DEF SequencesGoOn
<1>5. simulator.state = "ticking"
    BY <1>1 DEF ConnectionHolds, Quiet
<1>. QED
    BY <1>1, <1>4, <1>5, NothingStarting DEF ChargeGoesOn

-----------------------------------------------------------------------------
(* Steps of users                                                          *)

\* A coroutine for a boot or a notification is created.
LEMMA SpawnRest ==
    ASSUME RestInv, ChargerKept,
           NEW t \in FreeTasks, NEW kind \in {"boot", "connector_error"},
           NEW pc \in {"boot", "notify"}, NEW c,
           tasks' = [tasks EXCEPT ![t] = Coroutine(kind, pc, c)],
           kind = "boot" => connected', connected => connected',
           UNCHANGED <<pluggedEvs, connectorStatuses, caller, reply, handler, uplink,
                       downlink, sessions, evs, simulator>>
    PROVE  RestOrder'
<1>1. /\ LedgerInv /\ TypeOK /\ ConnectionHolds /\ StartsCharge /\ ChargeGoesOn
      /\ OnActiveConnector /\ StatusesInOrder /\ SequencesGoOn /\ EndedIsAwaited
    BY RestFacts
<1>2. t \in Tasks /\ caller # t /\ tasks[t] = Free
    BY <1>1, FreeSlot
<1>3. /\ tasks'[t].kind = kind /\ tasks'[t].pc = pc
      /\ \A u \in Tasks \ {t} : tasks'[u] = tasks[u]
    <2>1. /\ tasks'[t] = Coroutine(kind, pc, c)
          /\ \A u \in Tasks \ {t} : tasks'[u] = tasks[u]
        BY <1>1, <1>2, OneTaskChanges
    <2>. QED
        BY <2>1, CoroutineFields
<1>4. ConnectionHolds'
    BY <1>1, <1>3 DEF ConnectionHolds, ChargerKept
<1>5. StartsCharge' /\ EndedIsAwaited'
    BY <1>1 DEF StartsCharge, EndedIsAwaited
<1>6. ChargeGoesOn' /\ StatusesInOrder'
    BY <1>1 DEF ChargeGoesOn, StatusesInOrder, ChargerKept
<1>7. ~Stopping(tasks'[t])
    BY <1>3 DEF Stopping
<1>8. OnActiveConnector'
    BY <1>1, <1>3, <1>7 DEF OnActiveConnector, Stopping, Active, ChargerKept
<1>9. SequencesGoOn'
    <2>1. ~Stopping(tasks[t]) /\ ~Unreported(t) /\ ~Settled(t)
        BY <1>2, FreeFields DEF Unreported, Settled, Returned
    <2>2. HasActive' = HasActive
        BY DEF HasActive, Active
    <2>3. \A u \in Tasks \ {t} : /\ Unreported(u)' = Unreported(u)
                                 /\ Settled(u)' = Settled(u)
        BY <1>3 DEF Unreported, Settled, Returned
    <2>. QED
        BY <1>1, <1>3, <2>1, <2>2, <2>3 DEF SequencesGoOn, ChargerKept
<1>. QED
    BY <1>4, <1>5, <1>6, <1>8, <1>9 DEF RestOrder

\* A step that changes nothing but requests, the simulator, and the EVs.
LEMMA CommandRest ==
    ASSUME RestInv, ChargerKept,
           UNCHANGED <<pluggedEvs, connectorStatuses, tasks, caller, reply, handler,
                       connected, uplink, sessions>>,
           ConnectionHolds', StartsCharge', ChargeGoesOn'
    PROVE  RestOrder'
<1>1. OnActiveConnector /\ StatusesInOrder /\ SequencesGoOn /\ EndedIsAwaited
    BY RestFacts
<1>2. StatusesInOrder' /\ EndedIsAwaited'
    BY <1>1 DEF StatusesInOrder, EndedIsAwaited, ChargerKept
<1>3. OnActiveConnector'
    BY <1>1 DEF OnActiveConnector, Stopping, Active, ChargerKept
<1>4. SequencesGoOn'
    BY <1>1 DEF SequencesGoOn, HasActive, Active, Unreported, Settled, Returned, Stopping,
                ChargerKept
<1>. QED
    BY <1>2, <1>3, <1>4 DEF RestOrder

\* The request that is asked for is the last one.
LEMMA RequestAppended ==
    ASSUME TypeOK, NEW command, NEW c, NEW from, Request(command, c, from),
           NEW i \in DOMAIN downlink'
    PROVE  \/ i \in DOMAIN downlink /\ downlink'[i] = downlink[i]
           \/ downlink'[i].command = command /\ downlink'[i].connector = c
<1> DEFINE r == [command |-> command, connector |-> c, from |-> from]
<1>1. downlink' = Append(downlink, r) /\ downlink \in Seq(Command)
    BY DEF Request, TypeOK
<1>2. r.command = command /\ r.connector = c
    OBVIOUS
<1> HIDE DEF r
<1>3. \/ i \in DOMAIN downlink /\ downlink'[i] = downlink[i]
      \/ downlink'[i] = r
    BY <1>1
<1>. QED
    BY <1>2, <1>3

\* A start or a stop is asked for; a start finds an EV below its target.
LEMMA RequestRest ==
    ASSUME RestInv, connected, NEW command \in {"start", "stop"}, NEW c, NEW from,
           Request(command, c, from),
           command = "start" => pluggedEvs[c] # None /\ ~evs[pluggedEvs[c]].atTarget,
           UNCHANGED <<deviceVars, loopVars, connected, uplink, sessions, evs>>,
           \/ UNCHANGED simulator
           \/ simulator.state = "saving" /\ simulator'.state = "waiting"
    PROVE  RestOrder'
<1>1. TypeOK /\ ConnectionHolds /\ StartsCharge /\ ChargeGoesOn
    BY RestFacts
<1>2. ConnectionHolds'
    BY <1>1, RequestAppended DEF ConnectionHolds
<1>3. StartsCharge'
    BY <1>1, RequestAppended DEF StartsCharge
<1>4. ChargeGoesOn'
    BY <1>1 DEF ChargeGoesOn
<1>. QED
    BY <1>2, <1>3, <1>4, CommandRest DEF ChargerKept

\* An EV is plugged in on a connector where none is.
LEMMA PlugRest ==
    ASSUME RestInv, Calm, NEW e \in Evs, NEW c \in Connectors, Plug(e, c)
    PROVE  RestOrder'
<1> DEFINE a == charger.activeConnector
<1>1. /\ TypeOK /\ PlugAgreement
      /\ ConnectionHolds /\ StartsCharge /\ ChargeGoesOn /\ OnActiveConnector
      /\ StatusesInOrder /\ SequencesGoOn /\ EndedIsAwaited
    BY RestFacts
<1>2. Quiet
    BY CommandsWait DEF Calm, Undisturbed, Plug
<1>3. /\ UNCHANGED <<charger, issued, loopVars, netVars, sessions, simulator>>
      /\ pluggedEvs' = [pluggedEvs EXCEPT ![c] = e]
      /\ connectorStatuses' = [connectorStatuses EXCEPT ![c] = "Preparing"]
      /\ evs' = [evs EXCEPT ![e].connector = c, ![e].status = "plugged"]
    BY DEF Plug
<1>4. a \in Connectors /\ pluggedEvs[c] = None
    BY <1>1 DEF TypeOK, Charger, PlugAgreement, Plug, ConnectorFree
<1>5. downlink = <<>> /\ DOMAIN downlink = {}
    BY <1>2, NothingToCome
<1>6. charger.isCharging =>
          /\ a # c /\ pluggedEvs[a] \in Evs \ {e}
          /\ pluggedEvs'[a] = pluggedEvs[a] /\ evs'[pluggedEvs[a]] = evs[pluggedEvs[a]]
    <2>1. SUFFICES ASSUME charger.isCharging
                   PROVE  /\ a # c /\ pluggedEvs[a] \in Evs \ {e}
                          /\ pluggedEvs'[a] = pluggedEvs[a]
                          /\ evs'[pluggedEvs[a]] = evs[pluggedEvs[a]]
        OBVIOUS
    <2>2. pluggedEvs[a] # None /\ evs[pluggedEvs[a]].status = "charging"
        BY <1>2, <2>1, NothingToCome
    <2>3. a # c /\ pluggedEvs[a] # e
        BY <1>4, <2>2 DEF Plug
    <2>. QED
        BY <1>1, <1>3, <1>4, <2>2, <2>3 DEF TypeOK
<1>7. ConnectionHolds' /\ StartsCharge' /\ EndedIsAwaited'
    BY <1>1, <1>3, <1>5 DEF ConnectionHolds, StartsCharge, EndedIsAwaited
<1>8. ChargeGoesOn'
    BY <1>1, <1>3, <1>6 DEF ChargeGoesOn
<1>9. OnActiveConnector'
    <2>1. \A t \in Tasks : ~Stopping(tasks[t])
        BY <1>1, <1>2, StoppingIsBusy
    <2>. QED
        BY <1>1, <1>3, <1>6, <2>1 DEF OnActiveConnector, Stopping, Active
<1>10. StatusesInOrder'
    <2>1. charger.isCharging => connectorStatuses'[a] = "Charging"
        BY <1>1, <1>3, <1>6 DEF StatusesInOrder, TypeOK
    <2>2. ASSUME NEW d \in Connectors, d # a \/ charger.transactionId = NoTransaction
          PROVE  /\ connectorStatuses'[d] # "Charging"
                 /\ connectorStatuses'[d] = "Available" <=> pluggedEvs'[d] = None
        BY <1>1, <1>3, <2>2, NoneAssumption DEF StatusesInOrder, TypeOK
    <2>. QED
        BY <1>3, <2>1, <2>2 DEF StatusesInOrder
<1>11. SequencesGoOn'
    BY <1>1, <1>3
    DEF SequencesGoOn, HasActive, Active, Unreported, Settled, Returned, Stopping
<1>. QED
    BY <1>7, <1>8, <1>9, <1>10, <1>11 DEF RestOrder

\* An EV is unplugged, which is not the one that is charged.
LEMMA UnplugRest ==
    ASSUME RestInv, Calm, NEW e \in Evs, Unplug(e)
    PROVE  RestOrder'
<1> DEFINE a == charger.activeConnector
           c == evs[e].connector
<1>1. /\ TypeOK /\ PlugAgreement
      /\ ConnectionHolds /\ StartsCharge /\ ChargeGoesOn /\ OnActiveConnector
      /\ StatusesInOrder /\ SequencesGoOn /\ EndedIsAwaited
    BY RestFacts
<1>2. Quiet
    BY CommandsWait DEF Calm, Undisturbed, Unplug
<1>3. /\ UNCHANGED <<charger, issued, loopVars, netVars, sessions, simulator>>
      /\ pluggedEvs' = [pluggedEvs EXCEPT ![c] = None]
      /\ evs' = [evs EXCEPT ![e] = Unplugged(evs[e])]
    BY DEF Unplug
<1>4. a \in Connectors /\ c \in Connectors /\ pluggedEvs[c] = e
    BY <1>1, ConnectorCountAssumption
    DEF TypeOK, Charger, Ev, PlugAgreement, Unplug, NoConnector, Connectors
<1>5. downlink = <<>> /\ DOMAIN downlink = {}
    BY <1>2, NothingToCome
<1>6. charger.isCharging =>
          /\ a # c /\ pluggedEvs[a] \in Evs \ {e}
          /\ pluggedEvs'[a] = pluggedEvs[a] /\ evs'[pluggedEvs[a]] = evs[pluggedEvs[a]]
    <2>1. SUFFICES ASSUME charger.isCharging
                   PROVE  /\ a # c /\ pluggedEvs[a] \in Evs \ {e}
                          /\ pluggedEvs'[a] = pluggedEvs[a]
                          /\ evs'[pluggedEvs[a]] = evs[pluggedEvs[a]]
        OBVIOUS
    <2>2. pluggedEvs[a] # None /\ evs[pluggedEvs[a]].status = "charging"
        BY <1>2, <2>1, NothingToCome
    <2>3. a # c /\ pluggedEvs[a] # e
        BY <1>4, <2>2 DEF Unplug
    <2>. QED
        BY <1>1, <1>3, <1>4, <2>2, <2>3 DEF TypeOK
<1>7. connectorStatuses' = [connectorStatuses EXCEPT ![c] = "Available"]
    BY <1>6 DEF Unplug
<1> HIDE DEF c
<1>8. ConnectionHolds' /\ StartsCharge' /\ EndedIsAwaited'
    BY <1>1, <1>3, <1>5 DEF ConnectionHolds, StartsCharge, EndedIsAwaited
<1>9. ChargeGoesOn'
    BY <1>1, <1>3, <1>6 DEF ChargeGoesOn
<1>10. OnActiveConnector'
    <2>1. \A t \in Tasks : ~Stopping(tasks[t])
        BY <1>1, <1>2, StoppingIsBusy
    <2>. QED
        BY <1>1, <1>3, <1>6, <2>1 DEF OnActiveConnector, Stopping, Active
<1>11. StatusesInOrder'
    <2>1. charger.isCharging => connectorStatuses'[a] = "Charging"
        BY <1>1, <1>4, <1>6, <1>7 DEF StatusesInOrder, TypeOK
    <2>2. ASSUME NEW d \in Connectors, d # a \/ charger.transactionId = NoTransaction
          PROVE  /\ connectorStatuses'[d] # "Charging"
                 /\ connectorStatuses'[d] = "Available" <=> pluggedEvs'[d] = None
        BY <1>1, <1>3, <1>7, <2>2 DEF StatusesInOrder, TypeOK
    <2>. QED
        BY <1>3, <2>1, <2>2 DEF StatusesInOrder
<1>12. SequencesGoOn'
    BY <1>1, <1>3
    DEF SequencesGoOn, HasActive, Active, Unreported, Settled, Returned, Stopping
<1>. QED
    BY <1>8, <1>9, <1>10, <1>11, <1>12 DEF RestOrder

-----------------------------------------------------------------------------
(* Starts and stops begin                                                  *)

\* _stop_transaction begins: from now on a coroutine stops the transaction, on
\* the connector and with the EV that it charged.
LEMMA BeginStopRest ==
    ASSUME RestInv, NEW t \in FreeTasks, NEW kind \in {"stop", "power_loss"},
           BeginStop(t, kind), charger.transactionId # NoTransaction,
           UNCHANGED <<handler, uplink, connected, sessions>>,
           \A i \in DOMAIN downlink' : downlink'[i].command \notin {"start", "reset"},
           simulator'.state # "dead", ~Starting
    PROVE  RestOrder'
<1> DEFINE a == charger.activeConnector
           e == pluggedEvs[a]
           m == charger.meterTask
           stop == [kind |-> kind, pc |-> IF e = None THEN "ended" ELSE "saving",
                    connector |-> a, ev |-> e,
                    tx |-> IF e = None THEN charger.transactionId ELSE NoTransaction]
<1>1. /\ LedgerInv /\ TypeOK /\ LockDiscipline /\ TasksInOrder
      /\ ConnectionHolds /\ OnActiveConnector /\ StatusesInOrder /\ SequencesGoOn
      /\ EndedIsAwaited
    BY RestFacts
<1>2. t \in Tasks /\ caller # t /\ tasks[t] = Free
    BY <1>1, FreeSlot
<1>3. /\ charger'.isCharging = FALSE
      /\ charger'.transactionId = charger.transactionId
      /\ charger'.activeConnector = a
      /\ UNCHANGED <<pluggedEvs, connectorStatuses>>
    BY <1>1 DEF BeginStop, CancelMeter, TypeOK, Charger
<1>4. /\ caller' = IF caller = m THEN None ELSE caller
      /\ reply' = IF caller = m THEN "none" ELSE reply
    BY DEF BeginStop, CancelMeter, Release
<1>5. /\ tasks'[t] = stop
      /\ \A u \in Tasks \ {t} : tasks'[u] = IF u = m THEN Free ELSE tasks[u]
    BY <1>2 DEF BeginStop, CancelMeter
<1>6. /\ stop.kind = kind /\ stop.connector = a /\ stop.ev = e
      /\ Stopping(stop)
    BY DEF Stopping
<1> HIDE DEF stop
<1>7. m # None => m \in Tasks /\ tasks[m].pc \in {"sleeping", "updated"}
    BY <1>1 DEF TasksInOrder, TaskInOrder, TypeOK, Charger
<1>8. ConnectionHolds'
    BY <1>1, <1>3, <1>4 DEF ConnectionHolds
<1>9. StartsCharge' /\ ChargeGoesOn'
    BY <1>3 DEF StartsCharge, ChargeGoesOn
<1>10. OnActiveConnector'
    <2>1. \A u \in Tasks : tasks'[u].kind # "start"
        BY <1>5, <1>6, FreeFields DEF Starting
    <2>2. ASSUME NEW u \in Tasks, Stopping(tasks'[u])
          PROVE  tasks'[u].connector = a /\ tasks'[u].ev = e
        BY <1>1, <1>5, <1>6, <2>2, FreeFields DEF OnActiveConnector
    <2>. QED
        BY <1>1, <1>3, <2>1, <2>2 DEF OnActiveConnector, Stopping
<1>11. StatusesInOrder'
    BY <1>1, <1>3 DEF StatusesInOrder
<1>12. SequencesGoOn'
    <2>1. HasActive' = HasActive
        BY DEF HasActive, Active
    <2>2. \E u \in Tasks : Stopping(tasks'[u])
        BY <1>2, <1>5, <1>6
    <2>3. ASSUME NEW u \in Tasks, Unreported(u) \/ Settled(u)
          PROVE  Settled(u)'
        <3>1. Settled(u) /\ tasks[u].pc \in {"stop_status", "ended"}
            BY <2>3 DEF Unreported, Starting, Settled, Returned
        <3>2. u # t /\ u # m
            BY <1>2, <1>7, <3>1, FreeFields, NoneAssumption
        <3>. QED
            BY <1>4, <1>5, <3>1, <3>2 DEF Settled, Returned
    <2>. QED
        BY <1>1, <1>3, <2>1, <2>2, <2>3 DEF SequencesGoOn, Stopping
<1>13. EndedIsAwaited'
    <2>1. ASSUME NEW i \in DOMAIN uplink, uplink[i].call = "ended"
          PROVE  i = Len(uplink) /\ reply' = "awaited"
        <3>1. i = Len(uplink) /\ reply = "awaited"
            BY <1>1, <2>1 DEF EndedIsAwaited
        <3>2. caller # None /\ tasks[caller].pc = "ended"
            BY <1>1, <2>1, <3>1 DEF LockDiscipline
        <3>. QED
            BY <1>4, <1>7, <3>1, <3>2
    <2>. QED
        BY <2>1 DEF EndedIsAwaited
<1>. QED
    BY <1>8, <1>9, <1>10, <1>11, <1>12, <1>13 DEF RestOrder

\* _start_transaction begins: the EV charges, and the start is to be reported.
LEMMA BeginStartRest ==
    ASSUME RestInv, NEW t \in FreeTasks, NEW c \in Connectors, BeginStart(t, c),
           pluggedEvs[c] # None, ~evs[pluggedEvs[c]].atTarget,
           StartRequested, connected, downlink' = <<>>, simulator'.state # "dead",
           UNCHANGED <<caller, reply, handler, connected, uplink, sessions>>
    PROVE  RestOrder'
<1> DEFINE e == pluggedEvs[c]
           tx == issued + 1
           start == [kind |-> "start", pc |-> "saving", connector |-> c,
                     ev |-> e, tx |-> NoTransaction]
<1>1. /\ LedgerInv /\ TypeOK /\ PlugAgreement /\ StartWaitsAlone
      /\ ConnectionHolds /\ StatusesInOrder
    BY RestFacts
<1>2. /\ \A u \in Tasks : tasks[u] = Free
      /\ charger.transactionId = NoTransaction /\ issued \in Nat
    BY <1>1, TaskAtPoint DEF StartWaitsAlone, TypeOK
<1>3. caller = None /\ uplink = <<>> /\ ~HasActive
    BY <1>1, <1>2, NothingOpen, FreeFields
<1>4. /\ charger'.isCharging = TRUE /\ charger'.transactionId = tx
      /\ charger'.activeConnector = c
      /\ connectorStatuses' = [connectorStatuses EXCEPT ![c] = "Charging"]
      /\ pluggedEvs' = pluggedEvs
      /\ evs' = [evs EXCEPT ![e] = StartedFor(evs[e], tx)]
      /\ tasks' = [tasks EXCEPT ![t] = start]
    BY <1>1 DEF BeginStart, Chargeable, NewTransaction, TypeOK, Charger
<1>5. t \in Tasks /\ tasks'[t] = start /\ \A u \in Tasks \ {t} : tasks'[u] = Free
    <2>1. t \in Tasks
        BY <1>1, FreeSlot
    <2> HIDE DEF start
    <2>. QED
        BY <1>1, <1>2, <1>4, <2>1 DEF TypeOK
<1>6. evs'[e].status = "charging" /\ evs'[e].session = tx
    <2>1. e \in Evs /\ evs[e] \in Ev /\ evs'[e] = StartedFor(evs[e], tx) /\ tx \in Nat
        BY <1>1, <1>2, <1>4 DEF TypeOK
    <2> HIDE DEF tx, e
    <2>. QED
        BY <2>1, StartedForFields
<1>7. start.kind = "start" /\ start.connector = c /\ ~Stopping(start)
    BY DEF Stopping
<1> HIDE DEF start
<1>8. ConnectionHolds'
    BY <1>1 DEF ConnectionHolds
<1>9. StartsCharge' /\ EndedIsAwaited'
    BY <1>3 DEF StartsCharge, EndedIsAwaited
<1>10. ChargeGoesOn'
    BY <1>4, <1>6 DEF ChargeGoesOn
<1>11. OnActiveConnector'
    <2>1. \A u \in Tasks : ~Stopping(tasks'[u])
        BY <1>5, <1>7, FreeFields
    <2>2. \A u \in Tasks : tasks'[u].kind = "start" => tasks'[u].connector = c
        BY <1>5, <1>7, FreeFields
    <2>3. \A i \in DOMAIN sessions : ~Active(i)'
        BY <1>3 DEF HasActive, Active
    <2>. QED
        BY <1>3, <1>4, <2>1, <2>2, <2>3 DEF OnActiveConnector, Stopping
<1>12. StatusesInOrder'
    <2>1. tx # NoTransaction
        BY <1>2 DEF NoTransaction
    <2>2. connectorStatuses'[c] = "Charging"
        BY <1>1, <1>4 DEF TypeOK
    <2>3. \A d \in Connectors \ {c} : connectorStatuses'[d] = connectorStatuses[d]
        BY <1>1, <1>4 DEF TypeOK
    <2>. QED
        BY <1>1, <1>2, <1>4, <2>1, <2>2, <2>3 DEF StatusesInOrder
<1>13. SequencesGoOn'
    <2>1. Unreported(t)'
        BY <1>3, <1>5, <1>7, NoneAssumption DEF Unreported
    <2>. QED
        BY <1>4, <1>5, <2>1 DEF SequencesGoOn
<1>. QED
    BY <1>8, <1>9, <1>10, <1>11, <1>12, <1>13 DEF RestOrder

-----------------------------------------------------------------------------
(* Steps of a coroutine                                                    *)

\* A call is sent: of a Started, from the active connector; of an Ended, last.
LEMMA SendCallRest ==
    ASSUME RestInv, NEW t \in Tasks, SendCall(t)
    PROVE  RestOrder'
<1> DEFINE m == [call |-> tasks[t].pc, connector |-> tasks[t].connector, tx |-> tasks[t].tx]
<1>1. /\ TypeOK /\ LockDiscipline
      /\ ConnectionHolds /\ StartsCharge /\ ChargeGoesOn /\ OnActiveConnector
      /\ StatusesInOrder /\ SequencesGoOn /\ EndedIsAwaited
    BY RestFacts
<1>2. /\ caller = None /\ reply = "none" /\ reply' = "awaited"
      /\ uplink' = Append(uplink, m)
      /\ UNCHANGED <<deviceVars, tasks, handler, connected, downlink, sessions, evs, simulator>>
    BY <1>1 DEF SendCall, LockDiscipline
<1>3. /\ m.call = tasks[t].pc /\ m.connector = tasks[t].connector
      /\ m.call = "started" => tasks[t].kind = "start"
    BY <1>1, TaskAtPoint DEF StartTask
<1> HIDE DEF m
<1>4. /\ Len(uplink') = Len(uplink) + 1 /\ uplink'[Len(uplink')] = m
      /\ \A i \in DOMAIN uplink' :
            \/ i = Len(uplink')
            \/ i \in DOMAIN uplink /\ uplink'[i] = uplink[i]
    BY <1>1, <1>2 DEF TypeOK
<1>5. ConnectionHolds' /\ StartsCharge' /\ ChargeGoesOn' /\ StatusesInOrder'
    BY <1>1, <1>2 DEF ConnectionHolds, StartsCharge, ChargeGoesOn, StatusesInOrder
<1>6. OnActiveConnector'
    <2>1. \A i \in DOMAIN uplink' : uplink'[i].call = "started" =>
              uplink'[i].connector = charger.activeConnector
        BY <1>1, <1>3, <1>4 DEF OnActiveConnector
    <2>. QED
        BY <1>1, <1>2, <2>1 DEF OnActiveConnector, Stopping, Active
<1>7. SequencesGoOn'
    <2>1. HasActive' = HasActive
        BY <1>2 DEF HasActive, Active
    <2>2. \A u \in Tasks : /\ Unreported(u) => Unreported(u)'
                           /\ Settled(u) => Settled(u)'
                           /\ Stopping(tasks[u]) => Stopping(tasks'[u])
        BY <1>2 DEF Unreported, Settled, Returned
    <2>. QED
        BY <1>1, <1>2, <2>1, <2>2 DEF SequencesGoOn, Stopping
<1>8. EndedIsAwaited'
    BY <1>1, <1>2, <1>4 DEF EndedIsAwaited
<1>. QED
    BY <1>5, <1>6, <1>7, <1>8 DEF RestOrder

\* A coroutine goes on to task, or ends.  Where it starts or stops the charger's
\* transaction, it goes on with that and from where it was.
LEMMA GoesOnRest ==
    ASSUME RestInv, NEW t \in Tasks, NEW task, Proceed(t, task),
           caller = t => reply = "arrived",
           ChargerKept, handler' \in {handler, None},
           UNCHANGED <<pluggedEvs, connectorStatuses, connected, uplink, downlink, sessions,
                       evs, simulator>>,
           connected \/ task.kind \in {"none", tasks[t].kind},
           task.kind = "start" => tasks[t].kind = "start" /\ task.connector = tasks[t].connector,
           Stopping(task) => /\ Stopping(tasks[t])
                             /\ task.connector = tasks[t].connector /\ task.ev = tasks[t].ev,
           charger.transactionId # NoTransaction =>
               /\ Stopping(tasks[t]) => Stopping(task)
               /\ Unreported(t) => task.kind = "start"
               /\ Settled(t) => task.pc = "stop_status"
    PROVE  RestOrder'
<1>1. /\ TypeOK /\ MessagesInOrder
      /\ ConnectionHolds /\ StartsCharge /\ ChargeGoesOn /\ OnActiveConnector
      /\ StatusesInOrder /\ SequencesGoOn /\ EndedIsAwaited
    BY RestFacts
<1>2. /\ tasks'[t] = task
      /\ \A u \in Tasks \ {t} : tasks'[u] = tasks[u]
    BY <1>1, OneTaskChanges DEF Proceed
<1>3. /\ caller' = IF caller = t THEN None ELSE caller
      /\ reply' = IF caller = t THEN "none" ELSE reply
      /\ caller' # t
    BY NoneAssumption DEF Proceed, Release
<1>4. ConnectionHolds'
    BY <1>1, <1>2, <1>3 DEF ConnectionHolds, ChargerKept
<1>5. StartsCharge' /\ ChargeGoesOn' /\ StatusesInOrder'
    BY <1>1 DEF StartsCharge, ChargeGoesOn, StatusesInOrder, ChargerKept
<1>6. OnActiveConnector'
    <2>1. ASSUME NEW u \in Tasks
          PROVE  /\ tasks'[u].kind = "start" => tasks'[u].connector = charger.activeConnector
                 /\ Stopping(tasks'[u]) =>
                       /\ tasks'[u].connector = charger.activeConnector
                       /\ tasks'[u].ev = pluggedEvs[charger.activeConnector]
        BY <1>1, <1>2 DEF OnActiveConnector
    <2>. QED
        BY <1>1, <2>1 DEF OnActiveConnector, Stopping, Active, ChargerKept
<1>7. SequencesGoOn'
    <2>1. SUFFICES ASSUME charger.transactionId # NoTransaction
                   PROVE  /\ ~charger.isCharging => \E u \in Tasks : Stopping(tasks'[u])
                          /\ ~HasActive => \E u \in Tasks : Unreported(u)' \/ Settled(u)'
        BY DEF SequencesGoOn, HasActive, Active, Stopping, ChargerKept
    <2>2. ASSUME NEW u \in Tasks
          PROVE  /\ Stopping(tasks[u]) => Stopping(tasks'[u])
                 /\ Unreported(u) => Unreported(u)'
                 /\ Settled(u) => Settled(u)'
        <3>1. CASE u = t
            BY <1>2, <1>3, <2>1, <3>1 DEF Unreported, Settled
        <3>2. CASE u # t
            BY <1>2, <1>3, <3>2 DEF Unreported, Settled, Returned
        <3>. QED
            BY <3>1, <3>2
    <2>. QED
        BY <1>1, <2>1, <2>2 DEF SequencesGoOn
<1>8. EndedIsAwaited'
    BY <1>1, <1>3 DEF EndedIsAwaited, MessagesInOrder
<1>. QED
    BY <1>4, <1>5, <1>6, <1>7, <1>8 DEF RestOrder

\* A coroutine that has to do neither with a start nor with a stop goes on.
LEMMA AsideRest ==
    ASSUME RestInv, NEW t \in Tasks, NEW task, Proceed(t, task),
           tasks[t].pc \in {"boot", "notify", "sleeping", "updated"},
           task.pc \in {"boot", "notify", "sleeping", "updated", "free"},
           caller = t => reply = "arrived",
           ChargerKept, handler' \in {handler, None},
           UNCHANGED <<pluggedEvs, connectorStatuses, connected, uplink, downlink, sessions,
                       evs, simulator>>,
           task.kind \in {"none", tasks[t].kind}
    PROVE  RestOrder'
<1>1. TypeOK
    BY RestFacts
<1>2. tasks[t].kind # "start" /\ task.kind # "start"
    BY <1>1, TaskAtPoint DEF OtherTask
<1>3. ~Stopping(tasks[t]) /\ ~Stopping(task) /\ ~Unreported(t) /\ ~Settled(t)
    BY <1>2 DEF Stopping, Unreported, Settled, Returned
<1>. QED
    BY <1>2, <1>3, GoesOnRest

\* A stop ends: the connector says what is plugged into it, and the transaction
\* is forgotten.
LEMMA StopStatusReturnsRest ==
    ASSUME RestInv, NEW t \in Tasks, StopStatusReturns(t)
    PROVE  RestOrder'
<1> DEFINE a == charger.activeConnector
           rest == CASE tasks[t].kind = "reset" -> Coroutine("reset", "boot", 0)
                     [] tasks[t].kind = "power_loss" -> Coroutine("power_loss", "notify", 1)
                     [] OTHER -> Free
<1>1. /\ LedgerInv /\ TypeOK /\ MessagesInOrder /\ TasksInOrder /\ ReportsInOrder
      /\ ConnectionHolds /\ StartsCharge /\ OnActiveConnector /\ StatusesInOrder
    BY RestFacts
<1>2. /\ caller = t /\ reply = "arrived" /\ tasks[t].pc = "stop_status"
      /\ UNCHANGED <<pluggedEvs, handler, connected, uplink, downlink, sessions, evs, simulator>>
      /\ Proceed(t, rest)
      /\ connectorStatuses' = [connectorStatuses EXCEPT
                                  ![tasks[t].connector] = StatusAfterStop(tasks[t])]
    BY DEF StopStatusReturns, Returned
<1>3. tasks[t].kind \notin {"none", "start", "meter"}
    BY <1>1, <1>2, TaskAtPoint DEF OtherTask, TasksInOrder, TaskInOrder
<1>4. Stopping(tasks[t]) /\ ~charger.isCharging
    BY <1>1, <1>2, <1>3 DEF Stopping, TasksInOrder, TaskInOrder
<1>5. tasks[t].connector = a /\ tasks[t].ev = pluggedEvs[a] /\ a \in Connectors
    BY <1>1, <1>4 DEF OnActiveConnector, TypeOK, Charger
<1>6. /\ charger'.transactionId = NoTransaction /\ charger'.isCharging = FALSE
      /\ charger'.activeConnector = a
    BY <1>1, <1>4 DEF StopStatusReturns, TypeOK, Charger
<1>7. /\ tasks'[t] = rest
      /\ \A u \in Tasks \ {t} : tasks'[u] = tasks[u]
      /\ reply' = "none" /\ uplink = <<>>
    BY <1>1, <1>2 DEF Proceed, Release, TypeOK, MessagesInOrder
<1>8. /\ rest.kind # "start" /\ ~Stopping(rest)
      /\ tasks[t].kind = "connector_error" => rest.kind = "none"
    BY CoroutineFields, FreeFields DEF Stopping
<1> HIDE DEF rest
<1>9. ConnectionHolds'
    BY <1>1, <1>2, <1>3, <1>6, <1>7, <1>8 DEF ConnectionHolds
<1>10. StartsCharge' /\ ChargeGoesOn' /\ SequencesGoOn' /\ EndedIsAwaited'
    BY <1>1, <1>2, <1>6, <1>7
    DEF StartsCharge, ChargeGoesOn, SequencesGoOn, EndedIsAwaited
<1>11. OnActiveConnector'
    BY <1>1, <1>2, <1>6, <1>7, <1>8 DEF OnActiveConnector, Stopping
<1>12. StatusesInOrder'
    <2>1. ASSUME NEW c \in Connectors
          PROVE  /\ connectorStatuses'[c] # "Charging"
                 /\ connectorStatuses'[c] = "Available" <=> pluggedEvs[c] = None
        <3>1. CASE c = a
            BY <1>1, <1>2, <1>5, <3>1 DEF StatusAfterStop, TypeOK
        <3>2. CASE c # a
            BY <1>1, <1>2, <1>5, <3>2 DEF StatusesInOrder, TypeOK
        <3>. QED
            BY <3>1, <3>2
    <2>. QED
        BY <1>2, <1>6, <2>1 DEF StatusesInOrder
<1>. QED
    BY <1>9, <1>10, <1>11, <1>12 DEF RestOrder

LEMMA ResumeRest ==
    ASSUME RestInv, NEW t \in Tasks, Resume(t)
    PROVE  RestOrder'
<1> DEFINE Elsewhere == UNCHANGED <<pluggedEvs, connectorStatuses, issued, connected, uplink,
                                    downlink, sessions, evs, simulator>>
<1>1. /\ LedgerInv /\ TypeOK /\ LockDiscipline /\ TaskInOrder(t, tasks[t])
      /\ StartRunsAlone /\ TransactionIds /\ ConnectionHolds
    BY RestFacts DEF TasksInOrder
<1>2. caller = t => tasks[t].pc \in Calls
    BY <1>1, NoneAssumption DEF LockDiscipline
<1>3. ASSUME Raise(t), Elsewhere, charger.transactionId = NoTransaction,
             caller = t => reply = "arrived"
      PROVE  RestOrder'
    <2>1. Proceed(t, Free) /\ ChargerKept /\ handler' \in {handler, None}
        BY <1>1, <1>3 DEF Raise, ChargerKept, TypeOK, Charger
    <2>. QED
        BY <1>3, <2>1, FreeFields, GoesOnRest
<1>4. ASSUME NEW call \in {"started", "ended"}, CallWithTransaction(t, call), Elsewhere,
             caller = t => reply = "arrived", ~Settled(t),
             \/ call = "started" /\ tasks[t] \in StartTask
             \/ call = "ended" /\ tasks[t] \in OtherTask /\ Stopping(tasks[t])
      PROVE  RestOrder'
    <2> DEFINE next == [tasks[t] EXCEPT !.pc = call, !.tx = charger.transactionId]
    <2>1. CASE charger.transactionId = NoTransaction
        BY <1>3, <1>4, <2>1 DEF CallWithTransaction
    <2>2. CASE charger.transactionId # NoTransaction
        <3>1. Proceed(t, next) /\ ChargerKept /\ UNCHANGED handler
            BY <1>4, <2>2 DEF CallWithTransaction, ChargerKept
        <3>2. /\ next.kind = tasks[t].kind /\ next.pc = call
              /\ next.connector = tasks[t].connector /\ next.ev = tasks[t].ev
              /\ tasks[t].kind = "start" <=> call = "started"
            BY <1>4 DEF StartTask, OtherTask
        <3> HIDE DEF next
        <3>3. /\ Stopping(next) <=> call = "ended"
              /\ Stopping(tasks[t]) <=> call = "ended"
              /\ Unreported(t) => next.kind = "start"
            BY <1>4, <3>2 DEF Stopping, Unreported
        <3>. QED
            BY <1>4, <3>1, <3>2, <3>3, GoesOnRest
    <2>. QED
        BY <2>1, <2>2
<1>5. CASE CallFails(t)
    <2>1. /\ Raise(t) /\ Elsewhere /\ ~connected /\ caller # t
        BY <1>1, <1>5, NoneAssumption DEF CallFails, ConnectionHolds
    <2>. QED
        BY <1>1, <1>3, <2>1 DEF ConnectionHolds
<1>6. CASE SavingDone(t)
    <2>1. tasks[t].pc = "saving" /\ Elsewhere /\ caller # t
        BY <1>2, <1>6 DEF SavingDone, Calls
    <2>2. CASE tasks[t].kind = "start"
        <3> DEFINE next == [tasks[t] EXCEPT !.pc = "start_status"]
        <3>1. Proceed(t, next) /\ ChargerKept /\ UNCHANGED handler
            BY <1>6, <2>2 DEF SavingDone, ChargerKept
        <3>2. /\ next.kind = "start" /\ next.connector = tasks[t].connector
              /\ tasks[t].kind = "start"
            BY <1>1, <2>1, <2>2, TaskAtPoint DEF StartTask
        <3> HIDE DEF next
        <3>3. ~Stopping(next) /\ ~Stopping(tasks[t]) /\ ~Settled(t)
            BY <2>1, <3>2 DEF Stopping, Settled, Returned
        <3>. QED
            BY <2>1, <3>1, <3>2, <3>3, GoesOnRest
    <2>3. CASE tasks[t].kind # "start"
        <3>1. CallWithTransaction(t, "ended")
            BY <1>6, <2>3 DEF SavingDone
        <3>2. tasks[t] \in OtherTask /\ Stopping(tasks[t]) /\ ~Settled(t)
            BY <1>1, <2>1, <2>3, TaskAtPoint DEF Stopping, Settled, Returned
        <3>. QED
            BY <1>4, <2>1, <3>1, <3>2
    <2>. QED
        BY <2>2, <2>3
<1>7. CASE MeterWakes(t)
    <2> DEFINE next == [tasks[t] EXCEPT !.pc = "updated", !.tx = charger.transactionId]
    <2>1. /\ tasks[t].pc = "sleeping" /\ Elsewhere /\ caller # t
          /\ CallWithTransaction(t, "updated")
        BY <1>2, <1>7 DEF MeterWakes, Calls
    <2>2. charger.transactionId # NoTransaction
        BY <1>1, <2>1 DEF TaskInOrder, TransactionIds
    <2>3. Proceed(t, next) /\ ChargerKept /\ UNCHANGED handler
        BY <2>1, <2>2 DEF CallWithTransaction, ChargerKept
    <2>4. next.kind = tasks[t].kind /\ next.pc = "updated"
        BY <1>1, <2>1, TaskAtPoint DEF OtherTask
    <2> HIDE DEF next
    <2>. QED
        BY <2>1, <2>3, <2>4, AsideRest
<1>8. CASE StartStatusReturns(t)
    <2>1. /\ tasks[t].pc = "start_status" /\ reply = "arrived" /\ Elsewhere
          /\ CallWithTransaction(t, "started")
        BY <1>8 DEF StartStatusReturns, Returned
    <2>2. tasks[t] \in StartTask /\ ~Settled(t)
        BY <1>1, <2>1, TaskAtPoint DEF Settled, Returned
    <2>. QED
        BY <1>4, <2>1, <2>2
<1>9. CASE StartedReturns(t)
    <2> DEFINE meter == Coroutine("meter", "sleeping", 0)
    <2>1. /\ caller = t /\ reply = "arrived" /\ tasks[t].pc = "started" /\ Elsewhere
          /\ UNCHANGED handler /\ MeterLoop(t)
        BY <1>9 DEF StartedReturns, Returned
    <2>2. tasks[t].kind = "start"
        BY <1>1, <2>1, TaskAtPoint DEF StartTask
    <2>3. charger.isCharging /\ connected
        BY <1>1, <2>2 DEF StartRunsAlone, ConnectionHolds
    <2>4. Proceed(t, meter) /\ ChargerKept
        BY <1>1, <1>9, <2>1, <2>3 DEF MeterLoop, StartedReturns, ChargerKept, TypeOK, Charger
    <2>5. meter.kind = "meter" /\ meter.pc = "sleeping" /\ ~Stopping(meter)
        BY CoroutineFields DEF Stopping
    <2> HIDE DEF meter
    <2>6. ~Stopping(tasks[t]) /\ ~Unreported(t) /\ ~Settled(t)
        BY <2>1, <2>2 DEF Stopping, Unreported, Settled, Returned
    <2>. QED
        BY <2>1, <2>3, <2>4, <2>5, <2>6, GoesOnRest
<1>10. CASE UpdatedReturns(t)
    <2>1. /\ tasks[t].pc = "updated" /\ reply = "arrived" /\ Elsewhere
          /\ UNCHANGED handler /\ MeterLoop(t)
        BY <1>10 DEF UpdatedReturns, Returned
    <2>2. tasks[t].kind = "meter" /\ charger.isCharging
        BY <1>1, <2>1 DEF TaskInOrder
    <2>3. Proceed(t, Coroutine("meter", "sleeping", 0)) /\ ChargerKept
        BY <1>1, <1>10, <2>1, <2>2 DEF UpdatedReturns, MeterLoop, ChargerKept, TypeOK, Charger
    <2>. QED
        BY <2>1, <2>2, <2>3, CoroutineFields, AsideRest
<1>11. CASE EndedReturns(t)
    <2> DEFINE next == [tasks[t] EXCEPT !.pc = "stop_status"]
    <2>1. /\ reply = "arrived" /\ tasks[t].pc = "ended" /\ Elsewhere
          /\ UNCHANGED handler /\ Proceed(t, next) /\ ChargerKept
        BY <1>11 DEF EndedReturns, ChargerKept, Returned
    <2>2. /\ next.kind = tasks[t].kind /\ next.pc = "stop_status"
          /\ next.connector = tasks[t].connector /\ next.ev = tasks[t].ev
          /\ tasks[t].kind # "start"
        BY <1>1, <2>1, TaskAtPoint DEF OtherTask
    <2> HIDE DEF next
    <2>3. Stopping(next) /\ Stopping(tasks[t]) /\ ~Unreported(t)
        BY <2>1, <2>2 DEF Stopping, Unreported
    <2>. QED
        BY <2>1, <2>2, <2>3, GoesOnRest
<1>12. CASE StopStatusReturns(t)
    BY <1>12, StopStatusReturnsRest
<1>13. ASSUME tasks[t].pc \in {"boot", "notify"}, Proceed(t, Free), UNCHANGED charger,
              Elsewhere, reply = "arrived", handler' \in {handler, None}
       PROVE  RestOrder'
    BY <1>13, FreeFields, AsideRest DEF ChargerKept
<1>14. CASE BootReturns(t)
    <2> DEFINE next == [tasks[t] EXCEPT !.connector = tasks[t].connector + 1]
    <2>1. /\ tasks[t].pc = "boot" /\ reply = "arrived" /\ Elsewhere /\ UNCHANGED charger
          /\ handler' \in {handler, None}
        BY <1>14 DEF BootReturns, Returned
    <2>2. CASE tasks[t].connector < ConnectorCount
        <3>1. Proceed(t, next) /\ ChargerKept
            BY <1>14, <2>1, <2>2 DEF BootReturns, ChargerKept
        <3>2. next.kind = tasks[t].kind /\ next.pc = "boot"
            BY <1>1, <2>1, TaskAtPoint DEF OtherTask
        <3> HIDE DEF next
        <3>. QED
            BY <2>1, <3>1, <3>2, AsideRest
    <2>3. CASE ~(tasks[t].connector < ConnectorCount)
        BY <1>13, <1>14, <2>1, <2>3 DEF BootReturns
    <2>. QED
        BY <2>2, <2>3
<1>15. CASE NotifyReturns(t)
    BY <1>13, <1>15 DEF NotifyReturns, Returned
<1>. QED
    BY <1>5, <1>6, <1>7, <1>8, <1>9, <1>10, <1>11, <1>12, <1>14, <1>15 DEF Resume

-----------------------------------------------------------------------------
(* The CSMS's handlers                                                     *)

\* What every handler keeps, but for the records; the reply to an Ended or a
\* Started gets to the coroutine that sent it.
LEMMA HandleRest ==
    ASSUME RestInv, NEW calls, Handle(calls)
    PROVE  /\ ConnectionHolds' /\ StartsCharge' /\ ChargeGoesOn' /\ StatusesInOrder'
           /\ EndedIsAwaited'
           /\ \A i \in DOMAIN uplink' :
                 uplink'[i].call = "started" => uplink'[i].connector = charger'.activeConnector
           /\ 1 \in DOMAIN uplink /\ Head(uplink) = uplink[1] /\ Head(uplink).call \in calls
           /\ UNCHANGED <<deviceVars, tasks, caller>>
           /\ \A t \in Tasks : Settled(t) => Settled(t)'
           /\ Len(uplink) = 1 /\ reply = "awaited" =>
                 /\ reply' = "arrived" /\ caller \in Tasks
                 /\ tasks[caller].pc = Head(uplink).call
<1>1. /\ LedgerInv /\ TypeOK /\ LockDiscipline
      /\ ConnectionHolds /\ StartsCharge /\ ChargeGoesOn /\ OnActiveConnector
      /\ StatusesInOrder /\ EndedIsAwaited
    BY RestFacts
<1>2. /\ uplink # <<>> /\ uplink' = Tail(uplink) /\ Head(uplink).call \in calls
      /\ UNCHANGED <<deviceVars, tasks, caller, handler, connected, downlink, evs, simulator>>
      /\ reply' = IF Len(uplink) = 1 /\ reply = "awaited" THEN "arrived" ELSE reply
    BY <1>1 DEF Handle, ConnectionHolds
<1>3. /\ 1 \in DOMAIN uplink /\ Head(uplink) = uplink[1]
      /\ reply \notin {"arrived", "lost"}
    BY <1>1, HandleOrder
<1>4. uplink \in Seq(Message) /\ uplink' \in Seq(Message)
    BY <1>1, <1>2, TailType DEF TypeOK
<1>5. ASSUME NEW i \in DOMAIN uplink'
      PROVE  /\ i + 1 \in DOMAIN uplink /\ uplink'[i] = uplink[i + 1]
             /\ i + 1 = Len(uplink) => i = Len(uplink') /\ Len(uplink) # 1
    BY <1>2, <1>4, TailType
<1>6. ConnectionHolds' /\ StartsCharge' /\ ChargeGoesOn' /\ StatusesInOrder'
    BY <1>1, <1>2 DEF ConnectionHolds, StartsCharge, ChargeGoesOn, StatusesInOrder
<1>7. EndedIsAwaited'
    BY <1>1, <1>2, <1>5 DEF EndedIsAwaited
<1>8. \A i \in DOMAIN uplink' :
          uplink'[i].call = "started" => uplink'[i].connector = charger'.activeConnector
    BY <1>1, <1>2, <1>5 DEF OnActiveConnector
<1>9. \A t \in Tasks : Settled(t) => Settled(t)'
    BY <1>2, <1>3 DEF Settled, Returned
<1>10. Len(uplink) = 1 /\ reply = "awaited" =>
           /\ reply' = "arrived" /\ caller \in Tasks
           /\ tasks[caller].pc = Head(uplink).call
    BY <1>1, <1>2, <1>3 DEF LockDiscipline, TypeOK
<1>. QED
    BY <1>2, <1>3, <1>6, <1>7, <1>8, <1>9, <1>10

\* A handler that keeps what a record was opened for, and opens none.
LEMMA RecordsKeptRest ==
    ASSUME RestInv, NEW calls, Handle(calls),
           DOMAIN sessions' = DOMAIN sessions,
           \A i \in DOMAIN sessions : Active(i)' =>
               /\ Active(i) /\ sessions'[i].connector = sessions[i].connector
               /\ sessions'[i].ev = sessions[i].ev,
           SequencesGoOn'
    PROVE  RestOrder'
<1>1. OnActiveConnector
    BY RestFacts
<1>2. OnActiveConnector'
    BY <1>1, HandleRest DEF OnActiveConnector, Stopping
<1>. QED
    BY <1>2, HandleRest DEF RestOrder

\* A handler other than that of Started and Ended leaves to come what was to come.
LEMMA StillToCome ==
    ASSUME RestInv, NEW calls, Handle(calls), "started" \notin calls,
           HasActive' = HasActive
    PROVE  SequencesGoOn'
<1>1. LedgerInv /\ SequencesGoOn /\ UNCHANGED <<charger, tasks, caller>>
    BY RestFacts, HandleRest
<1>2. ASSUME NEW t \in Tasks, Unreported(t) PROVE Unreported(t)'
    <2>1. SUFFICES ASSUME caller = t, tasks[t].pc = "started", reply' \in {"arrived", "lost"}
                   PROVE  FALSE
        BY <1>1, <1>2 DEF Unreported
    <2>2. reply' # reply
        BY <1>1, <2>1, HandleOrder
    <2>. QED
        BY <1>1, <2>1, <2>2, HandleOrder, HandleRest
<1>. QED
    BY <1>1, <1>2, HandleRest DEF SequencesGoOn, Stopping

LEMMA NotificationRest ==
    ASSUME RestInv, OnNotification
    PROVE  RestOrder'
<1> DEFINE calls == {"boot", "start_status", "stop_status", "notify"}
<1>1. Handle(calls) /\ "started" \notin calls /\ UNCHANGED sessions
    BY DEF OnNotification
<1>2. \A i \in DOMAIN sessions : Active(i)' = Active(i)
    BY <1>1 DEF Active
<1>3. HasActive' = HasActive
    BY <1>1, <1>2 DEF HasActive
<1> HIDE DEF calls
<1>. QED
    BY <1>1, <1>2, <1>3, RecordsKeptRest, StillToCome

LEMMA UpdatedRest ==
    ASSUME RestInv, OnTransactionUpdated
    PROVE  RestOrder'
<1> DEFINE k == GetActiveSession
           tx == Head(uplink).tx
<1>1. LedgerInv /\ TypeOK
    BY RestFacts
<1>2. Handle({"updated"}) /\ "started" \notin {"updated"}
    BY DEF OnTransactionUpdated
<1>3. /\ DOMAIN sessions' = DOMAIN sessions
      /\ \A i \in DOMAIN sessions :
            /\ sessions'[i].status = sessions[i].status
            /\ sessions'[i].connector = sessions[i].connector
            /\ sessions'[i].ev = sessions[i].ev
    <2>1. CASE HasActive
        <3>1. k \in DOMAIN sessions /\ sessions[k] \in Session
            BY <1>1, <2>1, OneActive DEF TypeOK
        <3>2. sessions' = [sessions EXCEPT ![k] = WithMeterValue(sessions[k], tx)]
            BY <2>1 DEF OnTransactionUpdated
        <3>3. /\ WithMeterValue(sessions[k], tx).status = sessions[k].status
              /\ WithMeterValue(sessions[k], tx).connector = sessions[k].connector
              /\ WithMeterValue(sessions[k], tx).ev = sessions[k].ev
            BY <3>1 DEF WithMeterValue, Session
        <3> HIDE DEF k, tx
        <3>. QED
            BY <3>1, <3>2, <3>3
    <2>2. CASE ~HasActive
        BY <2>2 DEF OnTransactionUpdated
    <2>. QED
        BY <2>1, <2>2
<1>4. \A i \in DOMAIN sessions : Active(i)' = Active(i)
    BY <1>3 DEF Active
<1>5. HasActive' = HasActive
    BY <1>3, <1>4 DEF HasActive
<1>. QED
    BY <1>2, <1>3, <1>4, <1>5, RecordsKeptRest, StillToCome

\* An Ended closes the record, and its reply tells the stop that sent it.
LEMMA EndedRest ==
    ASSUME RestInv, OnTransactionEnded
    PROVE  RestOrder'
<1> DEFINE k == GetActiveSession
           tx == Head(uplink).tx
<1>1. LedgerInv /\ TypeOK /\ SequencesGoOn /\ EndedIsAwaited
    BY RestFacts
<1>2. Handle({"ended"})
    BY DEF OnTransactionEnded
<1>3. /\ DOMAIN sessions' = DOMAIN sessions
      /\ \A i \in DOMAIN sessions : Active(i)' => sessions'[i] = sessions[i]
    <2>1. CASE HasActive
        <3>1. k \in DOMAIN sessions
            BY <1>1, <2>1, OneActive
        <3>2. sessions' = [sessions EXCEPT ![k] = Ended(sessions[k], tx)]
            BY <2>1 DEF OnTransactionEnded
        <3>3. Ended(sessions[k], tx).status # "active"
            BY DEF Ended
        <3> HIDE DEF k, tx
        <3>. QED
            BY <3>1, <3>2, <3>3 DEF Active
    <2>2. CASE ~HasActive
        BY <2>2 DEF OnTransactionEnded
    <2>. QED
        BY <2>1, <2>2
<1>4. \A i \in DOMAIN sessions : Active(i)' => Active(i)
    BY <1>3 DEF Active
<1>5. SequencesGoOn'
    <2>1. Len(uplink) = 1 /\ reply = "awaited"
        <3>1. 1 \in DOMAIN uplink /\ uplink[1].call = "ended"
            BY <1>2, HandleRest
        <3>. QED
            BY <1>1, <3>1 DEF EndedIsAwaited
    <2>2. caller \in Tasks /\ Settled(caller)'
        BY <1>2, <2>1, HandleRest DEF Settled, Returned
    <2>. QED
        BY <1>1, <1>2, <2>2, HandleRest DEF SequencesGoOn, Stopping
<1>. QED
    BY <1>2, <1>3, <1>4, <1>5, RecordsKeptRest

\* A Started opens a record of the active connector and the EV on it.
LEMMA StartedRest ==
    ASSUME RestInv, OnTransactionStarted
    PROVE  RestOrder'
<1> DEFINE m == Head(uplink)
           s == SessionOf(m)
<1>1. /\ LedgerInv /\ TypeOK /\ MessagesInOrder /\ OnActiveConnector /\ SequencesGoOn
    BY RestFacts
<1>2. /\ Handle({"started"}) /\ 1 \in DOMAIN uplink
      /\ m = uplink[1] /\ m.call = "started"
      /\ UNCHANGED <<deviceVars, tasks>>
    BY HandleRest DEF OnTransactionStarted
<1>3. m.tx = issued /\ m.connector = charger.activeConnector
    BY <1>1, <1>2 DEF MessagesInOrder, Accounting, OnActiveConnector
<1>4. \A i \in DOMAIN sessions : ~Active(i) /\ sessions[i].id # issued
    <2>1. LedgerEntry(issued) # "open" /\ LedgerEntry(issued) = "unknown"
        <3>1. issued \in Nat
            BY <1>1 DEF TypeOK
        <3>. QED
            BY <1>1, <3>1, StartedOrder
    <2>2. ASSUME NEW i \in DOMAIN sessions PROVE sessions[i].id # issued
        BY <2>1 DEF LedgerEntry
    <2>3. ASSUME NEW i \in DOMAIN sessions, Active(i) PROVE FALSE
        <3>1. LedgerEntry(sessions[i].id) = "open"
            BY <2>3 DEF LedgerEntry
        <3>. QED
            BY <1>1, <3>1, StartedOrder
    <2>. QED
        BY <2>2, <2>3
<1>5. sessions' = Append(sessions, s)
    BY <1>3, <1>4 DEF OnTransactionStarted
<1>6. /\ s.status = "active" /\ s.connector = charger.activeConnector
      /\ s.ev = pluggedEvs[charger.activeConnector]
    BY <1>3 DEF SessionOf
<1> HIDE DEF s, m
<1>7. /\ Len(sessions) + 1 \in DOMAIN sessions' /\ sessions'[Len(sessions) + 1] = s
      /\ \A i \in DOMAIN sessions' :
            \/ i \in DOMAIN sessions /\ sessions'[i] = sessions[i]
            \/ sessions'[i] = s
    BY <1>1, <1>5 DEF TypeOK
<1>8. OnActiveConnector'
    <2>1. ASSUME NEW i \in DOMAIN sessions', Active(i)'
          PROVE  /\ sessions'[i].connector = charger.activeConnector
                 /\ sessions'[i].ev = pluggedEvs[charger.activeConnector]
        BY <1>4, <1>6, <1>7, <2>1 DEF Active
    <2>. QED
        BY <1>1, <1>2, <2>1, HandleRest DEF OnActiveConnector, Stopping
<1>9. SequencesGoOn'
    <2>1. HasActive'
        BY <1>6, <1>7 DEF HasActive, Active
    <2>. QED
        BY <1>1, <1>2, <2>1 DEF SequencesGoOn, Stopping
<1>. QED
    BY <1>2, <1>8, <1>9, HandleRest DEF RestOrder

-----------------------------------------------------------------------------
(* The simulator, and every step                                           *)

LEMMA SimulatorRest ==
    ASSUME RestInv, Calm, AutoStop \/ \E e \in Evs : TargetReached(e)
    PROVE  RestOrder'
<1> DEFINE a == charger.activeConnector
<1>1. /\ LedgerInv /\ TypeOK /\ PlugAgreement /\ ChargingIsServed /\ StartWaitsAlone
      /\ TransactionIds /\ ConnectionHolds /\ StartsCharge /\ ChargeGoesOn
    BY RestFacts
<1>2. ASSUME NEW e \in Evs, TargetReached(e) PROVE RestOrder'
    <2>1. /\ evs[e].status = "charging"
          /\ evs' = [evs EXCEPT ![e] = Filled(evs[e])]
          /\ simulator' = [state |-> "saving", ev |-> e]
          /\ UNCHANGED <<deviceVars, loopVars, netVars, sessions>>
        BY <1>2 DEF TargetReached
    <2>2. charger.isCharging /\ evs[e].connector = a /\ a \in Connectors
        BY <1>1, <2>1 DEF ChargingIsServed, TypeOK, Charger
    <2>3. pluggedEvs[a] = e
        BY <1>1, <2>2 DEF PlugAgreement
    <2>4. evs'[e].session = evs[e].session
        BY <1>1, <2>1 DEF Filled, TypeOK
    <2>5. ~StartRequested
        BY <1>1, <2>2 DEF StartWaitsAlone, TransactionIds
    <2>6. ConnectionHolds' /\ StartsCharge'
        BY <1>1, <2>1, <2>5 DEF ConnectionHolds, StartsCharge, StartRequested
    <2>7. ChargeGoesOn'
        BY <1>1, <2>1, <2>2, <2>3, <2>4 DEF ChargeGoesOn
    <2>. QED
        BY <2>1, <2>6, <2>7, CommandRest DEF ChargerKept
<1>3. CASE AutoStop
    <2>1. /\ simulator.state = "saving"
          /\ UNCHANGED <<deviceVars, loopVars, connected, uplink, sessions, evs>>
        BY <1>3 DEF AutoStop
    <2>2. CASE NeedsStop(simulator.ev)
        <3>1. /\ connected /\ Request("stop", 0, "simulator")
              /\ simulator' = [simulator EXCEPT !.state = "waiting"]
            BY <1>3, <2>2 DEF AutoStop, NeedsStop
        <3>2. simulator'.state = "waiting"
            BY <1>1, <3>1 DEF TypeOK
        <3>. QED
            BY <2>1, <3>1, <3>2, RequestRest
    <2>3. CASE ~NeedsStop(simulator.ev)
        <3>1. simulator' = [state |-> "ticking", ev |-> None] /\ UNCHANGED downlink
            BY <1>3, <2>3 DEF AutoStop
        <3>2. charger.isCharging => evs[pluggedEvs[a]].status = "charging"
            BY <1>1, <2>1, <2>3 DEF ChargeGoesOn, NeedsStop, TransactionIds, ConnectionHolds
        <3>3. ConnectionHolds' /\ StartsCharge' /\ ChargeGoesOn'
            BY <1>1, <2>1, <3>1, <3>2 DEF ConnectionHolds, StartsCharge, ChargeGoesOn
        <3>. QED
            BY <2>1, <3>1, <3>3, CommandRest DEF ChargerKept
    <2>. QED
        BY <2>2, <2>3
<1>. QED
    BY <1>2, <1>3

LEMMA UserRest ==
    ASSUME RestInv, Calm, UserStep
    PROVE  RestOrder'
<1>1. LedgerInv /\ TypeOK /\ PlugAgreement /\ TransactionIds
    BY RestFacts
<1>2. MayCommand => Quiet /\ ~Starting /\ downlink = <<>>
    BY CommandsWait, NothingStarting DEF Calm, Undisturbed
<1>3. ASSUME NEW t \in Tasks, Connect(t) PROVE RestOrder'
    <2>1. /\ t \in FreeTasks /\ connected'
          /\ Proceed(t, Coroutine("boot", "boot", 0))
          /\ UNCHANGED <<deviceVars, handler, uplink, downlink, sessions, evs, simulator>>
        BY <1>3 DEF Connect
    <2>2. UNCHANGED <<caller, reply>> /\ tasks' = [tasks EXCEPT ![t] = Coroutine("boot", "boot", 0)]
        BY <1>1, <2>1, FreeSlot DEF Proceed, Release
    <2>. QED
        BY <2>1, <2>2, SpawnRest DEF ChargerKept
<1>4. ASSUME NEW t \in Tasks, ConnectorError(t) PROVE RestOrder'
    <2>1. /\ t \in FreeTasks
          /\ tasks' = [tasks EXCEPT ![t] = Coroutine("connector_error", "notify", 1)]
          /\ UNCHANGED <<plugVars, caller, reply, handler, netVars, sessions, evs, simulator>>
        BY <1>4 DEF ConnectorError, Notify
    <2>2. ChargerKept
        BY <1>1, <1>4 DEF ConnectorError, ChargerKept, TypeOK, Charger
    <2>. QED
        BY <2>1, <2>2, SpawnRest
<1>5. ASSUME NEW t \in Tasks, PowerLoss(t) PROVE RestOrder'
    <2>1. charger.transactionId # NoTransaction
        BY <1>1, <1>5 DEF PowerLoss, TransactionIds
    <2>2. /\ t \in FreeTasks /\ BeginStop(t, "power_loss") /\ downlink = <<>> /\ ~Starting
          /\ UNCHANGED <<handler, netVars, sessions, simulator>>
        BY <1>2, <1>5, <2>1 DEF PowerLoss
    <2>3. simulator.state # "dead"
        BY RestFacts DEF ConnectionHolds
    <2>. QED
        BY <2>1, <2>2, <2>3, BeginStopRest
<1>6. ~Disconnect /\ ~RequestReset
    BY DEF Calm, Disconnect, RequestReset
<1>7. CASE StopSession
    BY <1>7, RequestRest DEF StopSession
<1>8. ASSUME NEW e \in Evs, Unplug(e) PROVE RestOrder'
    BY <1>8, UnplugRest
<1>9. ASSUME NEW c \in Connectors, MayStart(c)
      PROVE  pluggedEvs[c] # None => ~evs[pluggedEvs[c]].atTarget
    BY <1>9 DEF MayStart, Calm
<1>10. ASSUME NEW e \in Evs, StartEvCharging(e) PROVE RestOrder'
    <2> DEFINE c == evs[e].connector
    <2>1. c \in Connectors
        BY <1>1, <1>10, ConnectorCountAssumption
        DEF StartEvCharging, TypeOK, Ev, NoConnector, Connectors
    <2>2. pluggedEvs[c] = e /\ e # None
        BY <1>1, <2>1, NoneAssumption DEF PlugAgreement
    <2>3. /\ connected /\ MayStart(c) /\ Request("start", c, "rest")
          /\ UNCHANGED <<deviceVars, loopVars, connected, uplink, sessions, evs, simulator>>
        BY <1>10 DEF StartEvCharging
    <2> HIDE DEF c
    <2>. QED
        BY <1>9, <2>1, <2>2, <2>3, RequestRest
<1>11. ASSUME NEW e \in Evs, StopEvCharging(e) PROVE RestOrder'
    BY <1>11, RequestRest DEF StopEvCharging
<1>12. ASSUME NEW c \in Connectors, StartSession(c) PROVE RestOrder'
    BY <1>9, <1>12, RequestRest DEF StartSession
<1>13. ASSUME NEW c \in Connectors, NEW e \in Evs, Plug(e, c) PROVE RestOrder'
    BY <1>13, PlugRest
<1>. QED
    BY <1>3, <1>4, <1>5, <1>6, <1>7, <1>8, <1>10, <1>11, <1>12, <1>13 DEF UserStep

LEMMA ReceiveRest ==
    ASSUME RestInv, ReceiveRequest
    PROVE  RestOrder'
<1>1. /\ LedgerInv /\ TypeOK /\ ConnectionHolds /\ StartsCharge /\ ChargeGoesOn
      /\ TransactionIds
    BY RestFacts
<1>2. ASSUME NEW command \in {"start", "stop", "reset"}, Receive(command)
      PROVE  /\ connected /\ ~Starting
             /\ Head(downlink) = downlink[1] /\ 1 \in DOMAIN downlink
             /\ downlink[1].command = command
             /\ \A i \in DOMAIN downlink' : downlink'[i].command \notin {"start", "reset"}
             /\ simulator'.state # "dead"
    <2>1. downlink # <<>> /\ downlink \in Seq(Command) /\ downlink' = Tail(downlink)
        BY <1>1, <1>2 DEF Receive, TypeOK
    <2>2. /\ Head(downlink) = downlink[1] /\ 1 \in DOMAIN downlink
          /\ \A i \in DOMAIN downlink' : /\ i + 1 \in DOMAIN downlink
                                         /\ downlink'[i] = downlink[i + 1]
        BY <2>1, TailType
    <2>3. ~Starting /\ ~StartRequested'
        BY <1>1, <1>2, ReceiveFacts
    <2>4. connected /\ simulator'.state # "dead"
        BY <1>1, <1>2, <2>1 DEF ConnectionHolds, Receive
    <2>5. \A i \in DOMAIN downlink' : downlink'[i].command \notin {"start", "reset"}
        BY <1>1, <2>2, <2>3 DEF ConnectionHolds, StartRequested
    <2>. QED
        BY <1>2, <2>2, <2>3, <2>4, <2>5 DEF Receive
<1>3. ASSUME NEW t \in Tasks, OnRequestStartTransaction(t) PROVE RestOrder'
    <2> DEFINE c == Head(downlink).connector
    <2>1. /\ t \in FreeTasks /\ Receive("start") /\ BeginStart(t, c)
          /\ UNCHANGED <<caller, reply, handler, connected, uplink, sessions>>
        BY <1>3 DEF OnRequestStartTransaction
    <2>2. c \in Connectors
        BY <1>1, <2>1, ReceiveType DEF Receive, Command
    <2>3. pluggedEvs[c] # None /\ ~evs[pluggedEvs[c]].atTarget
        BY <1>1, <1>2, <2>1 DEF StartsCharge
    <2>4. StartRequested /\ downlink' = <<>>
        BY <1>1, <2>1, ReceiveFacts
    <2> HIDE DEF c
    <2>. QED
        BY <1>2, <2>1, <2>2, <2>3, <2>4, BeginStartRest
<1>4. ASSUME NEW t \in Tasks, OnRequestStopTransaction(t) PROVE RestOrder'
    <2>1. /\ t \in FreeTasks /\ Receive("stop")
          /\ UNCHANGED <<handler, connected, uplink, sessions>>
        BY <1>4 DEF OnRequestStopTransaction
    <2>2. CASE charger.transactionId = NoTransaction
        <3>1. UNCHANGED <<deviceVars, tasks, caller, reply, evs>>
            BY <1>4, <2>2 DEF OnRequestStopTransaction
        <3>2. ConnectionHolds'
            BY <1>1, <1>2, <2>1, <3>1 DEF ConnectionHolds
        <3>3. StartsCharge'
            BY <1>2, <2>1 DEF StartsCharge
        <3>4. ChargeGoesOn'
            BY <1>1, <2>2, <3>1 DEF ChargeGoesOn, TransactionIds
        <3>. QED
            BY <2>1, <3>1, <3>2, <3>3, <3>4, CommandRest DEF ChargerKept
    <2>3. CASE charger.transactionId # NoTransaction
        <3>1. BeginStop(t, "stop")
            BY <1>4, <2>3 DEF OnRequestStopTransaction
        <3>. QED
            BY <1>2, <2>1, <2>3, <3>1, BeginStopRest
    <2>. QED
        BY <2>2, <2>3
<1>5. ASSUME NEW t \in Tasks, OnReset(t) PROVE FALSE
    <2>1. 1 \in DOMAIN downlink /\ downlink[1].command = "reset"
        BY <1>2, <1>5 DEF OnReset
    <2>. QED
        BY <1>1, <2>1 DEF ConnectionHolds
<1>. QED
    BY <1>3, <1>4, <1>5 DEF ReceiveRequest

LEMMA RestInvStep ==
    ASSUME Calm
    PROVE  RestInv /\ [Next]_vars => RestInv'
<1> SUFFICES ASSUME RestInv, [Next]_vars PROVE RestInv'
    OBVIOUS
<1>1. LedgerInv'
    BY LedgerInvStep DEF RestInv, Calm, Undisturbed
<1>2. SUFFICES RestOrder'
    BY <1>1 DEF RestInv
<1>3. CASE UNCHANGED vars
    <2>1. ConnectionHolds' /\ StartsCharge' /\ ChargeGoesOn'
        BY <1>3, RestFacts DEF ConnectionHolds, StartsCharge, ChargeGoesOn
    <2>. QED
        BY <1>3, <2>1, CommandRest DEF ChargerKept
<1>4. CASE UserStep
    BY <1>4, UserRest
<1>5. CASE ReceiveRequest
    BY <1>5, ReceiveRest
<1>6. ASSUME NEW t \in Tasks, SendCall(t) \/ Resume(t) PROVE RestOrder'
    BY <1>6, SendCallRest, ResumeRest
<1>7. CASE CsmsStep
    BY <1>7, StartedRest, UpdatedRest, EndedRest, NotificationRest DEF CsmsStep
<1>8. CASE AutoStop \/ \E e \in Evs : TargetReached(e)
    BY <1>8, SimulatorRest
<1>. QED
    BY <1>3, <1>4, <1>5, <1>6, <1>7, <1>8 DEF Next

LEMMA RestInvInit == Init => RestInv
<1> SUFFICES ASSUME Init PROVE RestInv
    OBVIOUS
<1>1. LedgerInv
    BY LedgerInvInit
<1>2. /\ charger.isCharging = FALSE /\ charger.transactionId = NoTransaction
      /\ handler = None /\ reply = "none" /\ uplink = <<>> /\ downlink = <<>>
      /\ simulator.state = "ticking"
      /\ \A t \in Tasks : tasks[t] = Free
      /\ \A c \in Connectors : connectorStatuses[c] = "Available" /\ pluggedEvs[c] = None
    BY DEF Init
<1>3. DOMAIN uplink = {} /\ DOMAIN downlink = {}
    BY <1>2
<1>4. ConnectionHolds /\ StartsCharge /\ ChargeGoesOn
    BY <1>2, <1>3, FreeFields DEF ConnectionHolds, StartsCharge, ChargeGoesOn
<1>5. OnActiveConnector
    BY <1>2, <1>3, FreeFields DEF OnActiveConnector
<1>6. StatusesInOrder /\ SequencesGoOn /\ EndedIsAwaited
    BY <1>2, <1>3 DEF StatusesInOrder, SequencesGoOn, EndedIsAwaited
<1>. QED
    BY <1>1, <1>4, <1>5, <1>6 DEF RestInv, RestOrder

-----------------------------------------------------------------------------
(* Theorems                                                                *)

\* Whenever nothing is under way the sessions that the CSMS has open are the
\* charger's open transaction, though each side closes its own.
THEOREM SessionsAgree ==
    ASSUME Calm
    PROVE  Spec => []SessionsMatch
<1>1. RestInv => SessionsMatch
    <2> SUFFICES ASSUME RestInv, Quiet
                 PROVE  {sessions[i].id : i \in OpenSessions} =
                        {charger.transactionId} \ {NoTransaction}
        BY DEF SessionsMatch
    <2>1. TransactionIds /\ RecordsInOrder /\ ReportsInOrder
        BY RestFacts
    <2>2. charger.transactionId # NoTransaction <=> HasActive
        BY <2>1, NothingToCome DEF ReportsInOrder
    <2>3. HasActive => charger.transactionId = issued
        BY <2>1, <2>2 DEF TransactionIds
    <2>4. \A i \in OpenSessions : sessions[i].id = issued
        BY <2>1 DEF RecordsInOrder, OpenSessions
    <2>5. HasActive <=> OpenSessions # {}
        BY DEF HasActive, OpenSessions
    <2>. QED
        BY <2>2, <2>3, <2>4, <2>5
<1>. QED
    BY <1>1, RestInvInit, RestInvStep, PTL DEF Spec

\* Whenever nothing is under way the session that is open names the EV that is
\* plugged in on the active connector and charges for it.
THEOREM SessionsNameTheirEv ==
    ASSUME Calm
    PROVE  Spec => []SessionNamesItsEv
<1>1. RestInv => SessionNamesItsEv
    <2> SUFFICES ASSUME RestInv, Quiet, NEW i \in OpenSessions
                 PROVE  /\ sessions[i].ev # None
                        /\ pluggedEvs[sessions[i].connector] = sessions[i].ev
                        /\ charger.activeConnector = sessions[i].connector
                        /\ evs[sessions[i].ev].session = sessions[i].id
        BY DEF SessionNamesItsEv
    <2>1. TransactionIds /\ RecordsInOrder /\ ReportsInOrder /\ OnActiveConnector
        BY RestFacts
    <2>2. i \in DOMAIN sessions /\ Active(i) /\ HasActive
        BY DEF OpenSessions, HasActive
    <2>3. charger.isCharging /\ charger.transactionId = issued /\ sessions[i].id = issued
        BY <2>1, <2>2, NothingToCome DEF ReportsInOrder, TransactionIds, RecordsInOrder
    <2>. QED
        BY <2>1, <2>2, <2>3, NothingToCome DEF OnActiveConnector
<1>. QED
    BY <1>1, RestInvInit, RestInvStep, PTL DEF Spec

\* Whenever nothing is under way the connector statuses say where is charged
\* and where is plugged in, after every start, stop, power loss and replugging.
THEOREM StatusesHonest ==
    ASSUME Calm
    PROVE  Spec => []StatusHonest
<1>1. RestInv => StatusHonest
    <2> SUFFICES ASSUME RestInv, Quiet, NEW c \in Connectors
                 PROVE  /\ connectorStatuses[c] = "Charging" <=>
                               charger.isCharging /\ charger.activeConnector = c
                        /\ connectorStatuses[c] = "Available" <=> pluggedEvs[c] = None
        BY DEF StatusHonest
    <2>1. StatusesInOrder /\ TransactionIds
        BY RestFacts
    <2>2. charger.isCharging => pluggedEvs[charger.activeConnector] # None
        BY NothingToCome
    <2>3. ~charger.isCharging => charger.transactionId = NoTransaction
        BY NothingToCome
    <2>. QED
        BY <2>1, <2>2, <2>3 DEF StatusesInOrder
<1>. QED
    BY <1>1, RestInvInit, RestInvStep, PTL DEF Spec
=============================================================================
