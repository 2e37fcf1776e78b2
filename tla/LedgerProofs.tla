---------------------------- MODULE LedgerProofs ----------------------------
(* Proofs that the charger and the CSMS's session records agree on whose     *)
(* events are whose, for every number of connectors, EVs, coroutines and     *)
(* transactions: while REST commands do not overlap, no start is requested    *)
(* with a transaction open, and no EV is full before its start is reported.   *)
(* Drops, resets, faults and starts for a full EV are all allowed.            *)
EXTENDS ChargingLedger, ChargingProofs

Undisturbed == Environment \cap {"overlap", "second_start", "early_full"} = {}

-----------------------------------------------------------------------------
(* The inductive invariant                                                  *)

StartRequested == \E i \in DOMAIN downlink : downlink[i].command = "start"
Starting == \E t \in Tasks : tasks[t].kind = "start"
BetweenCompletions == simulator.state \in {"ticking", "dead"}

\* A coroutine that runs _stop_transaction.
Stopping(task) == task.kind # "start" /\ task.pc \in {"saving", "ended", "stop_status"}

Accounting == {"started", "updated", "ended"}

\* The charger's transaction is the one it drew last, or none.
TransactionIds ==
    /\ charger.transactionId \in {NoTransaction, issued}
    /\ charger.isCharging => charger.transactionId # NoTransaction
    /\ issued <= MaxTransactions

\* A start waits for the charger with nothing else under way.
StartWaitsAlone ==
    StartRequested =>
        /\ Len(downlink) = 1
        /\ \A t \in Tasks : tasks[t].kind = "none"
        /\ BetweenCompletions
        /\ charger.transactionId = NoTransaction
        /\ issued < MaxTransactions

\* A start runs with nothing else under way.
StartRunsAlone ==
    \A t \in Tasks : tasks[t].kind = "start" =>
        /\ \A u \in Tasks \ {t} : tasks[u].kind = "none"
        /\ downlink = <<>>
        /\ BetweenCompletions
        /\ charger.isCharging

\* What a coroutine's position says about the charger.
TaskInOrder(t, task) ==
    /\ task.pc \in {"sleeping", "updated"} <=> task.kind = "meter"
    /\ task.kind = "meter" => charger.meterTask = t /\ charger.isCharging
    /\ Stopping(task) => ~charger.isCharging
    /\ task.pc \in Accounting => task.tx = issued

TasksInOrder ==
    /\ \A t \in Tasks : TaskInOrder(t, tasks[t])
    /\ charger.meterTask # None => tasks[charger.meterTask].kind = "meter"

\* An EV that charges is charged by the transaction that is open.
ChargingIsServed ==
    \A e \in Evs : evs[e].status = "charging" =>
        /\ charger.isCharging
        /\ charger.transactionId = evs[e].session
        /\ charger.activeConnector = evs[e].connector

\* Calls on their way are of the transaction drawn last; all but those of a
\* metering that was cancelled have a caller who waits; a Started is the last.
MessagesInOrder ==
    /\ uplink # <<>> => \/ reply = "awaited"
                        \/ charger.transactionId # NoTransaction /\ ~charger.isCharging
    /\ reply \in {"arrived", "lost"} => uplink = <<>>
    /\ ~connected => uplink = <<>>
    /\ \A i \in DOMAIN uplink : uplink[i].call \in Accounting => uplink[i].tx = issued
    /\ \A i \in DOMAIN uplink :
           uplink[i].call = "started" => i = Len(uplink) /\ reply = "awaited"

\* One record per transaction; only the transaction drawn last may be active.
RecordsInOrder ==
    /\ \A i \in DOMAIN sessions : sessions[i].id \in 1 .. issued
    /\ \A i, j \in DOMAIN sessions : sessions[i].id = sessions[j].id => i = j
    /\ \A i \in DOMAIN sessions : Active(i) => sessions[i].id = issued

Reported == \E i \in DOMAIN sessions : sessions[i].id = issued

\* The CSMS has handled the Ended of t's stop.
Settled(t) == tasks[t].pc = "stop_status" \/ Returned(t, "ended")

\* The CSMS has not handled the Started of t's start yet.
Unreported(t) ==
    /\ tasks[t].kind = "start"
    /\ ~(caller = t /\ tasks[t].pc = "started" /\ reply \in {"arrived", "lost"})

\* Where the charger's coroutines are in what they tell the CSMS.
ReportsInOrder ==
    /\ HasActive => charger.transactionId # NoTransaction
    /\ \A t \in Tasks : Settled(t) => ~HasActive
    /\ \A t \in Tasks : Unreported(t) => ~Reported

OrderInv ==
    /\ TransactionIds /\ StartWaitsAlone /\ StartRunsAlone /\ TasksInOrder
    /\ ChargingIsServed /\ MessagesInOrder
    /\ RecordsInOrder /\ OwnEventsOnly /\ ReportsInOrder

LedgerInv == PlugInv /\ LockInv /\ OrderInv

-----------------------------------------------------------------------------
(* Facts the steps below share                                              *)

USE DEF vars, deviceVars, plugVars, loopVars, netVars

\* The charger's transaction, and what it is doing about it, stay as they are.
ChargerKept ==
    /\ UNCHANGED issued
    /\ charger'.transactionId = charger.transactionId
    /\ charger'.isCharging = charger.isCharging
    /\ charger'.activeConnector = charger.activeConnector
MeterKept == charger'.meterTask = charger.meterTask

LEMMA OneTaskChanges ==
    ASSUME TypeOK, NEW t \in Tasks, NEW task, tasks' = [tasks EXCEPT ![t] = task]
    PROVE  tasks'[t] = task /\ \A u \in Tasks \ {t} : tasks'[u] = tasks[u]
BY DEF TypeOK

LEMMA FreeFields ==
    /\ Free.kind = "none" /\ Free.pc = "free" /\ Free.tx = 0
    /\ \A t : ~Stopping(Free)
BY DEF Free, Coroutine, Stopping, NoTransaction

LEMMA CoroutineFields ==
    ASSUME NEW kind, NEW pc, NEW c
    PROVE  /\ Coroutine(kind, pc, c).kind = kind
           /\ Coroutine(kind, pc, c).pc = pc
BY DEF Coroutine

\* A free slot holds no caller and no meter task.
LEMMA FreeSlot ==
    ASSUME LedgerInv, NEW t \in FreeTasks
    PROVE  /\ t \in Tasks /\ caller # t /\ tasks[t] = Free
           /\ charger.meterTask # t
<1>1. t \in Tasks /\ tasks[t].kind = "none" /\ TypeOK /\ LockDiscipline /\ TasksInOrder
    BY DEF FreeTasks, LedgerInv, LockInv, OrderInv
<1>2. tasks[t] = Free
    BY <1>1, TaskAtPoint
<1>3. t # None
    BY <1>1, NoneAssumption
<1>4. caller # t
    BY <1>1, <1>3, CallerIsBusy
<1>. QED
    BY <1>1, <1>2, <1>3, <1>4 DEF TasksInOrder

\* Nothing is under way: no start is requested and none runs.
LEMMA NothingStarting ==
    ASSUME Quiet
    PROVE  ~StartRequested /\ ~Starting /\ downlink = <<>>
BY DEF Quiet, StartRequested, Starting

\* A request that is read is the only one if it is a start; no start runs then.
LEMMA ReceiveFacts ==
    ASSUME LedgerInv, NEW command \in {"start", "stop", "reset"}, Receive(command)
    PROVE  /\ ~Starting
           /\ downlink' \in Seq(Command)
           /\ ~StartRequested'
           /\ command = "start" => /\ StartRequested
                                   /\ downlink' = <<>>
           /\ command # "start" => ~StartRequested
           /\ BetweenCompletions => BetweenCompletions'
<1>1. /\ TypeOK /\ StartWaitsAlone /\ StartRunsAlone
      /\ downlink # <<>> /\ downlink \in Seq(Command)
      /\ Head(downlink).command = command /\ downlink' = Tail(downlink)
    BY DEF LedgerInv, LockInv, OrderInv, TypeOK, Receive
<1>2. ~Starting
    BY <1>1 DEF StartRunsAlone, Starting
<1>3. /\ 1 \in DOMAIN downlink /\ Head(downlink) = downlink[1]
      /\ downlink' \in Seq(Command)
      /\ Len(downlink') = Len(downlink) - 1 /\ Len(downlink) \in Nat
      /\ \A i \in 1 .. Len(downlink') : downlink'[i] = downlink[i + 1]
      /\ DOMAIN downlink = 1 .. Len(downlink)
      /\ DOMAIN downlink' = 1 .. Len(downlink')
    BY <1>1, TailType
<1>4. command = "start" => StartRequested
    BY <1>1, <1>3 DEF StartRequested
<1>5. StartRequested => command = "start" /\ Len(downlink) = 1
    BY <1>1, <1>3 DEF StartRequested, StartWaitsAlone
<1>6. ~StartRequested'
    <2>1. SUFFICES ASSUME NEW i \in DOMAIN downlink', downlink'[i].command = "start"
                   PROVE  FALSE
        BY DEF StartRequested
    <2>2. i + 1 \in DOMAIN downlink /\ downlink[i + 1].command = "start"
        BY <1>3, <2>1
    <2>3. Len(downlink) = 1
        BY <1>5, <2>2 DEF StartRequested
    <2>. QED
        BY <1>3, <2>2, <2>3
<1>7. command = "start" => downlink' = <<>>
    <2>1. command = "start" => Len(downlink') = 0
        BY <1>1, <1>3, <1>4 DEF StartWaitsAlone
    <2>. QED
        BY <1>3, <2>1, EmptySeq
<1>8. BetweenCompletions => BetweenCompletions'
    BY DEF BetweenCompletions, Receive
<1>. QED
    BY <1>2, <1>3, <1>4, <1>5, <1>6, <1>7, <1>8

-----------------------------------------------------------------------------
(* Steps that create a coroutine                                            *)

\* A command that changes only EVs, requests or the simulator.
LEMMA CommandOrder ==
    ASSUME LedgerInv, ChargerKept, MeterKept,
           UNCHANGED <<tasks, caller, reply, connected, uplink, sessions>>,
           StartWaitsAlone', StartRunsAlone', ChargingIsServed'
    PROVE  OrderInv'
<1>1. OrderInv
    BY DEF LedgerInv
<1>2. TransactionIds' /\ MessagesInOrder'
    BY <1>1 DEF OrderInv, TransactionIds, MessagesInOrder, ChargerKept
<1>3. TasksInOrder'
    BY <1>1 DEF OrderInv, TasksInOrder, TaskInOrder, Stopping, ChargerKept, MeterKept
<1>4. RecordsInOrder' /\ OwnEventsOnly'
    BY <1>1 DEF OrderInv, RecordsInOrder, OwnEventsOnly, Active, ChargerKept
<1>5. ReportsInOrder'
    BY <1>1 DEF OrderInv, ReportsInOrder, HasActive, Active, Settled, Returned, Unreported,
                Reported, ChargerKept
<1>. QED
    BY <1>2, <1>3, <1>4, <1>5 DEF OrderInv

\* A boot or notification coroutine is created with no start under way.
LEMMA SpawnOrder ==
    ASSUME LedgerInv, ChargerKept, MeterKept,
           NEW t \in FreeTasks, NEW kind \in {"boot", "reset", "connector_error", "power_loss"},
           NEW pc \in {"boot", "notify"}, NEW c,
           tasks' = [tasks EXCEPT ![t] = Coroutine(kind, pc, c)],
           UNCHANGED <<caller, reply, uplink, sessions, evs>>,
           connected => connected',
           ~Starting, ~StartRequested'
    PROVE  OrderInv'
<1>1. OrderInv /\ TypeOK
    BY DEF LedgerInv, LockInv
<1>2. /\ t \in Tasks /\ caller # t /\ charger.meterTask # t
      /\ tasks'[t].kind = kind /\ tasks'[t].pc = pc
      /\ \A u \in Tasks \ {t} : tasks'[u] = tasks[u]
    <2>1. t \in Tasks /\ caller # t /\ charger.meterTask # t
        BY FreeSlot
    <2>2. /\ tasks'[t] = Coroutine(kind, pc, c)
          /\ \A u \in Tasks \ {t} : tasks'[u] = tasks[u]
        BY <1>1, <2>1 DEF TypeOK
    <2>. QED
        BY <2>1, <2>2, CoroutineFields
<1>3. TransactionIds'
    BY <1>1 DEF OrderInv, TransactionIds, ChargerKept
<1>4. StartWaitsAlone'
    BY DEF StartWaitsAlone
<1>5. StartRunsAlone'
    BY <1>2 DEF StartRunsAlone, Starting
<1>6. TasksInOrder'
    <2>1. ASSUME NEW u \in Tasks PROVE TaskInOrder(u, tasks[u])'
        <3>1. CASE u = t
            BY <1>2, <3>1 DEF TaskInOrder, Stopping, Accounting
        <3>2. CASE u # t
            BY <1>1, <1>2, <3>2
            DEF OrderInv, TasksInOrder, TaskInOrder, Stopping, ChargerKept, MeterKept
        <3>. QED
            BY <3>1, <3>2
    <2>2. charger'.meterTask # None => tasks'[charger'.meterTask].kind = "meter"
        BY <1>1, <1>2 DEF OrderInv, TasksInOrder, MeterKept, TypeOK, Charger
    <2>. QED
        BY <2>1, <2>2 DEF TasksInOrder
<1>7. ChargingIsServed'
    BY <1>1 DEF OrderInv, ChargingIsServed, ChargerKept
<1>8. MessagesInOrder'
    BY <1>1 DEF OrderInv, MessagesInOrder, ChargerKept
<1>9. RecordsInOrder' /\ OwnEventsOnly'
    BY <1>1 DEF OrderInv, RecordsInOrder, OwnEventsOnly, Active, ChargerKept
<1>10. ReportsInOrder'
    <2>1. HasActive' = HasActive
        BY DEF HasActive, Active
    <2>2. \A u \in Tasks : Settled(u)' => Settled(u)
        BY <1>2 DEF Settled, Returned
    <2>3. \A u \in Tasks : ~Unreported(u)'
        BY <1>2 DEF Unreported, Starting
    <2>. QED
        BY <1>1, <2>1, <2>2, <2>3 DEF OrderInv, ReportsInOrder, ChargerKept
<1>. QED
    BY <1>3, <1>4, <1>5, <1>6, <1>7, <1>8, <1>9, <1>10 DEF OrderInv

\* _stop_transaction begins with no start under way: the EV that charges, if
\* any, is on the active connector and stops; so does the metering.
LEMMA BeginStopOrder ==
    ASSUME LedgerInv, NEW t \in FreeTasks, NEW kind \in {"stop", "reset", "power_loss"},
           BeginStop(t, kind), charger.transactionId # NoTransaction,
           UNCHANGED <<uplink, connected, sessions>>,
           ~Starting, ~StartRequested'
    PROVE  OrderInv'
<1> DEFINE a == charger.activeConnector
           e == pluggedEvs[a]
           m == charger.meterTask
           stop == [kind |-> kind, pc |-> IF e = None THEN "ended" ELSE "saving",
                    connector |-> a, ev |-> e,
                    tx |-> IF e = None THEN charger.transactionId ELSE NoTransaction]
<1>1. OrderInv /\ TypeOK /\ PlugAgreement
    BY DEF LedgerInv, LockInv, PlugInv
<1>2. t \in Tasks /\ caller # t
    BY FreeSlot
<1>3. /\ charger'.isCharging = FALSE /\ charger'.meterTask = None
      /\ charger'.transactionId = charger.transactionId
      /\ charger'.activeConnector = a
      /\ UNCHANGED <<issued, pluggedEvs>>
    BY <1>1 DEF BeginStop, CancelMeter, TypeOK, Charger
<1>4. /\ caller' = IF caller = m THEN None ELSE caller
      /\ reply' = IF caller = m THEN "none" ELSE reply
    BY DEF BeginStop, CancelMeter, Release
<1>5. /\ tasks'[t] = stop
      /\ \A u \in Tasks \ {t} : tasks'[u] = IF u = m THEN Free ELSE tasks[u]
    BY <1>2 DEF BeginStop, CancelMeter
<1>6. charger.transactionId = issued
    BY <1>1 DEF OrderInv, TransactionIds
<1>7. /\ stop.kind = kind /\ stop.pc \in {"saving", "ended"}
      /\ stop.pc = "ended" => stop.tx = issued
    BY <1>6
<1> HIDE DEF stop
<1>8. TransactionIds'
    BY <1>1, <1>3 DEF OrderInv, TransactionIds
<1>9. StartWaitsAlone' /\ StartRunsAlone'
    BY <1>5, <1>7, FreeFields DEF StartWaitsAlone, StartRunsAlone, Starting
<1>10. TasksInOrder'
    <2>1. ASSUME NEW u \in Tasks PROVE TaskInOrder(u, tasks[u])'
        <3>1. CASE u = t
            BY <1>3, <1>5, <1>7, <3>1 DEF TaskInOrder, Accounting
        <3>2. CASE u # t /\ u = m
            BY <1>5, <3>2, FreeFields DEF TaskInOrder, Accounting
        <3>3. CASE u # t /\ u # m
            BY <1>1, <1>3, <1>5, <3>3 DEF OrderInv, TasksInOrder, TaskInOrder
        <3>. QED
            BY <3>1, <3>2, <3>3
    <2>. QED
        BY <1>3, <2>1 DEF TasksInOrder
<1>11. ChargingIsServed'
    <2>1. ASSUME NEW o \in Evs, evs'[o].status = "charging" PROVE FALSE
        <3>1. CASE e = None
            <4>1. evs[o].status = "charging" /\ evs[o].connector = a
                BY <1>1, <2>1, <3>1 DEF BeginStop, CancelMeter, OrderInv, ChargingIsServed
            <4>2. a \in Connectors
                BY <1>1 DEF TypeOK, Charger
            <4>. QED
                BY <1>1, <3>1, <4>1, <4>2, NoneAssumption DEF PlugAgreement
        <3>2. CASE e # None
            <4>1. e \in Evs /\ evs[e] \in Ev /\ a \in Connectors
                BY <1>1, <3>2 DEF TypeOK, Charger
            <4>2. evs' = [evs EXCEPT ![e] = Stopped(evs[e])]
                BY <3>2 DEF BeginStop, CancelMeter
            <4>3. CASE o = e
                BY <1>1, <2>1, <4>1, <4>2, <4>3 DEF Stopped, Ev, TypeOK
            <4>4. CASE o # e
                <5>1. evs[o].status = "charging"
                    BY <1>1, <2>1, <4>2, <4>4 DEF TypeOK
                <5>2. evs[o].connector = a
                    BY <1>1, <5>1 DEF OrderInv, ChargingIsServed
                <5>. QED
                    BY <1>1, <4>1, <4>4, <5>2 DEF PlugAgreement
            <4>. QED
                BY <4>3, <4>4
        <3>. QED
            BY <3>1, <3>2
    <2>. QED
        BY <2>1 DEF ChargingIsServed
<1>12. MessagesInOrder'
    <2>1. uplink # <<>> => charger'.transactionId # NoTransaction /\ ~charger'.isCharging
        BY <1>3
    <2>2. reply' \in {"arrived", "lost"} => reply \in {"arrived", "lost"}
        BY <1>4
    <2>3. \A i \in DOMAIN uplink : uplink[i].call = "started" => reply' = "awaited"
        <3>1. SUFFICES ASSUME NEW i \in DOMAIN uplink, uplink[i].call = "started"
                       PROVE  caller # m /\ reply = "awaited"
            BY <1>4
        <3>2. reply = "awaited" /\ i = Len(uplink)
            BY <1>1, <3>1 DEF OrderInv, MessagesInOrder
        <3>3. caller # None /\ caller \in Tasks /\ tasks[caller].pc = "started"
            BY <3>1, <3>2 DEF LedgerInv, LockInv, LockDiscipline, TypeOK
        <3>4. tasks[caller].kind = "start"
            BY <1>1, <3>3, TaskAtPoint DEF StartTask
        <3>. QED
            BY <3>3, <3>4 DEF Starting
    <2>. QED
        BY <1>1, <1>3, <2>1, <2>2, <2>3 DEF OrderInv, MessagesInOrder
<1>13. RecordsInOrder' /\ OwnEventsOnly'
    BY <1>1, <1>3 DEF OrderInv, RecordsInOrder, OwnEventsOnly, Active
<1>14. ReportsInOrder'
    <2>1. HasActive' = HasActive
        BY DEF HasActive, Active
    <2>2. ASSUME NEW u \in Tasks, Settled(u)' PROVE Settled(u)
        <3>1. u # t
            BY <1>2, <1>4, <1>5, <1>7, <2>2, NoneAssumption DEF Settled, Returned
        <3>2. u # m
            BY <1>4, <1>5, <2>2, <3>1, FreeFields DEF Settled, Returned
        <3>. QED
            BY <1>4, <1>5, <2>2, <3>1, <3>2 DEF Settled, Returned
    <2>3. \A u \in Tasks : ~Unreported(u)'
        BY <1>5, <1>7, FreeFields DEF Unreported, Starting
    <2>. QED
        BY <1>1, <1>3, <2>1, <2>2, <2>3 DEF OrderInv, ReportsInOrder
<1>. QED
    BY <1>8, <1>9, <1>10, <1>11, <1>12, <1>13, <1>14 DEF OrderInv

\* With no transaction, no EV charges; with no coroutine either, nothing is on
\* its way to the CSMS.
LEMMA NothingOpen ==
    ASSUME LedgerInv, charger.transactionId = NoTransaction
    PROVE  /\ ~charger.isCharging /\ ~HasActive
           /\ \A e \in Evs : evs[e].status # "charging"
           /\ (\A t \in Tasks : tasks[t].kind = "none") =>
                  /\ caller = None /\ reply = "none" /\ uplink = <<>>
                  /\ charger.meterTask = None
<1>1. OrderInv /\ TypeOK /\ LockDiscipline
    BY DEF LedgerInv, LockInv
<1>2. ~charger.isCharging /\ ~HasActive
    BY <1>1 DEF OrderInv, TransactionIds, ReportsInOrder
<1>3. \A e \in Evs : evs[e].status # "charging"
    BY <1>1, <1>2 DEF OrderInv, ChargingIsServed
<1>4. ASSUME \A t \in Tasks : tasks[t].kind = "none"
      PROVE  /\ caller = None /\ reply = "none" /\ uplink = <<>>
             /\ charger.meterTask = None
    <2>1. caller = None
        BY <1>1, <1>4, CallerIsBusy DEF FreeTasks
    <2>2. reply = "none"
        BY <1>1, <2>1 DEF LockDiscipline
    <2>3. uplink = <<>>
        BY <1>1, <2>2 DEF OrderInv, MessagesInOrder
    <2>4. charger.meterTask = None
        BY <1>1, <1>4 DEF OrderInv, TasksInOrder, TypeOK, Charger
    <2>. QED
        BY <2>1, <2>2, <2>3, <2>4
<1>. QED
    BY <1>2, <1>3, <1>4

\* _start_transaction begins: nothing is under way and no record is active.
LEMMA BeginStartOrder ==
    ASSUME LedgerInv, NEW t \in FreeTasks, NEW c \in Connectors, BeginStart(t, c),
           pluggedEvs[c] # None,
           StartRequested, downlink' = <<>>, BetweenCompletions',
           UNCHANGED <<caller, reply, connected, uplink, sessions>>
    PROVE  OrderInv'
<1> DEFINE e == pluggedEvs[c]
           tx == issued + 1
           start == [kind |-> "start", pc |-> "saving", connector |-> c,
                     ev |-> e, tx |-> NoTransaction]
<1>1. OrderInv /\ TypeOK /\ PlugAgreement
    BY DEF LedgerInv, LockInv, PlugInv
<1>2. /\ \A u \in Tasks : tasks[u].kind = "none"
      /\ charger.transactionId = NoTransaction
      /\ issued < MaxTransactions /\ issued \in Nat
    BY <1>1 DEF OrderInv, StartWaitsAlone, TypeOK
<1>3. \A u \in Tasks : tasks[u] = Free
    BY <1>1, <1>2, TaskAtPoint
<1>4. /\ charger'.isCharging = TRUE /\ charger'.transactionId = tx
      /\ charger'.activeConnector = c /\ charger'.meterTask = charger.meterTask
      /\ issued' = tx
    BY <1>1 DEF BeginStart, Chargeable, NewTransaction, TypeOK, Charger
<1>5. /\ \/ tasks'[t] = start
         \/ tasks'[t] = Free
      /\ \A u \in Tasks \ {t} : tasks'[u] = Free
    <2>1. tasks' = tasks \/ tasks' = [tasks EXCEPT ![t] = start]
        BY DEF BeginStart, Chargeable
    <2>. QED
        BY <1>1, <1>3, <2>1, FreeSlot DEF TypeOK
<1>6. \A u \in Tasks : tasks'[u].pc \in {"saving", "free"} /\ ~Stopping(tasks'[u])
    BY <1>5, FreeFields DEF Stopping
<1>7. \A u \in Tasks \ {t} : tasks'[u].kind = "none"
    BY <1>5, FreeFields
<1>8. tasks'[t].kind \in {"none", "start"}
    BY <1>5, FreeFields
<1>9. /\ caller' = None /\ reply' = "none" /\ uplink' = <<>>
      /\ charger.meterTask = None /\ ~HasActive
    BY <1>2, NothingOpen
<1>10. t \in Tasks
    BY FreeSlot
<1>11. TransactionIds'
    BY <1>2, <1>4, MaxTransactionsAssumption DEF TransactionIds, NoTransaction
<1>12. StartWaitsAlone'
    BY DEF StartWaitsAlone, StartRequested
<1>13. StartRunsAlone'
    BY <1>4, <1>7, <1>10 DEF StartRunsAlone
<1>14. TasksInOrder'
    <2>1. ASSUME NEW u \in Tasks PROVE TaskInOrder(u, tasks[u])'
        <3>1. tasks'[u].kind \in {"none", "start"}
            BY <1>7, <1>8
        <3>. QED
            BY <1>6, <3>1 DEF TaskInOrder, Accounting
    <2>. QED
        BY <1>4, <1>9, <2>1 DEF TasksInOrder
<1>15. ChargingIsServed'
    <2>1. e \in Evs /\ evs[e] \in Ev /\ evs[e].connector = c
        BY <1>1 DEF TypeOK, PlugAgreement
    <2>2. \A o \in Evs : evs[o].status # "charging"
        BY <1>2, NothingOpen
    <2>3. evs' = evs \/ evs' = [evs EXCEPT ![e] = StartedFor(evs[e], tx)]
        BY DEF BeginStart, Chargeable, NewTransaction
    <2>4. ASSUME NEW o \in Evs, evs'[o].status = "charging"
          PROVE  evs'[o].session = tx /\ evs'[o].connector = c
        <3>1. evs' = [evs EXCEPT ![e] = StartedFor(evs[e], tx)]
            BY <2>2, <2>3, <2>4
        <3>2. o = e
            BY <1>1, <2>2, <2>4, <3>1 DEF TypeOK
        <3>3. evs'[o] = StartedFor(evs[e], tx)
            BY <1>1, <2>1, <3>1, <3>2 DEF TypeOK
        <3>4. tx \in Nat
            BY <1>2
        <3> HIDE DEF tx, e
        <3>. QED
            BY <2>1, <3>3, <3>4, StartedForFields
    <2>. QED
        BY <1>4, <2>4 DEF ChargingIsServed
<1>16. MessagesInOrder'
    BY <1>9 DEF MessagesInOrder
<1>17. RecordsInOrder' /\ OwnEventsOnly' /\ ~Reported' /\ ~HasActive'
    <2>1. \A i \in DOMAIN sessions : ~Active(i) /\ sessions[i].id \in 1 .. issued
        BY <1>1, <1>9 DEF OrderInv, RecordsInOrder, HasActive
    <2>2. \A x \in 1 .. issued : x \in 1 .. tx /\ x # tx
        BY <1>2
    <2>. QED
        BY <1>1, <1>4, <2>1, <2>2
        DEF OrderInv, RecordsInOrder, OwnEventsOnly, Reported, HasActive, Active
<1>18. ReportsInOrder'
    BY <1>17 DEF ReportsInOrder
<1>. QED
    BY <1>11, <1>12, <1>13, <1>14, <1>15, <1>16, <1>17, <1>18 DEF OrderInv

-----------------------------------------------------------------------------
(* Steps of a coroutine                                                     *)

\* What a call sends is the last message, of the transaction it captured.
LEMMA SendCallOrder ==
    ASSUME LedgerInv, NEW t \in Tasks, SendCall(t)
    PROVE  OrderInv'
<1> DEFINE m == [call |-> tasks[t].pc, connector |-> tasks[t].connector, tx |-> tasks[t].tx]
<1>1. OrderInv /\ TypeOK /\ LockDiscipline
    BY DEF LedgerInv, LockInv
<1>2. /\ caller = None /\ connected /\ reply' = "awaited"
      /\ UNCHANGED <<charger, issued, tasks, downlink, connected, sessions, evs, simulator>>
      /\ uplink' = Append(uplink, m)
    BY DEF SendCall
<1>3. reply = "none"
    BY <1>1, <1>2 DEF LockDiscipline
<1>4. m.call \in Accounting => m.tx = issued
    BY <1>1 DEF OrderInv, TasksInOrder, TaskInOrder
<1> HIDE DEF m
<1>5. /\ Len(uplink') = Len(uplink) + 1 /\ Len(uplink) \in Nat
      /\ uplink'[Len(uplink')] = m
      /\ DOMAIN uplink' = 1 .. Len(uplink')
      /\ \A i \in 1 .. Len(uplink) : uplink'[i] = uplink[i]
      /\ DOMAIN uplink = 1 .. Len(uplink)
    BY <1>1, <1>2 DEF TypeOK
<1>6. ASSUME NEW i \in DOMAIN uplink'
      PROVE  i = Len(uplink') \/ i \in DOMAIN uplink
    BY <1>5
<1>7. TransactionIds' /\ ChargingIsServed'
    BY <1>1, <1>2 DEF OrderInv, TransactionIds, ChargingIsServed
<1>8. StartWaitsAlone' /\ StartRunsAlone'
    BY <1>1, <1>2
    DEF OrderInv, StartWaitsAlone, StartRequested, StartRunsAlone, BetweenCompletions
<1>9. TasksInOrder'
    BY <1>1, <1>2 DEF OrderInv, TasksInOrder, TaskInOrder, Stopping
<1>10. MessagesInOrder'
    <2>1. ASSUME NEW i \in DOMAIN uplink', uplink'[i].call \in Accounting
          PROVE  uplink'[i].tx = issued
        BY <1>1, <1>4, <1>5, <1>6, <2>1 DEF OrderInv, MessagesInOrder
    <2>2. ASSUME NEW i \in DOMAIN uplink', uplink'[i].call = "started"
          PROVE  i = Len(uplink')
        BY <1>1, <1>3, <1>5, <1>6, <2>2 DEF OrderInv, MessagesInOrder
    <2>. QED
        BY <1>2, <2>1, <2>2 DEF MessagesInOrder
<1>11. RecordsInOrder' /\ OwnEventsOnly'
    BY <1>1, <1>2 DEF OrderInv, RecordsInOrder, OwnEventsOnly, Active
<1>12. ReportsInOrder'
    <2>1. HasActive' = HasActive /\ Reported' = Reported
        BY <1>2 DEF HasActive, Active, Reported
    <2>2. ASSUME NEW u \in Tasks
          PROVE  /\ Settled(u)' => Settled(u)
                 /\ Unreported(u)' => Unreported(u)
        BY <1>2, <1>3 DEF Settled, Returned, Unreported
    <2>. QED
        BY <1>1, <1>2, <2>1, <2>2 DEF OrderInv, ReportsInOrder
<1>. QED
    BY <1>7, <1>8, <1>9, <1>10, <1>11, <1>12 DEF OrderInv

\* A coroutine leaves a call only once its message has been handled or dropped.
LEMMA CallerLeaves ==
    ASSUME LedgerInv, NEW t \in Tasks, NEW task, Proceed(t, task),
           caller = t => reply \in {"arrived", "lost"},
           ChargerKept, UNCHANGED <<uplink, connected>>
    PROVE  MessagesInOrder'
<1>1. MessagesInOrder
    BY DEF LedgerInv, OrderInv
<1>2. CASE caller = t
    <2>1. uplink = <<>> /\ reply' = "none"
        BY <1>1, <1>2 DEF MessagesInOrder, Proceed, Release
    <2>. QED
        BY <2>1 DEF MessagesInOrder
<1>3. CASE caller # t
    BY <1>1, <1>3 DEF MessagesInOrder, Proceed, Release, ChargerKept
<1>. QED
    BY <1>2, <1>3

\* A coroutine goes on, within its kind, with what it may know and do next.
LEMMA GoesOnOrder ==
    ASSUME LedgerInv, NEW t \in Tasks, NEW task, Proceed(t, task),
           caller = t => reply \in {"arrived", "lost"},
           ChargerKept, MeterKept,
           UNCHANGED <<uplink, connected, downlink, sessions, evs, simulator>>,
           task.kind = tasks[t].kind,
           TaskInOrder(t, task),
           task.pc = "stop_status" => ~HasActive,
           task.kind = "start" => tasks[t].pc # "started"
    PROVE  OrderInv'
<1>1. OrderInv /\ TypeOK
    BY DEF LedgerInv, LockInv
<1>2. /\ tasks'[t] = task
      /\ \A u \in Tasks \ {t} : tasks'[u] = tasks[u]
      /\ caller' = IF caller = t THEN None ELSE caller
      /\ reply' = IF caller = t THEN "none" ELSE reply
    BY <1>1 DEF Proceed, Release, TypeOK
<1>3. \A u \in Tasks : tasks'[u].kind = tasks[u].kind
    BY <1>2
<1>4. TransactionIds' /\ ChargingIsServed'
    BY <1>1 DEF OrderInv, TransactionIds, ChargingIsServed, ChargerKept
<1>5. StartWaitsAlone' /\ StartRunsAlone'
    BY <1>1, <1>3
    DEF OrderInv, StartWaitsAlone, StartRequested, StartRunsAlone, BetweenCompletions,
        ChargerKept
<1>6. TasksInOrder'
    <2>1. ASSUME NEW u \in Tasks PROVE TaskInOrder(u, tasks[u])'
        <3>1. CASE u = t
            BY <1>2, <3>1 DEF TaskInOrder, Stopping, ChargerKept, MeterKept
        <3>2. CASE u # t
            BY <1>1, <1>2, <3>2
            DEF OrderInv, TasksInOrder, TaskInOrder, Stopping, ChargerKept, MeterKept
        <3>. QED
            BY <3>1, <3>2
    <2>2. charger'.meterTask # None => tasks'[charger'.meterTask].kind = "meter"
        BY <1>1, <1>3 DEF OrderInv, TasksInOrder, MeterKept, TypeOK, Charger
    <2>. QED
        BY <2>1, <2>2 DEF TasksInOrder
<1>7. MessagesInOrder'
    BY CallerLeaves
<1>8. RecordsInOrder' /\ OwnEventsOnly'
    BY <1>1 DEF OrderInv, RecordsInOrder, OwnEventsOnly, Active, ChargerKept
<1>9. ReportsInOrder'
    <2>1. HasActive' = HasActive /\ Reported' = Reported
        BY DEF HasActive, Active, Reported, ChargerKept
    <2>2. ASSUME NEW u \in Tasks, Settled(u)' PROVE ~HasActive
        <3>1. CASE u = t
            <4>1. caller' # t
                BY <1>2, NoneAssumption
            <4>. QED
                BY <1>2, <2>2, <3>1, <4>1 DEF Settled, Returned
        <3>2. CASE u # t
            <4>1. Settled(u)
                BY <1>2, <2>2, <3>2, NoneAssumption DEF Settled, Returned
            <4>. QED
                BY <1>1, <4>1 DEF OrderInv, ReportsInOrder
        <3>. QED
            BY <3>1, <3>2
    <2>3. ASSUME NEW u \in Tasks, Unreported(u)' PROVE Unreported(u)
        BY <1>2, <1>3, <2>3, NoneAssumption DEF Unreported
    <2>. QED
        BY <1>1, <2>1, <2>2, <2>3 DEF OrderInv, ReportsInOrder, ChargerKept
<1>. QED
    BY <1>4, <1>5, <1>6, <1>7, <1>8, <1>9 DEF OrderInv

\* A coroutine ends; if it was the metering, the charger has none any more.
LEMMA EndsOrder ==
    ASSUME LedgerInv, NEW t \in Tasks, Proceed(t, Free),
           caller = t => reply \in {"arrived", "lost"},
           ChargerKept,
           charger'.meterTask = IF charger.meterTask = t THEN None ELSE charger.meterTask,
           UNCHANGED <<uplink, connected, downlink, sessions, evs, simulator>>
    PROVE  OrderInv'
<1>1. OrderInv /\ TypeOK
    BY DEF LedgerInv, LockInv
<1>2. /\ tasks'[t] = Free
      /\ \A u \in Tasks \ {t} : tasks'[u] = tasks[u]
      /\ caller' = IF caller = t THEN None ELSE caller
      /\ reply' = IF caller = t THEN "none" ELSE reply
    BY <1>1 DEF Proceed, Release, TypeOK
<1>3. \A u \in Tasks : tasks'[u].kind \in {"none", tasks[u].kind}
    BY <1>2, FreeFields
<1>4. TransactionIds' /\ ChargingIsServed'
    BY <1>1 DEF OrderInv, TransactionIds, ChargingIsServed, ChargerKept
<1>5. StartWaitsAlone'
    BY <1>1, <1>3
    DEF OrderInv, StartWaitsAlone, StartRequested, BetweenCompletions, ChargerKept
<1>6. StartRunsAlone'
    BY <1>1, <1>3 DEF OrderInv, StartRunsAlone, BetweenCompletions, ChargerKept
<1>7. TasksInOrder'
    <2>1. ASSUME NEW u \in Tasks PROVE TaskInOrder(u, tasks[u])'
        <3>1. CASE u = t
            BY <1>2, <3>1, FreeFields DEF TaskInOrder, Accounting
        <3>2. CASE u # t
            BY <1>1, <1>2, <3>2
            DEF OrderInv, TasksInOrder, TaskInOrder, Stopping, ChargerKept
        <3>. QED
            BY <3>1, <3>2
    <2>2. charger'.meterTask # None => tasks'[charger'.meterTask].kind = "meter"
        BY <1>1, <1>2 DEF OrderInv, TasksInOrder, TypeOK, Charger
    <2>. QED
        BY <2>1, <2>2 DEF TasksInOrder
<1>8. MessagesInOrder'
    BY CallerLeaves
<1>9. RecordsInOrder' /\ OwnEventsOnly'
    BY <1>1 DEF OrderInv, RecordsInOrder, OwnEventsOnly, Active, ChargerKept
<1>10. ReportsInOrder'
    <2>1. HasActive' = HasActive /\ Reported' = Reported
        BY DEF HasActive, Active, Reported, ChargerKept
    <2>2. ASSUME NEW u \in Tasks
          PROVE  /\ Settled(u)' => Settled(u)
                 /\ Unreported(u)' => Unreported(u)
        BY <1>2, FreeFields, NoneAssumption DEF Settled, Returned, Unreported
    <2>. QED
        BY <1>1, <2>1, <2>2 DEF OrderInv, ReportsInOrder, ChargerKept
<1>. QED
    BY <1>4, <1>5, <1>6, <1>7, <1>8, <1>9, <1>10 DEF OrderInv

\* The start task becomes the meter task, alone as it was.
LEMMA StartedReturnsOrder ==
    ASSUME LedgerInv, NEW t \in Tasks, StartedReturns(t)
    PROVE  OrderInv'
<1> DEFINE meter == Coroutine("meter", "sleeping", 0)
<1>1. OrderInv /\ TypeOK
    BY DEF LedgerInv, LockInv
<1>2. /\ caller = t /\ reply = "arrived" /\ tasks[t].pc = "started"
      /\ UNCHANGED <<issued, connected, uplink, downlink, sessions, evs, simulator>>
    BY DEF StartedReturns, Returned
<1>3. tasks[t].kind = "start"
    BY <1>1, <1>2, TaskAtPoint DEF StartTask
<1>4. /\ \A u \in Tasks \ {t} : tasks[u].kind = "none"
      /\ charger.isCharging
    BY <1>1, <1>3 DEF OrderInv, StartRunsAlone
<1>5. ChargerKept /\ charger'.meterTask = t
    BY <1>1, <1>2, <1>4 DEF ChargerKept, StartedReturns, TypeOK, Charger
<1>6. Proceed(t, meter)
    BY <1>4 DEF StartedReturns, MeterLoop
<1>7. /\ tasks'[t] = meter
      /\ \A u \in Tasks \ {t} : tasks'[u] = Free
      /\ caller' = None /\ reply' = "none"
    BY <1>1, <1>2, <1>4, <1>6, TaskAtPoint DEF Proceed, Release, TypeOK
<1>8. meter.kind = "meter" /\ meter.pc = "sleeping"
    BY CoroutineFields
<1> HIDE DEF meter
<1>9. ~StartRequested /\ ~StartRequested'
    BY <1>1, <1>2, <1>3 DEF OrderInv, StartWaitsAlone, StartRequested
<1>10. \A u \in Tasks : tasks'[u].kind \in {"none", "meter"}
    BY <1>7, <1>8, FreeFields
<1>11. TransactionIds' /\ ChargingIsServed'
    BY <1>1, <1>2, <1>5 DEF OrderInv, TransactionIds, ChargingIsServed, ChargerKept
<1>12. StartWaitsAlone' /\ StartRunsAlone'
    BY <1>9, <1>10 DEF StartWaitsAlone, StartRunsAlone
<1>13. TasksInOrder'
    <2>1. ASSUME NEW u \in Tasks PROVE TaskInOrder(u, tasks[u])'
        <3>1. CASE u = t
            BY <1>4, <1>5, <1>7, <1>8, <3>1
            DEF TaskInOrder, Stopping, Accounting, ChargerKept
        <3>2. CASE u # t
            BY <1>7, <3>2, FreeFields DEF TaskInOrder, Accounting
        <3>. QED
            BY <3>1, <3>2
    <2>. QED
        BY <1>5, <1>7, <1>8, <2>1 DEF TasksInOrder
<1>14. MessagesInOrder'
    BY <1>2, <1>5, <1>6, CallerLeaves
<1>15. RecordsInOrder' /\ OwnEventsOnly'
    BY <1>1, <1>2 DEF OrderInv, RecordsInOrder, OwnEventsOnly, Active
<1>16. ReportsInOrder'
    <2>1. HasActive' = HasActive
        BY <1>2 DEF HasActive, Active
    <2>2. \A u \in Tasks : ~Settled(u)' /\ ~Unreported(u)'
        BY <1>7, <1>8, <1>10, FreeFields DEF Settled, Returned, Unreported
    <2>. QED
        BY <1>1, <1>5, <2>1, <2>2 DEF OrderInv, ReportsInOrder, ChargerKept
<1>. QED
    BY <1>11, <1>12, <1>13, <1>14, <1>15, <1>16 DEF OrderInv

\* A stop forgets the transaction, whose record is completed by then.
LEMMA StopStatusReturnsOrder ==
    ASSUME LedgerInv, NEW t \in Tasks, StopStatusReturns(t)
    PROVE  OrderInv'
<1> DEFINE rest == CASE tasks[t].kind = "reset" -> Coroutine("reset", "boot", 0)
                     [] tasks[t].kind = "power_loss" -> Coroutine("power_loss", "notify", 1)
                     [] OTHER -> Free
<1>1. OrderInv /\ TypeOK
    BY DEF LedgerInv, LockInv
<1>2. /\ caller = t /\ reply = "arrived" /\ tasks[t].pc = "stop_status"
      /\ UNCHANGED <<issued, connected, uplink, downlink, sessions, evs, simulator>>
      /\ Proceed(t, rest)
    BY DEF StopStatusReturns, Returned
<1>3. tasks[t].kind \notin {"none", "start", "meter"}
    BY <1>1, <1>2, TaskAtPoint DEF OtherTask, OrderInv, TasksInOrder, TaskInOrder
<1>4. Stopping(tasks[t])
    BY <1>2, <1>3 DEF Stopping
<1>5. ~charger.isCharging /\ ~HasActive
    BY <1>1, <1>2, <1>4 DEF OrderInv, TasksInOrder, TaskInOrder, ReportsInOrder, Settled
<1>6. /\ charger'.transactionId = NoTransaction
      /\ charger'.isCharging = FALSE
      /\ charger'.activeConnector = charger.activeConnector
      /\ charger'.meterTask = charger.meterTask
    BY <1>1, <1>5 DEF StopStatusReturns, TypeOK, Charger
<1>7. /\ tasks'[t] = rest
      /\ \A u \in Tasks \ {t} : tasks'[u] = tasks[u]
      /\ caller' = None /\ reply' = "none"
    BY <1>1, <1>2 DEF Proceed, Release, TypeOK
<1>8. /\ rest.kind \in {"reset", "power_loss", "none"}
      /\ rest.pc \in {"boot", "notify", "free"}
    BY CoroutineFields, FreeFields
<1> HIDE DEF rest
<1>9. ~StartRequested /\ ~StartRequested'
    BY <1>1, <1>2, <1>3 DEF OrderInv, StartWaitsAlone, StartRequested
<1>10. ~Starting /\ ~Starting'
    <2>1. ~Starting
        BY <1>1, <1>3 DEF OrderInv, StartRunsAlone, Starting
    <2>. QED
        BY <1>7, <1>8, <2>1 DEF Starting
<1>11. TransactionIds'
    BY <1>1, <1>2, <1>6 DEF OrderInv, TransactionIds
<1>12. StartWaitsAlone' /\ StartRunsAlone'
    BY <1>9, <1>10 DEF StartWaitsAlone, StartRunsAlone, Starting
<1>13. TasksInOrder'
    <2>1. ASSUME NEW u \in Tasks PROVE TaskInOrder(u, tasks[u])'
        <3>1. CASE u = t
            BY <1>7, <1>8, <3>1 DEF TaskInOrder, Stopping, Accounting
        <3>2. CASE u # t
            BY <1>1, <1>2, <1>5, <1>6, <1>7, <3>2
            DEF OrderInv, TasksInOrder, TaskInOrder, Stopping
        <3>. QED
            BY <3>1, <3>2
    <2>2. charger'.meterTask # None => tasks'[charger'.meterTask].kind = "meter"
        BY <1>1, <1>3, <1>6, <1>7 DEF OrderInv, TasksInOrder, TypeOK, Charger
    <2>. QED
        BY <2>1, <2>2 DEF TasksInOrder
<1>14. ChargingIsServed'
    BY <1>1, <1>2, <1>5 DEF OrderInv, ChargingIsServed
<1>15. MessagesInOrder'
    BY <1>1, <1>2, <1>7 DEF OrderInv, MessagesInOrder
<1>16. RecordsInOrder' /\ OwnEventsOnly'
    BY <1>1, <1>2 DEF OrderInv, RecordsInOrder, OwnEventsOnly, Active
<1>17. ReportsInOrder'
    <2>1. ~HasActive'
        BY <1>2, <1>5 DEF HasActive, Active
    <2>2. \A u \in Tasks : ~Unreported(u)'
        BY <1>10 DEF Unreported, Starting
    <2>. QED
        BY <2>1, <2>2 DEF ReportsInOrder
<1>. QED
    BY <1>11, <1>12, <1>13, <1>14, <1>15, <1>16, <1>17 DEF OrderInv

\* The connection goes: so do the metering and all that was on its way.
LEMMA DisconnectOrder ==
    ASSUME LedgerInv, Disconnect
    PROVE  OrderInv'
<1> DEFINE m == charger.meterTask
<1>1. OrderInv /\ TypeOK /\ LockDiscipline
    BY DEF LedgerInv, LockInv
<1>2. /\ uplink' = <<>> /\ downlink' = <<>> /\ connected' = FALSE
      /\ UNCHANGED <<issued, sessions, evs>>
      /\ ChargerKept /\ charger'.meterTask = None
    BY <1>1 DEF Disconnect, ChargerKept, TypeOK, Charger
<1>3. m = None => m \notin Tasks
    BY NoneAssumption
<1>4. \A u \in Tasks : tasks'[u] = IF u = m THEN Free ELSE tasks[u]
    BY <1>1, <1>3 DEF Disconnect, TypeOK
<1>5. \A u \in Tasks : tasks'[u].kind \in {"none", tasks[u].kind}
    BY <1>4, FreeFields
<1>6. BetweenCompletions => BetweenCompletions'
    BY DEF BetweenCompletions, Disconnect
<1>7. TransactionIds' /\ ChargingIsServed'
    BY <1>1, <1>2 DEF OrderInv, TransactionIds, ChargingIsServed, ChargerKept
<1>8. StartWaitsAlone' /\ StartRunsAlone'
    BY <1>1, <1>2, <1>5, <1>6
    DEF OrderInv, StartWaitsAlone, StartRequested, StartRunsAlone, ChargerKept
<1>9. TasksInOrder'
    <2>1. ASSUME NEW u \in Tasks PROVE TaskInOrder(u, tasks[u])'
        <3>1. CASE u = m
            BY <1>4, <3>1, FreeFields DEF TaskInOrder, Accounting
        <3>2. CASE u # m
            BY <1>1, <1>2, <1>4, <3>2
            DEF OrderInv, TasksInOrder, TaskInOrder, Stopping, ChargerKept
        <3>. QED
            BY <3>1, <3>2
    <2>. QED
        BY <1>2, <2>1 DEF TasksInOrder
<1>10. MessagesInOrder'
    BY <1>2 DEF MessagesInOrder
<1>11. RecordsInOrder' /\ OwnEventsOnly'
    BY <1>1, <1>2 DEF OrderInv, RecordsInOrder, OwnEventsOnly, Active
<1>12. ReportsInOrder'
    <2>1. HasActive' = HasActive /\ Reported' = Reported
        BY <1>2 DEF HasActive, Active, Reported
    <2>2. /\ caller' = IF caller = m THEN None ELSE caller
          /\ reply' = "arrived" => reply = "arrived"
          /\ caller # m /\ reply \in {"arrived", "lost"} => reply' \in {"arrived", "lost"}
        BY DEF Disconnect
    <2>3. ASSUME NEW u \in Tasks
          PROVE  /\ Settled(u)' => Settled(u)
                 /\ Unreported(u)' => Unreported(u)
        <3>1. CASE u = m
            BY <1>4, <3>1, FreeFields DEF Settled, Returned, Unreported
        <3>2. CASE u # m
            BY <1>4, <2>2, <3>2, NoneAssumption DEF Settled, Returned, Unreported
        <3>. QED
            BY <3>1, <3>2
    <2>. QED
        BY <1>1, <1>2, <2>1, <2>3 DEF OrderInv, ReportsInOrder, ChargerKept
<1>. QED
    BY <1>7, <1>8, <1>9, <1>10, <1>11, <1>12 DEF OrderInv

-----------------------------------------------------------------------------
(* The CSMS's handlers                                                      *)

\* What every handler keeps; the reply is to the last message, if it is taken.
LEMMA HandleOrder ==
    ASSUME LedgerInv, NEW calls, Handle(calls)
    PROVE  /\ TransactionIds' /\ StartWaitsAlone' /\ StartRunsAlone' /\ TasksInOrder'
           /\ ChargingIsServed' /\ MessagesInOrder'
           /\ uplink # <<>> /\ 1 \in DOMAIN uplink /\ Head(uplink) = uplink[1]
           /\ reply \notin {"arrived", "lost"}
           /\ reply' # reply => /\ reply = "awaited" /\ Len(uplink) = 1
                                /\ reply' \in {"arrived", "lost"}
                                /\ caller \in Tasks
                                /\ tasks[caller].pc = Head(uplink).call
<1>1. OrderInv /\ TypeOK /\ LockDiscipline
    BY DEF LedgerInv, LockInv
<1>2. /\ uplink # <<>> /\ uplink' = Tail(uplink) /\ uplink \in Seq(Message)
      /\ UNCHANGED <<charger, issued, tasks, caller, connected, downlink, evs, simulator>>
      /\ reply' = IF Len(uplink) = 1 /\ reply = "awaited"
                  THEN IF handler = None THEN "arrived" ELSE "lost"
                  ELSE reply
    BY <1>1 DEF Handle, TypeOK
<1>3. /\ 1 \in DOMAIN uplink /\ Head(uplink) = uplink[1]
      /\ Len(uplink) \in Nat \ {0}
      /\ uplink' \in Seq(Message) /\ Len(uplink') = Len(uplink) - 1
      /\ DOMAIN uplink = 1 .. Len(uplink)
      /\ DOMAIN uplink' = 1 .. Len(uplink')
      /\ \A i \in 1 .. Len(uplink') : uplink'[i] = uplink[i + 1]
    BY <1>2, TailType
<1>4. Len(uplink) = 1 => uplink' = <<>>
    BY <1>3, EmptySeq
<1>5. reply \notin {"arrived", "lost"}
    BY <1>1, <1>2 DEF OrderInv, MessagesInOrder
<1>6. reply' # reply => /\ reply = "awaited" /\ Len(uplink) = 1
                        /\ reply' \in {"arrived", "lost"}
                        /\ caller \in Tasks
                        /\ tasks[caller].pc = Head(uplink).call
    <2>1. SUFFICES ASSUME reply' # reply
                   PROVE  /\ reply = "awaited" /\ Len(uplink) = 1
                          /\ reply' \in {"arrived", "lost"}
                          /\ caller \in Tasks
                          /\ tasks[caller].pc = Head(uplink).call
        OBVIOUS
    <2>2. reply = "awaited" /\ Len(uplink) = 1 /\ reply' \in {"arrived", "lost"}
        BY <1>2, <2>1
    <2>3. caller \in Tasks /\ uplink[Len(uplink)].call = tasks[caller].pc
        BY <1>1, <2>2 DEF LockDiscipline, TypeOK
    <2>. QED
        BY <1>3, <2>2, <2>3
<1>7. TransactionIds' /\ ChargingIsServed'
    BY <1>1, <1>2 DEF OrderInv, TransactionIds, ChargingIsServed
<1>8. StartWaitsAlone' /\ StartRunsAlone'
    BY <1>1, <1>2
    DEF OrderInv, StartWaitsAlone, StartRequested, StartRunsAlone, BetweenCompletions
<1>9. TasksInOrder'
    BY <1>1, <1>2 DEF OrderInv, TasksInOrder, TaskInOrder, Stopping
<1>10. MessagesInOrder'
    <2>1. uplink' # <<>> => reply' = reply
        BY <1>4, <1>6
    <2>2. reply' \in {"arrived", "lost"} => uplink' = <<>>
        BY <1>4, <1>5, <1>6
    <2>3. ~connected' => uplink' = <<>>
        BY <1>1, <1>2 DEF OrderInv, MessagesInOrder
    <2>4. ASSUME NEW i \in DOMAIN uplink'
          PROVE  /\ i + 1 \in DOMAIN uplink /\ uplink'[i] = uplink[i + 1]
                 /\ i + 1 = Len(uplink) => i = Len(uplink')
                 /\ uplink' # <<>>
        BY <1>3, EmptySeq
    <2>5. ASSUME NEW i \in DOMAIN uplink'
          PROVE  /\ uplink'[i].call \in Accounting => uplink'[i].tx = issued
                 /\ uplink'[i].call = "started" => i = Len(uplink') /\ reply' = "awaited"
        BY <1>1, <2>1, <2>4 DEF OrderInv, MessagesInOrder
    <2>. QED
        BY <1>1, <1>2, <2>1, <2>2, <2>3, <2>5 DEF OrderInv, MessagesInOrder
<1>. QED
    BY <1>2, <1>3, <1>5, <1>6, <1>7, <1>8, <1>9, <1>10

\* A handler other than that of Ended settles nothing.
LEMMA NothingSettled ==
    ASSUME LedgerInv, NEW calls, Handle(calls), "ended" \notin calls, NEW t \in Tasks
    PROVE  Settled(t)' => Settled(t)
<1>1. UNCHANGED <<tasks, caller>> /\ Head(uplink).call \in calls
    BY DEF Handle
<1>2. caller = t /\ tasks[t].pc = "ended" => reply' = reply
    BY <1>1, HandleOrder
<1>. QED
    BY <1>1, <1>2 DEF Settled, Returned

\* What is not reported after a message was handled was not before.
LEMMA StillUnreported ==
    ASSUME LedgerInv, NEW calls, Handle(calls), NEW t \in Tasks
    PROVE  Unreported(t)' => Unreported(t)
<1>1. UNCHANGED <<tasks, caller>> /\ reply \notin {"arrived", "lost"}
    BY HandleOrder DEF Handle
<1>. QED
    BY <1>1 DEF Unreported

LEMMA NotificationOrder ==
    ASSUME LedgerInv, OnNotification
    PROVE  OrderInv'
<1>1. OrderInv
    BY DEF LedgerInv
<1>2. /\ Handle({"boot", "start_status", "stop_status", "notify"})
      /\ UNCHANGED <<sessions, issued, charger>>
    BY DEF OnNotification, Handle
<1>3. RecordsInOrder' /\ OwnEventsOnly'
    BY <1>1, <1>2 DEF OrderInv, RecordsInOrder, OwnEventsOnly, Active
<1>4. ReportsInOrder'
    <2>1. HasActive' = HasActive /\ Reported' = Reported
        BY <1>2 DEF HasActive, Active, Reported
    <2>2. "ended" \notin {"boot", "start_status", "stop_status", "notify"}
        OBVIOUS
    <2>3. ASSUME NEW u \in Tasks
          PROVE  /\ Settled(u)' => Settled(u)
                 /\ Unreported(u)' => Unreported(u)
        BY <1>2, <2>2, NothingSettled, StillUnreported
    <2>. QED
        BY <1>1, <1>2, <2>1, <2>3 DEF OrderInv, ReportsInOrder
<1>. QED
    BY <1>2, <1>3, <1>4, HandleOrder DEF OrderInv

\* The record that is active, if any, is the one GetActiveSession finds, and it
\* is the record of the transaction drawn last.
LEMMA OneActive ==
    ASSUME LedgerInv, HasActive
    PROVE  /\ GetActiveSession \in DOMAIN sessions
           /\ Active(GetActiveSession)
           /\ sessions[GetActiveSession].id = issued
           /\ \A i \in DOMAIN sessions : Active(i) => i = GetActiveSession
<1>1. RecordsInOrder
    BY DEF LedgerInv, OrderInv
<1>2. PICK k \in DOMAIN sessions : Active(k)
    BY DEF HasActive
<1>3. \A i \in DOMAIN sessions : Active(i) => i = k
    BY <1>1, <1>2 DEF RecordsInOrder
<1>4. k \in Nat
    BY DEF LedgerInv, LockInv, TypeOK
<1>5. Active(k) /\ \A j \in DOMAIN sessions : j < k => ~Active(j)
    BY <1>2, <1>3, <1>4
<1>6. /\ GetActiveSession \in DOMAIN sessions /\ Active(GetActiveSession)
    BY <1>5 DEF GetActiveSession
<1>. QED
    BY <1>1, <1>3, <1>6 DEF RecordsInOrder

\* Crediting the active record changes neither ids nor its standing.
LEMMA UpdatedOrder ==
    ASSUME LedgerInv, OnTransactionUpdated
    PROVE  OrderInv' /\ \A x : LedgerEntry(x)' = LedgerEntry(x)
<1> DEFINE k == GetActiveSession
           tx == Head(uplink).tx
<1>1. OrderInv /\ TypeOK
    BY DEF LedgerInv, LockInv
<1>2. Handle({"updated"}) /\ UNCHANGED <<issued, charger>>
    BY DEF OnTransactionUpdated, Handle
<1>3. tx = issued
    BY <1>1, <1>2, HandleOrder DEF Handle, OrderInv, MessagesInOrder, Accounting
<1>4. /\ DOMAIN sessions' = DOMAIN sessions
      /\ \A i \in DOMAIN sessions :
            /\ sessions'[i].id = sessions[i].id
            /\ sessions'[i].status = sessions[i].status
            /\ sessions'[i].credited \subseteq sessions[i].credited \cup {sessions[i].id}
    <2>1. CASE HasActive
        <3>1. k \in DOMAIN sessions /\ sessions[k].id = issued
            BY <2>1, OneActive
        <3>2. sessions' = [sessions EXCEPT ![k] = WithMeterValue(sessions[k], tx)]
            BY <2>1 DEF OnTransactionUpdated
        <3>3. sessions[k] \in Session
            BY <1>1, <3>1 DEF TypeOK
        <3>4. /\ WithMeterValue(sessions[k], tx).id = sessions[k].id
              /\ WithMeterValue(sessions[k], tx).status = sessions[k].status
              /\ WithMeterValue(sessions[k], tx).credited = sessions[k].credited \cup {issued}
            BY <1>3, <3>3 DEF WithMeterValue, Session
        <3> HIDE DEF k, tx
        <3>. QED
            BY <3>1, <3>2, <3>4
    <2>2. CASE ~HasActive
        BY <2>2 DEF OnTransactionUpdated
    <2>. QED
        BY <2>1, <2>2
<1>5. \A i \in DOMAIN sessions : Active(i)' = Active(i)
    BY <1>4 DEF Active
<1>6. \A x : LedgerEntry(x)' = LedgerEntry(x)
    BY <1>4, <1>5 DEF LedgerEntry
<1>7. RecordsInOrder' /\ OwnEventsOnly'
    BY <1>1, <1>2, <1>4, <1>5 DEF OrderInv, RecordsInOrder, OwnEventsOnly
<1>8. ReportsInOrder'
    <2>1. HasActive' = HasActive /\ Reported' = Reported
        BY <1>2, <1>4, <1>5 DEF HasActive, Reported
    <2>2. ASSUME NEW u \in Tasks
          PROVE  /\ Settled(u)' => Settled(u)
                 /\ Unreported(u)' => Unreported(u)
        BY <1>2, NothingSettled, StillUnreported
    <2>. QED
        BY <1>1, <1>2, <2>1, <2>2 DEF OrderInv, ReportsInOrder
<1>. QED
    BY <1>2, <1>6, <1>7, <1>8, HandleOrder DEF OrderInv

\* Ending the active record leaves none active; no other record is touched.
LEMMA EndedOrder ==
    ASSUME LedgerInv, OnTransactionEnded
    PROVE  /\ OrderInv'
           /\ ~HasActive => UNCHANGED sessions
           /\ HasActive => /\ LedgerEntry(issued) = "open"
                           /\ LedgerEntry(issued)' = "closed"
                           /\ \A x : x # issued => LedgerEntry(x)' = LedgerEntry(x)
<1> DEFINE k == GetActiveSession
           tx == Head(uplink).tx
<1>1. OrderInv /\ TypeOK
    BY DEF LedgerInv, LockInv
<1>2. Handle({"ended"}) /\ UNCHANGED <<issued, charger>>
    BY DEF OnTransactionEnded, Handle
<1>3. tx = issued
    BY <1>1, <1>2, HandleOrder DEF Handle, OrderInv, MessagesInOrder, Accounting
<1>4. HasActive => k \in DOMAIN sessions /\ sessions[k].id = issued
    BY OneActive
<1>5. /\ DOMAIN sessions' = DOMAIN sessions
      /\ \A i \in DOMAIN sessions :
            /\ sessions'[i].id = sessions[i].id
            /\ sessions'[i].status = IF Active(i) THEN "completed" ELSE sessions[i].status
            /\ sessions'[i].credited \subseteq sessions[i].credited \cup {sessions[i].id}
    <2>1. CASE HasActive
        <3>1. /\ k \in DOMAIN sessions /\ sessions[k].id = issued
              /\ \A i \in DOMAIN sessions : Active(i) <=> i = k
            BY <2>1, OneActive
        <3>2. sessions' = [sessions EXCEPT ![k] = Ended(sessions[k], tx)]
            BY <2>1 DEF OnTransactionEnded
        <3>3. /\ Ended(sessions[k], tx).id = sessions[k].id
              /\ Ended(sessions[k], tx).status = "completed"
              /\ Ended(sessions[k], tx).credited = sessions[k].credited \cup {issued}
            BY <1>3 DEF Ended
        <3> HIDE DEF k, tx
        <3>. QED
            BY <3>1, <3>2, <3>3
    <2>2. CASE ~HasActive
        BY <2>2 DEF OnTransactionEnded, HasActive
    <2>. QED
        BY <2>1, <2>2
<1>6. \A i \in DOMAIN sessions : ~Active(i)'
    BY <1>5 DEF Active
<1>7. ~HasActive'
    BY <1>5, <1>6 DEF HasActive
<1>8. RecordsInOrder' /\ OwnEventsOnly'
    BY <1>1, <1>2, <1>5, <1>6 DEF OrderInv, RecordsInOrder, OwnEventsOnly
<1>9. ReportsInOrder'
    <2>1. Reported' = Reported
        BY <1>2, <1>5 DEF Reported
    <2>2. \A u \in Tasks : Unreported(u)' => Unreported(u)
        BY <1>2, StillUnreported
    <2>. QED
        BY <1>1, <1>7, <2>1, <2>2 DEF OrderInv, ReportsInOrder
<1>10. ~HasActive => UNCHANGED sessions
    BY DEF OnTransactionEnded
<1>11. ASSUME HasActive
       PROVE  /\ LedgerEntry(issued) = "open"
              /\ LedgerEntry(issued)' = "closed"
              /\ \A x : x # issued => LedgerEntry(x)' = LedgerEntry(x)
    <2>1. /\ k \in DOMAIN sessions /\ sessions[k].id = issued /\ Active(k)
          /\ \A i \in DOMAIN sessions : Active(i) => sessions[i].id = issued
        BY <1>11, <1>1, OneActive DEF OrderInv, RecordsInOrder
    <2> HIDE DEF k
    <2>2. LedgerEntry(issued) = "open"
        BY <2>1 DEF LedgerEntry
    <2>3. LedgerEntry(issued)' = "closed"
        BY <1>2, <1>5, <1>6, <2>1 DEF LedgerEntry
    <2>4. \A x : x # issued => LedgerEntry(x)' = LedgerEntry(x)
        BY <1>5, <1>6, <2>1 DEF LedgerEntry
    <2>. QED
        BY <2>2, <2>3, <2>4
<1>. QED
    BY <1>2, <1>8, <1>9, <1>10, <1>11, HandleOrder DEF OrderInv

\* A Started is of the transaction drawn last, which has no record yet.
LEMMA StartedOrder ==
    ASSUME LedgerInv, OnTransactionStarted
    PROVE  /\ OrderInv'
           /\ issued \in Transactions
           /\ \A x : LedgerEntry(x) # "open"
           /\ \A x \in Transactions : x >= issued => LedgerEntry(x) = "unknown"
           /\ LedgerEntry(issued)' = "open"
           /\ \A x : x # issued => LedgerEntry(x)' = LedgerEntry(x)
<1> DEFINE m == Head(uplink)
           s == SessionOf(m)
<1>1. OrderInv /\ TypeOK
    BY DEF LedgerInv, LockInv
<1>2. Handle({"started"}) /\ UNCHANGED <<issued, charger, tasks, caller>>
    BY DEF OnTransactionStarted, Handle
<1>3. /\ m.call = "started" /\ m = uplink[1] /\ 1 \in DOMAIN uplink
    BY <1>2, HandleOrder DEF Handle
<1>4. m.tx = issued /\ Len(uplink) = 1 /\ reply = "awaited"
    BY <1>1, <1>3 DEF OrderInv, MessagesInOrder, Accounting
<1>5. /\ caller \in Tasks /\ tasks[caller].pc = "started"
      /\ reply' \in {"arrived", "lost"} /\ UNCHANGED <<tasks, caller>>
    <2>1. reply' # reply
        BY <1>2, <1>4 DEF Handle
    <2>. QED
        BY <1>2, <1>3, <2>1, HandleOrder
<1>6. tasks[caller].kind = "start"
    BY <1>1, <1>5, TaskAtPoint DEF StartTask
<1>7. /\ \A u \in Tasks \ {caller} : tasks[u] = Free
      /\ charger.isCharging
    BY <1>1, <1>5, <1>6, TaskAtPoint DEF OrderInv, StartRunsAlone
<1>8. ~Reported
    BY <1>1, <1>4, <1>5, <1>6 DEF OrderInv, ReportsInOrder, Unreported
<1>9. /\ charger.transactionId = issued /\ issued # 0
      /\ issued \in Nat /\ issued <= MaxTransactions
    BY <1>1, <1>7 DEF OrderInv, TransactionIds, TypeOK, NoTransaction
<1>10. issued \in Transactions
    BY <1>9, MaxTransactionsAssumption DEF Transactions
<1>11. /\ s.id = issued /\ s.status = "active" /\ s.credited = {}
    BY <1>4 DEF SessionOf
<1>12. sessions' = Append(sessions, s)
    BY <1>4, <1>8 DEF OnTransactionStarted, Reported
<1>13. \A i \in DOMAIN sessions : ~Active(i) /\ sessions[i].id # issued
    BY <1>1, <1>8 DEF OrderInv, RecordsInOrder, Reported
<1> HIDE DEF s, m
<1>14. /\ Len(sessions) \in Nat
       /\ DOMAIN sessions = 1 .. Len(sessions)
       /\ DOMAIN sessions' = 1 .. Len(sessions) + 1
       /\ sessions'[Len(sessions) + 1] = s
       /\ \A i \in 1 .. Len(sessions) : sessions'[i] = sessions[i]
    BY <1>1, <1>12 DEF TypeOK
<1>15. ASSUME NEW i \in DOMAIN sessions'
       PROVE  \/ i \in DOMAIN sessions /\ sessions'[i] = sessions[i] /\ i # Len(sessions) + 1
              \/ i = Len(sessions) + 1 /\ sessions'[i] = s
    BY <1>14
<1>16. DOMAIN sessions \subseteq DOMAIN sessions' /\ Len(sessions) + 1 \in DOMAIN sessions'
    BY <1>14
<1>17. RecordsInOrder'
    <2>1. ASSUME NEW i \in DOMAIN sessions'
          PROVE  sessions'[i].id \in 1 .. issued /\ (Active(i)' => sessions'[i].id = issued)
        BY <1>1, <1>9, <1>11, <1>15 DEF OrderInv, RecordsInOrder, Active
    <2>2. ASSUME NEW i \in DOMAIN sessions', NEW j \in DOMAIN sessions',
                 sessions'[i].id = sessions'[j].id
          PROVE  i = j
        BY <1>1, <1>11, <1>13, <1>15, <2>2 DEF OrderInv, RecordsInOrder
    <2>. QED
        BY <1>2, <2>1, <2>2 DEF RecordsInOrder
<1>18. OwnEventsOnly'
    BY <1>1, <1>11, <1>15 DEF OrderInv, OwnEventsOnly
<1>19. ReportsInOrder'
    <2>1. ASSUME NEW u \in Tasks PROVE ~Settled(u)' /\ ~Unreported(u)'
        <3>1. CASE u = caller
            BY <1>5, <3>1 DEF Settled, Returned, Unreported
        <3>2. CASE u # caller
            BY <1>5, <1>7, <3>2, FreeFields DEF Settled, Returned, Unreported
        <3>. QED
            BY <3>1, <3>2
    <2>. QED
        BY <1>2, <1>9, <2>1 DEF ReportsInOrder, NoTransaction
<1>20. \A x : LedgerEntry(x) # "open"
    BY <1>13 DEF LedgerEntry
<1>21. \A x \in Transactions : x >= issued => LedgerEntry(x) = "unknown"
    <2>1. \A x \in Transactions, i \in DOMAIN sessions :
              x >= issued => sessions[i].id # x
        BY <1>1, <1>9, <1>13 DEF OrderInv, RecordsInOrder, Transactions
    <2>. QED
        BY <2>1 DEF LedgerEntry
<1>22. LedgerEntry(issued)' = "open"
    BY <1>2, <1>11, <1>14, <1>16 DEF LedgerEntry, Active
<1>23. \A x : x # issued => LedgerEntry(x)' = LedgerEntry(x)
    BY <1>11, <1>13, <1>15, <1>16, <1>14 DEF LedgerEntry, Active
<1>. QED
    BY <1>2, <1>10, <1>17, <1>18, <1>19, <1>20, <1>21, <1>22, <1>23, HandleOrder DEF OrderInv

-----------------------------------------------------------------------------
(* Every step keeps the invariant                                           *)

LEMMA CommandsWait ==
    ASSUME Undisturbed, MayCommand
    PROVE  Quiet
BY DEF Undisturbed, MayCommand

LEMMA RequestedLast ==
    ASSUME LedgerInv, downlink = <<>>, NEW command, NEW c, NEW from, Request(command, c, from)
    PROVE  /\ Len(downlink') = 1 /\ downlink' # <<>>
           /\ command # "start" => ~StartRequested'
<1> DEFINE r == [command |-> command, connector |-> c, from |-> from]
<1>1. downlink' = <<r>>
    BY DEF Request
<1>2. r.command = command
    OBVIOUS
<1> HIDE DEF r
<1>. QED
    BY <1>1, <1>2 DEF StartRequested

\* A start is requested with no transaction and nothing under way.
LEMMA RequestStartOrder ==
    ASSUME LedgerInv, Undisturbed, NEW c \in Connectors, NEW d,
           MayStart(c), Request("start", d, "rest"),
           UNCHANGED <<deviceVars, loopVars, connected, uplink, sessions, evs, simulator>>
    PROVE  OrderInv'
<1>1. OrderInv /\ TypeOK
    BY DEF LedgerInv, LockInv
<1>2. Quiet
    BY CommandsWait DEF MayStart
<1>3. charger.transactionId = NoTransaction
    BY DEF MayStart, Undisturbed
<1>4. ~charger.isCharging
    BY <1>3, NothingOpen
<1>5. \A t \in Tasks : tasks[t].kind = "none"
    BY <1>1, <1>2, <1>4 DEF Quiet, OrderInv, TasksInOrder, TaskInOrder
<1>6. downlink = <<>> /\ Len(downlink') = 1
    BY <1>2, NothingStarting, RequestedLast
<1>7. issued < MaxTransactions
    BY <1>1, <1>6 DEF MayStart, TypeOK
<1>8. StartWaitsAlone'
    BY <1>2, <1>3, <1>5, <1>6, <1>7 DEF StartWaitsAlone, BetweenCompletions, Quiet
<1>9. StartRunsAlone'
    BY <1>5 DEF StartRunsAlone
<1>10. ChargingIsServed'
    BY <1>1 DEF OrderInv, ChargingIsServed
<1>. QED
    BY <1>8, <1>9, <1>10, CommandOrder DEF ChargerKept, MeterKept

\* A stop or a reset is requested while nothing is under way.
LEMMA RequestOtherOrder ==
    ASSUME LedgerInv, Undisturbed, MayCommand,
           NEW command \in {"stop", "reset"}, Request(command, 0, "rest"),
           UNCHANGED <<deviceVars, loopVars, connected, uplink, sessions, evs, simulator>>
    PROVE  OrderInv'
<1>1. OrderInv /\ Quiet
    BY CommandsWait DEF LedgerInv
<1>2. ~Starting /\ ~StartRequested'
    BY <1>1, NothingStarting, RequestedLast
<1>3. StartWaitsAlone' /\ StartRunsAlone' /\ ChargingIsServed'
    BY <1>1, <1>2
    DEF StartWaitsAlone, StartRunsAlone, Starting, OrderInv, ChargingIsServed
<1>. QED
    BY <1>3, CommandOrder DEF ChargerKept, MeterKept

\* Plugging and unplugging an EV that does not charge.
LEMMA PlugOrder ==
    ASSUME LedgerInv, NEW e \in Evs, Unplug(e) \/ \E c \in Connectors : Plug(e, c)
    PROVE  OrderInv'
<1>1. OrderInv /\ TypeOK
    BY DEF LedgerInv, LockInv
<1>2. UNCHANGED <<charger, issued, tasks, caller, reply, connected, uplink, downlink,
                  sessions, simulator>>
    BY DEF Unplug, Plug
<1>3. ASSUME NEW o \in Evs, evs'[o].status = "charging"
      PROVE  evs'[o] = evs[o]
    <2>1. CASE Unplug(e)
        <3>1. evs' = [evs EXCEPT ![e] = Unplugged(evs[e])]
            BY <2>1 DEF Unplug
        <3>2. Unplugged(evs[e]).status = "idle"
            BY DEF Unplugged
        <3>3. o # e
            BY <1>1, <1>3, <3>1, <3>2 DEF TypeOK
        <3>. QED
            BY <1>1, <3>1, <3>3 DEF TypeOK
    <2>2. ASSUME NEW c \in Connectors, Plug(e, c) PROVE evs'[o] = evs[o]
        <3>1. evs' = [evs EXCEPT ![e].connector = c, ![e].status = "plugged"]
            BY <2>2 DEF Plug
        <3>2. evs \in [Evs -> Ev]
            BY <1>1 DEF TypeOK
        <3>3. /\ evs'[e].status = "plugged"
              /\ \A p \in Evs \ {e} : evs'[p] = evs[p]
            BY <3>1, <3>2 DEF Ev
        <3>. QED
            BY <1>3, <3>3
    <2>. QED
        BY <2>1, <2>2
<1>4. ChargingIsServed'
    BY <1>1, <1>2, <1>3 DEF OrderInv, ChargingIsServed
<1>5. StartWaitsAlone' /\ StartRunsAlone'
    BY <1>1, <1>2
    DEF OrderInv, StartWaitsAlone, StartRequested, StartRunsAlone, BetweenCompletions
<1>. QED
    BY <1>2, <1>4, <1>5, CommandOrder DEF ChargerKept, MeterKept

LEMMA UserOrder ==
    ASSUME LedgerInv, Undisturbed, UserStep
    PROVE  OrderInv'
<1>1. MayCommand => ~Starting /\ ~StartRequested /\ downlink = <<>>
    BY CommandsWait, NothingStarting
<1>2. TypeOK
    BY DEF LedgerInv, LockInv
<1>3. ASSUME NEW t \in Tasks, Connect(t) PROVE OrderInv'
    <2>1. /\ t \in FreeTasks /\ MayCommand /\ connected'
          /\ Proceed(t, Coroutine("boot", "boot", 0))
          /\ UNCHANGED <<deviceVars, uplink, downlink, sessions, evs>>
        BY <1>3 DEF Connect
    <2>2. UNCHANGED <<caller, reply>>
        BY <2>1, FreeSlot DEF Proceed, Release
    <2>3. ~StartRequested'
        BY <1>1, <2>1 DEF StartRequested
    <2>4. tasks' = [tasks EXCEPT ![t] = Coroutine("boot", "boot", 0)]
        BY <2>1 DEF Proceed
    <2>5. ChargerKept /\ MeterKept
        BY <2>1 DEF ChargerKept, MeterKept
    <2>. QED
        BY <1>1, <2>1, <2>2, <2>3, <2>4, <2>5, SpawnOrder
<1>4. ASSUME NEW t \in Tasks, NEW kind \in {"connector_error", "power_loss"},
             t \in FreeTasks, MayCommand, Notify(t, kind), ChargerKept, MeterKept,
             UNCHANGED <<caller, reply, netVars, sessions, evs>>
      PROVE  OrderInv'
    <2>1. ~StartRequested'
        BY <1>1, <1>4 DEF StartRequested
    <2>2. tasks' = [tasks EXCEPT ![t] = Coroutine(kind, "notify", 1)]
        BY <1>4 DEF Notify
    <2>. QED
        BY <1>1, <1>4, <2>1, <2>2, SpawnOrder
<1>5. ASSUME NEW t \in Tasks, ConnectorError(t) PROVE OrderInv'
    <2>1. ChargerKept /\ MeterKept
        BY <1>2, <1>5 DEF ConnectorError, ChargerKept, MeterKept, TypeOK, Charger
    <2>. QED
        BY <1>4, <1>5, <2>1 DEF ConnectorError
<1>6. ASSUME NEW t \in Tasks, PowerLoss(t) PROVE OrderInv'
    <2>1. CASE charger.transactionId # NoTransaction
        <3>1. ~StartRequested'
            BY <1>1, <1>6 DEF PowerLoss, StartRequested
        <3>2. /\ t \in FreeTasks /\ BeginStop(t, "power_loss")
              /\ UNCHANGED <<uplink, connected, sessions>>
            BY <1>6, <2>1 DEF PowerLoss
        <3>3. ~Starting
            BY <1>1, <1>6 DEF PowerLoss
        <3>. QED
            BY <2>1, <3>1, <3>2, <3>3, BeginStopOrder
    <2>2. CASE charger.transactionId = NoTransaction
        <3>1. ChargerKept /\ MeterKept
            BY <1>2, <1>6, <2>2 DEF PowerLoss, ChargerKept, MeterKept, TypeOK, Charger
        <3>. QED
            BY <1>4, <1>6, <2>2, <3>1 DEF PowerLoss
    <2>. QED
        BY <2>1, <2>2
<1>7. CASE Disconnect
    BY <1>7, DisconnectOrder
<1>8. CASE StopSession \/ RequestReset
    BY <1>8, RequestOtherOrder DEF StopSession, RequestReset
<1>9. ASSUME NEW e \in Evs, Unplug(e) PROVE OrderInv'
    BY <1>9, PlugOrder
<1>10. ASSUME NEW e \in Evs, StartEvCharging(e) PROVE OrderInv'
    <2>1. evs[e].connector \in Connectors
        BY <1>2, <1>10, ConnectorCountAssumption
        DEF StartEvCharging, TypeOK, Ev, NoConnector, Connectors
    <2>. QED
        BY <1>10, <2>1, RequestStartOrder DEF StartEvCharging
<1>11. ASSUME NEW e \in Evs, StopEvCharging(e) PROVE OrderInv'
    BY <1>11, RequestOtherOrder DEF StopEvCharging
<1>12. ASSUME NEW c \in Connectors, StartSession(c) PROVE OrderInv'
    BY <1>12, RequestStartOrder DEF StartSession
<1>13. ASSUME NEW c \in Connectors, NEW e \in Evs, Plug(e, c) PROVE OrderInv'
    BY <1>13, PlugOrder
<1>. QED
    BY <1>3, <1>5, <1>6, <1>7, <1>8, <1>9, <1>10, <1>11, <1>12, <1>13 DEF UserStep

LEMMA ReceiveOrder ==
    ASSUME LedgerInv, ReceiveRequest
    PROVE  OrderInv'
<1>1. OrderInv /\ TypeOK
    BY DEF LedgerInv, LockInv
<1>2. ASSUME NEW command \in {"start", "stop", "reset"}, Receive(command),
             UNCHANGED <<charger, issued, tasks, caller, reply, connected, uplink,
                         sessions, evs>>
      PROVE  OrderInv'
    <2>1. ~Starting /\ ~StartRequested'
        BY <1>2, ReceiveFacts
    <2>2. StartWaitsAlone' /\ StartRunsAlone' /\ ChargingIsServed'
        BY <1>1, <1>2, <2>1
        DEF StartWaitsAlone, StartRunsAlone, Starting, OrderInv, ChargingIsServed
    <2>. QED
        BY <1>2, <2>2, CommandOrder DEF ChargerKept, MeterKept
<1>3. ASSUME NEW t \in Tasks, OnRequestStartTransaction(t) PROVE OrderInv'
    <2> DEFINE c == Head(downlink).connector
    <2>1. /\ t \in FreeTasks /\ Receive("start") /\ BeginStart(t, c)
          /\ UNCHANGED <<caller, reply, connected, uplink, sessions>>
        BY <1>3 DEF OnRequestStartTransaction
    <2>2. c \in Connectors
        BY <1>1, <2>1, ReceiveType DEF Receive, Command
    <2>3. StartRequested /\ downlink' = <<>>
        BY <2>1, ReceiveFacts
    <2>4. BetweenCompletions'
        BY <1>1, <2>1, <2>3, ReceiveFacts DEF OrderInv, StartWaitsAlone
    <2> HIDE DEF c
    <2>5. CASE pluggedEvs[c] = None
        BY <1>2, <2>1, <2>5 DEF BeginStart
    <2>6. CASE pluggedEvs[c] # None
        BY <2>1, <2>2, <2>3, <2>4, <2>6, BeginStartOrder
    <2>. QED
        BY <2>5, <2>6
<1>4. ASSUME NEW t \in Tasks, OnRequestStopTransaction(t) PROVE OrderInv'
    <2>1. /\ t \in FreeTasks /\ Receive("stop")
          /\ UNCHANGED <<connected, uplink, sessions>>
        BY <1>4 DEF OnRequestStopTransaction
    <2>2. ~Starting /\ ~StartRequested'
        BY <2>1, ReceiveFacts
    <2>3. CASE charger.transactionId = NoTransaction
        BY <1>2, <1>4, <2>1, <2>3 DEF OnRequestStopTransaction
    <2>4. CASE charger.transactionId # NoTransaction
        <3>1. BeginStop(t, "stop")
            BY <1>4, <2>4 DEF OnRequestStopTransaction
        <3>. QED
            BY <2>1, <2>2, <2>4, <3>1, BeginStopOrder
    <2>. QED
        BY <2>3, <2>4
<1>5. ASSUME NEW t \in Tasks, OnReset(t) PROVE OrderInv'
    <2>1. /\ t \in FreeTasks /\ Receive("reset")
          /\ UNCHANGED <<connected, uplink, sessions>>
        BY <1>5 DEF OnReset
    <2>2. ~Starting /\ ~StartRequested'
        BY <2>1, ReceiveFacts
    <2>3. CASE charger.isCharging /\ charger.transactionId # NoTransaction
        <3>1. BeginStop(t, "reset")
            BY <1>5, <2>3 DEF OnReset
        <3>. QED
            BY <2>1, <2>2, <2>3, <3>1, BeginStopOrder
    <2>4. CASE ~(charger.isCharging /\ charger.transactionId # NoTransaction)
        <3>1. /\ tasks' = [tasks EXCEPT ![t] = Coroutine("reset", "boot", 0)]
              /\ UNCHANGED <<caller, reply, evs>> /\ ChargerKept /\ MeterKept
            BY <1>5, <2>4 DEF OnReset, ChargerKept, MeterKept
        <3>. QED
            BY <2>1, <2>2, <3>1, SpawnOrder
    <2>. QED
        BY <2>3, <2>4
<1>. QED
    BY <1>3, <1>4, <1>5 DEF ReceiveRequest

\* The next call of a coroutine takes the transaction that is open, or raises.
LEMMA NextCallOrder ==
    ASSUME LedgerInv, NEW t \in Tasks, NEW call \in {"started", "updated", "ended"},
           CallWithTransaction(t, call),
           caller = t => reply \in {"arrived", "lost"},
           UNCHANGED <<issued, uplink, connected, downlink, sessions, evs, simulator>>,
           tasks[t].kind # "none",
           call = "updated" <=> tasks[t].kind = "meter",
           call = "started" <=> tasks[t].kind = "start",
           call = "ended" => ~charger.isCharging,
           tasks[t].pc # "started"
    PROVE  OrderInv'
<1>1. OrderInv /\ TypeOK
    BY DEF LedgerInv, LockInv
<1>2. CASE charger.transactionId = NoTransaction
    <2>1. Raise(t)
        BY <1>2 DEF CallWithTransaction
    <2>2. /\ ChargerKept
          /\ charger'.meterTask = IF charger.meterTask = t THEN None ELSE charger.meterTask
        BY <1>1, <2>1 DEF Raise, ChargerKept, TypeOK, Charger
    <2>. QED
        BY <2>1, <2>2, EndsOrder DEF Raise
<1>3. CASE charger.transactionId # NoTransaction
    <2> DEFINE next == [tasks[t] EXCEPT !.pc = call, !.tx = charger.transactionId]
    <2>1. Proceed(t, next) /\ ChargerKept /\ MeterKept
        BY <1>3 DEF CallWithTransaction, ChargerKept, MeterKept
    <2>2. tasks[t] \in StartTask \cup OtherTask
        BY <1>1 DEF TypeOK, Task, Free, Coroutine
    <2>3. next.kind = tasks[t].kind /\ next.pc = call /\ next.tx = charger.transactionId
        BY <2>2 DEF StartTask, OtherTask
    <2>4. charger.transactionId = issued
        BY <1>1, <1>3 DEF OrderInv, TransactionIds
    <2> HIDE DEF next
    <2>5. TaskInOrder(t, next)
        BY <1>1, <2>3, <2>4 DEF OrderInv, TasksInOrder, TaskInOrder, Stopping
    <2>. QED
        BY <2>1, <2>3, <2>5, GoesOnOrder
<1>. QED
    BY <1>2, <1>3

LEMMA ResumeOrder ==
    ASSUME LedgerInv, NEW t \in Tasks, Resume(t)
    PROVE  OrderInv'
<1> DEFINE Elsewhere == UNCHANGED <<issued, uplink, connected, downlink, sessions, evs, simulator>>
           MeterEnds == charger'.meterTask = IF charger.meterTask = t THEN None
                                             ELSE charger.meterTask
<1>1. OrderInv /\ TypeOK /\ LockDiscipline /\ TaskInOrder(t, tasks[t]) /\ t # None
    BY NoneAssumption DEF LedgerInv, LockInv, OrderInv, TasksInOrder
<1>2. caller = t => tasks[t].pc \in Calls
    BY <1>1 DEF LockDiscipline
<1>3. CASE CallFails(t)
    <2>1. Raise(t) /\ Elsewhere /\ (caller = t => reply \in {"arrived", "lost"})
        BY <1>1, <1>3 DEF CallFails
    <2>2. ChargerKept /\ MeterEnds
        BY <1>1, <2>1 DEF Raise, ChargerKept, TypeOK, Charger
    <2>. QED
        BY <2>1, <2>2, EndsOrder DEF Raise
<1>4. CASE SavingDone(t)
    <2>1. tasks[t].pc = "saving" /\ Elsewhere /\ caller # t
        BY <1>2, <1>4 DEF SavingDone, Calls
    <2>2. CASE tasks[t].kind = "start"
        <3> DEFINE next == [tasks[t] EXCEPT !.pc = "start_status"]
        <3>1. Proceed(t, next) /\ ChargerKept /\ MeterKept
            BY <1>4, <2>2 DEF SavingDone, ChargerKept, MeterKept
        <3>2. next.kind = "start" /\ next.pc = "start_status"
            BY <1>1, <2>1, <2>2, TaskAtPoint DEF StartTask
        <3> HIDE DEF next
        <3>3. TaskInOrder(t, next)
            BY <3>2 DEF TaskInOrder, Stopping, Accounting
        <3>. QED
            BY <2>1, <2>2, <3>1, <3>2, <3>3, GoesOnOrder
    <2>3. CASE tasks[t].kind # "start"
        <3>1. CallWithTransaction(t, "ended")
            BY <1>4, <2>3 DEF SavingDone
        <3>2. tasks[t].kind \notin {"none", "meter"}
            BY <1>1, <2>1, <2>3, TaskAtPoint DEF OtherTask, TaskInOrder
        <3>3. ~charger.isCharging
            BY <1>1, <2>1, <2>3 DEF TaskInOrder, Stopping
        <3>. QED
            BY <2>1, <2>3, <3>1, <3>2, <3>3, NextCallOrder
    <2>. QED
        BY <2>2, <2>3
<1>5. CASE MeterWakes(t)
    <2>1. tasks[t].pc = "sleeping" /\ Elsewhere /\ caller # t /\ CallWithTransaction(t, "updated")
        BY <1>2, <1>5 DEF MeterWakes, Calls
    <2>2. tasks[t].kind = "meter"
        BY <1>1, <2>1 DEF TaskInOrder
    <2>. QED
        BY <2>1, <2>2, NextCallOrder
<1>6. CASE StartStatusReturns(t)
    <2>1. /\ tasks[t].pc = "start_status" /\ reply = "arrived" /\ Elsewhere
          /\ CallWithTransaction(t, "started")
        BY <1>6 DEF StartStatusReturns, Returned
    <2>2. tasks[t].kind = "start"
        BY <1>1, <2>1, TaskAtPoint DEF StartTask
    <2>. QED
        BY <2>1, <2>2, NextCallOrder
<1>7. CASE StartedReturns(t)
    BY <1>7, StartedReturnsOrder
<1>8. CASE UpdatedReturns(t)
    <2>1. tasks[t].pc = "updated" /\ reply = "arrived" /\ Elsewhere /\ MeterLoop(t)
        BY <1>8 DEF UpdatedReturns, Returned
    <2>2. tasks[t].kind = "meter"
        BY <1>1, <2>1 DEF TaskInOrder
    <2>3. charger.isCharging
        BY <1>1, <2>2 DEF TaskInOrder
    <2>4. Proceed(t, Coroutine("meter", "sleeping", 0)) /\ ChargerKept /\ MeterKept
        BY <1>1, <1>8, <2>1, <2>3 DEF UpdatedReturns, MeterLoop, ChargerKept, MeterKept, TypeOK, Charger
    <2>5. TaskInOrder(t, Coroutine("meter", "sleeping", 0))
        BY <1>1, <2>2, CoroutineFields DEF TaskInOrder, Stopping, Accounting
    <2>. QED
        BY <2>1, <2>2, <2>4, <2>5, CoroutineFields, GoesOnOrder
<1>9. CASE EndedReturns(t)
    <2> DEFINE next == [tasks[t] EXCEPT !.pc = "stop_status"]
    <2>1. /\ Returned(t, "ended") /\ Elsewhere
          /\ Proceed(t, next) /\ ChargerKept /\ MeterKept
        BY <1>9 DEF EndedReturns, ChargerKept, MeterKept
    <2>2. /\ tasks[t] \in OtherTask
          /\ next.kind = tasks[t].kind /\ next.pc = "stop_status"
        BY <1>1, <2>1, TaskAtPoint DEF OtherTask, Returned
    <2> HIDE DEF next
    <2>3. ~HasActive
        BY <1>1, <2>1 DEF OrderInv, ReportsInOrder, Settled
    <2>4. next.kind # "start"
        BY <2>2 DEF OtherTask
    <2>5. TaskInOrder(t, next)
        BY <1>1, <2>1, <2>2, <2>4 DEF TaskInOrder, Stopping, Accounting, Returned
    <2>. QED
        BY <2>1, <2>2, <2>3, <2>4, <2>5, GoesOnOrder DEF Returned
<1>10. CASE StopStatusReturns(t)
    BY <1>10, StopStatusReturnsOrder
<1>11. ASSUME tasks[t].pc \in {"boot", "notify"}, Proceed(t, Free), UNCHANGED charger,
              Elsewhere, reply = "arrived"
       PROVE  OrderInv'
    <2>1. charger.meterTask # t
        BY <1>1, <1>11 DEF OrderInv, TasksInOrder, TaskInOrder
    <2>. QED
        BY <1>11, <2>1, EndsOrder DEF ChargerKept
<1>12. CASE BootReturns(t)
    <2> DEFINE next == [tasks[t] EXCEPT !.connector = tasks[t].connector + 1]
    <2>1. tasks[t].pc = "boot" /\ reply = "arrived" /\ Elsewhere /\ UNCHANGED charger
        BY <1>12 DEF BootReturns, Returned
    <2>2. CASE tasks[t].connector < ConnectorCount
        <3>1. Proceed(t, next) /\ ChargerKept /\ MeterKept
            BY <1>12, <2>1, <2>2 DEF BootReturns, ChargerKept, MeterKept
        <3>2. /\ tasks[t] \in OtherTask
              /\ next.kind = tasks[t].kind /\ next.pc = "boot"
            BY <1>1, <2>1, TaskAtPoint DEF OtherTask
        <3> HIDE DEF next
        <3>3. TaskInOrder(t, next)
            BY <1>1, <2>1, <3>2 DEF TaskInOrder, Stopping, Accounting
        <3>4. next.kind # "start"
            BY <3>2 DEF OtherTask
        <3>. QED
            BY <2>1, <3>1, <3>2, <3>3, <3>4, GoesOnOrder
    <2>3. CASE ~(tasks[t].connector < ConnectorCount)
        BY <1>11, <1>12, <2>1, <2>3 DEF BootReturns
    <2>. QED
        BY <2>2, <2>3
<1>13. CASE NotifyReturns(t)
    BY <1>11, <1>13 DEF NotifyReturns, Returned
<1>. QED
    BY <1>3, <1>4, <1>5, <1>6, <1>7, <1>8, <1>9, <1>10, <1>12, <1>13 DEF Resume

LEMMA SimulatorOrder ==
    ASSUME LedgerInv, Undisturbed, AutoStop \/ \E e \in Evs : TargetReached(e)
    PROVE  OrderInv'
<1>1. OrderInv /\ TypeOK
    BY DEF LedgerInv, LockInv
<1>2. ASSUME NEW e \in Evs, TargetReached(e) PROVE OrderInv'
    <2>1. /\ evs[e].status = "charging" /\ ~Starting
          /\ evs' = [evs EXCEPT ![e] = Filled(evs[e])]
          /\ UNCHANGED <<deviceVars, loopVars, netVars, sessions>>
        BY <1>2 DEF TargetReached, Starting, Undisturbed
    <2>2. charger.transactionId # NoTransaction
        BY <2>1, NothingOpen
    <2>3. ~StartRequested
        BY <1>1, <2>2 DEF OrderInv, StartWaitsAlone
    <2>4. StartWaitsAlone' /\ StartRunsAlone'
        BY <2>1, <2>3 DEF StartWaitsAlone, StartRequested, StartRunsAlone, Starting
    <2>5. Filled(evs[e]).status = "full"
        BY DEF Filled
    <2>6. ASSUME NEW o \in Evs, evs'[o].status = "charging" PROVE evs'[o] = evs[o]
        <3>1. o # e
            BY <1>1, <2>1, <2>5, <2>6 DEF TypeOK
        <3>. QED
            BY <1>1, <2>1, <3>1 DEF TypeOK
    <2>7. ChargingIsServed'
        BY <1>1, <2>1, <2>6 DEF OrderInv, ChargingIsServed
    <2>. QED
        BY <2>1, <2>4, <2>7, CommandOrder DEF ChargerKept, MeterKept
<1>3. CASE AutoStop
    <2>1. /\ ~BetweenCompletions
          /\ UNCHANGED <<deviceVars, loopVars, connected, uplink, sessions, evs>>
          /\ downlink' = downlink \/ Request("stop", 0, "simulator")
        BY <1>3 DEF AutoStop, BetweenCompletions
    <2>2. ~StartRequested /\ ~Starting
        BY <1>1, <2>1 DEF OrderInv, StartWaitsAlone, StartRunsAlone, Starting
    <2>3. ~StartRequested'
        <3>1. CASE downlink' = downlink
            BY <2>2, <3>1 DEF StartRequested
        <3>2. CASE Request("stop", 0, "simulator")
            <4> DEFINE r == [command |-> "stop", connector |-> 0, from |-> "simulator"]
            <4>1. downlink' = Append(downlink, r) /\ downlink \in Seq(Command)
                BY <1>1, <3>2 DEF Request, TypeOK
            <4>2. r.command # "start"
                OBVIOUS
            <4> HIDE DEF r
            <4>3. \A i \in DOMAIN downlink' :
                     \/ i \in DOMAIN downlink /\ downlink'[i] = downlink[i]
                     \/ downlink'[i] = r
                BY <4>1
            <4>. QED
                BY <2>2, <4>2, <4>3 DEF StartRequested
        <3>. QED
            BY <2>1, <3>1, <3>2
    <2>4. StartWaitsAlone' /\ StartRunsAlone' /\ ChargingIsServed'
        BY <1>1, <2>1, <2>2, <2>3
        DEF StartWaitsAlone, StartRunsAlone, Starting, OrderInv, ChargingIsServed
    <2>. QED
        BY <2>1, <2>4, CommandOrder DEF ChargerKept, MeterKept
<1>. QED
    BY <1>2, <1>3

LEMMA LedgerInvStep ==
    ASSUME Undisturbed
    PROVE  LedgerInv /\ [Next]_vars => LedgerInv'
<1> SUFFICES ASSUME LedgerInv, [Next]_vars PROVE LedgerInv'
    OBVIOUS
<1>1. PlugInv' /\ LockInv'
    BY PlugInvStep, LockInvStep DEF LedgerInv
<1>2. SUFFICES OrderInv'
    BY <1>1 DEF LedgerInv
<1>3. CASE UNCHANGED vars
    <2>1. StartWaitsAlone' /\ StartRunsAlone' /\ ChargingIsServed'
        BY <1>3
        DEF LedgerInv, OrderInv, StartWaitsAlone, StartRequested, StartRunsAlone,
            BetweenCompletions, ChargingIsServed
    <2>. QED
        BY <1>3, <2>1, CommandOrder DEF ChargerKept, MeterKept
<1>4. CASE UserStep
    BY <1>4, UserOrder
<1>5. CASE ReceiveRequest
    BY <1>5, ReceiveOrder
<1>6. ASSUME NEW t \in Tasks, SendCall(t) \/ Resume(t) PROVE OrderInv'
    BY <1>6, SendCallOrder, ResumeOrder
<1>7. CASE CsmsStep
    BY <1>7, StartedOrder, UpdatedOrder, EndedOrder, NotificationOrder DEF CsmsStep
<1>8. CASE AutoStop \/ \E e \in Evs : TargetReached(e)
    BY <1>8, SimulatorOrder
<1>. QED
    BY <1>3, <1>4, <1>5, <1>6, <1>7, <1>8 DEF Next

LEMMA LedgerInvInit == Init => LedgerInv
<1> SUFFICES ASSUME Init PROVE LedgerInv
    OBVIOUS
<1>1. PlugInv /\ LockInv
    BY PlugInvInit, InitType DEF LockInv, LockDiscipline, Init
<1>2. /\ charger.isCharging = FALSE /\ charger.transactionId = NoTransaction
      /\ charger.meterTask = None
      /\ issued = 0 /\ caller = None /\ reply = "none"
      /\ uplink = <<>> /\ downlink = <<>> /\ sessions = <<>>
      /\ \A t \in Tasks : tasks[t] = Free
      /\ \A e \in Evs : evs[e].status = "idle"
    BY DEF Init
<1>3. DOMAIN sessions = {} /\ DOMAIN uplink = {} /\ DOMAIN downlink = {}
    BY <1>2
<1>4. TransactionIds
    BY <1>2, MaxTransactionsAssumption DEF TransactionIds
<1>5. StartWaitsAlone /\ StartRunsAlone
    BY <1>2, <1>3, FreeFields DEF StartWaitsAlone, StartRequested, StartRunsAlone
<1>6. TasksInOrder
    BY <1>2, FreeFields DEF TasksInOrder, TaskInOrder, Accounting
<1>7. ChargingIsServed /\ MessagesInOrder
    BY <1>2, <1>3 DEF ChargingIsServed, MessagesInOrder
<1>8. RecordsInOrder /\ OwnEventsOnly
    BY <1>3 DEF RecordsInOrder, OwnEventsOnly
<1>9. ReportsInOrder
    BY <1>2, <1>3, FreeFields DEF ReportsInOrder, HasActive, Unreported
<1>. QED
    BY <1>1, <1>4, <1>5, <1>6, <1>7, <1>8, <1>9 DEF LedgerInv, OrderInv

-----------------------------------------------------------------------------
(* Theorems                                                                 *)

\* Without overlapping commands, whatever drops, resets and faults do: what is
\* credited to a session comes from the transaction it was created for, though
\* the handlers of TransactionEvent take whatever session is active.
THEOREM EventsAreOwn ==
    ASSUME Undisturbed
    PROVE  Spec => []OwnEventsOnly
<1>1. LedgerInv => OwnEventsOnly
    BY DEF LedgerInv, OrderInv
<1>. QED
    BY <1>1, LedgerInvInit, LedgerInvStep, PTL DEF Spec

\* In the same environment an EV that charges is charged by the transaction the
\* charger has open, on the connector it charges.
THEOREM ChargingServed ==
    ASSUME Undisturbed
    PROVE  Spec => []ServedByCharger
<1>1. LedgerInv => ServedByCharger
    BY DEF LedgerInv, OrderInv, ChargingIsServed, ServedByCharger
<1>. QED
    BY <1>1, LedgerInvInit, LedgerInvStep, PTL DEF Spec

-----------------------------------------------------------------------------
(* The session records implement the ledger                                 *)

ledgerBar == [x \in Transactions |-> LedgerEntry(x)]

LEMMA SameEntries ==
    ASSUME \A x \in Transactions : LedgerEntry(x)' = LedgerEntry(x)
    PROVE  UNCHANGED ledgerBar
BY DEF ledgerBar

\* Only the CSMS's handlers touch the records.
LEMMA RecordsKept ==
    ASSUME [Next]_vars, ~CsmsStep
    PROVE  UNCHANGED sessions
<1>1. UserStep => UNCHANGED sessions
    BY DEF UserStep, Connect, ConnectorError, PowerLoss, Disconnect, StopSession, RequestReset,
           Unplug, StartEvCharging, StopEvCharging, StartSession, Plug
<1>2. ReceiveRequest => UNCHANGED sessions
    BY DEF ReceiveRequest, OnRequestStartTransaction, OnRequestStopTransaction, OnReset
<1>3. ASSUME NEW t \in Tasks, SendCall(t) \/ Resume(t) PROVE UNCHANGED sessions
    BY <1>3 DEF SendCall, Resume, CallFails, SavingDone, MeterWakes, StartStatusReturns,
       StartedReturns, UpdatedReturns, EndedReturns, StopStatusReturns, BootReturns, NotifyReturns
<1>4. AutoStop \/ (\E e \in Evs : TargetReached(e)) => UNCHANGED sessions
    BY DEF AutoStop, TargetReached
<1>. QED
    BY <1>1, <1>2, <1>3, <1>4 DEF Next

\* Started opens the record of the transaction drawn last, Ended closes it, and
\* no other step is seen in the ledger.
LEMMA LedgerStep ==
    ASSUME LedgerInv, [Next]_vars
    PROVE  Ledger!Next \/ UNCHANGED ledgerBar
<1>1. CASE UNCHANGED sessions
    BY <1>1, SameEntries DEF LedgerEntry, Active
<1>2. CASE OnTransactionStarted
    <2>1. /\ issued \in Transactions
          /\ \A x \in Transactions : ledgerBar[x] # "open"
          /\ \A x \in Transactions : x >= issued => ledgerBar[x] = "unknown"
        BY <1>2, StartedOrder DEF ledgerBar
    <2>2. ledgerBar' = [ledgerBar EXCEPT ![issued] = "open"]
        BY <1>2, <2>1, StartedOrder DEF ledgerBar
    <2>3. Ledger!Open(issued)
        BY <2>1, <2>2 DEF Ledger!Open, ledgerBar
    <2>. QED
        BY <2>1, <2>3 DEF Ledger!Next
<1>3. CASE OnTransactionUpdated
    BY <1>3, UpdatedOrder, SameEntries
<1>4. CASE OnTransactionEnded
    <2>1. CASE ~HasActive
        BY <1>1, <1>4, <2>1, EndedOrder
    <2>2. CASE HasActive
        <3>1. issued \in Transactions
            <4>1. PICK i \in DOMAIN sessions : sessions[i].id = issued
                BY <2>2, OneActive
            <4>2. issued \in 1 .. issued /\ issued <= MaxTransactions /\ issued \in Nat
                BY <4>1
                DEF LedgerInv, LockInv, TypeOK, OrderInv, RecordsInOrder, TransactionIds
            <4>. QED
                BY <4>2, MaxTransactionsAssumption DEF Transactions
        <3>2. /\ LedgerEntry(issued) = "open"
              /\ LedgerEntry(issued)' = "closed"
              /\ \A x : x # issued => LedgerEntry(x)' = LedgerEntry(x)
              /\ UNCHANGED issued
            BY <1>4, <2>2, EndedOrder DEF OnTransactionEnded, Handle
        <3>3. ledgerBar[issued] = "open"
            BY <3>1, <3>2 DEF ledgerBar
        <3>4. ledgerBar' = [ledgerBar EXCEPT ![issued] = "closed"]
            BY <3>2 DEF ledgerBar
        <3>5. Ledger!Close(issued)
            BY <3>3, <3>4 DEF Ledger!Close, ledgerBar
        <3>. QED
            BY <3>1, <3>5 DEF Ledger!Next
    <2>. QED
        BY <2>1, <2>2
<1>5. CASE OnNotification
    BY <1>1, <1>5 DEF OnNotification
<1>6. CASE ~CsmsStep
    BY <1>1, <1>6, RecordsKept
<1>. QED
    BY <1>2, <1>3, <1>4, <1>5, <1>6 DEF CsmsStep

\* The session records open one at a time, in the order of the transactions,
\* each once, and a closed one stays closed, whatever the connection does.
THEOREM RecordsImplementLedger ==
    ASSUME Undisturbed
    PROVE  Spec => ImplementsLedger
<1>1. Init => Ledger!Init
    BY DEF Init, Ledger!Init, LedgerEntry
<1>2. LedgerInv /\ [Next]_vars => [Ledger!Next]_ledgerBar
    BY LedgerStep
<1>3. Ledger!Spec <=> Ledger!Init /\ [][Ledger!Next]_ledgerBar
    BY DEF Ledger!Spec, ledgerBar
<1>. QED
    BY <1>1, <1>2, <1>3, LedgerInvInit, LedgerInvStep, PTL DEF Spec, ImplementsLedger
=============================================================================
