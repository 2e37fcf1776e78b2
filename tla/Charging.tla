------------------------------ MODULE Charging ------------------------------
(***************************************************************************)
(* One virtual charger, the CSMS it is connected to, the EVs plugged into  *)
(* it and the simulator that charges them: the life of a transaction.      *)
(*                                                                         *)
(* All of it runs in one asyncio process.  A coroutine runs without        *)
(* interruption from one await to the next, so a step of a task below is   *)
(* the code between two awaits.  Charger and CSMS talk over one websocket: *)
(* uplink carries the charger's calls, downlink the CSMS's requests.       *)
(*                                                                         *)
(* The ocpp library is external: call() builds and validates its payload,  *)
(* takes the call lock, sends, and waits for the reply or for the response *)
(* timeout; the receive loop runs one request handler at a time.           *)
(***************************************************************************)
EXTENDS Integers, Sequences, FiniteSets

CONSTANTS
    ConnectorCount,   \* config.connector_count
    Evs,              \* the EVs of the pool
    MaxTransactions,  \* bound: how many transaction ids the charger may draw
    Tasks,            \* bound: how many coroutines may be alive at once
    None,             \* no EV, no task
    Environment       \* what users and the network may do: see Situations

\* overlap: a REST command may arrive while earlier ones are still running
\* second_start: a start may be requested while a transaction is open
\* full_start: a start may be requested for an EV that has reached its target
\* early_full: an EV may reach its target before its start has been reported
\* drop, reset, fault: the connection may drop, the charger may be reset, a
\* connector error or a power loss may be injected
Situations == {"overlap", "second_start", "full_start", "early_full",
               "drop", "reset", "fault"}

ASSUME ConnectorCountAssumption == ConnectorCount \in Nat \ {0}
ASSUME MaxTransactionsAssumption == MaxTransactions \in Nat
ASSUME NoneAssumption == None \notin Evs \cup Tasks
ASSUME EnvironmentAssumption == Environment \subseteq Situations

Connectors == 1 .. ConnectorCount
Transactions == 1 .. MaxTransactions
NoTransaction == 0                       \* _transaction_id is None
NoConnector == 0                         \* EV not plugged

VARIABLES
    charger,            \* the scalar fields of VirtualChargerClient
    connectorStatuses,  \* _connector_statuses
    pluggedEvs,         \* _plugged_evs: the EV on each connector
    issued,             \* how many transaction ids were drawn (uuid4: fresh)
    tasks,              \* the coroutines, each with what it has captured
    caller,             \* the task that holds the charger's call lock
    reply,              \* what has become of the caller's reply
    handler,            \* the task run inside the charger's receive loop
    connected,          \* the websocket is up and in csms_registry
    uplink,             \* the charger's calls on their way to the CSMS
    downlink,           \* the CSMS's requests, sent or queued at its own lock
    sessions,           \* SessionManager._sessions, in insertion order
    evs,                \* EvPool._evs
    simulator,          \* tick_all: the EV whose completion it deals with
    resetReply          \* the answer to the last POST /api/commands/reset

plugVars == <<connectorStatuses, pluggedEvs, issued>>
deviceVars == <<charger, plugVars>>
loopVars == <<tasks, caller, reply, handler>>
netVars == <<connected, uplink, downlink>>
vars == <<deviceVars, loopVars, netVars, sessions, evs, simulator, resetReply>>

-----------------------------------------------------------------------------
(* Types                                                                   *)

Calls == {"boot", "start_status", "started", "updated", "ended",
          "stop_status", "notify"}

\* A coroutine: what it runs, where it is suspended, and what it has captured.
Coroutine(kind, pc, connector) ==
    [kind |-> kind, pc |-> pc, connector |-> connector, ev |-> None,
     tx |-> NoTransaction]
Free == Coroutine("none", "free", 0)
StartTask == [kind : {"start"}, pc : {"saving", "start_status", "started"},
              connector : Connectors, ev : Evs, tx : Nat]
OtherTask == [kind : {"boot", "stop", "meter", "reset", "connector_error",
                      "power_loss"},
              pc : (Calls \ {"start_status", "started"}) \cup {"saving", "sleeping"},
              connector : 0 .. ConnectorCount, ev : Evs \cup {None}, tx : Nat]
Task == {Free} \cup StartTask \cup OtherTask

Message == [call : Calls \ {"started"}, connector : 0 .. ConnectorCount, tx : Nat]
           \cup [call : {"started"}, connector : Connectors, tx : Nat]
Command == [command : {"start"}, connector : Connectors, from : {"rest"}]
           \cup [command : {"stop", "reset"}, connector : {0},
                 from : {"rest", "simulator"}]
Session == [id : Nat, connector : Connectors, ev : Evs \cup {None},
            status : {"active", "completed"}, credited : SUBSET Nat]
Ev == [status : {"idle", "plugged", "charging", "full"},
       connector : 0 .. ConnectorCount, session : Nat, atTarget : BOOLEAN]
Charger == [isCharging : BOOLEAN, transactionId : Nat,
            activeConnector : Connectors, meterTask : Tasks \cup {None},
            status : {"Available", "Charging", "Faulted", "Unavailable"}]

-----------------------------------------------------------------------------
(* State formulae and helpers                                              *)

FreeTasks == {t \in Tasks : tasks[t].kind = "none"}

\* Bound: there is a coroutine slot for every request in flight and one more.
Room == Len(downlink) < Cardinality(FreeTasks)

\* Nothing runs but metering, and the simulator is between two completions.
Quiet == /\ \A t \in Tasks : tasks[t].kind \in {"none", "meter"}
         /\ downlink = <<>>
         /\ simulator.state \in {"ticking", "dead"}

MayCommand == Quiet \/ "overlap" \in Environment

MayStart(c) ==
    /\ MayCommand
    /\ Room
    /\ issued + Len(downlink) < MaxTransactions
    /\ "second_start" \in Environment \/ (/\ charger.transactionId = NoTransaction
                                          /\ downlink = <<>>)
    /\ "full_start" \in Environment \/ ~evs[pluggedEvs[c]].atTarget

\* Mutant: a session counts as active whatever its status.
ActiveIgnoringStatus(i) == sessions[i].status \in {"active", "completed"}

Active(i) == sessions[i].status = "active"
HasActive == \E i \in DOMAIN sessions : Active(i)
\* get_active_session: the first in insertion order, whatever its transaction.
GetActiveSession ==
    CHOOSE i \in DOMAIN sessions :
        Active(i) /\ \A j \in DOMAIN sessions : j < i => ~Active(j)

\* Mutant: plug does not look for the EV that is on the connector.
ConnectorUnchecked(c) == c \in Connectors

\* get_by_connector finds no EV.
ConnectorFree(c) == \A e \in Evs : evs[e].connector # c

\* VirtualEvClient.start_charging
StartedFor(ev, tx) == [ev EXCEPT !.session = tx, !.status = "charging"]

\* Mutant: a stop leaves the EV as it is.
NotStopped(ev) == ev
\* Mutant: a stopped EV is idle, plugged or not.
StoppedIdle(ev) == [ev EXCEPT !.session = NoTransaction, !.status = "idle"]

\* VirtualEvClient.stop_charging
Stopped(ev) ==
    [ev EXCEPT !.session = NoTransaction,
               !.status = IF ev.connector # NoConnector THEN "plugged" ELSE "idle"]

\* VirtualEvClient.unplug
Unplugged(ev) ==
    [status |-> "idle", connector |-> NoConnector, session |-> NoTransaction,
     atTarget |-> ev.atTarget]

\* Leaving a call, by return, exception or cancellation, frees the call lock.
Release(t) ==
    /\ caller' = IF caller = t THEN None ELSE caller
    /\ reply' = IF caller = t THEN "none" ELSE reply

Proceed(t, task) ==
    /\ tasks' = [tasks EXCEPT ![t] = task]
    /\ Release(t)

\* The coroutine of t ends with an exception.  A handle to a finished task is
\* as good as no handle.  A handler that raises answers with a CallError.
Raise(t) ==
    /\ Proceed(t, Free)
    /\ charger' = [charger EXCEPT !.meterTask = IF @ = t THEN None ELSE @]
    /\ handler' = IF handler = t THEN None ELSE handler
    /\ resetReply' = IF handler = t THEN "error" ELSE resetReply

\* The next call is a TransactionEvent built from _transaction_id as it is
\* now: None does not pass the payload's schema and raises before sending.
CallWithTransaction(t, call) ==
    IF charger.transactionId = NoTransaction
    THEN Raise(t)
    ELSE /\ Proceed(t, [tasks[t] EXCEPT !.pc = call, !.tx = charger.transactionId])
         /\ UNCHANGED <<charger, handler, resetReply>>

\* Mutant: the connector is counted from 0 on one side and from 1 on the other.
RequestNextConnector(command, c, from) ==
    downlink' = Append(downlink, [command |-> command, connector |-> c + 1, from |-> from])
Request(command, c, from) ==
    downlink' = Append(downlink, [command |-> command, connector |-> c, from |-> from])

-----------------------------------------------------------------------------
(* REST commands: connection                                               *)

\* POST connect: opens the socket, then the boot sequence in this coroutine.
Connect(t) ==
    /\ MayCommand /\ Room /\ t \in FreeTasks
    /\ ~connected
    /\ connected' = TRUE
    /\ Proceed(t, Coroutine("boot", "boot", 0))
    /\ UNCHANGED <<deviceVars, handler, uplink, downlink, sessions, evs,
                   simulator, resetReply>>

\* POST disconnect or the network_drop fault: cancels metering, closes the
\* socket; what was in flight is lost, the CSMS's pending requests fail.
Disconnect ==
    LET m == charger.meterTask
    IN  /\ "drop" \in Environment
        /\ connected
        /\ connected' = FALSE
        /\ uplink' = <<>>
        /\ downlink' = <<>>
        /\ tasks' = IF m = None THEN tasks ELSE [tasks EXCEPT ![m] = Free]
        /\ charger' = [charger EXCEPT !.meterTask = None]
        /\ caller' = IF caller = m THEN None ELSE caller
        /\ reply' = CASE caller = m -> "none"
                      [] caller # m /\ reply = "awaited" -> "lost"
                      [] OTHER -> reply
        /\ handler' = None
        /\ simulator' = IF simulator.state = "waiting"
                        THEN [simulator EXCEPT !.state = "dead"] ELSE simulator
        /\ resetReply' = IF resetReply = "pending" THEN "error" ELSE resetReply
        /\ UNCHANGED <<plugVars, sessions, evs>>

-----------------------------------------------------------------------------
(* REST commands: plugging                                                 *)

Plug(e, c) ==
    /\ MayCommand
    /\ evs[e].connector = NoConnector
    /\ evs[e].status # "charging"
    /\ ConnectorFree(c)
    /\ connectorStatuses[c] \in {"Available", "Preparing"}
    /\ evs' = [evs EXCEPT ![e].connector = c, ![e].status = "plugged"]
    /\ pluggedEvs' = [pluggedEvs EXCEPT ![c] = e]
    /\ connectorStatuses' = [connectorStatuses EXCEPT ![c] = "Preparing"]
    /\ UNCHANGED <<charger, issued, loopVars, netVars, sessions, simulator, resetReply>>

Unplug(e) ==
    LET c == evs[e].connector
    IN  /\ MayCommand
        /\ c # NoConnector
        /\ evs[e].status # "charging"
        /\ evs' = [evs EXCEPT ![e] = Unplugged(@)]
        /\ pluggedEvs' = [pluggedEvs EXCEPT ![c] = None]
        /\ connectorStatuses' =
               IF charger.isCharging /\ charger.activeConnector = c
               THEN connectorStatuses
               ELSE [connectorStatuses EXCEPT ![c] = "Available"]
        /\ UNCHANGED <<charger, issued, loopVars, netVars, sessions, simulator, resetReply>>

-----------------------------------------------------------------------------
(* REST commands: remote start, stop, reset.  Each becomes a CSMS request. *)

\* POST /api/evs/{id}/start-charging
StartEvCharging(e) ==
    /\ connected
    /\ evs[e].connector # NoConnector
    /\ evs[e].status # "charging"
    /\ MayStart(evs[e].connector)
    /\ Request("start", evs[e].connector, "rest")
    /\ UNCHANGED <<deviceVars, loopVars, connected, uplink, sessions, evs,
                   simulator, resetReply>>

\* POST /api/sessions/start
StartSession(c) ==
    /\ connected
    /\ pluggedEvs[c] # None
    /\ MayStart(c)
    /\ Request("start", c, "rest")
    /\ UNCHANGED <<deviceVars, loopVars, connected, uplink, sessions, evs,
                   simulator, resetReply>>

\* POST /api/evs/{id}/stop-charging
StopEvCharging(e) ==
    /\ MayCommand /\ Room
    /\ connected
    /\ evs[e].status = "charging"
    /\ evs[e].session # NoTransaction \/ HasActive
    /\ Request("stop", 0, "rest")
    /\ UNCHANGED <<deviceVars, loopVars, connected, uplink, sessions, evs,
                   simulator, resetReply>>

\* POST /api/sessions/stop
StopSession ==
    /\ MayCommand /\ Room
    /\ connected
    /\ HasActive \/ charger.transactionId # NoTransaction
    /\ Request("stop", 0, "rest")
    /\ UNCHANGED <<deviceVars, loopVars, connected, uplink, sessions, evs,
                   simulator, resetReply>>

\* POST /api/commands/reset
RequestReset ==
    /\ "reset" \in Environment
    /\ MayCommand /\ Room
    /\ connected
    /\ resetReply # "pending"
    /\ Request("reset", 0, "rest")
    /\ resetReply' = "pending"
    /\ UNCHANGED <<deviceVars, loopVars, connected, uplink, sessions, evs, simulator>>

-----------------------------------------------------------------------------
(* The charger's request handlers                                          *)

\* The receive loop reads the next request unless it is inside a handler.
Receive(command) ==
    /\ handler = None
    /\ downlink # <<>>
    /\ Head(downlink).command = command
    /\ downlink' = Tail(downlink)
    \* the simulator's request is answered, the others are REST calls
    /\ simulator' = IF Head(downlink).from = "simulator"
                    THEN [state |-> "ticking", ev |-> None] ELSE simulator

\* Mutant: the transaction id is drawn once and used again.
SameTransaction == IF issued = 0 THEN 1 ELSE issued

\* uuid4
NewTransaction == issued + 1

\* EvPool.start_charging refuses an EV that has reached its target.
Chargeable(e) == ~evs[e].atTarget

\* _start_transaction up to its first await, run by t.  When EvPool refuses,
\* the task ends, but the charger's own state has been set already.
BeginStart(t, c) ==
    LET e == pluggedEvs[c]
        tx == NewTransaction
    IN  IF e = None
        THEN UNCHANGED <<deviceVars, tasks, evs>>
        ELSE /\ issued' = tx
             /\ charger' = [charger EXCEPT !.transactionId = tx,
                                           !.isCharging = TRUE,
                                           !.activeConnector = c,
                                           !.status = "Charging"]
             /\ connectorStatuses' = [connectorStatuses EXCEPT ![c] = "Charging"]
             /\ IF Chargeable(e)
                THEN /\ evs' = [evs EXCEPT ![e] = StartedFor(@, tx)]
                     /\ tasks' = [tasks EXCEPT ![t] =
                            [kind |-> "start", pc |-> "saving", connector |-> c,
                             ev |-> e, tx |-> NoTransaction]]
                ELSE UNCHANGED <<tasks, evs>>
             /\ UNCHANGED pluggedEvs

\* The handler creates the start task and answers; it has no other effect.
OnRequestStartTransaction(t) ==
    /\ t \in FreeTasks
    /\ Receive("start")
    /\ BeginStart(t, Head(downlink).connector)
    /\ UNCHANGED <<caller, reply, handler, connected, uplink, sessions, resetReply>>

\* Mutant: the handle is dropped and the task's call stays under way.
MeterDropped == UNCHANGED <<caller, reply>>

\* _meter_task.cancel(): ends the call the task is in, if any.
CancelMeter == Release(charger.meterTask)

\* _stop_transaction up to its first await, run by t on behalf of kind.
BeginStop(t, kind) ==
    LET c == charger.activeConnector
        e == pluggedEvs[c]
        m == charger.meterTask
        stop == [kind |-> kind, pc |-> IF e = None THEN "ended" ELSE "saving",
                 connector |-> c, ev |-> e,
                 tx |-> IF e = None THEN charger.transactionId ELSE NoTransaction]
    IN  /\ charger' = [charger EXCEPT !.isCharging = FALSE, !.meterTask = None]
        /\ tasks' = [u \in Tasks |-> IF u = t THEN stop
                                     ELSE IF u = m THEN Free ELSE tasks[u]]
        /\ CancelMeter
        /\ evs' = IF e = None THEN evs ELSE [evs EXCEPT ![e] = Stopped(@)]
        /\ UNCHANGED plugVars

\* on_request_stop_transaction: the requested transaction id is not looked at.
OnRequestStopTransaction(t) ==
    /\ t \in FreeTasks
    /\ Receive("stop")
    /\ IF charger.transactionId = NoTransaction
       THEN UNCHANGED <<deviceVars, tasks, caller, reply, evs>>
       ELSE BeginStop(t, "stop")
    /\ UNCHANGED <<handler, connected, uplink, sessions, resetReply>>

\* on_reset stays in the handler while it stops the transaction and boots.
OnReset(t) ==
    /\ t \in FreeTasks
    /\ Receive("reset")
    /\ handler' = t
    /\ IF charger.isCharging /\ charger.transactionId # NoTransaction
       THEN BeginStop(t, "reset")
       ELSE /\ tasks' = [tasks EXCEPT ![t] = Coroutine("reset", "boot", 0)]
            /\ UNCHANGED <<deviceVars, caller, reply, evs>>
    /\ UNCHANGED <<connected, uplink, sessions, resetReply>>

-----------------------------------------------------------------------------
(* Fault injection: runs in the REST coroutine, connected or not           *)

Notify(t, kind) ==
    tasks' = [tasks EXCEPT ![t] = Coroutine(kind, "notify", 1)]

ConnectorError(t) ==
    /\ "fault" \in Environment
    /\ MayCommand /\ Room /\ t \in FreeTasks
    /\ charger' = [charger EXCEPT !.status = "Faulted"]
    /\ Notify(t, "connector_error")
    /\ UNCHANGED <<plugVars, caller, reply, handler,
                   netVars, sessions, evs, simulator, resetReply>>

PowerLoss(t) ==
    /\ "fault" \in Environment
    /\ MayCommand /\ Room /\ t \in FreeTasks
    /\ charger.isCharging
    /\ IF charger.transactionId # NoTransaction
       THEN BeginStop(t, "power_loss")
       ELSE /\ charger' = [charger EXCEPT !.status = "Unavailable"]
            /\ Notify(t, "power_loss")
            /\ UNCHANGED <<plugVars, caller, reply, evs>>
    /\ UNCHANGED <<handler, netVars, sessions, simulator, resetReply>>

-----------------------------------------------------------------------------
(* The charger's coroutines                                                *)

\* call() has the lock and sends.
SendCall(t) ==
    /\ tasks[t].pc \in Calls
    /\ caller = None
    /\ connected
    /\ caller' = t
    /\ reply' = "awaited"
    /\ uplink' = Append(uplink, [call |-> tasks[t].pc, connector |-> tasks[t].connector,
                                 tx |-> tasks[t].tx])
    /\ UNCHANGED <<deviceVars, tasks, handler, connected, downlink, sessions, evs,
                   simulator, resetReply>>

\* Sending on a closed socket raises; so does a reply that never comes.
CallFails(t) ==
    /\ \/ tasks[t].pc \in Calls /\ caller = None /\ ~connected
       \/ caller = t /\ reply = "lost"
    /\ Raise(t)
    /\ UNCHANGED <<plugVars, netVars, sessions, evs, simulator>>

\* ev_repository.update returns: on to the status call of a start, or to the
\* Ended of a stop, built from the transaction id of this moment.
SavingDone(t) ==
    /\ tasks[t].pc = "saving"
    /\ IF tasks[t].kind = "start"
       THEN /\ Proceed(t, [tasks[t] EXCEPT !.pc = "start_status"])
            /\ UNCHANGED <<charger, handler, resetReply>>
       ELSE CallWithTransaction(t, "ended")
    /\ UNCHANGED <<plugVars, netVars, sessions, evs, simulator>>

\* asyncio.sleep(5) of the meter loop is over.
MeterWakes(t) ==
    /\ tasks[t].pc = "sleeping"
    /\ CallWithTransaction(t, "updated")
    /\ UNCHANGED <<plugVars, netVars, sessions, evs, simulator>>

Returned(t, call) == caller = t /\ reply = "arrived" /\ tasks[t].pc = call

StartStatusReturns(t) ==
    /\ Returned(t, "start_status")
    /\ CallWithTransaction(t, "started")
    /\ UNCHANGED <<plugVars, netVars, sessions, evs, simulator>>

\* The top of the meter loop, which ends when the charger does not charge.
MeterLoop(t) ==
    Proceed(t, IF charger.isCharging
               THEN Coroutine("meter", "sleeping", 0) ELSE Free)

\* The start task ends and creates the meter task, in the same slot.
StartedReturns(t) ==
    /\ Returned(t, "started")
    /\ MeterLoop(t)
    /\ charger' = [charger EXCEPT !.meterTask = IF charger.isCharging THEN t ELSE None]
    /\ UNCHANGED <<plugVars, handler, netVars, sessions,
                   evs, simulator, resetReply>>

UpdatedReturns(t) ==
    /\ Returned(t, "updated")
    /\ MeterLoop(t)
    /\ charger' = [charger EXCEPT !.meterTask =
                      IF @ = t /\ ~charger.isCharging THEN None ELSE @]
    /\ UNCHANGED <<plugVars, handler, netVars, sessions,
                   evs, simulator, resetReply>>

\* Mutant: the Ended is sent again whenever it has returned.
EndedAgain(t) ==
    /\ Returned(t, "ended")
    /\ CallWithTransaction(t, "ended")
    /\ UNCHANGED <<plugVars, netVars, sessions, evs, simulator>>

EndedReturns(t) ==
    /\ Returned(t, "ended")
    /\ Proceed(t, [tasks[t] EXCEPT !.pc = "stop_status"])
    /\ UNCHANGED <<deviceVars, handler, netVars, sessions, evs, simulator, resetReply>>

\* Mutant: the two outcomes are swapped.
AvailableAfterStop(task) == IF task.ev = None THEN "Preparing" ELSE "Available"

\* What the connector shows after a stop: by the EV seen when the stop began.
StatusAfterStop(task) == IF task.ev # None THEN "Preparing" ELSE "Available"

\* The end of _stop_transaction, then the rest of the coroutine that called it.
StopStatusReturns(t) ==
    LET task == tasks[t]
        status == IF charger.isCharging THEN "Charging" ELSE "Available"
    IN  /\ Returned(t, "stop_status")
        /\ connectorStatuses' = [connectorStatuses EXCEPT ![task.connector] = StatusAfterStop(task)]
        /\ charger' = [charger EXCEPT
                          !.transactionId = NoTransaction,
                          !.status = IF task.kind = "power_loss" THEN "Unavailable" ELSE status]
        /\ Proceed(t, CASE task.kind = "reset" -> Coroutine("reset", "boot", 0)
                        [] task.kind = "power_loss" -> Coroutine("power_loss", "notify", 1)
                        [] OTHER -> Free)
        /\ UNCHANGED <<pluggedEvs, issued, handler, netVars, sessions, evs,
                       simulator, resetReply>>

\* _boot_sequence: BootNotification, then a StatusNotification per connector.
BootReturns(t) ==
    /\ Returned(t, "boot")
    /\ IF tasks[t].connector < ConnectorCount
       THEN /\ Proceed(t, [tasks[t] EXCEPT !.connector = @ + 1])
            /\ UNCHANGED <<handler, resetReply>>
       ELSE /\ Proceed(t, Free)
            /\ handler' = IF handler = t THEN None ELSE handler
            /\ resetReply' = IF handler = t THEN "accepted" ELSE resetReply
    /\ UNCHANGED <<deviceVars, netVars, sessions, evs, simulator>>

NotifyReturns(t) ==
    /\ Returned(t, "notify")
    /\ Proceed(t, Free)
    /\ UNCHANGED <<deviceVars, handler, netVars, sessions, evs, simulator, resetReply>>

-----------------------------------------------------------------------------
(* The CSMS's handlers, in the order of the charger's calls                *)

\* The reply wakes the caller, unless the charger's receive loop is inside a
\* handler: then nobody reads the reply before the response timeout.
Handle(calls) ==
    /\ uplink # <<>>
    /\ Head(uplink).call \in calls
    /\ uplink' = Tail(uplink)
    /\ reply' = IF Len(uplink) = 1 /\ reply = "awaited"
                THEN IF handler = None THEN "arrived" ELSE "lost"
                ELSE reply
    /\ UNCHANGED <<deviceVars, tasks, caller, handler, connected, downlink, evs,
                   simulator, resetReply>>

\* Mutant: the EV is looked up on the default connector.
SessionOfFirstConnector(m) ==
    [id |-> m.tx, connector |-> m.connector, ev |-> pluggedEvs[1],
     status |-> "active", credited |-> {}]

SessionOf(m) == [id |-> m.tx, connector |-> m.connector, ev |-> pluggedEvs[m.connector],
                 status |-> "active", credited |-> {}]

\* create_session: stored under its id, an entry with that id is overwritten.
OnTransactionStarted ==
    LET m == Head(uplink)
        session == SessionOf(m)
    IN  /\ Handle({"started"})
        /\ sessions' = IF \E i \in DOMAIN sessions : sessions[i].id = m.tx
                       THEN [i \in DOMAIN sessions |->
                                IF sessions[i].id = m.tx THEN session ELSE sessions[i]]
                       ELSE Append(sessions, session)

\* SessionManager.add_meter_value; credited records whose values were taken.
WithMeterValue(session, tx) == [session EXCEPT !.credited = @ \cup {tx}]

\* SessionManager.end_session, on the Ended of tx.
Ended(session, tx) ==
    [id |-> session.id, connector |-> session.connector, ev |-> session.ev,
     status |-> "completed", credited |-> session.credited \cup {tx}]

\* Whatever session is active takes the meter value.
OnTransactionUpdated ==
    /\ Handle({"updated"})
    /\ sessions' = IF HasActive
                   THEN [sessions EXCEPT ![GetActiveSession] = WithMeterValue(@, Head(uplink).tx)]
                   ELSE sessions

\* Mutant: the session takes the end's meter value but stays active.
EndWithoutStatus ==
    /\ Handle({"ended"})
    /\ sessions' = IF HasActive
                   THEN [sessions EXCEPT ![GetActiveSession] = WithMeterValue(@, Head(uplink).tx)]
                   ELSE sessions

\* Whatever session is active is ended.
OnTransactionEnded ==
    /\ Handle({"ended"})
    /\ sessions' = IF HasActive
                   THEN [sessions EXCEPT ![GetActiveSession] = Ended(@, Head(uplink).tx)]
                   ELSE sessions

\* on_boot_notification and on_status_notification answer and broadcast.
OnNotification ==
    /\ Handle({"boot", "start_status", "stop_status", "notify"})
    /\ UNCHANGED sessions

-----------------------------------------------------------------------------
(* The simulator: tick_all, for the ticks that complete an EV's charging   *)

\* VirtualEvClient.tick, when it takes the EV to its target
Filled(ev) ==
    [status |-> "full", connector |-> ev.connector, session |-> ev.session,
     atTarget |-> TRUE]

\* The tick takes the EV to its target; then the EV is saved.
TargetReached(e) ==
    /\ simulator.state = "ticking"
    /\ evs[e].status = "charging"
    /\ "early_full" \in Environment \/ \A t \in Tasks : tasks[t].kind # "start"
    /\ evs' = [evs EXCEPT ![e] = Filled(@)]
    /\ simulator' = [state |-> "saving", ev |-> e]
    /\ UNCHANGED <<deviceVars, loopVars, netVars, sessions, resetReply>>

\* Mutant: only an EV that still charges is stopped.
NeedsStopIfCharging(e) == evs[e].session # NoTransaction /\ evs[e].status = "charging"

\* The session is read again, after the save.
NeedsStop(e) == evs[e].session # NoTransaction /\ connected

\* Saved: one remote_stop, if the EV still has a session and the charger is
\* connected.  Otherwise nobody asks again, the EV no longer charges.
AutoStop ==
    /\ simulator.state = "saving"
    /\ IF NeedsStop(simulator.ev)
       THEN /\ Room
            /\ Request("stop", 0, "simulator")
            /\ simulator' = [simulator EXCEPT !.state = "waiting"]
       ELSE /\ simulator' = [state |-> "ticking", ev |-> None]
            /\ UNCHANGED downlink
    /\ UNCHANGED <<deviceVars, loopVars, connected, uplink, sessions, evs, resetReply>>

-----------------------------------------------------------------------------
Init ==
    /\ charger = [isCharging |-> FALSE, transactionId |-> NoTransaction,
                  activeConnector |-> 1, meterTask |-> None, status |-> "Available"]
    /\ connectorStatuses = [c \in Connectors |-> "Available"]
    /\ pluggedEvs = [c \in Connectors |-> None]
    /\ issued = 0
    /\ tasks = [t \in Tasks |-> Free]
    /\ caller = None
    /\ reply = "none"
    /\ handler = None
    /\ connected = FALSE
    /\ uplink = <<>>
    /\ downlink = <<>>
    /\ sessions = <<>>
    /\ evs \in [Evs -> {[status |-> "idle", connector |-> NoConnector,
                         session |-> NoTransaction, atTarget |-> b] : b \in BOOLEAN}]
    /\ simulator = [state |-> "ticking", ev |-> None]
    /\ resetReply = "none"

\* What users and the network do
UserStep ==
    \/ \E t \in Tasks : Connect(t) \/ ConnectorError(t) \/ PowerLoss(t)
    \/ Disconnect \/ StopSession \/ RequestReset
    \/ \E e \in Evs : Unplug(e) \/ StartEvCharging(e) \/ StopEvCharging(e)
    \/ \E c \in Connectors : StartSession(c) \/ \E e \in Evs : Plug(e, c)

Resume(t) ==
    \/ CallFails(t) \/ SavingDone(t) \/ MeterWakes(t)
    \/ StartStatusReturns(t) \/ StartedReturns(t) \/ UpdatedReturns(t)
    \/ EndedReturns(t) \/ StopStatusReturns(t) \/ BootReturns(t) \/ NotifyReturns(t)

ReceiveRequest ==
    \E t \in Tasks :
        OnRequestStartTransaction(t) \/ OnRequestStopTransaction(t) \/ OnReset(t)

CsmsStep ==
    OnTransactionStarted \/ OnTransactionUpdated \/ OnTransactionEnded \/ OnNotification

Next ==
    \/ UserStep
    \/ ReceiveRequest
    \/ \E t \in Tasks : SendCall(t) \/ Resume(t)
    \/ CsmsStep
    \/ \E e \in Evs : TargetReached(e)
    \/ AutoStop

\* asyncio runs every ready coroutine and asyncio.Lock is FIFO; an EV that
\* charges gets to its target.  Nothing is assumed of users or the network.
Fairness ==
    /\ \A t \in Tasks : WF_vars(Resume(t)) /\ SF_vars(SendCall(t))
    /\ WF_vars(ReceiveRequest)
    /\ WF_vars(CsmsStep)
    /\ \A e \in Evs : WF_vars(TargetReached(e))
    /\ WF_vars(AutoStop)

Spec == Init /\ [][Next]_vars
FairSpec == Spec /\ Fairness

-----------------------------------------------------------------------------
(* Properties                                                              *)

\* Every variable has its type; task handles are to coroutines of the pool.
TypeOK ==
    /\ charger \in Charger
    /\ connectorStatuses \in [Connectors -> {"Available", "Preparing", "Charging"}]
    /\ pluggedEvs \in [Connectors -> Evs \cup {None}]
    /\ issued \in Nat
    /\ tasks \in [Tasks -> Task]
    /\ caller \in Tasks \cup {None}
    /\ reply \in {"none", "awaited", "arrived", "lost"}
    /\ handler \in Tasks \cup {None}
    /\ connected \in BOOLEAN
    /\ uplink \in Seq(Message)
    /\ downlink \in Seq(Command)
    /\ sessions \in Seq(Session)
    /\ evs \in [Evs -> Ev]
    /\ simulator \in [state : {"ticking", "saving", "waiting", "dead"},
                      ev : Evs \cup {None}]
    /\ resetReply \in {"none", "pending", "accepted", "error"}

\* EvPool and the charger keep the plug twice, each in its own object: they
\* always agree on which EV is on which connector.
PlugAgreement ==
    \A e \in Evs, c \in Connectors : evs[e].connector = c <=> pluggedEvs[c] = e

\* An EV is idle exactly when unplugged; one that charges is below its target
\* and knows the transaction it charges for.
ChargingIsPlugged ==
    \A e \in Evs :
        /\ evs[e].status = "idle" <=> evs[e].connector = NoConnector
        /\ evs[e].status = "charging" =>
               evs[e].session # NoTransaction /\ ~evs[e].atTarget

\* The call lock is held by a coroutine that is inside a call, and the reply it
\* awaits is to the message the charger sent last.
LockDiscipline ==
    /\ caller = None <=> reply = "none"
    /\ caller # None => tasks[caller].pc \in Calls
    /\ reply = "awaited" => /\ uplink # <<>>
                            /\ uplink[Len(uplink)].call = tasks[caller].pc
                            /\ uplink[Len(uplink)].tx = tasks[caller].tx

\* What is credited to a session, meter values and its end, comes from the
\* transaction it was created for.
OwnEventsOnly ==
    \A i \in DOMAIN sessions : sessions[i].credited \subseteq {sessions[i].id}

OpenSessions == {i \in DOMAIN sessions : Active(i)}

\* At rest, the CSMS's open sessions are the charger's open transaction.
SessionsMatch ==
    Quiet => {sessions[i].id : i \in OpenSessions} =
             {charger.transactionId} \ {NoTransaction}

\* At rest, the EV that charges or has just filled up is the one on the active
\* connector and it charges for the open transaction, whose session names it.
SessionNamesItsEv ==
    Quiet => \A i \in OpenSessions :
        LET s == sessions[i]
        IN  /\ s.ev # None /\ pluggedEvs[s.connector] = s.ev
            /\ charger.activeConnector = s.connector
            /\ evs[s.ev].session = s.id

\* At rest, a connector reads Charging exactly when the charger charges on it,
\* and Available exactly when no EV is plugged into it.
StatusHonest ==
    Quiet => \A c \in Connectors :
        /\ connectorStatuses[c] = "Charging" <=>
               charger.isCharging /\ charger.activeConnector = c
        /\ connectorStatuses[c] = "Available" <=> pluggedEvs[c] = None

\* An EV that charges is charged by the transaction the charger has open.
ServedByCharger ==
    \A e \in Evs : evs[e].status = "charging" =>
        /\ charger.transactionId = evs[e].session
        /\ charger.activeConnector = evs[e].connector

\* A plugged EV is never displaced by another one.
PlugNeverDisplaces ==
    [][\A c \in Connectors : pluggedEvs[c] # None =>
           pluggedEvs'[c] \in {pluggedEvs[c], None}]_vars

\* Whoever takes the charger's call lock gives it back.
CallsComplete == \A t \in Tasks : caller = t ~> caller # t

\* Every stop gets through to its end.
StopsComplete ==
    \A t \in Tasks : tasks[t].kind = "stop" ~> tasks[t].kind # "stop"

\* An EV that charges is charged to its target or stopped, and either way its
\* session is closed.
AutoStopCompletes ==
    \A e \in Evs : evs[e].status = "charging" ~> evs[e].session = NoTransaction

\* A transaction whose EV has reached its target is stopped, unless the EV is
\* unplugged or the charger disconnected.
TargetIsStopped ==
    \A c \in Connectors :
        (/\ connected
         /\ charger.transactionId # NoTransaction
         /\ charger.activeConnector = c
         /\ pluggedEvs[c] # None /\ evs[pluggedEvs[c]].atTarget)
        ~> \/ charger.transactionId = NoTransaction
           \/ ~connected
           \/ pluggedEvs[c] = None

\* A reset is answered with Accepted.
ResetIsAccepted == resetReply = "pending" ~> resetReply = "accepted"
=============================================================================
