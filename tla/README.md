# A verification project for the EV charging simulator

TLA+ models of the simulator's backend, TLC runs over small instances of them,
and TLAPS proofs for every value of their constants. Source paths are relative
to the repository (`src/app/...` is the Python package).

    tlc -workers 2 -config Disciplined.cfg MCCharging.tla   # any run below
    tlapm ChargingProofs.tla                                # all proofs of a module

| Module | What it is |
| --- | --- |
| `Charging` | a transaction's life: charger, CSMS sessions, EVs, simulator, users |
| `SessionLedger` | abstract specification: what the CSMS's session records promise |
| `ChargingLedger` | `Charging`'s session records read as a `SessionLedger` |
| `MCCharging` | its symmetry for TLC |
| `ChargingProofs` | theorems about `Charging`: types, plugs, call lock |
| `LedgerProofs` | theorems about `ChargingLedger`: whose events a session gets, who serves an EV, the refinement |
| `RestProofs` | theorems about `Charging` at rest: sessions, transaction, EVs and statuses tell one story |
| `Connections` | the websockets of one charger id, the registry and the endpoints |
| `ConnectionsProofs` | theorems about `Connections` |
| `Fleet` | chargers and EVs in the pools and in the database, the simulator's walk, restarts |
| `MCFleet` | its symmetry for TLC |
| `FleetProofs` | theorems about `Fleet`: types, pools, connectors |
| `RestartProofs` | theorems about `Fleet`: what crashes and restarts leave of plugs and rows |
| `SessionStore` | one charger's session records in memory and in the database |
| `SessionStoreProofs` | theorems about `SessionStore` |
| `Battery` | the arithmetic of a charge: battery, meter, meter values |
| `BatteryProofs` | theorems about `Battery` |

How they fit together. `Charging` is the middle: the messages of one charger, with
battery, database and websocket each reduced to the least it needs. Each of the
other models opens one of these up and reduces what `Charging` has in full:
`Connections` the websocket, `SessionStore` the session records and their
database, `Fleet` the pools, the rows of EVs and chargers and the simulator's
loop, `Battery` the numbers. What one of them takes for granted, another one
checks: `Fleet` assumes that a charge fills up in the end, which `Battery` shows
(`ChargeEnds`); `Charging` merges the database awaits of the CSMS's handlers,
which `SessionStore` splits (`ManagerMatchesRows`).

## 1. Inventory

Everything runs in **one asyncio process**: a FastAPI application that holds the
CSMS, the simulated chargers, the simulated EVs and the simulator loop. The
chargers connect to the CSMS over real websockets, through the loopback network.
A coroutine runs undisturbed from one `await` to the next; that is the unit of
atomicity of all models.

| Component | State | Operations | Talks to |
| --- | --- | --- | --- |
| Virtual charger, `virtual_charger/charger.py` | transaction id, `_is_charging`, active connector, connector statuses, plugged EVs, meter and heartbeat task, websocket | connect, disconnect, boot; handlers of remote start, stop, reset, availability, unlock; start, meter, stop sequences; plug, unplug; fault injection | CSMS (calls), EV pool (calls) |
| CSMS handler, `csms/csms_handler.py` | none of its own | handlers of boot, status, heartbeat, transaction events; remote requests | session manager, charger (requests) |
| CSMS registry, same file; endpoint, `main.py`, `csms/ws_adapter.py` | a charge point and a task for each charger id; one coroutine for each websocket | connect, disconnect; accept, serve, clean up | websockets |
| Session manager, `csms/session_manager.py` | sessions by id, in insertion order; a copy of each in the database | create, meter value, end, look up the active one, remove, load | database |
| Virtual EV, `virtual_ev/ev.py` | status, connector, session, SoC, target | plug, unplug, start, stop, tick | - |
| EV pool, `virtual_ev/ev_pool.py` | the EVs; a row of each in the database | create, plug, unplug, start, stop, tick all, remove, load | EVs, charger pool, command service, database |
| Simulator, `virtual_charger/simulator.py` | one task | start, stop, the loop | EV pool |
| Command service, `csms/command_service.py` | none | remote start, stop, reset, availability, unlock | registry |
| REST API, `api/` | none | the users' entry to all of the above | all |
| Charger pool, `virtual_charger/charger_pool.py` | chargers by id; rows in the database | create, remove, load | registry, EV pool |
| Repositories, `db/` | rows | insert, update, delete, query | - |
| OCPP log, dashboard broadcast | a ring buffer; open dashboard sockets | append, read; fire and forget | - |
| Schemas, presets | none | data declarations | - |

External: the `ocpp` library (`call()` builds and validates its payload, takes a
lock, sends, waits for the reply or 30 s; one receive loop runs one request
handler at a time, inline), `websockets` and the ASGI server, SQLAlchemy. They
are modelled from how the code uses them and are marked so in the map.

### What is hard here

- **Sequences cut by awaits.** Start, meter loop, stop, reset and boot each make
  several calls, and share `_transaction_id`, `_is_charging`, `_active_connector`
  and `_meter_task` with every other coroutine of the charger.
- **One receive loop.** A handler that makes calls of its own
  (`on_reset`) blocks the loop which alone could read the replies.
- **State kept twice.** The plug is in the EV and in the charger; a transaction is
  in the charger, in the EV and in the session; sessions and EVs are in memory
  and in the database.
- **Identity by charger.** The CSMS looks sessions and charge points up by charger
  id, not by the transaction or the websocket the event came from.
- **Failure.** A connection breaks, with its ends noticing at different times;
  calls time out; a coroutine's exception ends a sequence half way.
- **Liveness.** An EV at its target must be stopped, a session closed, the call
  lock given back, a dead websocket forgotten.

### What makes the components correct

- *Charger and EVs*: they agree on what is plugged where; an EV that charges is
  served by the charger's open transaction; calls and stops come to an end.
- *CSMS sessions*: opened and closed once, one at a time; credited with their own
  transaction only; at rest, the open ones are the charger's.
- *Simulator*: an EV that charges reaches its target and is stopped.
- *Registry*: the entry of a charger id is the websocket that the charger uses, and
  goes when it goes; one heartbeat.
- *Fleet, database*: what is in a pool is stored; rows follow memory; a restart
  brings the same fleet back; one EV on a connector.
- *Session records*: stored sessions are only added to and closed; what was answered
  as stored is stored; a deleted charger leaves nothing.
- *Battery*: energy counted is energy gained; the target is met and not overshot;
  the CSMS's figures follow the battery.

`PROJECT.json` lists the components with what is modelled of each, and all
hazards, each at its line and with the properties that watch it.

## 2. The models

### Charging

| Variable | Code |
| --- | --- |
| `charger` | `_is_charging`, `_transaction_id`, `_active_connector`, `_meter_task`, `_status` |
| `connectorStatuses`, `pluggedEvs` | `_connector_statuses`, `_plugged_evs` |
| `issued` | the `uuid4` draws: the n-th transaction id is n |
| `tasks` | the charger's coroutines: what each runs (`kind`), the await it is suspended in (`pc`), the connector, EV and transaction it has captured |
| `caller`, `reply` | who holds the call lock of the `ocpp` library, and what has become of its reply |
| `handler` | the coroutine that runs inside the charger's receive loop |
| `connected`, `uplink`, `downlink` | the websocket and its two directions |
| `sessions` | `SessionManager._sessions`, in insertion order; `credited` is the set of transactions whose meter values and end it took |
| `evs` | `EvPool._evs`; the battery is reduced to `atTarget` |
| `simulator` | where `tick_all` is suspended, and for which EV |
| `resetReply` | the answer to the last `POST /api/commands/reset` |

Actions, by who takes them:

- *Users*: `Connect`, `Disconnect`, `Plug`, `Unplug`, `StartEvCharging`,
  `StopEvCharging`, `StartSession`, `StopSession`, `RequestReset`,
  `ConnectorError`, `PowerLoss`: one REST endpoint each, with its checks.
- *The charger's receive loop*: `OnRequestStartTransaction`,
  `OnRequestStopTransaction`, `OnReset`.
- *The charger's coroutines*: `SendCall` (a call takes the lock and is sent),
  `CallFails`, and one action for each await that returns: `SavingDone`,
  `MeterWakes`, `StartStatusReturns`, `StartedReturns`, `UpdatedReturns`,
  `EndedReturns`, `StopStatusReturns`, `BootReturns`, `NotifyReturns`.
- *The CSMS*: `OnTransactionStarted`, `OnTransactionUpdated`,
  `OnTransactionEnded`, `OnNotification`.
- *The simulator*: `TargetReached` (the tick that fills an EV), `AutoStop`.

`Environment` says what users and the network may do, because different promises
hold under different use:

| Member | Allows |
| --- | --- |
| `overlap` | a command while earlier ones are still running |
| `second_start` | a start while a transaction is open |
| `full_start` | a start for an EV at its target |
| `early_full` | an EV that reaches its target before its start is reported |
| `drop` | the connection drops |
| `reset` | a reset is requested |
| `fault` | a connector error or a power loss is injected |

What was found to hold, by property:

| Property | Holds under |
| --- | --- |
| `PlugAgreement`, `ChargingIsPlugged`, `PlugNeverDisplaces`, `LockDiscipline` | every environment (proved) |
| `CallsComplete`, `StopsComplete` | checked with `overlap`, `full_start`, `drop`, `reset` |
| `OwnEventsOnly`, `ServedByCharger`, the ledger | every environment without `overlap`, `second_start` and `early_full` (proved) |
| `SessionsMatch`, `SessionNamesItsEv`, `StatusHonest` | `fault` (proved); a drop or a reset in the middle of a sequence may break them |
| `AutoStopCompletes`, the fair ledger | `fault` |

Abstractions, each with its reason:

- A request handler and the first segment of the task it creates are one step:
  the handler touches nothing else, and nothing runs in between that
  reads or writes what either does.
- The downlink also holds requests that still wait for the CSMS's own call lock.
- A disconnect is one step, and fails the CSMS's pending requests at once;
  `Connections` has its two halves.
- The EV's battery is one bit. EVs have a positive power and a target they
  can reach, so an EV that charges is not stuck at zero power.
- Sessions and EVs are in memory only: database writes appear as the awaits they
  are in the charger's and the simulator's coroutines (`saving`), not in the CSMS's handlers
  (`SessionStore` has those), and there is no restart (`Fleet` and `SessionStore` have it).
- The CSMS answers within 30 s while connected. The answer to the simulator's request is not lost
  after the handler ran.
- Left out: heartbeats (in `Connections`), change-availability and unlock
  (no state), creation and removal of EVs and chargers (in `Fleet`).

### SessionLedger

What the session records promise: each transaction is `unknown`, `open` or
`closed`; at most one is open, they open in the order of issue, each at most
once; closed is final; with fairness an open one is closed. `ChargingLedger` reads
the ledger off `sessions`: `LedgerEntry(x)` is open if a session of id `x` is active.

### Connections

The websockets a charger id opens, numbered in the order of opening, several at
once: each end's state, the `connect_to_csms` call that opened it, the
endpoint coroutine (`ocpp_websocket`) and the `start()` task at the CSMS; the
charger's `_ws`, `_connection` and heartbeat tasks; the registry's entry.

`Connect`, `HandshakeFails`, `Connected`, `BootReturns`, `BootFails` are the segments of
`connect_to_csms` and the boot; `Disconnect` and `CloseReturns` those of
`disconnect_from_csms`; `HeartbeatEnds` the end of a heartbeat loop; `Accept`,
`Register`, `TaskEnds`, `EndpointEnds` the endpoint, with `Unregister` for
`CsmsRegistry.disconnect`; `Drop` and `Notice` the network.

`Environment`: `reconnect` (connect while connected), `overlap` (connect and
disconnect calls overlap), `drop` (a handshake fails, or a websocket breaks; its ends notice at
different times). `RegisteredIsServed` holds in all of them (proved; `orderly` runs it with `drop`);
`RegistryMatches` and `OneHeartbeat` without `reconnect` and `overlap` (`orderly`, and proved).
`orderly` checks `ClosedIsForgotten` and `ConnectReturns` as well; with all three situations
TLC can still check them for two websockets, and they hold.

`Accept` waits until the CSMS's ready coroutines have run (`LoopIdle`): asyncio
runs everything that is ready before it polls the network again, and a handshake
needs several polls. The status notifications of the boot are merged with the
boot call: they change no state. `websockets.connect` assigns nothing when it raises, and the
endpoint that may have accepted the handshake notices later. The boot of a
reset times out (`reset_answer`), so that only `connect_to_csms` creates heartbeats.
Deleting a charger is in `Fleet` and `SessionStore`; a charger created again
under the same id is in none.

### Fleet

| Variable | Code |
| --- | --- |
| `chargers`, `evs` | `ChargerPool._chargers`, `EvPool._evs`, as functions on the ids they hold |
| `chargerRows`, `evRows` | the tables `chargers` and `evs` |
| `tasks` | requests that wait for the database: what they do, the EV as it was when the save was called (`snapshot`), the row that `db.get` has loaded (`loaded`) |
| `simulator` | `tick_all`: the keys the iteration began with, the EVs still to come, the save under way; or dead |
| `crashes` | restarts so far |

Memory changes at once, a row two awaits later. A save is two steps: it loads the row
(`SaveLoads`, `TickLoads`) and commits the columns that differ from what it loaded
(`Changed`, which is what SQLAlchemy's session does). A commit whose row has gone, or whose
`charger_id` names a charger that has gone, raises: a request ends with it
(`SaveFails`), the simulator's loop dies of it (`TickFails`).

Actions: `CreateCharger`/`ChargerCreated`, `RemoveCharger`/`ChargerRemoved`,
`CreateEv`/`EvCreated`, `RemoveEv`/`EvRemoved` are the pools' operations before and
after their await; `Plug`, `Unplug`, `StartTransaction`, `StopTransaction` change memory and
leave a save behind, after which a stop closes its transaction (`SaveDone`). `TickAll`,
`TickNext`, `TickAllReturns`, `IterationFails`, `AutoStop` are the simulator's walk over
the live dictionary, and `Restart` is the end of the process at any await with the three
`load_from_db` after it. Rows come in no order, so on a connector that several EVs
claim any one of them may end up plugged.

`Environment`: `busy` (requests while the simulator waits for the database),
`overlap` (requests while another one waits), `crash`, `delete_plugged` and
`delete_used` (an EV that is plugged in, a charger that is used, deleted at any
time), `fleet_changes` (EVs created and deleted while another one charges).

Abstractions: the messages between charger and CSMS take no time; a remote stop by
the simulator may or may not reach its charger, but it returns. One that raises, because
its connection breaks before the answer, ends the loop of the simulator: that
outcome is in `Charging` (`simulator.state = "dead"`), not here. Rows of chargers always say Available (`update_status` is called by nobody), so
they carry only the id. New EVs are below their target. All
chargers have the same number of connectors.

### SessionStore

| Variable | Code |
| --- | --- |
| `manager` | `SessionManager._sessions` of one charger, in insertion order |
| `rows` | the tables `sessions` and `meter_values` |
| `handlers` | `on_transaction_event` of the charger's current websocket and of the one before: the await it is in, its event and session, what it has read |
| `charger` | the charger's row: present, deleted, or deleted with `remove_sessions_for_charger` and the registry's `disconnect` done |
| `phase`, `issued`, `metered` | the charger's side: its transaction and the meter values sent |
| `acked` | meter values whose Updated was answered after they were stored |

`OnStarted`, `OnUpdated`, `OnEnded` are the handler up to its first await: the change
in memory. `Insert`, `Load`, `Commit`, `Return` are one await of `SessionRepository`
each; `Return` puts what was read back into the dictionary. `expire_on_commit` is off,
so after the commit only `meter_values` are read again and the other
columns are as loaded, with the handler's own change (`Refreshed`). `Reconnect` leaves
a handler at work behind: its websocket is gone but its task is not cancelled
before the registry's endpoint ends. `DeleteCharger` removes the row with its
cascade, `Forget` clears the dictionary and cancels the registered handler, in one step, as
there is no await between them. `Restart` is `load_from_db` in a new process. The charger
sends its next event when the last one is answered, as the call lock makes it; that its events
arrive in this order is the subject of `Charging`. An insert fails when the charger's row
has gone or the session's is there, a commit when its row has gone; other database errors are
left out. A deleted charger is not created again.

### Battery

Exact numbers: a unit of charge is a hundredth of a kilowatt for a second, one percent
of a battery of `n` kWh is `3600 * n` units, and every step of the curve is a whole
number of units a second. `ev`, `chargerMax`, `register` (`_energy_wh`), `session`
(the CSMS's figures), `metering` (`_is_charging`), and `ticks`, the battery's seconds
since the last meter sample. `Tick` is a second of the simulator, `Sample` a round of
`_meter_loop` with the Updated it sends and `add_meter_value`; the two loops sleep one and five seconds on their
own, so between two samples a charging EV is ticked `TicksMin` to
`TicksMax` times. `Start` and `Stop` reset what the code resets, in three objects; `Plug` and `Unplug`
change the charger, and with it the limit.

What it leaves to the reader to judge, since the code does so and no text says
otherwise: the last sample before a stop is lost, because Ended's meter value is not read
(`csms_handler.py:204`); an EV that is full and unplugged before its stop makes the
meter report 20 % (`charger.py:59`); `tick` counts the last second in whole though the
battery is capped (`ev.py:109`); no schema bounds capacity (0 divides by zero), power,
SoC or target.

## 3. The runs

### That pass

| Run | Instance | States | Shows |
| --- | --- | --- | --- |
| `disciplined` | 2 connectors, 2 EVs, 2 transactions, 3 coroutines; `fault` | 135 k | one user at a time: at rest, sessions, transaction, EVs and connector statuses tell one story (`SessionsMatch`, `SessionNamesItsEv`, `StatusHonest`); every charge ends and its session is closed (`AutoStopCompletes`, the fair ledger) |
| `disrupted` | 2 connectors, 2 EVs, 2 transactions, 3 coroutines; `full_start`, `drop`, `reset`, `fault` | 944 k | sessions take their own events only and implement the ledger, no EV charges without its transaction, EV pool and charger agree on the plugs and no EV displaces another, through disconnections, resets, faults and refused starts |
| `progress` | 1 connector, 1 EV, 1 transaction, 2 coroutines; `overlap`, `full_start`, `drop`, `reset` | 159 k | whatever overlaps, the call lock is held inside a call only, an EV that charges is plugged in and has a transaction; every call gives the lock back, every stop ends |
| `orderly` | 4 websockets; `drop` | 34 k | the registry never keeps a charge point whose endpoint has gone; registry and heartbeat follow the current websocket, and a connected charger beats; nothing waits for ever |
| `restarted` | 1 charger, 2 connectors, 2 EVs, 2 requests, 2 restarts; `crash` | 314 k | crashes at any await: plugs and rows agree (but for the late save of a start), a restart at rest keeps the plugs, every charge ends |
| `reshaped` | 1 charger, 2 connectors, 2 EVs, 2 requests; `delete_plugged`, `delete_used`, `fleet_changes` | 574 k | pools are stored and connectors hold one EV under any creation and deletion |
| `sessions` | 3 transactions, 2 meter values each, 2 reconnections, 2 restarts | 448 k | stored sessions only advance, what was answered is stored, a deleted charger leaves nothing, memory and rows agree at rest |
| `battery` | 1 kWh; EV limit 150 kW; chargers of 0, 50, 350 kW; targets 80, 100, 110 %; from 65 and 92 %; 4 to 6 ticks a sample; 2 transactions | 981 k | energy accounted for, target met, session figures within their bounds, every charge ends |

Bounds, and why they suffice. `MaxTransactions`: two transactions are the least
in which one can be mistaken for the other; in `SessionStore` a third meets what two left
behind. `Tasks` of `Charging` bounds the coroutines alive together, through `Room`, which
keeps a slot for each request under way: start, meter and stop need two or
three. Two connectors and two EVs are what plugging over an occupied
connector and a start on the other connector need. `MaxSockets`: a third
websocket meets the cleanup of the first while the second is current. At most
one `disconnect_from_csms` awaits at a time. `Fleet`: two EVs make the walk one that can be
interrupted between them; a second restart meets what the first one loaded; two
requests are a deletion and what it interferes with, and let the save of a start come after that
of the stop which follows it. `SessionStore`: two
reconnections leave one handler behind and, once that is done, another one.
`Battery`: a battery of 1 kWh takes 4 % a second at 150 kW, so that steps of the
curve are skipped, reached exactly and passed within a second, and no counter has to be capped.
Liveness runs use no symmetry.

`CHECK_DEADLOCK FALSE` is set for `Connections` and `SessionStore` only: there the system may
stop, with a charger that nobody connects again, or one that is deleted.

Fairness. Every ready coroutine runs (weak fairness of each coroutine's
resumption, of the receive loop and of the CSMS); `asyncio.Lock` is FIFO, so a
call that waits gets it (strong fairness of `SendCall`, since the lock is
taken by others in between); an EV with positive power reaches its target; a
closed end of a websocket is noticed. In `Fleet` the database answers and the
simulator takes its steps (weak fairness of `Answer` and `SimulatorStep`), and an EV that is ticked again
and again fills up (strong fairness of `FillUp`: a tick adds charge, as `Battery`
has it). In `Battery` the two loops go round (weak fairness of `Tick` and `Sample`),
and that every charge ends is shown from the numbers. Nothing is assumed of users, of the
network's breaks or of faults.

### That show a disagreement

Each checks one property that the documentation or the code states, and TLC finds
it violated; the quotations are with the findings in `PROJECT.json`.

| Run | What happens |
| --- | --- |
| `offline_auto_stop` | An EV fills up while its charger is disconnected; `tick_all` asks for the stop once, fails, and never again. |
| `reset_answer` | `on_reset` awaits its own calls inside the receive loop, which alone reads the replies: timeout, error. |
| `stale_cleanup` | The endpoint of a broken websocket cleans up late, by charger id, and removes its successor's entry. |
| `simulator_death` | An EV is created or deleted while `tick_all` awaits the database inside its walk over `_evs`; the iteration raises and nothing catches it. |

Widening the `Environment` of the passing runs shows more of the kind, which is
why the situations are named:

| Situation | What breaks |
| --- | --- |
| `full_start` | `_start_transaction` opens the transaction before `EvPool.start_charging` refuses an EV at its target (`charger.py:289`); nothing stops it (`TargetIsStopped`). |
| `early_full` | Between the EV's start (`charger.py:291`) and the Started sent at line 316 the EV may fill up; Ended finds no session, and the late Started opens one for good (`SessionsMatch`). |
| `second_start` | Updated and Ended go to the charger's first active session, whatever transaction they name (`csms_handler.py:196`): a second transaction's meter values to the first one's session (`OwnEventsOnly`). |
| `overlap` | The last statement of an old stop (`charger.py:371`) clears the id of a transaction started meanwhile: its EV charges and cannot be stopped (`ServedByCharger`). |
| `overlap`, `second_start` | Two overlapping starts send Started twice with the later id; after a stop in between, `create_session` (`session_manager.py:44`) reopens a completed session (`ImplementsLedger`). |
| `reconnect` | `connect_to_csms` does not look at `_ws` (`charger.py:118`): the first websocket's endpoint, receive loop and heartbeat go on beside the second's (`OneHeartbeat`, `RegistryMatches`). |
| `overlap` (`Connections`) | `disconnect_from_csms` clears `_ws` after its await (`charger.py:133`) though a connect has replaced it: registered, but shown as disconnected (`RegistryMatches`). |
| none (`Fleet`) | Nobody but the start sequence awaits the save in `EvPool.start_charging` (`ev_pool.py:168`): the simulator may tick the EV full, save it and have it stopped and saved again meanwhile. The commits come in any order, and the row may keep the EV as it was at its start. `RowsMatch` allows that much and no more: the plug is right, an EV that is idle or charges is stored as it is, and a row is full only if the EV is. |
| `busy` or `overlap` with `crash` (`Fleet`) | The snapshot of an older save is committed after that of a later plug or unplug, and a restart brings the older one back (`PlugsAgree`, `RowsMatch`). |
| `busy` (`Fleet`) | An EV unplugged, or stopped and unplugged, while the simulator's save of it waits is written back as it was at the tick (`RowsMatch`). |
| `delete_plugged` | `remove` takes the EV out of the pool before it raises for one that charges, and `unplug` no longer finds one that is plugged (`ev_pool.py:204`): the request fails, the EV is gone from memory but not from the charger's plug or the table (`PlugsAgree`, `RowsMatch`). |
| `delete_used` | The EVs of a deleted charger keep its id (`charger_pool.py:81`), and a save that writes it violates the foreign key; in the simulator's save that ends the loop (`SimulatorSurvives`, `PlugsAgree`). |
| `crash` (`Fleet`) | EVs come back charging, for chargers without a transaction (`ev_pool.py:40`): the simulator fills them up (`ChargingEnds`), but no session, meter or stop goes with it. |
| `overlap` with `crash` (`Fleet`) | An EV unplugged and another one plugged in, with a crash between the two commits, come back on one connector: `OneEvOnConnector` is proved without `crash`. |
| reconnections (`SessionStore`) | An Ended handled before the insert of its Started finds no row to close, and the row stays active; a handler left behind writes an older copy of a session back into memory, or puts a session of a deleted charger there (`ManagerMatchesRows`, `RowsTellTheTruth`, `ForgottenStaysForgotten`). |
| restart (`SessionStore`) | A session active at the crash stays active and, as the first one found, takes the next transaction's events (`RowsTellTheTruth`). |

## 4. The proofs

All for any number of connectors, chargers, EVs, coroutines, requests, transactions, websockets
and restarts, and for every `Environment` unless the theorem says otherwise. Assumed: at least one connector
(`ConnectorCountAssumption`), natural bounds, `None` neither an EV nor a
coroutine, `Environment` among the situations; for `Battery`, a positive capacity, natural
limits and targets, and at least one tick between two samples of a charging EV (`BatteryAssumption`). No theorem needs a bound to be
small or a set to be finite.

| Theorem | Statement | Argument |
| --- | --- | --- |
| `TypeCorrect` | `[]TypeOK` | inductive as it stands, one lemma for each group of actions; the shared helpers (`Raise`, `CallWithTransaction`, `BeginStop`, `Handle`) have lemmas of their own |
| `PlugsAgree`, `ChargingPlugged` | `[]PlugAgreement`, `[]ChargingIsPlugged` | `PlugInv`: both with `TypeOK`. They need each other: a start puts an EV into `charging` that the *charger* has as plugged, and an unplug clears the charger's record by the *EV's* connector. `PlugSteps` reduces `Next` to the ways in which a step may touch plug or EVs |
| `PlugsNeverDisplaced` | the action property `PlugNeverDisplaces` | only `Plug` writes an EV to a connector; `get_by_connector` looks at the EVs, not at the charger, so it takes the agreement to conclude that the charger's slot is empty |
| `LockIsDisciplined` | `[]LockDiscipline` | `LockInv`: with `TypeOK`. Every helper that ends or replaces a coroutine releases the lock exactly if it was the caller; a free slot is never the caller; the CSMS reads from the front of the uplink, so the awaited message stays the last until it is read |
| `ConnectionsTypeCorrect` | `[]TypeOK` | inductive as it stands: a heartbeat is created by its own boot, and a websocket's number is used once |
| `RegistryIsServed` | `[]RegisteredIsServed` | `ServedInv` adds `TypeOK` and that a running `start()` task has an endpoint that serves. Needed because an endpoint cleans up by charger id: it can never leave another dead one's entry behind, it may only take a live one's away (`stale_cleanup`) |
| `RegistryIsRight`, `HeartbeatIsOne` | `[]RegistryMatches`, `[]OneHeartbeat`, if `Environment` has neither `reconnect` nor `overlap` | `OrderInv`: `ServedInv`, and for each websocket its place in the order of opening (`InTurn`), that an open end at the charger is the websocket it holds, the last one opened (`Held`), and that a heartbeat is that websocket's, exists since its boot and ends with its answers, and its running `start()` task is the registered one (`Current`). At rest the registered endpoint serves (`RegisteredIsServed`), on a websocket that nobody has left |
| `EventsAreOwn`, `ChargingServed` | `[]OwnEventsOnly`, `[]ServedByCharger`, if `Environment` has none of `overlap`, `second_start`, `early_full` | `LedgerInv`: `PlugInv`, `LockInv`, and `OrderInv`, which follows a transaction through charger, websocket and records: a start waits and runs alone; metering goes with `isCharging`, stopping with its end; every event on its way and every active record is of the transaction drawn last; a transaction has no record until its Started is handled, and no active one once its Ended is |
| `RecordsImplementLedger` | `ImplementsLedger`, under the same hypothesis | each step maps to a step of `SessionLedger` or a stutter: only `OnTransactionStarted` and `OnTransactionEnded` move the ledger, and `LedgerInv` has it that the first finds no active record and no record of its transaction, and the second the active one |
| `SessionsAgree`, `SessionsNameTheirEv`, `StatusesHonest` | `[]SessionsMatch`, `[]SessionNamesItsEv`, `[]StatusHonest`, if `Environment` is within `fault` (`Calm`) | `RestInv`: `LedgerInv`, and `RestOrder`, which says what is still to come of every sequence under way. All that starts, stops and is reported is about the active connector and the EV on it (`OnActiveConnector`); a transaction over for the charger has a coroutine that stops it, one without active record a start still to be reported or a stop whose Ended is answered (`SequencesGoOn`); the EV charges or the simulator is about to have it stopped (`ChargeGoesOn`). At rest none of these is left, and what remains is the agreement |
| `FleetProofs!TypeCorrect` | `[]TypeOK` | `TypeInv` adds that a request of kind `k` carries what `k` needs (`Complete`): a save has an EV and its snapshot, a creation a charger or an EV |
| `PoolsStored` | `[]PoolsAreStored` | `TypeOK` with `ChargersStored` and `EvsStored`: what a request is deleting is out of the pool, still has its row, and is deleted by one request. Without this a late delete could take the row of a charger created again meanwhile; the insert of such a one fails, because its row is still there |
| `OneEvOnConnector` | `"crash" \notin Environment => []OneEvPerConnector` | with `TypeOK`, and that a snapshot of a creation is unplugged (`Unplugging`): the only step that writes a connector into memory is `Plug`, which has looked at all EVs |
| `PlugsAgreed`, `RowsMatched`, `PlugsKept` | `[]PlugsAgree`, `[]RowsMatch`, `RestartKeepsPlugs`, if `Environment` is within `crash`, `fleet_changes` (`Patient`) | `PatientInv`: the plugs agree; requests wait alone, but for stops that the simulator asks for; and, EV by EV and column by column, a row is right or a save under way will set it right (`RowsInv`), because what SQLAlchemy takes for unchanged since the load still is. The row of an EV just plugged in or out may be one plug behind, never more, and then the EV does not charge: a crash cannot bring two EVs back on one connector |
| `SessionStoreProofs!TypeCorrect` | `[]TypeOK` | `TypeInv` adds that an Updated at work has a meter value, and that nothing is at work before the first transaction. The step for `Restart` needs that `list_all` returns each row once, by counting the rows that are newer |
| `RowsNeverGoBack` | the action property `RowsOnlyAdvance` | from `TypeInv`: every commit writes only the columns its handler changes, on the row as it is then |
| `AnsweredIsStored` | `[]AckedIsStored` | `StoredInv`: a handler that returns from an Updated has its value in the rows already, also one left behind |
| `ForgottenForGood` | `[]ForgottenStaysForgotten` | `ForgottenInv`: without reconnections there is one handler, and once the charger is deleted nothing starts another; the rows are gone and cannot be inserted again |
| `ManagerIsRows`, `RowsAreTrue` | `[]ManagerMatchesRows`, `[]RowsTellTheTruth` | `ManagerInv`: without reconnections the dictionary holds the rows with the change of the handler at work applied (`Due`), at each of its awaits; until the first restart every record but the last is closed. A restart builds a dictionary that matches (`FromRowsMatch`) |
| `BatteryProofs!TypeCorrect` | `[]TypeOK` | inductive as it stands |
| `EnergyIsAccounted`, `ChargeStopsAtTarget` | `[]EnergyAccounted`, `[]StopsAtTarget` | the power of a second is between 0 and `Peak`, and 0 at the target and at 100 % |
| `MeterIsHonest` | `[]MeterHonest` | the key lemma is that power does not rise while the charge does. `Bounds` then says that the ticks since the last sample were worth at least what they would be worth at the power of now, and those still to come at most that |
| `SocFollows` | `[]SessionSocFollows` | the sample is the battery's charge cut to whole percents, and each tick since adds at most `Peak` |

Only model-checked:

- all liveness (fairness and `ENABLED` are beyond the prover): `CallsComplete`,
  `StopsComplete`, `AutoStopCompletes`, the fair ledger, `ClosedIsForgotten`,
  `ConnectReturns`, `ChargingEnds`, `ChargeEnds`.

Every other property of a run that passes is stated by a theorem.

## 5. Not modelled

- **OCPP message log** (`ocpp_log/logger.py`): a ring buffer, one step to append and one
  to read. `messages[-limit:]` returns everything for limit 0; a unit test shows it.
- **Dashboard broadcast** (`api/ws.py`): fire and forget, nothing reads it back.
- **Schemas and presets**: data. The records of the models have the fields that matter.
- **Read-only endpoints**, wording of logs and errors, telemetry that is only shown.
- **Change-availability and unlock**: answered, with no state changed. `MeterValues`
  and `Authorize` handlers: this charger never sends them.
- **`EvPool.persist`, `ChargerRepository.update_status`**: called by nobody. Creation and migration
  of the tables: once, before anything runs.
- **Floating point**: `Battery` is exact, so a charge that in floats stops a rounding error short of its
  target, and takes one more tick, is not told apart.
- **Several chargers at once** in `Charging`, `Connections` and `SessionStore`: chargers share the simulator and the
  pools only, which `Fleet` has. TLC runs `Fleet` with one charger; its proofs are for any number.

What would come next: what is left of `SessionsMatch` and `StatusHonest` after a drop or a
reset in the middle of a sequence, as properties of their own; and the charger and the
session store in one model, now joined by the ledger only.
