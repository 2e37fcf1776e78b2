-------------------------------- MODULE Fleet --------------------------------
(***************************************************************************)
(* The fleet: the chargers and EVs of the two pools, their rows in the     *)
(* database, the simulator that walks over the EVs, and the restart that   *)
(* builds the pools from the rows again.                                   *)
(*                                                                         *)
(* Memory changes at once, a row changes two awaits later: a save loads    *)
(* the row and then commits the columns that differ from what it loaded.   *)
(* The messages between a charger and the CSMS are the subject of module   *)
(* Charging: here a request reaches its charger whenever it likes, and the *)
(* calls a charger makes take no time.                                     *)
(*                                                                         *)
(* The database is external: a commit is atomic, refuses a duplicate key   *)
(* or a reference to a missing charger, and fails when its row has gone.   *)
(***************************************************************************)
EXTENDS Integers, FiniteSets

CONSTANTS
    Chargers,         \* charger ids
    Evs,              \* EV ids
    ConnectorCount,   \* config.connector_count, the same for every charger
    Tasks,            \* bound: how many requests may be under way at once
    MaxCrashes,       \* bound: how often the process may be restarted
    None,             \* no charger, no EV, no row
    Environment       \* what users and the host may do: see Situations

\* busy: a request may arrive while the simulator waits for the database
\* overlap: a request may arrive while an earlier one waits for the database
\* crash: the process may stop at any await and be started again
\* delete_plugged: an EV may be deleted at any time, while it is plugged in and
\* while requests about it are under way
\* delete_used: a charger may be deleted at any time, while EVs are plugged in
\* fleet_changes: EVs may be created and deleted while another one charges
Situations == {"busy", "overlap", "crash", "delete_plugged", "delete_used", "fleet_changes"}

ASSUME ConnectorCountAssumption == ConnectorCount \in Nat \ {0}
ASSUME MaxCrashesAssumption == MaxCrashes \in Nat
ASSUME NoneAssumption == None \notin Chargers \cup Evs
ASSUME EnvironmentAssumption == Environment \subseteq Situations

Connectors == 1 .. ConnectorCount
NoConnector == 0

VARIABLES
    chargers,      \* ChargerPool._chargers, a function on the ids it holds
    evs,           \* EvPool._evs, a function on the ids it holds
    chargerRows,   \* table chargers: the ids
    evRows,        \* table evs: a function on the ids
    tasks,         \* the requests that wait for the database
    simulator,     \* the loop over the EVs, and where it waits
    crashes        \* restarts so far

memory == <<chargers, evs>>
database == <<chargerRows, evRows>>
vars == <<memory, database, tasks, simulator, crashes>>

-----------------------------------------------------------------------------
(* Types                                                                   *)

\* The columns of EvRecord that matter here; session: session_id is set.
Ev == [status : {"idle", "plugged", "charging", "full"},
       charger : Chargers \cup {None}, connector : Connectors \cup {NoConnector},
       session : BOOLEAN, atTarget : BOOLEAN]

Charger == [plugged : [Connectors -> Evs \cup {None}],
            statuses : [Connectors -> {"Available", "Preparing", "Charging"}],
            activeConnector : Connectors, isCharging : BOOLEAN, transaction : BOOLEAN]

\* A request: what it does, for which EV and charger, the EV as it was when
\* the save was called, and the row the save has loaded.
Task == [kind : {"none", "create_charger", "remove_charger", "create_ev",
                 "remove_ev", "save", "stop"},
         ev : Evs \cup {None}, charger : Chargers \cup {None}, connector : Connectors,
         snapshot : Ev \cup {None}, loaded : Ev \cup {None}]

Simulator == [state : {"resting", "saving", "saved", "next", "dead"},
              keys : SUBSET Evs, todo : SUBSET Evs, ev : Evs \cup {None},
              snapshot : Ev \cup {None}, loaded : Ev \cup {None}]

-----------------------------------------------------------------------------
(* State formulae and helpers                                              *)

Free == [kind |-> "none", ev |-> None, charger |-> None, connector |-> 1,
         snapshot |-> None, loaded |-> None]
Resting == [state |-> "resting", keys |-> {}, todo |-> {}, ev |-> None,
            snapshot |-> None, loaded |-> None]

FreeTasks == {t \in Tasks : tasks[t].kind = "none"}
NoRequest == FreeTasks = Tasks
NoSave == NoRequest /\ simulator.state \notin {"saving", "saved"}

MayCommand ==
    /\ NoRequest \/ "overlap" \in Environment
    /\ simulator.state \notin {"saving", "saved"} \/ "busy" \in Environment

\* No EV is being created or deleted under the simulator's feet.
MayChangeFleet == \/ "fleet_changes" \in Environment
                  \/ /\ simulator.state \in {"resting", "dead"}
                     /\ \A e \in DOMAIN evs : evs[e].status # "charging"

Extend(f, x, v) == [y \in DOMAIN f \cup {x} |-> IF y = x THEN v ELSE f[y]]
Without(f, x) == [y \in DOMAIN f \ {x} |-> f[y]]

\* VirtualChargerClient.__init__
NewCharger == [plugged |-> [c \in Connectors |-> None],
               statuses |-> [c \in Connectors |-> "Available"],
               activeConnector |-> 1, isCharging |-> FALSE, transaction |-> FALSE]

\* VirtualChargerClient.plug_ev
PlugInto(charger, c, e) == [charger EXCEPT !.plugged[c] = e, !.statuses[c] = "Preparing"]

\* Mutant: the charger does not forget the EV.
StillPlugged(charger, c) ==
    [charger EXCEPT !.statuses[c] = IF charger.isCharging /\ charger.activeConnector = c
                                    THEN @ ELSE "Available"]

\* VirtualChargerClient.unplug_ev
UnplugFrom(charger, c) ==
    [charger EXCEPT !.plugged[c] = None,
                    !.statuses[c] = IF charger.isCharging /\ charger.activeConnector = c
                                    THEN @ ELSE "Available"]

\* EvPool.create
NewEv(atTarget) == [status |-> "idle", charger |-> None, connector |-> NoConnector,
                    session |-> FALSE, atTarget |-> atTarget]

\* Mutant: the connector is counted from 0 on one side and from 1 on the other.
PluggedNext(ev, k, c) == [ev EXCEPT !.charger = k, !.connector = c + 1, !.status = "plugged"]

\* VirtualEvClient.plug, unplug, start_charging, stop_charging
Plugged(ev, k, c) == [ev EXCEPT !.charger = k, !.connector = c, !.status = "plugged"]
Unplugged(ev) == NewEv(ev.atTarget)
Started(ev) == [ev EXCEPT !.session = TRUE, !.status = "charging"]
Stopped(ev) == [ev EXCEPT !.session = FALSE,
                          !.status = IF ev.charger # None THEN "plugged" ELSE "idle"]

\* Mutant: the target has to be met exactly, and is stepped over.
TickedPast(ev) == {ev}

\* VirtualEvClient.tick of an EV that charges: the target may be reached.
Ticked(ev) == {[ev EXCEPT !.status = "full", !.atTarget = TRUE]}
              \cup IF ev.atTarget THEN {} ELSE {ev}

-----------------------------------------------------------------------------
(* EvRepository.update: w is the task or the simulator that saves          *)

\* Mutant: the save forgets the session.
ChangedButSession(w) ==
    {column \in DOMAIN w.snapshot \ {"session"} : w.snapshot[column] # w.loaded[column]}

\* SQLAlchemy writes the columns that differ from the row it has loaded.
Changed(w) == {column \in DOMAIN w.snapshot : w.snapshot[column] # w.loaded[column]}

Merged(row, w) == [column \in DOMAIN row |->
                      IF column \in Changed(w) THEN w.snapshot[column] ELSE row[column]]

\* The row has gone, or the charger it is to refer to has.
CommitFails(w) ==
    /\ Changed(w) # {}
    /\ \/ w.ev \notin DOMAIN evRows
       \/ "charger" \in Changed(w) /\ w.snapshot.charger \notin chargerRows \cup {None}

\* db.commit: the second one.
Commits(w) ==
    /\ w.loaded # None
    /\ ~CommitFails(w)
    /\ evRows' = IF Changed(w) = {} THEN evRows
                 ELSE [evRows EXCEPT ![w.ev] = Merged(@, w)]

\* The save of ev, an EV changed by request t.
Save(t, kind, e, k, c, ev) ==
    tasks' = [tasks EXCEPT ![t] = [kind |-> kind, ev |-> e, charger |-> k,
                                   connector |-> c, snapshot |-> ev, loaded |-> None]]

-----------------------------------------------------------------------------
(* Chargers                                                                *)

\* POST /api/chargers: the insert is under way.
CreateCharger(t, k) ==
    /\ MayCommand /\ t \in FreeTasks
    /\ k \notin DOMAIN chargers
    /\ tasks' = [tasks EXCEPT ![t] = [Free EXCEPT !.kind = "create_charger", !.charger = k]]
    /\ UNCHANGED <<memory, database, simulator, crashes>>

\* The row, then the charger; with a row of that id already there it raises.
ChargerCreated(t) ==
    LET k == tasks[t].charger
    IN  /\ tasks[t].kind = "create_charger"
        /\ IF k \in chargerRows
           THEN UNCHANGED <<chargers, chargerRows>>
           ELSE /\ chargerRows' = chargerRows \cup {k}
                /\ chargers' = Extend(chargers, k, NewCharger)
        /\ tasks' = [tasks EXCEPT ![t] = Free]
        /\ UNCHANGED <<evs, evRows, simulator, crashes>>

\* Mutant: the charger is looked up and stays in the pool.
RemoveChargerKept(t, k) ==
    /\ t \in FreeTasks
    /\ k \in DOMAIN chargers
    /\ \/ "delete_used" \in Environment
       \/ MayCommand /\ chargers[k].plugged = NewCharger.plugged
    /\ tasks' = [tasks EXCEPT ![t] = [Free EXCEPT !.kind = "remove_charger", !.charger = k]]
    /\ UNCHANGED <<memory, database, simulator, crashes>>

\* DELETE /api/chargers/{id}: out of the pool at once, and disconnected.  What
\* its coroutines still do to the object no longer matters to the pool.
RemoveCharger(t, k) ==
    /\ t \in FreeTasks
    /\ k \in DOMAIN chargers
    /\ \/ "delete_used" \in Environment
       \/ MayCommand /\ chargers[k].plugged = NewCharger.plugged
    /\ chargers' = Without(chargers, k)
    /\ tasks' = [u \in Tasks |->
                    IF u = t THEN [Free EXCEPT !.kind = "remove_charger", !.charger = k]
                    ELSE IF tasks[u].kind = "stop" /\ tasks[u].charger = k
                         THEN [tasks[u] EXCEPT !.charger = None]
                         ELSE tasks[u]]
    /\ UNCHANGED <<evs, database, simulator, crashes>>

\* ON DELETE SET NULL: the EVs lose the charger, and nothing else.
Detached(k) == [e \in DOMAIN evRows |->
                   IF evRows[e].charger = k THEN [evRows[e] EXCEPT !.charger = None]
                   ELSE evRows[e]]

ChargerRemoved(t) ==
    LET k == tasks[t].charger
    IN  /\ tasks[t].kind = "remove_charger"
        /\ chargerRows' = chargerRows \ {k}
        /\ evRows' = Detached(k)
        /\ tasks' = [tasks EXCEPT ![t] = Free]
        /\ UNCHANGED <<memory, simulator, crashes>>

-----------------------------------------------------------------------------
(* EVs                                                                     *)

\* POST /api/evs: the insert is under way.  Bound: every EV is created below its
\* target, one that is at its target got there by charging.
CreateEv(t, e) ==
    /\ MayCommand /\ MayChangeFleet /\ t \in FreeTasks
    /\ e \notin DOMAIN evs
    /\ Save(t, "create_ev", e, None, 1, NewEv(FALSE))
    /\ UNCHANGED <<memory, database, simulator, crashes>>

\* The row, then the EV; with a row of that id already there it raises.
EvCreated(t) ==
    LET e == tasks[t].ev
    IN  /\ tasks[t].kind = "create_ev"
        /\ IF e \in DOMAIN evRows
           THEN UNCHANGED <<evs, evRows>>
           ELSE /\ evRows' = Extend(evRows, e, tasks[t].snapshot)
                /\ evs' = Extend(evs, e, tasks[t].snapshot)
        /\ tasks' = [tasks EXCEPT ![t] = Free]
        /\ UNCHANGED <<chargers, chargerRows, simulator, crashes>>

\* DELETE /api/evs/{id}: out of the pool first.  An EV that charges is then
\* refused, and for a plugged one unplug does not find it any more: both raise.
RemoveEv(t, e) ==
    /\ MayChangeFleet /\ t \in FreeTasks
    /\ e \in DOMAIN evs
    /\ \/ "delete_plugged" \in Environment
       \/ MayCommand /\ evs[e].charger = None
    /\ evs' = Without(evs, e)
    /\ tasks' = IF evs[e].status = "charging" \/ evs[e].charger # None THEN tasks
                ELSE [tasks EXCEPT ![t] = [Free EXCEPT !.kind = "remove_ev", !.ev = e]]
    /\ UNCHANGED <<chargers, database, simulator, crashes>>

EvRemoved(t) ==
    /\ tasks[t].kind = "remove_ev"
    /\ evRows' = Without(evRows, tasks[t].ev)
    /\ tasks' = [tasks EXCEPT ![t] = Free]
    /\ UNCHANGED <<memory, chargerRows, simulator, crashes>>

\* Mutant: only an EV that charges occupies its connector.
ConnectorIdle(k, c) ==
    \A e \in DOMAIN evs : ~(/\ evs[e].charger = k /\ evs[e].connector = c
                            /\ evs[e].status = "charging")

\* get_by_connector finds no EV.
ConnectorFree(k, c) ==
    \A e \in DOMAIN evs : ~(evs[e].charger = k /\ evs[e].connector = c)

\* POST /api/evs/{id}/plug
Plug(t, e, k, c) ==
    /\ MayCommand /\ t \in FreeTasks
    /\ e \in DOMAIN evs
    /\ evs[e].charger = None /\ evs[e].status # "charging"
    /\ ConnectorFree(k, c)
    /\ k \in DOMAIN chargers
    /\ chargers[k].statuses[c] \in {"Available", "Preparing"}
    /\ evs' = [evs EXCEPT ![e] = Plugged(@, k, c)]
    /\ chargers' = [chargers EXCEPT ![k] = PlugInto(@, c, e)]
    /\ Save(t, "save", e, None, 1, evs'[e])
    /\ UNCHANGED <<database, simulator, crashes>>

\* POST /api/evs/{id}/unplug
Unplug(t, e) ==
    LET k == evs[e].charger
        c == evs[e].connector
    IN  /\ MayCommand /\ t \in FreeTasks
        /\ e \in DOMAIN evs
        /\ evs[e].status # "charging"
        /\ evs' = [evs EXCEPT ![e] = Unplugged(@)]
        /\ chargers' = IF k \in DOMAIN chargers /\ c # NoConnector
                       THEN [chargers EXCEPT ![k] = UnplugFrom(@, c)] ELSE chargers
        /\ Save(t, "save", e, None, 1, evs'[e])
        /\ UNCHANGED <<database, simulator, crashes>>

-----------------------------------------------------------------------------
(* Transactions: what they do to the charger, to the pool and to the row   *)

\* EvPool.start_charging accepts the EV.
Chargeable(e) == e \in DOMAIN evs /\ evs[e].charger # None /\ ~evs[e].atTarget

\* _start_transaction: the charger is set before EvPool may refuse.
StartTransaction(t, k, c) ==
    LET e == chargers[k].plugged[c]
    IN  /\ MayCommand /\ t \in FreeTasks
        /\ k \in DOMAIN chargers
        /\ ~chargers[k].transaction \/ "overlap" \in Environment
        /\ e # None
        /\ chargers' = [chargers EXCEPT ![k].transaction = TRUE, ![k].isCharging = TRUE,
                                        ![k].activeConnector = c,
                                        ![k].statuses[c] = "Charging"]
        /\ IF Chargeable(e)
           THEN /\ evs' = [evs EXCEPT ![e] = Started(@)]
                /\ Save(t, "save", e, None, 1, evs'[e])
           ELSE UNCHANGED <<evs, tasks>>
        /\ UNCHANGED <<database, simulator, crashes>>

\* The end of _stop_transaction on connector c, where it saw EV e.
Closed(charger, c, e) ==
    [charger EXCEPT !.transaction = FALSE,
                    !.statuses[c] = IF e # None THEN "Preparing" ELSE "Available"]

\* _stop_transaction, run by t: an EV that has gone makes it raise half-way.
BeginStop(t, k) ==
    LET c == chargers[k].activeConnector
        e == chargers[k].plugged[c]
        idle == [chargers[k] EXCEPT !.isCharging = FALSE]
    IN  IF ~chargers[k].transaction
        THEN UNCHANGED <<memory, tasks>>
        ELSE IF e = None
        THEN /\ chargers' = [chargers EXCEPT ![k] = Closed(idle, c, e)]
             /\ UNCHANGED <<evs, tasks>>
        ELSE /\ chargers' = [chargers EXCEPT ![k] = idle]
             /\ IF e \in DOMAIN evs
                THEN /\ evs' = [evs EXCEPT ![e] = Stopped(@)]
                     /\ Save(t, "stop", e, k, c, evs'[e])
                ELSE UNCHANGED <<evs, tasks>>

StopTransaction(t, k) ==
    /\ MayCommand /\ t \in FreeTasks
    /\ k \in DOMAIN chargers /\ chargers[k].transaction
    /\ BeginStop(t, k)
    /\ UNCHANGED <<database, simulator, crashes>>

-----------------------------------------------------------------------------
(* The saves of the requests                                               *)

\* After a stop's save its transaction ends, if the charger is still there.
SaveDone(t) ==
    /\ tasks' = [tasks EXCEPT ![t] = Free]
    /\ chargers' = IF tasks[t].kind = "stop" /\ tasks[t].charger \in DOMAIN chargers
                   THEN [chargers EXCEPT ![tasks[t].charger] =
                            Closed(@, tasks[t].connector, tasks[t].ev)]
                   ELSE chargers

SaveLoads(t) ==
    /\ tasks[t].kind \in {"save", "stop"}
    /\ tasks[t].loaded = None
    /\ IF tasks[t].ev \in DOMAIN evRows
       THEN /\ tasks' = [tasks EXCEPT ![t].loaded = evRows[tasks[t].ev]]
            /\ UNCHANGED chargers
       ELSE SaveDone(t)
    /\ UNCHANGED <<evs, database, simulator, crashes>>

SaveCommits(t) ==
    /\ tasks[t].kind \in {"save", "stop"}
    /\ Commits(tasks[t])
    /\ SaveDone(t)
    /\ UNCHANGED <<evs, chargerRows, simulator, crashes>>

\* The request ends with the exception, a stop without closing its transaction.
SaveFails(t) ==
    /\ tasks[t].kind \in {"save", "stop"} /\ tasks[t].loaded # None
    /\ CommitFails(tasks[t])
    /\ tasks' = [tasks EXCEPT ![t] = Free]
    /\ UNCHANGED <<memory, database, simulator, crashes>>

-----------------------------------------------------------------------------
(* The simulator: one walk over the dictionary of EVs each second          *)

\* An entry has been added to the dictionary or taken out of it.
Resized == Cardinality(DOMAIN evs) # Cardinality(simulator.keys)

\* One EV that charges is ticked and its save begins.
TickEv(e, keys, todo) ==
    /\ e \in DOMAIN evs /\ evs[e].status = "charging"
    /\ \E ev \in Ticked(evs[e]) :
           /\ evs' = [evs EXCEPT ![e] = ev]
           /\ simulator' = [state |-> "saving", keys |-> keys, todo |-> todo \ {e},
                            ev |-> e, snapshot |-> ev, loaded |-> None]
    /\ UNCHANGED <<chargers, database, tasks, crashes>>

\* tick_all up to its first await; EVs that do not charge are passed over.
TickAll(e) ==
    /\ simulator.state = "resting"
    /\ TickEv(e, DOMAIN evs, DOMAIN evs)

TickNext(e) ==
    /\ simulator.state = "next" /\ ~Resized
    /\ e \in simulator.todo
    /\ TickEv(e, simulator.keys, simulator.todo)

TickAllReturns ==
    /\ simulator.state = "next" /\ ~Resized
    /\ \A e \in simulator.todo \cap DOMAIN evs : evs[e].status # "charging"
    /\ simulator' = Resting
    /\ UNCHANGED <<memory, database, tasks, crashes>>

\* RuntimeError: dictionary changed size, or its keys, during iteration.  With
\* the size unchanged it depends on where in the dictionary the entries were.
IterationFails ==
    /\ simulator.state = "next"
    /\ DOMAIN evs # simulator.keys
    /\ simulator' = [Resting EXCEPT !.state = "dead"]
    /\ UNCHANGED <<memory, database, tasks, crashes>>

TickLoads ==
    /\ simulator.state = "saving" /\ simulator.loaded = None
    /\ simulator' = IF simulator.ev \in DOMAIN evRows
                    THEN [simulator EXCEPT !.loaded = evRows[simulator.ev]]
                    ELSE [simulator EXCEPT !.state = "saved"]
    /\ UNCHANGED <<memory, database, tasks, crashes>>

TickCommits ==
    /\ simulator.state = "saving"
    /\ Commits(simulator)
    /\ simulator' = [simulator EXCEPT !.state = "saved"]
    /\ UNCHANGED <<memory, chargerRows, tasks, crashes>>

\* Nothing catches the exception: the loop ends with it.
TickFails ==
    /\ simulator.state = "saving" /\ simulator.loaded # None
    /\ CommitFails(simulator)
    /\ simulator' = [Resting EXCEPT !.state = "dead"]
    /\ UNCHANGED <<memory, database, tasks, crashes>>

\* The saved tick completed the charging: one remote stop, if the charger is
\* still there and connected and the EV has a session.
AutoStop ==
    LET e == simulator.ev
        ev == IF e \in DOMAIN evs THEN evs[e] ELSE simulator.snapshot
        k == ev.charger
    IN  /\ simulator.state = "saved"
        /\ simulator' = [simulator EXCEPT !.state = "next", !.ev = None,
                                          !.snapshot = None, !.loaded = None]
        /\ \/ UNCHANGED <<memory, tasks>>
           \/ /\ simulator.snapshot.status # "charging" /\ ev.session
              /\ k \in DOMAIN chargers
              /\ \E t \in FreeTasks : BeginStop(t, k)
        /\ UNCHANGED <<database, crashes>>

-----------------------------------------------------------------------------
(* The process stops, and starts again from the database                   *)

\* The EVs whose rows say they are plugged into connector c of charger k.
PluggedRows(k, c) == {e \in DOMAIN evRows : evRows[e].charger = k /\ evRows[e].connector = c}

\* Mutant: the EVs are not plugged in again.
ReloadedEmpty(plugged) == NewCharger

\* ChargerPool.load_from_db, then EvPool.load_from_db plugs each EV in turn: on
\* a connector with several, the last one stays.
Reloaded(plugged) ==
    [NewCharger EXCEPT
        !.plugged = plugged,
        !.statuses = [c \in Connectors |->
                         IF plugged[c] # None THEN "Preparing" ELSE "Available"]]

Restart ==
    /\ "crash" \in Environment /\ crashes < MaxCrashes
    /\ crashes' = crashes + 1
    /\ evs' = evRows
    /\ \E plugged \in [chargerRows -> [Connectors -> Evs \cup {None}]] :
           /\ \A k \in chargerRows, c \in Connectors :
                  IF PluggedRows(k, c) = {} THEN plugged[k][c] = None
                  ELSE plugged[k][c] \in PluggedRows(k, c)
           /\ chargers' = [k \in chargerRows |-> Reloaded(plugged[k])]
    /\ tasks' = [t \in Tasks |-> Free]
    /\ simulator' = Resting
    /\ UNCHANGED database

-----------------------------------------------------------------------------
Init ==
    /\ chargers = [k \in {} |-> NewCharger]
    /\ evs = [e \in {} |-> NewEv(FALSE)]
    /\ chargerRows = {}
    /\ evRows = [e \in {} |-> NewEv(FALSE)]
    /\ tasks = [t \in Tasks |-> Free]
    /\ simulator = Resting
    /\ crashes = 0

Request(t) ==
    \/ \E k \in Chargers : CreateCharger(t, k) \/ RemoveCharger(t, k) \/ StopTransaction(t, k)
    \/ \E e \in Evs : CreateEv(t, e) \/ RemoveEv(t, e) \/ Unplug(t, e)
    \/ \E k \in Chargers, c \in Connectors :
           StartTransaction(t, k, c) \/ \E e \in Evs : Plug(t, e, k, c)

Answer(t) ==
    \/ ChargerCreated(t) \/ ChargerRemoved(t) \/ EvCreated(t) \/ EvRemoved(t)
    \/ SaveLoads(t) \/ SaveCommits(t) \/ SaveFails(t)

SimulatorStep ==
    \/ \E e \in Evs : TickAll(e) \/ TickNext(e)
    \/ TickAllReturns \/ IterationFails
    \/ TickLoads \/ TickCommits \/ TickFails \/ AutoStop

Next ==
    \/ \E t \in Tasks : Request(t) \/ Answer(t)
    \/ SimulatorStep
    \/ Restart

\* The EV that charges gains charge with every tick, and so reaches its target.
FillUp(e) == (TickAll(e) \/ TickNext(e)) /\ evs'[e].status = "full"

\* The database answers and asyncio runs every ready coroutine.  Nothing is
\* assumed of users, and the process need not crash.
Fairness ==
    /\ \A t \in Tasks : WF_vars(Answer(t))
    /\ WF_vars(SimulatorStep)
    /\ \A e \in Evs : SF_vars(FillUp(e))

Spec == Init /\ [][Next]_vars
FairSpec == Spec /\ Fairness

-----------------------------------------------------------------------------
(* Properties                                                              *)

\* Every variable has its type; the pools and tables hold known ids.
TypeOK ==
    /\ DOMAIN chargers \subseteq Chargers
    /\ \A k \in DOMAIN chargers : chargers[k] \in Charger
    /\ DOMAIN evs \subseteq Evs
    /\ \A e \in DOMAIN evs : evs[e] \in Ev
    /\ chargerRows \subseteq Chargers
    /\ DOMAIN evRows \subseteq Evs
    /\ \A e \in DOMAIN evRows : evRows[e] \in Ev
    /\ tasks \in [Tasks -> Task]
    /\ simulator \in Simulator
    /\ crashes \in 0 .. MaxCrashes

\* What is in a pool is in the database: an insert comes before the entry in
\* the pool, a delete after its removal, so a restart never loses anything a
\* user has seen created and not deleted.
PoolsAreStored == DOMAIN chargers \subseteq chargerRows /\ DOMAIN evs \subseteq DOMAIN evRows

\* No two EVs believe they are on the same connector.
OneEvPerConnector ==
    \A d, e \in DOMAIN evs :
        evs[d].charger # None /\ evs[d].charger = evs[e].charger
        /\ evs[d].connector = evs[e].connector => d = e

\* A charger has an EV on a connector exactly when that EV is in the pool and
\* plugged in there, also after a restart; no EV is on a charger that is gone.
PlugsAgree ==
    /\ \A k \in DOMAIN chargers, c \in Connectors, e \in Evs :
           chargers[k].plugged[c] = e <=>
               e \in DOMAIN evs /\ evs[e].charger = k /\ evs[e].connector = c
    /\ \A e \in DOMAIN evs : evs[e].charger \in DOMAIN chargers \cup {None}

\* When no save is under way the tables hold the fleet, and the EVs as they are.
\* Only an EV that was stopped or filled up while the save of its start was still
\* under way may have been overwritten by that save: its row charges, or has the
\* session or the state of charge of that moment.
RowsMatch ==
    NoSave => /\ chargerRows = DOMAIN chargers /\ DOMAIN evRows = DOMAIN evs
              /\ \A e \in DOMAIN evs :
                     /\ evRows[e].charger = evs[e].charger
                     /\ evRows[e].connector = evs[e].connector
                     /\ evRows[e].status \in {evs[e].status, "charging"}
                     /\ evRows[e].atTarget => evs[e].atTarget
                     /\ evs[e].status \in {"idle", "charging"} => evRows[e] = evs[e]

\* A restart with no save under way brings the same fleet back, with every EV
\* on the connector it was on.
RestartKeepsPlugs ==
    [][crashes' # crashes /\ NoSave =>
          /\ DOMAIN chargers' = DOMAIN chargers /\ DOMAIN evs' = DOMAIN evs
          /\ \A k \in DOMAIN chargers : chargers'[k].plugged = chargers[k].plugged]_vars

Charging(e) == e \in DOMAIN evs /\ evs[e].status = "charging"

\* An EV that charges is charged to its target or stopped, whatever restarts
\* come in between.
ChargingEnds == \A e \in Evs : Charging(e) ~> ~Charging(e)

\* The loop over the EVs goes on for as long as the process runs.
SimulatorSurvives == simulator.state # "dead"
=============================================================================
