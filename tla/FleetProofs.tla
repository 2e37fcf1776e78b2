----------------------------- MODULE FleetProofs -----------------------------
(***************************************************************************)
(* Proofs about the fleet, for any number of chargers, EVs, connectors,    *)
(* requests under way and restarts, and for every Environment.             *)
(***************************************************************************)
EXTENDS Fleet, TLAPS

-----------------------------------------------------------------------------
(* Type correctness                                                        *)

ChargersOK ==
    /\ DOMAIN chargers \subseteq Chargers
    /\ \A k \in DOMAIN chargers : chargers[k] \in Charger
EvsOK ==
    /\ DOMAIN evs \subseteq Evs
    /\ \A e \in DOMAIN evs : evs[e] \in Ev
RowsOK ==
    /\ chargerRows \subseteq Chargers
    /\ DOMAIN evRows \subseteq Evs
    /\ \A e \in DOMAIN evRows : evRows[e] \in Ev

\* A request has what it is about.
Complete(task) ==
    /\ task.kind \in {"create_ev", "save", "stop"} => task.snapshot \in Ev
    /\ task.kind = "create_ev" => task.ev \in Evs
    /\ task.kind = "create_charger" => task.charger \in Chargers
TasksOK ==
    /\ tasks \in [Tasks -> Task]
    /\ \A t \in Tasks : Complete(tasks[t])
SimulatorOK ==
    /\ simulator \in Simulator
    /\ simulator.state = "saving" => simulator.snapshot \in Ev

TypeInv ==
    ChargersOK /\ EvsOK /\ RowsOK /\ TasksOK /\ SimulatorOK /\ crashes \in 0 .. MaxCrashes

LEMMA TypeInvTypes == TypeInv => TypeOK
BY DEF TypeInv, TypeOK, ChargersOK, EvsOK, RowsOK, TasksOK, SimulatorOK

LEMMA FirstConnector == 1 \in Connectors /\ Connectors \subseteq Nat
BY ConnectorCountAssumption DEF Connectors

\* The operations of VirtualEvClient and VirtualChargerClient keep the types.
LEMMA EvTypes ==
    /\ \A atTarget \in BOOLEAN : NewEv(atTarget) \in Ev
    /\ \A ev \in Ev : /\ Unplugged(ev) \in Ev /\ Started(ev) \in Ev /\ Stopped(ev) \in Ev
                      /\ Ticked(ev) \subseteq Ev
                      /\ \A k \in Chargers, c \in Connectors : Plugged(ev, k, c) \in Ev
<1>1. \A atTarget \in BOOLEAN : NewEv(atTarget) \in Ev
  BY DEF Ev, NewEv
<1>2. ASSUME NEW ev \in Ev
      PROVE  Unplugged(ev) \in Ev
  <2>1. ev.atTarget \in BOOLEAN
    BY DEF Ev
  <2>2. QED
    BY <1>1, <2>1 DEF Unplugged
<1>3. ASSUME NEW ev \in Ev
      PROVE  Started(ev) \in Ev /\ Stopped(ev) \in Ev
  BY DEF Ev, Started, Stopped
<1>4. ASSUME NEW ev \in Ev
      PROVE  Ticked(ev) \subseteq Ev
  BY DEF Ev, Ticked
<1>5. ASSUME NEW ev \in Ev, NEW k \in Chargers, NEW c \in Connectors
      PROVE  Plugged(ev, k, c) \in Ev
  BY DEF Ev, Plugged
<1>6. QED
  BY <1>1, <1>2, <1>3, <1>4, <1>5

LEMMA ChargerTypes ==
    ASSUME NEW c \in Connectors
    PROVE  /\ NewCharger \in Charger
           /\ \A charger \in Charger :
                 /\ UnplugFrom(charger, c) \in Charger
                 /\ [charger EXCEPT !.isCharging = FALSE] \in Charger
                 /\ \A e \in Evs : PlugInto(charger, c, e) \in Charger
                 /\ \A e : Closed(charger, c, e) \in Charger
<1>1. NewCharger \in Charger
  BY FirstConnector DEF Charger, NewCharger
<1>2. ASSUME NEW charger \in Charger
      PROVE  UnplugFrom(charger, c) \in Charger
  BY DEF Charger, UnplugFrom
<1>3. ASSUME NEW charger \in Charger, NEW e \in Evs
      PROVE  PlugInto(charger, c, e) \in Charger
  BY DEF Charger, PlugInto
<1>4. ASSUME NEW charger \in Charger, NEW e
      PROVE  Closed(charger, c, e) \in Charger
  BY DEF Charger, Closed
<1>5. ASSUME NEW charger \in Charger
      PROVE  [charger EXCEPT !.isCharging = FALSE] \in Charger
  BY DEF Charger
<1>6. QED
  BY <1>1, <1>2, <1>3, <1>4, <1>5

LEMMA TaskTypes ==
    /\ Free \in Task /\ Free.kind = "none"
    /\ \A k \in Chargers, kind \in {"create_charger", "remove_charger"} :
          [Free EXCEPT !.kind = kind, !.charger = k] \in Task
    /\ \A e \in Evs : [Free EXCEPT !.kind = "remove_ev", !.ev = e] \in Task
BY FirstConnector DEF Free, Task

LEMMA RestingType == Resting \in Simulator /\ Resting.state = "resting"
BY DEF Resting, Simulator

-----------------------------------------------------------------------------
(* One entry changes                                                       *)

LEMMA ChargerChanged ==
    ASSUME ChargersOK, NEW k \in DOMAIN chargers, NEW charger \in Charger,
           chargers' = [chargers EXCEPT ![k] = charger]
    PROVE  ChargersOK'
BY DEF ChargersOK

LEMMA EvChanged ==
    ASSUME EvsOK, NEW e \in DOMAIN evs, NEW ev \in Ev, evs' = [evs EXCEPT ![e] = ev]
    PROVE  EvsOK'
BY DEF EvsOK

LEMMA TaskChanged ==
    ASSUME TasksOK, NEW t \in Tasks, NEW task \in Task, Complete(task),
           tasks' = [tasks EXCEPT ![t] = task]
    PROVE  TasksOK'
BY DEF TasksOK

LEMMA TaskFreed ==
    ASSUME TasksOK, NEW t \in Tasks, tasks' = [tasks EXCEPT ![t] = Free]
    PROVE  TasksOK'
BY TaskTypes, TaskChanged DEF Complete

LEMMA SaveBegins ==
    ASSUME TasksOK, NEW t \in Tasks, NEW kind \in {"create_ev", "save", "stop"},
           NEW e \in Evs, NEW k \in Chargers \cup {None}, NEW c \in Connectors,
           NEW ev \in Ev, Save(t, kind, e, k, c, ev)
    PROVE  TasksOK'
<1> DEFINE task == [kind |-> kind, ev |-> e, charger |-> k, connector |-> c,
                    snapshot |-> ev, loaded |-> None]
<1>1. task \in Task /\ Complete(task)
  BY DEF Task, Complete
<1>2. tasks' = [tasks EXCEPT ![t] = task]
  BY DEF Save
<1> HIDE DEF task
<1>3. QED
  BY <1>1, <1>2, TaskChanged

\* What a save merges into a row is an EV's record.
LEMMA MergedType ==
    ASSUME NEW row \in Ev, NEW w, w.snapshot \in Ev
    PROVE  Merged(row, w) \in Ev
<1> DEFINE m == Merged(row, w)
<1>1. DOMAIN row = {"status", "charger", "connector", "session", "atTarget"}
  BY DEF Ev
<1>2. m = [column \in {"status", "charger", "connector", "session", "atTarget"} |->
              IF column \in Changed(w) THEN w.snapshot[column] ELSE row[column]]
  BY <1>1 DEF Merged
<1> HIDE DEF m
<1>3. /\ m.status \in {"idle", "plugged", "charging", "full"}
      /\ m.charger \in Chargers \cup {None}
      /\ m.connector \in Connectors \cup {NoConnector}
      /\ m.session \in BOOLEAN /\ m.atTarget \in BOOLEAN
  BY <1>2 DEF Ev
<1>4. m = [status |-> m.status, charger |-> m.charger, connector |-> m.connector,
           session |-> m.session, atTarget |-> m.atTarget]
  BY <1>2
<1>5. m \in Ev
  BY <1>3, <1>4 DEF Ev
<1>6. QED
  BY <1>5 DEF m

LEMMA CommitType ==
    ASSUME RowsOK, NEW w, w.snapshot \in Ev, Commits(w), chargerRows' = chargerRows
    PROVE  RowsOK'
<1>1. CASE Changed(w) = {}
  BY <1>1 DEF Commits, RowsOK
<1>2. CASE Changed(w) # {}
  <2>1. w.ev \in DOMAIN evRows
    BY <1>2 DEF Commits, CommitFails
  <2>2. Merged(evRows[w.ev], w) \in Ev
    BY <2>1, MergedType DEF RowsOK
  <2>3. evRows' = [evRows EXCEPT ![w.ev] = Merged(evRows[w.ev], w)]
    BY <1>2 DEF Commits
  <2>4. QED
    BY <2>1, <2>2, <2>3 DEF RowsOK
<1>3. QED
  BY <1>1, <1>2

-----------------------------------------------------------------------------
(* Every step keeps the types                                              *)

LEMMA TypeInit == Init => TypeInv
<1> SUFFICES ASSUME Init
             PROVE  TypeInv
  OBVIOUS
<1>1. ChargersOK /\ EvsOK /\ RowsOK
  BY DEF Init, ChargersOK, EvsOK, RowsOK
<1>2. TasksOK
  BY TaskTypes DEF Init, TasksOK, Complete
<1>3. SimulatorOK /\ crashes \in 0 .. MaxCrashes
  BY MaxCrashesAssumption, RestingType DEF Init, SimulatorOK
<1>4. QED
  BY <1>1, <1>2, <1>3 DEF TypeInv

\* The requests about chargers: create and delete, begin and answer.
LEMMA ChargerTasksType ==
    ASSUME TypeInv, NEW t \in Tasks,
           \/ \E k \in Chargers : CreateCharger(t, k) \/ RemoveCharger(t, k)
           \/ ChargerCreated(t) \/ ChargerRemoved(t)
    PROVE  TypeInv'
<1>1. ASSUME NEW k \in Chargers, CreateCharger(t, k)
      PROVE  TypeInv'
  <2>1. TasksOK'
    BY <1>1, TaskTypes, TaskChanged DEF CreateCharger, Complete, Free, TypeInv
  <2>2. QED
    BY <1>1, <2>1 DEF CreateCharger, TypeInv, ChargersOK, EvsOK, RowsOK, SimulatorOK,
                      memory, database
<1>2. ASSUME NEW k \in Chargers, RemoveCharger(t, k)
      PROVE  TypeInv'
  <2>1. ChargersOK'
    BY <1>2 DEF RemoveCharger, TypeInv, ChargersOK, Without
  <2>2. [Free EXCEPT !.kind = "remove_charger", !.charger = k] \in Task
    BY TaskTypes
  <2>3. Complete([Free EXCEPT !.kind = "remove_charger", !.charger = k])
    BY DEF Complete, Free
  <2>4. ASSUME NEW task \in Task, task.kind = "stop", Complete(task)
        PROVE  /\ [task EXCEPT !.charger = None] \in Task
               /\ Complete([task EXCEPT !.charger = None])
    BY <2>4 DEF Task, Complete
  <2>5. TasksOK'
    BY <1>2, <2>2, <2>3, <2>4 DEF RemoveCharger, TypeInv, TasksOK
  <2>6. QED
    BY <1>2, <2>1, <2>5 DEF RemoveCharger, TypeInv, EvsOK, RowsOK, SimulatorOK, database
<1>3. CASE ChargerCreated(t)
  <2>1. TasksOK'
    BY <1>3, TaskFreed DEF ChargerCreated, TypeInv
  <2>2. tasks[t].charger \in Chargers
    BY <1>3 DEF ChargerCreated, TypeInv, TasksOK, Complete
  <2>3. NewCharger \in Charger
    BY FirstConnector, ChargerTypes
  <2>4. ChargersOK' /\ RowsOK'
    BY <1>3, <2>2, <2>3 DEF ChargerCreated, TypeInv, ChargersOK, RowsOK, Extend
  <2>5. QED
    BY <1>3, <2>1, <2>4 DEF ChargerCreated, TypeInv, EvsOK, SimulatorOK
<1>4. CASE ChargerRemoved(t)
  <2>1. TasksOK'
    BY <1>4, TaskFreed DEF ChargerRemoved, TypeInv
  <2>2. \A ev \in Ev : [ev EXCEPT !.charger = None] \in Ev
    BY DEF Ev
  <2>3. RowsOK'
    BY <1>4, <2>2 DEF ChargerRemoved, Detached, TypeInv, RowsOK
  <2>4. QED
    BY <1>4, <2>1, <2>3 DEF ChargerRemoved, TypeInv, ChargersOK, EvsOK, SimulatorOK, memory
<1>5. QED
  BY <1>1, <1>2, <1>3, <1>4

\* The requests about EVs: create and delete, plug and unplug.
LEMMA EvTasksType ==
    ASSUME TypeInv, NEW t \in Tasks,
           \/ \E e \in Evs : \/ CreateEv(t, e) \/ RemoveEv(t, e) \/ Unplug(t, e)
                             \/ \E k \in Chargers, c \in Connectors : Plug(t, e, k, c)
           \/ EvCreated(t) \/ EvRemoved(t)
    PROVE  TypeInv'
<1>1. ASSUME NEW e \in Evs, CreateEv(t, e)
      PROVE  TypeInv'
  <2>1. TasksOK'
    BY <1>1, EvTypes, FirstConnector, SaveBegins DEF CreateEv, TypeInv
  <2>2. QED
    BY <1>1, <2>1 DEF CreateEv, TypeInv, ChargersOK, EvsOK, RowsOK, SimulatorOK,
                      memory, database
<1>2. ASSUME NEW e \in Evs, RemoveEv(t, e)
      PROVE  TypeInv'
  <2>1. EvsOK'
    BY <1>2 DEF RemoveEv, TypeInv, EvsOK, Without
  <2>2. [Free EXCEPT !.kind = "remove_ev", !.ev = e] \in Task
    BY TaskTypes
  <2>3. Complete([Free EXCEPT !.kind = "remove_ev", !.ev = e])
    BY DEF Complete, Free
  <2>4. TasksOK'
    <3>1. CASE tasks' = tasks
      BY <3>1 DEF TypeInv, TasksOK
    <3>2. CASE tasks' # tasks
      BY <1>2, <2>2, <2>3, <3>2, TaskChanged DEF RemoveEv, TypeInv
    <3>3. QED
      BY <3>1, <3>2
  <2>5. QED
    BY <1>2, <2>1, <2>4 DEF RemoveEv, TypeInv, ChargersOK, RowsOK, SimulatorOK, database
<1>3. ASSUME NEW e \in Evs, Unplug(t, e)
      PROVE  TypeInv'
  <2>1. e \in DOMAIN evs /\ Unplugged(evs[e]) \in Ev
    BY <1>3, EvTypes DEF Unplug, TypeInv, EvsOK
  <2>2. EvsOK'
    BY <1>3, <2>1, EvChanged DEF Unplug, TypeInv
  <2>3. TasksOK'
    <3>1. evs'[e] \in Ev
      BY <1>3, <2>1 DEF Unplug
    <3>2. QED
      BY <1>3, <3>1, FirstConnector, SaveBegins DEF Unplug, TypeInv
  <2>4. ChargersOK'
    <3>1. CASE chargers' = chargers
      BY <3>1 DEF TypeInv, ChargersOK
    <3>2. CASE chargers' # chargers
      <4>1. evs[e].charger \in DOMAIN chargers /\ evs[e].connector # NoConnector
        BY <1>3, <3>2 DEF Unplug
      <4>2. evs[e].connector \in Connectors
        BY <2>1, <4>1 DEF TypeInv, EvsOK, Ev
      <4>3. UnplugFrom(chargers[evs[e].charger], evs[e].connector) \in Charger
        BY <4>1, <4>2, ChargerTypes DEF TypeInv, ChargersOK
      <4>4. QED
        BY <1>3, <3>2, <4>1, <4>3, ChargerChanged DEF Unplug, TypeInv
    <3>3. QED
      BY <3>1, <3>2
  <2>5. QED
    BY <1>3, <2>2, <2>3, <2>4 DEF Unplug, TypeInv, RowsOK, SimulatorOK, database
<1>4. ASSUME NEW e \in Evs, NEW k \in Chargers, NEW c \in Connectors, Plug(t, e, k, c)
      PROVE  TypeInv'
  <2>1. /\ e \in DOMAIN evs /\ Plugged(evs[e], k, c) \in Ev
        /\ k \in DOMAIN chargers /\ PlugInto(chargers[k], c, e) \in Charger
    BY <1>4, EvTypes, ChargerTypes DEF Plug, TypeInv, EvsOK, ChargersOK
  <2>2. EvsOK' /\ ChargersOK'
    BY <1>4, <2>1, EvChanged, ChargerChanged DEF Plug, TypeInv
  <2>3. TasksOK'
    <3>1. evs'[e] \in Ev
      BY <1>4, <2>1 DEF Plug
    <3>2. QED
      BY <1>4, <3>1, FirstConnector, SaveBegins DEF Plug, TypeInv
  <2>4. QED
    BY <1>4, <2>2, <2>3 DEF Plug, TypeInv, RowsOK, SimulatorOK, database
<1>5. CASE EvCreated(t)
  <2>1. TasksOK'
    BY <1>5, TaskFreed DEF EvCreated, TypeInv
  <2>2. tasks[t].ev \in Evs /\ tasks[t].snapshot \in Ev
    BY <1>5 DEF EvCreated, TypeInv, TasksOK, Complete
  <2>3. EvsOK' /\ RowsOK'
    BY <1>5, <2>2 DEF EvCreated, TypeInv, EvsOK, RowsOK, Extend
  <2>4. QED
    BY <1>5, <2>1, <2>3 DEF EvCreated, TypeInv, ChargersOK, SimulatorOK
<1>6. CASE EvRemoved(t)
  <2>1. TasksOK'
    BY <1>6, TaskFreed DEF EvRemoved, TypeInv
  <2>2. QED
    BY <1>6, <2>1 DEF EvRemoved, TypeInv, ChargersOK, EvsOK, RowsOK, SimulatorOK, Without,
                      memory
<1>7. QED
  BY <1>1, <1>2, <1>3, <1>4, <1>5, <1>6

\* A remote start.
LEMMA StartType ==
    ASSUME TypeInv, NEW t \in Tasks, NEW k \in Chargers, NEW c \in Connectors,
           StartTransaction(t, k, c)
    PROVE  TypeInv'
<1> DEFINE e == chargers[k].plugged[c]
           charger == [chargers[k] EXCEPT !.transaction = TRUE, !.isCharging = TRUE,
                                          !.activeConnector = c, !.statuses[c] = "Charging"]
<1>1. k \in DOMAIN chargers /\ chargers[k] \in Charger
  BY DEF StartTransaction, TypeInv, ChargersOK
<1>2. charger \in Charger
  BY <1>1 DEF Charger
<1>3. chargers' = [chargers EXCEPT ![k] = charger]
  BY <1>1 DEF StartTransaction, ChargersOK, TypeInv
<1> HIDE DEF charger
<1>4. ChargersOK'
  BY <1>1, <1>2, <1>3, ChargerChanged DEF TypeInv
<1>5. EvsOK' /\ TasksOK'
  <2>1. CASE Chargeable(e)
    <3>1. e \in DOMAIN evs /\ e \in Evs /\ Started(evs[e]) \in Ev
      BY <2>1, EvTypes DEF Chargeable, TypeInv, EvsOK
    <3>2. evs' = [evs EXCEPT ![e] = Started(evs[e])] /\ Save(t, "save", e, None, 1, evs'[e])
      BY <2>1 DEF StartTransaction
    <3>3. evs'[e] \in Ev
      BY <3>1, <3>2
    <3>4. EvsOK'
      BY <3>1, <3>2, EvChanged DEF TypeInv
    <3>5. TasksOK'
      BY <3>1, <3>2, <3>3, FirstConnector, SaveBegins DEF TypeInv
    <3>6. QED
      BY <3>4, <3>5
  <2>2. CASE ~Chargeable(e)
    BY <2>2 DEF StartTransaction, TypeInv, EvsOK, TasksOK
  <2>3. QED
    BY <2>1, <2>2
<1>6. QED
  BY <1>4, <1>5 DEF StartTransaction, TypeInv, RowsOK, SimulatorOK, database

\* _stop_transaction, whoever runs it.
LEMMA BeginStopType ==
    ASSUME ChargersOK, EvsOK, TasksOK, NEW t \in Tasks, NEW k \in DOMAIN chargers,
           BeginStop(t, k)
    PROVE  ChargersOK' /\ EvsOK' /\ TasksOK'
<1> DEFINE c == chargers[k].activeConnector
           e == chargers[k].plugged[c]
           idle == [chargers[k] EXCEPT !.isCharging = FALSE]
<1>1. chargers[k] \in Charger /\ c \in Connectors /\ k \in Chargers
  BY DEF ChargersOK, Charger
<1>2. e \in Evs \cup {None}
  BY <1>1 DEF Charger
<1>3. idle \in Charger /\ Closed(idle, c, e) \in Charger
  BY <1>1, ChargerTypes
<1>4. CASE ~chargers[k].transaction
  BY <1>4 DEF BeginStop, ChargersOK, EvsOK, TasksOK, memory
<1>5. CASE chargers[k].transaction /\ e = None
  <2>1. chargers' = [chargers EXCEPT ![k] = Closed(idle, c, e)] /\ UNCHANGED <<evs, tasks>>
    BY <1>5 DEF BeginStop
  <2>2. ChargersOK'
    BY <1>3, <2>1, ChargerChanged
  <2>3. QED
    BY <2>1, <2>2 DEF EvsOK, TasksOK
<1>6. CASE chargers[k].transaction /\ e # None
  <2>1. /\ chargers' = [chargers EXCEPT ![k] = idle]
        /\ \/ UNCHANGED <<evs, tasks>>
           \/ /\ e \in DOMAIN evs
              /\ evs' = [evs EXCEPT ![e] = Stopped(evs[e])]
              /\ Save(t, "stop", e, k, c, evs'[e])
    BY <1>6 DEF BeginStop
  <2> HIDE DEF idle, e, c
  <2>2. ChargersOK'
    BY <1>3, <2>1, ChargerChanged
  <2>3. CASE UNCHANGED <<evs, tasks>>
    BY <2>2, <2>3 DEF EvsOK, TasksOK
  <2>4. CASE ~UNCHANGED <<evs, tasks>>
    <3>1. e \in DOMAIN evs /\ e \in Evs /\ Stopped(evs[e]) \in Ev
      BY <2>1, <2>4, EvTypes DEF EvsOK
    <3>2. evs' = [evs EXCEPT ![e] = Stopped(evs[e])] /\ Save(t, "stop", e, k, c, evs'[e])
      BY <2>1, <2>4
    <3>3. evs'[e] \in Ev
      BY <3>1, <3>2
    <3>4. EvsOK'
      BY <3>1, <3>2, EvChanged
    <3>5. TasksOK'
      BY <1>1, <3>1, <3>2, <3>3, SaveBegins
    <3>6. QED
      BY <2>2, <3>4, <3>5
  <2>5. QED
    BY <2>3, <2>4
<1>7. QED
  BY <1>4, <1>5, <1>6

\* The end of a save, and of the stop it belonged to.
LEMMA SaveDoneType ==
    ASSUME TypeInv, NEW t \in Tasks, SaveDone(t)
    PROVE  ChargersOK' /\ TasksOK'
<1>1. TasksOK'
  BY TaskFreed DEF SaveDone, TypeInv
<1>2. tasks[t].connector \in Connectors
  BY DEF TypeInv, TasksOK, Task
<1>3. CASE tasks[t].kind = "stop" /\ tasks[t].charger \in DOMAIN chargers
  <2> DEFINE charger == Closed(chargers[tasks[t].charger], tasks[t].connector, tasks[t].ev)
  <2>1. charger \in Charger
    BY <1>2, <1>3, ChargerTypes DEF TypeInv, ChargersOK
  <2>2. chargers' = [chargers EXCEPT ![tasks[t].charger] = charger]
    BY <1>3 DEF SaveDone
  <2> HIDE DEF charger
  <2>3. QED
    BY <1>1, <1>3, <2>1, <2>2, ChargerChanged DEF TypeInv
<1>4. CASE ~(tasks[t].kind = "stop" /\ tasks[t].charger \in DOMAIN chargers)
  BY <1>1, <1>4 DEF SaveDone, TypeInv, ChargersOK
<1>5. QED
  BY <1>3, <1>4

LEMMA SaveType ==
    ASSUME TypeInv, NEW t \in Tasks, SaveLoads(t) \/ SaveCommits(t) \/ SaveFails(t)
    PROVE  TypeInv'
<1>1. CASE SaveLoads(t)
  <2>1. CASE tasks[t].ev \in DOMAIN evRows
    <3> DEFINE row == evRows[tasks[t].ev]
    <3>1. row \in Ev
      BY <2>1 DEF TypeInv, RowsOK
    <3>2. [tasks[t] EXCEPT !.loaded = row] \in Task
      BY <3>1 DEF TypeInv, TasksOK, Task
    <3>3. Complete([tasks[t] EXCEPT !.loaded = row])
      BY DEF TypeInv, TasksOK, Task, Complete
    <3>4. tasks' = [tasks EXCEPT ![t] = [tasks[t] EXCEPT !.loaded = row]]
      BY <1>1, <2>1 DEF SaveLoads, TypeInv, TasksOK
    <3>5. TasksOK'
      BY <3>2, <3>3, <3>4, TaskChanged DEF TypeInv
    <3>6. QED
      BY <1>1, <2>1, <3>5 DEF SaveLoads, TypeInv, ChargersOK, EvsOK, RowsOK, SimulatorOK,
                              database
  <2>2. CASE tasks[t].ev \notin DOMAIN evRows
    <3>1. ChargersOK' /\ TasksOK'
      BY <1>1, <2>2, SaveDoneType DEF SaveLoads
    <3>2. QED
      BY <1>1, <3>1 DEF SaveLoads, TypeInv, EvsOK, RowsOK, SimulatorOK, database
  <2>3. QED
    BY <2>1, <2>2
<1>2. CASE SaveCommits(t)
  <2>1. ChargersOK' /\ TasksOK'
    BY <1>2, SaveDoneType DEF SaveCommits
  <2>2. RowsOK'
    BY <1>2, CommitType DEF SaveCommits, TypeInv, TasksOK, Complete
  <2>3. QED
    BY <1>2, <2>1, <2>2 DEF SaveCommits, TypeInv, EvsOK, SimulatorOK
<1>3. CASE SaveFails(t)
  <2>1. TasksOK'
    BY <1>3, TaskFreed DEF SaveFails, TypeInv
  <2>2. QED
    BY <1>3, <2>1 DEF SaveFails, TypeInv, ChargersOK, EvsOK, RowsOK, SimulatorOK,
                      memory, database
<1>4. QED
  BY <1>1, <1>2, <1>3

LEMMA StopType ==
    ASSUME TypeInv, NEW t \in Tasks, NEW k \in Chargers, StopTransaction(t, k)
    PROVE  TypeInv'
<1>1. ChargersOK' /\ EvsOK' /\ TasksOK'
  BY BeginStopType DEF StopTransaction, TypeInv
<1>2. QED
  BY <1>1 DEF StopTransaction, TypeInv, RowsOK, SimulatorOK, database

LEMMA TickEvType ==
    ASSUME TypeInv, NEW e \in Evs, NEW keys \in SUBSET Evs, NEW todo \in SUBSET Evs,
           TickEv(e, keys, todo)
    PROVE  TypeInv'
<1>1. e \in DOMAIN evs /\ Ticked(evs[e]) \subseteq Ev
  BY EvTypes DEF TickEv, TypeInv, EvsOK
<1>2. PICK ev \in Ticked(evs[e]) :
          /\ evs' = [evs EXCEPT ![e] = ev]
          /\ simulator' = [state |-> "saving", keys |-> keys, todo |-> todo \ {e},
                           ev |-> e, snapshot |-> ev, loaded |-> None]
  BY DEF TickEv
<1>3. EvsOK'
  BY <1>1, <1>2, EvChanged DEF TypeInv
<1>4. SimulatorOK'
  BY <1>1, <1>2 DEF SimulatorOK, Simulator
<1>5. QED
  BY <1>3, <1>4 DEF TickEv, TypeInv, ChargersOK, RowsOK, TasksOK, database

LEMMA SimulatorStepType ==
    ASSUME TypeInv, SimulatorStep
    PROVE  TypeInv'
<1>1. simulator \in Simulator /\ (simulator.state = "saving" => simulator.snapshot \in Ev)
  BY DEF TypeInv, SimulatorOK
<1>2. ASSUME NEW e \in Evs, TickAll(e) \/ TickNext(e)
      PROVE  TypeInv'
  <2>1. DOMAIN evs \in SUBSET Evs /\ simulator.keys \in SUBSET Evs /\ simulator.todo \in SUBSET Evs
    BY <1>1 DEF TypeInv, EvsOK, Simulator
  <2>2. QED
    BY <1>2, <2>1, TickEvType DEF TickAll, TickNext
<1>3. CASE TickAllReturns \/ IterationFails \/ TickFails
  <2>1. simulator' \in Simulator /\ simulator'.state # "saving"
    BY <1>3, RestingType DEF TickAllReturns, IterationFails, TickFails, Simulator
  <2>2. UNCHANGED <<memory, database, tasks, crashes>>
    BY <1>3 DEF TickAllReturns, IterationFails, TickFails
  <2>3. QED
    BY <2>1, <2>2 DEF TypeInv, ChargersOK, EvsOK, RowsOK, TasksOK, SimulatorOK,
                      memory, database
<1>4. CASE TickLoads
  <2>1. \A ev \in Ev : /\ [simulator EXCEPT !.loaded = ev] \in Simulator
                       /\ [simulator EXCEPT !.loaded = ev].snapshot = simulator.snapshot
    BY <1>1 DEF Simulator
  <2>2. /\ [simulator EXCEPT !.state = "saved"] \in Simulator
        /\ [simulator EXCEPT !.state = "saved"].state = "saved"
    BY <1>1 DEF Simulator
  <2>3. SimulatorOK'
    BY <1>1, <1>4, <2>1, <2>2 DEF TickLoads, SimulatorOK, TypeInv, RowsOK
  <2>4. QED
    BY <1>4, <2>3 DEF TickLoads, TypeInv, ChargersOK, EvsOK, RowsOK, TasksOK, memory, database
<1>5. CASE TickCommits
  <2>1. RowsOK'
    BY <1>1, <1>5, CommitType DEF TickCommits, TypeInv
  <2>2. SimulatorOK'
    BY <1>1, <1>5 DEF TickCommits, SimulatorOK, Simulator
  <2>3. QED
    BY <1>5, <2>1, <2>2 DEF TickCommits, TypeInv, ChargersOK, EvsOK, TasksOK, memory
<1>6. CASE AutoStop
  <2>1. SimulatorOK'
    BY <1>1, <1>6 DEF AutoStop, SimulatorOK, Simulator
  <2>2. \/ UNCHANGED <<memory, tasks>>
        \/ \E t \in Tasks, k \in DOMAIN chargers : BeginStop(t, k)
    BY <1>6 DEF AutoStop, FreeTasks
  <2>3. ChargersOK' /\ EvsOK' /\ TasksOK'
    <3>1. CASE UNCHANGED <<memory, tasks>>
      BY <3>1 DEF TypeInv, ChargersOK, EvsOK, TasksOK, memory
    <3>2. CASE \E t \in Tasks, k \in DOMAIN chargers : BeginStop(t, k)
      BY <3>2, BeginStopType DEF TypeInv
    <3>3. QED
      BY <2>2, <3>1, <3>2
  <2>4. QED
    BY <1>6, <2>1, <2>3 DEF AutoStop, TypeInv, RowsOK, database
<1>7. QED
  BY <1>2, <1>3, <1>4, <1>5, <1>6 DEF SimulatorStep

LEMMA RestartType ==
    ASSUME TypeInv, Restart
    PROVE  TypeInv'
<1>1. PICK plugged \in [chargerRows -> [Connectors -> Evs \cup {None}]] :
          chargers' = [k \in chargerRows |-> Reloaded(plugged[k])]
  BY DEF Restart
<1>2. ASSUME NEW k \in chargerRows
      PROVE  Reloaded(plugged[k]) \in Charger
  BY <1>1, <1>2, ChargerTypes, FirstConnector DEF Reloaded, Charger
<1>3. ChargersOK'
  BY <1>1, <1>2 DEF TypeInv, RowsOK, ChargersOK
<1>4. TasksOK'
  BY TaskTypes DEF Restart, TasksOK, Complete
<1>5. SimulatorOK'
  BY RestingType DEF Restart, SimulatorOK
<1>6. crashes' \in 0 .. MaxCrashes
  BY MaxCrashesAssumption DEF Restart, TypeInv
<1>7. QED
  BY <1>3, <1>4, <1>5, <1>6 DEF Restart, TypeInv, EvsOK, RowsOK, database

LEMMA TypeStep == TypeInv /\ [Next]_vars => TypeInv'
<1> SUFFICES ASSUME TypeInv, [Next]_vars
             PROVE  TypeInv'
  OBVIOUS
<1>1. ASSUME NEW t \in Tasks, Request(t)
      PROVE  TypeInv'
  BY <1>1, ChargerTasksType, EvTasksType, StartType, StopType DEF Request
<1>2. ASSUME NEW t \in Tasks, Answer(t)
      PROVE  TypeInv'
  BY <1>2, ChargerTasksType, EvTasksType, SaveType DEF Answer
<1>3. CASE UNCHANGED vars
  BY <1>3 DEF vars, memory, database, TypeInv, ChargersOK, EvsOK, RowsOK, TasksOK, SimulatorOK
<1>4. QED
  BY <1>1, <1>2, <1>3, SimulatorStepType, RestartType DEF Next

LEMMA TypeHolds == Spec => []TypeInv
BY TypeInit, TypeStep, PTL DEF Spec

\* Whatever users and the host do, pools, tables, requests and the simulator
\* hold only what their types in the code allow, and known ids.
THEOREM TypeCorrect == Spec => []TypeOK
BY TypeHolds, TypeInvTypes, PTL

-----------------------------------------------------------------------------
(* The pools never hold what the database does not                         *)

\* The request that waits for the deletion of a charger's or an EV's row.
Removing(t, k) == tasks[t].kind = "remove_charger" /\ tasks[t].charger = k
RemovingEv(t, e) == tasks[t].kind = "remove_ev" /\ tasks[t].ev = e

\* What is about to be deleted has left the pool but still has its row, so that
\* nothing of that id can be created, and it is deleted by one request only.
ChargersStored ==
    /\ DOMAIN chargers \subseteq chargerRows
    /\ \A t \in Tasks : \A k \in Chargers : Removing(t, k) =>
           /\ k \notin DOMAIN chargers /\ k \in chargerRows
           /\ \A u \in Tasks : Removing(u, k) => u = t

EvsStored ==
    /\ DOMAIN evs \subseteq DOMAIN evRows
    /\ \A t \in Tasks : \A e \in Evs : RemovingEv(t, e) =>
           /\ e \notin DOMAIN evs /\ e \in DOMAIN evRows
           /\ \A u \in Tasks : RemovingEv(u, e) => u = t

\* A step after which every request that removes something did so before, and
\* that leaves the ids in pools and tables alone, keeps them stored.
LEMMA StoredUnlessRemoved ==
    ASSUME ChargersStored, EvsStored,
           DOMAIN chargers' \subseteq DOMAIN chargers, chargerRows' = chargerRows,
           DOMAIN evs' \subseteq DOMAIN evs, DOMAIN evRows' = DOMAIN evRows,
           \A t \in Tasks : tasks'[t].kind \in {"remove_charger", "remove_ev"} =>
                                tasks'[t] = tasks[t]
    PROVE  ChargersStored' /\ EvsStored'
BY DEF ChargersStored, EvsStored, Removing, RemovingEv

LEMMA SaveKind ==
    ASSUME TasksOK, NEW t, NEW kind, NEW e, NEW k, NEW c, NEW ev, Save(t, kind, e, k, c, ev)
    PROVE  \A u \in Tasks : tasks'[u] = tasks[u] \/ tasks'[u].kind = kind
BY DEF Save, TasksOK

LEMMA StopKeepsIds ==
    ASSUME TasksOK, NEW t \in Tasks, NEW k, BeginStop(t, k)
    PROVE  /\ DOMAIN chargers' = DOMAIN chargers /\ DOMAIN evs' = DOMAIN evs
           /\ \A u \in Tasks : tasks'[u] = tasks[u] \/ tasks'[u].kind = "stop"
BY DEF BeginStop, Save, memory, TasksOK

LEMMA CommitKeepsIds ==
    ASSUME NEW w, Commits(w)
    PROVE  DOMAIN evRows' = DOMAIN evRows
BY DEF Commits

LEMMA StoredStep ==
    ASSUME TypeInv, ChargersStored, EvsStored, [Next]_vars
    PROVE  ChargersStored' /\ EvsStored'
<1>1. /\ tasks \in [Tasks -> Task] /\ Free.kind = "none" /\ TasksOK
      /\ DOMAIN chargers \subseteq Chargers /\ DOMAIN evs \subseteq Evs
  BY TaskTypes DEF TypeInv, TasksOK, ChargersOK, EvsOK
<1>2. ASSUME NEW t \in Tasks, NEW k \in Chargers, CreateCharger(t, k)
      PROVE  ChargersStored' /\ EvsStored'
  <2>1. [Free EXCEPT !.kind = "create_charger", !.charger = k].kind = "create_charger"
    BY DEF Free
  <2>2. \A u \in Tasks : tasks'[u] = tasks[u] \/ tasks'[u].kind = "create_charger"
    BY <1>1, <1>2, <2>1 DEF CreateCharger
  <2>3. QED
    BY <1>2, <2>2, StoredUnlessRemoved DEF CreateCharger, memory, database
<1>3. ASSUME NEW t \in Tasks, NEW k \in Chargers, RemoveCharger(t, k)
      PROVE  ChargersStored' /\ EvsStored'
  <2> DEFINE task == [Free EXCEPT !.kind = "remove_charger", !.charger = k]
  <2>1. task.kind = "remove_charger" /\ task.charger = k
    BY DEF Free
  <2>2. \A u \in Tasks : u # t =>
            /\ tasks'[u].kind = tasks[u].kind /\ tasks'[u].ev = tasks[u].ev
            /\ tasks[u].kind # "stop" => tasks'[u].charger = tasks[u].charger
    BY <1>1, <1>3 DEF RemoveCharger, Task
  <2>3. tasks'[t] = task /\ k \in DOMAIN chargers /\ chargers' = Without(chargers, k)
    BY <1>3 DEF RemoveCharger
  <2> HIDE DEF task
  <2>4. ChargersStored'
    BY <1>3, <2>1, <2>2, <2>3 DEF RemoveCharger, ChargersStored, Removing, Without, database
  <2>5. EvsStored'
    BY <1>3, <2>1, <2>2, <2>3 DEF RemoveCharger, EvsStored, RemovingEv, database
  <2>6. QED
    BY <2>4, <2>5
<1>4. ASSUME NEW t \in Tasks, ChargerCreated(t) \/ EvCreated(t)
      PROVE  ChargersStored' /\ EvsStored'
  <2>1. \A u \in Tasks : tasks'[u] = tasks[u] \/ tasks'[u].kind = "none"
    BY <1>1, <1>4 DEF ChargerCreated, EvCreated
  <2>2. CASE ChargerCreated(t)
    BY <2>1, <2>2 DEF ChargerCreated, ChargersStored, EvsStored, Removing, RemovingEv, Extend
  <2>3. CASE EvCreated(t)
    BY <2>1, <2>3 DEF EvCreated, ChargersStored, EvsStored, Removing, RemovingEv, Extend
  <2>4. QED
    BY <1>4, <2>2, <2>3
<1>5. ASSUME NEW t \in Tasks, ChargerRemoved(t) \/ EvRemoved(t)
      PROVE  ChargersStored' /\ EvsStored'
  <2>1. /\ \A u \in Tasks : u # t => tasks'[u] = tasks[u]
        /\ tasks'[t].kind = "none"
    BY <1>1, <1>5 DEF ChargerRemoved, EvRemoved
  <2>2. CASE ChargerRemoved(t)
    <3>1. Removing(t, tasks[t].charger)
      BY <2>2 DEF ChargerRemoved, Removing
    <3>2. ChargersStored'
      BY <1>1, <2>1, <2>2, <3>1 DEF ChargerRemoved, ChargersStored, Removing, memory
    <3>3. EvsStored'
      BY <2>1, <2>2 DEF ChargerRemoved, EvsStored, RemovingEv, Detached, memory
    <3>4. QED
      BY <3>2, <3>3
  <2>3. CASE EvRemoved(t)
    <3>1. RemovingEv(t, tasks[t].ev)
      BY <2>3 DEF EvRemoved, RemovingEv
    <3>2. EvsStored'
      BY <1>1, <2>1, <2>3, <3>1 DEF EvRemoved, EvsStored, RemovingEv, Without, memory
    <3>3. ChargersStored'
      BY <2>1, <2>3 DEF EvRemoved, ChargersStored, Removing, memory
    <3>4. QED
      BY <3>2, <3>3
  <2>4. QED
    BY <1>5, <2>2, <2>3
<1>6. ASSUME NEW t \in Tasks, NEW e \in Evs, RemoveEv(t, e)
      PROVE  ChargersStored' /\ EvsStored'
  <2> DEFINE task == [Free EXCEPT !.kind = "remove_ev", !.ev = e]
  <2>1. task.kind = "remove_ev" /\ task.ev = e
    BY DEF Free
  <2>2. /\ e \in DOMAIN evs /\ evs' = Without(evs, e)
        /\ tasks' = tasks \/ tasks' = [tasks EXCEPT ![t] = task]
    BY <1>6 DEF RemoveEv
  <2> HIDE DEF task
  <2>3. \A u \in Tasks : tasks'[u] = tasks[u] \/ (u = t /\ tasks'[u] = task)
    BY <1>1, <2>2
  <2>4. ChargersStored'
    BY <1>6, <2>1, <2>3 DEF RemoveEv, ChargersStored, Removing, database
  <2>5. EvsStored'
    BY <1>6, <2>1, <2>2, <2>3 DEF RemoveEv, EvsStored, RemovingEv, Without, database
  <2>6. QED
    BY <2>4, <2>5
<1>7. ASSUME NEW t \in Tasks, NEW e \in Evs,
             \/ CreateEv(t, e) \/ Unplug(t, e)
             \/ \E k \in Chargers, c \in Connectors : Plug(t, e, k, c)
      PROVE  ChargersStored' /\ EvsStored'
  <2>1. \A u \in Tasks : tasks'[u] = tasks[u] \/ tasks'[u].kind \in {"create_ev", "save"}
    <3>1. CASE CreateEv(t, e)
      BY <1>1, <3>1, SaveKind DEF CreateEv
    <3>2. CASE Unplug(t, e)
      BY <1>1, <3>2, SaveKind DEF Unplug
    <3>3. CASE \E k \in Chargers, c \in Connectors : Plug(t, e, k, c)
      BY <1>1, <3>3, SaveKind DEF Plug
    <3>4. QED
      BY <1>7, <3>1, <3>2, <3>3
  <2>2. /\ DOMAIN chargers' = DOMAIN chargers /\ DOMAIN evs' = DOMAIN evs
        /\ UNCHANGED database
    BY <1>7 DEF CreateEv, Unplug, Plug, memory
  <2>3. QED
    BY <2>1, <2>2, StoredUnlessRemoved DEF database
<1>8. ASSUME NEW t \in Tasks, NEW k \in Chargers,
             StopTransaction(t, k) \/ \E c \in Connectors : StartTransaction(t, k, c)
      PROVE  ChargersStored' /\ EvsStored'
  <2>1. CASE StopTransaction(t, k)
    BY <1>1, <2>1, StopKeepsIds, StoredUnlessRemoved DEF StopTransaction, database
  <2>2. CASE \E c \in Connectors : StartTransaction(t, k, c)
    <3>1. \A u \in Tasks : tasks'[u] = tasks[u] \/ tasks'[u].kind = "save"
      BY <1>1, <2>2 DEF StartTransaction, Save
    <3>2. /\ DOMAIN chargers' = DOMAIN chargers /\ DOMAIN evs' = DOMAIN evs
          /\ UNCHANGED database
      BY <2>2 DEF StartTransaction
    <3>3. QED
      BY <3>1, <3>2, StoredUnlessRemoved DEF database
  <2>3. QED
    BY <1>8, <2>1, <2>2
<1>9. ASSUME NEW t \in Tasks, SaveLoads(t) \/ SaveCommits(t) \/ SaveFails(t)
      PROVE  ChargersStored' /\ EvsStored'
  <2>1. \A u \in Tasks : tasks'[u].kind \in {"remove_charger", "remove_ev"} =>
                              tasks'[u] = tasks[u]
    BY <1>1, <1>9 DEF SaveLoads, SaveCommits, SaveFails, SaveDone, Task
  <2>2. /\ DOMAIN chargers' = DOMAIN chargers /\ evs' = evs /\ chargerRows' = chargerRows
        /\ DOMAIN evRows' = DOMAIN evRows
    BY <1>9, CommitKeepsIds
       DEF SaveLoads, SaveCommits, SaveFails, SaveDone, memory, database
  <2>3. QED
    BY <2>1, <2>2, StoredUnlessRemoved
<1>10. CASE SimulatorStep
  <2>1. /\ DOMAIN chargers' = DOMAIN chargers /\ DOMAIN evs' = DOMAIN evs
        /\ \A u \in Tasks : tasks'[u] = tasks[u] \/ tasks'[u].kind = "stop"
    <3>1. CASE AutoStop
      BY <1>1, <3>1, StopKeepsIds DEF AutoStop, FreeTasks, memory
    <3>2. CASE SimulatorStep /\ ~AutoStop
      BY <3>2 DEF SimulatorStep, TickAll, TickNext, TickEv, TickAllReturns, IterationFails,
                  TickLoads, TickCommits, TickFails, memory
    <3>3. QED
      BY <1>10, <3>1, <3>2
  <2>2. chargerRows' = chargerRows /\ DOMAIN evRows' = DOMAIN evRows
    BY <1>10, CommitKeepsIds
       DEF SimulatorStep, TickAll, TickNext, TickEv, TickAllReturns, IterationFails,
           TickLoads, TickCommits, TickFails, AutoStop, database
  <2>3. QED
    BY <2>1, <2>2, StoredUnlessRemoved
<1>11. CASE Restart
  BY <1>1, <1>11 DEF Restart, ChargersStored, EvsStored, Removing, RemovingEv, database
<1>12. CASE UNCHANGED vars
  BY <1>12, StoredUnlessRemoved DEF vars, memory, database
<1>13. QED
  BY <1>2, <1>3, <1>4, <1>5, <1>6, <1>7, <1>8, <1>9, <1>10, <1>11, <1>12
     DEF Next, Request, Answer

LEMMA StoredInit == Init => ChargersStored /\ EvsStored
BY TaskTypes DEF Init, ChargersStored, EvsStored, Removing, RemovingEv

\* A charger or an EV in a pool has its row, however creating, deleting and
\* restarting interleave: what a restart reads back lacks nothing a user has
\* seen created and has not deleted.
THEOREM PoolsStored == Spec => []PoolsAreStored
<1>1. ChargersStored /\ EvsStored => PoolsAreStored
  BY DEF ChargersStored, EvsStored, PoolsAreStored
<1>2. TypeInv /\ ChargersStored /\ EvsStored /\ [Next]_vars => ChargersStored' /\ EvsStored'
  BY StoredStep
<1>3. QED
  BY <1>1, <1>2, StoredInit, TypeHolds, PTL DEF Spec

-----------------------------------------------------------------------------
(* One EV on a connector, for as long as the process runs                  *)

\* An EV that is about to enter the pool is not plugged in.
Unplugging ==
    \A t \in Tasks : tasks[t].kind = "create_ev" => tasks[t].snapshot.charger = None

\* The EV keeps its place, or leaves it.
Stays(old, new) ==
    \/ new.charger = None
    \/ new.charger = old.charger /\ new.connector = old.connector

LEMMA StaysFree ==
    ASSUME OneEvPerConnector, DOMAIN evs' \subseteq DOMAIN evs,
           \A e \in DOMAIN evs' : Stays(evs[e], evs'[e])
    PROVE  OneEvPerConnector'
BY DEF OneEvPerConnector, Stays

LEMMA EvStays ==
    ASSUME NEW ev \in Ev
    PROVE  /\ Stays(ev, Unplugged(ev)) /\ Stays(ev, Started(ev)) /\ Stays(ev, Stopped(ev))
           /\ \A new \in Ticked(ev) : Stays(ev, new)
<1>1. Stays(ev, Unplugged(ev))
  BY DEF Stays, Unplugged, NewEv
<1>2. Stays(ev, Started(ev)) /\ Stays(ev, Stopped(ev))
  BY DEF Stays, Started, Stopped, Ev
<1>3. \A new \in Ticked(ev) : Stays(ev, new)
  BY DEF Stays, Ticked, Ev
<1>4. QED
  BY <1>1, <1>2, <1>3

LEMMA UnpluggingStep ==
    ASSUME TypeInv, Unplugging, [Next]_vars
    PROVE  Unplugging'
<1>1. /\ tasks \in [Tasks -> Task] /\ Free.kind = "none" /\ TasksOK
  BY TaskTypes DEF TypeInv, TasksOK
<1>2. SUFFICES \A t \in Tasks : tasks'[t].kind = "create_ev" =>
                  \/ tasks[t].kind = "create_ev" /\ tasks'[t].snapshot = tasks[t].snapshot
                  \/ tasks'[t].snapshot.charger = None
  BY DEF Unplugging
<1>3. ASSUME NEW t \in Tasks, NEW e \in Evs, CreateEv(t, e)
      PROVE  \A u \in Tasks : tasks'[u] = tasks[u] \/ tasks'[u].snapshot.charger = None
  BY <1>1, <1>3 DEF CreateEv, Save, NewEv
<1>4. ASSUME NEW t \in Tasks, NEW k \in Chargers, CreateCharger(t, k)
      PROVE  \A u \in Tasks : tasks'[u] = tasks[u] \/ tasks'[u].kind # "create_ev"
  BY <1>1, <1>4 DEF CreateCharger, Free
<1>5. ASSUME NEW t \in Tasks, NEW k \in Chargers, RemoveCharger(t, k)
      PROVE  \A u \in Tasks : tasks'[u] = tasks[u] \/ tasks'[u].kind # "create_ev"
  <2>1. \A task \in Task : [task EXCEPT !.charger = None].kind = task.kind
    BY DEF Task
  <2>2. [Free EXCEPT !.kind = "remove_charger", !.charger = k].kind = "remove_charger"
    BY DEF Free
  <2>3. QED
    BY <1>1, <1>5, <2>1, <2>2 DEF RemoveCharger
<1>6. ASSUME NEW t \in Tasks, NEW e \in Evs, RemoveEv(t, e)
      PROVE  \A u \in Tasks : tasks'[u] = tasks[u] \/ tasks'[u].kind # "create_ev"
  <2>1. [Free EXCEPT !.kind = "remove_ev", !.ev = e].kind = "remove_ev"
    BY DEF Free
  <2>2. QED
    BY <1>1, <1>6, <2>1 DEF RemoveEv
<1>7. ASSUME NEW t \in Tasks, NEW e \in Evs,
             Unplug(t, e) \/ \E k \in Chargers, c \in Connectors : Plug(t, e, k, c)
      PROVE  \A u \in Tasks : tasks'[u] = tasks[u] \/ tasks'[u].kind # "create_ev"
  BY <1>1, <1>7, SaveKind DEF Unplug, Plug
<1>8. ASSUME NEW t \in Tasks, NEW k \in Chargers,
             StopTransaction(t, k) \/ \E c \in Connectors : StartTransaction(t, k, c)
      PROVE  \A u \in Tasks : tasks'[u] = tasks[u] \/ tasks'[u].kind # "create_ev"
  <2>1. CASE StopTransaction(t, k)
    BY <1>1, <2>1, StopKeepsIds DEF StopTransaction
  <2>2. ASSUME NEW c \in Connectors, StartTransaction(t, k, c), tasks' # tasks
        PROVE  Save(t, "save", chargers[k].plugged[c], None, 1, evs'[chargers[k].plugged[c]])
    BY <2>2 DEF StartTransaction
  <2>3. QED
    BY <1>1, <1>8, <2>1, <2>2, SaveKind
<1>9. ASSUME NEW t \in Tasks,
             \/ ChargerCreated(t) \/ ChargerRemoved(t) \/ EvCreated(t) \/ EvRemoved(t)
             \/ SaveCommits(t) \/ SaveFails(t)
      PROVE  \A u \in Tasks : tasks'[u] = tasks[u] \/ tasks'[u].kind # "create_ev"
  BY <1>1, <1>9 DEF ChargerCreated, ChargerRemoved, EvCreated, EvRemoved, SaveCommits,
                    SaveFails, SaveDone
<1>10. ASSUME NEW t \in Tasks, SaveLoads(t)
       PROVE  \A u \in Tasks : tasks'[u] = tasks[u] \/ tasks'[u].kind # "create_ev"
  BY <1>1, <1>10 DEF SaveLoads, SaveDone, Task
<1>11. CASE SimulatorStep
  <2>1. CASE AutoStop
    BY <1>1, <2>1, StopKeepsIds DEF AutoStop, FreeTasks
  <2>2. CASE SimulatorStep /\ ~AutoStop
    BY <2>2 DEF SimulatorStep, TickAll, TickNext, TickEv, TickAllReturns, IterationFails,
                TickLoads, TickCommits, TickFails
  <2>3. QED
    BY <1>11, <2>1, <2>2
<1>12. CASE Restart
  BY <1>1, <1>12 DEF Restart
<1>13. CASE UNCHANGED vars
  BY <1>13 DEF vars
<1>14. QED
  BY <1>3, <1>4, <1>5, <1>6, <1>7, <1>8, <1>9, <1>10, <1>11, <1>12, <1>13
     DEF Next, Request, Answer

LEMMA OneEvStep ==
    ASSUME TypeInv, Unplugging, OneEvPerConnector, [Next]_vars, "crash" \notin Environment
    PROVE  OneEvPerConnector'
<1>1. \A e \in DOMAIN evs : evs[e] \in Ev
  BY DEF TypeInv, EvsOK
<1>2. ASSUME NEW e \in DOMAIN evs, NEW ev, Stays(evs[e], ev), evs' = [evs EXCEPT ![e] = ev]
      PROVE  OneEvPerConnector'
  <2>1. \A d \in DOMAIN evs' : Stays(evs[d], evs'[d])
    BY <1>2 DEF Stays
  <2>2. QED
    BY <1>2, <2>1, StaysFree
<1>3. CASE evs' = evs
  BY <1>3 DEF OneEvPerConnector
<1>4. ASSUME NEW t \in Tasks, EvCreated(t)
      PROVE  OneEvPerConnector'
  <2>1. tasks[t].snapshot.charger = None
    BY <1>4 DEF EvCreated, Unplugging
  <2>2. CASE evs' # evs
    BY <1>4, <2>1, <2>2 DEF EvCreated, Extend, OneEvPerConnector
  <2>3. QED
    BY <1>3, <2>2
<1>5. ASSUME NEW t \in Tasks, NEW e \in Evs, RemoveEv(t, e)
      PROVE  OneEvPerConnector'
  BY <1>5 DEF RemoveEv, Without, OneEvPerConnector
<1>6. ASSUME NEW t \in Tasks, NEW e \in Evs, Unplug(t, e)
      PROVE  OneEvPerConnector'
  BY <1>1, <1>2, <1>6, EvStays DEF Unplug
<1>7. ASSUME NEW t \in Tasks, NEW e \in Evs, NEW k \in Chargers, NEW c \in Connectors,
             Plug(t, e, k, c)
      PROVE  OneEvPerConnector'
  <2>1. /\ e \in DOMAIN evs /\ ConnectorFree(k, c)
        /\ evs' = [evs EXCEPT ![e] = Plugged(evs[e], k, c)]
    BY <1>7 DEF Plug
  <2>2. Plugged(evs[e], k, c).charger = k /\ Plugged(evs[e], k, c).connector = c
    BY <1>1, <2>1 DEF Plugged, Ev
  <2>3. QED
    BY <2>1, <2>2 DEF OneEvPerConnector, ConnectorFree
<1>8. ASSUME NEW t \in Tasks, NEW k, BeginStop(t, k)
      PROVE  OneEvPerConnector'
  <2>1. CASE evs' # evs
    BY <1>1, <1>2, <1>8, <2>1, EvStays DEF BeginStop, memory
  <2>2. QED
    BY <1>3, <2>1
<1>9. ASSUME NEW t \in Tasks, NEW k \in Chargers, NEW c \in Connectors,
             StartTransaction(t, k, c)
      PROVE  OneEvPerConnector'
  <2>1. CASE evs' # evs
    BY <1>1, <1>2, <1>9, <2>1, EvStays DEF StartTransaction, Chargeable
  <2>2. QED
    BY <1>3, <2>1
<1>10. CASE SimulatorStep
  <2>1. CASE AutoStop
    BY <1>3, <1>8, <2>1 DEF AutoStop, FreeTasks, memory
  <2>2. ASSUME NEW e, NEW keys, NEW todo, TickEv(e, keys, todo)
        PROVE  OneEvPerConnector'
    BY <1>1, <1>2, <2>2, EvStays DEF TickEv
  <2>3. CASE TickAllReturns \/ IterationFails \/ TickLoads \/ TickCommits \/ TickFails
    BY <1>3, <2>3 DEF TickAllReturns, IterationFails, TickLoads, TickCommits, TickFails,
                      memory
  <2>4. QED
    BY <1>10, <2>1, <2>2, <2>3 DEF SimulatorStep, TickAll, TickNext
<1>11. ASSUME NEW t \in Tasks, NEW k \in Chargers,
              CreateCharger(t, k) \/ RemoveCharger(t, k)
       PROVE  OneEvPerConnector'
  BY <1>3, <1>11 DEF CreateCharger, RemoveCharger, memory
<1>12. ASSUME NEW t \in Tasks, NEW e \in Evs, CreateEv(t, e)
       PROVE  OneEvPerConnector'
  BY <1>3, <1>12 DEF CreateEv, memory
<1>13. ASSUME NEW t \in Tasks, Answer(t)
       PROVE  OneEvPerConnector'
  BY <1>3, <1>4, <1>13 DEF Answer, ChargerCreated, ChargerRemoved, EvRemoved, SaveLoads,
                           SaveCommits, SaveFails, memory
<1>14. CASE Restart
  BY <1>14 DEF Restart
<1>15. CASE UNCHANGED vars
  BY <1>3, <1>15 DEF vars, memory
<1>16. QED
  BY <1>5, <1>6, <1>7, <1>8, <1>9, <1>10, <1>11, <1>12, <1>13, <1>14, <1>15
     DEF Next, Request, StopTransaction

\* As long as the process is not restarted no two EVs hold the same connector,
\* however plugging, unplugging, charging and deleting interleave.
THEOREM OneEvOnConnector ==
    ASSUME "crash" \notin Environment
    PROVE  Spec => []OneEvPerConnector
<1>1. Init => Unplugging /\ OneEvPerConnector
  BY TaskTypes DEF Init, Unplugging, OneEvPerConnector
<1>2. TypeInv /\ Unplugging /\ [Next]_vars => Unplugging'
  BY UnpluggingStep
<1>3. TypeInv /\ Unplugging /\ OneEvPerConnector /\ [Next]_vars => OneEvPerConnector'
  BY OneEvStep
<1>4. QED
  BY <1>1, <1>2, <1>3, TypeHolds, PTL DEF Spec
=============================================================================
