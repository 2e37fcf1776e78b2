---------------------------- MODULE RestartProofs ----------------------------
(***************************************************************************)
(* What a restart brings back.  For any number of chargers, EVs,           *)
(* connectors, requests and restarts: as long as users wait for each other *)
(* and for the simulator, memory and tables agree on who is plugged in     *)
(* where, whatever saves a crash cuts off, and on every EV that is idle or *)
(* charges.                                                                *)
(***************************************************************************)
EXTENDS FleetProofs

\* Users wait for each other and for the simulator, and take out of service only
\* what nobody uses.  The process may still stop at any moment, and the fleet may
\* change between two saves of the simulator.
Patient == Environment \subseteq {"crash", "fleet_changes"}

-----------------------------------------------------------------------------
(* One EV, its row, and the saves under way                                *)

Columns == {"status", "charger", "connector", "session", "atTarget"}

SamePlug(row, ev) == row.charger = ev.charger /\ row.connector = ev.connector

\* What a column of the row of an EV may be when nobody is about to write it.
\* When the EV was stopped or filled up while the save of its start was under
\* way, that save may come last.
Fine(ev, column, v) ==
    /\ column \in {"charger", "connector"} \/ ev.status \in {"idle", "charging"}
          => v = ev[column]
    /\ column = "status" => v \in {ev.status, "charging"}

\* The columns of a record that go together.
Whole(ev) ==
    /\ ev.charger = None <=> ev.connector = NoConnector
    /\ ev.charger = None <=> ev.status = "idle"
    /\ ev.charger = None => ~ev.session

\* A save that is under way, of request or simulator w, leaves its row fine: it
\* writes what is fine, or has seen there what still is.
SaveInStep(w, ev, row) ==
    /\ \A column \in Columns :
          /\ Fine(ev, column, w.snapshot[column])
          /\ w.loaded # None /\ w.snapshot[column] = ev[column] =>
                w.loaded[column] = row[column] \/ Fine(ev, column, row[column])
    /\ ~SamePlug(row, ev) =>
          w.snapshot = ev /\ (w.loaded # None => w.loaded = row)
    /\ w.snapshot.atTarget => ev.atTarget

\* The row of an EV that has just been plugged in or out is still about its last
\* plug; it is never ahead of the charging.
RowInStep(ev, row) ==
    /\ Whole(ev)
    /\ row.atTarget => ev.atTarget
    /\ ~SamePlug(row, ev) => ev.status \in {"idle", "plugged"} /\ ~ev.session

\* Two records are the same when they agree on every column.
LEMMA SameColumns ==
    ASSUME NEW a \in Ev, NEW b \in Ev, \A column \in Columns : a[column] = b[column]
    PROVE  a = b
BY DEF Ev, Columns

\* A value that is fine is one of its column.
LEMMA OwnColumnsFine ==
    ASSUME NEW ev \in Ev
    PROVE  \A column \in Columns : Fine(ev, column, ev[column])
BY DEF Fine, Columns, Ev

\* A save that begins with the EV as it is.
LEMMA SaveStarts ==
    ASSUME NEW w, NEW ev \in Ev, NEW row, w.snapshot = ev, w.loaded = None
    PROVE  SaveInStep(w, ev, row)
BY OwnColumnsFine DEF SaveInStep

\* A save loads the row.
LEMMA SaveHasLoaded ==
    ASSUME NEW w, NEW v, NEW ev, NEW row, SaveInStep(w, ev, row),
           v.snapshot = w.snapshot, v.loaded = row
    PROVE  SaveInStep(v, ev, row)
BY DEF SaveInStep

\* What a commit leaves in a row, column by column.
LEMMA MergedColumns ==
    ASSUME NEW row \in Ev, NEW w, w.snapshot \in Ev, NEW column \in Columns
    PROVE  Merged(row, w)[column] = IF w.snapshot[column] # w.loaded[column]
                                    THEN w.snapshot[column] ELSE row[column]
<1>1. DOMAIN row = Columns /\ DOMAIN w.snapshot = Columns
    BY DEF Ev, Columns
<1>2. Merged(row, w) = [c \in Columns |->
                           IF c \in Changed(w) THEN w.snapshot[c] ELSE row[c]]
    BY <1>1 DEF Merged
<1>. QED
    BY <1>1, <1>2 DEF Changed

\* When a save commits its columns are fine; those that are not fine are still
\* to be written by another save.
LEMMA CommitFine ==
    ASSUME NEW ev \in Ev, NEW row \in Ev, NEW w, w.snapshot \in Ev, w.loaded # None,
           SaveInStep(w, ev, row), NEW column \in Columns
    PROVE  LET new == Merged(row, w)
           IN  \/ Fine(ev, column, new[column])
               \/ new[column] = row[column] /\ w.snapshot[column] # ev[column]
<1>1. CASE w.snapshot[column] # w.loaded[column]
    BY <1>1, MergedColumns DEF SaveInStep
<1>2. CASE w.snapshot[column] = w.loaded[column]
    <2>1. Merged(row, w)[column] = row[column]
        BY <1>2, MergedColumns
    <2>2. CASE w.snapshot[column] = ev[column]
        <3>1. w.loaded[column] = row[column] \/ Fine(ev, column, row[column])
            BY <2>2 DEF SaveInStep
        <3>2. Fine(ev, column, w.snapshot[column])
            BY DEF SaveInStep
        <3>. QED
            BY <1>2, <2>1, <3>1, <3>2
    <2>. QED
        BY <2>1, <2>2
<1>. QED
    BY <1>1, <1>2

\* A commit leaves the row of the plug the EV is in, and never ahead of it.
LEMMA CommitInStep ==
    ASSUME NEW ev \in Ev, NEW row \in Ev, NEW w, w.snapshot \in Ev, w.loaded # None,
           SaveInStep(w, ev, row), RowInStep(ev, row), Whole(row)
    PROVE  LET new == Merged(row, w)
           IN  RowInStep(ev, new) /\ SamePlug(new, ev) /\ Whole(new) /\ new \in Ev
<1> DEFINE new == Merged(row, w)
<1>1. new \in Ev
    BY MergedType
<1>2. \A column \in Columns :
         new[column] = IF w.snapshot[column] # w.loaded[column]
                       THEN w.snapshot[column] ELSE row[column]
    BY MergedColumns
<1>3. ASSUME NEW column \in {"charger", "connector"}
      PROVE  new[column] = ev[column]
    <2>1. column \in Columns
        BY DEF Columns
    <2>2. w.snapshot[column] = ev[column]
        BY <2>1 DEF SaveInStep, Fine
    <2>. QED
        BY <2>1, <2>2, CommitFine DEF Fine
<1>4. SamePlug(new, ev)
    BY <1>3 DEF SamePlug
<1>5. new.atTarget => ev.atTarget
    <2>1. "atTarget" \in Columns
        BY DEF Columns
    <2>2. new.atTarget = w.snapshot.atTarget \/ new.atTarget = row.atTarget
        BY <1>2, <2>1
    <2>. QED
        BY <2>2 DEF SaveInStep, RowInStep
<1>6. Whole(new)
    <2>1. CASE ~SamePlug(row, ev)
        <3>1. w.snapshot = ev /\ w.loaded = row
            BY <2>1 DEF SaveInStep
        <3>2. \A column \in Columns : new[column] = ev[column]
            BY <1>2, <3>1
        <3>3. new = ev
            BY <1>1, <3>2, SameColumns
        <3>. QED
            BY <3>3 DEF RowInStep
    <2>2. CASE SamePlug(row, ev)
        <3> HIDE DEF new
        <3>1. /\ "status" \in Columns /\ "session" \in Columns
              /\ new.charger = ev.charger /\ new.connector = ev.connector
              /\ row.charger = ev.charger /\ row.connector = ev.connector
            BY <1>4, <2>2 DEF SamePlug, Columns
        <3>2. /\ new.status = w.snapshot.status \/ new.status = row.status
              /\ new.session = w.snapshot.session \/ new.session = row.session
            BY <1>2, <3>1
        <3>3. CASE ev.charger = None
            <4>1. ev.status = "idle" /\ ~ev.session
                BY <3>3 DEF RowInStep, Whole
            <4>2. w.snapshot.status = "idle" /\ w.snapshot.session = ev.session
                BY <3>1, <4>1 DEF SaveInStep, Fine
            <4>. QED
                BY <3>1, <3>2, <3>3, <4>1, <4>2 DEF RowInStep, Whole
        <3>4. CASE ev.charger # None
            <4>1. ev.status # "idle" /\ row.status # "idle"
                BY <3>1, <3>4 DEF RowInStep, Whole
            <4>2. w.snapshot.status # "idle"
                BY <3>1, <4>1 DEF SaveInStep, Fine
            <4>. QED
                BY <3>1, <3>2, <3>4, <4>1, <4>2 DEF RowInStep, Whole
        <3>. QED
            BY <3>3, <3>4
    <2>. QED
        BY <2>1, <2>2
<1>. QED
    BY <1>1, <1>4, <1>5, <1>6 DEF RowInStep

\* Another save after a commit.
LEMMA OtherInStep ==
    ASSUME NEW ev \in Ev, NEW row \in Ev, NEW w, w.snapshot \in Ev, w.loaded # None,
           SaveInStep(w, ev, row), RowInStep(ev, row), Whole(row),
           NEW v, SaveInStep(v, ev, row)
    PROVE  SaveInStep(v, ev, Merged(row, w))
<1> DEFINE new == Merged(row, w)
<1>1. SamePlug(new, ev)
    BY CommitInStep
<1>2. ASSUME NEW column \in Columns, v.loaded # None, v.snapshot[column] = ev[column]
      PROVE  v.loaded[column] = new[column] \/ Fine(ev, column, new[column])
    BY <1>2, CommitFine DEF SaveInStep
<1>. QED
    BY <1>1, <1>2 DEF SaveInStep

\* A stop, or another one: the saves already under way stay in step.
LEMMA StoppedInStep ==
    ASSUME NEW ev \in Ev, ev.charger # None, NEW row, RowInStep(ev, row)
    PROVE  /\ RowInStep(Stopped(ev), row)
           /\ ~SamePlug(row, Stopped(ev)) => ~SamePlug(row, ev)
           /\ \A w : SaveInStep(w, ev, row) /\ w.snapshot.status # "full" =>
                        SaveInStep(w, Stopped(ev), row)
<1> DEFINE new == Stopped(ev)
<1>1. /\ new.charger = ev.charger /\ new.connector = ev.connector /\ new.atTarget = ev.atTarget
      /\ new.status = "plugged" /\ new.session = FALSE /\ new \in Ev
    BY DEF Stopped, Ev
<1>2. /\ \A r : SamePlug(r, new) <=> SamePlug(r, ev)
      /\ ~SamePlug(row, ev) => new = ev
    <2>1. CASE ~SamePlug(row, ev)
        <3>1. ev.status = "plugged" /\ ev.session = FALSE
            BY <2>1 DEF RowInStep, Whole, Ev
        <3>. QED
            BY <1>1, <3>1 DEF SamePlug, Ev
    <2>2. \A r : SamePlug(r, new) <=> SamePlug(r, ev)
        BY <1>1 DEF SamePlug
    <2>. QED
        BY <2>1, <2>2
<1> HIDE DEF new
<1>3. RowInStep(new, row)
    BY <1>1, <1>2 DEF RowInStep, Whole
<1>4. ASSUME NEW w, SaveInStep(w, ev, row), w.snapshot.status # "full"
      PROVE  SaveInStep(w, new, row)
    <2>1. ASSUME NEW column \in Columns
          PROVE  /\ Fine(new, column, w.snapshot[column])
                 /\ w.loaded # None /\ w.snapshot[column] = new[column] =>
                       w.loaded[column] = row[column] \/ Fine(new, column, row[column])
        <3>1. /\ Fine(ev, column, w.snapshot[column])
              /\ w.loaded # None /\ w.snapshot[column] = ev[column] =>
                    w.loaded[column] = row[column] \/ Fine(ev, column, row[column])
            BY <1>4 DEF SaveInStep
        <3>2. CASE column = "status"
            <4>1. ev.status \in {"plugged", "charging", "full"}
                BY DEF RowInStep, Whole, Ev
            <4>2. w.snapshot.status \in {ev.status, "charging"}
                BY <3>1, <3>2 DEF Fine
            <4>3. w.snapshot.status = "plugged" => ev.status = "plugged"
                BY <4>1, <4>2
            <4>. QED
                BY <1>1, <1>4, <3>1, <3>2, <4>1, <4>2, <4>3 DEF Fine
        <3>3. CASE column \in {"charger", "connector"}
            BY <1>1, <3>1, <3>3 DEF Fine
        <3>4. CASE column \in {"session", "atTarget"}
            BY <1>1, <3>4 DEF Fine
        <3>. QED
            BY <3>2, <3>3, <3>4 DEF Columns
    <2>2. ~SamePlug(row, new) =>
             w.snapshot = new /\ (w.loaded # None => w.loaded = row)
        BY <1>2, <1>4 DEF SaveInStep
    <2>3. w.snapshot.atTarget => new.atTarget
        BY <1>1, <1>4 DEF SaveInStep
    <2>. QED
        BY <2>1, <2>2, <2>3 DEF SaveInStep
<1>. QED
    BY <1>2, <1>3, <1>4 DEF new

\* A tick: the saves already under way stay in step.
LEMMA TickedInStep ==
    ASSUME NEW ev \in Ev, ev.status = "charging", NEW row, RowInStep(ev, row),
           NEW new \in Ticked(ev)
    PROVE  /\ RowInStep(new, row)
           /\ SamePlug(row, new)
           /\ \A w : SaveInStep(w, ev, row) => SaveInStep(w, new, row)
<1>1. SamePlug(row, ev)
    BY DEF RowInStep
<1>2. CASE new = ev
    BY <1>1, <1>2
<1>3. CASE new = [ev EXCEPT !.status = "full", !.atTarget = TRUE]
    <2>1. /\ new.charger = ev.charger /\ new.connector = ev.connector /\ new.atTarget
          /\ new.status = "full" /\ new.session = ev.session
        BY <1>3 DEF Ev
    <2>2. SamePlug(row, new)
        BY <1>1, <2>1 DEF SamePlug
    <2>3. RowInStep(new, row)
        BY <2>1, <2>2 DEF RowInStep, Whole
    <2>4. ASSUME NEW w, SaveInStep(w, ev, row)
          PROVE  SaveInStep(w, new, row)
        <3>1. ASSUME NEW column \in Columns
              PROVE  /\ Fine(new, column, w.snapshot[column])
                     /\ w.loaded # None /\ w.snapshot[column] = new[column] =>
                           w.loaded[column] = row[column] \/ Fine(new, column, row[column])
            <4>1. /\ Fine(ev, column, w.snapshot[column])
                  /\ w.loaded # None /\ w.snapshot[column] = ev[column] =>
                        w.loaded[column] = row[column] \/ Fine(ev, column, row[column])
                BY <2>4 DEF SaveInStep
            <4>2. CASE column = "status"
                BY <2>1, <4>1, <4>2 DEF Fine
            <4>3. CASE column \in {"charger", "connector"}
                BY <2>1, <4>1, <4>3 DEF Fine
            <4>4. CASE column \in {"session", "atTarget"}
                BY <2>1, <4>4 DEF Fine
            <4>. QED
                BY <4>2, <4>3, <4>4 DEF Columns
        <3>. QED
            BY <2>1, <2>2, <3>1 DEF SaveInStep
    <2>. QED
        BY <2>2, <2>3, <2>4
<1>. QED
    BY <1>2, <1>3 DEF Ticked

-----------------------------------------------------------------------------
(* The fleet and its tables                                                *)

Saves(t) == tasks[t].kind \in {"save", "stop"}
Ticks == simulator.state = "saving"

\* The saves under way, of requests and of the simulator.
SavesInStep ==
    /\ \A t \in Tasks : Saves(t) =>
          /\ tasks[t].ev \in DOMAIN evs
          /\ tasks[t].snapshot.status # "full"
          /\ SaveInStep(tasks[t], evs[tasks[t].ev], evRows[tasks[t].ev])
    /\ Ticks =>
          /\ simulator.ev \in DOMAIN evs
          /\ SaveInStep(simulator, evs[simulator.ev], evRows[simulator.ev])

\* Somebody is about to write the column as it is in memory.
WillBeWritten(e, column) ==
    \/ \E t \in Tasks : /\ Saves(t) /\ tasks[t].ev = e
                        /\ tasks[t].snapshot[column] = evs[e][column]
    \/ Ticks /\ simulator.ev = e /\ simulator.snapshot[column] = evs[e][column]

\* The request that plugs EV e in or out.
Replugging(e) == \E t \in Tasks : tasks[t].kind = "save" /\ tasks[t].ev = e

\* The EVs of the pool and their rows.
EvsInStep ==
    \A e \in DOMAIN evs :
        /\ RowInStep(evs[e], evRows[e])
        /\ \A column \in Columns :
              Fine(evs[e], column, evRows[e][column]) \/ WillBeWritten(e, column)
        /\ ~SamePlug(evRows[e], evs[e]) => Replugging(e)

\* The rows are a fleet that can be started again.
RowsInStep ==
    \A e \in DOMAIN evRows :
        /\ Whole(evRows[e])
        /\ evRows[e].charger \in chargerRows \cup {None}
        /\ \A d \in DOMAIN evRows :
              evRows[d].charger # None /\ SamePlug(evRows[d], evRows[e]) => d = e

\* The tables hold what the pools hold, and what is about to be deleted.
IdsInStep ==
    /\ DOMAIN chargers \subseteq chargerRows
    /\ \A k \in chargerRows \ DOMAIN chargers : \E t \in Tasks : Removing(t, k)
    /\ DOMAIN evs \subseteq DOMAIN evRows
    /\ \A e \in DOMAIN evRows \ DOMAIN evs :
          evRows[e].charger = None /\ \E t \in Tasks : RemovingEv(t, e)

\* One request at a time, but for the stops of the simulator; what is created or
\* deleted is not in its pool.
Requested(t) == tasks[t].kind \notin {"none", "stop"}
RequestsInStep ==
    \A t \in Tasks :
        /\ Requested(t) => \A u \in Tasks : Requested(u) => u = t
        /\ tasks[t].kind \in {"create_charger", "remove_charger"} =>
              tasks[t].charger \notin DOMAIN chargers
        /\ tasks[t].kind = "create_ev" => tasks[t].snapshot = NewEv(FALSE)
        /\ tasks[t].kind \in {"create_ev", "remove_ev"} => tasks[t].ev \notin DOMAIN evs

RowsInv == SavesInStep /\ EvsInStep /\ RowsInStep
InStep == PlugsAgree /\ RequestsInStep /\ IdsInStep /\ RowsInv
PatientInv == TypeInv /\ InStep

\* At first there is nothing.
LEMMA PatientInit == Init => PatientInv
<1> SUFFICES ASSUME Init PROVE PatientInv
    OBVIOUS
<1>1. /\ DOMAIN chargers = {} /\ DOMAIN evs = {} /\ DOMAIN evRows = {} /\ chargerRows = {}
      /\ \A t \in Tasks : tasks[t].kind = "none"
      /\ simulator.state = "resting"
    BY DEF Init, Free, Resting
<1>2. PlugsAgree
    BY <1>1 DEF PlugsAgree
<1>3. RequestsInStep /\ IdsInStep
    BY <1>1 DEF RequestsInStep, Requested, IdsInStep
<1>4. RowsInv
    BY <1>1 DEF RowsInv, SavesInStep, EvsInStep, RowsInStep, Saves, Ticks
<1>. QED
    BY <1>2, <1>3, <1>4, TypeInit DEF PatientInv, InStep

\* A request that is not under way.
LEMMA Waiting ==
    ASSUME Patient, MayCommand
    PROVE  NoRequest /\ ~Ticks /\ \A t \in Tasks : tasks[t].kind = "none"
BY DEF Patient, MayCommand, NoRequest, FreeTasks, Ticks

-----------------------------------------------------------------------------
(* What a step does to the rows                                            *)

\* A step that changes no EV, no row and no save.
LEMMA RowsUntouched ==
    ASSUME RowsInv, evs' = evs, DOMAIN evRows' = DOMAIN evRows, DOMAIN evs \subseteq DOMAIN evRows,
           \A e \in DOMAIN evRows :
              /\ evRows'[e] = evRows[e]
              /\ evRows[e].charger \in chargerRows => evRows[e].charger \in chargerRows',
           \A t \in Tasks : Saves(t) \/ Saves(t)' => tasks'[t] = tasks[t],
           Ticks \/ Ticks' => simulator' = simulator
    PROVE  RowsInv'
<1>1. SavesInStep'
    BY DEF RowsInv, SavesInStep, Saves, Ticks
<1>2. ASSUME NEW e \in DOMAIN evs, NEW column \in Columns, WillBeWritten(e, column)
      PROVE  WillBeWritten(e, column)'
    BY <1>2 DEF WillBeWritten, Saves, Ticks
<1>3. ASSUME NEW e \in DOMAIN evs, Replugging(e)
      PROVE  Replugging(e)'
    BY <1>3 DEF Replugging, Saves
<1>4. EvsInStep'
    BY <1>2, <1>3 DEF RowsInv, EvsInStep
<1>5. RowsInStep'
    BY DEF RowsInv, RowsInStep
<1>. QED
    BY <1>1, <1>4, <1>5 DEF RowsInv

\* A request changes an EV, and the save of what it has become begins.
LEMMA RowsSaveBegins ==
    ASSUME TypeInv, RowsInv, NEW t \in FreeTasks, NEW e \in DOMAIN evs, NEW ev \in Ev,
           NEW kind \in {"save", "stop"}, NEW k, NEW c, Save(t, kind, e, k, c, ev),
           evs' = [evs EXCEPT ![e] = ev], UNCHANGED <<evRows, chargerRows>>, ~Ticks, ~Ticks',
           RowInStep(ev, evRows[e]), ev.status # "full",
           \A u \in Tasks : Saves(u) /\ tasks[u].ev = e =>
                               SaveInStep(tasks[u], ev, evRows[e]),
           ~SamePlug(evRows[e], ev) => kind = "save" \/ Replugging(e)
    PROVE  RowsInv'
<1> DEFINE task == [kind |-> kind, ev |-> e, charger |-> k, connector |-> c,
                    snapshot |-> ev, loaded |-> None]
<1>1. /\ tasks' = [tasks EXCEPT ![t] = task] /\ t \in Tasks /\ tasks[t].kind = "none"
      /\ tasks'[t] = task /\ \A u \in Tasks : u # t => tasks'[u] = tasks[u]
    BY DEF Save, FreeTasks, TypeInv, TasksOK
<1>2. task.kind = kind /\ task.ev = e /\ task.snapshot = ev /\ task.loaded = None
    OBVIOUS
<1> HIDE DEF task
<1>3. SaveInStep(task, ev, evRows[e])
    BY <1>2, SaveStarts
<1>4. /\ DOMAIN evs' = DOMAIN evs /\ evs'[e] = ev
      /\ \A d \in DOMAIN evs : d # e => evs'[d] = evs[d]
    OBVIOUS
<1>5. SavesInStep'
    <2>1. ASSUME NEW u \in Tasks, tasks'[u].kind \in {"save", "stop"}
          PROVE  /\ tasks'[u].ev \in DOMAIN evs /\ tasks'[u].snapshot.status # "full"
                 /\ SaveInStep(tasks'[u], evs'[tasks'[u].ev], evRows[tasks'[u].ev])
        <3>1. CASE u = t
            BY <1>1, <1>2, <1>3, <1>4, <3>1
        <3>2. CASE u # t
            <4>1. /\ Saves(u) /\ tasks'[u] = tasks[u] /\ tasks[u].ev \in DOMAIN evs
                  /\ tasks[u].snapshot.status # "full"
                  /\ SaveInStep(tasks[u], evs[tasks[u].ev], evRows[tasks[u].ev])
                BY <1>1, <2>1, <3>2 DEF RowsInv, SavesInStep, Saves
            <4>2. CASE tasks[u].ev = e
                BY <1>4, <4>1, <4>2
            <4>3. CASE tasks[u].ev # e
                BY <1>4, <4>1, <4>3
            <4>. QED
                BY <4>2, <4>3
        <3>. QED
            BY <3>1, <3>2
    <2>. QED
        BY <1>4, <2>1 DEF SavesInStep, Saves, Ticks
<1>6. ASSUME NEW d \in DOMAIN evs, d # e, NEW column \in Columns, WillBeWritten(d, column)
      PROVE  WillBeWritten(d, column)'
    <2>1. PICK u \in Tasks : /\ Saves(u) /\ tasks[u].ev = d
                             /\ tasks[u].snapshot[column] = evs[d][column]
        BY <1>6 DEF WillBeWritten
    <2>2. u # t
        BY <1>1, <2>1 DEF Saves
    <2>. QED
        BY <1>1, <1>4, <1>6, <2>1, <2>2 DEF WillBeWritten, Saves
<1>7. ASSUME NEW column \in Columns
      PROVE  WillBeWritten(e, column)'
    BY <1>1, <1>2, <1>4 DEF WillBeWritten, Saves
<1>8. ASSUME NEW d, Replugging(d)
      PROVE  Replugging(d)'
    BY <1>1, <1>8 DEF Replugging
<1>9. kind = "save" => Replugging(e)'
    BY <1>1, <1>2 DEF Replugging
<1>10. EvsInStep'
    BY <1>4, <1>6, <1>7, <1>8, <1>9 DEF EvsInStep, RowsInv
<1>11. RowsInStep'
    BY DEF RowsInStep, RowsInv
<1>. QED
    BY <1>5, <1>10, <1>11 DEF RowsInv

\* An EV is ticked and its save begins.
LEMMA RowsTicked ==
    ASSUME TypeInv, RowsInv, ~Ticks, NEW e, NEW keys, NEW todo, TickEv(e, keys, todo)
    PROVE  RowsInv'
<1>1. e \in DOMAIN evs /\ evs[e].status = "charging" /\ evs[e] \in Ev
    BY DEF TickEv, TypeInv, EvsOK
<1>2. PICK ev \in Ticked(evs[e]) :
          /\ evs' = [evs EXCEPT ![e] = ev]
          /\ simulator' = [state |-> "saving", keys |-> keys, todo |-> todo \ {e},
                           ev |-> e, snapshot |-> ev, loaded |-> None]
    BY DEF TickEv
<1>3. UNCHANGED <<evRows, chargerRows, tasks>>
    BY DEF TickEv, database
<1>4. ev \in Ev
    BY <1>1, EvTypes
<1>5. /\ RowInStep(ev, evRows[e]) /\ SamePlug(evRows[e], ev)
      /\ \A w : SaveInStep(w, evs[e], evRows[e]) => SaveInStep(w, ev, evRows[e])
    BY <1>1, TickedInStep DEF RowsInv, EvsInStep
<1>6. /\ DOMAIN evs' = DOMAIN evs /\ evs'[e] = ev
      /\ \A d \in DOMAIN evs : d # e => evs'[d] = evs[d]
    BY <1>1, <1>2
<1>7. /\ simulator'.state = "saving" /\ simulator'.ev = e
      /\ simulator'.snapshot = ev /\ simulator'.loaded = None
    BY <1>2
<1>8. SavesInStep'
    <2>1. SaveInStep(simulator', ev, evRows[e])
        BY <1>4, <1>7, SaveStarts
    <2>2. ASSUME NEW u \in Tasks, Saves(u)
          PROVE  /\ tasks[u].ev \in DOMAIN evs /\ tasks[u].snapshot.status # "full"
                 /\ SaveInStep(tasks[u], evs'[tasks[u].ev], evRows[tasks[u].ev])
        <3>1. /\ tasks[u].ev \in DOMAIN evs /\ tasks[u].snapshot.status # "full"
              /\ SaveInStep(tasks[u], evs[tasks[u].ev], evRows[tasks[u].ev])
            BY <2>2 DEF RowsInv, SavesInStep
        <3>2. CASE tasks[u].ev = e
            BY <1>5, <1>6, <3>1, <3>2
        <3>3. CASE tasks[u].ev # e
            BY <1>6, <3>1, <3>3
        <3>. QED
            BY <3>2, <3>3
    <2>. QED
        BY <1>1, <1>3, <1>6, <1>7, <2>1, <2>2 DEF SavesInStep, Saves, Ticks
<1>9. ASSUME NEW column \in Columns
      PROVE  WillBeWritten(e, column)'
    BY <1>6, <1>7 DEF WillBeWritten, Ticks
<1>10. ASSUME NEW d \in DOMAIN evs, d # e, NEW column \in Columns, WillBeWritten(d, column)
       PROVE  WillBeWritten(d, column)'
    BY <1>3, <1>6, <1>10 DEF WillBeWritten, Saves
<1>11. EvsInStep'
    BY <1>3, <1>5, <1>6, <1>9, <1>10 DEF EvsInStep, RowsInv, Replugging
<1>12. RowsInStep'
    BY <1>3 DEF RowsInStep, RowsInv
<1>. QED
    BY <1>8, <1>11, <1>12 DEF RowsInv

\* The save of a request loads the row.
LEMMA RowsLoaded ==
    ASSUME TypeInv, RowsInv, NEW t \in Tasks, Saves(t),
           tasks' = [tasks EXCEPT ![t].loaded = evRows[tasks[t].ev]],
           UNCHANGED <<evs, evRows, chargerRows, simulator>>
    PROVE  RowsInv'
<1>1. /\ tasks \in [Tasks -> Task] /\ \A u \in Tasks : u # t => tasks'[u] = tasks[u]
      /\ tasks'[t] = [tasks[t] EXCEPT !.loaded = evRows[tasks[t].ev]]
    BY DEF TypeInv, TasksOK
<1>2. /\ tasks'[t].kind = tasks[t].kind /\ tasks'[t].ev = tasks[t].ev
      /\ tasks'[t].snapshot = tasks[t].snapshot /\ tasks'[t].loaded = evRows[tasks[t].ev]
    BY <1>1 DEF Task
<1>3. /\ tasks[t].ev \in DOMAIN evs /\ tasks[t].snapshot.status # "full"
      /\ SaveInStep(tasks[t], evs[tasks[t].ev], evRows[tasks[t].ev])
    BY DEF RowsInv, SavesInStep
<1>4. SaveInStep(tasks'[t], evs[tasks[t].ev], evRows[tasks[t].ev])
    BY <1>2, <1>3, SaveHasLoaded
<1>5. SavesInStep'
    BY <1>1, <1>2, <1>3, <1>4 DEF RowsInv, SavesInStep, Saves, Ticks
<1>6. \A u \in Tasks : /\ tasks'[u].kind = tasks[u].kind /\ tasks'[u].ev = tasks[u].ev
                       /\ tasks'[u].snapshot = tasks[u].snapshot
    BY <1>1, <1>2
<1>7. ASSUME NEW e \in DOMAIN evs, NEW column \in Columns, WillBeWritten(e, column)
      PROVE  WillBeWritten(e, column)'
    BY <1>6, <1>7 DEF WillBeWritten, Saves, Ticks
<1>8. ASSUME NEW e, Replugging(e)
      PROVE  Replugging(e)'
    BY <1>6, <1>8 DEF Replugging
<1>9. EvsInStep'
    BY <1>7, <1>8 DEF RowsInv, EvsInStep
<1>10. RowsInStep'
    BY DEF RowsInv, RowsInStep
<1>. QED
    BY <1>5, <1>9, <1>10 DEF RowsInv

\* The save of a tick loads the row.
LEMMA RowsTickLoaded ==
    ASSUME TypeInv, RowsInv, Ticks,
           simulator' = [simulator EXCEPT !.loaded = evRows[simulator.ev]],
           UNCHANGED <<evs, evRows, chargerRows, tasks>>
    PROVE  RowsInv'
<1>1. /\ simulator'.state = simulator.state /\ simulator'.ev = simulator.ev
      /\ simulator'.snapshot = simulator.snapshot
      /\ simulator'.loaded = evRows[simulator.ev]
    BY DEF TypeInv, SimulatorOK, Simulator
<1>2. /\ simulator.ev \in DOMAIN evs
      /\ SaveInStep(simulator, evs[simulator.ev], evRows[simulator.ev])
    BY DEF RowsInv, SavesInStep
<1>3. SaveInStep(simulator', evs[simulator.ev], evRows[simulator.ev])
    BY <1>1, <1>2, SaveHasLoaded
<1>4. SavesInStep'
    BY <1>1, <1>2, <1>3 DEF RowsInv, SavesInStep, Saves, Ticks
<1>5. ASSUME NEW e \in DOMAIN evs, NEW column \in Columns, WillBeWritten(e, column)
      PROVE  WillBeWritten(e, column)'
    BY <1>1, <1>5 DEF WillBeWritten, Saves, Ticks
<1>6. EvsInStep'
    BY <1>5 DEF RowsInv, EvsInStep, Replugging
<1>7. RowsInStep'
    BY DEF RowsInv, RowsInStep
<1>. QED
    BY <1>4, <1>6, <1>7 DEF RowsInv

\* A plug is one EV's.
LEMMA OnePlug ==
    ASSUME TypeInv, PlugsAgree, EvsInStep, NEW d \in DOMAIN evs, NEW e \in DOMAIN evs,
           evs[e].charger # None, SamePlug(evs[d], evs[e])
    PROVE  d = e
<1>1. evs[e] \in Ev /\ d \in Evs /\ e \in Evs /\ Whole(evs[e])
    BY DEF TypeInv, EvsOK, EvsInStep, RowInStep
<1>2. evs[e].connector \in Connectors /\ evs[e].charger \in DOMAIN chargers
    BY <1>1 DEF Ev, Whole, PlugsAgree
<1>. QED
    BY <1>1, <1>2 DEF PlugsAgree, SamePlug

\* A save commits and ends: that of request or simulator w.
LEMMA RowCommitted ==
    ASSUME TypeInv, PlugsAgree, RequestsInStep, IdsInStep, RowsInv,
           NEW w, w.snapshot \in Ev, w.loaded # None, w.ev \in DOMAIN evs,
           SaveInStep(w, evs[w.ev], evRows[w.ev]),
           DOMAIN evRows' = DOMAIN evRows, evRows'[w.ev] = Merged(evRows[w.ev], w),
           \A d \in DOMAIN evRows : d # w.ev => evRows'[d] = evRows[d],
           UNCHANGED <<evs, chargerRows>>,
           \A u \in Tasks : Saves(u)' => tasks'[u] = tasks[u],
           \A u \in Tasks : Saves(u) => tasks'[u] = tasks[u] \/ tasks[u] = w,
           Ticks' => simulator' = simulator,
           Ticks => simulator' = simulator \/ simulator = w
    PROVE  RowsInv'
<1> DEFINE e == w.ev
           new == Merged(evRows[e], w)
<1>1. /\ evs[e] \in Ev /\ e \in DOMAIN evRows /\ evRows[e] \in Ev
      /\ RowInStep(evs[e], evRows[e]) /\ Whole(evRows[e])
    BY DEF TypeInv, EvsOK, RowsOK, IdsInStep, RowsInv, EvsInStep, RowsInStep
<1>2. /\ RowInStep(evs[e], new) /\ SamePlug(new, evs[e]) /\ Whole(new)
      /\ \A v : SaveInStep(v, evs[e], evRows[e]) => SaveInStep(v, evs[e], new)
      /\ \A column \in Columns :
            \/ Fine(evs[e], column, new[column])
            \/ new[column] = evRows[e][column] /\ w.snapshot[column] # evs[e][column]
    BY <1>1, CommitInStep, OtherInStep, CommitFine
<1>3. /\ DOMAIN evRows' = DOMAIN evRows /\ evRows'[e] = new
      /\ \A d \in DOMAIN evRows : d # e => evRows'[d] = evRows[d]
    BY <1>1
<1> HIDE DEF e, new
<1>4. SavesInStep'
    <2>1. ASSUME NEW v, NEW d \in DOMAIN evs, SaveInStep(v, evs[d], evRows[d])
          PROVE  SaveInStep(v, evs[d], evRows'[d])
        <3>1. d \in DOMAIN evRows
            BY DEF IdsInStep
        <3>. QED
            BY <1>2, <1>3, <2>1, <3>1
    <2>2. ASSUME NEW u \in Tasks, Saves(u)'
          PROVE  /\ tasks'[u].ev \in DOMAIN evs /\ tasks'[u].snapshot.status # "full"
                 /\ SaveInStep(tasks'[u], evs[tasks'[u].ev], evRows'[tasks'[u].ev])
        <3>1. tasks'[u] = tasks[u] /\ Saves(u)
            BY <2>2 DEF Saves
        <3>. QED
            BY <2>1, <3>1 DEF RowsInv, SavesInStep
    <2>3. Ticks' => /\ simulator'.ev \in DOMAIN evs
                    /\ SaveInStep(simulator', evs[simulator'.ev], evRows'[simulator'.ev])
        BY <2>1 DEF RowsInv, SavesInStep, Ticks
    <2>. QED
        BY <2>2, <2>3 DEF SavesInStep
<1>5. ASSUME NEW d \in DOMAIN evs, NEW column \in Columns, WillBeWritten(d, column),
             d # e \/ w.snapshot[column] # evs[d][column]
      PROVE  WillBeWritten(d, column)'
    <2>1. CASE \E t \in Tasks : /\ Saves(t) /\ tasks[t].ev = d
                               /\ tasks[t].snapshot[column] = evs[d][column]
        <3>1. PICK t \in Tasks : /\ Saves(t) /\ tasks[t].ev = d
                                /\ tasks[t].snapshot[column] = evs[d][column]
            BY <2>1
        <3>2. tasks[t] # w
            BY <1>5, <3>1 DEF e
        <3>3. tasks'[t] = tasks[t] /\ Saves(t)'
            BY <3>1, <3>2 DEF Saves
        <3>. QED
            BY <3>1, <3>3 DEF WillBeWritten
    <2>2. CASE Ticks /\ simulator.ev = d /\ simulator.snapshot[column] = evs[d][column]
        <3>1. simulator # w
            BY <1>5, <2>2 DEF e
        <3>2. simulator' = simulator /\ Ticks'
            BY <2>2, <3>1 DEF Ticks
        <3>. QED
            BY <2>2, <3>2 DEF WillBeWritten
    <2>. QED
        BY <1>5, <2>1, <2>2 DEF WillBeWritten
<1>6. ASSUME NEW d \in DOMAIN evs
      PROVE  /\ RowInStep(evs[d], evRows'[d])
             /\ \A column \in Columns :
                   Fine(evs[d], column, evRows'[d][column]) \/ WillBeWritten(d, column)'
             /\ ~SamePlug(evRows'[d], evs[d]) => Replugging(d)'
    <2>1. /\ d \in DOMAIN evRows /\ RowInStep(evs[d], evRows[d])
          /\ \A column \in Columns :
                Fine(evs[d], column, evRows[d][column]) \/ WillBeWritten(d, column)
          /\ ~SamePlug(evRows[d], evs[d]) => Replugging(d)
        BY DEF IdsInStep, RowsInv, EvsInStep
    <2>2. CASE d = e
        <3>1. ASSUME NEW column \in Columns
              PROVE  Fine(evs[d], column, evRows'[d][column]) \/ WillBeWritten(d, column)'
            BY <1>2, <1>3, <1>5, <2>1, <2>2
        <3>. QED
            BY <1>2, <1>3, <2>2, <3>1
    <2>3. CASE d # e
        <3>1. Replugging(d) => Replugging(d)'
            BY <2>3 DEF Replugging, Saves, e
        <3>. QED
            BY <1>3, <1>5, <2>1, <2>3, <3>1
    <2>. QED
        BY <2>2, <2>3
<1>7. EvsInStep'
    BY <1>6 DEF EvsInStep
<1>8. new.charger \in chargerRows \cup {None}
    BY <1>2 DEF SamePlug, PlugsAgree, IdsInStep, e
<1>9. ASSUME NEW d \in DOMAIN evRows, d # e, SamePlug(evRows[d], new)
      PROVE  new.charger = None
    <2>1. SamePlug(evRows[d], evs[e])
        BY <1>2, <1>9 DEF SamePlug
    <2>2. CASE d \notin DOMAIN evs
        BY <1>9, <2>2 DEF IdsInStep, SamePlug
    <2>3. CASE d \in DOMAIN evs /\ SamePlug(evRows[d], evs[d])
        <3>1. SamePlug(evs[d], evs[e])
            BY <2>1, <2>3 DEF SamePlug
        <3>2. evs[e].charger = None
            BY <1>9, <2>3, <3>1, OnePlug DEF RowsInv, e
        <3>. QED
            BY <1>2, <3>2 DEF SamePlug
    <2>4. CASE d \in DOMAIN evs /\ ~SamePlug(evRows[d], evs[d])
        <3>1. PICK t \in Tasks : tasks[t].kind = "save" /\ tasks[t].ev = d
            BY <2>4 DEF RowsInv, EvsInStep, Replugging
        <3>2. ~Replugging(e)
            BY <1>9, <3>1 DEF Replugging, RequestsInStep, Requested
        <3>3. SamePlug(evRows[e], evs[e])
            BY <3>2 DEF RowsInv, EvsInStep, e
        <3>4. SamePlug(evRows[d], evRows[e])
            BY <2>1, <3>3 DEF SamePlug
        <3>5. evRows[d].charger = None
            BY <1>1, <1>9, <3>4 DEF RowsInv, RowsInStep, e
        <3>. QED
            BY <1>9, <3>5 DEF SamePlug
    <2>. QED
        BY <2>2, <2>3, <2>4
<1>10. RowsInStep'
    <2>1. ASSUME NEW d \in DOMAIN evRows
          PROVE  Whole(evRows'[d]) /\ evRows'[d].charger \in chargerRows \cup {None}
        BY <1>2, <1>3, <1>8 DEF RowsInv, RowsInStep
    <2>2. ASSUME NEW a \in DOMAIN evRows, NEW d \in DOMAIN evRows,
                 evRows'[d].charger # None, SamePlug(evRows'[d], evRows'[a])
          PROVE  d = a
        <3>1. CASE d # e /\ a # e
            BY <1>3, <2>2, <3>1 DEF RowsInv, RowsInStep
        <3>2. CASE d # e /\ a = e
            BY <1>3, <1>9, <2>2, <3>2 DEF SamePlug
        <3>3. CASE d = e /\ a # e
            <4>1. SamePlug(evRows[a], new)
                BY <1>3, <2>2, <3>3 DEF SamePlug
            <4>. QED
                BY <1>3, <1>9, <2>2, <3>3, <4>1
        <3>. QED
            BY <3>1, <3>2, <3>3
    <2>. QED
        BY <1>3, <2>1, <2>2 DEF RowsInStep
<1>. QED
    BY <1>4, <1>7, <1>10 DEF RowsInv

\* A save that is under way never fails: its row is there, and so is the charger
\* it is to refer to.
LEMMA NoCommitFails ==
    ASSUME PlugsAgree, IdsInStep, NEW w, w.ev \in DOMAIN evs,
           SaveInStep(w, evs[w.ev], evRows[w.ev])
    PROVE  ~CommitFails(w)
<1>1. "charger" \in Columns /\ w.ev \in DOMAIN evRows
    BY DEF Columns, IdsInStep
<1>2. w.snapshot.charger = evs[w.ev].charger
    BY <1>1 DEF SaveInStep, Fine
<1>. QED
    BY <1>1, <1>2 DEF CommitFails, PlugsAgree, IdsInStep

\* What a commit does to the row, whether or not something is to be written.
LEMMA CommitWrites ==
    ASSUME RowsOK, NEW w, w.ev \in DOMAIN evRows, Commits(w)
    PROVE  /\ DOMAIN evRows' = DOMAIN evRows /\ evRows'[w.ev] = Merged(evRows[w.ev], w)
           /\ \A d \in DOMAIN evRows : d # w.ev => evRows'[d] = evRows[d]
<1>1. CASE Changed(w) = {}
    <2>1. evRows[w.ev] \in Ev /\ evRows' = evRows
        BY <1>1 DEF RowsOK, Commits
    <2>2. Merged(evRows[w.ev], w) = evRows[w.ev]
        BY <1>1, <2>1 DEF Merged, Ev
    <2>. QED
        BY <2>1, <2>2
<1>2. CASE Changed(w) # {}
    BY <1>2 DEF Commits
<1>. QED
    BY <1>1, <1>2

-----------------------------------------------------------------------------
(* What a step does to the plugs, the ids and the requests                 *)

\* Nobody is plugged in or out.
LEMMA PlugsSame ==
    ASSUME PlugsAgree, DOMAIN chargers' = DOMAIN chargers, DOMAIN evs' = DOMAIN evs,
           \A k \in DOMAIN chargers : chargers'[k].plugged = chargers[k].plugged,
           \A e \in DOMAIN evs : SamePlug(evs'[e], evs[e])
    PROVE  PlugsAgree'
BY DEF PlugsAgree, SamePlug

\* Nothing is created or deleted.
LEMMA IdsSame ==
    ASSUME IdsInStep, DOMAIN chargers' = DOMAIN chargers, DOMAIN evs' = DOMAIN evs,
           chargerRows' = chargerRows, DOMAIN evRows' = DOMAIN evRows,
           \A e \in DOMAIN evRows \ DOMAIN evs : evRows'[e] = evRows[e],
           \A t \in Tasks : tasks[t].kind \in {"remove_charger", "remove_ev"} =>
                                tasks'[t] = tasks[t]
    PROVE  IdsInStep'
BY DEF IdsInStep, Removing, RemovingEv

\* One request, alone.
LEMMA RequestAlone ==
    ASSUME NEW t \in Tasks, \A u \in Tasks : u # t => tasks'[u].kind = "none",
           tasks'[t].kind \in {"create_charger", "remove_charger"} =>
              tasks'[t].charger \notin DOMAIN chargers',
           tasks'[t].kind = "create_ev" => tasks'[t].snapshot = NewEv(FALSE),
           tasks'[t].kind \in {"create_ev", "remove_ev"} => tasks'[t].ev \notin DOMAIN evs'
    PROVE  RequestsInStep'
BY DEF RequestsInStep, Requested

\* A request is answered.
LEMMA RequestEnds ==
    ASSUME TypeInv, RequestsInStep, NEW t \in Tasks, Requested(t),
           tasks' = [tasks EXCEPT ![t] = Free]
    PROVE  RequestsInStep'
<1>1. tasks'[t].kind = "none" /\ \A u \in Tasks : u # t => tasks'[u] = tasks[u]
    BY TaskTypes DEF TypeInv, TasksOK
<1>2. \A u \in Tasks : tasks'[u].kind \in {"none", "stop"}
    BY <1>1 DEF RequestsInStep, Requested
<1>. QED
    BY <1>2 DEF RequestsInStep, Requested

\* The requests under way stay what they are, but for stops that begin and end.
LEMMA RequestsGoOn ==
    ASSUME RequestsInStep, DOMAIN chargers' = DOMAIN chargers, DOMAIN evs' = DOMAIN evs,
           \A u \in Tasks : \/ tasks'[u].kind \in {"none", "stop"}
                            \/ /\ tasks'[u].kind = tasks[u].kind
                               /\ tasks'[u].charger = tasks[u].charger
                               /\ tasks'[u].ev = tasks[u].ev
                               /\ tasks'[u].snapshot = tasks[u].snapshot
    PROVE  RequestsInStep'
BY DEF RequestsInStep, Requested

\* When nothing is under way every row is that of its EV's plug, and fine.
LEMMA RowsSettled ==
    ASSUME RowsInv, ~Ticks, \A t \in Tasks : tasks[t].kind = "none", NEW e \in DOMAIN evs
    PROVE  /\ SamePlug(evRows[e], evs[e]) /\ RowInStep(evs[e], evRows[e])
           /\ \A column \in Columns : Fine(evs[e], column, evRows[e][column])
BY DEF RowsInv, EvsInStep, Replugging, WillBeWritten, Saves

-----------------------------------------------------------------------------
(* Every step keeps memory and tables in step                              *)

LEMMA CreateChargerInStep ==
    ASSUME Patient, PatientInv, NEW t \in Tasks, NEW k \in Chargers, CreateCharger(t, k)
    PROVE  InStep'
<1> DEFINE task == [Free EXCEPT !.kind = "create_charger", !.charger = k]
<1>1. ~Ticks /\ \A u \in Tasks : tasks[u].kind = "none"
    BY Waiting DEF CreateCharger
<1>2. task.kind = "create_charger" /\ task.charger = k
    BY DEF Free
<1>3. tasks'[t] = task /\ \A u \in Tasks : u # t => tasks'[u] = tasks[u]
    BY DEF CreateCharger, PatientInv, TypeInv, TasksOK
<1>4. UNCHANGED <<memory, database, simulator>> /\ k \notin DOMAIN chargers
    BY DEF CreateCharger
<1> HIDE DEF task
<1>5. RequestsInStep'
    BY <1>1, <1>2, <1>3, <1>4, RequestAlone DEF memory
<1>6. PlugsAgree' /\ IdsInStep'
    BY <1>1, <1>4, IdsSame DEF PatientInv, InStep, PlugsAgree, memory, database
<1>7. RowsInv'
    BY <1>1, <1>2, <1>3, <1>4, RowsUntouched
       DEF PatientInv, InStep, IdsInStep, Saves, Ticks, memory, database
<1>. QED
    BY <1>5, <1>6, <1>7 DEF InStep

LEMMA RemoveChargerInStep ==
    ASSUME Patient, PatientInv, NEW t \in Tasks, NEW k \in Chargers, RemoveCharger(t, k)
    PROVE  InStep'
<1> DEFINE task == [Free EXCEPT !.kind = "remove_charger", !.charger = k]
<1>1. /\ MayCommand /\ k \in DOMAIN chargers /\ chargers[k].plugged = NewCharger.plugged
      /\ chargers' = Without(chargers, k) /\ UNCHANGED <<evs, database, simulator>>
    BY DEF RemoveCharger, Patient
<1>2. ~Ticks /\ \A u \in Tasks : tasks[u].kind = "none"
    BY <1>1, Waiting
<1>3. tasks'[t] = task /\ \A u \in Tasks : u # t => tasks'[u] = tasks[u]
    BY <1>2 DEF RemoveCharger
<1>4. task.kind = "remove_charger" /\ task.charger = k
    BY DEF Free
<1> HIDE DEF task
<1>5. /\ DOMAIN chargers' = DOMAIN chargers \ {k}
      /\ \A j \in DOMAIN chargers' : chargers'[j] = chargers[j]
    BY <1>1 DEF Without
<1>6. ASSUME NEW e \in DOMAIN evs
      PROVE  evs[e].charger # k
    <2>1. evs[e] \in Ev /\ e \in Evs /\ Whole(evs[e])
        BY DEF PatientInv, TypeInv, EvsOK, InStep, RowsInv, EvsInStep, RowInStep
    <2>2. SUFFICES ASSUME evs[e].charger = k PROVE FALSE
        OBVIOUS
    <2>3. evs[e].connector \in Connectors
        BY <2>1, <2>2, NoneAssumption DEF Whole, Ev
    <2>4. chargers[k].plugged[evs[e].connector] = e
        BY <1>1, <2>1, <2>2, <2>3 DEF PatientInv, InStep, PlugsAgree
    <2>. QED
        BY <1>1, <2>1, <2>3, <2>4, NoneAssumption DEF NewCharger
<1>7. RequestsInStep'
    BY <1>2, <1>3, <1>4, <1>5, RequestAlone
<1>8. PlugsAgree'
    BY <1>1, <1>5, <1>6 DEF PatientInv, InStep, PlugsAgree
<1>9. IdsInStep'
    BY <1>1, <1>2, <1>3, <1>4, <1>5
       DEF PatientInv, InStep, IdsInStep, Removing, RemovingEv, database
<1>10. RowsInv'
    BY <1>1, <1>2, <1>3, <1>4, RowsUntouched
       DEF PatientInv, InStep, IdsInStep, Saves, Ticks, database
<1>. QED
    BY <1>7, <1>8, <1>9, <1>10 DEF InStep

LEMMA ChargerCreatedInStep ==
    ASSUME Patient, PatientInv, NEW t \in Tasks, ChargerCreated(t)
    PROVE  InStep'
<1> DEFINE k == tasks[t].charger
<1>1. /\ tasks[t].kind = "create_charger" /\ tasks' = [tasks EXCEPT ![t] = Free]
      /\ UNCHANGED <<evs, evRows, simulator>>
    BY DEF ChargerCreated
<1>2. tasks'[t].kind = "none" /\ \A u \in Tasks : u # t => tasks'[u] = tasks[u]
    BY <1>1, TaskTypes DEF PatientInv, TypeInv, TasksOK
<1>3. RequestsInStep'
    BY <1>1, RequestEnds DEF PatientInv, InStep, Requested
<1>4. chargerRows \subseteq chargerRows'
    BY DEF ChargerCreated
<1>5. RowsInv'
    BY <1>1, <1>2, <1>4, RowsUntouched DEF PatientInv, InStep, IdsInStep, Saves, Ticks
<1>6. CASE k \in chargerRows
    <2>1. UNCHANGED <<chargers, chargerRows>>
        BY <1>6 DEF ChargerCreated
    <2>. QED
        BY <1>1, <1>2, <1>3, <1>5, <2>1, IdsSame DEF PatientInv, InStep, PlugsAgree
<1>7. CASE k \notin chargerRows
    <2>1. chargerRows' = chargerRows \cup {k} /\ chargers' = Extend(chargers, k, NewCharger)
        BY <1>7 DEF ChargerCreated
    <2>2. k \notin DOMAIN chargers /\ k # None
        BY <1>1, <1>7, NoneAssumption
           DEF PatientInv, InStep, IdsInStep, TypeInv, TasksOK, Complete
    <2>3. /\ DOMAIN chargers' = DOMAIN chargers \cup {k} /\ chargers'[k] = NewCharger
          /\ \A j \in DOMAIN chargers : chargers'[j] = chargers[j]
        BY <2>1, <2>2 DEF Extend
    <2>4. \A e \in DOMAIN evs : evs[e].charger # k
        BY <2>2 DEF PatientInv, InStep, PlugsAgree
    <2>5. \A c \in Connectors, e \in Evs : NewCharger.plugged[c] # e
        BY NoneAssumption DEF NewCharger
    <2>6. PlugsAgree'
        BY <1>1, <2>3, <2>4, <2>5 DEF PatientInv, InStep, PlugsAgree
    <2>7. IdsInStep'
        BY <1>1, <1>2, <2>1, <2>3 DEF PatientInv, InStep, IdsInStep, Removing, RemovingEv
    <2>. QED
        BY <1>3, <1>5, <2>6, <2>7 DEF InStep
<1>. QED
    BY <1>6, <1>7

LEMMA ChargerRemovedInStep ==
    ASSUME Patient, PatientInv, NEW t \in Tasks, ChargerRemoved(t)
    PROVE  InStep'
<1> DEFINE k == tasks[t].charger
<1>1. /\ tasks[t].kind = "remove_charger" /\ tasks' = [tasks EXCEPT ![t] = Free]
      /\ chargerRows' = chargerRows \ {k} /\ evRows' = Detached(k)
      /\ UNCHANGED <<memory, simulator>>
    BY DEF ChargerRemoved
<1>2. tasks'[t].kind = "none" /\ \A u \in Tasks : u # t => tasks'[u] = tasks[u]
    BY <1>1, TaskTypes DEF PatientInv, TypeInv, TasksOK
<1>3. RequestsInStep'
    BY <1>1, RequestEnds DEF PatientInv, InStep, Requested
<1>4. PlugsAgree'
    BY <1>1 DEF PatientInv, InStep, PlugsAgree, memory
<1>5. k \notin DOMAIN chargers
    BY <1>1 DEF PatientInv, InStep, RequestsInStep
<1>6. ASSUME NEW e \in DOMAIN evRows
      PROVE  evRows[e].charger \in (DOMAIN chargers \cup {None}) \ ({k} \ {None})
    <2>1. CASE e \in DOMAIN evs
        <3>1. ~Replugging(e)
            BY <1>1 DEF PatientInv, InStep, RequestsInStep, Requested, Replugging
        <3>2. evRows[e].charger = evs[e].charger
            BY <2>1, <3>1 DEF PatientInv, InStep, RowsInv, EvsInStep, SamePlug
        <3>. QED
            BY <1>5, <2>1, <3>2 DEF PatientInv, InStep, PlugsAgree
    <2>2. CASE e \notin DOMAIN evs
        BY <2>2 DEF PatientInv, InStep, IdsInStep
    <2>. QED
        BY <2>1, <2>2
<1>7. ASSUME NEW e \in DOMAIN evRows
      PROVE  evRows'[e] = evRows[e]
    <2>1. evRows[e] \in Ev
        BY DEF PatientInv, TypeInv, RowsOK
    <2>2. CASE evRows[e].charger = k
        BY <1>1, <1>6, <2>1, <2>2 DEF Detached, Ev
    <2>3. CASE evRows[e].charger # k
        BY <1>1, <2>3 DEF Detached
    <2>. QED
        BY <2>2, <2>3
<1>8. DOMAIN evRows' = DOMAIN evRows
    BY <1>1 DEF Detached
<1>9. \A e \in DOMAIN evRows :
         evRows[e].charger \in chargerRows => evRows[e].charger \in chargerRows'
    <2>1. None \notin chargerRows
        BY NoneAssumption DEF PatientInv, TypeInv, RowsOK
    <2>. QED
        BY <1>1, <1>5, <1>6, <2>1
<1>10. IdsInStep'
    <2>1. \A j \in chargerRows \ {k} : \A u \in Tasks : Removing(u, j) => Removing(u, j)'
        BY <1>1, <1>2 DEF Removing
    <2>2. \A e : \A u \in Tasks : RemovingEv(u, e) => RemovingEv(u, e)'
        BY <1>1, <1>2 DEF RemovingEv
    <2>. QED
        BY <1>1, <1>5, <1>7, <1>8, <2>1, <2>2 DEF PatientInv, InStep, IdsInStep, memory
<1>11. RowsInv'
    BY <1>1, <1>2, <1>7, <1>8, <1>9, RowsUntouched
       DEF PatientInv, InStep, IdsInStep, Saves, Ticks, memory
<1>. QED
    BY <1>3, <1>4, <1>10, <1>11 DEF InStep

LEMMA CreateEvInStep ==
    ASSUME Patient, PatientInv, NEW t \in Tasks, NEW e \in Evs, CreateEv(t, e)
    PROVE  InStep'
<1>1. ~Ticks /\ \A u \in Tasks : tasks[u].kind = "none"
    BY Waiting DEF CreateEv
<1>2. /\ tasks'[t].kind = "create_ev" /\ tasks'[t].ev = e /\ tasks'[t].snapshot = NewEv(FALSE)
      /\ \A u \in Tasks : u # t => tasks'[u] = tasks[u]
    BY DEF CreateEv, Save, PatientInv, TypeInv, TasksOK
<1>3. UNCHANGED <<memory, database, simulator>> /\ e \notin DOMAIN evs
    BY DEF CreateEv
<1>4. RequestsInStep'
    BY <1>1, <1>2, <1>3, RequestAlone DEF memory
<1>5. PlugsAgree' /\ IdsInStep'
    BY <1>1, <1>3, IdsSame DEF PatientInv, InStep, PlugsAgree, memory, database
<1>6. RowsInv'
    BY <1>1, <1>2, <1>3, RowsUntouched
       DEF PatientInv, InStep, IdsInStep, Saves, Ticks, memory, database
<1>. QED
    BY <1>4, <1>5, <1>6 DEF InStep

LEMMA EvCreatedInStep ==
    ASSUME Patient, PatientInv, NEW t \in Tasks, EvCreated(t)
    PROVE  InStep'
<1> DEFINE e == tasks[t].ev
           ev == NewEv(FALSE)
<1>1. /\ tasks[t].kind = "create_ev" /\ tasks' = [tasks EXCEPT ![t] = Free]
      /\ UNCHANGED <<chargers, chargerRows, simulator>>
    BY DEF EvCreated
<1>2. tasks'[t].kind = "none" /\ \A u \in Tasks : u # t => tasks'[u] = tasks[u]
    BY <1>1, TaskTypes DEF PatientInv, TypeInv, TasksOK
<1>3. /\ tasks[t].snapshot = ev /\ e \notin DOMAIN evs /\ e \in Evs
      /\ DOMAIN evs \subseteq DOMAIN evRows
    BY <1>1 DEF PatientInv, InStep, RequestsInStep, IdsInStep, TypeInv, TasksOK, Complete
<1>4. \A u \in Tasks : Saves(u) \/ Saves(u)' => tasks'[u] = tasks[u]
    BY <1>1, <1>2 DEF Saves
<1>5. RequestsInStep'
    BY <1>1, RequestEnds DEF PatientInv, InStep, Requested
<1>6. CASE e \in DOMAIN evRows
    <2>1. UNCHANGED <<evs, evRows>>
        BY <1>6 DEF EvCreated
    <2>2. PlugsAgree' /\ IdsInStep'
        BY <1>1, <1>2, <2>1, IdsSame DEF PatientInv, InStep, PlugsAgree
    <2>3. RowsInv'
        BY <1>1, <1>4, <2>1, RowsUntouched DEF PatientInv, InStep, IdsInStep
    <2>. QED
        BY <1>5, <2>2, <2>3 DEF InStep
<1>7. CASE e \notin DOMAIN evRows
    <2>1. evRows' = Extend(evRows, e, ev) /\ evs' = Extend(evs, e, ev)
        BY <1>3, <1>7 DEF EvCreated
    <2>2. /\ DOMAIN evs' = DOMAIN evs \cup {e} /\ evs'[e] = ev
          /\ \A d \in DOMAIN evs : evs'[d] = evs[d]
          /\ DOMAIN evRows' = DOMAIN evRows \cup {e} /\ evRows'[e] = ev
          /\ \A d \in DOMAIN evRows : evRows'[d] = evRows[d]
        BY <1>3, <1>7, <2>1 DEF Extend
    <2>3. ev \in Ev /\ ev.charger = None /\ RowInStep(ev, ev) /\ SamePlug(ev, ev)
        BY EvTypes DEF NewEv, RowInStep, Whole, SamePlug
    <2> HIDE DEF e, ev
    <2>4. \A k \in DOMAIN chargers : k # None
        BY NoneAssumption DEF PatientInv, TypeInv, ChargersOK
    <2>5. PlugsAgree'
        BY <1>1, <1>3, <2>2, <2>3, <2>4 DEF PatientInv, InStep, PlugsAgree
    <2>6. IdsInStep'
        BY <1>1, <1>2, <2>2 DEF PatientInv, InStep, IdsInStep, Removing, RemovingEv
    <2>7. SavesInStep'
        BY <1>1, <1>3, <1>4, <2>2 DEF PatientInv, InStep, RowsInv, SavesInStep, Saves, Ticks
    <2>8. EvsInStep'
        <3>1. ASSUME NEW d \in DOMAIN evs
              PROVE  /\ RowInStep(evs'[d], evRows'[d])
                     /\ \A column \in Columns : \/ Fine(evs'[d], column, evRows'[d][column])
                                                 \/ WillBeWritten(d, column)'
                     /\ ~SamePlug(evRows'[d], evs'[d]) => Replugging(d)'
            <4>1. /\ \A column \in Columns : WillBeWritten(d, column) => WillBeWritten(d, column)'
                  /\ Replugging(d) => Replugging(d)'
                BY <1>1, <1>2, <2>2 DEF Replugging, WillBeWritten, Saves, Ticks
            <4>. QED
                BY <1>3, <2>2, <4>1 DEF PatientInv, InStep, RowsInv, EvsInStep
        <3>2. \A column \in Columns : Fine(ev, column, ev[column])
            BY <2>3, OwnColumnsFine
        <3>. QED
            BY <2>2, <2>3, <3>1, <3>2 DEF EvsInStep
    <2>9. RowsInStep'
        <3>1. ASSUME NEW d \in DOMAIN evRows
              PROVE  /\ SamePlug(ev, evRows[d]) => evRows[d].charger = None
                     /\ SamePlug(evRows[d], ev) => evRows[d].charger = None
            BY <2>3 DEF SamePlug
        <3>2. Whole(ev)
            BY <2>3 DEF RowInStep
        <3>. QED
            BY <1>1, <2>2, <2>3, <3>1, <3>2 DEF PatientInv, InStep, RowsInv, RowsInStep
    <2>. QED
        BY <1>5, <2>5, <2>6, <2>7, <2>8, <2>9 DEF InStep, RowsInv
<1>. QED
    BY <1>6, <1>7

LEMMA RemoveEvInStep ==
    ASSUME Patient, PatientInv, NEW t \in Tasks, NEW e \in Evs, RemoveEv(t, e)
    PROVE  InStep'
<1> DEFINE task == [Free EXCEPT !.kind = "remove_ev", !.ev = e]
<1>1. /\ MayCommand /\ e \in DOMAIN evs /\ evs[e].charger = None /\ evs' = Without(evs, e)
      /\ UNCHANGED <<chargers, database, simulator>>
    BY DEF RemoveEv, Patient
<1>2. ~Ticks /\ \A u \in Tasks : tasks[u].kind = "none"
    BY <1>1, Waiting
<1>3. tasks'[t] = task /\ \A u \in Tasks : u # t => tasks'[u] = tasks[u]
    <2>1. evs[e].status # "charging"
        BY <1>1 DEF PatientInv, InStep, RowsInv, EvsInStep, RowInStep, Whole
    <2>. QED
        BY <1>1, <2>1 DEF RemoveEv, PatientInv, TypeInv, TasksOK
<1>4. task.kind = "remove_ev" /\ task.ev = e
    BY DEF Free
<1> HIDE DEF task
<1>5. DOMAIN evs' = DOMAIN evs \ {e} /\ \A d \in DOMAIN evs' : evs'[d] = evs[d]
    BY <1>1 DEF Without
<1>6. ASSUME NEW d \in DOMAIN evs
      PROVE  /\ SamePlug(evRows[d], evs[d]) /\ RowInStep(evs[d], evRows[d])
             /\ \A column \in Columns : Fine(evs[d], column, evRows[d][column])
    BY <1>2, RowsSettled DEF PatientInv, InStep
<1>7. RequestsInStep'
    BY <1>2, <1>3, <1>4, <1>5, RequestAlone
<1>8. PlugsAgree'
    <2>1. \A k \in DOMAIN chargers : k # None
        BY NoneAssumption DEF PatientInv, TypeInv, ChargersOK
    <2>. QED
        BY <1>1, <1>5, <2>1 DEF PatientInv, InStep, PlugsAgree
<1>9. IdsInStep'
    <2>1. evRows[e].charger = None
        BY <1>1, <1>6 DEF SamePlug
    <2>. QED
        BY <1>1, <1>2, <1>3, <1>4, <1>5, <2>1
           DEF PatientInv, InStep, IdsInStep, Removing, RemovingEv, database
<1>10. SavesInStep'
    BY <1>1, <1>2, <1>3, <1>4 DEF SavesInStep, Saves, Ticks
<1>11. EvsInStep' /\ RowsInStep'
    BY <1>1, <1>5, <1>6 DEF PatientInv, InStep, RowsInv, EvsInStep, RowsInStep, database
<1>. QED
    BY <1>7, <1>8, <1>9, <1>10, <1>11 DEF InStep, RowsInv

LEMMA EvRemovedInStep ==
    ASSUME Patient, PatientInv, NEW t \in Tasks, EvRemoved(t)
    PROVE  InStep'
<1> DEFINE e == tasks[t].ev
<1>1. /\ tasks[t].kind = "remove_ev" /\ tasks' = [tasks EXCEPT ![t] = Free]
      /\ evRows' = Without(evRows, e) /\ UNCHANGED <<memory, chargerRows, simulator>>
    BY DEF EvRemoved
<1>2. tasks'[t].kind = "none" /\ \A u \in Tasks : u # t => tasks'[u] = tasks[u]
    BY <1>1, TaskTypes DEF PatientInv, TypeInv, TasksOK
<1>3. /\ DOMAIN evRows' = DOMAIN evRows \ {e}
      /\ \A d \in DOMAIN evRows' : evRows'[d] = evRows[d]
      /\ DOMAIN evs \subseteq DOMAIN evRows'
    BY <1>1 DEF Without, PatientInv, InStep, RequestsInStep, IdsInStep
<1>4. RequestsInStep'
    BY <1>1, RequestEnds DEF PatientInv, InStep, Requested
<1>5. PlugsAgree'
    BY <1>1 DEF PatientInv, InStep, PlugsAgree, memory
<1>6. IdsInStep'
    <2>1. \A d \in DOMAIN evRows' : \A u \in Tasks : RemovingEv(u, d) => RemovingEv(u, d)'
        BY <1>1, <1>2, <1>3 DEF RemovingEv
    <2>2. \A k : \A u \in Tasks : Removing(u, k) => Removing(u, k)'
        BY <1>1, <1>2 DEF Removing
    <2>. QED
        BY <1>1, <1>3, <2>1, <2>2 DEF PatientInv, InStep, IdsInStep, memory
<1>7. SavesInStep'
    BY <1>1, <1>2, <1>3 DEF PatientInv, InStep, RowsInv, SavesInStep, Saves, Ticks, memory
<1>8. EvsInStep'
    <2>1. ASSUME NEW d
          PROVE  /\ \A column \in Columns : WillBeWritten(d, column) => WillBeWritten(d, column)'
                 /\ Replugging(d) => Replugging(d)'
        BY <1>1, <1>2 DEF Replugging, WillBeWritten, Saves, Ticks, memory
    <2>. QED
        BY <1>1, <1>3, <2>1 DEF PatientInv, InStep, RowsInv, EvsInStep, memory
<1>9. RowsInStep'
    BY <1>1, <1>3 DEF PatientInv, InStep, RowsInv, RowsInStep
<1>. QED
    BY <1>4, <1>5, <1>6, <1>7, <1>8, <1>9 DEF InStep, RowsInv

LEMMA PlugInStep ==
    ASSUME Patient, PatientInv, NEW t \in Tasks, NEW e \in Evs, NEW k \in Chargers,
           NEW c \in Connectors, Plug(t, e, k, c)
    PROVE  InStep'
<1> DEFINE ev == Plugged(evs[e], k, c)
<1>1. /\ MayCommand /\ t \in FreeTasks /\ e \in DOMAIN evs /\ evs[e].charger = None
      /\ ConnectorFree(k, c) /\ k \in DOMAIN chargers
      /\ evs' = [evs EXCEPT ![e] = ev]
      /\ chargers' = [chargers EXCEPT ![k] = PlugInto(chargers[k], c, e)]
      /\ UNCHANGED <<database, simulator>>
    BY DEF Plug
<1>2. ~Ticks /\ \A u \in Tasks : tasks[u].kind = "none"
    BY <1>1, Waiting
<1>3. Save(t, "save", e, None, 1, ev)
    BY <1>1 DEF Plug
<1>4. /\ evs[e] \in Ev /\ chargers[k] \in Charger /\ ev \in Ev
      /\ k # None /\ c # NoConnector
    BY <1>1, EvTypes, FirstConnector, NoneAssumption
       DEF PatientInv, TypeInv, EvsOK, ChargersOK, Connectors, NoConnector
<1>5. /\ ev.charger = k /\ ev.connector = c /\ ev.status = "plugged"
      /\ ev.session = evs[e].session /\ ev.atTarget = evs[e].atTarget
    BY <1>4 DEF Plugged, Ev
<1> HIDE DEF ev
<1>6. tasks'[t].kind = "save" /\ \A u \in Tasks : u # t => tasks'[u] = tasks[u]
    BY <1>3 DEF Save, PatientInv, TypeInv, TasksOK
<1>7. /\ DOMAIN evs' = DOMAIN evs /\ evs'[e] = ev
      /\ \A d \in DOMAIN evs : d # e => evs'[d] = evs[d]
    BY <1>1
<1>8. /\ DOMAIN chargers' = DOMAIN chargers
      /\ chargers'[k].plugged = [chargers[k].plugged EXCEPT ![c] = e]
      /\ \A j \in DOMAIN chargers : j # k => chargers'[j] = chargers[j]
    BY <1>1, <1>4 DEF PlugInto, Charger
<1>9. PlugsAgree'
    <2>1. ASSUME NEW j \in DOMAIN chargers, NEW b \in Connectors, NEW d \in Evs
          PROVE  chargers'[j].plugged[b] = d <=>
                     d \in DOMAIN evs /\ evs'[d].charger = j /\ evs'[d].connector = b
        <3>1. chargers[j].plugged[b] = d <=>
                  d \in DOMAIN evs /\ evs[d].charger = j /\ evs[d].connector = b
            BY DEF PatientInv, InStep, PlugsAgree
        <3>2. j # None
            BY NoneAssumption DEF PatientInv, TypeInv, ChargersOK
        <3>3. CASE j = k /\ b = c
            <4>1. chargers'[j].plugged[b] = e
                BY <1>4, <1>8, <3>3 DEF Charger
            <4>. QED
                BY <1>1, <1>5, <1>7, <3>3, <4>1 DEF ConnectorFree
        <3>4. CASE ~(j = k /\ b = c)
            <4>1. chargers'[j].plugged[b] = chargers[j].plugged[b]
                BY <1>4, <1>8, <3>4 DEF Charger
            <4>. QED
                BY <1>1, <1>5, <1>7, <3>1, <3>2, <3>4, <4>1
        <3>. QED
            BY <3>3, <3>4
    <2>. QED
        BY <1>1, <1>5, <1>7, <1>8, <2>1 DEF PatientInv, InStep, PlugsAgree
<1>10. RequestsInStep'
    BY <1>2, <1>6, RequestAlone
<1>11. IdsInStep'
    BY <1>1, <1>2, <1>7, <1>8, IdsSame DEF PatientInv, InStep, database
<1>12. RowInStep(evs[e], evRows[e])
    BY <1>1 DEF PatientInv, InStep, RowsInv, EvsInStep
<1>13. RowInStep(ev, evRows[e])
    BY <1>1, <1>4, <1>5, <1>12 DEF RowInStep, Whole
<1>14. RowsInv'
    BY <1>1, <1>2, <1>3, <1>4, <1>5, <1>13, RowsSaveBegins
       DEF PatientInv, InStep, Saves, Ticks, database
<1>. QED
    BY <1>9, <1>10, <1>11, <1>14 DEF InStep

LEMMA UnplugInStep ==
    ASSUME Patient, PatientInv, NEW t \in Tasks, NEW e \in Evs, Unplug(t, e)
    PROVE  InStep'
<1> DEFINE ev == Unplugged(evs[e])
           k == evs[e].charger
           c == evs[e].connector
<1>1. /\ MayCommand /\ t \in FreeTasks /\ e \in DOMAIN evs
      /\ evs' = [evs EXCEPT ![e] = ev]
      /\ chargers' = IF k \in DOMAIN chargers /\ c # NoConnector
                     THEN [chargers EXCEPT ![k] = UnplugFrom(chargers[k], c)] ELSE chargers
      /\ UNCHANGED <<database, simulator>>
    BY DEF Unplug
<1>2. ~Ticks /\ \A u \in Tasks : tasks[u].kind = "none"
    BY <1>1, Waiting
<1>3. Save(t, "save", e, None, 1, ev)
    BY <1>1 DEF Unplug
<1>4. /\ evs[e] \in Ev /\ ev \in Ev /\ RowInStep(evs[e], evRows[e])
      /\ k \in DOMAIN chargers \cup {None} /\ None \notin DOMAIN chargers
    BY <1>1, EvTypes, NoneAssumption
       DEF PatientInv, TypeInv, EvsOK, ChargersOK, InStep, RowsInv, EvsInStep, PlugsAgree
<1>5. /\ ev.charger = None /\ ev.connector = NoConnector /\ ev.status = "idle"
      /\ ev.session = FALSE /\ ev.atTarget = evs[e].atTarget
    BY DEF Unplugged, NewEv
<1>6. k = None <=> c = NoConnector
    BY <1>4 DEF RowInStep, Whole
<1>7. c # NoConnector => c \in Connectors
    BY <1>4 DEF Ev
<1> HIDE DEF ev, k, c
<1>8. tasks'[t].kind = "save" /\ \A u \in Tasks : u # t => tasks'[u] = tasks[u]
    BY <1>3 DEF Save, PatientInv, TypeInv, TasksOK
<1>9. /\ DOMAIN evs' = DOMAIN evs /\ evs'[e] = ev
      /\ \A d \in DOMAIN evs : d # e => evs'[d] = evs[d]
    BY <1>1
<1>10. /\ DOMAIN chargers' = DOMAIN chargers
       /\ \A j \in DOMAIN chargers, b \in Connectors : chargers'[j].plugged[b] =
             IF j = k /\ b = c THEN None ELSE chargers[j].plugged[b]
    <2>1. CASE k \in DOMAIN chargers
        <3>1. chargers[k] \in Charger
            BY <2>1 DEF PatientInv, TypeInv, ChargersOK
        <3>2. c # NoConnector /\ c \in Connectors
            BY <1>4, <1>6, <1>7, <2>1
        <3>3. UnplugFrom(chargers[k], c).plugged = [chargers[k].plugged EXCEPT ![c] = None]
            BY <3>1 DEF UnplugFrom, Charger
        <3>4. chargers[k].plugged \in [Connectors -> Evs \cup {None}]
            BY <3>1 DEF Charger
        <3>. QED
            BY <1>1, <2>1, <3>2, <3>3, <3>4
    <2>2. CASE k \notin DOMAIN chargers
        BY <1>1, <2>2
    <2>. QED
        BY <2>1, <2>2
<1>11. PlugsAgree'
    <2>1. ASSUME NEW j \in DOMAIN chargers, NEW b \in Connectors, NEW d \in Evs
          PROVE  chargers'[j].plugged[b] = d <=>
                     d \in DOMAIN evs /\ evs'[d].charger = j /\ evs'[d].connector = b
        <3>1. chargers[j].plugged[b] = d <=>
                  d \in DOMAIN evs /\ evs[d].charger = j /\ evs[d].connector = b
            BY DEF PatientInv, InStep, PlugsAgree
        <3>2. chargers[j].plugged[b] = e <=> j = k /\ b = c
            BY <1>1 DEF PatientInv, InStep, PlugsAgree, k, c
        <3>3. CASE j = k /\ b = c
            <4>1. chargers'[j].plugged[b] = None /\ chargers[j].plugged[b] = e
                BY <1>10, <3>2, <3>3
            <4>2. d # None
                BY NoneAssumption
            <4>. QED
                BY <1>4, <1>5, <1>9, <3>1, <4>1, <4>2
        <3>4. CASE ~(j = k /\ b = c)
            <4>1. chargers'[j].plugged[b] = chargers[j].plugged[b] /\ j # None
                BY <1>4, <1>10, <3>4
            <4>. QED
                BY <1>5, <1>9, <3>1, <3>2, <3>4, <4>1
        <3>. QED
            BY <3>3, <3>4
    <2>. QED
        BY <1>1, <1>5, <1>9, <1>10, <2>1 DEF PatientInv, InStep, PlugsAgree
<1>12. RequestsInStep'
    BY <1>2, <1>8, RequestAlone
<1>13. IdsInStep'
    BY <1>1, <1>2, <1>9, <1>10, IdsSame DEF PatientInv, InStep, database
<1>14. RowInStep(ev, evRows[e])
    BY <1>4, <1>5 DEF RowInStep, Whole
<1>15. RowsInv'
    BY <1>1, <1>2, <1>3, <1>4, <1>5, <1>14, RowsSaveBegins
       DEF PatientInv, InStep, Saves, Ticks, database
<1>. QED
    BY <1>11, <1>12, <1>13, <1>15 DEF InStep

LEMMA StartInStep ==
    ASSUME Patient, PatientInv, NEW t \in Tasks, NEW k \in Chargers, NEW c \in Connectors,
           StartTransaction(t, k, c)
    PROVE  InStep'
<1> DEFINE e == chargers[k].plugged[c]
<1>1. /\ MayCommand /\ t \in FreeTasks /\ k \in DOMAIN chargers /\ e # None
      /\ UNCHANGED <<database, simulator>>
    BY DEF StartTransaction
<1>2. ~Ticks /\ \A u \in Tasks : tasks[u].kind = "none"
    BY <1>1, Waiting
<1>3. /\ DOMAIN chargers' = DOMAIN chargers
      /\ \A j \in DOMAIN chargers : chargers'[j].plugged = chargers[j].plugged
    BY DEF StartTransaction, PatientInv, TypeInv, ChargersOK, Charger
<1>4. e \in Evs
    BY <1>1 DEF PatientInv, TypeInv, ChargersOK, Charger
<1>5. /\ e \in DOMAIN evs /\ evs[e].charger = k /\ evs[e] \in Ev
      /\ RowInStep(evs[e], evRows[e]) /\ SamePlug(evRows[e], evs[e])
    <2>1. e \in DOMAIN evs /\ evs[e].charger = k
        BY <1>1, <1>4 DEF PatientInv, InStep, PlugsAgree
    <2>. QED
        BY <1>2, <2>1, RowsSettled DEF PatientInv, InStep, TypeInv, EvsOK
<1>6. CASE ~Chargeable(e)
    <2>1. UNCHANGED <<evs, tasks>>
        BY <1>6 DEF StartTransaction
    <2>2. PlugsAgree' /\ IdsInStep'
        BY <1>1, <1>3, <2>1, PlugsSame, IdsSame DEF PatientInv, InStep, SamePlug, database
    <2>3. RequestsInStep'
        BY <1>1, <1>3, <2>1 DEF PatientInv, InStep, RequestsInStep, Requested
    <2>4. RowsInv'
        BY <1>1, <2>1, RowsUntouched DEF PatientInv, InStep, IdsInStep, Saves, Ticks, database
    <2>. QED
        BY <2>2, <2>3, <2>4 DEF InStep
<1>7. CASE Chargeable(e)
    <2> DEFINE ev == Started(evs[e])
    <2>1. evs' = [evs EXCEPT ![e] = ev]
        BY <1>7 DEF StartTransaction
    <2>2. evs'[e] = ev
        BY <1>5, <2>1
    <2>3. Save(t, "save", e, None, 1, ev)
        BY <1>7, <2>2 DEF StartTransaction
    <2>4. /\ ev \in Ev /\ ev.charger = k /\ ev.connector = evs[e].connector
          /\ ev.status = "charging" /\ ev.atTarget = evs[e].atTarget
        BY <1>5, EvTypes DEF Started, Ev
    <2> HIDE DEF ev, e
    <2>5. tasks'[t].kind = "save" /\ \A u \in Tasks : u # t => tasks'[u] = tasks[u]
        BY <2>3 DEF Save, PatientInv, TypeInv, TasksOK
    <2>6. /\ DOMAIN evs' = DOMAIN evs
          /\ \A d \in DOMAIN evs : SamePlug(evs'[d], evs[d])
        BY <1>5, <2>1, <2>4 DEF SamePlug
    <2>7. PlugsAgree'
        BY <1>3, <2>6, PlugsSame DEF PatientInv, InStep
    <2>8. IdsInStep'
        BY <1>1, <1>2, <1>3, <2>6, IdsSame DEF PatientInv, InStep, database
    <2>9. RequestsInStep'
        BY <1>2, <2>5, RequestAlone
    <2>10. RowInStep(ev, evRows[e]) /\ SamePlug(evRows[e], ev)
        <3>1. k # None
            BY NoneAssumption
        <3>. QED
            BY <1>5, <2>4, <3>1 DEF RowInStep, Whole, SamePlug
    <2>11. RowsInv'
        BY <1>1, <1>2, <1>5, <2>1, <2>3, <2>4, <2>10, RowsSaveBegins
           DEF PatientInv, InStep, Saves, Ticks, database
    <2>. QED
        BY <2>7, <2>8, <2>9, <2>11 DEF InStep
<1>. QED
    BY <1>6, <1>7

\* A stop begins, of a user or of the simulator.
LEMMA BeginStopInStep ==
    ASSUME PatientInv, NEW t \in FreeTasks, NEW k \in DOMAIN chargers, BeginStop(t, k),
           UNCHANGED database, ~Ticks, ~Ticks'
    PROVE  InStep'
<1> DEFINE c == chargers[k].activeConnector
           e == chargers[k].plugged[c]
           idle == [chargers[k] EXCEPT !.isCharging = FALSE]
<1>1. /\ chargers[k] \in Charger /\ c \in Connectors /\ e \in Evs \cup {None} /\ k # None
      /\ t \in Tasks /\ tasks[t].kind = "none"
    BY NoneAssumption DEF PatientInv, TypeInv, ChargersOK, Charger, FreeTasks
<1>2. idle.plugged = chargers[k].plugged /\ Closed(idle, c, e).plugged = chargers[k].plugged
    BY <1>1 DEF Closed, Charger
<1>3. ASSUME UNCHANGED <<evs, tasks>>, DOMAIN chargers' = DOMAIN chargers,
             \A j \in DOMAIN chargers : chargers'[j].plugged = chargers[j].plugged
      PROVE  InStep'
    <2>1. PlugsAgree' /\ IdsInStep'
        BY <1>3, PlugsSame, IdsSame DEF PatientInv, InStep, SamePlug, database
    <2>2. RequestsInStep'
        BY <1>3, RequestsGoOn DEF PatientInv, InStep
    <2>3. RowsInv'
        BY <1>3, RowsUntouched DEF PatientInv, InStep, IdsInStep, Saves, database
    <2>. QED
        BY <2>1, <2>2, <2>3 DEF InStep
<1>4. CASE ~chargers[k].transaction
    BY <1>3, <1>4 DEF BeginStop, memory
<1>5. CASE chargers[k].transaction /\ e = None
    <2>1. chargers' = [chargers EXCEPT ![k] = Closed(idle, c, e)] /\ UNCHANGED <<evs, tasks>>
        BY <1>5 DEF BeginStop
    <2> HIDE DEF c, e, idle
    <2>. QED
        BY <1>2, <1>3, <2>1
<1>6. CASE chargers[k].transaction /\ e # None
    <2> DEFINE ev == Stopped(evs[e])
    <2>1. /\ e \in DOMAIN evs /\ evs[e].charger = k /\ evs[e].connector = c
          /\ evs[e] \in Ev /\ RowInStep(evs[e], evRows[e])
          /\ ~SamePlug(evRows[e], evs[e]) => Replugging(e)
        BY <1>1, <1>6 DEF PatientInv, TypeInv, EvsOK, InStep, PlugsAgree, RowsInv, EvsInStep
    <2>2. /\ chargers' = [chargers EXCEPT ![k] = idle]
          /\ evs' = [evs EXCEPT ![e] = ev] /\ Save(t, "stop", e, k, c, evs'[e])
        BY <1>6, <2>1 DEF BeginStop
    <2>3. Save(t, "stop", e, k, c, ev)
        BY <2>1, <2>2
    <2>4. /\ ev \in Ev /\ ev.charger = evs[e].charger /\ ev.connector = evs[e].connector
          /\ ev.status # "full"
        <3>1. ev \in Ev
            BY <2>1, EvTypes
        <3>2. ev.status \in {"plugged", "idle"}
            BY <2>1 DEF Stopped, Ev
        <3>3. ev.charger = evs[e].charger /\ ev.connector = evs[e].connector
            BY <2>1 DEF Stopped, Ev
        <3>. QED
            BY <3>1, <3>2, <3>3
    <2>5. /\ RowInStep(ev, evRows[e])
          /\ ~SamePlug(evRows[e], ev) => Replugging(e)
          /\ \A w : SaveInStep(w, evs[e], evRows[e]) /\ w.snapshot.status # "full" =>
                       SaveInStep(w, ev, evRows[e])
        BY <1>1, <2>1, StoppedInStep
    <2>6. \A u \in Tasks : Saves(u) /\ tasks[u].ev = e => SaveInStep(tasks[u], ev, evRows[e])
        BY <2>5 DEF PatientInv, InStep, RowsInv, SavesInStep
    <2> HIDE DEF ev, idle, c, e
    <2>7. tasks'[t].kind = "stop" /\ \A u \in Tasks : u # t => tasks'[u] = tasks[u]
        BY <1>1, <2>3 DEF Save, PatientInv, TypeInv, TasksOK
    <2>8. /\ DOMAIN chargers' = DOMAIN chargers /\ DOMAIN evs' = DOMAIN evs
          /\ \A j \in DOMAIN chargers : chargers'[j].plugged = chargers[j].plugged
          /\ \A d \in DOMAIN evs : SamePlug(evs'[d], evs[d])
        BY <1>2, <2>1, <2>2, <2>4 DEF SamePlug
    <2>9. PlugsAgree'
        BY <2>8, PlugsSame DEF PatientInv, InStep
    <2>10. IdsInStep'
        BY <1>1, <2>7, <2>8, IdsSame DEF PatientInv, InStep, database
    <2>11. RequestsInStep'
        BY <2>7, <2>8, RequestsGoOn DEF PatientInv, InStep
    <2>12. RowsInv'
        BY <2>1, <2>2, <2>3, <2>4, <2>5, <2>6, RowsSaveBegins DEF PatientInv, InStep, database
    <2>. QED
        BY <2>9, <2>10, <2>11, <2>12 DEF InStep
<1>. QED
    BY <1>4, <1>5, <1>6

LEMMA StopInStep ==
    ASSUME Patient, PatientInv, NEW t \in Tasks, NEW k \in Chargers, StopTransaction(t, k)
    PROVE  InStep'
<1>1. ~Ticks /\ ~Ticks'
    BY Waiting DEF StopTransaction, Ticks
<1>. QED
    BY <1>1, BeginStopInStep DEF StopTransaction

\* What the end of a save leaves alone.
LEMMA SaveDoneShape ==
    ASSUME TypeInv, NEW t \in Tasks, SaveDone(t)
    PROVE  /\ DOMAIN chargers' = DOMAIN chargers
           /\ \A k \in DOMAIN chargers : chargers'[k].plugged = chargers[k].plugged
           /\ tasks'[t].kind = "none" /\ \A u \in Tasks : u # t => tasks'[u] = tasks[u]
<1>1. tasks'[t].kind = "none" /\ \A u \in Tasks : u # t => tasks'[u] = tasks[u]
    BY TaskTypes DEF SaveDone, TypeInv, TasksOK
<1>2. \A charger \in Charger : \A c, e : Closed(charger, c, e).plugged = charger.plugged
    BY DEF Closed, Charger
<1>. QED
    BY <1>1, <1>2 DEF SaveDone, TypeInv, ChargersOK

LEMMA SavesKeepInStep ==
    ASSUME PatientInv, NEW t \in Tasks, SaveLoads(t) \/ SaveCommits(t) \/ SaveFails(t)
    PROVE  InStep'
<1> DEFINE e == tasks[t].ev
<1>1. /\ Saves(t) /\ tasks[t].kind \in {"save", "stop"}
      /\ e \in DOMAIN evs /\ e \in DOMAIN evRows
      /\ SaveInStep(tasks[t], evs[e], evRows[e]) /\ tasks[t].snapshot \in Ev
    BY DEF SaveLoads, SaveCommits, SaveFails, Saves, PatientInv, InStep, RowsInv, SavesInStep,
           IdsInStep, TypeInv, TasksOK, Complete
<1>2. ~SaveFails(t)
    BY <1>1, NoCommitFails DEF SaveFails, PatientInv, InStep
<1>3. CASE SaveLoads(t)
    <2>1. /\ tasks' = [tasks EXCEPT ![t].loaded = evRows[e]]
          /\ UNCHANGED <<memory, database, simulator>>
        BY <1>1, <1>3 DEF SaveLoads, memory
    <2>2. \A u \in Tasks :
             /\ tasks'[u].kind = tasks[u].kind /\ tasks'[u].charger = tasks[u].charger
             /\ tasks'[u].ev = tasks[u].ev /\ tasks'[u].snapshot = tasks[u].snapshot
             /\ tasks[u].kind \in {"remove_charger", "remove_ev"} => tasks'[u] = tasks[u]
        BY <1>1, <2>1 DEF PatientInv, TypeInv, TasksOK, Task
    <2>3. PlugsAgree' /\ IdsInStep'
        BY <2>1, <2>2, PlugsSame, IdsSame DEF PatientInv, InStep, SamePlug, memory, database
    <2>4. RequestsInStep'
        BY <2>1, <2>2, RequestsGoOn DEF PatientInv, InStep, memory
    <2>5. RowsInv'
        BY <1>1, <2>1, RowsLoaded DEF PatientInv, InStep, memory, database
    <2>. QED
        BY <2>3, <2>4, <2>5 DEF InStep
<1>4. CASE SaveCommits(t)
    <2>1. /\ Commits(tasks[t]) /\ tasks[t].loaded # None
          /\ UNCHANGED <<evs, chargerRows, simulator>>
        BY <1>4 DEF SaveCommits, Commits
    <2>2. /\ DOMAIN chargers' = DOMAIN chargers
          /\ \A k \in DOMAIN chargers : chargers'[k].plugged = chargers[k].plugged
          /\ tasks'[t].kind = "none" /\ \A u \in Tasks : u # t => tasks'[u] = tasks[u]
        BY <1>4, SaveDoneShape DEF SaveCommits, PatientInv
    <2>3. /\ DOMAIN evRows' = DOMAIN evRows /\ evRows'[e] = Merged(evRows[e], tasks[t])
          /\ \A d \in DOMAIN evRows : d # e => evRows'[d] = evRows[d]
        BY <1>1, <2>1, CommitWrites DEF PatientInv, TypeInv
    <2>4. PlugsAgree'
        BY <2>1, <2>2, PlugsSame DEF PatientInv, InStep, SamePlug
    <2>5. IdsInStep'
        BY <1>1, <2>1, <2>2, <2>3, IdsSame DEF PatientInv, InStep
    <2>6. RequestsInStep'
        BY <2>1, <2>2, RequestsGoOn DEF PatientInv, InStep
    <2>7. /\ \A u \in Tasks : Saves(u)' => tasks'[u] = tasks[u]
          /\ \A u \in Tasks : Saves(u) => tasks'[u] = tasks[u] \/ tasks[u] = tasks[t]
        BY <2>2 DEF Saves
    <2>8. RowsInv'
        BY <1>1, <2>1, <2>3, <2>7, RowCommitted DEF PatientInv, InStep
    <2>. QED
        BY <2>4, <2>5, <2>6, <2>8 DEF InStep
<1>. QED
    BY <1>2, <1>3, <1>4

LEMMA SimulatorInStep ==
    ASSUME PatientInv, SimulatorStep
    PROVE  InStep'
<1>1. ASSUME NEW e \in Evs, TickAll(e) \/ TickNext(e)
      PROVE  InStep'
    <2>1. PICK keys, todo : TickEv(e, keys, todo)
        BY <1>1 DEF TickAll, TickNext
    <2>2. ~Ticks
        BY <1>1 DEF TickAll, TickNext, Ticks
    <2>3. /\ e \in DOMAIN evs /\ evs[e].status = "charging" /\ evs[e] \in Ev
          /\ UNCHANGED <<chargers, database, tasks>>
        BY <2>1 DEF TickEv, PatientInv, TypeInv, EvsOK
    <2>4. PICK ev \in Ticked(evs[e]) : evs' = [evs EXCEPT ![e] = ev]
        BY <2>1 DEF TickEv
    <2>5. SamePlug(ev, evs[e])
        BY <2>3, <2>4 DEF Ticked, SamePlug, Ev
    <2>6. DOMAIN evs' = DOMAIN evs /\ \A d \in DOMAIN evs : SamePlug(evs'[d], evs[d])
        BY <2>3, <2>4, <2>5 DEF SamePlug
    <2>7. PlugsAgree' /\ IdsInStep' /\ RequestsInStep'
        BY <2>3, <2>6, PlugsSame, IdsSame, RequestsGoOn DEF PatientInv, InStep, database
    <2>8. RowsInv'
        BY <2>1, <2>2, RowsTicked DEF PatientInv, InStep
    <2>. QED
        BY <2>7, <2>8 DEF InStep
<1>2. ASSUME UNCHANGED <<memory, tasks, chargerRows>>, DOMAIN evRows' = DOMAIN evRows,
             \A e \in DOMAIN evRows \ DOMAIN evs : evRows'[e] = evRows[e]
      PROVE  PlugsAgree' /\ IdsInStep' /\ RequestsInStep'
    BY <1>2, PlugsSame, IdsSame, RequestsGoOn DEF PatientInv, InStep, SamePlug, memory
<1>3. CASE TickAllReturns \/ IterationFails
    <2>1. UNCHANGED <<memory, database, tasks>> /\ ~Ticks /\ ~Ticks'
        BY <1>3 DEF TickAllReturns, IterationFails, Ticks, Resting
    <2>2. RowsInv'
        BY <2>1, RowsUntouched DEF PatientInv, InStep, IdsInStep, Saves, memory, database
    <2>. QED
        BY <1>2, <2>1, <2>2 DEF InStep, database
<1>4. ASSUME Ticks
      PROVE  /\ simulator.ev \in DOMAIN evs /\ simulator.ev \in DOMAIN evRows
             /\ SaveInStep(simulator, evs[simulator.ev], evRows[simulator.ev])
             /\ simulator.snapshot \in Ev
    BY <1>4 DEF PatientInv, InStep, RowsInv, SavesInStep, IdsInStep, TypeInv, SimulatorOK, Ticks
<1>5. CASE TickLoads
    <2>1. Ticks /\ UNCHANGED <<memory, database, tasks>>
        BY <1>5 DEF TickLoads, Ticks
    <2>2. simulator' = [simulator EXCEPT !.loaded = evRows[simulator.ev]]
        BY <1>4, <1>5, <2>1 DEF TickLoads
    <2>3. RowsInv'
        BY <2>1, <2>2, RowsTickLoaded DEF PatientInv, InStep, memory, database
    <2>. QED
        BY <1>2, <2>1, <2>3 DEF InStep, database
<1>6. CASE TickCommits
    <2>1. /\ Ticks /\ ~Ticks' /\ Commits(simulator) /\ simulator.loaded # None
          /\ UNCHANGED <<memory, chargerRows, tasks>>
        BY <1>6 DEF TickCommits, Commits, Ticks, PatientInv, TypeInv, SimulatorOK, Simulator
    <2>2. /\ DOMAIN evRows' = DOMAIN evRows
          /\ evRows'[simulator.ev] = Merged(evRows[simulator.ev], simulator)
          /\ \A d \in DOMAIN evRows : d # simulator.ev => evRows'[d] = evRows[d]
        BY <1>4, <2>1, CommitWrites DEF PatientInv, TypeInv
    <2>3. PlugsAgree' /\ IdsInStep' /\ RequestsInStep'
        BY <1>2, <1>4, <2>1, <2>2
    <2>4. RowsInv'
        BY <1>4, <2>1, <2>2, RowCommitted DEF PatientInv, InStep, memory, Saves
    <2>. QED
        BY <2>3, <2>4 DEF InStep
<1>7. ~TickFails
    BY <1>4, NoCommitFails DEF TickFails, PatientInv, InStep, Ticks
<1>8. CASE AutoStop
    <2>1. ~Ticks /\ ~Ticks' /\ UNCHANGED database
        BY <1>8 DEF AutoStop, Ticks, PatientInv, TypeInv, SimulatorOK, Simulator
    <2>2. CASE UNCHANGED <<memory, tasks>>
        <3>1. RowsInv'
            BY <2>1, <2>2, RowsUntouched DEF PatientInv, InStep, IdsInStep, Saves, memory, database
        <3>. QED
            BY <1>2, <2>1, <2>2, <3>1 DEF InStep, database
    <2>3. ASSUME NEW t \in FreeTasks, NEW k \in DOMAIN chargers, BeginStop(t, k)
          PROVE  InStep'
        BY <2>1, <2>3, BeginStopInStep
    <2>. QED
        BY <1>8, <2>2, <2>3 DEF AutoStop
<1>. QED
    BY <1>1, <1>3, <1>5, <1>6, <1>7, <1>8 DEF SimulatorStep

LEMMA RestartInStep ==
    ASSUME PatientInv, Restart
    PROVE  InStep'
<1>1. /\ evs' = evRows /\ tasks' = [t \in Tasks |-> Free] /\ simulator' = Resting
      /\ UNCHANGED database
    BY DEF Restart
<1>2. PICK plugged \in [chargerRows -> [Connectors -> Evs \cup {None}]] :
          /\ \A k \in chargerRows, c \in Connectors :
                IF PluggedRows(k, c) = {} THEN plugged[k][c] = None
                ELSE plugged[k][c] \in PluggedRows(k, c)
          /\ chargers' = [k \in chargerRows |-> Reloaded(plugged[k])]
    BY DEF Restart
<1>3. /\ DOMAIN chargers' = chargerRows
      /\ \A k \in chargerRows : chargers'[k].plugged = plugged[k]
    BY <1>2 DEF Reloaded, NewCharger
<1>4. \A t \in Tasks : tasks'[t].kind = "none"
    BY <1>1, TaskTypes
<1>5. RowsInStep
    BY DEF PatientInv, InStep, RowsInv
<1>6. PlugsAgree'
    <2>1. ASSUME NEW k \in chargerRows, NEW c \in Connectors, NEW e \in Evs
          PROVE  plugged[k][c] = e <=>
                     e \in DOMAIN evRows /\ evRows[e].charger = k /\ evRows[e].connector = c
        <3>1. e # None /\ k # None
            BY NoneAssumption DEF PatientInv, TypeInv, RowsOK
        <3>2. CASE PluggedRows(k, c) = {}
            BY <1>2, <3>1, <3>2 DEF PluggedRows
        <3>3. CASE PluggedRows(k, c) # {}
            <4>1. plugged[k][c] \in PluggedRows(k, c)
                BY <1>2, <3>3
            <4>2. \A a, d \in PluggedRows(k, c) : a = d
                BY <1>5, <3>1 DEF PluggedRows, RowsInStep, SamePlug
            <4>3. e \in PluggedRows(k, c) <=>
                      e \in DOMAIN evRows /\ evRows[e].charger = k /\ evRows[e].connector = c
                BY DEF PluggedRows
            <4>. QED
                BY <4>1, <4>2, <4>3
        <3>. QED
            BY <3>2, <3>3
    <2>. QED
        BY <1>1, <1>3, <1>5, <2>1 DEF PlugsAgree, RowsInStep
<1>7. RequestsInStep'
    BY <1>4 DEF RequestsInStep, Requested
<1>8. IdsInStep'
    BY <1>1, <1>3 DEF IdsInStep, database
<1>9. SavesInStep'
    BY <1>1, <1>4, RestingType DEF SavesInStep, Saves, Ticks
<1>10. EvsInStep'
    <2>1. ASSUME NEW e \in DOMAIN evRows
          PROVE  /\ RowInStep(evRows[e], evRows[e]) /\ SamePlug(evRows[e], evRows[e])
                 /\ \A column \in Columns : Fine(evRows[e], column, evRows[e][column])
        <3>1. evRows[e] \in Ev /\ Whole(evRows[e])
            BY <1>5 DEF PatientInv, TypeInv, RowsOK, RowsInStep
        <3>. QED
            BY <3>1, OwnColumnsFine DEF RowInStep, SamePlug
    <2>. QED
        BY <1>1, <2>1 DEF EvsInStep, database
<1>11. RowsInStep'
    BY <1>1, <1>5 DEF RowsInStep, database
<1>. QED
    BY <1>6, <1>7, <1>8, <1>9, <1>10, <1>11 DEF InStep, RowsInv

LEMMA PatientStep ==
    ASSUME Patient, PatientInv, [Next]_vars
    PROVE  PatientInv'
<1>1. TypeInv'
    BY TypeStep DEF PatientInv
<1>2. ASSUME NEW t \in Tasks, Request(t)
      PROVE  InStep'
    BY <1>2, CreateChargerInStep, RemoveChargerInStep, StopInStep, CreateEvInStep,
       RemoveEvInStep, UnplugInStep, StartInStep, PlugInStep DEF Request
<1>3. ASSUME NEW t \in Tasks, Answer(t)
      PROVE  InStep'
    BY <1>3, ChargerCreatedInStep, ChargerRemovedInStep, EvCreatedInStep, EvRemovedInStep,
       SavesKeepInStep DEF Answer
<1>4. ASSUME UNCHANGED vars
      PROVE  InStep'
    <2>1. UNCHANGED <<chargers, evs, chargerRows, evRows, tasks, simulator>>
        BY <1>4 DEF vars, memory, database
    <2>2. PlugsAgree' /\ IdsInStep'
        BY <2>1, PlugsSame, IdsSame DEF PatientInv, InStep, SamePlug
    <2>3. RequestsInStep'
        BY <2>1, RequestsGoOn DEF PatientInv, InStep
    <2>4. RowsInv'
        BY <2>1, RowsUntouched DEF PatientInv, InStep, IdsInStep
    <2>. QED
        BY <2>2, <2>3, <2>4 DEF InStep
<1>5. InStep'
    BY <1>2, <1>3, <1>4, SimulatorInStep, RestartInStep DEF Next
<1>. QED
    BY <1>1, <1>5 DEF PatientInv

LEMMA PatientHolds ==
    ASSUME Patient
    PROVE  Spec => []PatientInv
<1>1. PatientInv /\ [Next]_vars => PatientInv'
    BY PatientStep
<1>. QED
    BY <1>1, PatientInit, PTL DEF Spec

-----------------------------------------------------------------------------
(* The theorems                                                            *)

\* Charger and EV agree on who is plugged in where, whatever the simulator saves
\* meanwhile and wherever the process stops: plugging in or out whose save a crash
\* cut off is undone on both sides.
THEOREM PlugsAgreed ==
    ASSUME Patient
    PROVE  Spec => []PlugsAgree
BY PatientHolds, PTL DEF PatientInv, InStep

LEMMA SettledRows ==
    ASSUME PatientInv, NoSave
    PROVE  /\ ~Ticks /\ \A t \in Tasks : tasks[t].kind = "none"
           /\ chargerRows = DOMAIN chargers /\ DOMAIN evRows = DOMAIN evs
<1>1. ~Ticks /\ \A t \in Tasks : tasks[t].kind = "none"
    BY DEF NoSave, NoRequest, FreeTasks, Ticks
<1>. QED
    BY <1>1 DEF PatientInv, InStep, IdsInStep, Removing, RemovingEv

\* When no save is under way the tables hold the fleet, every EV is where its row
\* says, and the rows of EVs that are idle or charge are exactly theirs; only the
\* late save of a start leaves the row of a stopped or full EV behind.
THEOREM RowsMatched ==
    ASSUME Patient
    PROVE  Spec => []RowsMatch
<1>1. ASSUME PatientInv
      PROVE  RowsMatch
    <2> SUFFICES ASSUME NoSave
                 PROVE  /\ chargerRows = DOMAIN chargers /\ DOMAIN evRows = DOMAIN evs
                        /\ \A e \in DOMAIN evs :
                              /\ SamePlug(evRows[e], evs[e])
                              /\ evRows[e].status \in {evs[e].status, "charging"}
                              /\ evRows[e].atTarget => evs[e].atTarget
                              /\ evs[e].status \in {"idle", "charging"} => evRows[e] = evs[e]
        BY DEF RowsMatch, SamePlug
    <2>1. /\ ~Ticks /\ \A t \in Tasks : tasks[t].kind = "none"
          /\ chargerRows = DOMAIN chargers /\ DOMAIN evRows = DOMAIN evs
        BY <1>1, SettledRows
    <2>2. ASSUME NEW e \in DOMAIN evs
          PROVE  /\ SamePlug(evRows[e], evs[e])
                 /\ evRows[e].status \in {evs[e].status, "charging"}
                 /\ evRows[e].atTarget => evs[e].atTarget
                 /\ evs[e].status \in {"idle", "charging"} => evRows[e] = evs[e]
        <3>1. /\ SamePlug(evRows[e], evs[e]) /\ RowInStep(evs[e], evRows[e])
              /\ \A column \in Columns : Fine(evs[e], column, evRows[e][column])
            BY <1>1, <2>1, RowsSettled DEF PatientInv, InStep
        <3>2. evRows[e].status \in {evs[e].status, "charging"}
            BY <3>1 DEF Fine, Columns
        <3>3. ASSUME evs[e].status \in {"idle", "charging"}
              PROVE  evRows[e] = evs[e]
            <4>1. \A column \in Columns : evRows[e][column] = evs[e][column]
                BY <3>1, <3>3 DEF Fine
            <4>2. evRows[e] \in Ev /\ evs[e] \in Ev
                BY <1>1, <2>1 DEF PatientInv, TypeInv, RowsOK, EvsOK
            <4>. QED
                BY <4>1, <4>2, SameColumns
        <3>. QED
            BY <3>1, <3>2, <3>3 DEF RowInStep
    <2>. QED
        BY <2>1, <2>2
<1>. QED
    BY <1>1, PatientHolds, PTL

\* Only a restart counts as one.
LEMMA OnlyRestartCounts ==
    ASSUME [Next]_vars, crashes' # crashes
    PROVE  Restart
<1>1. ASSUME NEW t \in Tasks, Request(t)
      PROVE  crashes' = crashes
    <2>1. ASSUME NEW k \in Chargers
          PROVE  CreateCharger(t, k) \/ RemoveCharger(t, k) \/ StopTransaction(t, k)
                    => crashes' = crashes
        BY DEF CreateCharger, RemoveCharger, StopTransaction
    <2>2. ASSUME NEW e \in Evs
          PROVE  CreateEv(t, e) \/ RemoveEv(t, e) \/ Unplug(t, e) => crashes' = crashes
        BY DEF CreateEv, RemoveEv, Unplug
    <2>3. ASSUME NEW k \in Chargers, NEW c \in Connectors, NEW e \in Evs
          PROVE  Plug(t, e, k, c) => crashes' = crashes
        BY DEF Plug
    <2>4. ASSUME NEW k \in Chargers, NEW c \in Connectors
          PROVE  StartTransaction(t, k, c) => crashes' = crashes
        BY DEF StartTransaction
    <2>. QED
        BY <1>1, <2>1, <2>2, <2>3, <2>4 DEF Request
<1>2. ASSUME NEW t \in Tasks, Answer(t)
      PROVE  crashes' = crashes
    BY <1>2 DEF Answer, ChargerCreated, ChargerRemoved, EvCreated, EvRemoved, SaveLoads,
                SaveCommits, SaveFails
<1>3. SimulatorStep => crashes' = crashes
    BY DEF SimulatorStep, TickAll, TickNext, TickEv, TickAllReturns, IterationFails,
           TickLoads, TickCommits, TickFails, AutoStop
<1>. QED
    BY <1>1, <1>2, <1>3 DEF Next, vars

\* A restart with no save under way brings back the same chargers and EVs, with
\* every EV on the connector it was on.
THEOREM PlugsKept ==
    ASSUME Patient
    PROVE  Spec => RestartKeepsPlugs
<1> DEFINE Kept == crashes' # crashes /\ NoSave =>
                      /\ DOMAIN chargers' = DOMAIN chargers /\ DOMAIN evs' = DOMAIN evs
                      /\ \A k \in DOMAIN chargers : chargers'[k].plugged = chargers[k].plugged
<1>1. ASSUME PatientInv, PatientInv', [Next]_vars
      PROVE  Kept
    <2> SUFFICES ASSUME crashes' # crashes, NoSave
                 PROVE  /\ DOMAIN chargers' = DOMAIN chargers /\ DOMAIN evs' = DOMAIN evs
                        /\ \A k \in DOMAIN chargers : chargers'[k].plugged = chargers[k].plugged
        OBVIOUS
    <2>1. Restart
        BY <1>1, OnlyRestartCounts
    <2>2. /\ ~Ticks /\ \A t \in Tasks : tasks[t].kind = "none"
          /\ chargerRows = DOMAIN chargers /\ DOMAIN evRows = DOMAIN evs
        BY <1>1, SettledRows
    <2>3. DOMAIN chargers' = DOMAIN chargers /\ evs' = evRows
        BY <2>1, <2>2 DEF Restart
    <2>4. \A e \in DOMAIN evs : SamePlug(evs'[e], evs[e])
        BY <1>1, <2>2, <2>3, RowsSettled DEF PatientInv, InStep
    <2>5. ASSUME NEW k \in DOMAIN chargers
          PROVE  chargers'[k].plugged = chargers[k].plugged
        <3>1. /\ chargers[k].plugged \in [Connectors -> Evs \cup {None}]
              /\ chargers'[k].plugged \in [Connectors -> Evs \cup {None}]
            BY <1>1, <2>3 DEF PatientInv, TypeInv, ChargersOK, Charger
        <3>2. ASSUME NEW c \in Connectors, NEW e \in Evs
              PROVE  chargers'[k].plugged[c] = e <=> chargers[k].plugged[c] = e
            BY <1>1, <2>2, <2>3, <2>4 DEF PatientInv, InStep, PlugsAgree, SamePlug
        <3>3. ASSUME NEW c \in Connectors
              PROVE  chargers'[k].plugged[c] = chargers[k].plugged[c]
            BY <3>1, <3>2
        <3>. QED
            BY <3>1, <3>3
    <2>. QED
        BY <2>2, <2>3, <2>5
<1>2. PatientInv /\ PatientInv' /\ [Next]_vars => [Kept]_vars
    BY <1>1
<1>. QED
    BY <1>2, PatientHolds, PTL DEF Spec, RestartKeepsPlugs
=============================================================================
