---------------------------- MODULE SessionStore ----------------------------
(***************************************************************************)
(* The session records of one charger, kept twice: in SessionManager's     *)
(* dictionary and in the tables sessions and meter_values.  A handler of a *)
(* TransactionEvent changes the dictionary at once, then awaits the        *)
(* database, and in the end replaces its entry by the row it has read.     *)
(*                                                                         *)
(* The charger sends an event when the last one has been answered.  When   *)
(* it reconnects, the handler of the websocket it has left stays behind    *)
(* and goes on; when the process restarts, the rows are all that is left.  *)
(*                                                                         *)
(* The database is external, as in module Fleet; so is the delivery of the *)
(* events, the subject of module Charging.                                 *)
(***************************************************************************)
EXTENDS Integers, Sequences, FiniteSets

CONSTANTS
    MaxTransactions,   \* bound: transactions of the charger
    MaxValues,         \* bound: meter values of a transaction
    MaxReconnects,     \* bound: how often a handler is left behind
    MaxCrashes         \* bound: how often the process is restarted

ASSUME BoundsAssumption ==
    /\ MaxTransactions \in Nat \ {0} /\ MaxValues \in Nat
    /\ MaxReconnects \in Nat /\ MaxCrashes \in Nat

Transactions == 1 .. MaxTransactions
Values == Transactions \X (1 .. MaxValues)    \* a meter value and its transaction
NoValue == <<0, 0>>

VARIABLES
    manager,      \* SessionManager._sessions, in insertion order
    rows,         \* tables sessions and meter_values, by session id
    handlers,     \* the handlers of the charger's current and its last websocket
    charger,      \* the charger's row: present, deleted, or forgotten as well
    phase,        \* what the charger does about its transaction
    issued,       \* its transactions so far, the last one its current one
    metered,      \* the meter values it has sent of that one
    acked,        \* the values it has seen answered as stored
    reconnects,   \* handlers left behind so far
    crashes       \* restarts so far

station == <<phase, issued, metered>>
counters == <<reconnects, crashes>>
vars == <<manager, rows, handlers, charger, station, acked, counters>>

-----------------------------------------------------------------------------
(* Types and helpers                                                       *)

Session == [id : Transactions, status : {"active", "completed"}, meters : SUBSET Values]

NewSession(x) == [id |-> x, status |-> "active", meters |-> {}]

\* A handler: the await it is in, for which event and session, and the row it
\* has loaded, later the session it will put into the dictionary.
Handler == [pc : {"idle", "inserting", "loading", "committing", "returning"},
            event : {"started", "updated", "ended"}, id : Transactions,
            value : Values \cup {NoValue}, session : Session]

NoRows == [x \in {} |-> NewSession(x)]

Idle == [pc |-> "idle", event |-> "started", id |-> 1, value |-> NoValue,
         session |-> NewSession(1)]

Websockets == {"current", "last"}

Ids(list) == {list[i].id : i \in DOMAIN list}
Position(list, x) == CHOOSE i \in DOMAIN list : list[i].id = x

\* Mutant: a session is appended even when its key is there.
AppendedAlways(list, session) == Append(list, session)

\* Assignment to a dictionary's key: in its place, or at the end.
Stored(list, session) ==
    IF session.id \in Ids(list)
    THEN [list EXCEPT ![Position(list, session.id)] = session]
    ELSE Append(list, session)

Active(i) == manager[i].status = "active"
HasActive == \E i \in DOMAIN manager : Active(i)

\* Mutant: get_active_session takes the first session, active or not.
GetFirstSession == 1

\* get_active_session: the first in insertion order.
GetActiveSession ==
    CHOOSE i \in DOMAIN manager :
        Active(i) /\ \A j \in DOMAIN manager : j < i => ~Active(j)

AllIdle == \A w \in Websockets : handlers[w].pc = "idle"

\* The handler of websocket w has returned or raised: either way it answers,
\* and the charger goes on if it still listens on w.
Answered(w) ==
    /\ handlers' = [handlers EXCEPT ![w] = Idle]
    /\ phase' = CASE w = "current" /\ phase = "starting" -> "metering"
                  [] w = "current" /\ phase = "ending" -> "idle"
                  [] OTHER -> phase

-----------------------------------------------------------------------------
(* on_transaction_event up to its first await: the dictionary              *)

MaySend == charger = "present" /\ handlers["current"].pc = "idle"

Handle(pc, event, x, value) ==
    handlers' = [handlers EXCEPT !["current"] =
                    [Idle EXCEPT !.pc = pc, !.event = event, !.id = x, !.value = value]]

\* Started: create_session.
OnStarted ==
    /\ MaySend
    /\ phase = "idle" /\ issued < MaxTransactions
    /\ issued' = issued + 1
    /\ metered' = 0
    /\ phase' = "starting"
    /\ manager' = Stored(manager, NewSession(issued'))
    /\ Handle("inserting", "started", issued', NoValue)
    /\ UNCHANGED <<rows, charger, acked, counters>>

\* Updated: add_meter_value to whatever session is active.
OnUpdated ==
    LET value == <<issued, metered + 1>>
    IN  /\ MaySend
        /\ phase = "metering" /\ metered < MaxValues
        /\ metered' = metered + 1
        /\ IF HasActive
           THEN /\ manager' = [manager EXCEPT ![GetActiveSession].meters = @ \cup {value}]
                /\ Handle("loading", "updated", manager[GetActiveSession].id, value)
           ELSE UNCHANGED <<manager, handlers>>
        /\ UNCHANGED <<rows, charger, phase, issued, acked, counters>>

\* Ended: end_session for whatever session is active.
OnEnded ==
    /\ MaySend
    /\ phase \in {"metering", "unmetered"}
    /\ IF HasActive
       THEN /\ manager' = [manager EXCEPT ![GetActiveSession].status = "completed"]
            /\ Handle("loading", "ended", manager[GetActiveSession].id, NoValue)
            /\ phase' = "ending"
       ELSE /\ phase' = "idle"
            /\ UNCHANGED <<manager, handlers>>
    /\ UNCHANGED <<rows, charger, issued, metered, acked, counters>>

-----------------------------------------------------------------------------
(* SessionRepository: one await after the other                            *)

\* A row more, if its charger exists and its primary key is new.
CanInsert(x) == charger = "present" /\ x \notin DOMAIN rows

Inserted(x) ==
    [y \in DOMAIN rows \cup {x} |-> IF y = x THEN NewSession(x) ELSE rows[y]]

\* The dictionary keeps what the database has refused.
Insert(w) ==
    /\ handlers[w].pc = "inserting"
    /\ rows' = IF CanInsert(handlers[w].id) THEN Inserted(handlers[w].id) ELSE rows
    /\ Answered(w)
    /\ UNCHANGED <<manager, charger, issued, metered, acked, counters>>

Load(w) ==
    LET x == handlers[w].id
    IN  /\ handlers[w].pc = "loading"
        /\ IF x \in DOMAIN rows
           THEN /\ handlers' = [handlers EXCEPT ![w].pc = "committing",
                                                ![w].session = rows[x]]
                /\ UNCHANGED phase
           ELSE Answered(w)
        /\ UNCHANGED <<manager, rows, charger, issued, metered, acked, counters>>

\* Mutant: the whole record is written, not the columns that were changed.
WrittenWhole(row, h) ==
    IF h.event = "updated" THEN [h.session EXCEPT !.meters = @ \cup {h.value}]
    ELSE [h.session EXCEPT !.status = "completed"]

\* Only what the handler changes: a new row in meter_values, or the status.
Written(row, h) ==
    IF h.event = "updated" THEN [row EXCEPT !.meters = @ \cup {h.value}]
    ELSE [row EXCEPT !.status = "completed"]

\* Mutant: the meter values are those loaded with the record.
NotRefreshed(h, row) ==
    [h.session EXCEPT !.status = IF h.event = "ended" THEN "completed" ELSE @]

\* The record as loaded, with its own change, and the meter values read again.
Refreshed(h, row) ==
    [h.session EXCEPT !.status = IF h.event = "ended" THEN "completed" ELSE @,
                      !.meters = row.meters]

\* When the row has gone the commit raises.
Commit(w) ==
    LET h == handlers[w]
        row == Written(rows[h.id], h)
    IN  /\ h.pc = "committing"
        /\ IF h.id \in DOMAIN rows
           THEN /\ rows' = [rows EXCEPT ![h.id] = row]
                /\ handlers' = [handlers EXCEPT ![w].pc = "returning",
                                                ![w].session = Refreshed(h, row)]
                /\ UNCHANGED phase
           ELSE /\ UNCHANGED rows
                /\ Answered(w)
        /\ UNCHANGED <<manager, charger, issued, metered, acked, counters>>

\* Back in SessionManager: what was read takes the place of what is there.
Return(w) ==
    /\ handlers[w].pc = "returning"
    /\ manager' = Stored(manager, handlers[w].session)
    /\ acked' = IF handlers[w].event = "updated" THEN acked \cup {handlers[w].value} ELSE acked
    /\ Answered(w)
    /\ UNCHANGED <<rows, charger, issued, metered, counters>>

-----------------------------------------------------------------------------
(* What happens to the charger and to the process                          *)

\* The charger drops its websocket while a handler is at work and connects
\* again.  Its call has failed and its metering has ended; it can still stop.
Reconnect ==
    /\ charger = "present" /\ reconnects < MaxReconnects
    /\ handlers["current"].pc # "idle" /\ handlers["last"].pc = "idle"
    /\ handlers' = [handlers EXCEPT !["last"] = handlers["current"], !["current"] = Idle]
    /\ phase' = "unmetered"
    /\ reconnects' = reconnects + 1
    /\ UNCHANGED <<manager, rows, charger, issued, metered, acked, crashes>>

\* DELETE /api/chargers/{id}: the row, and with it those of its sessions.
DeleteCharger ==
    /\ charger = "present"
    /\ charger' = "deleted"
    /\ rows' = NoRows
    /\ UNCHANGED <<manager, handlers, station, acked, counters>>

\* Mutant: the handler at work is not cancelled.
ForgetSessions ==
    /\ charger = "deleted"
    /\ charger' = "forgotten"
    /\ manager' = <<>>
    /\ UNCHANGED <<rows, handlers, station, acked, counters>>

\* remove_sessions_for_charger, then csms_registry.disconnect, without an await
\* in between: the handler of the registered websocket is cancelled.
Forget ==
    /\ charger = "deleted"
    /\ charger' = "forgotten"
    /\ manager' = <<>>
    /\ handlers' = [handlers EXCEPT !["current"] = Idle]
    /\ UNCHANGED <<rows, station, acked, counters>>

\* The session with i - 1 later ones; ids are issued in order of start_time.
Newest(i) == CHOOSE x \in DOMAIN rows : Cardinality({y \in DOMAIN rows : y > x}) = i - 1

\* list_all orders by start_time, the newest first.
FromRows == [i \in 1 .. Cardinality(DOMAIN rows) |-> rows[Newest(i)]]

\* load_from_db in a new process: the charger has no transaction any more.
Restart ==
    /\ crashes < MaxCrashes
    /\ crashes' = crashes + 1
    /\ manager' = FromRows
    /\ handlers' = [w \in Websockets |-> Idle]
    /\ charger' = IF charger = "deleted" THEN "forgotten" ELSE charger
    /\ phase' = "idle"
    /\ UNCHANGED <<rows, issued, metered, acked, reconnects>>

-----------------------------------------------------------------------------
Init ==
    /\ manager = <<>>
    /\ rows = NoRows
    /\ handlers = [w \in Websockets |-> Idle]
    /\ charger = "present"
    /\ phase = "idle"
    /\ issued = 0
    /\ metered = 0
    /\ acked = {}
    /\ reconnects = 0
    /\ crashes = 0

Next ==
    \/ OnStarted \/ OnUpdated \/ OnEnded
    \/ \E w \in Websockets : Insert(w) \/ Load(w) \/ Commit(w) \/ Return(w)
    \/ Reconnect \/ DeleteCharger \/ Forget \/ Restart

Spec == Init /\ [][Next]_vars

-----------------------------------------------------------------------------
(* Properties                                                              *)

\* Every variable has its type; the dictionary and the table each keep a session
\* once, under its own id.
TypeOK ==
    /\ manager \in Seq(Session)
    /\ \A i, j \in DOMAIN manager : manager[i].id = manager[j].id => i = j
    /\ DOMAIN rows \subseteq Transactions
    /\ \A x \in DOMAIN rows : rows[x] \in Session /\ rows[x].id = x
    /\ handlers \in [Websockets -> Handler]
    /\ charger \in {"present", "deleted", "forgotten"}
    /\ phase \in {"idle", "starting", "metering", "unmetered", "ending"}
    /\ issued \in 0 .. MaxTransactions /\ metered \in 0 .. MaxValues
    /\ acked \subseteq Values
    /\ reconnects \in 0 .. MaxReconnects /\ crashes \in 0 .. MaxCrashes

\* When no handler is at work the dictionary holds what the tables hold, as
\* long as no handler has outlived its websocket.
ManagerMatchesRows ==
    AllIdle /\ charger # "deleted" /\ reconnects = 0 =>
        {manager[i] : i \in DOMAIN manager} = {rows[x] : x \in DOMAIN rows}

\* A meter value whose event was answered as stored is in the database.
AckedIsStored ==
    charger = "present" =>
        \A value \in acked : \E x \in DOMAIN rows : value \in rows[x].meters

\* While the charger exists its rows only grow: no session is lost or reopened
\* and no meter value taken back, by two handlers at once or by a restart.
RowsOnlyAdvance ==
    [][charger' = "present" =>
        \A x \in DOMAIN rows :
            /\ x \in DOMAIN rows'
            /\ rows[x].meters \subseteq rows'[x].meters
            /\ rows[x].status = "completed" => rows'[x].status = "completed"]_vars

\* In the database a session has values of its own transaction only, and when
\* the charger has no transaction none is open: until the first restart, and as
\* long as no handler has outlived its websocket.
RowsTellTheTruth ==
    crashes = 0 /\ reconnects = 0 =>
        /\ \A x \in DOMAIN rows : \A value \in rows[x].meters : value[1] = x
        /\ AllIdle /\ phase = "idle" => \A x \in DOMAIN rows : rows[x].status = "completed"

\* Nothing is left of a deleted charger, in the dictionary or in the tables,
\* unless a handler has outlived its websocket and with it the deletion.
ForgottenStaysForgotten ==
    charger = "forgotten" /\ reconnects = 0 => manager = <<>> /\ DOMAIN rows = {}
=============================================================================
