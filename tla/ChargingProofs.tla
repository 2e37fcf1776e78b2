--------------------------- MODULE ChargingProofs ---------------------------
(* Proofs about Charging, for every number of connectors, EVs, coroutines   *)
(* and transactions and for every Environment.                              *)
EXTENDS Charging, SequenceTheorems, TLAPS

-----------------------------------------------------------------------------
(* Facts about the helpers                                                  *)

\* Releasing the call lock keeps the types of what it touches.
LEMMA ReleaseType ==
    ASSUME TypeOK, NEW t, Release(t)
    PROVE  /\ caller' \in Tasks \cup {None}
           /\ reply' \in {"none", "awaited", "arrived", "lost"}
BY DEF TypeOK, Release

\* A coroutine that proceeds to a well-typed continuation keeps the types.
LEMMA ProceedType ==
    ASSUME TypeOK, NEW t \in Tasks, NEW task \in Task, Proceed(t, task)
    PROVE  /\ tasks' \in [Tasks -> Task]
           /\ caller' \in Tasks \cup {None}
           /\ reply' \in {"none", "awaited", "arrived", "lost"}
<1>1. Release(t)
    BY DEF Proceed
<1>2. tasks' \in [Tasks -> Task]
    BY DEF Proceed, TypeOK
<1>. QED
    BY <1>1, <1>2, ReleaseType

LEMMA FreeIsTask == Free \in Task
BY DEF Task

\* A new coroutine has its type.
LEMMA CoroutineIsTask ==
    ASSUME NEW kind \in {"boot", "meter", "reset", "connector_error", "power_loss"},
           NEW pc \in {"boot", "sleeping", "notify"}, NEW c \in {0, 1}
    PROVE  Coroutine(kind, pc, c) \in Task
<1>1. c \in 0 .. ConnectorCount
    BY ConnectorCountAssumption
<1>. QED
    BY <1>1 DEF Coroutine, Task, OtherTask, Calls, NoTransaction

\* A coroutine that ends with an exception keeps the types.
LEMMA RaiseType ==
    ASSUME TypeOK, NEW t \in Tasks, Raise(t)
    PROVE  /\ tasks' \in [Tasks -> Task]
           /\ caller' \in Tasks \cup {None}
           /\ reply' \in {"none", "awaited", "arrived", "lost"}
           /\ charger' \in Charger
           /\ handler' \in Tasks \cup {None}
           /\ resetReply' \in {"none", "pending", "accepted", "error"}
<1>1. Proceed(t, Free)
    BY DEF Raise
<1>2. charger' \in Charger
    BY DEF Raise, TypeOK, Charger
<1>3. /\ handler' \in Tasks \cup {None}
      /\ resetReply' \in {"none", "pending", "accepted", "error"}
    BY DEF Raise, TypeOK
<1>. QED
    BY <1>1, <1>2, <1>3, ProceedType, FreeIsTask

\* A suspended coroutine goes on to its next call with a transaction id.
LEMMA NextCallIsTask ==
    ASSUME NEW task \in Task, NEW call \in Calls, NEW tx \in Nat,
           \/ task \in OtherTask /\ call \notin {"start_status", "started"}
           \/ task \in StartTask /\ call \in {"start_status", "started"}
    PROVE  /\ [task EXCEPT !.pc = call] \in Task
           /\ [task EXCEPT !.pc = call, !.tx = tx] \in Task
<1>1. CASE task \in OtherTask /\ call \notin {"start_status", "started"}
    BY <1>1 DEF Task, OtherTask
<1>2. CASE task \in StartTask /\ call \in {"start_status", "started"}
    BY <1>2 DEF Task, StartTask
<1>. QED
    BY <1>1, <1>2

\* Building a TransactionEvent from the current transaction id.
LEMMA CallWithTransactionType ==
    ASSUME TypeOK, NEW t \in Tasks, NEW call \in Calls, CallWithTransaction(t, call),
           \/ tasks[t] \in OtherTask /\ call \notin {"start_status", "started"}
           \/ tasks[t] \in StartTask /\ call \in {"start_status", "started"}
    PROVE  /\ tasks' \in [Tasks -> Task]
           /\ caller' \in Tasks \cup {None}
           /\ reply' \in {"none", "awaited", "arrived", "lost"}
           /\ charger' \in Charger
           /\ handler' \in Tasks \cup {None}
           /\ resetReply' \in {"none", "pending", "accepted", "error"}
<1>1. CASE charger.transactionId = NoTransaction
    <2>1. Raise(t)
        BY <1>1 DEF CallWithTransaction
    <2>. QED
        BY <2>1, RaiseType
<1>2. CASE charger.transactionId # NoTransaction
    <2> DEFINE next == [tasks[t] EXCEPT !.pc = call, !.tx = charger.transactionId]
    <2>1. /\ Proceed(t, next)
          /\ UNCHANGED <<charger, handler, resetReply>>
        BY <1>2 DEF CallWithTransaction
    <2>2. charger.transactionId \in Nat /\ tasks[t] \in Task
        BY DEF TypeOK, Charger
    <2>3. next \in Task
        BY <2>2, NextCallIsTask
    <2>. QED
        BY <2>1, <2>3, ProceedType DEF TypeOK
<1>. QED
    BY <1>1, <1>2

\* Which kind of coroutine stands at which point.
LEMMA TaskAtPoint ==
    ASSUME TypeOK, NEW t \in Tasks
    PROVE  /\ tasks[t].pc \in {"start_status", "started"} => tasks[t] \in StartTask
           /\ tasks[t].pc \in {"saving"} /\ tasks[t].kind = "start" => tasks[t] \in StartTask
           /\ tasks[t].pc \in {"saving"} /\ tasks[t].kind # "start" => tasks[t] \in OtherTask
           /\ tasks[t].pc \in {"sleeping", "boot", "updated", "ended", "stop_status", "notify"}
                 => tasks[t] \in OtherTask
           /\ tasks[t].kind = "none" => tasks[t] = Free
<1>1. tasks[t] \in {Free} \cup StartTask \cup OtherTask
    BY DEF TypeOK, Task
<1>. QED
    BY <1>1 DEF Free, Coroutine, StartTask, OtherTask, Calls

\* Dropping the head of a message queue.
LEMMA TailType ==
    ASSUME NEW S, NEW q \in Seq(S), q # <<>>
    PROVE  /\ Head(q) \in S
           /\ Tail(q) \in Seq(S)
           /\ Len(Tail(q)) = Len(q) - 1
           /\ \A i \in 1 .. Len(Tail(q)) : Tail(q)[i] = q[i + 1]
OBVIOUS

\* _stop_transaction up to its first await keeps the types.
LEMMA BeginStopType ==
    ASSUME TypeOK, NEW t \in Tasks, NEW kind \in {"stop", "reset", "power_loss"},
           BeginStop(t, kind)
    PROVE  /\ charger' \in Charger
           /\ tasks' \in [Tasks -> Task]
           /\ caller' \in Tasks \cup {None}
           /\ reply' \in {"none", "awaited", "arrived", "lost"}
           /\ evs' \in [Evs -> Ev]
           /\ UNCHANGED plugVars
<1> DEFINE c == charger.activeConnector
           e == pluggedEvs[c]
           stop == [kind |-> kind, pc |-> IF e = None THEN "ended" ELSE "saving",
                    connector |-> c, ev |-> e,
                    tx |-> IF e = None THEN charger.transactionId ELSE NoTransaction]
<1>1. c \in Connectors /\ e \in Evs \cup {None} /\ charger.transactionId \in Nat
    BY DEF TypeOK, Charger
<1>2. stop \in Task
    <2>1. c \in 0 .. ConnectorCount
        BY <1>1, ConnectorCountAssumption DEF Connectors
    <2>. QED
        BY <1>1, <2>1 DEF Task, OtherTask, Calls, NoTransaction
<1>3. tasks' \in [Tasks -> Task]
    <2>1. tasks' = [u \in Tasks |-> IF u = t THEN stop
                         ELSE IF u = charger.meterTask THEN Free ELSE tasks[u]]
        BY DEF BeginStop, CancelMeter
    <2>2. \A u \in Tasks : tasks[u] \in Task
        BY DEF TypeOK
    <2>3. \A u \in Tasks : (IF u = t THEN stop
                            ELSE IF u = charger.meterTask THEN Free ELSE tasks[u]) \in Task
        BY <1>2, <2>2, FreeIsTask
    <2> HIDE DEF stop
    <2>. QED
        BY <2>1, <2>3
<1>4. charger' \in Charger
    BY DEF BeginStop, CancelMeter, TypeOK, Charger
<1>5. evs' \in [Evs -> Ev]
    <2>1. CASE e = None
        BY <2>1 DEF BeginStop, CancelMeter, TypeOK
    <2>2. CASE e # None
        <3>1. e \in Evs /\ evs[e] \in Ev
            BY <1>1, <2>2 DEF TypeOK
        <3>2. Stopped(evs[e]) \in Ev
            BY <3>1 DEF Stopped, Ev, NoTransaction
        <3>3. evs' = [evs EXCEPT ![e] = Stopped(evs[e])]
            BY <2>2 DEF BeginStop, CancelMeter
        <3> HIDE DEF e
        <3>. QED
            BY <3>1, <3>2, <3>3 DEF TypeOK
    <2>. QED
        BY <2>1, <2>2
<1>6. Release(charger.meterTask) /\ UNCHANGED plugVars
    BY DEF BeginStop, CancelMeter
<1>. QED
    BY <1>3, <1>4, <1>5, <1>6, ReleaseType

\* Receiving a request keeps the types of the queue and of the simulator.
LEMMA ReceiveType ==
    ASSUME TypeOK, NEW command, Receive(command)
    PROVE  /\ Head(downlink) \in Command
           /\ downlink' \in Seq(Command)
           /\ simulator' \in [state : {"ticking", "saving", "waiting", "dead"},
                              ev : Evs \cup {None}]
<1>1. downlink \in Seq(Command) /\ downlink # <<>>
    BY DEF TypeOK, Receive
<1>2. Head(downlink) \in Command /\ Tail(downlink) \in Seq(Command)
    BY <1>1, TailType
<1>. QED
    BY <1>2 DEF Receive, TypeOK

\* A CSMS handler keeps the types of what it takes and answers.
LEMMA HandleType ==
    ASSUME TypeOK, NEW calls, Handle(calls)
    PROVE  /\ Head(uplink) \in Message
           /\ uplink' \in Seq(Message)
           /\ reply' \in {"none", "awaited", "arrived", "lost"}
<1>1. uplink \in Seq(Message) /\ uplink # <<>>
    BY DEF TypeOK, Handle
<1>2. Head(uplink) \in Message /\ Tail(uplink) \in Seq(Message)
    BY <1>1, TailType
<1>. QED
    BY <1>2 DEF Handle, TypeOK

\* Appending a request keeps the type of the queue.
LEMMA RequestType ==
    ASSUME TypeOK, NEW command, NEW c, NEW from, Request(command, c, from),
           \/ command = "start" /\ c \in Connectors /\ from = "rest"
           \/ command \in {"stop", "reset"} /\ c = 0 /\ from \in {"rest", "simulator"}
    PROVE  downlink' \in Seq(Command)
<1>1. [command |-> command, connector |-> c, from |-> from] \in Command
    BY DEF Command
<1>2. downlink \in Seq(Command)
    BY DEF TypeOK
<1>. QED
    BY <1>1, <1>2 DEF Request

\* Replacing an element keeps the type of a sequence.
LEMMA ExceptType ==
    ASSUME NEW S, NEW q \in Seq(S), NEW i, NEW v, i \in DOMAIN q => v \in S
    PROVE  [q EXCEPT ![i] = v] \in Seq(S)
<1> DEFINE r == [q EXCEPT ![i] = v]
<1>1. q \in [1 .. Len(q) -> S] /\ Len(q) \in Nat
    OBVIOUS
<1>2. r \in [1 .. Len(q) -> S]
    BY <1>1
<1>. QED
    BY <1>1, <1>2

\* Crediting an event to a session record keeps the type of the records.
LEMMA CreditType ==
    ASSUME TypeOK, NEW i, NEW tx \in Nat
    PROVE  /\ [sessions EXCEPT ![i] = WithMeterValue(sessions[i], tx)] \in Seq(Session)
           /\ [sessions EXCEPT ![i] = Ended(sessions[i], tx)] \in Seq(Session)
<1>1. sessions \in Seq(Session)
    BY DEF TypeOK
<1>2. i \in DOMAIN sessions => sessions[i] \in Session
    BY <1>1
<1>3. \A s \in Session : WithMeterValue(s, tx) \in Session /\ Ended(s, tx) \in Session
    BY DEF Session, WithMeterValue, Ended
<1>. QED
    BY <1>1, <1>2, <1>3, ExceptType

-----------------------------------------------------------------------------
(* Type correctness                                                         *)

USE DEF vars, deviceVars, plugVars, loopVars, netVars

LEMMA EmptySeqType == \A S : <<>> \in Seq(S)
OBVIOUS

LEMMA InitType == Init => TypeOK
<1>1. Init => /\ charger \in Charger
              /\ connectorStatuses \in [Connectors -> {"Available", "Preparing", "Charging"}]
    BY ConnectorCountAssumption DEF Init, Charger, Connectors, NoTransaction
<1>2. Init => evs \in [Evs -> Ev]
    BY ConnectorCountAssumption DEF Init, Ev, NoConnector, NoTransaction
<1>3. Init => tasks \in [Tasks -> Task]
    BY FreeIsTask DEF Init
<1>4. Init => simulator \in [state : {"ticking", "saving", "waiting", "dead"},
                             ev : Evs \cup {None}]
    BY DEF Init
<1>5. Init => /\ uplink \in Seq(Message)
              /\ downlink \in Seq(Command)
              /\ sessions \in Seq(Session)
    BY EmptySeqType DEF Init
<1>6. Init => /\ pluggedEvs \in [Connectors -> Evs \cup {None}]
              /\ issued \in Nat
    BY DEF Init
<1>. QED
    BY <1>1, <1>2, <1>3, <1>4, <1>5, <1>6 DEF Init, TypeOK

\* What users and the network do keeps the types.
LEMMA UserStepType == TypeOK /\ UserStep => TypeOK'
<1> SUFFICES ASSUME TypeOK, UserStep PROVE TypeOK'
    OBVIOUS
<1>1. ASSUME NEW t \in Tasks, Connect(t) PROVE TypeOK'
    <2>1. Coroutine("boot", "boot", 0) \in Task
        BY CoroutineIsTask
    <2>2. Proceed(t, Coroutine("boot", "boot", 0))
        BY <1>1 DEF Connect
    <2>. QED
        BY <1>1, <2>1, <2>2, ProceedType DEF TypeOK, Connect
<1>2. ASSUME NEW t \in Tasks, NEW kind \in {"connector_error", "power_loss"}, Notify(t, kind)
      PROVE  tasks' \in [Tasks -> Task]
    <2>1. Coroutine(kind, "notify", 1) \in Task
        BY CoroutineIsTask
    <2>. QED
        BY <1>2, <2>1 DEF Notify, TypeOK
<1>3. ASSUME NEW t \in Tasks, ConnectorError(t) PROVE TypeOK'
    <2>1. tasks' \in [Tasks -> Task]
        BY <1>2, <1>3 DEF ConnectorError
    <2>2. charger' \in Charger
        BY <1>3 DEF ConnectorError, TypeOK, Charger
    <2>. QED
        BY <1>3, <2>1, <2>2 DEF TypeOK, ConnectorError
<1>4. ASSUME NEW t \in Tasks, PowerLoss(t) PROVE TypeOK'
    <2>1. CASE charger.transactionId # NoTransaction
        <3>1. BeginStop(t, "power_loss")
            BY <1>4, <2>1 DEF PowerLoss
        <3>. QED
            BY <1>4, <3>1, BeginStopType DEF TypeOK, PowerLoss
    <2>2. CASE charger.transactionId = NoTransaction
        <3>1. tasks' \in [Tasks -> Task]
            BY <1>2, <1>4, <2>2 DEF PowerLoss
        <3>2. charger' \in Charger
            BY <1>4, <2>2 DEF PowerLoss, TypeOK, Charger
        <3>. QED
            BY <1>4, <2>2, <3>1, <3>2 DEF TypeOK, PowerLoss
    <2>. QED
        BY <2>1, <2>2
<1>5. CASE Disconnect
    <2>1. charger' \in Charger
        BY <1>5 DEF Disconnect, TypeOK, Charger
    <2>2. tasks' \in [Tasks -> Task]
        BY <1>5, FreeIsTask DEF Disconnect, TypeOK
    <2>3. reply' \in {"none", "awaited", "arrived", "lost"} /\ caller' \in Tasks \cup {None}
        BY <1>5 DEF Disconnect, TypeOK
    <2>4. simulator' \in [state : {"ticking", "saving", "waiting", "dead"},
                          ev : Evs \cup {None}]
        BY <1>5 DEF Disconnect, TypeOK
    <2>5. uplink' \in Seq(Message) /\ downlink' \in Seq(Command)
        BY <1>5 DEF Disconnect
    <2>. QED
        BY <1>5, <2>1, <2>2, <2>3, <2>4, <2>5 DEF TypeOK, Disconnect
<1>6. CASE StopSession
    BY <1>6, RequestType DEF StopSession, TypeOK
<1>7. CASE RequestReset
    BY <1>7, RequestType DEF RequestReset, TypeOK
<1>8. ASSUME NEW e \in Evs, Unplug(e) PROVE TypeOK'
    <2>1. evs' \in [Evs -> Ev]
        <3>1. ASSUME NEW ev \in Ev PROVE Unplugged(ev) \in Ev
            BY ConnectorCountAssumption DEF Unplugged, Ev, NoConnector, NoTransaction
        <3>. QED
            BY <1>8, <3>1 DEF Unplug, TypeOK
    <2>2. pluggedEvs' \in [Connectors -> Evs \cup {None}]
        BY <1>8 DEF Unplug, TypeOK
    <2>3. connectorStatuses' \in [Connectors -> {"Available", "Preparing", "Charging"}]
        BY <1>8 DEF Unplug, TypeOK
    <2>. QED
        BY <1>8, <2>1, <2>2, <2>3 DEF TypeOK, Unplug
<1>9. ASSUME NEW e \in Evs, StartEvCharging(e) PROVE TypeOK'
    <2>1. evs[e].connector \in Connectors
        <3>1. evs[e] \in Ev /\ evs[e].connector # 0
            BY <1>9 DEF StartEvCharging, TypeOK, NoConnector
        <3>. QED
            BY <3>1, ConnectorCountAssumption DEF Ev, Connectors
    <2>2. downlink' \in Seq(Command)
        BY <1>9, <2>1, RequestType DEF StartEvCharging
    <2>. QED
        BY <1>9, <2>2 DEF TypeOK, StartEvCharging
<1>10. ASSUME NEW e \in Evs, StopEvCharging(e) PROVE TypeOK'
    BY <1>10, RequestType DEF StopEvCharging, TypeOK
<1>11. ASSUME NEW c \in Connectors, StartSession(c) PROVE TypeOK'
    BY <1>11, RequestType DEF StartSession, TypeOK
<1>12. ASSUME NEW c \in Connectors, NEW e \in Evs, Plug(e, c) PROVE TypeOK'
    <2>1. evs' \in [Evs -> Ev]
        <3>1. c \in 0 .. ConnectorCount
            BY ConnectorCountAssumption DEF Connectors
        <3>. QED
            BY <1>12, <3>1 DEF Plug, TypeOK, Ev
    <2>. QED
        BY <1>12, <2>1 DEF TypeOK, Plug
<1>. QED
    BY <1>1, <1>3, <1>4, <1>5, <1>6, <1>7, <1>8, <1>9, <1>10, <1>11, <1>12 DEF UserStep

\* The charger's request handlers keep the types.
LEMMA ReceiveRequestType == TypeOK /\ ReceiveRequest => TypeOK'
<1> SUFFICES ASSUME TypeOK, NEW t \in Tasks,
                    \/ OnRequestStartTransaction(t)
                    \/ OnRequestStopTransaction(t)
                    \/ OnReset(t)
             PROVE  TypeOK'
    BY DEF ReceiveRequest
<1>1. CASE OnRequestStartTransaction(t)
    <2> DEFINE c == Head(downlink).connector
               e == pluggedEvs[c]
               tx == NewTransaction
               task == [kind |-> "start", pc |-> "saving", connector |-> c, ev |-> e,
                        tx |-> NoTransaction]
    <2>1. /\ Head(downlink) \in Command
          /\ downlink' \in Seq(Command)
          /\ simulator' \in [state : {"ticking", "saving", "waiting", "dead"},
                             ev : Evs \cup {None}]
        BY <1>1, ReceiveType DEF OnRequestStartTransaction, BeginStart, Chargeable
    <2>2. c \in Connectors
        BY <1>1, <2>1 DEF OnRequestStartTransaction, BeginStart, Chargeable, Receive, Command
    <2>3. e \in Evs \cup {None} /\ tx \in Nat
        BY <2>2 DEF TypeOK, NewTransaction
    <2>4. CASE e = None
        BY <1>1, <2>1, <2>4 DEF OnRequestStartTransaction, BeginStart, Chargeable, TypeOK
    <2>5. CASE e # None
        <3>1. charger' \in Charger
            BY <1>1, <2>2, <2>3, <2>5 DEF OnRequestStartTransaction, BeginStart, Chargeable, TypeOK, Charger
        <3>2. connectorStatuses' \in [Connectors -> {"Available", "Preparing", "Charging"}]
            BY <1>1, <2>5 DEF OnRequestStartTransaction, BeginStart, Chargeable, TypeOK
        <3>3. evs' \in [Evs -> Ev]
            <4>1. \A ev \in Ev : StartedFor(ev, tx) \in Ev
                BY <2>3 DEF Ev, StartedFor
            <4>2. \/ evs' = evs
                  \/ evs' = [evs EXCEPT ![e] = StartedFor(evs[e], tx)]
                BY <1>1, <2>5 DEF OnRequestStartTransaction, BeginStart, Chargeable
            <4>3. e \in Evs /\ evs[e] \in Ev
                BY <2>3, <2>5 DEF TypeOK
            <4> HIDE DEF e, tx
            <4>4. StartedFor(evs[e], tx) \in Ev
                BY <4>1, <4>3
            <4>. QED
                BY <4>2, <4>3, <4>4 DEF TypeOK
        <3>4. tasks' \in [Tasks -> Task]
            <4>1. task \in Task
                BY <2>2, <2>3, <2>5 DEF Task, StartTask, NoTransaction
            <4>2. tasks' = tasks \/ tasks' = [tasks EXCEPT ![t] = task]
                BY <1>1, <2>5 DEF OnRequestStartTransaction, BeginStart, Chargeable
            <4> HIDE DEF task
            <4>. QED
                BY <4>1, <4>2 DEF TypeOK
        <3>5. issued' \in Nat /\ UNCHANGED pluggedEvs
            BY <1>1, <2>3, <2>5 DEF OnRequestStartTransaction, BeginStart, Chargeable
        <3> HIDE DEF c, e, tx, task
        <3>. QED
            BY <1>1, <2>1, <3>1, <3>2, <3>3, <3>4, <3>5 DEF OnRequestStartTransaction, BeginStart, Chargeable, TypeOK
    <2>. QED
        BY <2>4, <2>5
<1>2. CASE OnRequestStopTransaction(t)
    <2>1. /\ downlink' \in Seq(Command)
          /\ simulator' \in [state : {"ticking", "saving", "waiting", "dead"},
                             ev : Evs \cup {None}]
        BY <1>2, ReceiveType DEF OnRequestStopTransaction
    <2>2. CASE charger.transactionId = NoTransaction
        BY <1>2, <2>1, <2>2 DEF OnRequestStopTransaction, TypeOK
    <2>3. CASE charger.transactionId # NoTransaction
        <3>1. BeginStop(t, "stop")
            BY <1>2, <2>3 DEF OnRequestStopTransaction
        <3>. QED
            BY <1>2, <2>1, <3>1, BeginStopType DEF OnRequestStopTransaction, TypeOK
    <2>. QED
        BY <2>2, <2>3
<1>3. CASE OnReset(t)
    <2>1. /\ downlink' \in Seq(Command)
          /\ simulator' \in [state : {"ticking", "saving", "waiting", "dead"},
                             ev : Evs \cup {None}]
        BY <1>3, ReceiveType DEF OnReset
    <2>2. CASE charger.isCharging /\ charger.transactionId # NoTransaction
        <3>1. BeginStop(t, "reset")
            BY <1>3, <2>2 DEF OnReset
        <3>. QED
            BY <1>3, <2>1, <3>1, BeginStopType DEF OnReset, TypeOK
    <2>3. CASE ~(charger.isCharging /\ charger.transactionId # NoTransaction)
        <3>1. tasks' \in [Tasks -> Task]
            BY <1>3, <2>3, CoroutineIsTask DEF OnReset, TypeOK
        <3>. QED
            BY <1>3, <2>1, <2>3, <3>1 DEF OnReset, TypeOK
    <2>. QED
        BY <2>2, <2>3
<1>. QED
    BY <1>1, <1>2, <1>3

\* The charger's coroutines keep the types.
LEMMA ResumeType == \A t \in Tasks : TypeOK /\ (SendCall(t) \/ Resume(t)) => TypeOK'
<1> SUFFICES ASSUME TypeOK, NEW t \in Tasks, SendCall(t) \/ Resume(t) PROVE TypeOK'
    OBVIOUS
<1>0. tasks[t] \in Task
    BY DEF TypeOK
<1>1. CASE SendCall(t)
    <2> DEFINE m == [call |-> tasks[t].pc, connector |-> tasks[t].connector, tx |-> tasks[t].tx]
    <2>1. m \in Message
        <3>1. Connectors \subseteq 0 .. ConnectorCount
            BY ConnectorCountAssumption DEF Connectors
        <3>2. CASE tasks[t] \in StartTask
            BY <1>1, <3>1, <3>2 DEF SendCall, StartTask, Message, Calls
        <3>3. CASE tasks[t] \in OtherTask
            BY <1>1, <3>3 DEF SendCall, OtherTask, Message, Calls
        <3>4. CASE tasks[t] = Free
            BY <1>1, <3>4 DEF SendCall, Free, Coroutine, Calls
        <3>. QED
            BY <1>0, <3>2, <3>3, <3>4 DEF Task
    <2>2. uplink' = Append(uplink, m)
        BY <1>1 DEF SendCall
    <2>3. uplink' \in Seq(Message)
        <3> HIDE DEF m
        <3>. QED
            BY <2>1, <2>2 DEF TypeOK
    <2>. QED
        BY <1>1, <2>3 DEF SendCall, TypeOK
<1>2. CASE CallFails(t)
    <2>1. Raise(t)
        BY <1>2 DEF CallFails
    <2>. QED
        BY <1>2, <2>1, RaiseType DEF CallFails, TypeOK
<1>3. CASE SavingDone(t)
    <2>1. CASE tasks[t].kind = "start"
        <3> DEFINE next == [tasks[t] EXCEPT !.pc = "start_status"]
        <3>1. next \in Task
            BY <1>0, <1>3, <2>1, TaskAtPoint, NextCallIsTask DEF SavingDone, Calls, NoTransaction
        <3>2. Proceed(t, next)
            BY <1>3, <2>1 DEF SavingDone
        <3>. QED
            BY <1>3, <2>1, <3>1, <3>2, ProceedType DEF SavingDone, TypeOK
    <2>2. CASE tasks[t].kind # "start"
        <3>1. CallWithTransaction(t, "ended") /\ tasks[t] \in OtherTask
            BY <1>3, <2>2, TaskAtPoint DEF SavingDone
        <3>. QED
            BY <1>3, <3>1, CallWithTransactionType DEF SavingDone, TypeOK, Calls
    <2>. QED
        BY <2>1, <2>2
<1>4. CASE MeterWakes(t)
    <2>1. CallWithTransaction(t, "updated") /\ tasks[t] \in OtherTask
        BY <1>4, TaskAtPoint DEF MeterWakes
    <2>. QED
        BY <1>4, <2>1, CallWithTransactionType DEF MeterWakes, TypeOK, Calls
<1>5. CASE StartStatusReturns(t)
    <2>1. CallWithTransaction(t, "started") /\ tasks[t] \in StartTask
        BY <1>5, TaskAtPoint DEF StartStatusReturns, Returned
    <2>. QED
        BY <1>5, <2>1, CallWithTransactionType DEF StartStatusReturns, TypeOK, Calls
<1>6. ASSUME MeterLoop(t)
      PROVE  /\ tasks' \in [Tasks -> Task]
             /\ caller' \in Tasks \cup {None}
             /\ reply' \in {"none", "awaited", "arrived", "lost"}
    BY <1>6, ProceedType, FreeIsTask, CoroutineIsTask DEF MeterLoop
<1>7. CASE StartedReturns(t)
    <2>1. charger' \in Charger
        BY <1>7 DEF StartedReturns, TypeOK, Charger
    <2>. QED
        BY <1>6, <1>7, <2>1 DEF StartedReturns, TypeOK
<1>8. CASE UpdatedReturns(t)
    <2>1. charger' \in Charger
        BY <1>8 DEF UpdatedReturns, TypeOK, Charger
    <2>. QED
        BY <1>6, <1>8, <2>1 DEF UpdatedReturns, TypeOK
<1>9. CASE EndedReturns(t)
    <2> DEFINE next == [tasks[t] EXCEPT !.pc = "stop_status"]
    <2>1. next \in Task
        BY <1>0, <1>9, TaskAtPoint, NextCallIsTask DEF EndedReturns, Returned, Calls, NoTransaction
    <2>2. Proceed(t, next)
        BY <1>9 DEF EndedReturns
    <2>. QED
        BY <1>9, <2>1, <2>2, ProceedType DEF EndedReturns, TypeOK
<1>10. CASE StopStatusReturns(t)
    <2>1. charger' \in Charger
        BY <1>10 DEF StopStatusReturns, TypeOK, Charger, NoTransaction
    <2>2. connectorStatuses' \in [Connectors -> {"Available", "Preparing", "Charging"}]
        BY <1>10 DEF StopStatusReturns, StatusAfterStop, TypeOK
    <2>3. \E task \in Task : Proceed(t, task)
        BY <1>10, FreeIsTask, CoroutineIsTask DEF StopStatusReturns
    <2>. QED
        BY <1>10, <2>1, <2>2, <2>3, ProceedType DEF StopStatusReturns, TypeOK
<1>11. CASE BootReturns(t)
    <2> DEFINE next == [tasks[t] EXCEPT !.connector = @ + 1]
    <2>1. CASE tasks[t].connector < ConnectorCount
        <3>1. tasks[t] \in OtherTask
            BY <1>11, TaskAtPoint DEF BootReturns, Returned
        <3>2. tasks[t].connector + 1 \in 0 .. ConnectorCount
            BY <2>1, <3>1, ConnectorCountAssumption DEF OtherTask
        <3>3. next \in OtherTask
            BY <3>1, <3>2 DEF OtherTask
        <3>4. Proceed(t, next) /\ UNCHANGED <<handler, resetReply>>
            BY <1>11, <2>1 DEF BootReturns
        <3> HIDE DEF next
        <3>5. next \in Task
            BY <3>3 DEF Task
        <3>. QED
            BY <1>11, <3>4, <3>5, ProceedType DEF BootReturns, TypeOK
    <2>2. CASE ~(tasks[t].connector < ConnectorCount)
        BY <1>11, <2>2, FreeIsTask, ProceedType DEF BootReturns, TypeOK
    <2>. QED
        BY <2>1, <2>2
<1>12. CASE NotifyReturns(t)
    BY <1>12, FreeIsTask, ProceedType DEF NotifyReturns, TypeOK
<1>. QED
    BY <1>1, <1>2, <1>3, <1>4, <1>5, <1>7, <1>8, <1>9, <1>10, <1>11, <1>12 DEF Resume

\* The CSMS's handlers keep the types.
LEMMA CsmsStepType == TypeOK /\ CsmsStep => TypeOK'
<1> SUFFICES ASSUME TypeOK, CsmsStep PROVE TypeOK'
    OBVIOUS
<1>1. CASE OnTransactionStarted
    <2> DEFINE m == Head(uplink)
    <2>1. /\ m \in Message
          /\ uplink' \in Seq(Message)
          /\ reply' \in {"none", "awaited", "arrived", "lost"}
        BY <1>1, HandleType DEF OnTransactionStarted
    <2>2. m.call = "started"
        BY <1>1 DEF OnTransactionStarted, Handle
    <2>3. SessionOf(m) \in Session
        <3>1. m.connector \in Connectors /\ m.tx \in Nat
            BY <2>1, <2>2 DEF Message
        <3>. QED
            BY <3>1 DEF SessionOf, Session, TypeOK
    <2>4. sessions' \in Seq(Session)
        <3> DEFINE s == SessionOf(m)
        <3>1. CASE \E i \in DOMAIN sessions : sessions[i].id = m.tx
            <4>1. sessions' = [i \in DOMAIN sessions |->
                                  IF sessions[i].id = m.tx THEN s ELSE sessions[i]]
                BY <1>1, <3>1 DEF OnTransactionStarted
            <4>2. sessions \in [1 .. Len(sessions) -> Session] /\ Len(sessions) \in Nat
                BY DEF TypeOK
            <4> HIDE DEF s
            <4>3. sessions' \in [1 .. Len(sessions) -> Session]
                BY <2>3, <4>1, <4>2 DEF s
            <4>. QED
                BY <4>2, <4>3
        <3>2. CASE ~ \E i \in DOMAIN sessions : sessions[i].id = m.tx
            <4>1. sessions' = Append(sessions, s)
                BY <1>1, <3>2 DEF OnTransactionStarted
            <4>. QED
                BY <2>3, <4>1 DEF TypeOK
        <3>. QED
            BY <3>1, <3>2
    <2>. QED
        BY <1>1, <2>1, <2>4 DEF OnTransactionStarted, Handle, TypeOK
<1>2. ASSUME Handle({"updated"}) \/ Handle({"ended"})
      PROVE  /\ Head(uplink).tx \in Nat
             /\ uplink' \in Seq(Message)
             /\ reply' \in {"none", "awaited", "arrived", "lost"}
    BY <1>2, HandleType DEF Message
<1>3. CASE OnTransactionUpdated
    <2>1. sessions' \in Seq(Session)
        BY <1>2, <1>3, CreditType DEF OnTransactionUpdated, TypeOK
    <2>. QED
        BY <1>2, <1>3, <2>1 DEF OnTransactionUpdated, Handle, TypeOK
<1>4. CASE OnTransactionEnded
    <2>1. sessions' \in Seq(Session)
        BY <1>2, <1>4, CreditType DEF OnTransactionEnded, TypeOK
    <2>. QED
        BY <1>2, <1>4, <2>1 DEF OnTransactionEnded, Handle, TypeOK
<1>5. CASE OnNotification
    BY <1>5, HandleType DEF OnNotification, Handle, TypeOK
<1>. QED
    BY <1>1, <1>3, <1>4, <1>5 DEF CsmsStep

\* The simulator keeps the types.
LEMMA SimulatorType ==
    TypeOK /\ (AutoStop \/ \E e \in Evs : TargetReached(e)) => TypeOK'
<1> SUFFICES ASSUME TypeOK, AutoStop \/ \E e \in Evs : TargetReached(e) PROVE TypeOK'
    OBVIOUS
<1>1. CASE AutoStop
    <2>1. downlink' \in Seq(Command)
        BY <1>1, RequestType DEF AutoStop, TypeOK
    <2>2. simulator' \in [state : {"ticking", "saving", "waiting", "dead"},
                          ev : Evs \cup {None}]
        BY <1>1 DEF AutoStop, TypeOK
    <2>. QED
        BY <1>1, <2>1, <2>2 DEF AutoStop, TypeOK
<1>2. ASSUME NEW e \in Evs, TargetReached(e) PROVE TypeOK'
    <2>1. evs' \in [Evs -> Ev]
        <3> DEFINE full == Filled(evs[e])
        <3>1. full \in Ev
            BY DEF TypeOK, Ev, Filled
        <3>2. evs' = [evs EXCEPT ![e] = full]
            BY <1>2 DEF TargetReached
        <3> HIDE DEF full
        <3>. QED
            BY <3>1, <3>2 DEF TypeOK
    <2>2. simulator' \in [state : {"ticking", "saving", "waiting", "dead"},
                          ev : Evs \cup {None}]
        BY <1>2 DEF TargetReached
    <2>. QED
        BY <1>2, <2>1, <2>2 DEF TargetReached, TypeOK
<1>. QED
    BY <1>1, <1>2

\* Every variable keeps its type: for any number of connectors, EVs and
\* coroutines, whatever users and the network do.
THEOREM TypeCorrect == Spec => []TypeOK
<1>1. TypeOK /\ [Next]_vars => TypeOK'
    <2>1. TypeOK /\ UNCHANGED vars => TypeOK'
        BY DEF TypeOK
    <2>. QED
        BY <2>1, UserStepType, ReceiveRequestType, ResumeType, CsmsStepType,
           SimulatorType DEF Next
<1>. QED
    BY <1>1, InitType, PTL DEF Spec

-----------------------------------------------------------------------------
(* The plug: two objects that agree                                         *)

PlugInv == TypeOK /\ PlugAgreement /\ ChargingIsPlugged

\* What a step can do to the plug and to the EVs: the five ways below, each of
\* which leaves the rest of both alone.
EvStopped == \E e \in Evs :
    /\ evs' = [evs EXCEPT ![e] = Stopped(evs[e])]
    /\ UNCHANGED pluggedEvs
EvStarted == \E c \in Connectors :
    /\ pluggedEvs[c] # None
    /\ ~evs[pluggedEvs[c]].atTarget
    /\ evs' = [evs EXCEPT ![pluggedEvs[c]] = StartedFor(evs[pluggedEvs[c]], NewTransaction)]
    /\ UNCHANGED pluggedEvs

LEMMA BeginStopPlug ==
    ASSUME TypeOK, NEW t, NEW kind, BeginStop(t, kind)
    PROVE  EvStopped \/ UNCHANGED <<pluggedEvs, evs>>
<1> DEFINE e == pluggedEvs[charger.activeConnector]
<1>1. e \in Evs \cup {None} /\ UNCHANGED pluggedEvs
    BY DEF TypeOK, Charger, BeginStop
<1>2. IF e = None THEN evs' = evs ELSE evs' = [evs EXCEPT ![e] = Stopped(evs[e])]
    BY DEF BeginStop, CancelMeter
<1> HIDE DEF e
<1>. QED
    BY <1>1, <1>2 DEF EvStopped

LEMMA PlugSteps ==
    ASSUME TypeOK, [Next]_vars
    PROVE  \/ UNCHANGED <<pluggedEvs, evs>>
           \/ \E e \in Evs, c \in Connectors : Plug(e, c)
           \/ \E e \in Evs : Unplug(e)
           \/ EvStarted
           \/ EvStopped
           \/ \E e \in Evs : TargetReached(e)
<1>1. CASE UNCHANGED vars
    BY <1>1
<1>2. CASE UserStep
    <2>1. ASSUME NEW t \in Tasks, PowerLoss(t) PROVE EvStopped \/ UNCHANGED <<pluggedEvs, evs>>
        BY <2>1, BeginStopPlug DEF PowerLoss
    <2>2. ASSUME NEW t \in Tasks, Connect(t) \/ ConnectorError(t)
          PROVE  UNCHANGED <<pluggedEvs, evs>>
        BY <2>2 DEF Connect, ConnectorError
    <2>3. Disconnect \/ StopSession \/ RequestReset => UNCHANGED <<pluggedEvs, evs>>
        BY DEF Disconnect, StopSession, RequestReset
    <2>4. ASSUME NEW e \in Evs, StartEvCharging(e) \/ StopEvCharging(e)
          PROVE  UNCHANGED <<pluggedEvs, evs>>
        BY <2>4 DEF StartEvCharging, StopEvCharging
    <2>5. ASSUME NEW c \in Connectors, StartSession(c) PROVE UNCHANGED <<pluggedEvs, evs>>
        BY <2>5 DEF StartSession
    <2>. QED
        BY <1>2, <2>1, <2>2, <2>3, <2>4, <2>5 DEF UserStep
<1>3. CASE ReceiveRequest
    <2>1. ASSUME NEW t \in Tasks, OnRequestStartTransaction(t)
          PROVE  EvStarted \/ UNCHANGED <<pluggedEvs, evs>>
        <3> DEFINE c == Head(downlink).connector
        <3>1. c \in Connectors
            BY <2>1, ReceiveType DEF OnRequestStartTransaction, BeginStart, Chargeable, Receive, Command
        <3>. QED
            BY <2>1, <3>1 DEF OnRequestStartTransaction, BeginStart, Chargeable, EvStarted
    <2>2. ASSUME NEW t \in Tasks, OnRequestStopTransaction(t) \/ OnReset(t)
          PROVE  EvStopped \/ UNCHANGED <<pluggedEvs, evs>>
        BY <2>2, BeginStopPlug DEF OnRequestStopTransaction, OnReset
    <2>. QED
        BY <1>3, <2>1, <2>2 DEF ReceiveRequest
<1>4. ASSUME NEW t \in Tasks, SendCall(t) \/ Resume(t) PROVE UNCHANGED <<pluggedEvs, evs>>
    BY <1>4 DEF SendCall, Resume, CallFails, SavingDone, MeterWakes, StartStatusReturns,
       StartedReturns, UpdatedReturns, EndedReturns, StopStatusReturns, BootReturns,
       NotifyReturns
<1>5. CASE CsmsStep
    BY <1>5 DEF CsmsStep, OnTransactionStarted, OnTransactionUpdated, OnTransactionEnded,
       OnNotification, Handle
<1>6. CASE AutoStop
    BY <1>6 DEF AutoStop
<1>. QED
    BY <1>1, <1>2, <1>3, <1>4, <1>5, <1>6 DEF Next

\* Changes of one EV that keep its connector keep the agreement.
LEMMA SameConnectors ==
    ASSUME PlugAgreement, UNCHANGED pluggedEvs,
           \A e \in Evs : evs'[e].connector = evs[e].connector
    PROVE  PlugAgreement'
BY DEF PlugAgreement

LEMMA StartedForFields ==
    ASSUME NEW ev \in Ev, NEW x \in Nat
    PROVE  /\ StartedFor(ev, x).connector = ev.connector
           /\ StartedFor(ev, x).status = "charging"
           /\ StartedFor(ev, x).session = x
           /\ StartedFor(ev, x).atTarget = ev.atTarget
BY DEF StartedFor, Ev

LEMMA PlugInvStep == PlugInv /\ [Next]_vars => PlugInv'
<1> SUFFICES ASSUME PlugInv, [Next]_vars PROVE PlugInv'
    OBVIOUS
<1>1. TypeOK /\ TypeOK' /\ PlugAgreement /\ ChargingIsPlugged
    BY UserStepType, ReceiveRequestType, ResumeType, CsmsStepType, SimulatorType
    DEF PlugInv, Next, TypeOK
<1>2. SUFFICES PlugAgreement' /\ ChargingIsPlugged'
    BY <1>1 DEF PlugInv
<1>3. CASE UNCHANGED <<pluggedEvs, evs>>
    BY <1>1, <1>3 DEF PlugAgreement, ChargingIsPlugged
<1>4. ASSUME NEW e \in Evs, NEW c \in Connectors, Plug(e, c)
      PROVE  PlugAgreement' /\ ChargingIsPlugged'
    <2>1. /\ evs'[e].connector = c /\ evs'[e].status = "plugged"
          /\ \A o \in Evs \ {e} : evs'[o] = evs[o]
          /\ pluggedEvs'[c] = e
          /\ \A d \in Connectors \ {c} : pluggedEvs'[d] = pluggedEvs[d]
        BY <1>1, <1>4 DEF Plug, TypeOK, Ev
    <2>2. /\ evs[e].connector = 0
          /\ \A o \in Evs : evs[o].connector # c
          /\ c # 0
        BY <1>4, ConnectorCountAssumption DEF Plug, ConnectorFree, NoConnector, Connectors
    <2>3. PlugAgreement'
        BY <1>1, <2>1, <2>2, ConnectorCountAssumption DEF PlugAgreement, Connectors
    <2>4. ChargingIsPlugged'
        BY <1>1, <2>1, <2>2 DEF ChargingIsPlugged, NoConnector
    <2>. QED
        BY <2>3, <2>4
<1>5. ASSUME NEW e \in Evs, Unplug(e) PROVE PlugAgreement' /\ ChargingIsPlugged'
    <2> DEFINE c == evs[e].connector
    <2>1. /\ evs'[e].connector = 0 /\ evs'[e].status = "idle"
          /\ \A o \in Evs \ {e} : evs'[o] = evs[o]
          /\ c \in Connectors
          /\ pluggedEvs'[c] = None
          /\ \A d \in Connectors \ {c} : pluggedEvs'[d] = pluggedEvs[d]
        <3>1. c \in 0 .. ConnectorCount /\ c # 0
            BY <1>1, <1>5 DEF Unplug, TypeOK, Ev, NoConnector
        <3>2. c \in Connectors
            BY <3>1, ConnectorCountAssumption DEF Connectors
        <3>3. evs' = [evs EXCEPT ![e] = Unplugged(evs[e])]
            BY <1>5 DEF Unplug
        <3>4. evs'[e] = Unplugged(evs[e]) /\ \A o \in Evs \ {e} : evs'[o] = evs[o]
            BY <1>1, <3>3 DEF TypeOK
        <3>5. pluggedEvs' = [pluggedEvs EXCEPT ![c] = None]
            BY <1>5 DEF Unplug
        <3> HIDE DEF c
        <3>. QED
            BY <1>1, <3>2, <3>4, <3>5 DEF Unplugged, NoConnector, TypeOK
    <2>2. pluggedEvs[c] = e
        BY <1>1, <2>1 DEF PlugAgreement
    <2>3. PlugAgreement'
        <3>1. ASSUME NEW o \in Evs, NEW d \in Connectors
              PROVE  evs'[o].connector = d <=> pluggedEvs'[d] = o
            <4>1. d # 0
                BY ConnectorCountAssumption DEF Connectors
            <4>2. CASE o = e
                BY <1>1, <2>1, <4>1, <4>2, NoneAssumption DEF PlugAgreement
            <4>3. CASE o # e
                BY <1>1, <2>1, <2>2, <4>3, NoneAssumption DEF PlugAgreement
            <4>. QED
                BY <4>2, <4>3
        <3>. QED
            BY <3>1 DEF PlugAgreement
    <2>4. ChargingIsPlugged'
        BY <1>1, <2>1 DEF ChargingIsPlugged, NoConnector
    <2>. QED
        BY <2>3, <2>4
<1>6. CASE EvStarted
    <2>1. PICK c \in Connectors :
              /\ pluggedEvs[c] # None
              /\ ~evs[pluggedEvs[c]].atTarget
              /\ evs' = [evs EXCEPT ![pluggedEvs[c]] =
                            StartedFor(evs[pluggedEvs[c]], NewTransaction)]
              /\ UNCHANGED pluggedEvs
        BY <1>6 DEF EvStarted
    <2>2. PICK e \in Evs : e = pluggedEvs[c]
        BY <1>1, <2>1 DEF TypeOK
    <2>3. evs[e].connector = c /\ c # 0 /\ evs[e] \in Ev
        BY <1>1, <2>2, ConnectorCountAssumption DEF PlugAgreement, Connectors, TypeOK
    <2>4. NewTransaction \in Nat \ {0}
        BY <1>1 DEF NewTransaction, TypeOK
    <2>5. evs'[e] = StartedFor(evs[e], NewTransaction)
          /\ \A o \in Evs \ {e} : evs'[o] = evs[o]
        BY <1>1, <2>1, <2>2 DEF TypeOK
    <2>6. /\ evs'[e].connector = c /\ evs'[e].status = "charging"
          /\ evs'[e].session # 0 /\ ~evs'[e].atTarget
        <3>1. ~evs[e].atTarget
            BY <2>1, <2>2
        <3>. QED
            BY <2>3, <2>4, <2>5, <3>1, StartedForFields
    <2>7. UNCHANGED pluggedEvs /\ \A o \in Evs : evs'[o].connector = evs[o].connector
        BY <2>1, <2>3, <2>5, <2>6
    <2>8. PlugAgreement'
        BY <1>1, <2>7, SameConnectors
    <2>9. ChargingIsPlugged'
        BY <1>1, <2>3, <2>5, <2>6 DEF ChargingIsPlugged, NoConnector, NoTransaction
    <2>. QED
        BY <2>8, <2>9
<1>7. CASE EvStopped
    <2>1. PICK e \in Evs : /\ evs' = [evs EXCEPT ![e] = Stopped(evs[e])]
                           /\ UNCHANGED pluggedEvs
        BY <1>7 DEF EvStopped
    <2>2. evs[e] \in Ev
        BY <1>1 DEF TypeOK
    <2>3. evs'[e] = Stopped(evs[e]) /\ \A o \in Evs \ {e} : evs'[o] = evs[o]
        BY <1>1, <2>1 DEF TypeOK
    <2>4. /\ evs'[e].connector = evs[e].connector
          /\ evs'[e].status = IF evs[e].connector # NoConnector THEN "plugged" ELSE "idle"
        BY <2>2, <2>3 DEF Stopped, Ev
    <2>5. UNCHANGED pluggedEvs /\ \A o \in Evs : evs'[o].connector = evs[o].connector
        BY <2>1, <2>3, <2>4
    <2>6. PlugAgreement'
        BY <1>1, <2>5, SameConnectors
    <2>7. ASSUME NEW o \in Evs
          PROVE  /\ evs'[o].status = "idle" <=> evs'[o].connector = NoConnector
                 /\ evs'[o].status = "charging" =>
                        evs'[o].session # NoTransaction /\ ~evs'[o].atTarget
        <3>1. CASE o = e
            BY <2>4, <3>1
        <3>2. CASE o # e
            BY <1>1, <2>3, <3>2 DEF ChargingIsPlugged
        <3>. QED
            BY <3>1, <3>2
    <2>8. ChargingIsPlugged'
        BY <2>7 DEF ChargingIsPlugged
    <2>. QED
        BY <2>6, <2>8
<1>8. ASSUME NEW e \in Evs, TargetReached(e) PROVE PlugAgreement' /\ ChargingIsPlugged'
    <2>1. evs[e] \in Ev /\ evs[e].status = "charging" /\ UNCHANGED pluggedEvs
        BY <1>1, <1>8 DEF TargetReached, TypeOK
    <2>2. evs' = [evs EXCEPT ![e] = Filled(evs[e])]
        BY <1>8 DEF TargetReached
    <2>3. /\ evs'[e] = Filled(evs[e])
          /\ \A o \in Evs \ {e} : evs'[o] = evs[o]
        BY <1>1, <2>2 DEF TypeOK
    <2>4. evs'[e].connector = evs[e].connector /\ evs'[e].status = "full"
        BY <2>1, <2>3 DEF Ev, Filled
    <2>5. \A o \in Evs : evs'[o].connector = evs[o].connector
        BY <2>3, <2>4
    <2>6. PlugAgreement'
        BY <1>1, <2>1, <2>5, SameConnectors
    <2>7. ASSUME NEW o \in Evs
          PROVE  /\ evs'[o].status = "idle" <=> evs'[o].connector = NoConnector
                 /\ evs'[o].status = "charging" =>
                        evs'[o].session # NoTransaction /\ ~evs'[o].atTarget
        <3>1. CASE o = e
            BY <1>1, <2>1, <2>4, <3>1 DEF ChargingIsPlugged
        <3>2. CASE o # e
            BY <1>1, <2>3, <3>2 DEF ChargingIsPlugged
        <3>. QED
            BY <3>1, <3>2
    <2>8. ChargingIsPlugged'
        BY <2>7 DEF ChargingIsPlugged
    <2>. QED
        BY <2>6, <2>8
<1>. QED
    BY <1>1, <1>3, <1>4, <1>5, <1>6, <1>7, <1>8, PlugSteps

LEMMA PlugInvInit == Init => PlugInv
<1> SUFFICES ASSUME Init PROVE PlugInv
    OBVIOUS
<1>1. \A e \in Evs : evs[e].connector = 0 /\ evs[e].status = "idle"
    BY DEF Init, NoConnector
<1>2. \A c \in Connectors : pluggedEvs[c] = None /\ c # 0
    BY ConnectorCountAssumption DEF Init, Connectors
<1>3. PlugAgreement
    BY <1>1, <1>2, NoneAssumption DEF PlugAgreement
<1>4. ChargingIsPlugged
    BY <1>1 DEF ChargingIsPlugged, NoConnector
<1>. QED
    BY <1>3, <1>4, InitType DEF PlugInv

\* EvPool and the charger never disagree on what is plugged where.
THEOREM PlugsAgree == Spec => []PlugAgreement
<1>1. PlugInv => PlugAgreement
    BY DEF PlugInv
<1>. QED
    BY <1>1, PlugInvInit, PlugInvStep, PTL DEF Spec

\* An EV is idle exactly when unplugged; one that charges is plugged, below its
\* target, and knows its transaction.
THEOREM ChargingPlugged == Spec => []ChargingIsPlugged
<1>1. PlugInv => ChargingIsPlugged
    BY DEF PlugInv
<1>. QED
    BY <1>1, PlugInvInit, PlugInvStep, PTL DEF Spec

-----------------------------------------------------------------------------
(* No plug displaces another                                               *)

LEMMA PlugKeeps ==
    ASSUME PlugInv, [Next]_vars,
           NEW d \in Connectors, pluggedEvs[d] # None
    PROVE  pluggedEvs'[d] \in {pluggedEvs[d], None}
<1>1. TypeOK /\ PlugAgreement
    BY DEF PlugInv
<1>2. ASSUME NEW e \in Evs, NEW c \in Connectors, Plug(e, c)
      PROVE  pluggedEvs'[d] = pluggedEvs[d]
    <2>1. PICK o \in Evs : pluggedEvs[d] = o
        BY <1>1 DEF TypeOK
    <2>2. evs[o].connector = d
        BY <1>1, <2>1 DEF PlugAgreement
    <2>3. d # c
        BY <1>2, <2>2 DEF Plug, ConnectorFree
    <2>. QED
        BY <1>1, <1>2, <2>3 DEF Plug, TypeOK
<1>3. ASSUME NEW e \in Evs, Unplug(e)
      PROVE  pluggedEvs'[d] \in {pluggedEvs[d], None}
    BY <1>1, <1>3 DEF Unplug, TypeOK
<1>4. EvStarted \/ EvStopped => UNCHANGED pluggedEvs
    BY DEF EvStarted, EvStopped
<1>5. ASSUME NEW e \in Evs, TargetReached(e) PROVE UNCHANGED pluggedEvs
    BY <1>5 DEF TargetReached, deviceVars, plugVars
<1>. QED
    BY <1>1, <1>2, <1>3, <1>4, <1>5, PlugSteps

\* No EV is ever plugged over another one, however the commands interleave.
THEOREM PlugsNeverDisplaced == Spec => PlugNeverDisplaces
<1>1. PlugInv /\ [Next]_vars =>
          [\A c \in Connectors : pluggedEvs[c] # None =>
              pluggedEvs'[c] \in {pluggedEvs[c], None}]_vars
    BY PlugKeeps
<1>. QED
    BY <1>1, PlugInvInit, PlugInvStep, PTL DEF Spec, PlugNeverDisplaces

-----------------------------------------------------------------------------
(* The call lock                                                           *)

LEMMA LockFree ==
    ASSUME caller' = None, reply' = "none"
    PROVE  LockDiscipline'
BY DEF LockDiscipline

\* A step that leaves the caller's coroutine and the messages alone.
LEMMA LockKept ==
    ASSUME LockDiscipline, UNCHANGED <<caller, reply, uplink>>,
           caller # None => tasks'[caller] = tasks[caller]
    PROVE  LockDiscipline'
<1>1. CASE caller = None
    BY <1>1, LockFree DEF LockDiscipline
<1>2. CASE caller # None
    BY <1>2 DEF LockDiscipline
<1>. QED
    BY <1>1, <1>2

LEMMA CallerIsBusy ==
    ASSUME TypeOK, LockDiscipline, caller # None
    PROVE  caller \in Tasks /\ caller \notin FreeTasks
<1>1. tasks[caller].pc \in Calls /\ caller \in Tasks
    BY DEF TypeOK, LockDiscipline
<1>2. tasks[caller] \in Task
    BY <1>1 DEF TypeOK
<1>3. tasks[caller].kind # "none"
    BY <1>1, <1>2 DEF Task, Free, Coroutine, StartTask, OtherTask, Calls
<1>. QED
    BY <1>1, <1>3 DEF FreeTasks

\* A coroutine that goes on, or ends, has left the call it was in.
LEMMA ProceedLock ==
    ASSUME TypeOK, LockDiscipline, NEW t \in Tasks, NEW task, Proceed(t, task),
           UNCHANGED uplink
    PROVE  LockDiscipline'
<1>1. CASE caller = t
    BY <1>1, LockFree DEF Proceed, Release
<1>2. CASE caller # t
    <2>1. UNCHANGED <<caller, reply>>
        BY <1>2 DEF Proceed, Release
    <2>2. caller # None => tasks'[caller] = tasks[caller]
        BY <1>2 DEF Proceed, TypeOK
    <2>. QED
        BY <2>1, <2>2, LockKept
<1>. QED
    BY <1>1, <1>2

\* A coroutine is created in a free slot.
LEMMA SpawnLock ==
    ASSUME TypeOK, LockDiscipline, NEW t \in FreeTasks, NEW task,
           tasks' = [tasks EXCEPT ![t] = task], UNCHANGED <<caller, reply, uplink>>
    PROVE  LockDiscipline'
<1>1. caller # None => caller \in Tasks /\ caller # t
    BY CallerIsBusy
<1>2. caller # None => tasks'[caller] = tasks[caller]
    BY <1>1 DEF TypeOK
<1>. QED
    BY <1>2, LockKept

\* A stop is created in a free slot and takes the meter task down.
LEMMA BeginStopLock ==
    ASSUME TypeOK, LockDiscipline, NEW t \in FreeTasks, NEW kind, BeginStop(t, kind),
           UNCHANGED uplink
    PROVE  LockDiscipline'
<1> DEFINE m == charger.meterTask
<1>1. CASE caller = m
    BY <1>1, LockFree DEF BeginStop, CancelMeter, Release, LockDiscipline
<1>2. CASE caller # m
    <2>1. UNCHANGED <<caller, reply>>
        BY <1>2 DEF BeginStop, CancelMeter, Release
    <2>2. caller # None => caller \in Tasks /\ caller # t
        BY CallerIsBusy
    <2>3. caller # None => tasks'[caller] = tasks[caller]
        BY <1>2, <2>2 DEF BeginStop, CancelMeter
    <2>. QED
        BY <2>1, <2>3, LockKept
<1>. QED
    BY <1>1, <1>2

LEMMA DisconnectLock ==
    ASSUME TypeOK, LockDiscipline, Disconnect
    PROVE  LockDiscipline'
<1> DEFINE m == charger.meterTask
<1>1. CASE caller = m
    <2>1. caller' = None /\ reply' = "none"
        BY <1>1 DEF Disconnect
    <2>. QED
        BY <2>1, LockFree
<1>2. CASE caller # m
    <2>1. /\ caller' = caller
          /\ reply' = IF reply = "awaited" THEN "lost" ELSE reply
        BY <1>2 DEF Disconnect
    <2>2. caller # None => caller \in Tasks /\ tasks'[caller] = tasks[caller]
        BY <1>2, CallerIsBusy DEF Disconnect, TypeOK
    <2>. QED
        BY <2>1, <2>2 DEF LockDiscipline
<1>. QED
    BY <1>1, <1>2

\* What a call sends is the last message of the queue, and awaited.
LEMMA SendCallLock ==
    ASSUME TypeOK, LockDiscipline, NEW t \in Tasks, SendCall(t)
    PROVE  LockDiscipline'
<1> DEFINE m == [call |-> tasks[t].pc, connector |-> tasks[t].connector, tx |-> tasks[t].tx]
<1>1. /\ caller' = t /\ reply' = "awaited" /\ tasks' = tasks
      /\ tasks[t].pc \in Calls
      /\ uplink' = Append(uplink, m)
    BY DEF SendCall
<1>2. t # None
    BY NoneAssumption
<1>3. m.call = tasks[t].pc /\ m.tx = tasks[t].tx
    OBVIOUS
<1>4. uplink \in Seq(Message)
    BY DEF TypeOK
<1> HIDE DEF m
<1>5. uplink' # <<>> /\ uplink'[Len(uplink')] = m
    BY <1>1, <1>4
<1>. QED
    BY <1>1, <1>2, <1>3, <1>5 DEF LockDiscipline

\* The CSMS handles messages in order: while the last one is in the queue its
\* sender still waits for the answer.
LEMMA HandleLock ==
    ASSUME TypeOK, LockDiscipline, NEW calls, Handle(calls)
    PROVE  LockDiscipline'
<1>1. /\ caller' = caller /\ tasks' = tasks
      /\ uplink # <<>> /\ uplink' = Tail(uplink) /\ uplink \in Seq(Message)
      /\ reply' = IF Len(uplink) = 1 /\ reply = "awaited"
                  THEN IF handler = None THEN "arrived" ELSE "lost"
                  ELSE reply
    BY DEF Handle, TypeOK, loopVars
<1>2. CASE Len(uplink) = 1 /\ reply = "awaited"
    <2>1. reply' \in {"arrived", "lost"}
        BY <1>1, <1>2
    <2>. QED
        BY <1>1, <1>2, <2>1 DEF LockDiscipline
<1>3. CASE ~(Len(uplink) = 1 /\ reply = "awaited")
    <2>1. reply' = reply
        BY <1>1, <1>3
    <2>2. ASSUME reply = "awaited"
          PROVE  uplink' # <<>> /\ uplink'[Len(uplink')] = uplink[Len(uplink)]
        <3>1. Len(uplink) \in Nat \ {0} /\ Len(uplink) # 1
            BY <1>1, <1>3, <2>2, EmptySeq
        <3>2. /\ uplink' \in Seq(Message) /\ Len(uplink') = Len(uplink) - 1
              /\ \A i \in 1 .. Len(uplink') : uplink'[i] = uplink[i + 1]
            BY <1>1, HeadTailProperties
        <3>3. Len(uplink') \in 1 .. Len(uplink') /\ Len(uplink') + 1 = Len(uplink)
            BY <3>1, <3>2
        <3>. QED
            BY <3>2, <3>3, EmptySeq
    <2>. QED
        BY <1>1, <2>1, <2>2 DEF LockDiscipline
<1>. QED
    BY <1>2, <1>3

LockInv == TypeOK /\ LockDiscipline

LEMMA LockUserStep ==
    ASSUME TypeOK, LockDiscipline, UserStep
    PROVE  LockDiscipline'
<1>1. ASSUME NEW t \in Tasks, Connect(t) PROVE LockDiscipline'
    BY <1>1, ProceedLock DEF Connect
<1>2. ASSUME NEW t \in Tasks, ConnectorError(t) PROVE LockDiscipline'
    BY <1>2, SpawnLock DEF ConnectorError, Notify
<1>3. ASSUME NEW t \in Tasks, PowerLoss(t) PROVE LockDiscipline'
    <2>1. t \in FreeTasks /\ UNCHANGED uplink
        BY <1>3 DEF PowerLoss
    <2>2. CASE charger.transactionId # NoTransaction
        BY <1>3, <2>1, <2>2, BeginStopLock DEF PowerLoss
    <2>3. CASE charger.transactionId = NoTransaction
        BY <1>3, <2>1, <2>3, SpawnLock DEF PowerLoss, Notify
    <2>. QED
        BY <2>2, <2>3
<1>4. CASE Disconnect
    BY <1>4, DisconnectLock
<1>5. CASE StopSession \/ RequestReset
    BY <1>5, LockKept DEF StopSession, RequestReset
<1>6. ASSUME NEW e \in Evs, Unplug(e) \/ StartEvCharging(e) \/ StopEvCharging(e)
      PROVE  LockDiscipline'
    BY <1>6, LockKept DEF Unplug, StartEvCharging, StopEvCharging
<1>7. ASSUME NEW c \in Connectors,
             StartSession(c) \/ \E e \in Evs : Plug(e, c)
      PROVE  LockDiscipline'
    BY <1>7, LockKept DEF StartSession, Plug
<1>. QED
    BY <1>1, <1>2, <1>3, <1>4, <1>5, <1>6, <1>7 DEF UserStep

LEMMA LockReceive ==
    ASSUME TypeOK, LockDiscipline, ReceiveRequest
    PROVE  LockDiscipline'
<1>1. ASSUME NEW t \in Tasks, OnRequestStartTransaction(t) PROVE LockDiscipline'
    <2>1. /\ t \in FreeTasks /\ UNCHANGED <<caller, reply, uplink>>
          /\ \/ tasks' = tasks
             \/ \E task : tasks' = [tasks EXCEPT ![t] = task]
        BY <1>1 DEF OnRequestStartTransaction, BeginStart, Chargeable
    <2>. QED
        BY <2>1, LockKept, SpawnLock
<1>2. ASSUME NEW t \in Tasks, OnRequestStopTransaction(t) PROVE LockDiscipline'
    BY <1>2, LockKept, BeginStopLock DEF OnRequestStopTransaction
<1>3. ASSUME NEW t \in Tasks, OnReset(t) PROVE LockDiscipline'
    BY <1>3, SpawnLock, BeginStopLock DEF OnReset
<1>. QED
    BY <1>1, <1>2, <1>3 DEF ReceiveRequest

LEMMA LockResume ==
    ASSUME TypeOK, LockDiscipline, NEW t \in Tasks, Resume(t)
    PROVE  LockDiscipline'
<1>1. UNCHANGED uplink
    BY DEF Resume, CallFails, SavingDone, MeterWakes, StartStatusReturns, StartedReturns,
       UpdatedReturns, EndedReturns, StopStatusReturns, BootReturns, NotifyReturns, netVars
<1>2. \E task : Proceed(t, task)
    <2>1. ASSUME NEW call, CallWithTransaction(t, call) PROVE \E task : Proceed(t, task)
        BY <2>1 DEF CallWithTransaction, Raise
    <2>2. CASE CallFails(t)
        BY <2>2 DEF CallFails, Raise
    <2>3. CASE SavingDone(t)
        BY <2>1, <2>3 DEF SavingDone
    <2>4. CASE MeterWakes(t) \/ StartStatusReturns(t)
        BY <2>1, <2>4 DEF MeterWakes, StartStatusReturns
    <2>5. CASE StartedReturns(t) \/ UpdatedReturns(t)
        BY <2>5 DEF StartedReturns, UpdatedReturns, MeterLoop
    <2>6. CASE EndedReturns(t) \/ StopStatusReturns(t) \/ NotifyReturns(t)
        BY <2>6 DEF EndedReturns, StopStatusReturns, NotifyReturns
    <2>7. CASE BootReturns(t)
        BY <2>7 DEF BootReturns
    <2>. QED
        BY <2>2, <2>3, <2>4, <2>5, <2>6, <2>7 DEF Resume
<1>. QED
    BY <1>1, <1>2, ProceedLock

LEMMA LockInvStep == LockInv /\ [Next]_vars => LockInv'
<1> SUFFICES ASSUME LockInv, [Next]_vars PROVE LockInv'
    OBVIOUS
<1>1. TypeOK /\ LockDiscipline /\ TypeOK'
    BY UserStepType, ReceiveRequestType, ResumeType, CsmsStepType, SimulatorType
    DEF LockInv, Next, TypeOK
<1>2. CASE UNCHANGED vars
    BY <1>1, <1>2, LockKept DEF LockInv
<1>3. CASE UserStep
    BY <1>1, <1>3, LockUserStep DEF LockInv
<1>4. CASE ReceiveRequest
    BY <1>1, <1>4, LockReceive DEF LockInv
<1>5. ASSUME NEW t \in Tasks, SendCall(t) \/ Resume(t) PROVE LockInv'
    BY <1>1, <1>5, SendCallLock, LockResume DEF LockInv
<1>6. CASE CsmsStep
    BY <1>1, <1>6, HandleLock
    DEF LockInv, CsmsStep, OnTransactionStarted, OnTransactionUpdated, OnTransactionEnded,
        OnNotification
<1>7. CASE AutoStop \/ \E e \in Evs : TargetReached(e)
    BY <1>1, <1>7, LockKept DEF LockInv, AutoStop, TargetReached
<1>. QED
    BY <1>2, <1>3, <1>4, <1>5, <1>6, <1>7 DEF Next

\* Whatever is disconnected, cancelled, reset or stopped meanwhile: the call
\* lock is held by a coroutine inside a call, and the reply it awaits is to the
\* message sent last.
THEOREM LockIsDisciplined == Spec => []LockDiscipline
<1>1. Init => LockInv
    BY InitType DEF LockInv, LockDiscipline, Init
<1>2. LockInv => LockDiscipline
    BY DEF LockInv
<1>. QED
    BY <1>1, <1>2, LockInvStep, PTL DEF Spec
=============================================================================
