------------------------- MODULE SessionStoreProofs -------------------------
(***************************************************************************)
(* For every number of transactions, meter values, lost websockets and     *)
(* restarts: the types of module SessionStore, and what the database       *)
(* promises: rows only grow, what was answered as stored is stored, and    *)
(* nothing comes back of a charger that has been deleted; and, as long as  *)
(* no handler has outlived its websocket, that the dictionary holds what   *)
(* the tables hold and the tables what the charger has done.               *)
(***************************************************************************)
EXTENDS SessionStore, FiniteSetTheorems, TLAPS

-----------------------------------------------------------------------------
(* The order in which sessions are loaded                                  *)

\* Of two members of a set of numbers the later one has fewer after it.
LEMMA LaterHasFewer ==
    ASSUME NEW S \in SUBSET Nat, IsFiniteSet(S), NEW x \in S, NEW y \in S, x < y
    PROVE  /\ Cardinality({z \in S : z > y}) \in Nat /\ Cardinality({z \in S : z > x}) \in Nat
           /\ Cardinality({z \in S : z > y}) < Cardinality({z \in S : z > x})
<1> DEFINE Later(a) == {z \in S : z > a}
<1>1. IsFiniteSet(Later(x)) /\ Cardinality(Later(x)) \in Nat
  BY FS_Subset, FS_CardinalityType
<1>2. Later(y) \in SUBSET Later(x)
  <2>1. \A z \in S : z > y => z > x
    OBVIOUS
  <2>2. QED
    BY <2>1
<1>3. /\ IsFiniteSet(Later(y)) /\ Cardinality(Later(y)) \in Nat
      /\ Cardinality(Later(y)) <= Cardinality(Later(x))
      /\ Cardinality(Later(x)) = Cardinality(Later(y)) => Later(x) = Later(y)
  <2> HIDE DEF Later
  <2>1. QED
    BY <1>1, <1>2, FS_Subset, FS_CardinalityType
<1>4. Later(x) # Later(y)
  <2>1. y \in Later(x) /\ y \notin Later(y)
    OBVIOUS
  <2>2. QED
    BY <2>1
<1>5. QED
  BY <1>1, <1>3, <1>4

\* Every place in the order is taken by a member of the set.
LEMMA PlaceTaken ==
    ASSUME NEW S \in SUBSET Nat, IsFiniteSet(S), NEW i \in 1 .. Cardinality(S)
    PROVE  \E x \in S : Cardinality({z \in S : z > x}) = i - 1
<1> DEFINE Later(x) == {z \in S : z > x}
           place == [x \in S |-> Cardinality(Later(x)) + 1]
<1>1. Cardinality(S) \in Nat
  BY FS_CardinalityType
<1>2. ASSUME NEW x \in S
      PROVE  Cardinality(Later(x)) \in Nat /\ Cardinality(Later(x)) + 1 <= Cardinality(S)
  <2>1. IsFiniteSet(S \ {x}) /\ Cardinality(S \ {x}) = Cardinality(S) - 1
    BY FS_RemoveElement
  <2>2. Later(x) \in SUBSET (S \ {x})
    OBVIOUS
  <2>3. IsFiniteSet(Later(x)) /\ Cardinality(Later(x)) <= Cardinality(S \ {x})
    <3> HIDE DEF Later
    <3>1. QED
      BY <2>1, <2>2, FS_Subset
  <2>4. Cardinality(Later(x)) \in Nat
    <3> HIDE DEF Later
    <3>1. QED
      BY <2>3, FS_CardinalityType
  <2>5. QED
    BY <2>1, <2>3, <2>4, <1>1
<1>3. place \in [S -> 1 .. Cardinality(S)]
  <2>1. ASSUME NEW x \in S PROVE Cardinality(Later(x)) + 1 \in 1 .. Cardinality(S)
    BY <1>1, <1>2
  <2>2. QED
    BY <2>1
<1>4. place \in Injection(S, 1 .. Cardinality(S))
  <2>1. ASSUME NEW x \in S, NEW y \in S, x < y PROVE place[x] # place[y]
    BY <2>1, LaterHasFewer
  <2>2. ASSUME NEW x \in S, NEW y \in S, x # y PROVE place[x] # place[y]
    <3>1. x < y \/ y < x
      BY <2>2
    <3>2. QED
      BY <3>1, <2>1
  <2>3. QED
    BY <1>3, <2>2 DEF Injection, IsInjective
<1>5. place \in Surjection(S, 1 .. Cardinality(S))
  <2>1. /\ IsFiniteSet(1 .. Cardinality(S))
        /\ Cardinality(1 .. Cardinality(S)) = Cardinality(S)
    BY <1>1, FS_Interval
  <2>2. QED
    BY <2>1, <1>4, FS_Injection
<1>6. PICK x \in S : place[x] = i
  BY <1>5 DEF Surjection
<1>7. QED
  BY <1>6, <1>2

\* A finite set of numbers has a least member.
LEMMA LeastMember ==
    ASSUME NEW S \in SUBSET Nat, IsFiniteSet(S), S # {}
    PROVE  \E x \in S : \A y \in S : x <= y
<1>1. Cardinality(S) \in Nat /\ Cardinality(S) # 0
  BY FS_CardinalityType, FS_EmptySet
<1>2. PICK x \in S : Cardinality({z \in S : z > x}) = Cardinality(S) - 1
  BY <1>1, PlaceTaken
<1> DEFINE Later == {z \in S : z > x}
           Others == S \ {x}
<1>3. IsFiniteSet(Others) /\ Cardinality(Others) = Cardinality(S) - 1
  BY FS_RemoveElement
<1>4. Later \in SUBSET Others
  OBVIOUS
<1>5. Later = Others
  <2>1. Cardinality(Others) = Cardinality(Later)
    BY <1>2, <1>3
  <2> HIDE DEF Later, Others
  <2>2. QED
    BY <2>1, <1>3, <1>4, FS_Subset
<1>6. ASSUME NEW y \in S PROVE x <= y
  BY <1>5
<1>7. QED
  BY <1>6

-----------------------------------------------------------------------------
(* Type correctness                                                        *)

\* The dictionary's part of TypeOK, of any list.
IsDictionary(list) ==
    /\ list \in Seq(Session)
    /\ \A i, j \in DOMAIN list : list[i].id = list[j].id => i = j

\* Assignment to a key leaves a dictionary.
LEMMA StoredType ==
    ASSUME NEW list, IsDictionary(list), NEW session \in Session
    PROVE  IsDictionary(Stored(list, session))
<1>1. list \in Seq(Session) /\ \A i \in DOMAIN list : list[i] \in Session
  BY DEF IsDictionary
<1>2. CASE session.id \in Ids(list)
  <2> DEFINE k == Position(list, session.id)
  <2>1. k \in DOMAIN list /\ list[k].id = session.id
    BY <1>2 DEF Position, Ids
  <2>2. Stored(list, session) = [list EXCEPT ![k] = session]
    BY <1>2 DEF Stored
  <2> HIDE DEF k
  <2>3. QED
    BY <1>1, <2>1, <2>2 DEF IsDictionary
<1>3. CASE session.id \notin Ids(list)
  <2>1. Stored(list, session) = Append(list, session)
    BY <1>3 DEF Stored
  <2>2. \A i \in DOMAIN list : list[i].id # session.id
    BY <1>3 DEF Ids
  <2>3. QED
    BY <1>1, <2>1, <2>2 DEF IsDictionary
<1>4. QED
  BY <1>2, <1>3

\* A dictionary keeps its ids when other columns of an entry are changed.
LEMMA ChangedType ==
    ASSUME NEW list, IsDictionary(list), NEW k \in DOMAIN list, NEW session \in Session,
           session.id = list[k].id
    PROVE  IsDictionary([list EXCEPT ![k] = session])
  BY DEF IsDictionary

\* get_active_session finds an active one.
LEMMA ActiveOne ==
    ASSUME TypeOK, HasActive
    PROVE  /\ GetActiveSession \in DOMAIN manager /\ manager[GetActiveSession] \in Session
           /\ Active(GetActiveSession)
<1> DEFINE S == {i \in DOMAIN manager : Active(i)}
<1>1. \E i \in DOMAIN manager : Active(i) /\ \A j \in DOMAIN manager : j < i => ~Active(j)
  <2>1. IsFiniteSet(DOMAIN manager) /\ DOMAIN manager \subseteq Nat
    <3>1. DOMAIN manager = 1 .. Len(manager) /\ Len(manager) \in Nat
      BY DEF TypeOK
    <3>2. QED
      BY <3>1, FS_Interval
  <2>2. S \in SUBSET DOMAIN manager /\ S # {} /\ S \in SUBSET Nat
    BY <2>1 DEF HasActive
  <2>3. IsFiniteSet(S)
    BY <2>1, <2>2, FS_Subset
  <2>4. PICK i \in S : \A j \in S : i <= j
    BY <2>2, <2>3, LeastMember
  <2>5. QED
    BY <2>1, <2>2, <2>4
<1>2. GetActiveSession \in DOMAIN manager /\ Active(GetActiveSession)
  BY <1>1 DEF GetActiveSession
<1>3. QED
  BY <1>2 DEF TypeOK

\* The tables as they are loaded are a dictionary.
LEMMA FromRowsType ==
    ASSUME TypeOK
    PROVE  IsDictionary(FromRows)
<1> DEFINE S == DOMAIN rows
<1>1. S \in SUBSET Nat /\ IsFiniteSet(S) /\ Cardinality(S) \in Nat
  <2>1. IsFiniteSet(Transactions) /\ Transactions \subseteq Nat
    BY BoundsAssumption, FS_Interval DEF Transactions
  <2>2. S \in SUBSET Transactions
    BY DEF TypeOK
  <2>3. QED
    BY <2>1, <2>2, FS_Subset, FS_CardinalityType
<1>2. ASSUME NEW i \in 1 .. Cardinality(S)
      PROVE  Newest(i) \in S /\ Cardinality({y \in S : y > Newest(i)}) = i - 1
  <2>1. \E x \in S : Cardinality({y \in S : y > x}) = i - 1
    BY <1>1, PlaceTaken
  <2>2. QED
    BY <2>1 DEF Newest
<1>3. ASSUME NEW i \in 1 .. Cardinality(S)
      PROVE  FromRows[i] \in Session /\ FromRows[i].id = Newest(i)
  BY <1>2 DEF FromRows, TypeOK
<1>4. FromRows \in Seq(Session) /\ DOMAIN FromRows = 1 .. Cardinality(S)
  BY <1>1, <1>3 DEF FromRows
<1>5. ASSUME NEW i \in 1 .. Cardinality(S), NEW j \in 1 .. Cardinality(S),
             Newest(i) = Newest(j)
      PROVE  i = j
  <2> DEFINE Later(x) == Cardinality({y \in S : y > x})
  <2>1. Later(Newest(i)) = i - 1 /\ Later(Newest(j)) = j - 1
    BY <1>2
  <2> HIDE DEF Later
  <2>2. i - 1 = j - 1
    BY <2>1, <1>5
  <2>3. QED
    BY <2>2
<1>6. QED
  BY <1>3, <1>4, <1>5 DEF IsDictionary

\* The rest of TypeOK, but for the dictionary.
RestOK ==
    /\ DOMAIN rows \subseteq Transactions
    /\ \A x \in DOMAIN rows : rows[x] \in Session /\ rows[x].id = x
    /\ handlers \in [Websockets -> Handler]
    /\ charger \in {"present", "deleted", "forgotten"}
    /\ phase \in {"idle", "starting", "metering", "unmetered", "ending"}
    /\ issued \in 0 .. MaxTransactions /\ metered \in 0 .. MaxValues
    /\ acked \subseteq Values
    /\ reconnects \in 0 .. MaxReconnects /\ crashes \in 0 .. MaxCrashes

\* The two halves of TypeOK.
LEMMA TypeHalves == TypeOK <=> IsDictionary(manager) /\ RestOK
  BY DEF TypeOK, RestOK, IsDictionary

\* The same of the state after a step.
LEMMA TypeHalvesNext == IsDictionary(manager') /\ RestOK' => TypeOK'
  BY DEF TypeOK, RestOK, IsDictionary

\* A session opens with the types of a session, an idle handler with those of one.
LEMMA NewTypes ==
    /\ \A x \in Transactions : NewSession(x) \in Session /\ NewSession(x).id = x
    /\ Idle \in Handler
<1>1. ASSUME NEW x \in Transactions PROVE NewSession(x) \in Session /\ NewSession(x).id = x
  BY DEF NewSession, Session
<1>2. Idle \in Handler
  <2>1. 1 \in Transactions
    BY BoundsAssumption DEF Transactions
  <2>2. NewSession(1) \in Session
    BY <1>1, <2>1
  <2>3. QED
    BY <2>1, <2>2 DEF Idle, Handler
<1>3. QED
  BY <1>1, <1>2

\* An answer leaves the types.
LEMMA AnsweredType ==
    ASSUME TypeOK, NEW w \in Websockets, Answered(w)
    PROVE  /\ handlers' = [handlers EXCEPT ![w] = Idle]
           /\ handlers' \in [Websockets -> Handler]
           /\ phase' \in {"idle", "starting", "metering", "unmetered", "ending"}
  BY NewTypes DEF Answered, TypeOK

\* The handler of an Updated event has a meter value.
UpdatesHaveValues ==
    \A w \in Websockets : handlers[w].event = "updated" => handlers[w].value \in Values

\* Before the first transaction no handler has had anything to do.
NothingBefore == issued = 0 => phase = "idle" /\ AllIdle

TypeInv == TypeOK /\ UpdatesHaveValues /\ NothingBefore

\* The table with one session more.
LEMMA InsertedType ==
    ASSUME TypeOK, NEW x \in Transactions
    PROVE  /\ DOMAIN Inserted(x) \subseteq Transactions
           /\ \A y \in DOMAIN Inserted(x) : Inserted(x)[y] \in Session /\ Inserted(x)[y].id = y
  BY NewTypes DEF Inserted, TypeOK

\* What a handler writes, and what it reads back.
LEMMA WrittenType ==
    ASSUME NEW h \in Handler, h.event = "updated" => h.value \in Values, NEW row \in Session
    PROVE  /\ Written(row, h) \in Session
           /\ Written(row, h).id = row.id
           /\ row.meters \subseteq Written(row, h).meters
           /\ row.status = "completed" => Written(row, h).status = "completed"
           /\ h.event = "updated" => h.value \in Written(row, h).meters
           /\ Refreshed(h, row) \in Session
<1>1. Refreshed(h, row) \in Session
  <2>1. h.session \in Session
    BY DEF Handler
  <2>2. QED
    BY <2>1 DEF Refreshed, Session
<1>2. CASE h.event = "updated"
  <2>1. Written(row, h) = [row EXCEPT !.meters = @ \cup {h.value}]
    BY <1>2 DEF Written
  <2>2. row.meters \cup {h.value} \in SUBSET Values
    BY <1>2 DEF Session
  <2>3. QED
    BY <1>1, <2>1, <2>2 DEF Session
<1>3. CASE h.event # "updated"
  <2>1. Written(row, h) = [row EXCEPT !.status = "completed"]
    BY <1>3 DEF Written
  <2>2. QED
    BY <1>1, <1>3, <2>1 DEF Session
<1>4. QED
  BY <1>2, <1>3

\* The first state has the types.
LEMMA TypeInit == Init => TypeInv
<1> SUFFICES ASSUME Init PROVE TypeInv
  OBVIOUS
<1>1. IsDictionary(manager)
  BY DEF Init, IsDictionary
<1>2. DOMAIN rows = {}
  BY DEF Init, NoRows
<1>3. handlers \in [Websockets -> Handler] /\ \A w \in Websockets : handlers[w].event = "started"
  BY NewTypes DEF Init, Idle
<1>4. RestOK
  BY <1>2, <1>3, BoundsAssumption DEF Init, RestOK
<1>5. QED
  BY <1>1, <1>3, <1>4, TypeHalves DEF TypeInv, UpdatesHaveValues, NothingBefore, AllIdle, Init, Idle

\* What a handler starts with.
LEMMA HandleType ==
    ASSUME TypeInv, NEW pc \in {"inserting", "loading"},
           NEW event \in {"started", "updated", "ended"}, NEW x \in Transactions,
           NEW value \in Values \cup {NoValue}, event = "updated" => value \in Values,
           Handle(pc, event, x, value)
    PROVE  handlers' \in [Websockets -> Handler] /\ UpdatesHaveValues'
<1> DEFINE h == [Idle EXCEPT !.pc = pc, !.event = event, !.id = x, !.value = value]
<1>1. h \in Handler /\ h.event = event /\ h.value = value
  BY NewTypes DEF Handler
<1>2. handlers' = [handlers EXCEPT !["current"] = h] /\ handlers \in [Websockets -> Handler]
  BY DEF Handle, TypeInv, TypeOK
<1> HIDE DEF h
<1>3. QED
  BY <1>1, <1>2 DEF UpdatesHaveValues, TypeInv, Websockets

\* The events of a transaction, up to the first await of their handlers.
LEMMA EventType ==
    ASSUME TypeInv, OnStarted \/ OnUpdated \/ OnEnded
    PROVE  TypeInv'
<1>1. IsDictionary(manager) /\ RestOK
  BY TypeHalves DEF TypeInv
<1>2. ASSUME HasActive
      PROVE  /\ GetActiveSession \in DOMAIN manager
             /\ manager[GetActiveSession] \in Session
             /\ manager[GetActiveSession].id \in Transactions
  <2>1. TypeOK /\ GetActiveSession \in DOMAIN manager
    BY <1>2, ActiveOne DEF TypeInv
  <2>2. manager[GetActiveSession] \in Session
    BY <2>1 DEF TypeOK
  <2>3. QED
    BY <2>1, <2>2 DEF Session
<1>3. issued \in Nat /\ metered \in Nat /\ issued <= MaxTransactions /\ metered <= MaxValues
      /\ MaxTransactions \in Nat /\ MaxValues \in Nat
  BY <1>1, BoundsAssumption DEF RestOK
<1>4. CASE OnStarted
  <2>1. issued' \in Transactions /\ issued' \in 0 .. MaxTransactions /\ metered' \in 0 .. MaxValues
    BY <1>3, <1>4 DEF OnStarted, Transactions
  <2>2. IsDictionary(manager')
    BY <1>1, <1>4, <2>1, NewTypes, StoredType DEF OnStarted
  <2>3. handlers' \in [Websockets -> Handler] /\ UpdatesHaveValues'
    BY <1>4, <2>1, HandleType DEF OnStarted
  <2>4. RestOK'
    BY <1>1, <1>4, <2>1, <2>3 DEF OnStarted, RestOK, counters
  <2>5. QED
    BY <1>4, <2>1, <2>2, <2>3, <2>4, TypeHalvesNext DEF TypeInv, NothingBefore, Transactions
<1>5. CASE OnUpdated
  <2> DEFINE value == <<issued, metered + 1>>
             k == GetActiveSession
  <2>1. issued \in Transactions
    BY <1>3, <1>5 DEF OnUpdated, TypeInv, NothingBefore, Transactions
  <2>2. value \in Values
    BY <2>1, <1>3, <1>5 DEF OnUpdated, Values
  <2>3. metered' \in 0 .. MaxValues
    BY <1>3, <1>5 DEF OnUpdated
  <2>4. CASE HasActive
    <3>1. /\ [manager[k] EXCEPT !.meters = @ \cup {value}] \in Session
          /\ [manager[k] EXCEPT !.meters = @ \cup {value}].id = manager[k].id
      BY <2>2, <2>4, <1>2 DEF Session
    <3>2. manager' = [manager EXCEPT ![k] = [manager[k] EXCEPT !.meters = @ \cup {value}]]
      BY <2>4, <1>5 DEF OnUpdated
    <3>3. IsDictionary(manager')
      BY <1>1, <1>2, <2>4, <3>1, <3>2, ChangedType
    <3>4. handlers' \in [Websockets -> Handler] /\ UpdatesHaveValues'
      BY <2>2, <2>4, <1>2, <1>5, HandleType DEF OnUpdated
    <3>5. RestOK'
      BY <1>1, <1>5, <2>3, <3>4 DEF OnUpdated, RestOK, counters
    <3>6. QED
      BY <1>5, <2>1, <3>3, <3>4, <3>5, TypeHalvesNext
         DEF OnUpdated, TypeInv, NothingBefore, Transactions
  <2>5. CASE ~HasActive
    <3>1. manager' = manager /\ handlers' = handlers
      BY <2>5, <1>5 DEF OnUpdated
    <3>2. RestOK' /\ IsDictionary(manager')
      BY <1>1, <1>5, <2>3, <3>1 DEF OnUpdated, RestOK, counters
    <3>3. QED
      BY <1>5, <2>1, <3>1, <3>2, TypeHalvesNext
         DEF OnUpdated, TypeInv, NothingBefore, Transactions, UpdatesHaveValues
  <2>6. QED
    BY <2>4, <2>5
<1>6. CASE OnEnded
  <2> DEFINE k == GetActiveSession
  <2>1. issued \in Transactions
    BY <1>3, <1>6 DEF OnEnded, TypeInv, NothingBefore, Transactions
  <2>2. CASE HasActive
    <3>1. /\ [manager[k] EXCEPT !.status = "completed"] \in Session
          /\ [manager[k] EXCEPT !.status = "completed"].id = manager[k].id
      BY <2>2, <1>2 DEF Session
    <3>2. manager' = [manager EXCEPT ![k] = [manager[k] EXCEPT !.status = "completed"]]
      BY <2>2, <1>6 DEF OnEnded
    <3>3. IsDictionary(manager')
      BY <1>1, <1>2, <2>2, <3>1, <3>2, ChangedType
    <3>4. handlers' \in [Websockets -> Handler] /\ UpdatesHaveValues'
      BY <2>2, <1>2, <1>6, HandleType DEF OnEnded
    <3>5. RestOK'
      BY <1>1, <1>6, <2>2, <3>4 DEF OnEnded, RestOK, counters
    <3>6. QED
      BY <1>6, <2>1, <3>3, <3>4, <3>5, TypeHalvesNext
         DEF OnEnded, TypeInv, NothingBefore, Transactions
  <2>3. CASE ~HasActive
    <3>1. manager' = manager /\ handlers' = handlers /\ phase' = "idle"
      BY <2>3, <1>6 DEF OnEnded
    <3>2. RestOK' /\ IsDictionary(manager')
      BY <1>1, <1>6, <3>1 DEF OnEnded, RestOK, counters
    <3>3. QED
      BY <1>6, <2>1, <3>1, <3>2, TypeHalvesNext
         DEF OnEnded, TypeInv, NothingBefore, Transactions, UpdatesHaveValues
  <2>4. QED
    BY <2>2, <2>3
<1>7. QED
  BY <1>4, <1>5, <1>6

\* The awaits of a handler on the database.
LEMMA RepositoryType ==
    ASSUME TypeInv, NEW w \in Websockets, Insert(w) \/ Load(w) \/ Commit(w) \/ Return(w)
    PROVE  TypeInv'
<1> DEFINE h == handlers[w]
<1>1. IsDictionary(manager) /\ RestOK /\ TypeOK
  BY TypeHalves DEF TypeInv
<1>2. /\ h \in Handler /\ (h.event = "updated" => h.value \in Values)
      /\ handlers \in [Websockets -> Handler]
  BY <1>1 DEF RestOK, TypeInv, UpdatesHaveValues
<1>3. issued # 0 /\ issued' = issued /\ issued \in Nat
  <2>1. h.pc # "idle"
    BY DEF Insert, Load, Commit, Return
  <2>2. QED
    BY <2>1, <1>1 DEF TypeInv, NothingBefore, AllIdle, RestOK, Insert, Load, Commit, Return
<1>4. ASSUME Answered(w)
      PROVE  /\ handlers' \in [Websockets -> Handler] /\ UpdatesHaveValues'
             /\ phase' \in {"idle", "starting", "metering", "unmetered", "ending"}
  <2>1. /\ handlers' = [handlers EXCEPT ![w] = Idle]
        /\ phase' \in {"idle", "starting", "metering", "unmetered", "ending"}
    BY <1>1, <1>4, AnsweredType
  <2>2. Idle \in Handler /\ Idle.event = "started"
    BY NewTypes DEF Idle
  <2>3. QED
    BY <2>1, <2>2, <1>2 DEF UpdatesHaveValues, TypeInv
<1>5. CASE Insert(w)
  <2>1. h.id \in Transactions
    BY <1>2 DEF Handler
  <2>2. /\ DOMAIN rows' \subseteq Transactions
        /\ \A x \in DOMAIN rows' : rows'[x] \in Session /\ rows'[x].id = x
    BY <1>1, <1>5, <2>1, InsertedType DEF Insert, RestOK
  <2>3. RestOK' /\ IsDictionary(manager')
    BY <1>1, <1>4, <1>5, <2>2 DEF Insert, RestOK, counters
  <2>4. QED
    BY <1>3, <1>4, <1>5, <2>3, TypeHalvesNext DEF Insert, TypeInv, NothingBefore
<1>6. CASE Load(w)
  <2>1. CASE h.id \in DOMAIN rows
    <3>1. rows[h.id] \in Session
      BY <2>1, <1>1 DEF RestOK
    <3> DEFINE g == [h EXCEPT !.pc = "committing", !.session = rows[h.id]]
    <3>2. g \in Handler /\ g.event = h.event /\ g.value = h.value
      BY <3>1, <1>2 DEF Handler
    <3>3. handlers' = [handlers EXCEPT ![w] = g] /\ phase' = phase
      BY <2>1, <1>2, <1>6 DEF Load
    <3> HIDE DEF g
    <3>4. handlers' \in [Websockets -> Handler] /\ UpdatesHaveValues'
      BY <3>2, <3>3, <1>2 DEF UpdatesHaveValues, TypeInv
    <3>5. RestOK' /\ IsDictionary(manager')
      BY <1>1, <1>6, <3>3, <3>4 DEF Load, RestOK, counters
    <3>6. QED
      BY <1>3, <3>4, <3>5, TypeHalvesNext DEF TypeInv, NothingBefore
  <2>2. CASE h.id \notin DOMAIN rows
    <3>1. Answered(w)
      BY <2>2, <1>6 DEF Load
    <3>2. RestOK' /\ IsDictionary(manager')
      BY <1>1, <1>4, <1>6, <3>1 DEF Load, RestOK, counters
    <3>3. QED
      BY <1>3, <1>4, <3>1, <3>2, TypeHalvesNext DEF TypeInv, NothingBefore
  <2>3. QED
    BY <2>1, <2>2
<1>7. CASE Commit(w)
  <2> DEFINE row == Written(rows[h.id], h)
  <2>1. CASE h.id \in DOMAIN rows
    <3>1. rows[h.id] \in Session /\ rows[h.id].id = h.id
      BY <2>1, <1>1 DEF RestOK
    <3>2. row \in Session /\ row.id = h.id
      BY <3>1, <1>2, WrittenType
    <3>3. Refreshed(h, row) \in Session
      BY <3>2, <1>2, WrittenType
    <3> DEFINE g == [h EXCEPT !.pc = "returning", !.session = Refreshed(h, row)]
    <3>4. g \in Handler /\ g.event = h.event /\ g.value = h.value
      BY <3>3, <1>2 DEF Handler
    <3>5. /\ handlers' = [handlers EXCEPT ![w] = g] /\ phase' = phase
          /\ rows' = [rows EXCEPT ![h.id] = row]
      BY <2>1, <1>2, <1>7 DEF Commit
    <3> HIDE DEF g, row
    <3>6. handlers' \in [Websockets -> Handler] /\ UpdatesHaveValues'
      BY <3>4, <3>5, <1>2 DEF UpdatesHaveValues, TypeInv
    <3>7. /\ DOMAIN rows' \subseteq Transactions
          /\ \A x \in DOMAIN rows' : rows'[x] \in Session /\ rows'[x].id = x
      BY <3>2, <3>5, <2>1, <1>1 DEF RestOK
    <3>8. RestOK' /\ IsDictionary(manager')
      BY <1>1, <1>7, <3>5, <3>6, <3>7 DEF Commit, RestOK, counters
    <3>9. QED
      BY <1>3, <3>6, <3>8, TypeHalvesNext DEF TypeInv, NothingBefore
  <2>2. CASE h.id \notin DOMAIN rows
    <3>1. Answered(w) /\ rows' = rows
      BY <2>2, <1>7 DEF Commit
    <3>2. RestOK' /\ IsDictionary(manager')
      BY <1>1, <1>4, <1>7, <3>1 DEF Commit, RestOK, counters
    <3>3. QED
      BY <1>3, <1>4, <3>1, <3>2, TypeHalvesNext DEF TypeInv, NothingBefore
  <2>3. QED
    BY <2>1, <2>2
<1>8. CASE Return(w)
  <2>1. IsDictionary(manager')
    <3>1. h.session \in Session
      BY <1>2 DEF Handler
    <3>2. QED
      BY <3>1, <1>1, <1>8, StoredType DEF Return
  <2>2. acked' \subseteq Values
    BY <1>1, <1>2, <1>8 DEF Return, RestOK
  <2>3. RestOK'
    BY <1>1, <1>4, <1>8, <2>2 DEF Return, RestOK, counters
  <2>4. QED
    BY <1>3, <1>4, <1>8, <2>1, <2>3, TypeHalvesNext DEF Return, TypeInv, NothingBefore
<1>9. QED
  BY <1>5, <1>6, <1>7, <1>8

\* What happens to the charger and to the process.
LEMMA WorldType ==
    ASSUME TypeInv, Reconnect \/ DeleteCharger \/ Forget \/ Restart \/ UNCHANGED vars
    PROVE  TypeInv'
<1>1. IsDictionary(manager) /\ RestOK /\ TypeOK
  BY TypeHalves DEF TypeInv
<1>2. /\ handlers \in [Websockets -> Handler] /\ Idle \in Handler
      /\ Idle.event = "started" /\ Idle.pc = "idle"
      /\ reconnects \in Nat /\ crashes \in Nat /\ MaxReconnects \in Nat /\ MaxCrashes \in Nat
  BY <1>1, NewTypes, BoundsAssumption DEF RestOK, Idle
<1>3. CASE Reconnect
  <2>1. handlers' \in [Websockets -> Handler] /\ UpdatesHaveValues'
    BY <1>2, <1>3 DEF Reconnect, UpdatesHaveValues, TypeInv, Websockets
  <2>2. issued # 0
    BY <1>3 DEF Reconnect, TypeInv, NothingBefore, AllIdle, Websockets
  <2>3. reconnects' \in 0 .. MaxReconnects
    BY <1>2, <1>3 DEF Reconnect
  <2>4. RestOK' /\ IsDictionary(manager')
    BY <1>1, <1>3, <2>1, <2>3 DEF Reconnect, RestOK
  <2>5. QED
    BY <1>3, <2>1, <2>2, <2>4, TypeHalvesNext DEF Reconnect, TypeInv, NothingBefore
<1>4. CASE DeleteCharger
  <2>1. RestOK' /\ IsDictionary(manager')
    BY <1>1, <1>4 DEF DeleteCharger, NoRows, RestOK, station, counters
  <2>2. QED
    BY <1>4, <2>1, TypeHalvesNext
       DEF DeleteCharger, TypeInv, NothingBefore, UpdatesHaveValues, AllIdle, station
<1>5. CASE Forget
  <2>1. handlers' \in [Websockets -> Handler] /\ UpdatesHaveValues'
    BY <1>2, <1>5 DEF Forget, UpdatesHaveValues, TypeInv, Websockets
  <2>2. IsDictionary(manager')
    BY <1>5 DEF Forget, IsDictionary
  <2>3. RestOK'
    BY <1>1, <1>5, <2>1 DEF Forget, RestOK, station, counters
  <2>4. NothingBefore'
    BY <1>2, <1>5 DEF Forget, NothingBefore, TypeInv, AllIdle, station, Websockets
  <2>5. QED
    BY <2>1, <2>2, <2>3, <2>4, TypeHalvesNext DEF TypeInv
<1>6. CASE Restart
  <2>1. handlers' = [w \in Websockets |-> Idle]
    BY <1>6 DEF Restart
  <2>2. handlers' \in [Websockets -> Handler] /\ UpdatesHaveValues' /\ NothingBefore'
    BY <1>2, <1>6, <2>1 DEF Restart, UpdatesHaveValues, NothingBefore, AllIdle
  <2>3. IsDictionary(manager')
    BY <1>1, <1>6, FromRowsType DEF Restart
  <2>4. crashes' \in 0 .. MaxCrashes
    BY <1>2, <1>6 DEF Restart
  <2>5. RestOK'
    BY <1>1, <1>6, <2>2, <2>4 DEF Restart, RestOK
  <2>6. QED
    BY <2>2, <2>3, <2>5, TypeHalvesNext DEF TypeInv
<1>7. CASE UNCHANGED vars
  <2>1. RestOK' /\ IsDictionary(manager')
    BY <1>1, <1>7 DEF vars, station, counters, RestOK
  <2>2. QED
    BY <1>7, <2>1, TypeHalvesNext
       DEF vars, station, counters, TypeInv, NothingBefore, UpdatesHaveValues, AllIdle
<1>8. QED
  BY <1>3, <1>4, <1>5, <1>6, <1>7

\* Every step keeps the types.
LEMMA TypeStep == TypeInv /\ [Next]_vars => TypeInv'
<1> SUFFICES ASSUME TypeInv, [Next]_vars PROVE TypeInv'
  OBVIOUS
<1>1. CASE OnStarted \/ OnUpdated \/ OnEnded
  BY <1>1, EventType
<1>2. CASE \E w \in Websockets : Insert(w) \/ Load(w) \/ Commit(w) \/ Return(w)
  BY <1>2, RepositoryType
<1>3. CASE Reconnect \/ DeleteCharger \/ Forget \/ Restart \/ UNCHANGED vars
  BY <1>3, WorldType
<1>4. QED
  BY <1>1, <1>2, <1>3 DEF Next

\* The dictionary and the table each keep a session once, under its own id, and
\* every variable has its type: SessionStore!TypeOK.
THEOREM TypeCorrect == Spec => []TypeOK
<1>1. TypeInv => TypeOK
  BY DEF TypeInv
<1>2. QED
  BY <1>1, TypeInit, TypeStep, PTL DEF Spec

-----------------------------------------------------------------------------
(* The database                                                            *)

\* Rows are only ever added, given a meter value or completed, but by deletion.
LEMMA RowsAdvance ==
    ASSUME TypeInv, [Next]_vars, ~DeleteCharger, NEW x \in DOMAIN rows
    PROVE  /\ x \in DOMAIN rows'
           /\ rows[x].meters \subseteq rows'[x].meters
           /\ rows[x].status = "completed" => rows'[x].status = "completed"
<1>1. rows[x] \in Session
  BY DEF TypeInv, TypeOK
<1>2. CASE rows' = rows
  BY <1>2
<1>3. ASSUME NEW w \in Websockets, Insert(w), CanInsert(handlers[w].id)
      PROVE  x \in DOMAIN rows' /\ rows'[x] = rows[x]
  BY <1>3 DEF Insert, CanInsert, Inserted
<1>4. ASSUME NEW w \in Websockets, Commit(w), handlers[w].id \in DOMAIN rows
      PROVE  /\ x \in DOMAIN rows'
             /\ rows[x].meters \subseteq rows'[x].meters
             /\ rows[x].status = "completed" => rows'[x].status = "completed"
  <2>1. rows' = [rows EXCEPT ![handlers[w].id] = Written(rows[handlers[w].id], handlers[w])]
    BY <1>4 DEF Commit
  <2>2. CASE x = handlers[w].id
    <3>1. rows'[x] = Written(rows[x], handlers[w])
      BY <2>1, <2>2
    <3>2. handlers[w] \in Handler /\ (handlers[w].event = "updated" => handlers[w].value \in Values)
      BY DEF TypeInv, TypeOK, UpdatesHaveValues
    <3>3. QED
      BY <2>1, <3>1, <3>2, <1>1, WrittenType
  <2>3. CASE x # handlers[w].id
    BY <2>1, <2>3
  <2>4. QED
    BY <2>2, <2>3
<1>5. \/ rows' = rows
      \/ \E w \in Websockets : Insert(w) /\ CanInsert(handlers[w].id)
      \/ \E w \in Websockets : Commit(w) /\ handlers[w].id \in DOMAIN rows
  BY DEF Next, OnStarted, OnUpdated, OnEnded, Insert, Load, Commit, Return, Reconnect, Forget,
         Restart, vars
<1>6. QED
  BY <1>2, <1>3, <1>4, <1>5

\* While the charger exists no session is lost or reopened and no meter value
\* taken back: SessionStore!RowsOnlyAdvance.
THEOREM RowsNeverGoBack == Spec => RowsOnlyAdvance
<1> DEFINE Advance ==
      charger' = "present" =>
        \A x \in DOMAIN rows :
            /\ x \in DOMAIN rows'
            /\ rows[x].meters \subseteq rows'[x].meters
            /\ rows[x].status = "completed" => rows'[x].status = "completed"
<1>1. TypeInv /\ [Next]_vars => [Advance]_vars
  <2> SUFFICES ASSUME TypeInv, [Next]_vars, charger' = "present", NEW x \in DOMAIN rows
               PROVE  /\ x \in DOMAIN rows'
                      /\ rows[x].meters \subseteq rows'[x].meters
                      /\ rows[x].status = "completed" => rows'[x].status = "completed"
    OBVIOUS
  <2>1. ~DeleteCharger
    BY DEF DeleteCharger
  <2>2. QED
    BY <2>1, RowsAdvance
<1>2. QED
  BY <1>1, TypeInit, TypeStep, PTL DEF Spec, RowsOnlyAdvance

\* What a returning handler will report as stored, as well as what was.
StoredInv ==
    charger = "present" =>
        /\ \A value \in acked : \E x \in DOMAIN rows : value \in rows[x].meters
        /\ \A w \in Websockets :
              handlers[w].pc = "returning" /\ handlers[w].event = "updated" =>
                  \E x \in DOMAIN rows : handlers[w].value \in rows[x].meters

\* No handler is at work, and nothing is acknowledged.
LEMMA StoredInit == Init => StoredInv
  BY DEF Init, Idle, StoredInv

\* A handler that has just begun is before its first await.
LEMMA HandlePc ==
    ASSUME NEW pc, NEW event, NEW x, NEW value, Handle(pc, event, x, value),
           handlers \in [Websockets -> Handler], NEW w \in Websockets
    PROVE  handlers'[w] # handlers[w] => handlers'[w].pc = pc
<1> DEFINE h == [Idle EXCEPT !.pc = pc, !.event = event, !.id = x, !.value = value]
<1>1. h.pc = pc
  BY DEF Idle
<1>2. handlers' = [handlers EXCEPT !["current"] = h]
  BY DEF Handle
<1> HIDE DEF h
<1>3. QED
  BY <1>1, <1>2

\* A value is acknowledged by a handler that has committed it.
LEMMA StoredStep == TypeInv /\ TypeInv' /\ StoredInv /\ [Next]_vars => StoredInv'
<1> SUFFICES ASSUME TypeInv, TypeInv', StoredInv, [Next]_vars, charger' = "present"
             PROVE  StoredInv'
  BY DEF StoredInv
<1>1. charger = "present" /\ ~DeleteCharger
  BY DEF Next, OnStarted, OnUpdated, OnEnded, Insert, Load, Commit, Return, Reconnect,
         DeleteCharger, Forget, Restart, vars
<1>2. ASSUME NEW value, \E x \in DOMAIN rows : value \in rows[x].meters
      PROVE  \E x \in DOMAIN rows' : value \in rows'[x].meters
  BY <1>1, <1>2, RowsAdvance
<1>3. handlers \in [Websockets -> Handler] /\ Idle.pc = "idle" /\ Idle \in Handler
  BY NewTypes DEF TypeInv, TypeOK, Idle
<1>4. SUFFICES ASSUME \/ acked' = acked
                      \/ \E w \in Websockets :
                            /\ handlers[w].pc = "returning" /\ handlers[w].event = "updated"
                            /\ acked' = acked \cup {handlers[w].value},
                      \A w \in Websockets :
                         handlers'[w].pc = "returning" /\ handlers'[w].event = "updated" =>
                            \/ \E v \in Websockets : handlers'[w] = handlers[v]
                            \/ \E x \in DOMAIN rows' : handlers'[w].value \in rows'[x].meters
               PROVE  StoredInv'
  <2>1. CASE OnStarted \/ OnUpdated \/ OnEnded
    <3>1. acked' = acked
      BY <2>1 DEF OnStarted, OnUpdated, OnEnded
    <3>2. \/ handlers' = handlers
          \/ \E x, value : Handle("inserting", "started", x, value)
          \/ \E x, value : Handle("loading", "updated", x, value)
          \/ \E x, value : Handle("loading", "ended", x, value)
      BY <2>1 DEF OnStarted, OnUpdated, OnEnded
    <3>3. ASSUME NEW w \in Websockets, handlers'[w] # handlers[w]
          PROVE  handlers'[w].pc \in {"inserting", "loading"}
      BY <3>2, <3>3, <1>3, HandlePc
    <3>4. QED
      BY <3>1, <3>3, <1>4
  <2>2. CASE \E w \in Websockets : Insert(w) \/ Load(w)
    <3>1. PICK w \in Websockets : Insert(w) \/ Load(w)
      BY <2>2
    <3>2. acked' = acked
      BY <3>1 DEF Insert, Load
    <3>3. ASSUME NEW v \in Websockets, handlers'[v] # handlers[v]
          PROVE  handlers'[v].pc \in {"idle", "committing"}
      BY <3>1, <3>3, <1>3 DEF Insert, Load, Answered, Handler
    <3>4. QED
      BY <3>2, <3>3, <1>4
  <2>3. CASE \E w \in Websockets : Commit(w)
    <3>1. PICK w \in Websockets : Commit(w)
      BY <2>3
    <3>2. acked' = acked
      BY <3>1 DEF Commit
    <3>3. ASSUME NEW v \in Websockets, handlers'[v] # handlers[v],
                 handlers'[v].pc = "returning", handlers'[v].event = "updated"
          PROVE  \E x \in DOMAIN rows' : handlers'[v].value \in rows'[x].meters
      <4> DEFINE h == handlers[w]
      <4>1. h.id \in DOMAIN rows /\ v = w
        BY <3>1, <3>3, <1>3 DEF Commit, Answered
      <4>2. /\ rows' = [rows EXCEPT ![h.id] = Written(rows[h.id], h)]
            /\ handlers'[w].value = h.value /\ handlers'[w].event = h.event
        BY <3>1, <4>1, <1>3 DEF Commit, Handler
      <4>3. /\ h \in Handler /\ (h.event = "updated" => h.value \in Values)
            /\ rows[h.id] \in Session
        BY <4>1 DEF TypeInv, TypeOK, UpdatesHaveValues
      <4>4. h.value \in Written(rows[h.id], h).meters
        BY <3>3, <4>1, <4>2, <4>3, WrittenType
      <4>5. QED
        BY <4>1, <4>2, <4>4
    <3>4. QED
      BY <3>2, <3>3, <1>4
  <2>4. CASE \E w \in Websockets : Return(w)
    <3>1. PICK w \in Websockets : Return(w)
      BY <2>4
    <3>2. \/ acked' = acked
          \/ handlers[w].event = "updated" /\ acked' = acked \cup {handlers[w].value}
      BY <3>1 DEF Return
    <3>3. handlers[w].pc = "returning"
      BY <3>1 DEF Return
    <3>4. ASSUME NEW v \in Websockets, handlers'[v] # handlers[v]
          PROVE  handlers'[v].pc = "idle"
      BY <3>1, <3>4, <1>3 DEF Return, Answered
    <3>5. QED
      BY <3>2, <3>3, <3>4, <1>4
  <2>5. CASE Reconnect
    <3>1. acked' = acked
      BY <2>5 DEF Reconnect
    <3>2. handlers'["last"] = handlers["current"] /\ handlers'["current"].pc = "idle"
      BY <2>5, <1>3 DEF Reconnect, Websockets
    <3>3. QED
      BY <3>1, <3>2, <1>4 DEF Websockets
  <2>6. CASE Forget
    BY <2>6, <1>1 DEF Forget
  <2>7. CASE Restart
    BY <2>7, <1>3, <1>4 DEF Restart
  <2>8. CASE UNCHANGED vars
    BY <2>8, <1>4 DEF vars
  <2>9. QED
    BY <1>1, <2>1, <2>2, <2>3, <2>4, <2>5, <2>6, <2>7, <2>8 DEF Next
<1>5. \A value \in acked' : \E x \in DOMAIN rows' : value \in rows'[x].meters
  BY <1>1, <1>2, <1>4 DEF StoredInv
<1>6. ASSUME NEW w \in Websockets, handlers'[w].pc = "returning", handlers'[w].event = "updated"
      PROVE  \E x \in DOMAIN rows' : handlers'[w].value \in rows'[x].meters
  BY <1>1, <1>2, <1>4, <1>6 DEF StoredInv
<1>7. QED
  BY <1>5, <1>6 DEF StoredInv

\* A meter value that was answered as stored is in the database:
\* SessionStore!AckedIsStored.
THEOREM AnsweredIsStored == Spec => []AckedIsStored
<1>1. StoredInv => AckedIsStored
  BY DEF StoredInv, AckedIsStored
<1>2. QED
  BY <1>1, TypeInit, TypeStep, StoredInit, StoredStep, PTL DEF Spec

-----------------------------------------------------------------------------
(* A deleted charger                                                       *)

\* While no websocket has been lost there is one handler, which is cancelled
\* when the charger is forgotten.
ForgottenInv ==
    /\ charger # "present" => DOMAIN rows = {}
    /\ reconnects = 0 => handlers["last"].pc = "idle"
    /\ charger = "forgotten" /\ reconnects = 0 =>
          manager = <<>> /\ handlers["current"].pc = "idle"

\* The charger is there at first, and no handler is at work.
LEMMA ForgottenInit == Init => ForgottenInv
  BY DEF Init, Idle, ForgottenInv, Websockets

\* No step brings a session back.
LEMMA ForgottenStep == TypeInv /\ ForgottenInv /\ [Next]_vars => ForgottenInv'
<1> SUFFICES ASSUME TypeInv, ForgottenInv, [Next]_vars PROVE ForgottenInv'
  OBVIOUS
<1>1. /\ handlers \in [Websockets -> Handler] /\ Idle.pc = "idle" /\ Websockets = {"current", "last"}
      /\ reconnects \in Nat
  BY DEF TypeInv, TypeOK, Idle, Websockets
<1>2. CASE OnStarted \/ OnUpdated \/ OnEnded
  BY <1>1, <1>2 DEF OnStarted, OnUpdated, OnEnded, MaySend, Handle, ForgottenInv, counters
<1>3. ASSUME NEW w \in Websockets, Insert(w) \/ Load(w) \/ Commit(w) \/ Return(w)
      PROVE  ForgottenInv'
  <2>1. charger' = charger /\ reconnects' = reconnects /\ handlers[w].pc # "idle"
    BY <1>3 DEF Insert, Load, Commit, Return, counters
  <2>2. charger # "present" => DOMAIN rows' = {}
    BY <1>3 DEF Insert, Load, Commit, Return, CanInsert, ForgottenInv
  <2>3. reconnects = 0 => w = "current" /\ handlers'["last"] = handlers["last"]
    BY <1>1, <1>3, <2>1 DEF Insert, Load, Commit, Return, Answered, ForgottenInv
  <2>4. ~(charger = "forgotten" /\ reconnects = 0)
    BY <2>1, <2>3 DEF ForgottenInv
  <2>5. QED
    BY <2>1, <2>2, <2>3, <2>4 DEF ForgottenInv
<1>4. CASE Reconnect
  BY <1>1, <1>4 DEF Reconnect, ForgottenInv
<1>5. CASE DeleteCharger
  BY <1>1, <1>5 DEF DeleteCharger, NoRows, ForgottenInv, counters
<1>6. CASE Forget
  BY <1>1, <1>6 DEF Forget, ForgottenInv, counters
<1>7. CASE Restart
  <2>1. charger' = "forgotten" => DOMAIN rows = {}
    BY <1>7 DEF Restart, ForgottenInv, TypeInv, TypeOK
  <2>2. DOMAIN rows = {} => FromRows = <<>>
    BY FS_EmptySet DEF FromRows
  <2>3. QED
    BY <1>1, <1>7, <2>1, <2>2 DEF Restart, ForgottenInv
<1>8. CASE UNCHANGED vars
  BY <1>8 DEF vars, counters, ForgottenInv
<1>9. QED
  BY <1>2, <1>3, <1>4, <1>5, <1>6, <1>7, <1>8 DEF Next

\* Nothing is left of a deleted charger, as long as no websocket was lost:
\* SessionStore!ForgottenStaysForgotten.
THEOREM ForgottenForGood == Spec => []ForgottenStaysForgotten
<1>1. ForgottenInv => ForgottenStaysForgotten
  BY DEF ForgottenInv, ForgottenStaysForgotten
<1>2. QED
  BY <1>1, TypeInit, TypeStep, ForgottenInit, ForgottenStep, PTL DEF Spec

-----------------------------------------------------------------------------
(* The dictionary against the tables                                       *)

\* A dictionary holds what a table holds.
Matches(list, table) ==
    /\ \A i \in DOMAIN list : list[i].id \in DOMAIN table /\ list[i] = table[list[i].id]
    /\ \A x \in DOMAIN table : \E i \in DOMAIN list : list[i].id = x

\* The sessions and meter values the table will hold when the handler at work
\* has written what it has to write.
Due ==
    LET h == handlers["current"]
    IN  CASE h.pc = "inserting" -> Inserted(h.id)
          [] h.pc \in {"loading", "committing"} -> [rows EXCEPT ![h.id] = Written(rows[h.id], h)]
          [] OTHER -> rows

\* Sessions have the ids of transactions.
IssuedInv ==
    /\ \A x \in DOMAIN rows : x <= issued
    /\ \A w \in Websockets : handlers[w].pc = "inserting" => handlers[w].id <= issued

\* The dictionary is ahead of the tables by the handler at work, which finds the
\* row it looks for and has seen it as it is.
MatchInv ==
    reconnects = 0 /\ charger # "deleted" =>
        LET h == handlers["current"]
        IN  /\ Matches(manager, Due)
            /\ h.pc = "inserting" => h.id \notin DOMAIN rows
            /\ h.pc \in {"loading", "committing", "returning"} => h.id \in DOMAIN rows
            /\ h.pc \in {"loading", "committing"} => h.event # "started"
            /\ h.pc \in {"committing", "returning"} => h.session = rows[h.id]

\* A session has values of its own transaction, and only the current one is open.
TruthInv ==
    reconnects = 0 /\ crashes = 0 /\ charger = "present" =>
        \A i \in DOMAIN manager :
            /\ \A value \in manager[i].meters : value[1] = manager[i].id
            /\ Active(i) => manager[i].id = issued /\ phase \in {"starting", "metering"}

\* What the dictionary and the tables are proved to be, together.
ManagerInv == TypeInv /\ ForgottenInv /\ IssuedInv /\ MatchInv /\ TruthInv

\* The dictionary is loaded with what the tables hold.
LEMMA FromRowsMatch ==
    ASSUME TypeOK
    PROVE  Matches(FromRows, rows)
<1> DEFINE S == DOMAIN rows
           Later(x) == Cardinality({y \in S : y > x})
<1>1. S \in SUBSET Nat /\ IsFiniteSet(S) /\ Cardinality(S) \in Nat
  <2>1. IsFiniteSet(Transactions) /\ Transactions \subseteq Nat
    BY BoundsAssumption, FS_Interval DEF Transactions
  <2>2. S \in SUBSET Transactions
    BY DEF TypeOK
  <2>3. QED
    BY <2>1, <2>2, FS_Subset, FS_CardinalityType
<1>2. ASSUME NEW i \in 1 .. Cardinality(S)
      PROVE  Newest(i) \in S /\ Later(Newest(i)) = i - 1
  <2>1. \E x \in S : Later(x) = i - 1
    BY <1>1, PlaceTaken
  <2>2. QED
    BY <2>1 DEF Newest
<1>3. DOMAIN FromRows = 1 .. Cardinality(S)
  BY DEF FromRows
<1>4. ASSUME NEW i \in 1 .. Cardinality(S)
      PROVE  FromRows[i] = rows[Newest(i)] /\ FromRows[i].id = Newest(i)
  BY <1>2 DEF FromRows, TypeOK
<1>5. ASSUME NEW x \in S, NEW y \in S, Later(x) = Later(y)
      PROVE  x = y
  <2>1. ~(x < y) /\ ~(y < x)
    BY <1>1, <1>5, LaterHasFewer
  <2>2. QED
    BY <1>1, <2>1
<1>6. ASSUME NEW x \in S
      PROVE  Later(x) + 1 \in 1 .. Cardinality(S)
  <2>1. IsFiniteSet(S \ {x}) /\ Cardinality(S \ {x}) = Cardinality(S) - 1
    BY <1>1, FS_RemoveElement
  <2> DEFINE After == {y \in S : y > x}
             Others == S \ {x}
  <2>2. After \in SUBSET Others
    BY <1>1
  <2> HIDE DEF After, Others
  <2>3. IsFiniteSet(Others) /\ Cardinality(Others) = Cardinality(S) - 1
    BY <2>1 DEF Others
  <2>4. IsFiniteSet(After) /\ Cardinality(After) <= Cardinality(Others)
    BY <2>2, <2>3, FS_Subset
  <2>5. Cardinality(After) \in Nat
    BY <2>4, FS_CardinalityType
  <2>6. Later(x) = Cardinality(After)
    BY DEF After
  <2>7. QED
    BY <1>1, <2>3, <2>4, <2>5, <2>6
<1>7. ASSUME NEW x \in S
      PROVE  \E i \in DOMAIN FromRows : FromRows[i].id = x
  <2> DEFINE i == Later(x) + 1
  <2>1. i \in 1 .. Cardinality(S) /\ Newest(i) \in S /\ Later(Newest(i)) = i - 1
    BY <1>2, <1>6
  <2>2. Later(x) \in Nat
    <3>1. {y \in S : y > x} \in SUBSET S
      OBVIOUS
    <3>2. QED
      BY <1>1, <3>1, FS_Subset, FS_CardinalityType
  <2> HIDE DEF Later
  <2>3. Later(Newest(i)) = Later(x)
    BY <2>1, <2>2
  <2>4. Newest(i) = x
    BY <1>5, <2>1, <2>3
  <2>5. QED
    BY <1>3, <1>4, <2>1, <2>4
<1>8. QED
  BY <1>2, <1>3, <1>4, <1>7 DEF Matches

\* A dictionary that matches holds the sessions of the table and no others.
LEMMA MatchesAsSets ==
    ASSUME NEW list, NEW table, Matches(list, table)
    PROVE  {list[i] : i \in DOMAIN list} = {table[x] : x \in DOMAIN table}
<1>1. ASSUME NEW i \in DOMAIN list PROVE list[i] \in {table[x] : x \in DOMAIN table}
  BY DEF Matches
<1>2. ASSUME NEW x \in DOMAIN table PROVE table[x] \in {list[i] : i \in DOMAIN list}
  <2>1. PICK i \in DOMAIN list : list[i].id = x
    BY DEF Matches
  <2>2. list[i] = table[x]
    BY <2>1 DEF Matches
  <2>3. QED
    BY <2>2
<1>3. QED
  BY <1>1, <1>2

\* What a session reads back after it has been assigned is not changed by that.
LEMMA StoredAgain ==
    ASSUME NEW list, IsDictionary(list), NEW i \in DOMAIN list
    PROVE  Stored(list, list[i]) = list
<1>1. list[i].id \in Ids(list)
  BY DEF Ids
<1>2. /\ Position(list, list[i].id) \in DOMAIN list
      /\ list[Position(list, list[i].id)].id = list[i].id
  BY DEF Position
<1>3. Position(list, list[i].id) = i
  BY <1>2 DEF IsDictionary
<1>4. list = [j \in DOMAIN list |-> list[j]]
  BY DEF IsDictionary
<1>5. QED
  BY <1>1, <1>3, <1>4 DEF Stored

\* At first there is nothing.
LEMMA ManagerInit == Init => ManagerInv
<1> SUFFICES ASSUME Init PROVE ManagerInv
  OBVIOUS
<1>1. DOMAIN rows = {} /\ DOMAIN manager = {} /\ \A w \in Websockets : handlers[w].pc = "idle"
  BY DEF Init, NoRows, Idle
<1>2. IssuedInv /\ TruthInv
  BY <1>1 DEF IssuedInv, TruthInv
<1>3. Due = rows /\ "current" \in Websockets
  BY <1>1 DEF Due, Websockets
<1>4. MatchInv
  BY <1>1, <1>3 DEF MatchInv, Matches
<1>5. QED
  BY <1>2, <1>4, TypeInit, ForgottenInit DEF ManagerInv

\* What a handler begins with.
LEMMA Begun ==
    ASSUME NEW pc, NEW event, NEW x, NEW value, Handle(pc, event, x, value), TypeOK
    PROVE  /\ handlers'["current"].pc = pc /\ handlers'["current"].event = event
           /\ handlers'["current"].id = x /\ handlers'["current"].value = value
           /\ handlers'["last"] = handlers["last"]
<1> DEFINE h == [Idle EXCEPT !.pc = pc, !.event = event, !.id = x, !.value = value]
<1>1. h.pc = pc /\ h.event = event /\ h.id = x /\ h.value = value
  BY DEF Idle
<1>2. handlers' = [handlers EXCEPT !["current"] = h] /\ handlers \in [Websockets -> Handler]
  BY DEF Handle, TypeOK
<1> HIDE DEF h
<1>3. QED
  BY <1>1, <1>2 DEF Websockets

\* Sessions are numbered as they are created.
LEMMA IssuedStep == TypeInv /\ IssuedInv /\ [Next]_vars => IssuedInv'
<1> SUFFICES ASSUME TypeInv, IssuedInv, [Next]_vars PROVE IssuedInv'
  OBVIOUS
<1>1. /\ handlers \in [Websockets -> Handler] /\ Idle.pc = "idle" /\ issued \in Nat
      /\ Websockets = {"current", "last"} /\ DOMAIN rows \subseteq Nat
      /\ \A w \in Websockets : handlers[w].id \in Nat
  BY DEF TypeInv, TypeOK, Idle, Websockets, Handler, Transactions
<1>2. CASE OnStarted
  <2>1. /\ issued' = issued + 1 /\ rows' = rows
        /\ handlers'["current"].id = issued + 1 /\ handlers'["last"] = handlers["last"]
    BY <1>2, Begun DEF OnStarted, TypeInv
  <2>2. QED
    BY <1>1, <2>1 DEF IssuedInv
<1>3. CASE OnUpdated \/ OnEnded
  <2>1. /\ issued' = issued /\ rows' = rows
        /\ \/ handlers' = handlers
           \/ /\ handlers'["current"].pc = "loading"
              /\ handlers'["last"] = handlers["last"]
    BY <1>3, Begun DEF OnUpdated, OnEnded, TypeInv
  <2>2. QED
    BY <1>1, <2>1 DEF IssuedInv
<1>4. ASSUME NEW w \in Websockets, Insert(w)
      PROVE  IssuedInv'
  <2>1. issued' = issued /\ handlers' = [handlers EXCEPT ![w] = Idle]
    BY <1>4 DEF Insert, Answered
  <2>2. DOMAIN rows' \subseteq DOMAIN rows \cup {handlers[w].id}
    BY <1>4 DEF Insert, Inserted
  <2>3. handlers[w].id <= issued
    BY <1>4 DEF Insert, IssuedInv
  <2>4. QED
    BY <1>1, <2>1, <2>2, <2>3 DEF IssuedInv
<1>5. ASSUME NEW w \in Websockets, Load(w) \/ Commit(w) \/ Return(w)
      PROVE  IssuedInv'
  <2>1. issued' = issued /\ DOMAIN rows' = DOMAIN rows
    BY <1>5 DEF Load, Commit, Return
  <2>2. \A v \in Websockets : handlers'[v].pc = "inserting" => handlers'[v] = handlers[v]
    BY <1>1, <1>5 DEF Load, Commit, Return, Answered, Handler
  <2>3. QED
    BY <2>1, <2>2 DEF IssuedInv
<1>6. CASE Reconnect
  BY <1>1, <1>6 DEF Reconnect, IssuedInv
<1>7. CASE DeleteCharger
  BY <1>7 DEF DeleteCharger, NoRows, IssuedInv, station
<1>8. CASE Forget
  BY <1>1, <1>8 DEF Forget, IssuedInv, station
<1>9. CASE Restart
  BY <1>1, <1>9 DEF Restart, IssuedInv
<1>10. CASE UNCHANGED vars
  BY <1>10 DEF vars, station, IssuedInv
<1>11. QED
  BY <1>2, <1>3, <1>4, <1>5, <1>6, <1>7, <1>8, <1>9, <1>10 DEF Next

\* What the properties are about, while no handler has outlived its websocket.
LEMMA ManagerFacts ==
    ASSUME ManagerInv, reconnects = 0, charger = "present"
    PROVE  /\ IsDictionary(manager) /\ manager \in Seq(Session)
           /\ handlers \in [Websockets -> Handler] /\ "current" \in Websockets
           /\ handlers["current"] \in Handler
           /\ handlers["last"].pc = "idle"
           /\ \A x \in DOMAIN rows : rows[x] \in Session /\ rows[x].id = x
           /\ Matches(manager, Due)
           /\ handlers["current"].pc = "inserting" =>
                 handlers["current"].id \notin DOMAIN rows
           /\ handlers["current"].pc \in {"loading", "committing", "returning"} =>
                 handlers["current"].id \in DOMAIN rows
           /\ handlers["current"].pc \in {"loading", "committing"} =>
                 handlers["current"].event # "started"
           /\ handlers["current"].pc \in {"committing", "returning"} =>
                 handlers["current"].session = rows[handlers["current"].id]
  BY TypeHalves DEF ManagerInv, TypeInv, RestOK, IsDictionary, ForgottenInv, MatchInv, Websockets

\* create_session is ahead of the tables by the row to be inserted.
LEMMA OnStartedMatch ==
    ASSUME ManagerInv, OnStarted, reconnects = 0
    PROVE  MatchInv' /\ TruthInv'
<1> DEFINE x == issued + 1
           session == NewSession(x)
<1>1. charger = "present" /\ handlers["current"].pc = "idle"
  BY DEF OnStarted, MaySend
<1>2. /\ issued \in Nat /\ IsDictionary(manager) /\ manager \in Seq(Session)
      /\ \A y \in DOMAIN rows : y <= issued /\ y \in Nat /\ rows[y].id = y
  BY <1>1, ManagerFacts DEF ManagerInv, IssuedInv, TypeInv, TypeOK, Transactions
<1>3. Due = rows /\ Matches(manager, rows)
  BY <1>1, ManagerFacts DEF Due
<1>4. x \notin DOMAIN rows
  BY <1>2
<1>5. x \notin Ids(manager)
  BY <1>3, <1>4 DEF Ids, Matches
<1>6. session.id = x /\ session.status = "active" /\ session.meters = {}
  BY DEF NewSession
<1>7. /\ manager' = Append(manager, session)
      /\ handlers'["current"].pc = "inserting" /\ handlers'["current"].id = x
      /\ rows' = rows /\ charger' = charger /\ reconnects' = reconnects /\ crashes' = crashes
      /\ issued' = x /\ phase' = "starting" /\ phase = "idle"
  <2>1. Stored(manager, session) = Append(manager, session)
    BY <1>5, <1>6 DEF Stored
  <2>2. issued' = x /\ Handle("inserting", "started", issued', NoValue) /\ TypeOK
    BY DEF OnStarted, ManagerInv, TypeInv
  <2>3. handlers'["current"].pc = "inserting" /\ handlers'["current"].id = x
    BY <2>2, Begun
  <2>4. QED
    BY <2>1, <2>2, <2>3 DEF OnStarted, counters
<1> HIDE DEF session, x
<1>8. /\ \A i \in DOMAIN manager : i \in DOMAIN manager' /\ manager'[i] = manager[i]
      /\ \E i \in DOMAIN manager' : manager'[i] = session
      /\ \A i \in DOMAIN manager' : i \in DOMAIN manager \/ manager'[i] = session
  BY <1>2, <1>7
<1>9. Due' = [y \in DOMAIN rows \cup {x} |-> IF y = x THEN session ELSE rows[y]]
  BY <1>7 DEF Due, Inserted, session
<1>10. Matches(manager', Due')
  BY <1>3, <1>4, <1>6, <1>8, <1>9 DEF Matches
<1>11. MatchInv'
  BY <1>4, <1>7, <1>10 DEF MatchInv
<1>12. TruthInv'
  BY <1>1, <1>6, <1>7, <1>8 DEF ManagerInv, TruthInv, Active
<1>13. QED
  BY <1>11, <1>12

\* The table once the handler has written, with an entry changed alike.
LEMMA ChangedMatch ==
    ASSUME ManagerInv, reconnects = 0, charger = "present", handlers["current"].pc = "idle",
           NEW k \in DOMAIN manager, NEW session, session.id = manager[k].id,
           manager' = [manager EXCEPT ![k] = session], rows' = rows, UNCHANGED <<charger, reconnects>>,
           handlers'["current"].pc = "loading", handlers'["current"].event # "started",
           handlers'["current"].id = manager[k].id,
           Written(manager[k], handlers'["current"]) = session
    PROVE  MatchInv'
<1> DEFINE x == manager[k].id
<1>1. Matches(manager, rows) /\ IsDictionary(manager)
  BY ManagerFacts DEF Due
<1>2. x \in DOMAIN rows /\ rows[x] = manager[k]
  BY <1>1 DEF Matches
<1>3. Due' = [rows EXCEPT ![x] = session]
  BY <1>2 DEF Due
<1>4. \A i \in DOMAIN manager : i # k => manager[i].id # x
  BY <1>1 DEF IsDictionary
<1>5. Matches(manager', Due')
  BY <1>1, <1>2, <1>3, <1>4 DEF Matches
<1>6. QED
  BY <1>2, <1>5 DEF MatchInv

\* add_meter_value is ahead of the tables by the value.
LEMMA OnUpdatedMatch ==
    ASSUME ManagerInv, OnUpdated, reconnects = 0
    PROVE  MatchInv' /\ TruthInv'
<1> DEFINE k == GetActiveSession
           value == <<issued, metered + 1>>
           session == [manager[k] EXCEPT !.meters = @ \cup {value}]
<1>1. /\ charger = "present" /\ handlers["current"].pc = "idle" /\ TypeOK
      /\ rows' = rows /\ UNCHANGED <<charger, reconnects, crashes, phase, issued>>
  BY DEF OnUpdated, MaySend, ManagerInv, TypeInv, counters
<1>2. CASE HasActive
  <2>1. k \in DOMAIN manager /\ manager[k] \in Session /\ Active(k)
    BY <1>1, <1>2, ActiveOne
  <2>2. /\ manager' = [manager EXCEPT ![k] = session]
        /\ Handle("loading", "updated", manager[k].id, value)
    BY <1>2 DEF OnUpdated
  <2>3. session.id = manager[k].id /\ session.meters = manager[k].meters \cup {value}
        /\ session.status = manager[k].status
    BY <2>1 DEF Session
  <2>4. /\ handlers'["current"].pc = "loading" /\ handlers'["current"].id = manager[k].id
        /\ handlers'["current"].event = "updated" /\ handlers'["current"].value = value
    BY <1>1, <2>2, Begun
  <2>5. Written(manager[k], handlers'["current"]) = session
    BY <2>4 DEF Written
  <2> HIDE DEF session, k
  <2>6. MatchInv'
    BY <1>1, <2>1, <2>2, <2>3, <2>4, <2>5, ChangedMatch
  <2>7. TruthInv'
    <3>1. SUFFICES ASSUME crashes = 0, NEW i \in DOMAIN manager'
                   PROVE  /\ \A v \in manager'[i].meters : v[1] = manager'[i].id
                          /\ manager'[i].status = "active" =>
                                manager'[i].id = issued' /\ phase' \in {"starting", "metering"}
      BY <1>1 DEF TruthInv, Active
    <3>2. /\ \A v \in manager[i].meters : v[1] = manager[i].id
          /\ manager[i].status = "active" =>
                manager[i].id = issued /\ phase \in {"starting", "metering"}
          /\ manager[k].id = issued
      BY <1>1, <2>1, <2>2, <3>1 DEF ManagerInv, TruthInv, Active
    <3>3. CASE i = k
      BY <1>1, <2>1, <2>2, <2>3, <3>2, <3>3
    <3>4. CASE i # k
      BY <1>1, <2>1, <2>2, <3>1, <3>2, <3>4
    <3>5. QED
      BY <3>3, <3>4
  <2>8. QED
    BY <2>6, <2>7
<1>3. CASE ~HasActive
  <2>1. manager' = manager /\ handlers' = handlers
    BY <1>3 DEF OnUpdated
  <2>2. QED
    BY <1>1, <2>1 DEF ManagerInv, MatchInv, TruthInv, Due, Inserted, Active
<1>4. QED
  BY <1>2, <1>3

\* end_session is ahead of the tables by the status.
LEMMA OnEndedMatch ==
    ASSUME ManagerInv, OnEnded, reconnects = 0
    PROVE  MatchInv' /\ TruthInv'
<1> DEFINE k == GetActiveSession
           session == [manager[k] EXCEPT !.status = "completed"]
<1>1. /\ charger = "present" /\ handlers["current"].pc = "idle" /\ TypeOK
      /\ rows' = rows /\ UNCHANGED <<charger, reconnects, crashes, issued>>
  BY DEF OnEnded, MaySend, ManagerInv, TypeInv, counters
<1>2. CASE HasActive
  <2>1. k \in DOMAIN manager /\ manager[k] \in Session /\ Active(k)
    BY <1>1, <1>2, ActiveOne
  <2>2. /\ manager' = [manager EXCEPT ![k] = session]
        /\ Handle("loading", "ended", manager[k].id, NoValue)
    BY <1>2 DEF OnEnded
  <2>3. session.id = manager[k].id /\ session.meters = manager[k].meters
        /\ session.status = "completed"
    BY <2>1 DEF Session
  <2>4. /\ handlers'["current"].pc = "loading" /\ handlers'["current"].id = manager[k].id
        /\ handlers'["current"].event = "ended"
    BY <1>1, <2>2, Begun
  <2>5. Written(manager[k], handlers'["current"]) = session
    BY <2>4 DEF Written
  <2> HIDE DEF session, k
  <2>6. MatchInv'
    BY <1>1, <2>1, <2>2, <2>3, <2>4, <2>5, ChangedMatch
  <2>7. TruthInv'
    <3>1. SUFFICES ASSUME crashes = 0, NEW i \in DOMAIN manager'
                   PROVE  /\ \A v \in manager'[i].meters : v[1] = manager'[i].id
                          /\ manager'[i].status # "active"
      BY <1>1 DEF TruthInv, Active
    <3>2. /\ \A v \in manager[i].meters : v[1] = manager[i].id
          /\ manager[i].status = "active" => i = k
      <4>1. \A j \in DOMAIN manager : manager[j].status = "active" => manager[j].id = issued
        BY <1>1, <3>1 DEF ManagerInv, TruthInv, Active
      <4>2. i \in DOMAIN manager /\ manager[k].id = issued
        BY <2>1, <2>2, <3>1, <4>1 DEF Active
      <4>3. QED
        BY <1>1, <2>1, <3>1, <4>1, <4>2 DEF ManagerInv, TruthInv, TypeOK
    <3>3. CASE i = k
      BY <2>1, <2>2, <2>3, <3>2, <3>3
    <3>4. CASE i # k
      BY <2>1, <2>2, <3>1, <3>2, <3>4
    <3>5. QED
      BY <3>3, <3>4
  <2>8. QED
    BY <2>6, <2>7
<1>3. CASE ~HasActive
  <2>1. manager' = manager /\ handlers' = handlers /\ \A i \in DOMAIN manager : ~Active(i)
    BY <1>3 DEF OnEnded, HasActive
  <2>2. QED
    BY <1>1, <2>1 DEF ManagerInv, MatchInv, TruthInv, Due, Inserted, Active
<1>4. QED
  BY <1>2, <1>3

\* Each await of the repository brings the tables nearer to the dictionary, which
\* in the end is given what it already holds.
LEMMA RepositoryMatch ==
    ASSUME ManagerInv, reconnects = 0, NEW w \in Websockets,
           Insert(w) \/ Load(w) \/ Commit(w) \/ Return(w)
    PROVE  MatchInv' /\ TruthInv'
<1> DEFINE h == handlers["current"]
<1>1. w = "current" /\ h.pc # "idle"
  BY DEF Insert, Load, Commit, Return, ManagerInv, ForgottenInv, Websockets
<1>2. /\ UNCHANGED <<charger, reconnects, crashes, issued>> /\ charger # "forgotten"
      /\ phase' \in {phase, "metering", "idle"}
      /\ phase \in {"starting", "metering"} => phase' \in {"starting", "metering"}
  BY <1>1 DEF Insert, Load, Commit, Return, Answered, counters, ManagerInv, ForgottenInv
<1>3. CASE charger = "deleted"
  BY <1>2, <1>3 DEF MatchInv, TruthInv
<1>4. CASE charger = "present"
  <2>1. /\ IsDictionary(manager) /\ handlers \in [Websockets -> Handler] /\ h \in Handler
        /\ \A x \in DOMAIN rows : rows[x] \in Session /\ rows[x].id = x
        /\ Matches(manager, Due)
        /\ h.pc = "inserting" => h.id \notin DOMAIN rows
        /\ h.pc \in {"loading", "committing", "returning"} => h.id \in DOMAIN rows
        /\ h.pc \in {"loading", "committing"} => h.event # "started"
        /\ h.pc \in {"committing", "returning"} => h.session = rows[h.id]
    BY <1>4, ManagerFacts
  <2>2. SUFFICES manager' = manager /\ MatchInv'
    BY <1>2, <1>4, <2>2 DEF ManagerInv, TruthInv, Active
  <2>3. CASE Insert(w)
    <3>1. /\ h.pc = "inserting" /\ manager' = manager /\ handlers'["current"].pc = "idle"
          /\ rows' = Inserted(h.id)
      BY <1>1, <1>4, <2>1, <2>3 DEF Insert, CanInsert, Answered, Idle
    <3>2. Due' = Due
      BY <3>1 DEF Due
    <3>3. QED
      BY <2>1, <3>1, <3>2 DEF MatchInv
  <2>4. CASE Load(w)
    <3>1. /\ h.pc = "loading" /\ manager' = manager /\ rows' = rows /\ h.id \in DOMAIN rows
          /\ handlers' = [handlers EXCEPT !["current"].pc = "committing",
                                          !["current"].session = rows[h.id]]
      BY <1>1, <2>1, <2>4 DEF Load
    <3>2. /\ handlers'["current"].pc = "committing" /\ handlers'["current"].session = rows[h.id]
          /\ handlers'["current"].id = h.id /\ handlers'["current"].event = h.event
          /\ handlers'["current"].value = h.value
      <4>1. handlers'["current"] = [h EXCEPT !.pc = "committing", !.session = rows[h.id]]
        BY <2>1, <3>1 DEF Websockets
      <4> HIDE DEF h
      <4>2. QED
        BY <2>1, <4>1 DEF Handler
    <3>3. Due' = Due
      <4>1. Written(rows[h.id], handlers'["current"]) = Written(rows[h.id], h)
        BY <3>2 DEF Written
      <4>2. Due' = [rows EXCEPT ![h.id] = Written(rows[h.id], handlers'["current"])]
        BY <3>1, <3>2 DEF Due
      <4>3. Due = [rows EXCEPT ![h.id] = Written(rows[h.id], h)]
        BY <3>1 DEF Due
      <4>4. QED
        BY <4>1, <4>2, <4>3
    <3>4. QED
      BY <2>1, <3>1, <3>2, <3>3 DEF MatchInv
  <2>5. CASE Commit(w)
    <3> DEFINE row == Written(rows[h.id], h)
    <3>1. /\ h.pc = "committing" /\ manager' = manager /\ h.id \in DOMAIN rows
          /\ rows' = [rows EXCEPT ![h.id] = row]
          /\ handlers' = [handlers EXCEPT !["current"].pc = "returning",
                                          !["current"].session = Refreshed(h, row)]
      BY <1>1, <2>1, <2>5 DEF Commit
    <3>2. Refreshed(h, row) = row
      <4>1. h.session = rows[h.id] /\ rows[h.id] \in Session
        BY <2>1, <3>1
      <4>2. CASE h.event = "updated"
        <5>1. row = [h.session EXCEPT !.meters = @ \cup {h.value}]
          BY <4>1, <4>2 DEF Written
        <5>2. Refreshed(h, row) = [h.session EXCEPT !.status = @, !.meters = row.meters]
          BY <4>2 DEF Refreshed
        <5> HIDE DEF h, row
        <5>3. QED
          BY <4>1, <5>1, <5>2 DEF Session
      <4>3. CASE h.event # "updated"
        <5>1. h.event = "ended"
          <6>1. h.event # "started"
            BY <2>1, <3>1, <4>3 DEF Handler
          <6>2. QED
            BY <2>1, <4>3, <6>1 DEF Handler
        <5>2. row = [h.session EXCEPT !.status = "completed"]
          BY <4>1, <4>3 DEF Written
        <5>3. Refreshed(h, row) = [h.session EXCEPT !.status = "completed", !.meters = row.meters]
          BY <5>1 DEF Refreshed
        <5> HIDE DEF h, row
        <5>4. QED
          BY <4>1, <5>2, <5>3 DEF Session
      <4>4. QED
        BY <4>2, <4>3
    <3>3. /\ handlers'["current"].pc = "returning" /\ handlers'["current"].session = row
          /\ handlers'["current"].id = h.id
      <4>1. handlers'["current"] = [h EXCEPT !.pc = "returning", !.session = row]
        BY <2>1, <3>1, <3>2 DEF Websockets
      <4> HIDE DEF h, row
      <4>2. QED
        BY <2>1, <4>1 DEF Handler
    <3>4. Due' = Due
      BY <3>1, <3>3 DEF Due
    <3> HIDE DEF row
    <3>5. h.id \in DOMAIN rows' /\ rows'[h.id] = row
      BY <3>1
    <3>6. QED
      BY <2>1, <3>1, <3>3, <3>4, <3>5 DEF MatchInv
  <2>6. CASE Return(w)
    <3>1. /\ h.pc = "returning" /\ rows' = rows /\ handlers'["current"].pc = "idle"
          /\ manager' = Stored(manager, rows[h.id]) /\ h.id \in DOMAIN rows
      BY <1>1, <2>1, <2>6 DEF Return, Answered, Idle
    <3>2. Due = rows /\ Due' = rows
      BY <3>1 DEF Due
    <3>3. PICK i \in DOMAIN manager : manager[i] = rows[h.id]
      BY <2>1, <3>1, <3>2 DEF Matches
    <3>4. manager' = manager
      BY <2>1, <3>1, <3>3, StoredAgain
    <3>5. QED
      BY <2>1, <3>1, <3>2, <3>4 DEF MatchInv
  <2>7. QED
    BY <2>3, <2>4, <2>5, <2>6
<1>5. QED
  BY <1>2, <1>3, <1>4 DEF ManagerInv, TypeInv, TypeOK

\* What happens to the charger and to the process.
LEMMA WorldMatch ==
    ASSUME ManagerInv, reconnects = 0, reconnects' = 0,
           Reconnect \/ DeleteCharger \/ Forget \/ Restart \/ UNCHANGED vars
    PROVE  MatchInv' /\ TruthInv'
<1>1. /\ handlers \in [Websockets -> Handler] /\ Idle.pc = "idle" /\ crashes \in Nat
      /\ Websockets = {"current", "last"} /\ TypeOK /\ ForgottenInv
  BY DEF ManagerInv, TypeInv, TypeOK, Idle, Websockets
<1>2. CASE Reconnect
  BY <1>2 DEF Reconnect
<1>3. CASE DeleteCharger
  BY <1>3 DEF DeleteCharger, MatchInv, TruthInv
<1>4. CASE Forget
  <2>1. /\ manager' = <<>> /\ DOMAIN rows' = {} /\ handlers'["current"].pc = "idle"
        /\ charger' = "forgotten"
    BY <1>1, <1>4 DEF Forget, ForgottenInv
  <2>2. Due' = rows'
    BY <2>1 DEF Due
  <2>3. QED
    BY <2>1, <2>2 DEF MatchInv, Matches, TruthInv
<1>5. CASE Restart
  <2>1. /\ manager' = FromRows /\ rows' = rows /\ handlers'["current"].pc = "idle"
        /\ crashes' # 0
    BY <1>1, <1>5 DEF Restart
  <2>2. Due' = rows
    BY <2>1 DEF Due
  <2>3. Matches(FromRows, rows)
    BY <1>1, FromRowsMatch
  <2>4. QED
    BY <2>1, <2>2, <2>3 DEF MatchInv, TruthInv
<1>6. CASE UNCHANGED vars
  BY <1>6 DEF vars, station, counters, ManagerInv, MatchInv, TruthInv, Due, Inserted, Active
<1>7. QED
  BY <1>2, <1>3, <1>4, <1>5, <1>6

\* Every step keeps what the dictionary and the tables are proved to be.
LEMMA ManagerStep == ManagerInv /\ [Next]_vars => ManagerInv'
<1> SUFFICES ASSUME ManagerInv, [Next]_vars PROVE ManagerInv'
  OBVIOUS
<1>1. TypeInv' /\ ForgottenInv' /\ IssuedInv'
  BY TypeStep, ForgottenStep, IssuedStep DEF ManagerInv
<1>2. reconnects' = 0 => reconnects = 0
  <2>1. \/ reconnects' = reconnects
        \/ reconnects' = reconnects + 1
    BY DEF Next, OnStarted, OnUpdated, OnEnded, Insert, Load, Commit, Return, Reconnect,
           DeleteCharger, Forget, Restart, vars, counters
  <2>2. QED
    BY <2>1 DEF ManagerInv, TypeInv, TypeOK
<1>3. CASE reconnects' # 0
  BY <1>1, <1>3 DEF ManagerInv, MatchInv, TruthInv
<1>4. ASSUME reconnects = 0, reconnects' = 0
      PROVE  MatchInv' /\ TruthInv'
  BY <1>4, OnStartedMatch, OnUpdatedMatch, OnEndedMatch, RepositoryMatch, WorldMatch DEF Next
<1>5. QED
  BY <1>1, <1>2, <1>3, <1>4 DEF ManagerInv

\* When no handler is at work the dictionary holds what the tables hold, as long
\* as no handler has outlived its websocket: SessionStore!ManagerMatchesRows.
THEOREM ManagerIsRows == Spec => []ManagerMatchesRows
<1>1. ManagerInv => ManagerMatchesRows
  <2> SUFFICES ASSUME ManagerInv, AllIdle, charger # "deleted", reconnects = 0
               PROVE  {manager[i] : i \in DOMAIN manager} = {rows[x] : x \in DOMAIN rows}
    BY DEF ManagerMatchesRows
  <2>1. Due = rows
    BY DEF AllIdle, Due, Websockets
  <2>2. Matches(manager, rows)
    BY <2>1 DEF ManagerInv, MatchInv
  <2>3. QED
    BY <2>2, MatchesAsSets
<1>2. QED
  BY <1>1, ManagerInit, ManagerStep, PTL DEF Spec

\* A row has values of its own transaction, and none is open when the charger has
\* no transaction: SessionStore!RowsTellTheTruth.
THEOREM RowsAreTrue == Spec => []RowsTellTheTruth
<1>1. ManagerInv => RowsTellTheTruth
  <2> SUFFICES ASSUME ManagerInv, crashes = 0, reconnects = 0, NEW x \in DOMAIN rows
               PROVE  /\ \A value \in rows[x].meters : value[1] = x
                      /\ AllIdle /\ phase = "idle" => rows[x].status = "completed"
    BY DEF RowsTellTheTruth
  <2>1. charger = "present"
    BY DEF ManagerInv, ForgottenInv
  <2>2. /\ Matches(manager, Due) /\ handlers["current"] \in Handler /\ rows[x] \in Session
        /\ handlers["current"].pc = "inserting" => handlers["current"].id \notin DOMAIN rows
    BY <2>1, ManagerFacts
  <2>3. /\ x \in DOMAIN Due /\ rows[x].meters \subseteq Due[x].meters
        /\ handlers["current"].pc = "idle" => Due[x] = rows[x]
    <3>1. CASE handlers["current"].pc = "inserting"
      BY <2>2, <3>1 DEF Due, Inserted
    <3>2. CASE handlers["current"].pc \in {"loading", "committing"}
      <4>1. Due = [rows EXCEPT ![handlers["current"].id] =
                      Written(rows[handlers["current"].id], handlers["current"])]
        BY <3>2 DEF Due
      <4>2. rows[x].meters \subseteq Written(rows[x], handlers["current"]).meters
        BY <2>2 DEF Written, Session
      <4>3. QED
        BY <3>2, <4>1, <4>2
    <3>3. CASE handlers["current"].pc \notin {"inserting", "loading", "committing"}
      BY <3>3 DEF Due
    <3>4. QED
      BY <3>1, <3>2, <3>3
  <2>4. PICK i \in DOMAIN manager : manager[i].id = x /\ manager[i] = Due[x]
    BY <2>2, <2>3 DEF Matches
  <2>5. \A value \in rows[x].meters : value[1] = x
    BY <2>1, <2>3, <2>4 DEF ManagerInv, TruthInv
  <2>6. ASSUME AllIdle, phase = "idle" PROVE rows[x].status = "completed"
    <3>1. manager[i] = rows[x] /\ manager[i].status # "active"
      BY <2>1, <2>3, <2>4, <2>6 DEF AllIdle, Websockets, ManagerInv, TruthInv, Active
    <3>2. QED
      BY <2>2, <3>1 DEF Session
  <2>7. QED
    BY <2>5, <2>6
<1>2. QED
  BY <1>1, ManagerInit, ManagerStep, PTL DEF Spec
=============================================================================
