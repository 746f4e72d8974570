---------------------------- MODULE SensorsProofs ----------------------------
(***************************************************************************)
(* For every set of nodes, placements and requests: the row of a sensor    *)
(* says what it raises, whatever is reported of it and asked for it.       *)
(***************************************************************************)
EXTENDS Sensors, TLAPS

(* A row as `create` and `updateConfig` leave it. *)
Coherent(row) ==
    /\ (row.category = "life-safety") = (row.alarmKind # Null)
    /\ (row.category = "life-safety") = (row.placement = Null)

GoodRow(row) == row \in Rows /\ Coherent(row)

RowsGood ==
    /\ DOMAIN rows \subseteq Nodes
    /\ \A n \in DOMAIN rows : GoodRow(rows[n])

NetworkType ==
    /\ attached \subseteq Nodes
    /\ listening \subseteq joined
    /\ ready \in BOOLEAN
    /\ joined \subseteq Nodes
    /\ status \in [Nodes -> {"unknown", "alive", "dead"}]
    /\ reach \subseteq Nodes
    /\ left \subseteq Nodes

DevicesType ==
    /\ actual \in [Nodes -> SUBSET Aspects]
    /\ stale \in [Nodes -> SUBSET (Aspects \cup {"online"})]

IInv == RowsGood /\ NetworkType /\ DevicesType

-----------------------------------------------------------------------------
(* The rows that routes make. *)
LEMMA RequestFields ==
    ASSUME NEW ask \in Requests
    PROVE  /\ ask.category \in Categories \cup {Keep}
           /\ ask.placement \in Placements \cup {Keep}
           /\ ask.armedHome \in BOOLEAN \cup {Keep}
           /\ ask.armedAway \in BOOLEAN \cup {Keep}
           /\ ask.alertsOnly \in BOOLEAN \cup {Keep}
           /\ ask.alarmKind \in AlarmKinds \cup {Keep}
           /\ \A field \in {"category", "placement", "armedHome", "armedAway",
                            "alertsOnly", "alarmKind"} : field \in DOMAIN ask
BY SensorsAssumption

LEMMA NewRowGood ==
    ASSUME NEW category \in Categories, NEW kind,
           category = "life-safety" => kind \in AlarmKinds, NEW ask \in Requests
    PROVE  GoodRow(NewRow(category, kind, ask))
<1> DEFINE row == NewRow(category, kind, ask)
           placement == IF category = "intrusion"
                        THEN Given(ask.placement, "MAIN_DOOR") ELSE Null
<1>1. /\ category = "intrusion" => placement \in Placements
      /\ category # "intrusion" => placement = Null
    BY RequestFields, SensorsAssumption DEF Given
<1>2. /\ Given(ask.armedHome, DefaultHome(placement)) \in BOOLEAN
      /\ Given(ask.armedAway, DefaultAway) \in BOOLEAN
      /\ Given(ask.alertsOnly, FALSE) \in BOOLEAN
    BY RequestFields DEF Given, DefaultHome, DefaultAway
<1>3. row \in Rows
    BY <1>1, <1>2 DEF NewRow, Rows, Categories
<1>4. Coherent(row)
    BY <1>1, SensorsAssumption DEF NewRow, Coherent, Categories
<1> QED BY <1>3, <1>4 DEF GoodRow

LEMMA UpdatedGood ==
    ASSUME NEW row, GoodRow(row), NEW ask \in Requests
    PROVE  GoodRow(Updated(row, ask))
<1> DEFINE category == Given(ask.category, row.category)
           life == category = "life-safety"
           placement == IF life THEN Null
                        ELSE OrElse(Given(ask.placement, row.placement), "MAIN_DOOR")
           kind == IF life THEN OrElse(Given(ask.alarmKind, row.alarmKind), "SMOKE") ELSE Null
           alertsOnly == ~life /\ Given(ask.alertsOnly, row.alertsOnly)
           byDefault == /\ placement # row.placement
                        /\ ask.armedHome = Keep /\ ask.armedAway = Keep
           home == IF byDefault THEN DefaultHome(placement)
                   ELSE Given(ask.armedHome, row.armedHome)
           away == IF byDefault THEN DefaultAway ELSE Given(ask.armedAway, row.armedAway)
           new == Updated(row, ask)
<1>1. row \in Rows
    BY DEF GoodRow
<1>2. category \in Categories
    BY <1>1, RequestFields DEF Given, Rows
<1>3. /\ life => placement = Null
      /\ ~life => placement \in Placements
    BY <1>1, RequestFields, SensorsAssumption DEF Given, OrElse, Rows
<1>4. /\ life => kind \in AlarmKinds
      /\ ~life => kind = Null
    BY <1>1, RequestFields, SensorsAssumption DEF Given, OrElse, Rows, AlarmKinds
<1>5. alertsOnly \in BOOLEAN /\ home \in BOOLEAN /\ away \in BOOLEAN
    BY <1>1, RequestFields DEF Given, Rows, DefaultHome, DefaultAway
<1>6. new \in Rows /\ new.category = category /\ new.placement = placement
      /\ new.alarmKind = kind
  <2>1. new = [row EXCEPT !.category = category, !.placement = placement,
                          !.alertsOnly = alertsOnly, !.alarmKind = kind,
                          !.armedHome = home, !.armedAway = away]
      BY Zenon DEF Updated
  <2>2. placement \in Placements \cup {Null} /\ kind \in AlarmKinds \cup {Null}
      BY <1>3, <1>4
  <2> HIDE DEF category, placement, alertsOnly, kind, home, away, new
  <2> QED BY <1>1, <1>2, <1>5, <2>1, <2>2 DEF Rows
<1>7. Coherent(new)
    BY <1>3, <1>4, <1>6, SensorsAssumption DEF Coherent
<1> QED BY <1>6, <1>7 DEF GoodRow

(* What a report does to one row. *)
LEMMA ReportedGood ==
    ASSUME NEW row, GoodRow(row), NEW faults \in SUBSET Aspects,
           NEW reached \in {"online", "offline"}
    PROVE  /\ GoodRow([row EXCEPT !.faults = faults])
           /\ GoodRow([row EXCEPT !.connectivity = reached])
BY DEF GoodRow, Rows, Coherent

LEMMA FaultsType ==
    ASSUME NEW faults \in SUBSET Aspects, NEW now \in SUBSET Aspects,
           NEW aspect \in Aspects, NEW homeSecurity \in BOOLEAN
    PROVE  /\ ByValue(faults, aspect, now) \in SUBSET Aspects
           /\ ByNotification(faults, homeSecurity, aspect, now) \in SUBSET Aspects
BY DEF ByValue, ByNotification, WithBreach, WithTamper, WithBattery, Aspects

LEMMA StoreGood ==
    ASSUME RowsGood, NEW n \in Nodes, NEW faults \in SUBSET Aspects, Store(n, faults)
    PROVE  RowsGood'
<1>1. CASE UNCHANGED rows
    BY <1>1 DEF RowsGood
<1>2. CASE Assigned(n) /\ rows' = [rows EXCEPT ![n].faults = faults]
  <2>1. GoodRow([rows[n] EXCEPT !.faults = faults])
      BY <1>2, ReportedGood DEF RowsGood, Assigned
  <2>2. /\ DOMAIN rows' = DOMAIN rows
        /\ \A m \in DOMAIN rows :
              rows'[m] = IF m = n THEN [rows[n] EXCEPT !.faults = faults] ELSE rows[m]
      BY <1>2
  <2> QED BY <2>1, <2>2 DEF RowsGood
<1> QED BY <1>1, <1>2 DEF Store

LEMMA NowStaleType ==
    ASSUME DevicesType, NEW n \in Nodes, NEW aspects \in SUBSET (Aspects \cup {"online"}),
           NowStale(n, aspects)
    PROVE  stale' \in [Nodes -> SUBSET (Aspects \cup {"online"})]
BY DEF DevicesType, NowStale

-----------------------------------------------------------------------------
LEMMA InitInv == Init => IInv
<1> SUFFICES ASSUME Init PROVE IInv
    OBVIOUS
<1>1. RowsGood
    BY DEF Init, RowsGood
<1>2. NetworkType
    BY DEF Init, NetworkType
<1>3. DevicesType
    BY DEF Init, DevicesType
<1> QED BY <1>1, <1>2, <1>3 DEF IInv

(* The driver, the network and the listeners leave rows and devices alone.  *)
LEMMA NetworkInv ==
    ASSUME IInv,
           \/ DriverReady \/ DriverFails \/ Crash
           \/ \E n \in Nodes : NodeLeaves(n) \/ NodeJoins(n) \/ RadioChanges(n)
    PROVE  IInv'
<1>1. UNCHANGED <<rows, actual, stale>>
    BY DEF DriverReady, DriverFails, Crash, DriverGone, NodeLeaves, NodeJoins, RadioChanges
<1>2. RowsGood' /\ DevicesType'
    BY <1>1 DEF IInv, RowsGood, DevicesType
<1>3. NetworkType'
  <2>0. NetworkType
      BY DEF IInv
  <2>1. CASE DriverReady
      BY <2>0, <2>1 DEF NetworkType, DriverReady, Start
  <2>2. CASE DriverFails \/ Crash
      BY <2>0, <2>2 DEF NetworkType, DriverFails, Crash, DriverGone
  <2>3. ASSUME NEW n \in Nodes, NodeLeaves(n) PROVE NetworkType'
      BY <2>0, <2>3 DEF NetworkType, NodeLeaves
  <2>4. ASSUME NEW n \in Nodes, NodeJoins(n) PROVE NetworkType'
      BY <2>0, <2>4 DEF NetworkType, NodeJoins
  <2>5. ASSUME NEW n \in Nodes, RadioChanges(n) PROVE NetworkType'
      BY <2>0, <2>5 DEF NetworkType, RadioChanges, mapper, network
  <2> QED BY <2>1, <2>2, <2>3, <2>4, <2>5
<1> QED BY <1>2, <1>3 DEF IInv

(* The device speaks. *)
LEMMA ReportInv ==
    ASSUME IInv, NEW n \in Nodes,
           \/ \E aspect \in Aspects :
                 \/ ValueChanges(n, aspect)
                 \/ \E homeSecurity \in BOOLEAN : Notifies(n, homeSecurity, aspect)
           \/ SendsAll(n)
    PROVE  IInv'
<1>1. RowsGood /\ NetworkType /\ DevicesType
    BY DEF IInv
<1>2. UNCHANGED <<attached, listening, ready, joined, status, left, reach>>
    BY DEF ValueChanges, Notifies, SendsAll, mapper, network
<1>3. NetworkType'
    BY <1>1, <1>2 DEF NetworkType
<1>4. Assigned(n) => rows[n].faults \in SUBSET Aspects
    BY <1>1 DEF RowsGood, GoodRow, Rows, Assigned
<1>5. actual[n] \in SUBSET Aspects /\ stale[n] \in SUBSET (Aspects \cup {"online"})
    BY <1>1 DEF DevicesType
<1>6. ASSUME NEW aspect \in Aspects
      PROVE  [actual EXCEPT ![n] = Turned(n, aspect)] \in [Nodes -> SUBSET Aspects]
    BY <1>1, <1>5 DEF DevicesType, Turned
<1>7. CASE \E aspect \in Aspects : ValueChanges(n, aspect)
  <2>1. PICK aspect \in Aspects : ValueChanges(n, aspect)
      BY <1>7
  <2>2. actual' \in [Nodes -> SUBSET Aspects]
      BY <1>6, <2>1 DEF ValueChanges
  <2>3. RowsGood'
    <3>1. CASE Assigned(n)
      <4>1. ByValue(rows[n].faults, aspect, actual'[n]) \in SUBSET Aspects
          BY <1>4, <2>2, <3>1, FaultsType
      <4> QED BY <1>1, <2>1, <3>1, <4>1, StoreGood DEF ValueChanges
    <3>2. CASE ~Assigned(n)
        BY <1>1, <2>1, <3>2 DEF ValueChanges, RowsGood
    <3> QED BY <3>1, <3>2
  <2>4. stale' \in [Nodes -> SUBSET (Aspects \cup {"online"})]
      BY <1>1, <1>5, <2>1, NowStaleType DEF ValueChanges
  <2> QED BY <1>3, <2>2, <2>3, <2>4 DEF IInv, DevicesType
<1>8. CASE \E aspect \in Aspects, homeSecurity \in BOOLEAN : Notifies(n, homeSecurity, aspect)
  <2>1. PICK aspect \in Aspects, homeSecurity \in BOOLEAN : Notifies(n, homeSecurity, aspect)
      BY <1>8
  <2>2. actual' \in [Nodes -> SUBSET Aspects]
      BY <1>6, <2>1 DEF Notifies
  <2>3. ByNotification(rows[n].faults, homeSecurity, aspect, actual'[n]) \in SUBSET Aspects
      BY <1>4, <2>1, <2>2, FaultsType DEF Notifies
  <2>4. RowsGood'
      BY <1>1, <2>1, <2>3, StoreGood DEF Notifies
  <2>5. stale' \in [Nodes -> SUBSET (Aspects \cup {"online"})]
      BY <1>1, <1>5, <2>1, <2>2, NowStaleType DEF Notifies
  <2> QED BY <1>3, <2>2, <2>4, <2>5 DEF IInv, DevicesType
<1>9. CASE SendsAll(n)
  <2>1. UNCHANGED actual
      BY <1>9 DEF SendsAll
  <2>2. RowsGood'
      BY <1>1, <1>5, <1>9, StoreGood DEF SendsAll
  <2>3. stale' \in [Nodes -> SUBSET (Aspects \cup {"online"})]
      BY <1>1, <1>5, <1>9, NowStaleType DEF SendsAll
  <2> QED BY <1>1, <1>3, <2>1, <2>2, <2>3 DEF IInv, DevicesType
<1> QED BY <1>7, <1>8, <1>9

LEMMA StatusInv ==
    ASSUME IInv, NEW n \in Nodes, StatusChanges(n)
    PROVE  IInv'
<1> DEFINE reached == IF n \in reach THEN "online" ELSE "offline"
<1>1. RowsGood /\ NetworkType /\ DevicesType
    BY DEF IInv
<1>2. NetworkType'
    BY <1>1 DEF NetworkType, StatusChanges, mapper
<1>3. DevicesType'
  <2>1. stale[n] \in SUBSET (Aspects \cup {"online"})
      BY <1>1 DEF DevicesType
  <2>2. stale' \in [Nodes -> SUBSET (Aspects \cup {"online"})]
      BY <1>1, <2>1, NowStaleType DEF StatusChanges
  <2> QED BY <1>1, <2>2 DEF DevicesType, StatusChanges
<1>4. RowsGood'
  <2>1. CASE UNCHANGED rows
      BY <1>1, <2>1 DEF RowsGood
  <2>2. CASE Assigned(n) /\ rows' = [rows EXCEPT ![n].connectivity = reached]
    <3>1. GoodRow([rows[n] EXCEPT !.connectivity = reached])
        BY <1>1, <2>2, ReportedGood DEF RowsGood, Assigned
    <3>2. /\ DOMAIN rows' = DOMAIN rows
          /\ \A m \in DOMAIN rows :
                rows'[m] = IF m = n THEN [rows[n] EXCEPT !.connectivity = reached] ELSE rows[m]
        BY <2>2
    <3> QED BY <1>1, <3>1, <3>2 DEF RowsGood
  <2> QED BY <2>1, <2>2 DEF StatusChanges
<1> QED BY <1>2, <1>3, <1>4 DEF IInv

-----------------------------------------------------------------------------
(* The routes leave the network alone. *)
LEMMA EditKeepsNetwork ==
    ASSUME IInv, Edit
    PROVE  NetworkType' /\ UNCHANGED actual
BY DEF IInv, NetworkType, Edit, mapper, network

LEMMA AssignInv ==
    ASSUME IInv, NEW n \in Nodes, NEW ask \in Requests, Assign(n, ask)
    PROVE  IInv'
<1> DEFINE kind == IF CategoryOf[n] = "life-safety"
                   THEN Given(ask.alarmKind, KindOf[n]) ELSE Null
           row == NewRow(CategoryOf[n], kind, ask)
<1>1. NetworkType' /\ UNCHANGED actual
    BY EditKeepsNetwork DEF Assign
<1>2. CategoryOf[n] \in Categories /\ (CategoryOf[n] = "life-safety" => kind \in AlarmKinds)
    BY RequestFields, SensorsAssumption DEF Given
<1>3. GoodRow(row)
    BY <1>2, NewRowGood
<1>4. /\ DOMAIN rows' = DOMAIN rows \cup {n}
      /\ \A m \in DOMAIN rows' : rows'[m] = IF m = n THEN row ELSE rows[m]
    BY DEF Assign
<1>5. RowsGood'
    BY <1>3, <1>4 DEF IInv, RowsGood
<1>6. DevicesType'
    BY <1>1 DEF IInv, DevicesType, Assign
<1> QED BY <1>1, <1>5, <1>6 DEF IInv

LEMMA UpdateSensorInv ==
    ASSUME IInv, NEW n \in Nodes, NEW ask \in Requests, UpdateSensor(n, ask)
    PROVE  IInv'
<1>1. NetworkType' /\ UNCHANGED actual
    BY EditKeepsNetwork DEF UpdateSensor
<1>2. n \in DOMAIN rows /\ GoodRow(rows[n])
    BY DEF UpdateSensor, Assigned, IInv, RowsGood
<1>3. GoodRow(Updated(rows[n], ask))
    BY <1>2, UpdatedGood
<1>4. /\ DOMAIN rows' = DOMAIN rows
      /\ \A m \in DOMAIN rows : rows'[m] = IF m = n THEN Updated(rows[n], ask) ELSE rows[m]
    BY DEF UpdateSensor
<1>5. RowsGood'
    BY <1>3, <1>4 DEF IInv, RowsGood
<1>6. DevicesType'
    BY <1>1 DEF IInv, DevicesType, UpdateSensor
<1> QED BY <1>1, <1>5, <1>6 DEF IInv

LEMMA RemoveSensorsInv ==
    ASSUME IInv, NEW gone \in SUBSET Nodes, RemoveSensors(gone)
    PROVE  IInv'
<1>1. NetworkType' /\ UNCHANGED actual
    BY EditKeepsNetwork DEF RemoveSensors
<1>2. RowsGood'
    BY DEF RemoveSensors, WithoutSensors, Restrict, IInv, RowsGood
<1>3. DevicesType'
    BY <1>1 DEF IInv, DevicesType, RemoveSensors
<1> QED BY <1>1, <1>2, <1>3 DEF IInv

LEMMA NextInv == IInv /\ [Next]_vars => IInv'
<1> SUFFICES ASSUME IInv, [Next]_vars PROVE IInv'
    OBVIOUS
<1>1. CASE DriverReady \/ DriverFails \/ Crash
    BY <1>1, NetworkInv
<1>2. ASSUME NEW n \in Nodes, NodeLeaves(n) \/ NodeJoins(n) \/ RadioChanges(n)
      PROVE  IInv'
    BY <1>2, NetworkInv
<1>3. ASSUME NEW n \in Nodes,
             \/ \E aspect \in Aspects :
                   \/ ValueChanges(n, aspect)
                   \/ \E homeSecurity \in BOOLEAN : Notifies(n, homeSecurity, aspect)
             \/ SendsAll(n)
      PROVE  IInv'
    BY <1>3, ReportInv
<1>4. ASSUME NEW n \in Nodes, StatusChanges(n) PROVE IInv'
    BY <1>4, StatusInv
<1>5. ASSUME NEW n \in Nodes, NEW ask \in Requests, Assign(n, ask) \/ UpdateSensor(n, ask)
      PROVE  IInv'
    BY <1>5, AssignInv, UpdateSensorInv
<1>6. CASE \E gone \in SUBSET Nodes : RemoveSensors(gone)
    BY <1>6, RemoveSensorsInv
<1>7. CASE UNCHANGED vars
    BY <1>7 DEF vars, mapper, network, IInv, RowsGood, NetworkType, DevicesType
<1> QED BY <1>1, <1>2, <1>3, <1>4, <1>5, <1>6, <1>7 DEF Next

LEMMA Invariant == Spec => []IInv
BY InitInv, NextInv, PTL DEF Spec

(* Type correctness: rows, listeners and network keep their form through    *)
(* driver replacements, crashes, nodes that come and go, and the routes.    *)
THEOREM TypeCorrect == Spec => []TypeOK
<1>1. IInv => TypeOK
    BY DEF IInv, RowsGood, GoodRow, NetworkType, DevicesType, TypeOK
<1> QED BY <1>1, Invariant, PTL

(* For any catalog and any requests: whatever category, placement and kind  *)
(* a sensor is given, in any order, a life-safety sensor has a kind and no  *)
(* placement, and an intrusion sensor a placement and no kind.              *)
THEOREM ConfigStaysCoherent == Spec => []ConfigCoherent
<1>1. IInv => ConfigCoherent
    BY DEF IInv, RowsGood, GoodRow, Coherent, ConfigCoherent
<1> QED BY <1>1, Invariant, PTL

-----------------------------------------------------------------------------
(* What the rows say of the devices.  A change that no listener hears is    *)
(* stale: between two drivers every node that did not leave is listened to, *)
(* and zwave-js forgets the status of its nodes with the driver.            *)
Listens ==
    /\ ready => /\ attached \subseteq joined \cup left
                /\ joined \ left \subseteq listening
    /\ ~ready => \A n \in Nodes : status[n] = "unknown"

Agree(faults, now, unsure) ==
    \A aspect \in Aspects : aspect \notin unsure => (aspect \in faults <=> aspect \in now)

Reachable(n) ==
    "online" \notin stale[n] /\ status[n] # "unknown"
        => (rows[n].connectivity = "offline") = (status[n] = "dead")

Faithful(n) == Agree(rows[n].faults, actual[n], stale[n]) /\ Reachable(n)

MirrorInv == Listens /\ \A n \in DOMAIN rows : Faithful(n)

LEMMA SameBeyond ==
    ASSUME NEW faults \in SUBSET Aspects, NEW now \in SUBSET Aspects, NEW unsure
    PROVE  faults \ unsure = now \ unsure <=> Agree(faults, now, unsure)
BY DEF Agree

(* A report of an aspect leaves row and device in agreement on it. *)
LEMMA ValueAgrees ==
    ASSUME NEW faults \in SUBSET Aspects, NEW now \in SUBSET Aspects,
           NEW then \in SUBSET Aspects, NEW unsure, NEW aspect \in Aspects,
           Agree(faults, now, unsure),
           \A other \in Aspects \ {aspect} : other \in then <=> other \in now
    PROVE  /\ Agree(ByValue(faults, aspect, then), then, unsure \ {aspect})
           /\ Agree(faults, then, unsure \cup {aspect})
           /\ Agree(ByValue(faults, aspect, then), then, unsure \cup {aspect})
BY DEF Agree, ByValue, WithBreach, WithTamper, WithBattery, Aspects

(* What a notification leaves stale: an idle one may have ended one of two. *)
UnsureAfter(unsure, homeSecurity, aspect, then) ==
    IF aspect \in then \/ ~homeSecurity THEN unsure \ {aspect}
    ELSE (unsure \ {"open", "tampered"}) \cup (then \cap {"open", "tampered"})

LEMMA NotificationAgrees ==
    ASSUME NEW faults \in SUBSET Aspects, NEW now \in SUBSET Aspects,
           NEW then \in SUBSET Aspects, NEW unsure, NEW aspect \in Aspects,
           NEW homeSecurity \in BOOLEAN,
           Agree(faults, now, unsure),
           \A other \in Aspects \ {aspect} : other \in then <=> other \in now,
           aspect = "low" => aspect \in then,
           aspect = "tampered" => homeSecurity
    PROVE  Agree(ByNotification(faults, homeSecurity, aspect, then), then,
                 UnsureAfter(unsure, homeSecurity, aspect, then))
<1>1. CASE aspect \in then
    BY <1>1 DEF Agree, UnsureAfter, ByNotification, WithBreach, WithTamper, WithBattery,
           Aspects
<1>2. CASE aspect \notin then /\ homeSecurity
    BY <1>2 DEF Agree, UnsureAfter, ByNotification, WithBreach, WithTamper, WithBattery,
           Aspects
<1>3. CASE aspect \notin then /\ ~homeSecurity
    BY <1>3 DEF Agree, UnsureAfter, ByNotification, WithBreach, WithTamper, WithBattery,
           Aspects
<1> QED BY <1>1, <1>2, <1>3

(* Rows, devices and stale aspects of one sensor change, of the others not. *)
LEMMA OneSensor ==
    ASSUME MirrorInv, NEW n \in Nodes, Listens',
           DOMAIN rows' = DOMAIN rows \/ DOMAIN rows' = DOMAIN rows \cup {n},
           \A m \in DOMAIN rows \ {n} :
               /\ rows'[m] = rows[m] /\ actual'[m] = actual[m]
               /\ stale'[m] = stale[m] /\ status'[m] = status[m],
           n \in DOMAIN rows' => Faithful(n)'
    PROVE  MirrorInv'
<1>1. ASSUME NEW m \in DOMAIN rows' PROVE Faithful(m)'
  <2>1. CASE m = n
      BY <1>1, <2>1
  <2>2. CASE m # n
    <3>1. m \in DOMAIN rows /\ Faithful(m)
        BY <1>1, <2>2 DEF MirrorInv
    <3> QED BY <2>2, <3>1 DEF Faithful, Reachable
  <2> QED BY <2>1, <2>2
<1> QED BY <1>1 DEF MirrorInv

LEMMA SameListeners ==
    ASSUME Listens, UNCHANGED <<attached, listening, ready, joined, status, left>>
    PROVE  Listens'
BY DEF Listens

(* Drivers and nodes come and go: no status is made up, and none outlives   *)
(* its driver or its node.                                                  *)
LEMMA NetworkMirrors ==
    ASSUME IInv, MirrorInv,
           \/ DriverReady \/ DriverFails \/ Crash
           \/ \E n \in Nodes : NodeLeaves(n) \/ NodeJoins(n) \/ RadioChanges(n)
    PROVE  MirrorInv'
<1>0. NetworkType /\ Listens
    BY DEF IInv, MirrorInv
<1>1. /\ UNCHANGED <<rows, actual, stale>>
      /\ \A n \in Nodes : status'[n] \in {status[n], "unknown"}
    BY <1>0 DEF DriverReady, DriverFails, Crash, DriverGone, NodeLeaves, NodeJoins,
                RadioChanges, mapper, network, NetworkType
<1>2. Listens'
  <2>1. CASE DriverReady
      BY <1>0, <2>1 DEF NetworkType, Listens, DriverReady, Start
  <2>2. CASE DriverFails \/ Crash
      BY <1>0, <2>2 DEF NetworkType, Listens, DriverFails, Crash, DriverGone
  <2>3. ASSUME NEW n \in Nodes, NodeLeaves(n) PROVE Listens'
      BY <1>0, <2>3 DEF NetworkType, Listens, NodeLeaves
  <2>4. ASSUME NEW n \in Nodes, NodeJoins(n) PROVE Listens'
      BY <1>0, <2>4 DEF NetworkType, Listens, NodeJoins
  <2>5. ASSUME NEW n \in Nodes, RadioChanges(n) PROVE Listens'
      BY <1>0, <2>5 DEF Listens, RadioChanges, mapper, network
  <2> QED BY <2>1, <2>2, <2>3, <2>4, <2>5
<1>3. ASSUME NEW n \in DOMAIN rows' PROVE Faithful(n)'
  <2>1. n \in Nodes /\ Faithful(n)
      BY <1>1, <1>3 DEF IInv, RowsGood, MirrorInv
  <2> QED BY <1>1, <2>1 DEF Faithful, Reachable
<1> QED BY <1>2, <1>3 DEF MirrorInv

(* A node that is not out of hearing is heard. *)
LEMMA HeardIfAudible ==
    ASSUME Listens, NEW n, ~Heard(n)
    PROVE  OutOfHearing(n)
BY DEF Listens, Heard, OutOfHearing

LEMMA TurnedOnly ==
    ASSUME IInv, NEW n \in Nodes, NEW aspect \in Aspects,
           actual' = [actual EXCEPT ![n] = Turned(n, aspect)]
    PROVE  /\ actual'[n] \in SUBSET Aspects
           /\ \A other \in Aspects \ {aspect} : other \in actual'[n] <=> other \in actual[n]
           /\ \A m \in Nodes \ {n} : actual'[m] = actual[m]
<1>1. actual \in [Nodes -> SUBSET Aspects] /\ actual[n] \in SUBSET Aspects
    BY DEF IInv, DevicesType
<1> QED BY <1>1 DEF Turned

(* The row of n after a report, heard or not, and what is stale then. *)
LEMMA Stored ==
    ASSUME IInv, NEW n \in Nodes, Assigned(n), NEW faults, NEW unsure,
           Store(n, faults), NowStale(n, unsure)
    PROVE  /\ DOMAIN rows' = DOMAIN rows
           /\ \A m \in DOMAIN rows \ {n} : rows'[m] = rows[m] /\ stale'[m] = stale[m]
           /\ rows'[n].faults = IF Heard(n) THEN faults ELSE rows[n].faults
           /\ rows'[n].connectivity = rows[n].connectivity
           /\ stale'[n] = unsure
<1>1. /\ n \in DOMAIN rows /\ rows[n] \in Rows /\ DOMAIN rows \subseteq Nodes
      /\ stale \in [Nodes -> SUBSET (Aspects \cup {"online"})]
    BY DEF IInv, RowsGood, GoodRow, DevicesType, Assigned
<1> QED BY <1>1 DEF Store, NowStale, Rows

LEMMA ReportMirrors ==
    ASSUME IInv, MirrorInv, NEW n \in Nodes,
           \/ \E aspect \in Aspects :
                 \/ ValueChanges(n, aspect)
                 \/ \E homeSecurity \in BOOLEAN : Notifies(n, homeSecurity, aspect)
           \/ SendsAll(n)
    PROVE  MirrorInv'
<1>1. /\ UNCHANGED <<attached, listening, ready, joined, status, left, reach>>
      /\ Listens /\ DOMAIN rows \subseteq Nodes
    BY DEF ValueChanges, Notifies, SendsAll, mapper, network, MirrorInv, IInv, RowsGood
<1>2. Listens'
    BY <1>1, SameListeners
<1>3. Assigned(n) => /\ Faithful(n) /\ rows[n].faults \in SUBSET Aspects
                     /\ actual[n] \in SUBSET Aspects /\ "online" \notin Aspects
    BY DEF MirrorInv, Assigned, IInv, RowsGood, GoodRow, Rows, DevicesType, Aspects
<1>4. CASE \E aspect \in Aspects : ValueChanges(n, aspect)
  <2>1. PICK aspect \in Aspects : ValueChanges(n, aspect)
      BY <1>4
  <2>2. /\ actual'[n] \in SUBSET Aspects
        /\ \A other \in Aspects \ {aspect} : other \in actual'[n] <=> other \in actual[n]
        /\ \A m \in Nodes \ {n} : actual'[m] = actual[m]
      BY <2>1, TurnedOnly DEF ValueChanges
  <2>3. CASE Assigned(n)
    <3> DEFINE faults == ByValue(rows[n].faults, aspect, actual'[n])
               unsure == IF OutOfHearing(n) THEN stale[n] \cup {aspect}
                                            ELSE stale[n] \ {aspect}
    <3>1. Store(n, faults) /\ NowStale(n, unsure)
        BY <2>1, <2>3 DEF ValueChanges
    <3>2. /\ DOMAIN rows' = DOMAIN rows
          /\ \A m \in DOMAIN rows \ {n} : rows'[m] = rows[m] /\ stale'[m] = stale[m]
          /\ rows'[n].faults = IF Heard(n) THEN faults ELSE rows[n].faults
          /\ rows'[n].connectivity = rows[n].connectivity
          /\ stale'[n] = unsure
        BY <2>3, <3>1, Stored
    <3>3. ~Heard(n) => OutOfHearing(n)
        BY <1>1, HeardIfAudible
    <3>4. Agree(rows'[n].faults, actual'[n], stale'[n])
      <4>1. Agree(rows[n].faults, actual[n], stale[n])
          BY <1>3, <2>3 DEF Faithful
      <4>2. /\ Agree(faults, actual'[n], stale[n] \ {aspect})
            /\ Agree(rows[n].faults, actual'[n], stale[n] \cup {aspect})
            /\ Agree(faults, actual'[n], stale[n] \cup {aspect})
          BY <1>3, <2>2, <2>3, <4>1, ValueAgrees
      <4> QED BY <3>2, <3>3, <4>2
    <3>5. Reachable(n)'
      <4>1. "online" \notin stale'[n] => "online" \notin stale[n]
          BY <1>3, <2>3, <3>2
      <4> QED BY <1>1, <1>3, <2>3, <3>2, <4>1 DEF Faithful, Reachable
    <3> QED BY <1>1, <1>2, <2>2, <3>2, <3>4, <3>5, OneSensor DEF Faithful
  <2>4. CASE ~Assigned(n)
    <3>1. UNCHANGED <<rows, stale>>
        BY <2>1, <2>4 DEF ValueChanges, NowStale
    <3> QED BY <1>1, <1>2, <2>2, <2>4, <3>1, OneSensor DEF Assigned
  <2> QED BY <2>3, <2>4
<1>5. CASE \E aspect \in Aspects, homeSecurity \in BOOLEAN : Notifies(n, homeSecurity, aspect)
  <2>1. PICK aspect \in Aspects, homeSecurity \in BOOLEAN : Notifies(n, homeSecurity, aspect)
      BY <1>5
  <2> DEFINE faults == ByNotification(rows[n].faults, homeSecurity, aspect, actual'[n])
             unsure == UnsureAfter(stale[n], homeSecurity, aspect, actual'[n])
  <2>2. /\ actual'[n] \in SUBSET Aspects
        /\ \A other \in Aspects \ {aspect} : other \in actual'[n] <=> other \in actual[n]
        /\ \A m \in Nodes \ {n} : actual'[m] = actual[m]
      BY <2>1, TurnedOnly DEF Notifies
  <2>3. Heard(n) /\ Assigned(n) /\ Store(n, faults) /\ NowStale(n, unsure)
      BY <2>1 DEF Notifies, UnsureAfter
  <2>4. /\ DOMAIN rows' = DOMAIN rows
        /\ \A m \in DOMAIN rows \ {n} : rows'[m] = rows[m] /\ stale'[m] = stale[m]
        /\ rows'[n].faults = faults
        /\ rows'[n].connectivity = rows[n].connectivity
        /\ stale'[n] = unsure
      BY <2>3, Stored
  <2>5. Agree(faults, actual'[n], unsure)
    <3>1. /\ Agree(rows[n].faults, actual[n], stale[n])
          /\ rows[n].faults \in SUBSET Aspects /\ actual[n] \in SUBSET Aspects
        BY <1>3, <2>3 DEF Faithful
    <3>2. /\ aspect = "low" => aspect \in actual'[n]
          /\ aspect = "tampered" => homeSecurity
        BY <2>1 DEF Notifies
    <3> QED BY <2>2, <3>1, <3>2, NotificationAgrees
  <2>6. Reachable(n)'
    <3>1. "online" \notin stale'[n] => "online" \notin stale[n]
        BY <1>3, <2>2, <2>3, <2>4 DEF UnsureAfter
    <3> QED BY <1>1, <1>3, <2>3, <2>4, <3>1 DEF Faithful, Reachable
  <2> QED BY <1>1, <1>2, <2>2, <2>4, <2>5, <2>6, OneSensor DEF Faithful
<1>6. CASE SendsAll(n)
  <2>1. Heard(n) /\ Assigned(n) /\ UNCHANGED actual
        /\ Store(n, actual[n]) /\ NowStale(n, stale[n] \ Aspects)
      BY <1>6 DEF SendsAll
  <2>2. /\ DOMAIN rows' = DOMAIN rows
        /\ \A m \in DOMAIN rows \ {n} : rows'[m] = rows[m] /\ stale'[m] = stale[m]
        /\ rows'[n].faults = actual[n]
        /\ rows'[n].connectivity = rows[n].connectivity
        /\ stale'[n] = stale[n] \ Aspects
      BY <2>1, Stored
  <2>3. Agree(rows'[n].faults, actual'[n], stale'[n])
      BY <2>1, <2>2 DEF Agree
  <2>4. Reachable(n)'
      BY <1>1, <1>3, <2>1, <2>2 DEF Faithful, Reachable
  <2> QED BY <1>1, <1>2, <2>1, <2>2, <2>3, <2>4, OneSensor DEF Faithful
<1> QED BY <1>4, <1>5, <1>6

(* zwave-js finds the node dead or alive, and the mapper hears of it unless *)
(* the id left and came back.                                               *)
LEMMA StatusMirrors ==
    ASSUME IInv, MirrorInv, NEW n \in Nodes, StatusChanges(n)
    PROVE  MirrorInv'
<1>1. /\ UNCHANGED <<attached, listening, ready, joined, left, actual, reach>>
      /\ ready /\ n \in joined /\ Listens /\ DOMAIN rows \subseteq Nodes
      /\ status \in [Nodes -> {"unknown", "alive", "dead"}]
      /\ stale \in [Nodes -> SUBSET (Aspects \cup {"online"})]
      /\ \A m \in DOMAIN rows : rows[m] \in Rows
    BY DEF StatusChanges, mapper, MirrorInv, IInv, RowsGood, GoodRow, NetworkType, DevicesType
<1>2. /\ status'[n] = IF n \in reach THEN "alive" ELSE "dead"
      /\ \A m \in Nodes \ {n} : status'[m] = status[m]
    BY <1>1 DEF StatusChanges
<1>3. Listens'
    BY <1>1 DEF Listens
<1>4. /\ DOMAIN rows' = DOMAIN rows
      /\ \A m \in DOMAIN rows : rows'[m].faults = rows[m].faults
      /\ \A m \in DOMAIN rows \ {n} : rows'[m] = rows[m] /\ stale'[m] = stale[m]
    BY <1>1 DEF StatusChanges, NowStale, Rows
<1>5. ASSUME n \in DOMAIN rows PROVE Faithful(n)'
  <2>1. stale'[n] = IF n \in left THEN stale[n] \cup {"online"} ELSE stale[n] \ {"online"}
      BY <1>1, <1>5 DEF StatusChanges, NowStale, Assigned
  <2>2. Agree(rows'[n].faults, actual'[n], stale'[n])
    <3>1. Agree(rows[n].faults, actual[n], stale[n])
        BY <1>5 DEF MirrorInv, Faithful
    <3> QED BY <1>1, <1>4, <1>5, <2>1, <3>1 DEF Agree, Aspects
  <2>3. n \notin left => n \in listening
      BY <1>1 DEF Listens
  <2>4. n \notin left => rows'[n].connectivity = IF n \in reach THEN "online" ELSE "offline"
      BY <1>1, <1>5, <2>3 DEF StatusChanges, Assigned, Rows
  <2> QED BY <1>1, <1>2, <2>1, <2>2, <2>4 DEF Faithful, Reachable
<1> QED BY <1>1, <1>2, <1>3, <1>4, <1>5, OneSensor

(* A new sensor starts out normal and online, and its row is stale for what *)
(* the device is not; an edit leaves what was reported alone.               *)
LEMMA EditMirrors ==
    ASSUME IInv, MirrorInv,
           \/ \E n \in Nodes, ask \in Requests : Assign(n, ask) \/ UpdateSensor(n, ask)
           \/ \E gone \in SUBSET Nodes : RemoveSensors(gone)
    PROVE  MirrorInv'
<1>1. UNCHANGED <<attached, listening, ready, joined, status, left, actual>> /\ Listens
    BY DEF Assign, UpdateSensor, RemoveSensors, Edit, mapper, network, MirrorInv
<1>2. Listens' /\ DOMAIN rows \subseteq Nodes
    BY <1>1, SameListeners DEF IInv, RowsGood
<1>3. stale \in [Nodes -> SUBSET (Aspects \cup {"online"})]
    BY DEF IInv, DevicesType
<1>4. ASSUME NEW n \in Nodes, NEW ask \in Requests, Assign(n, ask) PROVE MirrorInv'
  <2>1. /\ DOMAIN rows' = DOMAIN rows \cup {n}
        /\ \A m \in DOMAIN rows \ {n} : rows'[m] = rows[m] /\ stale'[m] = stale[m]
        /\ rows'[n].faults = {} /\ rows'[n].connectivity = "online"
        /\ stale'[n] = actual[n] \cup IF status[n] = "dead" THEN {"online"} ELSE {}
      BY <1>2, <1>3, <1>4 DEF Assign, NewRow
  <2>2. Faithful(n)'
      BY <1>1, <2>1 DEF Faithful, Agree, Reachable
  <2> QED BY <1>1, <1>2, <2>1, <2>2, OneSensor
<1>5. ASSUME NEW n \in Nodes, NEW ask \in Requests, UpdateSensor(n, ask) PROVE MirrorInv'
  <2>1. n \in DOMAIN rows /\ rows[n] \in Rows /\ Faithful(n)
      BY <1>5 DEF UpdateSensor, Assigned, IInv, RowsGood, GoodRow, MirrorInv
  <2>2. /\ DOMAIN rows' = DOMAIN rows
        /\ \A m \in DOMAIN rows \ {n} : rows'[m] = rows[m]
        /\ rows'[n].faults = rows[n].faults
        /\ rows'[n].connectivity = rows[n].connectivity
        /\ UNCHANGED stale
      BY <1>5, <2>1 DEF UpdateSensor, Updated, Rows
  <2>3. Faithful(n)'
      BY <1>1, <2>1, <2>2 DEF Faithful, Reachable
  <2> QED BY <1>1, <1>2, <2>2, <2>3, OneSensor
<1>6. ASSUME NEW gone \in SUBSET Nodes, RemoveSensors(gone) PROVE MirrorInv'
  <2>1. /\ DOMAIN rows' = DOMAIN rows \ gone
        /\ \A m \in DOMAIN rows' : rows'[m] = rows[m] /\ stale'[m] = stale[m]
      BY <1>2, <1>6 DEF RemoveSensors, WithoutSensors, Restrict
  <2>2. ASSUME NEW m \in DOMAIN rows' PROVE Faithful(m)'
    <3>1. Faithful(m)
        BY <2>1, <2>2 DEF MirrorInv
    <3> QED BY <1>1, <2>1, <2>2, <3>1 DEF Faithful, Reachable
  <2> QED BY <1>2, <2>2 DEF MirrorInv
<1> QED BY <1>4, <1>5, <1>6

LEMMA MirrorStep == IInv /\ MirrorInv /\ [Next]_vars => MirrorInv'
<1> SUFFICES ASSUME IInv, MirrorInv, [Next]_vars PROVE MirrorInv'
    OBVIOUS
<1>1. CASE DriverReady \/ DriverFails \/ Crash
    BY <1>1, NetworkMirrors
<1>2. ASSUME NEW n \in Nodes, NodeLeaves(n) \/ NodeJoins(n) \/ RadioChanges(n)
      PROVE  MirrorInv'
    BY <1>2, NetworkMirrors
<1>3. ASSUME NEW n \in Nodes,
             \/ \E aspect \in Aspects :
                   \/ ValueChanges(n, aspect)
                   \/ \E homeSecurity \in BOOLEAN : Notifies(n, homeSecurity, aspect)
             \/ SendsAll(n)
      PROVE  MirrorInv'
    BY <1>3, ReportMirrors
<1>4. ASSUME NEW n \in Nodes, StatusChanges(n) PROVE MirrorInv'
    BY <1>4, StatusMirrors
<1>5. ASSUME NEW n \in Nodes, NEW ask \in Requests, Assign(n, ask) \/ UpdateSensor(n, ask)
      PROVE  MirrorInv'
    BY <1>5, EditMirrors
<1>6. CASE \E gone \in SUBSET Nodes : RemoveSensors(gone)
    BY <1>6, EditMirrors
<1>7. CASE UNCHANGED vars
    BY <1>7 DEF vars, mapper, network, MirrorInv, Listens, Faithful, Reachable
<1> QED BY <1>1, <1>2, <1>3, <1>4, <1>5, <1>6, <1>7 DEF Next

(* For any nodes and any order of reports, drivers, restarts and requests,  *)
(* the alarm decides on what its sensors are, but for what is stale: every  *)
(* change that a present driver and process can hear reaches the row.       *)
THEOREM RowsMirrorDevices == Spec => []MirrorsDevices
<1>1. Init => MirrorInv
    BY DEF Init, MirrorInv, Listens
<1>2. IInv /\ MirrorInv => MirrorsDevices
  <2> SUFFICES ASSUME IInv, MirrorInv, NEW n \in DOMAIN rows
               PROVE  /\ rows[n].faults \ stale[n] = actual[n] \ stale[n]
                      /\ Reachable(n)
      BY DEF MirrorsDevices, Reachable
  <2>1. rows[n].faults \in SUBSET Aspects /\ actual[n] \in SUBSET Aspects
      BY DEF IInv, RowsGood, GoodRow, Rows, DevicesType
  <2> QED BY <2>1, SameBeyond DEF MirrorInv, Faithful
<1> QED BY <1>1, <1>2, MirrorStep, Invariant, PTL DEF Spec
=============================================================================
