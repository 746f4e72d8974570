------------------------------ MODULE Sensors ------------------------------
(***************************************************************************)
(* SensorMapper (src/src/zwave/sensor-mapper.ts) and the table             *)
(* sensor_devices with its routes (db/repositories/sensor-repository.ts,   *)
(* api/routes/zone-routes.ts): what the alarm knows of its sensors, next   *)
(* to what the sensors are really like.  What a stored edge does to the    *)
(* panel is Panel's.                                                       *)
(*                                                                         *)
(* The mapper listens on the node objects of zwave-js, which it attaches   *)
(* to by node id at every "driver ready" and "node added".  Devices, radio *)
(* and zwave-js are external: a report reaches the mapper in the step in   *)
(* which the device sends it, or never.                                    *)
(***************************************************************************)
EXTENDS Functions

CONSTANTS
    Nodes,       \* Z-Wave ids of supported devices
    CategoryOf,  \* what the device catalog says a node is
    KindOf,      \* life-safety node -> its alarm kind in the catalog
    Placements,  \* placements that are tried, of an intrusion sensor
    Null, Keep,  \* a null column; a field a request leaves out
    Faults,      \* what may go wrong, of "driver", "crash", "radio" and "network"
    Requests     \* bodies of requests to the routes that are tried

Categories == {"intrusion", "life-safety"}
AlarmKinds == {"SMOKE", "CO"}
Aspects == {"open", "tampered", "low"}

ASSUME SensorsAssumption ==
    /\ CategoryOf \in [Nodes -> Categories]
    /\ KindOf \in [{n \in Nodes : CategoryOf[n] = "life-safety"} -> AlarmKinds]
    /\ "MAIN_DOOR" \in Placements
    /\ Null \notin Placements \cup AlarmKinds
    /\ Keep \notin Placements \cup AlarmKinds \cup Categories
    /\ Keep \notin BOOLEAN
    /\ Faults \subseteq {"driver", "crash", "radio", "network"}
    /\ Requests \subseteq
          [category   : Categories \cup {Keep},
           placement  : Placements \cup {Keep},
           armedHome  : BOOLEAN \cup {Keep},
           armedAway  : BOOLEAN \cup {Keep},
           alertsOnly : BOOLEAN \cup {Keep},
           alarmKind  : AlarmKinds \cup {Keep}]

VARIABLES
    rows,      \* table sensor_devices: node -> row (persisted)
    attached,  \* attachedNodeIds
    listening, \* nodes whose present object has the mapper's listeners
    ready,     \* the driver has a controller, and the process runs
    joined,    \* nodes of the controller
    status,    \* node -> what zwave-js has it as
    actual,    \* node -> aspects the device really is in
    reach,     \* nodes the radio reaches
    stale,     \* history: node -> what no report could tell of since it changed
    left       \* history: ids taken off since the driver was ready

mapper == <<attached, listening>>
network == <<ready, joined, status, left>>
vars == <<rows, mapper, network, actual, reach, stale>>

Rows == [category : Categories, placement : Placements \cup {Null},
         armedHome : BOOLEAN, armedAway : BOOLEAN, alertsOnly : BOOLEAN,
         alarmKind : AlarmKinds \cup {Null},
         faults : SUBSET Aspects, connectivity : {"online", "offline"}]

Init ==
    /\ rows = [n \in {} |-> {}]
    /\ attached = {}
    /\ listening = {}
    /\ ready = FALSE
    /\ joined = Nodes
    /\ status = [n \in Nodes |-> "unknown"]
    /\ actual \in [Nodes -> SUBSET Aspects]
    /\ reach = Nodes
    /\ stale = [n \in Nodes |-> {}]
    /\ left = {}

Assigned(n) == n \in DOMAIN rows

-----------------------------------------------------------------------------
(* The driver, the network and the listeners. *)
\* Mutant: the ids of the driver before are not forgotten.
StartKeepsIds ==
    /\ attached' = attached \cup joined
    /\ listening' = joined \ attached

(* SensorMapper.start, on every "driver ready". *)
Start ==
    /\ attached' = joined
    /\ listening' = joined

DriverReady ==
    /\ ~ready
    /\ ready' = TRUE
    /\ left' = {}
    /\ Start
    /\ UNCHANGED <<rows, joined, status, actual, reach, stale>>

DriverGone ==
    /\ ready
    /\ ready' = FALSE
    /\ status' = [n \in Nodes |-> "unknown"]
    /\ listening' = {}
    /\ UNCHANGED <<rows, joined, left, actual, reach, stale>>

DriverFails == "driver" \in Faults /\ DriverGone /\ UNCHANGED attached

(* The process stops: the mapper starts anew. *)
Crash == "crash" \in Faults /\ DriverGone /\ attached' = {}

(* A node is excluded, or the first half of replacing a failed one; nothing *)
(* listens to "node removed".                                               *)
NodeLeaves(n) ==
    /\ "network" \in Faults
    /\ ready
    /\ n \in joined
    /\ joined' = joined \ {n}
    /\ listening' = listening \ {n}
    /\ left' = left \cup {n}
    /\ status' = [status EXCEPT ![n] = "unknown"]
    /\ UNCHANGED <<rows, attached, ready, actual, reach, stale>>

(* "node added": attachNode on a new object; an id that is known is skipped.*)
NodeJoins(n) ==
    /\ ready
    /\ n \notin joined
    /\ joined' = joined \cup {n}
    /\ attached' = attached \cup {n}
    /\ listening' = IF n \in attached THEN listening ELSE listening \cup {n}
    /\ UNCHANGED <<rows, ready, status, left, actual, reach, stale>>

-----------------------------------------------------------------------------
(* What a report does to the row. *)
\* Mutant: a tamper is taken for a breach.
WithTamperBreaches(faults, t) == IF t THEN faults \cup {"open"} ELSE faults

(* applyTamper *)
WithTamper(faults, t) ==
    IF t THEN faults \cup {"tampered"} ELSE faults \ {"tampered"}

(* applyBreachState, applyBatteryLevel *)
WithBreach(faults, b) == IF b THEN faults \cup {"open"} ELSE faults \ {"open"}
WithBattery(faults, low) == IF low THEN faults \cup {"low"} ELSE faults \ {"low"}

(* handleValueUpdated, for the value of one aspect. *)
ByValue(faults, aspect, now) ==
    CASE aspect = "open"     -> WithBreach(faults, aspect \in now)
      [] aspect = "tampered" -> WithTamper(faults, aspect \in now)
      [] aspect = "low"      -> WithBattery(faults, aspect \in now)

(* handleNotification: an event says what began; the idle event of the type *)
(* Home Security is taken for the end of the tamper and of the breach.      *)
ByNotification(faults, homeSecurity, aspect, now) ==
    CASE aspect = "low"                    -> WithBattery(faults, TRUE)
      [] aspect = "tampered" /\ aspect \in now -> WithTamper(faults, TRUE)
      [] aspect = "open" /\ aspect \in now     -> WithBreach(faults, TRUE)
      [] homeSecurity /\ aspect \notin now     ->
              WithBreach(WithTamper(faults, FALSE), FALSE)
      [] OTHER                             -> WithBreach(faults, FALSE)

Heard(n) == ready /\ n \in reach /\ n \in listening

(* Nothing could have told: not a mapper that attaches to every node as it  *)
(* appears, or to an id that comes back after the last "driver ready".      *)
OutOfHearing(n) == ~ready \/ n \notin reach \/ n \notin joined \/ n \in left

Store(n, faults) ==
    rows' = IF Heard(n) /\ Assigned(n)
            THEN [rows EXCEPT ![n].faults = faults] ELSE rows

NowStale(n, aspects) ==
    stale' = IF Assigned(n) THEN [stale EXCEPT ![n] = aspects] ELSE stale

(* Door, cover or battery change, and the device sends the value ...        *)
Turned(n, aspect) ==
    IF aspect \in actual[n] THEN actual[n] \ {aspect} ELSE actual[n] \cup {aspect}

ValueChanges(n, aspect) ==
    /\ actual' = [actual EXCEPT ![n] = Turned(n, aspect)]
    /\ IF Assigned(n) THEN Store(n, ByValue(rows[n].faults, aspect, actual'[n]))
       ELSE UNCHANGED rows
    /\ NowStale(n, IF OutOfHearing(n) THEN stale[n] \cup {aspect} ELSE stale[n] \ {aspect})
    /\ UNCHANGED <<mapper, network, reach>>

(* ... or a notification, of type Home Security (tampers, motion) or of the *)
(* device's own: only that the battery is low, never that it is good again. *)
Notifies(n, homeSecurity, aspect) ==
    /\ Heard(n)
    /\ Assigned(n)
    /\ actual' = [actual EXCEPT ![n] = Turned(n, aspect)]
    /\ aspect = "low" => aspect \in actual'[n]
    /\ aspect = "tampered" => homeSecurity
    /\ Store(n, ByNotification(rows[n].faults, homeSecurity, aspect, actual'[n]))
    /\ NowStale(n, IF aspect \in actual'[n] \/ ~homeSecurity THEN stale[n] \ {aspect}
                   ELSE (stale[n] \ {"open", "tampered"})
                            \cup (actual'[n] \cap {"open", "tampered"}))
    /\ UNCHANGED <<mapper, network, reach>>

(* A device that wakes up, or is interviewed, sends all its values again.   *)
SendsAll(n) ==
    /\ Heard(n)
    /\ Assigned(n)
    /\ Store(n, actual[n])
    /\ NowStale(n, stale[n] \ Aspects)
    /\ UNCHANGED <<mapper, network, actual, reach>>

RadioChanges(n) ==
    /\ "radio" \in Faults
    /\ reach' = IF n \in reach THEN reach \ {n} ELSE reach \cup {n}
    /\ UNCHANGED <<rows, mapper, network, actual, stale>>

(* zwave-js finds the node dead or alive: handleConnectivityChange.         *)
StatusChanges(n) ==
    /\ ready
    /\ n \in joined
    /\ status' = [status EXCEPT ![n] = IF n \in reach THEN "alive" ELSE "dead"]
    /\ status' # status
    /\ rows' = IF n \in listening /\ Assigned(n)
               THEN [rows EXCEPT ![n].connectivity =
                        IF n \in reach THEN "online" ELSE "offline"]
               ELSE rows
    /\ NowStale(n, IF n \in left THEN stale[n] \cup {"online"} ELSE stale[n] \ {"online"})
    /\ UNCHANGED <<mapper, ready, joined, left, actual, reach>>

-----------------------------------------------------------------------------
(* The routes. *)
Edit == UNCHANGED <<mapper, network, actual, reach>>

Given(value, default) == IF value = Keep THEN default ELSE value

(* defaultArmed: motion sensors are armed away only. *)
DefaultHome(placement) == placement \notin {"ENTRYWAY", "ROOM"}
DefaultAway == TRUE

(* create: a new sensor is normal and online, whatever the device is. *)
NewRow(category, kind, ask) ==
    LET placement == IF category = "intrusion"
                     THEN Given(ask.placement, "MAIN_DOOR") ELSE Null
    IN  [category |-> category, placement |-> placement,
         armedHome |-> Given(ask.armedHome, DefaultHome(placement)),
         armedAway |-> Given(ask.armedAway, DefaultAway),
         alertsOnly |-> Given(ask.alertsOnly, FALSE),
         alarmKind |-> IF category = "life-safety" THEN kind ELSE Null,
         faults |-> {}, connectivity |-> "online"]

(* POST /zones/:id/sensors; the category is the catalog's. *)
Assign(n, ask) ==
    /\ Edit
    /\ ready
    /\ n \in joined
    /\ ~Assigned(n)
    /\ ask.category = CategoryOf[n]
    /\ LET kind == IF CategoryOf[n] = "life-safety"
                   THEN Given(ask.alarmKind, KindOf[n]) ELSE Null
       IN  rows' = [m \in DOMAIN rows \cup {n} |->
                       IF m = n THEN NewRow(CategoryOf[n], kind, ask) ELSE rows[m]]
    /\ stale' = [stale EXCEPT ![n] =
                    actual[n] \cup IF status[n] = "dead" THEN {"online"} ELSE {}]

(* updateConfig: the fields of the other category go; a new placement       *)
(* without armed flags brings its own.                                      *)
\* Mutant: the alarm kind stays when a sensor becomes an intrusion sensor.
UpdatedKeepsKind(row, ask) ==
    LET life == Given(ask.category, row.category) = "life-safety"
    IN  [row EXCEPT
            !.category = Given(ask.category, @),
            !.placement = IF life THEN Null ELSE Given(ask.placement, @),
            !.alertsOnly = ~life /\ Given(ask.alertsOnly, @),
            !.alarmKind = Given(ask.alarmKind, @)]

OrElse(value, default) == IF value = Null THEN default ELSE value

Updated(row, ask) ==
    LET category == Given(ask.category, row.category)
        life == category = "life-safety"
        placement == IF life THEN Null
                     ELSE OrElse(Given(ask.placement, row.placement), "MAIN_DOOR")
        byDefault == /\ placement # row.placement
                     /\ ask.armedHome = Keep /\ ask.armedAway = Keep
    IN  [row EXCEPT
            !.category = category,
            !.placement = placement,
            !.alertsOnly = ~life /\ Given(ask.alertsOnly, @),
            !.alarmKind = IF life THEN OrElse(Given(ask.alarmKind, @), "SMOKE") ELSE Null,
            !.armedHome = IF byDefault THEN DefaultHome(placement)
                          ELSE Given(ask.armedHome, @),
            !.armedAway = IF byDefault THEN DefaultAway ELSE Given(ask.armedAway, @)]

(* PATCH /sensors/:id; a body says something. *)
UpdateSensor(n, ask) ==
    /\ Edit
    /\ Assigned(n)
    /\ \E field \in DOMAIN ask : ask[field] # Keep
    /\ LET category == Given(ask.category, rows[n].category)
       IN  /\ ask.placement # Keep => category = "intrusion"
           /\ ask.alarmKind # Keep => category = "life-safety"
    /\ rows' = [rows EXCEPT ![n] = Updated(@, ask)]
    /\ UNCHANGED stale

WithoutSensors(gone) == Restrict(rows, DOMAIN rows \ gone)

(* DELETE /sensors/:id, or a zone with its sensors. *)
RemoveSensors(gone) ==
    /\ Edit
    /\ gone # {}
    /\ gone \subseteq DOMAIN rows
    /\ rows' = WithoutSensors(gone)
    /\ stale' = [n \in Nodes |-> IF n \in gone THEN {} ELSE stale[n]]

-----------------------------------------------------------------------------
Next ==
    \/ DriverReady \/ DriverFails \/ Crash
    \/ \E n \in Nodes :
          \/ NodeLeaves(n) \/ NodeJoins(n)
          \/ \E aspect \in Aspects :
                \/ ValueChanges(n, aspect)
                \/ \E homeSecurity \in BOOLEAN : Notifies(n, homeSecurity, aspect)
          \/ SendsAll(n) \/ RadioChanges(n) \/ StatusChanges(n)
          \/ \E ask \in Requests : Assign(n, ask) \/ UpdateSensor(n, ask)
    \/ \E gone \in SUBSET Nodes : RemoveSensors(gone)

Spec == Init /\ [][Next]_vars

-----------------------------------------------------------------------------
TypeOK ==
    /\ DOMAIN rows \subseteq Nodes
    /\ \A n \in DOMAIN rows : rows[n] \in Rows
    /\ attached \subseteq Nodes
    /\ listening \subseteq joined
    /\ ready \in BOOLEAN
    /\ joined \subseteq Nodes
    /\ status \in [Nodes -> {"unknown", "alive", "dead"}]
    /\ actual \in [Nodes -> SUBSET Aspects]
    /\ reach \subseteq Nodes
    /\ stale \in [Nodes -> SUBSET (Aspects \cup {"online"})]
    /\ left \subseteq Nodes

(* What the alarm decides on is what its sensors are: open, tampered, low   *)
(* and reachable as the row says, through driver replacements, restarts and *)
(* nodes that die and come back.  A row is wrong in the ways `stale` knows  *)
(* only: a change while driver, process or radio were away and not repeated *)
(* since, a sensor assigned while it is open, a node id that came back, an  *)
(* idle notification for one of two faults.                                 *)
MirrorsDevices ==
    \A n \in DOMAIN rows :
        /\ rows[n].faults \ stale[n] = actual[n] \ stale[n]
        /\ "online" \notin stale[n] /\ status[n] # "unknown"
              => (rows[n].connectivity = "offline") = (status[n] = "dead")

(* Whatever sequence of assignments and edits: a life-safety sensor says    *)
(* what it raises and has no placement, an intrusion sensor has a placement *)
(* and raises a burglary only (create, updateConfig).                       *)
ConfigCoherent ==
    \A n \in DOMAIN rows :
        /\ (rows[n].category = "life-safety") = (rows[n].alarmKind # Null)
        /\ (rows[n].category = "life-safety") = (rows[n].placement = Null)
=============================================================================
