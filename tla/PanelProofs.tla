---------------------------- MODULE PanelProofs ----------------------------
(***************************************************************************)
(* What the panel keeps for every house: any sensors, zones, settings and  *)
(* delays, with the process stopping between handlers or inside them; and  *)
(* what a keypad shows over every behaviour of every such panel, with any  *)
(* number of writes in flight.                                             *)
(***************************************************************************)
EXTENDS PanelRefinement, Keypad, AlarmEventLogProofs

LogType ==
    /\ log \in Seq(Rows)
    /\ Len(log) <= MaxEvents
    /\ timers \subseteq DOMAIN log

RowType ==
    /\ mode \in Modes
    /\ armedMode \in ArmedModes \cup {NoMode}
    /\ endsIn \in Nat \cup {NoDelay}
    /\ triggeredBy \in Causes
    /\ bypassed \subseteq Devices
    /\ disarmedZones \subseteq Zones
    /\ pendingTimer \in Timers

RestType ==
    /\ installed \subseteq Devices
    /\ fault \in [Devices -> SUBSET FaultKinds]
    /\ quickExitLeft \in [Devices -> Nat]
    /\ up \in BOOLEAN

(* An entry delay can always open its event: the bound on the log keeps a   *)
(* row for it.                                                              *)
RoomForDelay == mode = "alarm_pending" => Len(log) < MaxEvents

(* What holds of the row and of the timer depends on both, and on the room  *)
(* in the log: an entry delay that could not open its event would never end.*)
RowInv == RowType /\ RowIsCoherent /\ TimerMatchesMode
IInv == LogType /\ RowInv /\ RestType /\ RoomForDelay

LEMMA TypeParts == TypeOK <=> LogType /\ RowType /\ RestType
BY DEF TypeOK, LogType, RowType, RestType

LEMMA CauseOfType ==
    ASSUME NEW s \in Devices
    PROVE  CauseOf(s) \in Causes /\ CauseOf(s).sensor = s
BY PanelAssumption DEF CauseOf, Causes

LEMMA NoCauseType == NoCause \in Causes
BY DEF NoCause, Causes

LEMMA TimerTypes ==
    ASSUME NEW left \in Nat, NEW target \in ArmedModes, NEW cause \in Causes, NEW byUser
    PROVE  /\ NoTimer \in Timers /\ NoTimer.kind = "none"
           /\ ExitTimer(left, target, byUser) \in Timers
           /\ ExitTimer(left, target, byUser).kind = "exit"
           /\ ExitTimer(left, target, byUser).left = left
           /\ ExitTimer(left, target, byUser).target = target
           /\ EntryTimer(left, cause) \in Timers
           /\ EntryTimer(left, cause).kind = "entry"
           /\ EntryTimer(left, cause).left = left
BY NoCauseType DEF NoTimer, ExitTimer, EntryTimer, Timers

LEMMA NoTimerType == NoTimer \in Timers /\ NoTimer.kind = "none"
BY NoCauseType DEF NoTimer, Timers

(* The kinds a panel can raise are kinds. *)
LEMMA KindTypes ==
    /\ PersonKinds \subseteq Kinds
    /\ "BURGLARY" \in Kinds
    /\ \A s \in LifeSafety : AlarmKindOf[s] \in Kinds
BY PanelAssumption DEF Kinds

-----------------------------------------------------------------------------
(* The log part.                                                            *)

LEMMA OpenLog ==
    ASSUME LogType, NEW kind \in Kinds, NEW sensor \in Devices \cup {NoDevice},
           log' = Opened(log, kind, sensor), Len(log) < MaxEvents,
           \/ timers' = {}
           \/ timers' = timers
           \/ timers' = timers \cup {Len(log) + 1}
    PROVE  LogType' /\ Len(log') = Len(log) + 1
<1> DEFINE m == Opened(log, kind, sensor)
<1>1. /\ m \in Seq(Rows) /\ Len(m) = Len(log) + 1
      /\ DOMAIN m = DOMAIN log \cup {Len(log) + 1}
  BY OpenedType DEF LogType
<1>2. Len(log) \in Nat
  BY LenProperties DEF LogType
<1> HIDE DEF m
<1>3. log' = m
  BY DEF m
<1>4. log' \in Seq(Rows) /\ Len(log') = Len(log) + 1 /\ DOMAIN log' = DOMAIN log \cup {Len(log) + 1}
  BY <1>1, <1>3
<1>5. Len(log') <= MaxEvents
  BY <1>2, <1>4, PanelAssumption
<1>6. timers' \subseteq DOMAIN log'
  BY <1>4 DEF LogType
<1> QED
  BY <1>4, <1>5, <1>6 DEF LogType

(* Every other change of the log rewrites rows in place. *)
LEMMA RewriteLog ==
    ASSUME LogType,
           \/ \E rows : log' = Closed(log, rows)
           \/ \E next \in {"silenced", "timed_out"} : log' = MoveSounding(log, next)
           \/ \E k \in DOMAIN log : log' = Released(log, k)
           \/ log' = ResumedLog(log)
           \/ log' = Aged(log)
           \/ log' = log,
           timers' \subseteq timers \/ timers' \subseteq Held(log)
    PROVE  LogType' /\ Len(log') = Len(log)
<1>1. log \in Seq(Rows)
  BY DEF LogType
<1>2. log' \in Seq(Rows) /\ Len(log') = Len(log) /\ DOMAIN log' = DOMAIN log
  <2>1. CASE \E rows : log' = Closed(log, rows)
    BY <1>1, <2>1, ClosedType
  <2>2. CASE \E next \in {"silenced", "timed_out"} : log' = MoveSounding(log, next)
    BY <1>1, <2>2, MoveSoundingType
  <2>3. CASE \E k \in DOMAIN log : log' = Released(log, k)
    BY <1>1, <2>3, ReleasedType
  <2>4. CASE log' = ResumedLog(log)
    BY <1>1, <2>4, ResumedLogType
  <2>5. CASE log' = Aged(log)
    BY <1>1, <2>5, AgedType
  <2>6. CASE log' = log
    BY <1>1, <2>6
  <2> QED
    BY <2>1, <2>2, <2>3, <2>4, <2>5, <2>6
<1> QED
  BY <1>2 DEF LogType, Held

-----------------------------------------------------------------------------
(* The row and its timer, in the changes several actions share.             *)

LEMMA RaiseInvariant ==
    ASSUME IInv, up, up' = up, NEW kind \in Kinds, NEW cause \in Causes,
           Raise(kind, cause), Len(log) < MaxEvents,
           SoundsSiren(kind) \/ Len(log) + 1 < MaxEvents
    PROVE  LogType' /\ RowInv' /\ RoomForDelay'
<1>1. Len(log) \in Nat /\ LogType
  BY LenProperties DEF IInv, LogType
<1>2. LogType' /\ Len(log') = Len(log) + 1
  <2>1. cause.sensor \in Devices \cup {NoDevice}
    BY DEF Causes
  <2>3. \/ timers' = timers
        \/ timers' = timers \cup {Len(log) + 1}
    BY DEF Raise, OpenEvent
  <2> QED
    BY <1>1, <2>1, <2>3, OpenLog DEF Raise, OpenEvent
<1>3. CASE SoundsSiren(kind)
  <2>1. /\ mode' = "alarm_triggered" /\ endsIn' = NoDelay /\ triggeredBy' = cause
        /\ pendingTimer' = NoTimer
        /\ UNCHANGED <<armedMode, bypassed, disarmedZones>>
    BY <1>3 DEF Raise
  <2>2. RowType'
    BY <2>1, NoTimerType DEF IInv, RowInv, RowType, Modes
  <2>3. RowIsCoherent'
    BY <2>1 DEF RowIsCoherent, ArmedModes
  <2>4. TimerMatchesMode'
    BY <2>1, NoTimerType DEF TimerMatchesMode
  <2> QED
    BY <1>2, <2>1, <2>2, <2>3, <2>4 DEF RowInv, RoomForDelay
<1>4. CASE ~SoundsSiren(kind)
  <2>1. UNCHANGED <<panelRow, pendingTimer>>
    BY <1>4 DEF Raise
  <2>2. RowInv'
    BY <2>1 DEF IInv, RowInv, RowType, RowIsCoherent, TimerMatchesMode, panelRow
  <2>3. Len(log') < MaxEvents
    BY <1>1, <1>2, <1>4
  <2> QED
    BY <1>2, <2>2, <2>3 DEF RoomForDelay
<1> QED
  BY <1>3, <1>4

(* A handler that leaves the row and its timer alone. *)
LEMMA SameRow ==
    ASSUME RowInv, UNCHANGED <<panelRow, pendingTimer, up>>
    PROVE  RowInv' /\ mode' = mode
BY DEF RowInv, RowType, RowIsCoherent, TimerMatchesMode, panelRow

LEMMA ClearedRow ==
    ASSUME RowInv, ClearPanel, pendingTimer' = NoTimer
    PROVE  RowInv' /\ mode' = "disarmed"
<1>1. /\ mode' = "disarmed" /\ armedMode' = NoMode /\ endsIn' = NoDelay
      /\ triggeredBy' = NoCause /\ bypassed' = {} /\ disarmedZones' = {}
  BY DEF ClearPanel
<1>2. RowType'
  BY <1>1, NoTimerType, NoCauseType DEF RowType, Modes
<1>3. RowIsCoherent'
  BY <1>1 DEF RowIsCoherent, ArmedModes
<1>4. TimerMatchesMode'
  BY <1>1, NoTimerType DEF TimerMatchesMode
<1> QED
  BY <1>1, <1>2, <1>3, <1>4 DEF RowInv

(* A crash keeps the row, but for zones cleared or added. *)
LEMMA StoppedRow ==
    ASSUME RowInv, Stops,
           UNCHANGED <<mode, armedMode, endsIn, triggeredBy, bypassed>>,
           \/ UNCHANGED disarmedZones
           \/ disarmedZones' = {}
           \/ mode # "disarmed" /\ \E z \in Zones : disarmedZones' = disarmedZones \cup {z}
    PROVE  RowInv' /\ mode' = mode
<1>1. up' = FALSE /\ pendingTimer' = NoTimer
  BY DEF Stops
<1>2. RowType'
  BY <1>1, NoTimerType DEF RowInv, RowType
<1>3. RowIsCoherent'
  BY DEF RowInv, RowIsCoherent
<1>4. TimerMatchesMode'
  BY <1>1 DEF TimerMatchesMode
<1> QED
  BY <1>2, <1>3, <1>4 DEF RowInv

-----------------------------------------------------------------------------
(* One lemma for each group of actions.                                     *)

LEMMA StartEntryDelayInvariant ==
    ASSUME IInv, up, up' = up, NEW s \in Devices, mode \in ArmedModes, EntryDelayOf(s) > 0,
           StartEntryDelay(s), Len(log) + 1 < MaxEvents
    PROVE  LogType' /\ RowInv' /\ RoomForDelay'
<1> DEFINE n == EntryDelayOf(s)
<1>1. n \in Nat
  <2>1. \A m \in ArmedModes : EntryDelay[m] \in Nat
    BY PanelAssumption
  <2> QED
    BY <2>1 DEF EntryDelayOf
<1>2. Len(log) \in Nat /\ armedMode = mode
  BY LenProperties DEF IInv, LogType, RowInv, RowIsCoherent
<1>3. /\ mode' = "alarm_pending" /\ endsIn' = n /\ triggeredBy' = CauseOf(s)
      /\ pendingTimer' = EntryTimer(n, CauseOf(s))
      /\ UNCHANGED <<armedMode, bypassed, disarmedZones, log, timers>>
  BY DEF StartEntryDelay, events
<1>4. CauseOf(s) \in Causes
  BY CauseOfType
<1>5. /\ pendingTimer' \in Timers
      /\ pendingTimer'.kind = "entry"
      /\ pendingTimer'.left = n
  BY <1>1, <1>3, <1>4, TimerTypes DEF ArmedModes
<1> HIDE DEF n
<1>6. RowType'
  BY <1>1, <1>3, <1>4, <1>5 DEF IInv, RowInv, RowType, Modes
<1>7. RowIsCoherent'
  BY <1>1, <1>2, <1>3 DEF RowIsCoherent, ArmedModes, NoDelay
<1>8. TimerMatchesMode'
  BY <1>3, <1>5 DEF TimerMatchesMode
<1>9. LogType'
  BY <1>3 DEF IInv, LogType
<1>10. RoomForDelay'
  BY <1>2, <1>3, PanelAssumption DEF RoomForDelay
<1> QED
  BY <1>6, <1>7, <1>8, <1>9, <1>10 DEF RowInv

LEMMA UnreportedInvariant ==
    ASSUME IInv, UNCHANGED <<panelRow, pendingTimer, events, up>>
    PROVE  LogType' /\ RowInv' /\ RoomForDelay'
<1>1. RowInv' /\ mode' = mode
  BY SameRow DEF IInv
<1>2. log' = log /\ timers' = timers
  BY DEF events
<1> QED
  BY <1>1, <1>2 DEF IInv, LogType, RoomForDelay

LEMMA SensorFaultsInvariant ==
    ASSUME IInv, NEW s \in Devices, NEW kind \in FaultKinds, SensorFaults(s, kind)
    PROVE  IInv'
<1>1. up /\ up' = up /\ Len(log) + 1 < MaxEvents
  BY DEF SensorFaults, RoomForReport
<1>2. RestType'
  BY <1>1 DEF SensorFaults, IInv, RestType
<1>3. CauseOf(s) \in Causes /\ "BURGLARY" \in Kinds
  BY CauseOfType, KindTypes
<1>4. ASSUME NEW k \in Kinds, NEW cause \in Causes, cause = CauseOf(s), Raise(k, cause)
      PROVE  LogType' /\ RowInv' /\ RoomForDelay'
  <2>1. Len(log) \in Nat
    BY LenProperties DEF IInv, LogType
  <2>2. Len(log) < MaxEvents
    BY <1>1, <2>1, PanelAssumption
  <2> QED
    BY <1>1, <1>4, <2>2, RaiseInvariant
<1>5. ASSUME UNCHANGED <<panelRow, pendingTimer, events>>
      PROVE  LogType' /\ RowInv' /\ RoomForDelay'
  BY <1>1, <1>5, UnreportedInvariant
<1>6. CASE kind = "open"
  <2>1. ReportBreach(s)
    BY <1>6 DEF SensorFaults
  <2>2. CASE s \in LifeSafety
    <3>1. AlarmKindOf[s] \in Kinds
      BY <2>2, KindTypes
    <3>2. Raise(AlarmKindOf[s], CauseOf(s))
      BY <2>1, <2>2 DEF ReportBreach
    <3> QED
      BY <1>2, <1>3, <1>4, <3>1, <3>2 DEF IInv
  <2>3. CASE mode \in ArmedModes /\ EntryDelayOf(s) > 0 /\ StartEntryDelay(s)
    BY <1>1, <1>2, <2>3, StartEntryDelayInvariant DEF IInv
  <2>4. \/ s \in LifeSafety
        \/ UNCHANGED <<panelRow, pendingTimer, events>>
        \/ mode \in ArmedModes /\ EntryDelayOf(s) > 0 /\ StartEntryDelay(s)
        \/ Raise("BURGLARY", CauseOf(s))
    BY <2>1 DEF ReportBreach, StartsDelay
  <2> QED
    BY <1>2, <1>3, <1>4, <1>5, <2>2, <2>3, <2>4 DEF IInv
<1>7. CASE kind = "tampered"
  <2>1. \/ UNCHANGED <<panelRow, pendingTimer, events>>
        \/ Raise("BURGLARY", CauseOf(s))
    BY <1>7 DEF SensorFaults, ReportTamper
  <2> QED
    BY <1>2, <1>3, <1>4, <1>5, <2>1 DEF IInv
<1>8. CASE kind \notin {"open", "tampered"}
  <2>1. UNCHANGED <<panelRow, pendingTimer, events>>
    BY <1>8 DEF SensorFaults
  <2> QED
    BY <1>2, <1>5, <2>1 DEF IInv
<1> QED
  BY <1>6, <1>7, <1>8

LEMMA SensorsInvariant ==
    ASSUME IInv, NEW s \in Devices,
           \/ \E kind \in FaultKinds : SensorClears(s, kind)
           \/ StartQuickExit(s)
    PROVE  IInv'
<1>1. UNCHANGED <<panelRow, pendingTimer, events, up>>
  BY DEF SensorClears, StartQuickExit
<1>2. LogType' /\ RowInv' /\ RoomForDelay'
  BY <1>1, UnreportedInvariant
<1>3. quickExitLeft' \in [Devices -> Nat]
  BY PanelAssumption DEF SensorClears, StartQuickExit, NoQuickExit, IInv, RestType
<1>4. fault' \in [Devices -> SUBSET FaultKinds] /\ installed' = installed /\ up' \in BOOLEAN
  BY <1>1 DEF SensorClears, StartQuickExit, sensors, IInv, RestType
<1> QED
  BY <1>2, <1>3, <1>4 DEF IInv, RestType

LEMMA RemoveSensorInvariant ==
    ASSUME IInv, NEW s \in Devices, RemoveSensor(s)
    PROVE  IInv'
<1>1. RestType'
  BY DEF RemoveSensor, IInv, RestType
<1>2. triggeredBy' \in Causes
  BY DEF RemoveSensor, IInv, RowInv, RowType, Causes
<1>3. pendingTimer' \in Timers
  BY DEF RemoveSensor, IInv, RowInv, RowType, Timers
<1>4. /\ pendingTimer'.kind = pendingTimer.kind
      /\ pendingTimer'.left = pendingTimer.left
      /\ pendingTimer'.target = pendingTimer.target
  BY DEF RemoveSensor, IInv, RowInv, RowType, Timers
<1>5. /\ UNCHANGED <<mode, armedMode, endsIn, bypassed, disarmedZones, up, log, timers>>
  BY DEF RemoveSensor, events
<1>6. RowType'
  BY <1>2, <1>3, <1>5 DEF IInv, RowInv, RowType
<1>7. RowIsCoherent' /\ TimerMatchesMode'
  BY <1>4, <1>5 DEF IInv, RowInv, RowIsCoherent, TimerMatchesMode
<1>8. LogType' /\ RoomForDelay'
  BY <1>5 DEF IInv, LogType, RoomForDelay
<1> QED
  BY <1>1, <1>6, <1>7, <1>8 DEF IInv, RowInv

LEMMA RemoveRequesterInvariant ==
    ASSUME IInv, RemoveRequester
    PROVE  IInv'
<1>1. pendingTimer' \in Timers
  BY DEF RemoveRequester, IInv, RowInv, RowType, Timers
<1>2. /\ pendingTimer'.kind = pendingTimer.kind
      /\ pendingTimer'.left = pendingTimer.left
      /\ pendingTimer'.target = pendingTimer.target
  BY DEF RemoveRequester, IInv, RowInv, RowType, Timers
<1>3. UNCHANGED <<mode, armedMode, endsIn, triggeredBy, bypassed, disarmedZones, up,
                  log, timers, installed, fault, quickExitLeft>>
  BY DEF RemoveRequester, panelRow, events, sensors
<1>4. RowInv'
  BY <1>1, <1>2, <1>3 DEF IInv, RowInv, RowType, RowIsCoherent, TimerMatchesMode
<1>5. LogType' /\ RestType' /\ RoomForDelay'
  BY <1>3 DEF IInv, LogType, RestType, RoomForDelay
<1> QED
  BY <1>4, <1>5 DEF IInv

LEMMA PersonRaisesInvariant ==
    ASSUME IInv, NEW kind \in PersonKinds, PersonRaises(kind)
    PROVE  IInv'
<1>1. up /\ up' = up /\ Len(log) + 1 < MaxEvents /\ Raise(kind, NoCause)
  BY DEF PersonRaises, RoomForReport
<1>2. Len(log) \in Nat
  BY LenProperties DEF IInv, LogType
<1>3. Len(log) < MaxEvents
  BY <1>1, <1>2, PanelAssumption
<1>4. kind \in Kinds
  BY KindTypes
<1>5. LogType' /\ RowInv' /\ RoomForDelay'
  BY <1>1, <1>3, <1>4, NoCauseType, RaiseInvariant
<1>6. RestType'
  BY <1>1 DEF PersonRaises, sensors, IInv, RestType
<1> QED
  BY <1>5, <1>6 DEF IInv

(* Actions that move rows of the log and nothing else. *)
LEMMA EventsInvariant ==
    ASSUME IInv, Silence \/ TimeOutSiren \/ \E i \in DOMAIN log : Release(i)
    PROVE  IInv'
<1>1. UNCHANGED <<panelRow, sensors, pendingTimer, quickExitLeft, up>>
  BY DEF Silence, TimeOutSiren, Release
<1>2. timers' \subseteq timers
  BY DEF Silence, TimeOutSiren, Release
<1>3. \/ \E next \in {"silenced", "timed_out"} : log' = MoveSounding(log, next)
      \/ \E k \in DOMAIN log : log' = Released(log, k)
  BY DEF Silence, TimeOutSiren, Release
<1>4. LogType' /\ Len(log') = Len(log)
  BY <1>2, <1>3, RewriteLog DEF IInv
<1>5. RowInv' /\ mode' = mode
  BY <1>1, SameRow DEF IInv
<1>6. RestType'
  BY <1>1 DEF sensors, IInv, RestType
<1> QED
  BY <1>4, <1>5, <1>6 DEF IInv, RoomForDelay

LEMMA ArmInvariant ==
    ASSUME IInv, NEW m \in ArmedModes, NEW auto \in BOOLEAN, NEW bypass \in SUBSET Devices,
           NEW byUser \in BOOLEAN, Arm(m, auto, bypass, byUser)
    PROVE  IInv'
<1> DEFINE b == BypassFor(m, auto, bypass)
           t == ExitTimer(ExitDelay[m], m, byUser)
<1>1. ExitDelay[m] \in Nat
  BY PanelAssumption
<1>2. t \in Timers /\ t.kind = "exit" /\ t.left = ExitDelay[m] /\ t.target = m
  BY <1>1, NoCauseType, TimerTypes
<1>3. b \subseteq Devices
  BY DEF BypassFor, Faulted, Intrusion, IInv, RestType
<1>4. /\ mode' = "arming" /\ armedMode' = m /\ endsIn' = ExitDelay[m]
      /\ triggeredBy' = NoCause /\ bypassed' = b /\ disarmedZones' = {}
      /\ pendingTimer' = t
      /\ UNCHANGED <<installed, fault, log, timers, quickExitLeft, up>>
  BY DEF Arm, sensors, events
<1> HIDE DEF b, t
<1>5. RowType'
  BY <1>1, <1>2, <1>3, <1>4, NoCauseType DEF RowType, Modes
<1>6. RowIsCoherent'
  BY <1>1, <1>4 DEF RowIsCoherent, ArmedModes, NoDelay
<1>7. TimerMatchesMode'
  <2>1. m # NoMode
    BY PanelAssumption
  <2> QED
    BY <1>2, <1>4, <2>1 DEF TimerMatchesMode
<1>8. LogType' /\ RestType' /\ RoomForDelay'
  BY <1>4 DEF IInv, LogType, RestType, RoomForDelay
<1> QED
  BY <1>5, <1>6, <1>7, <1>8 DEF IInv, RowInv

LEMMA DisarmInvariant ==
    ASSUME IInv, Disarm
    PROVE  IInv'
<1>1. LogType' /\ Len(log') = Len(log)
  <2>1. \E rows : log' = Closed(log, rows) /\ timers' = timers \ rows
    BY DEF Disarm, EndEvents
  <2> QED
    BY <2>1, RewriteLog DEF IInv
<1>2. RestType'
  BY DEF Disarm, sensors, IInv, RestType
<1>3. up' = up
  BY DEF Disarm
<1>4. CASE mode = "disarmed"
  <2>1. UNCHANGED <<panelRow, pendingTimer>>
    BY <1>4 DEF Disarm
  <2> QED
    BY <1>1, <1>2, <1>3, <2>1, SameRow DEF IInv, RoomForDelay
<1>5. CASE mode # "disarmed"
  <2>1. ClearPanel /\ pendingTimer' = NoTimer
    BY <1>5 DEF Disarm
  <2> QED
    BY <1>1, <1>2, <2>1, ClearedRow DEF IInv, RoomForDelay
<1> QED
  BY <1>4, <1>5

LEMMA DisarmZoneInvariant ==
    ASSUME IInv, NEW z \in Zones, DisarmZone(z)
    PROVE  IInv'
<1>1. RestType' /\ up' = up
  BY DEF DisarmZone, sensors, IInv, RestType
<1>2. mode # "disarmed"
  BY DEF DisarmZone
<1>3. CASE Alarming /\ triggeredBy.zone = z
  <2>1. EndEvents(Burglaries(log)) /\ StandDown(z)
    BY <1>3 DEF DisarmZone
  <2>2. LogType' /\ Len(log') = Len(log)
    BY <2>1, RewriteLog DEF EndEvents, IInv
  <2>3. /\ endsIn' = NoDelay /\ triggeredBy' = NoCause /\ pendingTimer' = NoTimer
        /\ armedMode' = armedMode
    BY <2>1 DEF StandDown
  <2>4. CASE armedMode = NoMode
    <3>1. mode' = "disarmed" /\ bypassed' = {} /\ disarmedZones' = {}
      BY <2>1, <2>4 DEF StandDown
    <3>2. RowType'
      BY <2>3, <3>1, NoTimerType, NoCauseType DEF IInv, RowInv, RowType, Modes
    <3>3. RowIsCoherent'
      BY <2>3, <2>4, <3>1 DEF RowIsCoherent, ArmedModes
    <3>4. TimerMatchesMode'
      BY <2>3, <3>1, NoTimerType DEF TimerMatchesMode
    <3> QED
      BY <1>1, <2>2, <3>1, <3>2, <3>3, <3>4 DEF IInv, RowInv, RoomForDelay
  <2>5. CASE armedMode # NoMode
    <3>1. /\ mode' = armedMode /\ disarmedZones' = disarmedZones \cup {z}
          /\ bypassed' = bypassed
      BY <2>1, <2>5 DEF StandDown
    <3>2. armedMode \in ArmedModes
      BY <2>5 DEF IInv, RowInv, RowType
    <3>3. RowType'
      BY <2>3, <3>1, <3>2, NoTimerType, NoCauseType DEF IInv, RowInv, RowType, Modes
    <3>4. RowIsCoherent'
      BY <2>3, <3>1, <3>2 DEF RowIsCoherent, ArmedModes
    <3>5. TimerMatchesMode'
      BY <2>3, <3>1, <3>2, NoTimerType DEF TimerMatchesMode, ArmedModes
    <3>6. mode' # "alarm_pending"
      BY <3>1, <3>2 DEF ArmedModes
    <3> QED
      BY <1>1, <2>2, <3>3, <3>4, <3>5, <3>6 DEF IInv, RowInv, RoomForDelay
  <2> QED
    BY <2>4, <2>5
<1>4. CASE ~(Alarming /\ triggeredBy.zone = z)
  <2>1. /\ disarmedZones' = disarmedZones \cup {z}
        /\ UNCHANGED <<mode, armedMode, endsIn, triggeredBy, bypassed, log, timers, pendingTimer>>
    BY <1>4 DEF DisarmZone, events
  <2>2. RowInv'
    BY <1>1, <1>2, <2>1 DEF IInv, RowInv, RowType, RowIsCoherent, TimerMatchesMode
  <2>3. LogType' /\ RoomForDelay'
    BY <2>1 DEF IInv, LogType, RoomForDelay
  <2> QED
    BY <1>1, <2>2, <2>3 DEF IInv
<1> QED
  BY <1>3, <1>4

-----------------------------------------------------------------------------
(* Timers, crashes and restarts.                                            *)

(* completeArming, whether or not its security event can be recorded. *)
LEMMA ArmingCompletes ==
    ASSUME IInv, IsOver("exit"), CompleteArming, pendingTimer' = NoTimer,
           UNCHANGED <<armedMode, triggeredBy, bypassed, disarmedZones>>
    PROVE  RowInv' /\ mode' # "alarm_pending"
<1>1. mode = "arming" /\ pendingTimer.target = armedMode /\ armedMode \in ArmedModes
  <2>1. up /\ pendingTimer.kind = "exit"
    BY DEF IsOver
  <2>2. mode = "arming" /\ pendingTimer.target = armedMode /\ armedMode # NoMode
    BY <2>1 DEF IInv, RowInv, TimerMatchesMode
  <2> QED
    BY <2>1, <2>2 DEF IInv, RowInv, RowType, Timers
<1>2. mode' = armedMode /\ endsIn' = NoDelay
  BY <1>1 DEF CompleteArming
<1>3. RowType'
  BY <1>1, <1>2, NoTimerType DEF IInv, RowInv, RowType, Modes
<1>4. RowIsCoherent'
  BY <1>1, <1>2 DEF RowIsCoherent, ArmedModes
<1>5. TimerMatchesMode'
  BY <1>1, <1>2, NoTimerType DEF TimerMatchesMode, ArmedModes
<1> QED
  BY <1>1, <1>2, <1>3, <1>4, <1>5 DEF RowInv, ArmedModes

LEMMA ExitDelayInvariant ==
    ASSUME IInv, ExitDelayElapses \/ ExitDelayThrows
    PROVE  IInv'
<1>1. IsOver("exit") /\ CompleteArming /\ pendingTimer' = NoTimer
  BY DEF ExitDelayElapses, ExitDelayThrows, Stops
<1>2. UNCHANGED <<armedMode, triggeredBy, bypassed, disarmedZones, installed, fault, log>>
  BY DEF ExitDelayElapses, ExitDelayThrows, sensors, events
<1>3. RowInv' /\ mode' # "alarm_pending"
  BY <1>1, <1>2, ArmingCompletes
<1>4. timers' \subseteq timers /\ up' \in BOOLEAN /\ quickExitLeft' \in [Devices -> Nat]
  <2>1. CASE ExitDelayElapses
    BY <2>1 DEF ExitDelayElapses, events, IInv, RestType
  <2>2. CASE ExitDelayThrows
    <3>1. timers' = {} /\ up' = FALSE /\ quickExitLeft' = NoQuickExit
      BY <2>2 DEF ExitDelayThrows, Stops
    <3>2. NoQuickExit \in [Devices -> Nat]
      BY DEF NoQuickExit
    <3>3. up' \in BOOLEAN
      BY <3>1
    <3> QED
      BY <3>1, <3>2, <3>3
  <2> QED
    BY <2>1, <2>2
<1>5. LogType'
  BY <1>2, <1>4 DEF IInv, LogType
<1>6. RestType'
  BY <1>2, <1>4 DEF IInv, RestType
<1> QED
  BY <1>3, <1>5, <1>6 DEF IInv, RoomForDelay

LEMMA EntryDelayInvariant ==
    ASSUME IInv, EntryDelayElapses
    PROVE  IInv'
<1>1. IsOver("entry") /\ up /\ up' = up
  BY DEF EntryDelayElapses, IsOver
<1>2. mode = "alarm_pending"
  BY <1>1 DEF IInv, RowInv, TimerMatchesMode, IsOver
<1>3. Raise("BURGLARY", pendingTimer.cause) /\ pendingTimer.cause \in Causes
  BY <1>2 DEF EntryDelayElapses, IInv, RowInv, RowType, Timers
<1>4. Len(log) < MaxEvents /\ SoundsSiren("BURGLARY") /\ "BURGLARY" \in Kinds
  BY <1>2, KindTypes DEF IInv, RoomForDelay, SoundsSiren
<1>5. LogType' /\ RowInv' /\ RoomForDelay'
  <2>1. PICK cause \in Causes : Raise("BURGLARY", cause)
    BY <1>3
  <2> QED
    BY <1>1, <1>4, <2>1, RaiseInvariant
<1>6. RestType'
  BY <1>1 DEF EntryDelayElapses, sensors, IInv, RestType
<1> QED
  BY <1>5, <1>6 DEF IInv

LEMMA TickInvariant ==
    ASSUME IInv, Tick
    PROVE  IInv'
<1>1. /\ endsIn' = Less(endsIn)
      /\ pendingTimer' = [pendingTimer EXCEPT !.left = Less(@)]
      /\ quickExitLeft' = [s \in Devices |-> Less(quickExitLeft[s])]
      /\ log' = Aged(log)
      /\ UNCHANGED <<mode, armedMode, triggeredBy, bypassed, disarmedZones,
                     installed, fault, timers, up>>
  BY DEF Tick, sensors
<1>2. \A n \in Nat : Less(n) \in Nat
  BY DEF Less
<1>3. Less(NoDelay) = NoDelay /\ \A n \in Nat : Less(n) # NoDelay
  BY DEF Less, NoDelay
<1>4. /\ pendingTimer' \in Timers
      /\ pendingTimer'.kind = pendingTimer.kind
      /\ pendingTimer'.target = pendingTimer.target
      /\ pendingTimer'.left = Less(pendingTimer.left)
  BY <1>1, <1>2 DEF IInv, RowInv, RowType, Timers
<1>5. endsIn' \in Nat \cup {NoDelay} /\ (endsIn' # NoDelay <=> endsIn # NoDelay)
  BY <1>1, <1>2, <1>3 DEF IInv, RowInv, RowType, NoDelay
<1>6. RowType'
  BY <1>1, <1>4, <1>5 DEF IInv, RowInv, RowType
<1>7. RowIsCoherent'
  BY <1>1, <1>5 DEF IInv, RowInv, RowIsCoherent
<1>8. TimerMatchesMode'
  BY <1>1, <1>4 DEF IInv, RowInv, TimerMatchesMode
<1>9. RestType'
  BY <1>1, <1>2 DEF IInv, RestType
<1>10. LogType' /\ Len(log') = Len(log)
  BY <1>1, RewriteLog DEF IInv
<1> QED
  BY <1>1, <1>6, <1>7, <1>8, <1>9, <1>10 DEF IInv, RowInv, RoomForDelay

LEMMA StopsType ==
    ASSUME Stops, UNCHANGED installed, fault' \in [Devices -> SUBSET FaultKinds], RestType
    PROVE  RestType' /\ timers' = {}
BY DEF Stops, RestType, NoQuickExit

LEMMA CrashInvariant ==
    ASSUME IInv,
           \/ Crash
           \/ \E s \in Devices, kind \in FaultKinds : CrashBeforeReport(s, kind)
    PROVE  IInv'
<1>1. Stops /\ UNCHANGED <<panelRow, installed, log>>
  BY DEF Crash, CrashBeforeReport, sensors
<1>2. fault' \in [Devices -> SUBSET FaultKinds]
  BY DEF Crash, CrashBeforeReport, sensors, IInv, RestType
<1>3. RestType' /\ timers' = {}
  BY <1>1, <1>2, StopsType DEF IInv
<1>4. RowInv' /\ mode' = mode
  BY <1>1, StoppedRow DEF IInv, panelRow
<1> QED
  BY <1>1, <1>3, <1>4 DEF IInv, LogType, RoomForDelay

LEMMA CrashInRaiseInvariant ==
    ASSUME IInv,
           \/ \E kind \in PersonKinds : CrashInPersonRaises(kind)
           \/ \E s \in Devices, kind \in FaultKinds : CrashInSensorRaises(s, kind)
           \/ CrashInEntryDelay
    PROVE  IInv'
<1>1. Stops /\ UNCHANGED <<panelRow, installed>> /\ Len(log) + 1 < MaxEvents
  BY DEF CrashInPersonRaises, CrashInSensorRaises, CrashInEntryDelay, RoomForReport, sensors
<1>2. PICK kind \in Kinds, sensor \in Devices \cup {NoDevice} : log' = Opened(log, kind, sensor)
  <2>1. CASE \E kind \in PersonKinds : CrashInPersonRaises(kind)
    BY <2>1, KindTypes DEF CrashInPersonRaises
  <2>2. CASE CrashInEntryDelay
    BY <2>2, KindTypes DEF CrashInEntryDelay, IInv, RowInv, RowType, Timers, Causes
  <2>3. CASE \E s \in Devices, kind \in FaultKinds : CrashInSensorRaises(s, kind)
    BY <2>3, KindTypes DEF CrashInSensorRaises
  <2> QED
    BY <2>1, <2>2, <2>3
<1>3. RestType' /\ timers' = {}
  <2>1. fault' \in [Devices -> SUBSET FaultKinds]
    BY DEF CrashInPersonRaises, CrashInSensorRaises, CrashInEntryDelay, sensors, IInv, RestType
  <2> QED
    BY <1>1, <2>1, StopsType DEF IInv
<1>4. RowInv' /\ mode' = mode
  BY <1>1, StoppedRow DEF IInv, panelRow
<1>5. Len(log) \in Nat
  BY LenProperties DEF IInv, LogType
<1>6. Len(log) < MaxEvents
  BY <1>1, <1>5, PanelAssumption
<1>7. LogType' /\ Len(log') = Len(log) + 1
  BY <1>2, <1>3, <1>6, OpenLog DEF IInv
<1> QED
  BY <1>1, <1>3, <1>4, <1>7 DEF IInv, RoomForDelay

LEMMA CrashInEndInvariant ==
    ASSUME IInv, CrashInDisarm \/ \E z \in Zones : CrashInDisarmZone(z)
    PROVE  IInv'
<1>1. Stops /\ UNCHANGED <<mode, armedMode, endsIn, triggeredBy, bypassed, sensors>>
  BY DEF CrashInDisarm, CrashInDisarmZone
<1>2. \/ UNCHANGED disarmedZones
      \/ disarmedZones' = {}
      \/ mode # "disarmed" /\ \E z \in Zones : disarmedZones' = disarmedZones \cup {z}
  BY DEF CrashInDisarm, CrashInDisarmZone, Alarming
<1>3. \E rows : log' = Closed(log, rows)
  BY DEF CrashInDisarm, CrashInDisarmZone, PartlyClosed
<1>4. RestType' /\ timers' = {}
  BY <1>1, StopsType DEF IInv, RestType, sensors
<1>5. RowInv' /\ mode' = mode
  BY <1>1, <1>2, StoppedRow DEF IInv
<1>6. LogType' /\ Len(log') = Len(log)
  BY <1>3, <1>4, RewriteLog DEF IInv
<1> QED
  BY <1>4, <1>5, <1>6 DEF IInv, RoomForDelay

LEMMA RestartInvariant ==
    ASSUME IInv, Restart
    PROVE  IInv'
<1>1. /\ up' = TRUE /\ log' = ResumedLog(log) /\ timers' = Held(log)
      /\ pendingTimer' = ResumedTimer
      /\ UNCHANGED <<installed, fault, quickExitLeft>>
  BY DEF Restart, sensors
<1>2. RestType'
  BY <1>1 DEF IInv, RestType
<1>3. LogType' /\ Len(log') = Len(log)
  BY <1>1, RewriteLog DEF IInv
<1>4. CASE mode = "arming" /\ armedMode = NoMode
  <2>1. ClearPanel /\ pendingTimer' = NoTimer
    BY <1>1, <1>4 DEF Restart, ResumedTimer
  <2> QED
    BY <1>2, <1>3, <2>1, ClearedRow DEF IInv, RoomForDelay
<1>5. CASE ~(mode = "arming" /\ armedMode = NoMode)
  <2>1. UNCHANGED <<mode, armedMode, endsIn, triggeredBy, bypassed, disarmedZones>>
    BY <1>5 DEF Restart, panelRow
  <2>2. CASE mode = "arming"
    <3>1. armedMode \in ArmedModes /\ endsIn \in Nat
      BY <1>5, <2>2 DEF IInv, RowInv, RowType, RowIsCoherent
    <3>2. PICK byUser \in BOOLEAN : pendingTimer' = ExitTimer(endsIn, armedMode, byUser)
      BY <1>1, <2>2, <3>1, PanelAssumption DEF ResumedTimer
    <3>3. /\ pendingTimer' \in Timers /\ pendingTimer'.kind = "exit"
          /\ pendingTimer'.left = endsIn /\ pendingTimer'.target = armedMode
      BY <3>1, <3>2, NoCauseType, TimerTypes
    <3>4. RowType' /\ RowIsCoherent'
      BY <2>1, <3>3 DEF IInv, RowInv, RowType, RowIsCoherent
    <3>5. armedMode # NoMode
      BY <3>1, PanelAssumption
    <3>6. TimerMatchesMode'
      BY <2>1, <2>2, <3>3, <3>5 DEF TimerMatchesMode
    <3> QED
      BY <1>2, <1>3, <2>1, <2>2, <3>4, <3>6 DEF IInv, RowInv, RoomForDelay
  <2>3. CASE mode = "alarm_pending"
    <3>1. endsIn \in Nat /\ triggeredBy \in Causes
      BY <2>3 DEF IInv, RowInv, RowType, RowIsCoherent
    <3>2. pendingTimer' = EntryTimer(endsIn, triggeredBy)
      BY <1>1, <2>3 DEF ResumedTimer
    <3>3. /\ pendingTimer' \in Timers /\ pendingTimer'.kind = "entry"
          /\ pendingTimer'.left = endsIn
      BY <3>1, <3>2, TimerTypes DEF ArmedModes
    <3> QED
      BY <1>2, <1>3, <2>1, <2>3, <3>1, <3>3
         DEF IInv, RowInv, RowType, RowIsCoherent, TimerMatchesMode, RoomForDelay
  <2>4. CASE mode \notin {"arming", "alarm_pending"}
    <3>1. pendingTimer' = NoTimer
      BY <1>1, <2>4 DEF ResumedTimer
    <3> QED
      BY <1>2, <1>3, <2>1, <2>4, <3>1, NoTimerType
         DEF IInv, RowInv, RowType, RowIsCoherent, TimerMatchesMode, RoomForDelay
  <2> QED
    BY <2>2, <2>3, <2>4
<1> QED
  BY <1>4, <1>5

-----------------------------------------------------------------------------
LEMMA InitInvariant == Init => IInv
<1> SUFFICES ASSUME Init PROVE IInv
  OBVIOUS
<1>1. log \in Seq(Rows) /\ Len(log) = 0
  BY EmptySeq DEF Init
<1>2. LogType
  BY <1>1, PanelAssumption DEF Init, LogType
<1>3. RowType
  BY NoTimerType, NoCauseType DEF Init, RowType, Modes
<1>4. RowIsCoherent
  BY DEF Init, RowIsCoherent, ArmedModes, NoDelay
<1>5. TimerMatchesMode
  BY DEF Init, TimerMatchesMode
<1>6. RestType
  <2>1. up \in BOOLEAN
    BY DEF Init
  <2> QED
    BY <2>1 DEF Init, RestType, NoQuickExit
<1>7. RoomForDelay
  BY DEF Init, RoomForDelay
<1> QED
  BY <1>2, <1>3, <1>4, <1>5, <1>6, <1>7 DEF IInv, RowInv

LEMMA StutterInvariant ==
    ASSUME IInv, UNCHANGED vars
    PROVE  IInv'
BY DEF IInv, RowInv, LogType, RowType, RestType, RowIsCoherent, TimerMatchesMode, RoomForDelay, vars

LEMMA StepInvariant == IInv /\ [Next]_vars => IInv'
<1> SUFFICES ASSUME IInv, [Next]_vars PROVE IInv'
  OBVIOUS
<1>1. CASE \E kind \in PersonKinds : PersonRaises(kind) \/ CrashInPersonRaises(kind)
  BY <1>1, PersonRaisesInvariant, CrashInRaiseInvariant
<1>2. CASE Silence \/ TimeOutSiren \/ \E i \in DOMAIN log : Release(i)
  BY <1>2, EventsInvariant
<1>3. CASE \E s \in Devices, kind \in FaultKinds :
              \/ SensorFaults(s, kind) \/ SensorClears(s, kind)
              \/ CrashBeforeReport(s, kind) \/ CrashInSensorRaises(s, kind)
  BY <1>3, SensorFaultsInvariant, SensorsInvariant, CrashInvariant, CrashInRaiseInvariant
<1>4. CASE \E s \in Devices : StartQuickExit(s) \/ RemoveSensor(s)
  BY <1>4, SensorsInvariant, RemoveSensorInvariant
<1>5. CASE \E m \in ArmedModes, auto \in BOOLEAN, bypass \in SUBSET Devices, byUser \in BOOLEAN :
              Arm(m, auto, bypass, byUser)
  BY <1>5, ArmInvariant
<1>6. CASE RemoveRequester \/ Disarm \/ CrashInDisarm
  BY <1>6, RemoveRequesterInvariant, DisarmInvariant, CrashInEndInvariant
<1>7. CASE \E z \in Zones : DisarmZone(z) \/ CrashInDisarmZone(z)
  BY <1>7, DisarmZoneInvariant, CrashInEndInvariant
<1>8. CASE ExitDelayElapses \/ ExitDelayThrows \/ EntryDelayElapses
  BY <1>8, ExitDelayInvariant, EntryDelayInvariant
<1>9. CASE EntryDelayThrows \/ Crash
  BY <1>9, CrashInvariant DEF EntryDelayThrows
<1>10. CASE CrashInEntryDelay \/ Restart \/ Tick
  BY <1>10, CrashInRaiseInvariant, RestartInvariant, TickInvariant
<1>11. CASE UNCHANGED vars
  BY <1>11, StutterInvariant
<1> QED
  BY <1>1, <1>2, <1>3, <1>4, <1>5, <1>6, <1>7, <1>8, <1>9, <1>10, <1>11 DEF Next

(* Type correctness of the panel. *)
THEOREM TypeCorrect == Spec => []TypeOK
<1>1. IInv => TypeOK
  BY TypeParts DEF IInv, RowInv
<1> QED
  BY <1>1, InitInvariant, StepInvariant, PTL DEF Spec

(* clearPendingTimer and resume: the one timer is always the one the        *)
(* persisted mode calls for, with the persisted deadline and target.        *)
THEOREM TimerMatches == Spec => []TimerMatchesMode
<1>1. IInv => TimerMatchesMode
  BY DEF IInv, RowInv
<1> QED
  BY <1>1, InitInvariant, StepInvariant, PTL DEF Spec

(* commitPanel and its callers: the row is coherent, after a crash inside a *)
(* handler too.                                                             *)
THEOREM RowCoherent == Spec => []RowIsCoherent
<1>1. IInv => RowIsCoherent
  BY DEF IInv, RowInv
<1> QED
  BY <1>1, InitInvariant, StepInvariant, PTL DEF Spec

-----------------------------------------------------------------------------
(***************************************************************************)
(* The open events, between handlers: for every house, delay and number of *)
(* events within the limit of list(), as long as the process does not stop *)
(* between two statements of one handler.                                  *)
(***************************************************************************)

(* What a step makes of the open events. *)
KindsKept == \A i \in Active(log) : i \in DOMAIN log' /\ log'[i].kind = log[i].kind

NoneEnds == Active(log') = Active(log) /\ KindsKept

OneBegins(kind) ==
    \E n : /\ Active(log') = Active(log) \cup {n}
           /\ n \notin Active(log) /\ log'[n].kind = kind
           /\ KindsKept

SomeEnd(rows) == Active(log') = Active(log) \ rows /\ KindsKept

LEMMA Opening ==
    ASSUME LogType, NEW kind \in Kinds, NEW sensor \in Devices \cup {NoDevice},
           log' = Opened(log, kind, sensor)
    PROVE  OneBegins(kind)
<1> DEFINE m == Opened(log, kind, sensor)
           n == Len(log) + 1
<1>1. /\ DOMAIN m = DOMAIN log \cup {n} /\ n \notin DOMAIN log
      /\ \A i \in DOMAIN log : m[i] = log[i]
      /\ m[n] = NewRow(kind, sensor)
    BY OpenedType DEF LogType
<1> HIDE DEF m
<1>2. log' = m
    BY DEF m
<1>3. log'[n].kind = kind /\ ~log'[n].ended
    BY <1>1, <1>2 DEF NewRow
<1> QED BY <1>1, <1>2, <1>3 DEF OneBegins, KindsKept, Active

LEMMA EndingKeepsKind ==
    ASSUME NEW row \in Rows
    PROVE  EndedRow(row).kind = row.kind
BY DEF EndedRow, Rows

LEMMA Closing ==
    ASSUME LogType, NEW rows, log' = Closed(log, rows)
    PROVE  SomeEnd(rows)
<1>1. log \in Seq(Rows) /\ \A i \in DOMAIN log : log[i] \in Rows
    BY ElementOfSeq, LenProperties DEF LogType
<1>2. /\ DOMAIN log' = DOMAIN log
      /\ \A i \in DOMAIN log : log'[i] = IF i \in rows THEN EndedRow(log[i]) ELSE log[i]
    BY <1>1, ClosedType
<1>3. \A i \in DOMAIN log : EndedRow(log[i]).ended /\ EndedRow(log[i]).kind = log[i].kind
    BY <1>1, EndedRowType, EndingKeepsKind
<1> QED BY <1>2, <1>3 DEF SomeEnd, KindsKept, Active

LEMMA Rewriting ==
    ASSUME LogType,
           \/ \E next \in {"silenced", "timed_out"} : log' = MoveSounding(log, next)
           \/ \E k \in DOMAIN log : log' = Released(log, k)
           \/ log' = ResumedLog(log)
           \/ log' = Aged(log)
           \/ log' = log
    PROVE  NoneEnds
<1>1. log \in Seq(Rows) /\ \A i \in DOMAIN log : log[i] \in Rows
    BY ElementOfSeq, LenProperties DEF LogType
<1> DEFINE Kept == /\ DOMAIN log' = DOMAIN log
                   /\ \A i \in DOMAIN log : /\ log'[i].ended = log[i].ended
                                            /\ log'[i].kind = log[i].kind
<1>2. ASSUME NEW next \in {"silenced", "timed_out"}, log' = MoveSounding(log, next)
      PROVE  Kept
  <2>1. /\ DOMAIN log' = DOMAIN log
        /\ \A i \in DOMAIN log : log'[i] = IF i \in Sounding(log)
                                           THEN [log[i] EXCEPT !.siren = next] ELSE log[i]
      BY <1>1, <1>2, MoveSoundingType
  <2> QED BY <1>1, <2>1 DEF Rows
<1>3. ASSUME NEW k \in DOMAIN log, log' = Released(log, k)
      PROVE  Kept
  <2>1. /\ DOMAIN log' = DOMAIN log
        /\ \A i \in DOMAIN log : log'[i] = IF i = k /\ log[i].dispatch = "held"
                                           THEN [log[i] EXCEPT !.dispatch = "queued"] ELSE log[i]
      BY <1>1, <1>3, ReleasedType
  <2> QED BY <1>1, <2>1 DEF Rows
<1>4. ASSUME log' = ResumedLog(log)
      PROVE  Kept
  <2>1. /\ DOMAIN log' = DOMAIN log
        /\ \A i \in DOMAIN log :
              log'[i] = IF i \in Sounding(log) /\ log[i].age >= SirenDuration
                        THEN [log[i] EXCEPT !.siren = "timed_out"] ELSE log[i]
      BY <1>1, <1>4, ResumedLogType
  <2> QED BY <1>1, <2>1 DEF Rows
<1>5. ASSUME log' = Aged(log)
      PROVE  Kept
    BY <1>1, <1>5, AgedType
<1>6. Kept
    BY <1>2, <1>3, <1>4, <1>5
<1> QED BY <1>6 DEF NoneEnds, KindsKept, Active

-----------------------------------------------------------------------------
(* What relates mode, zones and open events. *)
AlarmInv == OpenBurglaryShows /\ AlarmHasEvent /\ NoDelayInDisarmedZone

KeepsEmergencies ==
    \A i \in Active(log) :
        i \notin Active(log') /\ log[i].kind # "BURGLARY" => mode' = "disarmed"

Good == AlarmInv' /\ KeepsEmergencies

(* A step that ends no event, and neither begins nor ends an alarm. *)
LEMMA QuietStep ==
    ASSUME AlarmInv, NoneEnds, NoDelayInDisarmedZone',
           mode' = mode \/ (mode # "alarm_triggered" /\ mode' # "alarm_triggered")
    PROVE  Good
<1>1. OpenBurglaryShows' /\ AlarmHasEvent'
    BY DEF AlarmInv, OpenBurglaryShows, AlarmHasEvent, NoneEnds, KindsKept
<1>2. KeepsEmergencies
    BY DEF KeepsEmergencies, NoneEnds
<1> QED BY <1>1, <1>2 DEF Good, AlarmInv

LEMMA SamePanel ==
    ASSUME AlarmInv, NoneEnds, UNCHANGED <<mode, disarmedZones>>, triggeredBy'.zone = triggeredBy.zone
    PROVE  Good
<1>1. NoDelayInDisarmedZone'
    BY DEF AlarmInv, NoDelayInDisarmedZone
<1> QED BY <1>1, QuietStep

LEMMA RaiseStep ==
    ASSUME IInv, AlarmInv, NEW kind \in Kinds, NEW cause \in Causes, Raise(kind, cause)
    PROVE  Good
<1>1. OneBegins(kind)
    BY Opening DEF IInv, Raise, OpenEvent, Causes
<1>2. KeepsEmergencies
    BY <1>1 DEF KeepsEmergencies, OneBegins
<1>3. CASE SoundsSiren(kind)
  <2>1. mode' = "alarm_triggered"
      BY <1>3 DEF Raise
  <2>2. AlarmHasEvent'
      BY <1>1, <1>3 DEF OneBegins, AlarmHasEvent
  <2> QED BY <1>2, <2>1, <2>2 DEF Good, AlarmInv, OpenBurglaryShows, NoDelayInDisarmedZone
<1>4. CASE ~SoundsSiren(kind)
  <2>1. UNCHANGED panelRow
      BY <1>4 DEF Raise
  <2>2. kind # "BURGLARY"
      BY <1>4 DEF SoundsSiren
  <2>3. OpenBurglaryShows' /\ AlarmHasEvent'
      BY <1>1, <2>1, <2>2
         DEF AlarmInv, OneBegins, KindsKept, OpenBurglaryShows, AlarmHasEvent, panelRow
  <2>4. NoDelayInDisarmedZone'
      BY <2>1 DEF AlarmInv, NoDelayInDisarmedZone, panelRow
  <2> QED BY <1>2, <2>3, <2>4 DEF Good, AlarmInv
<1> QED BY <1>3, <1>4

LEMMA SensorFaultsStep ==
    ASSUME IInv, AlarmInv, NEW s \in Devices, NEW kind \in FaultKinds, SensorFaults(s, kind)
    PROVE  Good
<1>1. CauseOf(s) \in Causes /\ "BURGLARY" \in Kinds /\ (s \in LifeSafety => AlarmKindOf[s] \in Kinds)
    BY CauseOfType, KindTypes
<1>2. ASSUME UNCHANGED <<panelRow, pendingTimer, events>> PROVE Good
  <2>1. NoneEnds
      BY <1>2, Rewriting DEF IInv, events
  <2> QED BY <1>2, <2>1, SamePanel DEF panelRow
<1>3. ASSUME NEW k \in Kinds, Raise(k, CauseOf(s)) PROVE Good
    BY <1>1, <1>3, RaiseStep
<1>4. ASSUME StartEntryDelay(s), StartsDelay(s), ~IgnoresBreach(s) PROVE Good
  <2>1. NoneEnds
      BY <1>4, Rewriting DEF IInv, StartEntryDelay, events
  <2>2. mode \in ArmedModes /\ ZoneOf[s] \notin disarmedZones
      BY <1>4 DEF StartsDelay, IgnoresBreach, Monitored
  <2>3. mode' = "alarm_pending" /\ triggeredBy'.zone = ZoneOf[s] /\ UNCHANGED disarmedZones
      BY <1>4 DEF StartEntryDelay, CauseOf
  <2>4. NoDelayInDisarmedZone'
      BY <2>2, <2>3 DEF NoDelayInDisarmedZone
  <2> QED BY <2>1, <2>2, <2>3, <2>4, QuietStep DEF ArmedModes
<1>5. CASE kind = "open"
  <2>1. ReportBreach(s)
      BY <1>5 DEF SensorFaults
  <2> QED BY <1>1, <1>2, <1>3, <1>4, <2>1 DEF ReportBreach
<1>6. CASE kind = "tampered"
  <2>1. ReportTamper(s)
      BY <1>6 DEF SensorFaults
  <2> QED BY <1>1, <1>2, <1>3, <2>1 DEF ReportTamper
<1>7. CASE kind \notin {"open", "tampered"}
    BY <1>2, <1>7 DEF SensorFaults
<1> QED BY <1>5, <1>6, <1>7

LEMMA DisarmStep ==
    ASSUME MaxEvents <= ListLimit, IInv, AlarmInv, Disarm
    PROVE  Good
<1>1. Listed(log) = Active(log)
    BY LenProperties, PanelAssumption, EventLogAssumption, EveryOpenIsListed DEF IInv, LogType
<1>2. Active(log') = {}
    BY <1>1, Closing DEF IInv, Disarm, EndEvents, SomeEnd
<1>3. mode' = "disarmed"
    BY DEF Disarm, ClearPanel, panelRow
<1> QED BY <1>2, <1>3 DEF Good, AlarmInv, OpenBurglaryShows, AlarmHasEvent,
            NoDelayInDisarmedZone, KeepsEmergencies

LEMMA DisarmZoneStep ==
    ASSUME MaxEvents <= ListLimit, IInv, AlarmInv, NEW z \in Zones, DisarmZone(z)
    PROVE  Good
<1>1. CASE Alarming /\ triggeredBy.zone = z
  <2>1. Listed(log) = Active(log)
      BY LenProperties, PanelAssumption, EventLogAssumption, EveryOpenIsListed DEF IInv, LogType
  <2>2. SomeEnd(Burglaries(log))
      BY <1>1, Closing DEF IInv, DisarmZone, EndEvents
  <2>3. mode' \notin {"alarm_pending", "alarm_triggered"}
      BY <1>1 DEF DisarmZone, StandDown, IInv, RowInv, RowType, ArmedModes
  <2>4. \A i \in Active(log) : i \in Burglaries(log) <=> log[i].kind = "BURGLARY"
      BY <2>1 DEF Burglaries
  <2> QED BY <2>2, <2>3, <2>4 DEF Good, AlarmInv, SomeEnd, KindsKept, OpenBurglaryShows,
              AlarmHasEvent, NoDelayInDisarmedZone, KeepsEmergencies
<1>2. CASE ~(Alarming /\ triggeredBy.zone = z)
  <2>1. /\ disarmedZones' = disarmedZones \cup {z}
        /\ UNCHANGED <<mode, triggeredBy, log>>
      BY <1>2 DEF DisarmZone, events
  <2>2. NoneEnds
      BY <2>1, Rewriting DEF IInv
  <2>3. NoDelayInDisarmedZone'
      BY <1>2, <2>1 DEF AlarmInv, NoDelayInDisarmedZone, Alarming
  <2> QED BY <2>1, <2>2, <2>3, QuietStep
<1> QED BY <1>1, <1>2

(* The modes in between: a delay ends, a session begins. *)
LEMMA ArmingStep ==
    ASSUME IInv, AlarmInv,
           \/ ExitDelayElapses \/ ExitDelayThrows
           \/ \E m \in ArmedModes, auto \in BOOLEAN, bypass \in SUBSET Devices,
                 byUser \in BOOLEAN : Arm(m, auto, bypass, byUser)
    PROVE  Good
<1>1. UNCHANGED log
    BY DEF ExitDelayElapses, ExitDelayThrows, Arm, events
<1>2. NoneEnds
    BY <1>1, Rewriting DEF IInv
<1>3. CASE \E m \in ArmedModes, auto \in BOOLEAN, bypass \in SUBSET Devices,
              byUser \in BOOLEAN : Arm(m, auto, bypass, byUser)
  <2>1. mode = "disarmed" /\ mode' = "arming"
      BY <1>3 DEF Arm
  <2> QED BY <1>2, <2>1, QuietStep DEF NoDelayInDisarmedZone
<1>4. CASE ExitDelayElapses \/ ExitDelayThrows
  <2>1. IsOver("exit") /\ CompleteArming
      BY <1>4 DEF ExitDelayElapses, ExitDelayThrows
  <2>2. mode = "arming" /\ pendingTimer.target = armedMode /\ armedMode # NoMode
    <3>1. up /\ pendingTimer.kind = "exit"
        BY <2>1 DEF IsOver
    <3> QED BY <3>1 DEF IInv, RowInv, TimerMatchesMode
  <2>3. mode' \in ArmedModes
      BY <2>1, <2>2 DEF CompleteArming, IInv, RowInv, RowType
  <2> QED BY <1>2, <2>2, <2>3, QuietStep DEF NoDelayInDisarmedZone, ArmedModes
<1> QED BY <1>3, <1>4

LEMMA EntryDelayStep ==
    ASSUME IInv, AlarmInv, EntryDelayElapses
    PROVE  Good
<1>1. up /\ pendingTimer.kind = "entry"
    BY DEF EntryDelayElapses, IsOver
<1>2. mode = "alarm_pending"
    BY <1>1 DEF IInv, RowInv, TimerMatchesMode
<1>3. Raise("BURGLARY", pendingTimer.cause) /\ pendingTimer.cause \in Causes
    BY <1>2 DEF EntryDelayElapses, IInv, RowInv, RowType, Timers
<1> QED BY <1>3, RaiseStep, KindTypes

LEMMA RestartStep ==
    ASSUME IInv, AlarmInv, Restart
    PROVE  Good
<1>1. NoneEnds
    BY Rewriting DEF IInv, Restart
<1>2. CASE mode = "arming" /\ armedMode = NoMode
  <2>1. mode' = "disarmed"
      BY <1>2 DEF Restart, ClearPanel
  <2> QED BY <1>1, <1>2, <2>1, QuietStep DEF NoDelayInDisarmedZone
<1>3. CASE ~(mode = "arming" /\ armedMode = NoMode)
    BY <1>1, <1>3, SamePanel DEF Restart, panelRow
<1> QED BY <1>2, <1>3

(* Everything else leaves the mode, the zones and the open events alone. *)
LEMMA OtherStep ==
    ASSUME IInv, AlarmInv,
           \/ Silence \/ TimeOutSiren
           \/ \E i \in DOMAIN log : Release(i)
           \/ \E s \in Devices : \/ \E kind \in FaultKinds : SensorClears(s, kind)
                                 \/ StartQuickExit(s) \/ RemoveSensor(s)
           \/ RemoveRequester \/ EntryDelayThrows \/ Crash \/ Tick \/ UNCHANGED vars
    PROVE  Good
<1>1. NoneEnds
  <2>1. \/ \E next \in {"silenced", "timed_out"} : log' = MoveSounding(log, next)
        \/ \E k \in DOMAIN log : log' = Released(log, k)
        \/ log' = Aged(log)
        \/ log' = log
      BY DEF Silence, TimeOutSiren, Release, SensorClears, StartQuickExit, RemoveSensor,
         RemoveRequester, EntryDelayThrows, Crash, Tick, vars, events
  <2> QED BY <2>1, Rewriting DEF IInv
<1>2. UNCHANGED <<mode, disarmedZones>>
    BY DEF Silence, TimeOutSiren, Release, SensorClears, StartQuickExit, RemoveSensor,
       RemoveRequester, EntryDelayThrows, Crash, Tick, vars, panelRow
<1>3. triggeredBy'.zone = triggeredBy.zone
  <2>1. CASE \E s \in Devices : RemoveSensor(s)
      BY <2>1 DEF RemoveSensor, IInv, RowInv, RowType, Causes
  <2>2. CASE UNCHANGED triggeredBy
      BY <2>2
  <2> QED BY <2>1, <2>2 DEF Silence, TimeOutSiren, Release, SensorClears, StartQuickExit,
              RemoveRequester, EntryDelayThrows, Crash, Tick, vars, panelRow
<1> QED BY <1>1, <1>2, <1>3, SamePanel

LEMMA AlarmStep ==
    ASSUME MaxEvents <= ListLimit, ~CrashInsideHandlers, IInv, AlarmInv, [Next]_vars
    PROVE  Good
<1>1. ASSUME NEW kind \in PersonKinds, PersonRaises(kind) PROVE Good
    BY <1>1, RaiseStep, KindTypes, NoCauseType DEF PersonRaises
<1>2. ASSUME NEW s \in Devices, NEW kind \in FaultKinds, SensorFaults(s, kind) PROVE Good
    BY <1>2, SensorFaultsStep
<1>3. ASSUME NEW z \in Zones, DisarmZone(z) PROVE Good
    BY <1>3, DisarmZoneStep
<1>4. /\ \A kind \in PersonKinds : ~CrashInPersonRaises(kind)
      /\ \A s \in Devices, kind \in FaultKinds :
            ~CrashBeforeReport(s, kind) /\ ~CrashInSensorRaises(s, kind)
      /\ ~CrashInDisarm /\ ~CrashInEntryDelay
      /\ \A z \in Zones : ~CrashInDisarmZone(z)
    BY DEF CrashInPersonRaises, CrashBeforeReport, CrashInSensorRaises, CrashInDisarm,
       CrashInEntryDelay, CrashInDisarmZone
<1> QED BY <1>1, <1>2, <1>3, <1>4, DisarmStep, ArmingStep, EntryDelayStep, RestartStep, OtherStep
        DEF Next

LEMMA AlarmInvariant ==
    ASSUME MaxEvents <= ListLimit, ~CrashInsideHandlers
    PROVE  Spec => [](IInv /\ AlarmInv)
<1>1. Init => AlarmInv
  <2> SUFFICES ASSUME Init PROVE AlarmInv
      OBVIOUS
  <2>1. Active(log) = {}
      BY EmptySeq, LenProperties DEF Init, Active
  <2>2. mode \notin {"alarm_pending", "alarm_triggered"}
      BY DEF Init
  <2> QED BY <2>1, <2>2 DEF AlarmInv, OpenBurglaryShows, AlarmHasEvent, NoDelayInDisarmedZone
<1>2. IInv /\ AlarmInv /\ [Next]_vars => AlarmInv'
    BY AlarmStep DEF Good
<1> QED BY <1>1, <1>2, InitInvariant, StepInvariant, PTL DEF Spec

(* raise, applyDisarm and applyZoneDisarm: for any house and any order of   *)
(* breaches, disarms and restarts, an open burglary is on the panel.        *)
THEOREM BurglaryShows ==
    ASSUME MaxEvents <= ListLimit, ~CrashInsideHandlers
    PROVE  Spec => []OpenBurglaryShows
<1>1. AlarmInv => OpenBurglaryShows
    BY DEF AlarmInv
<1> QED BY <1>1, AlarmInvariant, PTL

(* The panel is never in alarm over events that were all closed. *)
THEOREM AlarmIsOverSomething ==
    ASSUME MaxEvents <= ListLimit, ~CrashInsideHandlers
    PROVE  Spec => []AlarmHasEvent
<1>1. AlarmInv => AlarmHasEvent
    BY DEF AlarmInv
<1> QED BY <1>1, AlarmInvariant, PTL

(* applyZoneDisarm and reportIntrusionBreach: the zone of a running entry   *)
(* delay is never one a guest has disarmed.                                 *)
THEOREM DelayOnlyWhereArmed ==
    ASSUME MaxEvents <= ListLimit, ~CrashInsideHandlers
    PROVE  Spec => []NoDelayInDisarmedZone
<1>1. AlarmInv => NoDelayInDisarmedZone
    BY DEF AlarmInv
<1> QED BY <1>1, AlarmInvariant, PTL

(* A fire, panic or silent call for help stays open through every stand-    *)
(* down of a zone and every restart: only a full disarm closes it.          *)
THEOREM EmergenciesStay ==
    ASSUME MaxEvents <= ListLimit, ~CrashInsideHandlers
    PROVE  Spec => OnlyDisarmEndsEmergencies
<1>1. IInv /\ AlarmInv /\ [Next]_vars => [KeepsEmergencies]_vars
    BY AlarmStep DEF Good
<1>2. IInv /\ AlarmInv /\ [Next]_vars =>
        [\A i \in Active(log) :
            i \notin Active(log') /\ log[i].kind # "BURGLARY" => mode' = "disarmed"]_vars
    BY <1>1 DEF KeepsEmergencies
<1> QED BY <1>2, AlarmInvariant, PTL DEF Spec, OnlyDisarmEndsEmergencies

-----------------------------------------------------------------------------
(***************************************************************************)
(* Panel implements PanelContract, uses AlarmEvents as it is specified, and *)
(* never prolongs a delay, for every house.                                *)
(***************************************************************************)

ContractStep == [Contract!Next]_(Contract!vars)
EventStep    == [EventService!Next]_(EventService!vars)

(* How a step may treat the deadline. *)
DelayStep ==
    \/ UNCHANGED endsIn
    \/ endsIn' = Less(endsIn)
    \/ endsIn' = NoDelay
    \/ mode' # mode

-----------------------------------------------------------------------------
(* EventService instantiates the operators of AlarmEventLog anew.           *)

LEMMA SameOpening ==
    ASSUME NEW l, NEW kind, NEW device
    PROVE  /\ EventService!Opened(l, kind, device) = Opened(l, kind, device)
           /\ EventService!InitialDispatch(kind) = InitialDispatch(kind)
BY DEF EventService!Opened, EventService!NewRow, EventService!InitialDispatch,
       EventService!SoundsSiren, EventService!Cancellable,
       Opened, NewRow, InitialDispatch, SoundsSiren, Cancellable

LEMMA SameEnding ==
    ASSUME NEW l, NEW rows
    PROVE  /\ EventService!Closed(l, rows) = Closed(l, rows)
           /\ EventService!Listed(l) = Listed(l)
           /\ EventService!Burglaries(l) = Burglaries(l)
<1>1. EventService!Active(l) = Active(l)
  BY DEF EventService!Active, Active
<1>2. EventService!Listed(l) = Listed(l)
  <2>1. ASSUME NEW S PROVE EventService!Cardinality(S) = Cardinality(S)
    BY DEF EventService!Cardinality, Cardinality
  <2> QED
    BY <1>1, <2>1 DEF EventService!Listed, Listed
<1>3. ASSUME NEW row PROVE EventService!EndedRow(row) = EndedRow(row)
  BY DEF EventService!EndedRow, EventService!SirenOnEnd, EventService!Cancellable,
         EndedRow, SirenOnEnd, Cancellable
<1>4. EventService!Closed(l, rows) = Closed(l, rows)
  BY <1>3 DEF EventService!Closed, Closed
<1>5. EventService!Burglaries(l) = Burglaries(l)
  BY <1>2 DEF EventService!Burglaries, Burglaries
<1> QED
  BY <1>2, <1>4, <1>5

LEMMA SameRewrites ==
    ASSUME NEW l, NEW next, NEW i
    PROVE  /\ EventService!MoveSounding(l, next) = MoveSounding(l, next)
           /\ EventService!Released(l, i) = Released(l, i)
           /\ EventService!ResumedLog(l) = ResumedLog(l)
           /\ EventService!Held(l) = Held(l)
           /\ EventService!Aged(l) = Aged(l)
<1>1. EventService!Sounding(l) = Sounding(l)
  BY SameEnding DEF EventService!Sounding, Sounding
<1>2. EventService!MoveSounding(l, next) = MoveSounding(l, next)
  BY <1>1 DEF EventService!MoveSounding, MoveSounding
<1>3. EventService!ResumedLog(l) = ResumedLog(l)
  BY <1>1 DEF EventService!ResumedLog, ResumedLog
<1>4. EventService!Released(l, i) = Released(l, i) /\ EventService!Held(l) = Held(l)
  BY DEF EventService!Released, Released, EventService!Held, Held
<1>5. EventService!Aged(l) = Aged(l)
  BY DEF EventService!Aged, EventService!Older, EventService!Less, Aged, Older, Less
<1> QED
  BY <1>2, <1>3, <1>4, <1>5

-----------------------------------------------------------------------------
(* The steps the contract and the event service see as nothing.             *)

LEMMA SilentRefines ==
    ASSUME UNCHANGED <<mode, armedMode, endsIn>>
    PROVE  ContractStep /\ DelayStep
BY DEF ContractStep, DelayStep, Contract!vars

LEMMA NoEventRefines ==
    ASSUME UNCHANGED <<log, timers, up>>
    PROVE  EventStep
BY DEF EventStep, EventService!vars

(* The steps they see as operations of their own.                           *)

LEMMA AlarmRefines ==
    ASSUME mode' = "alarm_triggered", endsIn' = NoDelay, armedMode' = armedMode
    PROVE  ContractStep /\ DelayStep
<1>1. Contract!Alarm
  BY DEF Contract!Alarm, Contract!NoDelay, NoDelay
<1> QED
  BY <1>1 DEF ContractStep, DelayStep, Contract!Next

LEMMA ClearRefines ==
    ASSUME ClearPanel
    PROVE  ContractStep /\ DelayStep
<1>1. Contract!Disarm
  BY DEF ClearPanel, Contract!Disarm, Contract!NoDelay, NoDelay
<1> QED
  BY <1>1 DEF ContractStep, DelayStep, Contract!Next, ClearPanel

LEMMA RaiseRefines ==
    ASSUME IInv, up, up' = up, NEW kind \in PanelKinds, NEW cause \in Causes,
           Raise(kind, cause), Len(log) < MaxEvents
    PROVE  ContractStep /\ DelayStep /\ EventStep
<1>1. ContractStep /\ DelayStep
  <2>1. CASE SoundsSiren(kind)
    BY <2>1, AlarmRefines DEF Raise
  <2>2. CASE ~SoundsSiren(kind)
    BY <2>2, SilentRefines DEF Raise, panelRow
  <2> QED
    BY <2>1, <2>2
<1>2. cause.sensor \in Devices \cup {NoDevice}
  BY DEF Causes
<1>3. EventService!Open(kind, cause.sensor)
  BY SameOpening DEF Raise, OpenEvent, EventService!Open
<1>4. \E k \in PanelKinds, device \in Devices \cup {NoDevice} : EventService!Open(k, device)
  BY <1>2, <1>3
<1> QED
  BY <1>1, <1>4 DEF EventStep, EventService!Next

LEMMA StartEntryDelayRefines ==
    ASSUME NEW s \in Devices, mode \in ArmedModes, EntryDelayOf(s) > 0, StartEntryDelay(s),
           up' = up
    PROVE  ContractStep /\ DelayStep /\ EventStep
<1>1. ModeInForce = mode
  BY DEF ModeInForce, ArmedModes
<1>2. EntryDelayOf(s) = EntryDelay[mode]
  BY <1>1 DEF EntryDelayOf
<1>3. Contract!Breach
  BY <1>2 DEF StartEntryDelay, Contract!Breach, Contract!ArmedModes, ArmedModes
<1>4. mode' # mode
  BY DEF StartEntryDelay, ArmedModes
<1>5. UNCHANGED <<log, timers, up>>
  BY DEF StartEntryDelay, events
<1> QED
  BY <1>3, <1>4, <1>5, NoEventRefines DEF ContractStep, DelayStep, Contract!Next

-----------------------------------------------------------------------------
(* The actions.                                                             *)

LEMMA PersonRaisesRefines ==
    ASSUME IInv, NEW kind \in PersonKinds, PersonRaises(kind)
    PROVE  ContractStep /\ DelayStep /\ EventStep
<1>1. up /\ up' = up /\ Raise(kind, NoCause) /\ Len(log) + 1 < MaxEvents
  BY DEF PersonRaises, RoomForReport
<1>2. Len(log) \in Nat
  BY LenProperties DEF IInv, LogType
<1>3. Len(log) < MaxEvents
  BY <1>1, <1>2, PanelAssumption
<1>4. kind \in PanelKinds
  BY DEF PanelKinds
<1> QED
  BY <1>1, <1>3, <1>4, NoCauseType, RaiseRefines

LEMMA SensorFaultsRefines ==
    ASSUME IInv, NEW s \in Devices, NEW kind \in FaultKinds, SensorFaults(s, kind)
    PROVE  ContractStep /\ DelayStep /\ EventStep
<1>1. up /\ up' = up /\ Len(log) + 1 < MaxEvents
  BY DEF SensorFaults, RoomForReport
<1>2. Len(log) \in Nat
  BY LenProperties DEF IInv, LogType
<1>3. Len(log) < MaxEvents
  BY <1>1, <1>2, PanelAssumption
<1>4. CauseOf(s) \in Causes /\ "BURGLARY" \in PanelKinds
  BY CauseOfType DEF PanelKinds
<1>5. ASSUME NEW k \in PanelKinds, NEW cause \in Causes, cause = CauseOf(s), Raise(k, cause)
      PROVE  ContractStep /\ DelayStep /\ EventStep
  BY <1>1, <1>3, <1>5, RaiseRefines
<1>6. ASSUME UNCHANGED <<panelRow, pendingTimer, events>>
      PROVE  ContractStep /\ DelayStep /\ EventStep
  BY <1>1, <1>6, SilentRefines, NoEventRefines DEF panelRow, events
<1>7. CASE kind = "open"
  <2>1. ReportBreach(s)
    BY <1>7 DEF SensorFaults
  <2>2. CASE s \in LifeSafety
    <3>1. AlarmKindOf[s] \in PanelKinds
      BY <2>2 DEF PanelKinds
    <3>2. Raise(AlarmKindOf[s], CauseOf(s))
      BY <2>1, <2>2 DEF ReportBreach
    <3> QED
      BY <1>4, <1>5, <3>1, <3>2
  <2>3. CASE mode \in ArmedModes /\ EntryDelayOf(s) > 0 /\ StartEntryDelay(s)
    BY <1>1, <2>3, StartEntryDelayRefines
  <2>4. \/ s \in LifeSafety
        \/ UNCHANGED <<panelRow, pendingTimer, events>>
        \/ mode \in ArmedModes /\ EntryDelayOf(s) > 0 /\ StartEntryDelay(s)
        \/ Raise("BURGLARY", CauseOf(s))
    BY <2>1 DEF ReportBreach, StartsDelay
  <2> QED
    BY <1>4, <1>5, <1>6, <2>2, <2>3, <2>4
<1>8. CASE kind # "open"
  <2>1. \/ UNCHANGED <<panelRow, pendingTimer, events>>
        \/ Raise("BURGLARY", CauseOf(s))
    BY <1>8 DEF SensorFaults, ReportTamper
  <2> QED
    BY <1>4, <1>5, <1>6, <2>1
<1> QED
  BY <1>7, <1>8

(* Sensors that clear, the quick exit, and what is deleted under a delay. *)
LEMMA QuietActionsRefines ==
    ASSUME \/ \E s \in Devices, kind \in FaultKinds : SensorClears(s, kind)
           \/ \E s \in Devices : StartQuickExit(s) \/ RemoveSensor(s)
           \/ RemoveRequester
    PROVE  ContractStep /\ DelayStep /\ EventStep
<1>1. UNCHANGED <<mode, armedMode, endsIn, log, timers, up>>
  BY DEF SensorClears, StartQuickExit, RemoveSensor, RemoveRequester, panelRow, events
<1> QED
  BY <1>1, SilentRefines, NoEventRefines

LEMMA EventsRefines ==
    ASSUME Silence \/ TimeOutSiren \/ \E i \in DOMAIN log : Release(i)
    PROVE  ContractStep /\ DelayStep /\ EventStep
<1>1. UNCHANGED <<mode, armedMode, endsIn>>
  BY DEF Silence, TimeOutSiren, Release, panelRow
<1>2. \/ EventService!Silence \/ EventService!TimeOutSiren
      \/ \E i \in DOMAIN log : EventService!Release(i)
  BY SameRewrites DEF Silence, TimeOutSiren, Release, EventService!Silence, EventService!TimeOutSiren,
         EventService!Release
<1> QED
  BY <1>1, <1>2, SilentRefines DEF EventStep, EventService!Next

LEMMA ArmRefines ==
    ASSUME NEW m \in ArmedModes, NEW auto \in BOOLEAN, NEW bypass \in SUBSET Devices,
           NEW byUser \in BOOLEAN, Arm(m, auto, bypass, byUser)
    PROVE  ContractStep /\ DelayStep /\ EventStep
<1>1. Contract!Arm(m)
  BY DEF Arm, Contract!Arm
<1>2. m \in Contract!ArmedModes
  BY DEF Contract!ArmedModes, ArmedModes
<1>3. mode' # mode /\ UNCHANGED <<log, timers, up>>
  BY DEF Arm, events
<1> QED
  BY <1>1, <1>2, <1>3, NoEventRefines DEF ContractStep, DelayStep, Contract!Next

LEMMA DisarmRefines ==
    ASSUME Disarm
    PROVE  ContractStep /\ DelayStep /\ EventStep
<1>1. EventService!EndAll
  BY SameEnding DEF Disarm, EndEvents, EventService!EndAll
<1>2. ContractStep /\ DelayStep
  BY ClearRefines, SilentRefines DEF Disarm, panelRow
<1> QED
  BY <1>1, <1>2 DEF EventStep, EventService!Next

LEMMA DisarmZoneRefines ==
    ASSUME NEW z \in Zones, DisarmZone(z)
    PROVE  ContractStep /\ DelayStep /\ EventStep
<1>1. CASE Alarming /\ triggeredBy.zone = z
  <2>1. EndEvents(Burglaries(log)) /\ StandDown(z) /\ up /\ up' = up
    BY <1>1 DEF DisarmZone
  <2>2. EventService!EndBurglary
    BY <2>1, SameEnding DEF EndEvents, EventService!EndBurglary
  <2>3. mode' = IF armedMode = NoMode THEN "disarmed" ELSE armedMode
    BY <2>1 DEF StandDown
  <2>4. endsIn' = NoDelay /\ armedMode' = armedMode
    BY <2>1 DEF StandDown
  <2>5. Contract!StandDown
    BY <1>1, <2>3, <2>4 DEF Contract!StandDown, Contract!NoDelay, NoDelay, Alarming
  <2> QED
    BY <2>2, <2>4, <2>5
       DEF ContractStep, DelayStep, EventStep, Contract!Next, EventService!Next
<1>2. CASE ~(Alarming /\ triggeredBy.zone = z)
  <2>1. UNCHANGED <<mode, armedMode, endsIn, log, timers, up>>
    BY <1>2 DEF DisarmZone, events
  <2> QED
    BY <2>1, SilentRefines, NoEventRefines
<1> QED
  BY <1>1, <1>2

LEMMA ExitDelayRefines ==
    ASSUME IInv, ExitDelayElapses \/ ExitDelayThrows
    PROVE  ContractStep /\ DelayStep /\ EventStep
<1>1. IsOver("exit") /\ CompleteArming /\ armedMode' = armedMode
  BY DEF ExitDelayElapses, ExitDelayThrows
<1>2. up /\ pendingTimer.kind = "exit" /\ pendingTimer.left = 0
  BY <1>1 DEF IsOver
<1>3. /\ mode = "arming" /\ endsIn = 0
      /\ pendingTimer.target = armedMode /\ armedMode # NoMode
  BY <1>2 DEF IInv, RowInv, TimerMatchesMode
<1>4. mode' = armedMode /\ endsIn' = NoDelay
  BY <1>1, <1>3 DEF CompleteArming
<1>5. Contract!Armed
  BY <1>1, <1>3, <1>4 DEF Contract!Armed, Contract!NoDelay, NoDelay
<1>6. EventStep
  <2>1. CASE ExitDelayElapses
    BY <2>1, NoEventRefines DEF ExitDelayElapses, events
  <2>2. CASE ExitDelayThrows
    <3>1. EventService!Crash
      BY <2>2 DEF ExitDelayThrows, Stops, EventService!Crash, EventService!Stops
    <3> QED
      BY <3>1 DEF EventStep, EventService!Next
  <2> QED
    BY <2>1, <2>2
<1> QED
  BY <1>4, <1>5, <1>6 DEF ContractStep, DelayStep, Contract!Next

LEMMA EntryDelayRefines ==
    ASSUME IInv, EntryDelayElapses
    PROVE  ContractStep /\ DelayStep /\ EventStep
<1>1. up /\ up' = up /\ pendingTimer.kind = "entry"
  BY DEF EntryDelayElapses, IsOver
<1>2. mode = "alarm_pending"
  BY <1>1 DEF IInv, RowInv, TimerMatchesMode
<1>3. PICK cause \in Causes : Raise("BURGLARY", cause)
  BY <1>2 DEF EntryDelayElapses, IInv, RowInv, RowType, Timers
<1>4. Len(log) < MaxEvents /\ "BURGLARY" \in PanelKinds
  BY <1>2 DEF IInv, RoomForDelay, PanelKinds
<1> QED
  BY <1>1, <1>3, <1>4, RaiseRefines

LEMMA CrashRefines ==
    ASSUME \/ Crash
           \/ \E s \in Devices, kind \in FaultKinds : CrashBeforeReport(s, kind)
    PROVE  ContractStep /\ DelayStep /\ EventStep
<1>1. Stops /\ UNCHANGED <<mode, armedMode, endsIn, log>>
  BY DEF Crash, CrashBeforeReport, panelRow
<1>2. EventService!Crash
  BY <1>1 DEF Stops, EventService!Crash, EventService!Stops
<1> QED
  BY <1>1, <1>2, SilentRefines DEF EventStep, EventService!Next

LEMMA CrashInRaiseRefines ==
    ASSUME IInv,
           \/ \E kind \in PersonKinds : CrashInPersonRaises(kind)
           \/ \E s \in Devices, kind \in FaultKinds : CrashInSensorRaises(s, kind)
           \/ CrashInEntryDelay
    PROVE  ContractStep /\ DelayStep /\ EventStep
<1>1. Stops /\ UNCHANGED <<mode, armedMode, endsIn>> /\ Len(log) + 1 < MaxEvents
  BY DEF CrashInPersonRaises, CrashInSensorRaises, CrashInEntryDelay, RoomForReport, panelRow
<1>2. Len(log) \in Nat
  BY LenProperties DEF IInv, LogType
<1>3. Len(log) < MaxEvents
  BY <1>1, <1>2, PanelAssumption
<1>4. PICK kind \in PanelKinds, device \in Devices \cup {NoDevice} :
         log' = Opened(log, kind, device)
  <2>1. CASE \E kind \in PersonKinds : CrashInPersonRaises(kind)
    BY <2>1 DEF CrashInPersonRaises, PanelKinds
  <2>2. CASE CrashInEntryDelay
    BY <2>2 DEF CrashInEntryDelay, PanelKinds, IInv, RowInv, RowType, Timers, Causes
  <2>3. CASE \E s \in Devices, kind \in FaultKinds : CrashInSensorRaises(s, kind)
    BY <2>3 DEF CrashInSensorRaises, PanelKinds
  <2> QED
    BY <2>1, <2>2, <2>3
<1>5. EventService!CrashInOpen(kind, device)
  BY <1>1, <1>3, <1>4, SameOpening DEF Stops, EventService!CrashInOpen, EventService!Stops
<1> QED
  BY <1>1, <1>5, SilentRefines DEF EventStep, EventService!Next

LEMMA CrashInEndRefines ==
    ASSUME CrashInDisarm \/ \E z \in Zones : CrashInDisarmZone(z)
    PROVE  ContractStep /\ DelayStep /\ EventStep
<1>1. Stops /\ UNCHANGED <<mode, armedMode, endsIn>>
  BY DEF CrashInDisarm, CrashInDisarmZone
<1>2. PartlyClosed(Listed(log)) \/ PartlyClosed(Burglaries(log))
  BY DEF CrashInDisarm, CrashInDisarmZone
<1>3. EventService!CrashInEnd(Listed(log)) \/ EventService!CrashInEnd(Burglaries(log))
  BY <1>1, <1>2, SameEnding DEF Stops, PartlyClosed, EventService!CrashInEnd, EventService!Stops
<1>4. EventService!Next
  <2>1. EventService!Listed(log) = Listed(log) /\ EventService!Burglaries(log) = Burglaries(log)
    BY SameEnding
  <2>2. \/ EventService!CrashInEnd(EventService!Listed(log))
        \/ EventService!CrashInEnd(EventService!Burglaries(log))
    BY <1>3, <2>1
  <2> QED
    BY <2>2 DEF EventService!Next
<1> QED
  BY <1>1, <1>4, SilentRefines DEF EventStep

LEMMA RestartRefines ==
    ASSUME Restart
    PROVE  ContractStep /\ DelayStep /\ EventStep
<1>1. EventService!Resume
  BY SameRewrites DEF Restart, EventService!Resume
<1>2. ContractStep /\ DelayStep
  BY ClearRefines, SilentRefines DEF Restart, panelRow
<1> QED
  BY <1>1, <1>2 DEF EventStep, EventService!Next

LEMMA TickRefines ==
    ASSUME IInv, Tick
    PROVE  ContractStep /\ DelayStep /\ EventStep
<1>1. /\ endsIn' = Less(endsIn) /\ log' = Aged(log)
      /\ UNCHANGED <<mode, armedMode, timers, up>>
  BY DEF Tick
<1>2. ContractStep
  <2>1. endsIn \in Int
    BY DEF IInv, RowInv, RowType, NoDelay
  <2>2. CASE endsIn > 0
    BY <1>1, <2>1, <2>2 DEF Less, ContractStep, Contract!Wait, Contract!Next
  <2>3. CASE ~(endsIn > 0)
    BY <1>1, <2>1, <2>3, SilentRefines DEF Less
  <2> QED
    BY <2>2, <2>3
<1>3. EventStep
  BY <1>1, SameRewrites DEF EventStep, EventService!Next, EventService!Tick, EventService!vars
<1> QED
  BY <1>1, <1>2, <1>3 DEF DelayStep

LEMMA StepRefines ==
    ASSUME IInv, [Next]_vars
    PROVE  ContractStep /\ DelayStep /\ EventStep
<1>1. CASE \E kind \in PersonKinds : PersonRaises(kind) \/ CrashInPersonRaises(kind)
  BY <1>1, PersonRaisesRefines, CrashInRaiseRefines
<1>2. CASE Silence \/ TimeOutSiren \/ \E i \in DOMAIN log : Release(i)
  BY <1>2, EventsRefines
<1>3. CASE \E s \in Devices, kind \in FaultKinds :
              \/ SensorFaults(s, kind) \/ SensorClears(s, kind)
              \/ CrashBeforeReport(s, kind) \/ CrashInSensorRaises(s, kind)
  BY <1>3, SensorFaultsRefines, QuietActionsRefines, CrashRefines, CrashInRaiseRefines
<1>4. CASE RemoveRequester \/ \E s \in Devices : StartQuickExit(s) \/ RemoveSensor(s)
  BY <1>4, QuietActionsRefines
<1>5. CASE \E m \in ArmedModes, auto \in BOOLEAN, bypass \in SUBSET Devices, byUser \in BOOLEAN :
              Arm(m, auto, bypass, byUser)
  BY <1>5, ArmRefines
<1>6. CASE Disarm \/ CrashInDisarm
  BY <1>6, DisarmRefines, CrashInEndRefines
<1>7. CASE \E z \in Zones : DisarmZone(z) \/ CrashInDisarmZone(z)
  BY <1>7, DisarmZoneRefines, CrashInEndRefines
<1>8. CASE ExitDelayElapses \/ ExitDelayThrows \/ EntryDelayElapses
  BY <1>8, ExitDelayRefines, EntryDelayRefines
<1>9. CASE EntryDelayThrows \/ Crash
  BY <1>9, CrashRefines DEF EntryDelayThrows
<1>10. CASE CrashInEntryDelay \/ Restart \/ Tick
  BY <1>10, CrashInRaiseRefines, RestartRefines, TickRefines
<1>11. CASE UNCHANGED vars
  BY <1>11, SilentRefines, NoEventRefines DEF vars
<1> QED
  BY <1>1, <1>2, <1>3, <1>4, <1>5, <1>6, <1>7, <1>8, <1>9, <1>10, <1>11 DEF Next

-----------------------------------------------------------------------------
(* SC-006 and FR-003: with its crashes and restarts, the panel implements   *)
(* one that never crashes.                                                  *)
THEOREM PanelImplementsContract == Spec => ImplementsContract
<1>1. Init => Contract!Init
  BY DEF Init, Contract!Init, Contract!NoDelay, NoDelay
<1>2. IInv /\ [Next]_vars => [Contract!Next]_(Contract!vars)
  BY StepRefines DEF ContractStep
<1> QED
  BY <1>1, <1>2, InitInvariant, StepInvariant, PTL DEF Spec, ImplementsContract, Contract!Spec

(* PanelService as a caller of AlarmEventService: one operation a turn. *)
THEOREM PanelImplementsEventService == Spec => ImplementsEventService
<1>1. Init => EventService!Init
  BY DEF Init, EventService!Init
<1>2. IInv /\ [Next]_vars => [EventService!Next]_(EventService!vars)
  BY StepRefines DEF EventStep
<1> QED
  BY <1>1, <1>2, InitInvariant, StepInvariant, PTL DEF Spec, ImplementsEventService

(* No handler and no restart gives a delay in progress more time.           *)
THEOREM DelayIsNeverExtended == Spec => DelayNeverExtended
<1>1. IInv /\ [Next]_vars =>
        [mode' = mode /\ endsIn # NoDelay => endsIn' <= endsIn]_vars
  <2> SUFFICES ASSUME IInv, [Next]_vars, mode' = mode, endsIn # NoDelay
               PROVE  endsIn' <= endsIn
    OBVIOUS
  <2>1. DelayStep
    BY StepRefines
  <2>2. endsIn \in Nat
    BY DEF IInv, RowInv, RowType
  <2> QED
    BY <2>1, <2>2 DEF DelayStep, Less, NoDelay
<1> QED
  BY <1>1, InitInvariant, StepInvariant, PTL DEF Spec, DelayNeverExtended

-----------------------------------------------------------------------------
(* Keypads.                                                                *)
InAlarm == mode = "alarm_triggered"

(* The controller's flag is on only over an alarm that sounds, and, until   *)
(* something goes astray, whenever one does.                                *)
FlagInv ==
    /\ sirenOn => InAlarm /\ Sounding(log) # {}
    /\ ~astray => sirenOn = (InAlarm /\ Sounding(log) # {})

(* No write is in flight without a driver, and the gateway listens only to  *)
(* a keypad it has adopted.                                                 *)
LinkInv ==
    /\ wire \in Seq([shows : Shown \cup {"alarm_off"}, next : Shown])
    /\ shows \in Shown
    /\ {sirenOn, known, ready, attached, answers, online, astray} \subseteq BOOLEAN
    /\ known \/ ready => up
    /\ attached => ready /\ known
    /\ ~ready => wire = << >>
    /\ \A i \in DOMAIN wire : wire[i].next # "alarm"

(* What a keypad that can be reached shows when the writes in flight have   *)
(* arrived.                                                                 *)
Last == IF wire = << >> THEN shows ELSE wire[Len(wire)].shows

Reached == up /\ known /\ answers /\ ~astray

QuietInv == Reached /\ ~sirenOn => Last # "alarm"

(* As long as no alarm has sounded, that is the state of the panel.         *)
NeverSounded(l) == \A i \in DOMAIN l : l[i].siren = "none"

MirrorInv ==
    ~astray /\ NeverSounded(log) =>
        /\ \A i \in DOMAIN wire : wire[i].next = "nothing" /\ wire[i].shows # "alarm_off"
        /\ Reached => Last = Current

KInv == IInv /\ LinkInv /\ FlagInv /\ QuietInv /\ MirrorInv

-----------------------------------------------------------------------------
(* What a turn of the panel does to the log, whatever it is.                *)

(* No row is rewritten so that it sounds, or is open, for the first time,   *)
(* nor so that it never sounded.                                            *)
Rewritten ==
    /\ DOMAIN log' = DOMAIN log
    /\ \A i \in DOMAIN log : /\ log'[i].siren = "none" => log[i].siren = "none"
                             /\ log'[i].siren = "sounding" => log[i].siren = "sounding"
                             /\ ~log'[i].ended => ~log[i].ended

OneOpened(kind) ==
    \E device \in Devices \cup {NoDevice} : log' = Opened(log, kind, device)

LEMMA ClosedRewrites ==
    ASSUME LogType, NEW rows, log' = Closed(log, rows)
    PROVE  Rewritten
<1>1. log \in Seq(Rows) /\ \A i \in DOMAIN log : log[i] \in Rows
    BY ElementOfSeq, LenProperties DEF LogType
<1>2. /\ DOMAIN log' = DOMAIN log
      /\ \A i \in DOMAIN log : log'[i] = IF i \in rows THEN EndedRow(log[i]) ELSE log[i]
    BY <1>1, ClosedType
<1>3. ASSUME NEW row \in Rows
      PROVE  /\ EndedRow(row).siren = "none" => row.siren = "none"
             /\ EndedRow(row).siren # "sounding" /\ EndedRow(row).ended
    BY DEF EndedRow, SirenOnEnd, Rows
<1> QED BY <1>1, <1>2, <1>3 DEF Rewritten

LEMMA MovesRewrite ==
    ASSUME LogType,
           \/ \E next \in {"silenced", "timed_out"} : log' = MoveSounding(log, next)
           \/ \E k \in DOMAIN log : log' = Released(log, k)
           \/ log' = ResumedLog(log)
           \/ log' = Aged(log)
           \/ log' = log
    PROVE  Rewritten
<1>1. log \in Seq(Rows) /\ \A i \in DOMAIN log : log[i] \in Rows
    BY ElementOfSeq, LenProperties DEF LogType
<1>2. ASSUME NEW next \in {"silenced", "timed_out"}, log' = MoveSounding(log, next)
      PROVE  Rewritten
  <2>1. /\ DOMAIN log' = DOMAIN log
        /\ \A i \in DOMAIN log : log'[i] = IF i \in Sounding(log)
                                           THEN [log[i] EXCEPT !.siren = next] ELSE log[i]
      BY <1>1, <1>2, MoveSoundingType
  <2> QED BY <1>1, <2>1 DEF Rows, Rewritten
<1>3. ASSUME NEW k \in DOMAIN log, log' = Released(log, k)
      PROVE  Rewritten
  <2>1. /\ DOMAIN log' = DOMAIN log
        /\ \A i \in DOMAIN log : log'[i] = IF i = k /\ log[i].dispatch = "held"
                                           THEN [log[i] EXCEPT !.dispatch = "queued"] ELSE log[i]
      BY <1>1, <1>3, ReleasedType
  <2> QED BY <1>1, <2>1 DEF Rows, Rewritten
<1>4. ASSUME log' = ResumedLog(log)
      PROVE  Rewritten
  <2>1. /\ DOMAIN log' = DOMAIN log
        /\ \A i \in DOMAIN log :
              log'[i] = IF i \in Sounding(log) /\ log[i].age >= SirenDuration
                        THEN [log[i] EXCEPT !.siren = "timed_out"] ELSE log[i]
      BY <1>1, <1>4, ResumedLogType
  <2> QED BY <1>1, <2>1 DEF Rows, Rewritten
<1>5. ASSUME log' = Aged(log)
      PROVE  Rewritten
    BY <1>1, <1>5, AgedType DEF Rewritten
<1> QED BY <1>2, <1>3, <1>4, <1>5 DEF Rewritten

(* A turn that opens an event of a kind that sounds puts the panel into     *)
(* alarm, unless the process stops in it.                                   *)
TurnOfLog ==
    \/ Rewritten
    \/ \E kind \in Kinds :
          OneOpened(kind) /\ (SoundsSiren(kind) /\ up' => mode' = "alarm_triggered")

LEMMA RaiseOpens ==
    ASSUME NEW kind \in Kinds, NEW cause \in Causes, Raise(kind, cause)
    PROVE  TurnOfLog
<1>1. OneOpened(kind)
    BY DEF Raise, OpenEvent, OneOpened, Causes
<1>2. SoundsSiren(kind) => mode' = "alarm_triggered"
    BY DEF Raise
<1> QED BY <1>1, <1>2 DEF TurnOfLog

LEMMA CrashOpens ==
    ASSUME IInv, Stops,
           NEW kind \in Kinds, NEW device \in Devices \cup {NoDevice},
           log' = Opened(log, kind, device)
    PROVE  TurnOfLog
BY DEF TurnOfLog, OneOpened, Stops

LEMMA SensorFaultsLog ==
    ASSUME IInv, NEW s \in Devices, NEW kind \in FaultKinds, SensorFaults(s, kind)
    PROVE  TurnOfLog
<1>1. CauseOf(s) \in Causes /\ "BURGLARY" \in Kinds /\ (s \in LifeSafety => AlarmKindOf[s] \in Kinds)
    BY CauseOfType, KindTypes
<1>2. ASSUME UNCHANGED events PROVE TurnOfLog
    BY <1>2, MovesRewrite DEF TurnOfLog, events, IInv
<1>3. ASSUME NEW k \in Kinds, Raise(k, CauseOf(s)) PROVE TurnOfLog
    BY <1>1, <1>3, RaiseOpens
<1>4. StartEntryDelay(s) => UNCHANGED events
    BY DEF StartEntryDelay
<1>5. CASE kind = "open"
  <2>1. ReportBreach(s)
      BY <1>5 DEF SensorFaults
  <2> QED BY <1>1, <1>2, <1>3, <1>4, <2>1 DEF ReportBreach, events
<1>6. CASE kind = "tampered"
  <2>1. ReportTamper(s)
      BY <1>6 DEF SensorFaults
  <2> QED BY <1>1, <1>2, <1>3, <2>1 DEF ReportTamper, events
<1>7. CASE kind \notin {"open", "tampered"}
    BY <1>2, <1>7 DEF SensorFaults, events
<1> QED BY <1>5, <1>6, <1>7

LEMMA EndsRewrite ==
    ASSUME IInv,
           \/ Disarm \/ CrashInDisarm
           \/ \E z \in Zones : DisarmZone(z) \/ CrashInDisarmZone(z)
    PROVE  Rewritten
<1>1. (\E rows : log' = Closed(log, rows)) \/ log' = log
    BY DEF Disarm, DisarmZone, CrashInDisarm, CrashInDisarmZone, EndEvents, PartlyClosed, events
<1> QED BY <1>1, ClosedRewrites, MovesRewrite DEF IInv

LEMMA OtherLog ==
    ASSUME IInv,
           \/ Silence \/ TimeOutSiren
           \/ \E i \in DOMAIN log : Release(i)
           \/ \E s \in Devices, kind \in FaultKinds : SensorClears(s, kind) \/ CrashBeforeReport(s, kind)
           \/ \E s \in Devices : StartQuickExit(s) \/ RemoveSensor(s)
           \/ \E m \in ArmedModes, auto \in BOOLEAN, bypass \in SUBSET Devices,
                 byUser \in BOOLEAN : Arm(m, auto, bypass, byUser)
           \/ RemoveRequester \/ ExitDelayElapses \/ ExitDelayThrows \/ EntryDelayThrows
           \/ Crash \/ Restart \/ Tick \/ UNCHANGED vars
    PROVE  Rewritten
<1>1. \/ \E next \in {"silenced", "timed_out"} : log' = MoveSounding(log, next)
      \/ \E k \in DOMAIN log : log' = Released(log, k)
      \/ log' = ResumedLog(log)
      \/ log' = Aged(log)
      \/ log' = log
    BY DEF Silence, TimeOutSiren, Release, SensorClears, CrashBeforeReport, StartQuickExit,
       RemoveSensor, Arm, RemoveRequester, ExitDelayElapses, ExitDelayThrows, EntryDelayThrows,
       Crash, Restart, Tick, vars, events
<1> QED BY <1>1, MovesRewrite DEF IInv

LEMMA PanelLog ==
    ASSUME IInv, [Next]_vars
    PROVE  TurnOfLog
<1>1. ASSUME NEW kind \in PersonKinds, PersonRaises(kind) PROVE TurnOfLog
    BY <1>1, RaiseOpens, KindTypes, NoCauseType DEF PersonRaises
<1>2. ASSUME NEW kind \in PersonKinds, CrashInPersonRaises(kind) PROVE TurnOfLog
    BY <1>2, CrashOpens, KindTypes DEF CrashInPersonRaises
<1>3. ASSUME NEW s \in Devices, NEW kind \in FaultKinds, CrashInSensorRaises(s, kind)
      PROVE  TurnOfLog
  <2>1. PICK k \in Kinds : log' = Opened(log, k, s)
      BY <1>3, KindTypes DEF CrashInSensorRaises
  <2> QED BY <1>3, <2>1, CrashOpens DEF CrashInSensorRaises
<1>4. ASSUME EntryDelayElapses PROVE TurnOfLog
  <2>1. pendingTimer.cause \in Causes
      BY DEF IInv, RowInv, RowType, Timers
  <2>2. CASE mode = "alarm_pending"
      BY <1>4, <2>1, <2>2, RaiseOpens, KindTypes DEF EntryDelayElapses
  <2>3. CASE mode # "alarm_pending"
      BY <1>4, <2>3, MovesRewrite DEF EntryDelayElapses, events, TurnOfLog, IInv
  <2> QED BY <2>2, <2>3
<1>5. ASSUME CrashInEntryDelay PROVE TurnOfLog
  <2>1. pendingTimer.cause.sensor \in Devices \cup {NoDevice}
      BY DEF IInv, RowInv, RowType, Timers, Causes
  <2> QED BY <1>5, <2>1, CrashOpens, KindTypes DEF CrashInEntryDelay
<1>6. ASSUME Rewritten PROVE TurnOfLog
    BY <1>6 DEF TurnOfLog
<1> QED BY <1>1, <1>2, <1>3, <1>4, <1>5, <1>6, SensorFaultsLog, EndsRewrite, OtherLog DEF Next

-----------------------------------------------------------------------------
(* What the turn means for what sounds.                                     *)

LEMMA OpensOne ==
    ASSUME LogType, NEW kind \in Kinds, OneOpened(kind)
    PROVE  /\ Len(log) \in Nat /\ Len(log') = Len(log) + 1
           /\ DOMAIN log' = DOMAIN log \cup {Len(log) + 1}
           /\ \A i \in DOMAIN log : log'[i] = log[i]
           /\ log'[Len(log) + 1].siren = IF SoundsSiren(kind) THEN "sounding" ELSE "none"
<1>1. PICK device \in Devices \cup {NoDevice} : log' = Opened(log, kind, device)
    BY DEF OneOpened
<1> DEFINE m == Opened(log, kind, device)
<1>2. /\ Len(m) = Len(log) + 1
      /\ DOMAIN m = DOMAIN log \cup {Len(log) + 1}
      /\ \A i \in DOMAIN log : m[i] = log[i]
      /\ m[Len(log) + 1] = NewRow(kind, device)
    BY OpenedType DEF LogType
<1>3. log' = m
    BY <1>1
<1> HIDE DEF m
<1>4. Len(log) \in Nat
    BY LenProperties DEF LogType
<1> QED BY <1>2, <1>3, <1>4 DEF NewRow

LEMMA QuietUnlessChanged ==
    ASSUME LogType, TurnOfLog, ~EventsChanged
    PROVE  Sounding(log') = Sounding(log)
<1>1. Rewritten
  <2>1. ASSUME NEW kind \in Kinds, OneOpened(kind) PROVE FALSE
    <3>1. Len(log') = Len(log) + 1 /\ Len(log) \in Nat
        BY <2>1, OpensOne
    <3> QED BY <3>1 DEF EventsChanged
  <2> QED BY <2>1 DEF TurnOfLog
<1>2. Active(log') = Active(log)
    BY <1>1 DEF Rewritten, Active, EventsChanged
<1>3. Listed(log') = Listed(log)
    BY <1>2 DEF Listed
<1>4. \A i \in Listed(log) : log'[i].siren = log[i].siren
    BY DEF Listed, Active, EventsChanged
<1> QED BY <1>3, <1>4 DEF Sounding

(* Every new alarm sounds in a panel in alarm. *)
LEMMA NewAlarm ==
    ASSUME MaxEvents <= ListLimit, IInv, IInv', TurnOfLog, up',
           Sounding(log) = {}, Sounding(log') # {}
    PROVE  mode' = "alarm_triggered"
<1>1. Listed(log) = Active(log) /\ Listed(log') = Active(log')
  <2>1. /\ log \in Seq(Rows) /\ Len(log) <= MaxEvents
        /\ log' \in Seq(Rows) /\ Len(log') <= MaxEvents
      BY DEF IInv, LogType
  <2>2. Len(log) <= ListLimit /\ Len(log') <= ListLimit
      BY <2>1, LenProperties, PanelAssumption, EventLogAssumption
  <2>3. Listed(log) = Active(log)
      BY <2>1, <2>2, EveryOpenIsListed
  <2>4. Listed(log') = Active(log')
      BY <2>1, <2>2, EveryOpenIsListed
  <2> QED BY <2>3, <2>4
<1>2. PICK i \in Active(log') : log'[i].siren = "sounding"
    BY <1>1 DEF Sounding
<1>3. ~Rewritten
    BY <1>1, <1>2 DEF Rewritten, Sounding, Active
<1>4. PICK kind \in Kinds : OneOpened(kind) /\ (SoundsSiren(kind) => mode' = "alarm_triggered")
    BY <1>3 DEF TurnOfLog
<1>5. SoundsSiren(kind)
  <2>1. /\ DOMAIN log' = DOMAIN log \cup {Len(log) + 1}
        /\ \A j \in DOMAIN log : log'[j] = log[j]
        /\ log'[Len(log) + 1].siren = IF SoundsSiren(kind) THEN "sounding" ELSE "none"
      BY <1>4, OpensOne DEF IInv
  <2>2. i = Len(log) + 1
      BY <1>1, <1>2, <2>1 DEF Sounding, Active
  <2> QED BY <1>2, <2>1, <2>2
<1> QED BY <1>4, <1>5

LEMMA NeverSoundedYet ==
    ASSUME LogType, TurnOfLog, NeverSounded(log')
    PROVE  NeverSounded(log) /\ Sounding(log') = {} /\ Sounding(log) = {}
<1>1. NeverSounded(log)
  <2>1. ASSUME NEW kind \in Kinds, OneOpened(kind) PROVE NeverSounded(log)
    <3>1. \A i \in DOMAIN log : i \in DOMAIN log' /\ log'[i] = log[i]
        BY <2>1, OpensOne
    <3> QED BY <3>1 DEF NeverSounded
  <2>2. Rewritten => NeverSounded(log)
      BY DEF Rewritten, NeverSounded
  <2> QED BY <2>1, <2>2 DEF TurnOfLog
<1> QED BY <1>1 DEF NeverSounded, Sounding, Listed, Active

-----------------------------------------------------------------------------
(* The controller in a turn.                                                *)

Writes == [shows : Shown \cup {"alarm_off"}, next : Shown]

LEMMA IndicationIs ==
    ASSUME NEW m \in Modes, NEW am \in ArmedModes \cup {NoMode}, NEW l
    PROVE  /\ IndicationFor(m, am, l) \in Shown
           /\ IndicationFor(m, am, l) = "alarm" <=> m = "alarm_triggered" /\ Sounding(l) # {}
BY DEF Modes, ArmedModes, IndicationFor, Shown

(* What was sent so far ends in the alarm only if the siren is on. *)
Controller == [siren : BOOLEAN, sent : Seq(Writes)]

Consistent(k) ==
    /\ k \in Controller
    /\ \A i \in DOMAIN k.sent : k.sent[i].next # "alarm"
    /\ k.sent = << >> => k.siren = sirenOn
    /\ ~k.siren /\ k.sent # << >> => k.sent[Len(k.sent)].shows # "alarm"

LEMMA ShowSends ==
    ASSUME NEW k, Consistent(k), NEW indication \in Shown
    PROVE  /\ Consistent(Show(k, indication))
           /\ Show(k, indication).siren = (indication = "alarm")
<1> DEFINE s == Show(k, indication)
<1>1. CASE indication = "alarm" /\ k.siren
    BY <1>1 DEF Show
<1>2. CASE ~(indication = "alarm" /\ k.siren)
  <2>1. PICK w \in Writes : /\ w.next # "alarm"
                            /\ w.shows = "alarm" => indication = "alarm"
                            /\ s = [siren |-> indication = "alarm", sent |-> Append(k.sent, w)]
    <3>1. CASE k.siren
      <4>1. s = [siren |-> FALSE, sent |-> Append(k.sent, AlarmOffThen(indication))]
          BY <1>2, <3>1 DEF Show
      <4>2. AlarmOffThen(indication) \in Writes
          BY DEF AlarmOffThen, Writes
      <4>3. /\ AlarmOffThen(indication).next # "alarm"
            /\ AlarmOffThen(indication).shows # "alarm"
            /\ indication # "alarm"
          BY <1>2, <3>1 DEF AlarmOffThen
      <4> HIDE DEF s
      <4>4. s = [siren |-> indication = "alarm", sent |-> Append(k.sent, AlarmOffThen(indication))]
          BY <4>1, <4>3
      <4> QED BY <4>2, <4>3, <4>4
    <3>2. CASE ~k.siren
      <4>1. s = [siren |-> indication = "alarm", sent |-> Append(k.sent, Write(indication))]
          BY <1>2, <3>2 DEF Show
      <4>2. Write(indication) \in Writes
          BY DEF Write, Writes, Shown
      <4>3. Write(indication).next # "alarm" /\ Write(indication).shows = indication
          BY DEF Write
      <4> HIDE DEF s
      <4> QED BY <4>1, <4>2, <4>3
    <3> QED BY <3>1, <3>2
  <2>2. k.sent \in Seq(Writes)
      BY DEF Consistent, Controller
  <2> DEFINE n == Len(k.sent)
             sent == Append(k.sent, w)
  <2>3. /\ sent \in Seq(Writes) /\ Len(sent) = n + 1 /\ n \in Nat
        /\ \A i \in 1 .. n : sent[i] = k.sent[i]
        /\ sent[n + 1] = w
      BY <2>2, AppendProperties, LenProperties
  <2>4. DOMAIN sent = 1 .. n + 1 /\ DOMAIN k.sent = 1 .. n
      BY <2>2, <2>3, LenProperties
  <2> HIDE DEF sent, s
  <2>5. s.sent = sent /\ s.siren = (indication = "alarm") /\ s \in Controller
      BY <2>1, <2>3 DEF sent, Controller
  <2>6. \A i \in DOMAIN sent : sent[i].next # "alarm"
      BY <2>1, <2>3, <2>4 DEF Consistent
  <2>7. sent # << >> /\ sent[Len(sent)] = w
      BY <2>3, <2>4
  <2> QED BY <2>1, <2>5, <2>6, <2>7 DEF Consistent, s
<1> QED BY <1>1, <1>2

(* The controller before a turn, after its events and after its commit. *)
Before     == [siren |-> sirenOn, sent |-> << >>]
WithEvents == IF EventsChanged THEN OnAlarmEvent(Before) ELSE Before
WithPanel  == IF PanelCommitted THEN OnPanelChanged(WithEvents) ELSE WithEvents

LEMMA TurnSends ==
    ASSUME RowType, RowType', LinkInv
    PROVE  /\ Consistent(WithPanel)
           /\ WithEvents.siren =
                IF EventsChanged /\ (Sounding(log') # {}) # sirenOn
                THEN InAlarm /\ Sounding(log') # {} ELSE sirenOn
           /\ WithPanel.siren =
                IF PanelCommitted
                THEN mode' = "alarm_triggered" /\ Sounding(log') # {} ELSE WithEvents.siren
<1>1. Consistent(Before) /\ Before.siren = sirenOn
    BY EmptySeq DEF Before, Consistent, Controller, LinkInv
<1>2. /\ IndicationFor(mode, armedMode, log') \in Shown
      /\ IndicationFor(mode, armedMode, log') = "alarm" <=> InAlarm /\ Sounding(log') # {}
    BY IndicationIs DEF RowType, InAlarm
<1>3. /\ IndicationFor(mode', armedMode', log') \in Shown
      /\ IndicationFor(mode', armedMode', log') = "alarm"
            <=> mode' = "alarm_triggered" /\ Sounding(log') # {}
    BY IndicationIs DEF RowType
<1>4. /\ Consistent(WithEvents)
      /\ WithEvents.siren =
                IF EventsChanged /\ (Sounding(log') # {}) # sirenOn
                THEN InAlarm /\ Sounding(log') # {} ELSE sirenOn
    BY <1>1, <1>2, ShowSends DEF WithEvents, OnAlarmEvent
<1>5. /\ Consistent(WithPanel)
      /\ WithPanel.siren =
                IF PanelCommitted
                THEN mode' = "alarm_triggered" /\ Sounding(log') # {} ELSE WithEvents.siren
    BY <1>3, <1>4, ShowSends DEF WithPanel, OnPanelChanged
<1> QED BY <1>4, <1>5

(* As long as nothing has sounded the controller sends at most the state of *)
(* the panel, and only when the row was committed.                          *)
LEMMA TurnMirrors ==
    ASSUME RowType', sirenOn = FALSE, Sounding(log') = {}
    PROVE  /\ PanelCommitted  => WithPanel.sent = << Write(Current') >>
           /\ ~PanelCommitted => WithPanel.sent = << >>
<1>1. WithEvents = Before
    BY DEF WithEvents, OnAlarmEvent, Before
<1>2. Current' # "alarm" /\ Current' = IndicationFor(mode', armedMode', log')
    BY IndicationIs DEF RowType, Current
<1>3. Show(Before, Current').sent = << Write(Current') >>
    BY <1>2 DEF Show, Before
<1> QED BY <1>1, <1>2, <1>3 DEF WithPanel, OnPanelChanged, Before

-----------------------------------------------------------------------------
(* The writes in flight.                                                    *)

LEMMA Joined ==
    ASSUME NEW a \in Seq(Writes), NEW b \in Seq(Writes)
    PROVE  /\ a \o b \in Seq(Writes)
           /\ \A i \in DOMAIN (a \o b) : \/ \E j \in DOMAIN a : (a \o b)[i] = a[j]
                                         \/ \E j \in DOMAIN b : (a \o b)[i] = b[j]
           /\ b = << >> => a \o b = a
           /\ b # << >> => a \o b # << >> /\ (a \o b)[Len(a \o b)] = b[Len(b)]
<1> DEFINE m == Len(a)
           n == Len(b)
           c == a \o b
<1>1. /\ m \in Nat /\ n \in Nat /\ DOMAIN a = 1 .. m /\ DOMAIN b = 1 .. n
      /\ b # << >> => n # 0
    BY LenProperties, EmptySeq
<1>2. /\ c \in Seq(Writes) /\ Len(c) = m + n
      /\ \A i \in 1 .. m + n : c[i] = IF i <= m THEN a[i] ELSE b[i - m]
    BY ConcatProperties
<1>3. DOMAIN c = 1 .. m + n
    BY <1>2, LenProperties
<1>4. b = << >> => c = a
    BY ConcatEmptySeq
<1> HIDE DEF c, m, n
<1>5. ASSUME NEW i \in DOMAIN c
      PROVE  \/ \E j \in DOMAIN a : c[i] = a[j]
             \/ \E j \in DOMAIN b : c[i] = b[j]
  <2>1. CASE i <= m
      BY <1>1, <1>2, <1>3, <1>5, <2>1
  <2>2. CASE ~(i <= m)
    <3>1. i - m \in 1 .. n /\ c[i] = b[i - m]
        BY <1>1, <1>2, <1>3, <1>5, <2>2
    <3> QED BY <1>1, <3>1
  <2> QED BY <2>1, <2>2
<1>6. b # << >> => c # << >> /\ c[Len(c)] = b[n]
  <2> SUFFICES ASSUME b # << >> PROVE c # << >> /\ c[Len(c)] = b[n]
      OBVIOUS
  <2>1. m + n \in 1 .. m + n /\ ~(m + n <= m) /\ (m + n) - m = n
      BY <1>1
  <2>2. c[m + n] = b[n]
      BY <1>2, <2>1
  <2> QED BY <1>1, <1>2, <2>1, <2>2, EmptySeq
<1> QED BY <1>2, <1>4, <1>5, <1>6 DEF c, n

(* One write is done, and the one that waited for it goes out. *)
LEMMA Advances ==
    ASSUME wire \in Seq(Writes), wire # << >>, wire' = Tail(wire) \o Resumed
    PROVE  /\ wire' \in Seq(Writes)
           /\ \A i \in DOMAIN wire' : \/ \E j \in DOMAIN wire : wire'[i] = wire[j]
                                      \/ /\ wire'[i] = Write(wire[1].next)
                                         /\ wire[1].next # "nothing"
           /\ \/ wire[1].next # "nothing" /\ wire' # << >> /\ wire'[Len(wire')].shows = wire[1].next
              \/ /\ wire[1].next = "nothing"
                 /\ \/ Len(wire) = 1 /\ wire' = << >>
                    \/ wire' # << >> /\ wire'[Len(wire')] = wire[Len(wire)]
<1> DEFINE w == wire[1]
           tail == Tail(wire)
           n == Len(wire)
<1>1. /\ n \in Nat /\ DOMAIN wire = 1 .. n /\ n # 0
    BY LenProperties, EmptySeq
<1>2. w \in Writes
    BY <1>1, ElementOfSeq
<1>3. Head(wire) = w
    OBVIOUS
<1>4. /\ tail \in Seq(Writes) /\ Len(tail) = n - 1
      /\ \A i \in 1 .. n - 1 : tail[i] = wire[i + 1]
    BY HeadTailProperties
<1>5. DOMAIN tail = 1 .. n - 1
    BY <1>4, LenProperties
<1>6. Resumed = IF w.next = "nothing" THEN << >> ELSE << Write(w.next) >>
    BY <1>3 DEF Resumed
<1>7. Write(w.next) \in Writes
    BY <1>2 DEF Write, Writes, Shown
<1> HIDE DEF w, n, tail
<1>8. CASE w.next = "nothing"
  <2>1. wire' = tail
      BY <1>4, <1>6, <1>8, ConcatEmptySeq DEF tail
  <2>2. \A i \in DOMAIN tail : \E j \in DOMAIN wire : tail[i] = wire[j]
    <3>1. \A i \in DOMAIN tail : i + 1 \in DOMAIN wire /\ tail[i] = wire[i + 1]
        BY <1>1, <1>4, <1>5
    <3> QED BY <3>1
  <2>3. CASE n = 1
    <3>1. tail = << >>
        BY <1>4, <2>3, EmptySeq
    <3> QED BY <1>4, <1>8, <2>1, <2>2, <2>3, <3>1 DEF w, n
  <2>4. CASE n # 1
    <3>1. n - 1 \in 1 .. n - 1 /\ (n - 1) + 1 = n
        BY <1>1, <2>4
    <3>2. tail[Len(tail)] = wire[n] /\ tail # << >>
        BY <1>4, <1>5, <3>1, EmptySeq
    <3> QED BY <1>4, <1>8, <2>1, <2>2, <3>2 DEF w, n
  <2> QED BY <2>3, <2>4
<1>9. CASE w.next # "nothing"
  <2> DEFINE b == << Write(w.next) >>
  <2>1. b \in Seq(Writes) /\ b # << >> /\ b[Len(b)] = Write(w.next) /\ DOMAIN b = {1} /\ b[1] = Write(w.next)
      BY <1>7
  <2> HIDE DEF b
  <2>2. wire' = tail \o b
      BY <1>6, <1>9 DEF tail, b
  <2>3. /\ tail \o b \in Seq(Writes)
        /\ \A i \in DOMAIN (tail \o b) : \/ \E j \in DOMAIN tail : (tail \o b)[i] = tail[j]
                                         \/ \E j \in DOMAIN b : (tail \o b)[i] = b[j]
        /\ tail \o b # << >> /\ (tail \o b)[Len(tail \o b)] = Write(w.next)
      BY <1>4, <2>1, Joined
  <2>4. \A i \in DOMAIN wire' : \/ \E j \in DOMAIN wire : wire'[i] = wire[j]
                                \/ wire'[i] = Write(w.next)
    <3>1. \A j \in DOMAIN tail : j + 1 \in DOMAIN wire /\ tail[j] = wire[j + 1]
        BY <1>1, <1>4, <1>5
    <3> QED BY <2>1, <2>2, <2>3, <3>1
  <2>5. Write(w.next).shows = w.next
      BY DEF Write
  <2> QED BY <1>9, <2>2, <2>3, <2>4, <2>5 DEF w
<1> QED BY <1>8, <1>9

-----------------------------------------------------------------------------
(* The invariant, step by step.                                             *)

LEMMA InitKInv == KeypadInit => KInv
<1> SUFFICES ASSUME KeypadInit PROVE KInv
    OBVIOUS
<1>1. IInv /\ up = FALSE
    BY InitInvariant DEF KeypadInit, Init
<1>2. log = << >> /\ wire = << >> /\ Sounding(log) = {}
    BY EmptySeq, LenProperties DEF KeypadInit, Init, Sounding, Listed, Active
<1>3. LinkInv
  <2>1. wire \in Seq([shows : Shown \cup {"alarm_off"}, next : Shown]) /\ DOMAIN wire = {}
      BY <1>2, EmptySeq, LenProperties
  <2>2. /\ shows \in Shown
        /\ {sirenOn, known, ready, attached, answers, online, astray} \subseteq BOOLEAN
      BY DEF KeypadInit, Shown
  <2>3. ready = FALSE /\ known = FALSE /\ attached = FALSE
      BY DEF KeypadInit
  <2> QED BY <1>2, <2>1, <2>2, <2>3 DEF LinkInv
<1>4. FlagInv
    BY <1>2 DEF KeypadInit, FlagInv
<1>5. QuietInv /\ MirrorInv
    BY <1>1, <1>2 DEF KeypadInit, QuietInv, MirrorInv, Reached
<1> QED BY <1>1, <1>3, <1>4, <1>5 DEF KInv

(* A turn of the panel, with what the controller sends.                     *)
LEMMA TurnLink ==
    ASSUME KInv, IInv', PanelTurn
    PROVE  /\ LinkInv'
           /\ ~astray' => ~astray /\ (known /\ ~ready => WithPanel.sent = << >>)
           /\ ~astray' => shows' = shows
           /\ sirenOn' = WithPanel.siren
           /\ known /\ ready => wire' = wire \o WithPanel.sent
           /\ ~(known /\ ready) => wire' = wire
<1> DEFINE k == WithPanel
<1>1. /\ sirenOn' = k.siren
      /\ wire' = IF known /\ ready THEN wire \o k.sent ELSE wire
      /\ astray' = (astray \/ (known /\ ~ready /\ k.sent # << >>))
      /\ shows' = IF astray' THEN "nothing" ELSE shows
      /\ UNCHANGED <<known, ready, attached, answers, online>> /\ up'
    BY DEF PanelTurn, Send, ShowsNext, WithPanel, WithEvents, Before
<1>2. Consistent(k)
    BY TurnSends DEF KInv, IInv, RowInv
<1> HIDE DEF k
<1>3. k.siren \in BOOLEAN /\ k.sent \in Seq(Writes) /\ \A i \in DOMAIN k.sent : k.sent[i].next # "alarm"
    BY <1>2 DEF Consistent, Controller
<1>4. wire \in Seq(Writes) /\ \A i \in DOMAIN wire : wire[i].next # "alarm"
    BY DEF KInv, LinkInv, Writes
<1>5. wire' \in Seq(Writes) /\ \A i \in DOMAIN wire' : wire'[i].next # "alarm"
  <2>1. CASE known /\ ready
    <3>1. /\ wire \o k.sent \in Seq(Writes)
          /\ \A i \in DOMAIN (wire \o k.sent) :
                \/ \E j \in DOMAIN wire : (wire \o k.sent)[i] = wire[j]
                \/ \E j \in DOMAIN k.sent : (wire \o k.sent)[i] = k.sent[j]
        BY <1>3, <1>4, Joined
    <3>2. wire' = wire \o k.sent
        BY <1>1, <2>1
    <3> QED BY <1>3, <1>4, <3>1, <3>2
  <2>2. CASE ~(known /\ ready)
      BY <1>1, <1>4, <2>2
  <2> QED BY <2>1, <2>2
<1>6. /\ shows' \in Shown
      /\ {sirenOn', known', ready', attached', answers', online', astray'} \subseteq BOOLEAN
      /\ attached' => ready' /\ known'
      /\ ~ready' => wire' = << >>
    BY <1>1, <1>3 DEF KInv, LinkInv, Shown
<1>7. LinkInv'
    BY <1>5, <1>6, <1>1 DEF LinkInv, KInv, Writes
<1> QED BY <1>1, <1>7 DEF k

LEMMA TurnFlag ==
    ASSUME KInv, IInv', Next, PanelTurn
    PROVE  FlagInv'
<1>1. TurnOfLog /\ LogType /\ RowType /\ RowType' /\ LinkInv
    BY PanelLog DEF KInv, IInv, RowInv
<1>2. ~EventsChanged => Sounding(log') = Sounding(log)
    BY <1>1, QuietUnlessChanged
<1>3. ~PanelCommitted => mode' = mode
    BY DEF PanelCommitted
<1>4. /\ WithEvents.siren =
                IF EventsChanged /\ (Sounding(log') # {}) # sirenOn
                THEN InAlarm /\ Sounding(log') # {} ELSE sirenOn
      /\ WithPanel.siren =
                IF PanelCommitted
                THEN mode' = "alarm_triggered" /\ Sounding(log') # {} ELSE WithEvents.siren
    BY <1>1, TurnSends
<1>5. sirenOn' = WithPanel.siren /\ (~astray' => ~astray) /\ sirenOn \in BOOLEAN
    BY TurnLink DEF KInv, LinkInv
<1>6. FlagInv
    BY DEF KInv
<1>7. WithEvents.siren => InAlarm /\ Sounding(log') # {}
    BY <1>2, <1>4, <1>5, <1>6 DEF FlagInv
<1>8. ~astray => WithEvents.siren = (InAlarm /\ Sounding(log') # {})
    BY <1>2, <1>4, <1>5, <1>6 DEF FlagInv
<1>9. sirenOn' => InAlarm' /\ Sounding(log') # {}
    BY <1>3, <1>4, <1>5, <1>7 DEF InAlarm
<1>10. ~astray' => sirenOn' = (InAlarm' /\ Sounding(log') # {})
    BY <1>3, <1>4, <1>5, <1>8 DEF InAlarm
<1> QED BY <1>9, <1>10 DEF FlagInv

LEMMA TurnLast ==
    ASSUME KInv, IInv', Next, PanelTurn, Reached'
    PROVE  /\ Reached
           /\ WithPanel.sent = << >> => wire' = wire /\ Last' = Last
           /\ WithPanel.sent # << >> => Last' = WithPanel.sent[Len(WithPanel.sent)].shows
<1> DEFINE k == WithPanel
<1>1. UNCHANGED <<known, answers>>
    BY DEF PanelTurn
<1>2. Reached /\ shows' = shows
    BY <1>1, TurnLink DEF Reached, KInv, LinkInv
<1>3. ready \/ k.sent = << >>
    BY <1>2, TurnLink DEF Reached
<1>4. k.sent \in Seq(Writes) /\ wire \in Seq(Writes)
    BY TurnSends DEF KInv, IInv, RowInv, Consistent, Controller, LinkInv, Writes
<1>5. wire' = IF ready THEN wire \o k.sent ELSE wire
    BY <1>2, TurnLink DEF Reached
<1> HIDE DEF k
<1>6. /\ k.sent = << >> => wire \o k.sent = wire
      /\ k.sent # << >> => /\ wire \o k.sent # << >>
                           /\ (wire \o k.sent)[Len(wire \o k.sent)] = k.sent[Len(k.sent)]
    BY <1>4, Joined
<1>7. k.sent = << >> => wire' = wire /\ Last' = Last
    BY <1>2, <1>5, <1>6 DEF Last
<1>8. k.sent # << >> => Last' = k.sent[Len(k.sent)].shows
    BY <1>3, <1>5, <1>6 DEF Last
<1> QED BY <1>2, <1>3, <1>7, <1>8 DEF k

LEMMA TurnQuiet ==
    ASSUME KInv, IInv', Next, PanelTurn
    PROVE  QuietInv'
<1> SUFFICES ASSUME Reached', ~sirenOn' PROVE Last' # "alarm"
    BY DEF QuietInv
<1>1. Consistent(WithPanel) /\ sirenOn' = WithPanel.siren /\ Reached
    BY TurnSends, TurnLink, TurnLast DEF KInv, IInv, RowInv
<1>2. CASE WithPanel.sent = << >>
    BY <1>1, <1>2, TurnLast DEF Consistent, KInv, QuietInv
<1>3. CASE WithPanel.sent # << >>
    BY <1>1, <1>3, TurnLast DEF Consistent
<1> QED BY <1>2, <1>3

LEMMA TurnMirror ==
    ASSUME KInv, IInv', Next, PanelTurn
    PROVE  MirrorInv'
<1> SUFFICES ASSUME ~astray', NeverSounded(log')
             PROVE  /\ \A i \in DOMAIN wire' : wire'[i].next = "nothing" /\ wire'[i].shows # "alarm_off"
                    /\ Reached' => Last' = Current'
    BY DEF MirrorInv, NeverSounded
<1>1. NeverSounded(log) /\ Sounding(log') = {} /\ Sounding(log) = {} /\ ~astray
    BY NeverSoundedYet, PanelLog, TurnLink DEF KInv, IInv
<1>2. sirenOn = FALSE
    BY <1>1 DEF KInv, FlagInv, LinkInv
<1>3. /\ PanelCommitted  => WithPanel.sent = << Write(Current') >>
      /\ ~PanelCommitted => WithPanel.sent = << >>
    BY <1>1, <1>2, TurnMirrors DEF IInv, RowInv
<1>4. ~PanelCommitted => Current' = Current
  <2>1. ~PanelCommitted => mode' = mode /\ armedMode' = armedMode
      BY DEF PanelCommitted
  <2> QED BY <1>1, <2>1 DEF Current, IndicationFor
<1>5. /\ \A i \in DOMAIN wire : wire[i].next = "nothing" /\ wire[i].shows # "alarm_off"
      /\ Reached => Last = Current
    BY <1>1 DEF KInv, MirrorInv
<1>6. Current' # "alarm_off" /\ Current' \in Shown
  <2>1. Current' = IndicationFor(mode', armedMode', log') /\ RowType'
      BY DEF Current, IInv, RowInv
  <2> QED BY <2>1, IndicationIs DEF RowType, Shown
<1>7. \A i \in DOMAIN wire' : wire'[i].next = "nothing" /\ wire'[i].shows # "alarm_off"
  <2>1. CASE known /\ ready /\ PanelCommitted
    <3> DEFINE b == << Write(Current') >>
    <3>1. b \in Seq(Writes) /\ DOMAIN b = {1} /\ b[1].next = "nothing" /\ b[1].shows # "alarm_off"
        BY <1>6 DEF Write, Writes, Shown
    <3>2. wire' = wire \o b
        BY <1>3, <2>1, TurnLink
    <3> HIDE DEF b
    <3>3. wire \in Seq(Writes)
        BY DEF KInv, LinkInv, Writes
    <3>4. \A i \in DOMAIN (wire \o b) : \/ \E j \in DOMAIN wire : (wire \o b)[i] = wire[j]
                                        \/ \E j \in DOMAIN b : (wire \o b)[i] = b[j]
        BY <3>1, <3>3, Joined
    <3> QED BY <1>5, <3>1, <3>2, <3>4
  <2>2. CASE ~(known /\ ready /\ PanelCommitted)
    <3>1. wire' = wire
      <4>1. CASE ~(known /\ ready)
          BY <4>1, TurnLink
      <4>2. CASE known /\ ready
        <5>1. wire' = wire \o << >>
            BY <1>3, <2>2, <4>2, TurnLink
        <5>2. wire \in Seq(Writes)
            BY DEF KInv, LinkInv, Writes
        <5> QED BY <5>1, <5>2, ConcatEmptySeq
      <4> QED BY <4>1, <4>2
    <3> QED BY <1>5, <3>1
  <2> QED BY <2>1, <2>2
<1>8. ASSUME Reached' PROVE Last' = Current'
  <2>1. Reached
      BY <1>8, TurnLast
  <2>2. CASE PanelCommitted
    <3>1. WithPanel.sent = << Write(Current') >> /\ << Write(Current') >> # << >>
        BY <1>3, <2>2
    <3>2. << Write(Current') >>[Len(<< Write(Current') >>)].shows = Current'
        BY DEF Write
    <3> QED BY <1>8, <3>1, <3>2, TurnLast
  <2>3. CASE ~PanelCommitted
      BY <1>3, <1>4, <1>5, <1>8, <2>1, <2>3, TurnLast
  <2> QED BY <2>2, <2>3
<1> QED BY <1>7, <1>8

LEMMA TurnKInv ==
    ASSUME KInv, IInv', Next, PanelTurn
    PROVE  KInv'
BY TurnLink, TurnFlag, TurnQuiet, TurnMirror DEF KInv

LEMMA StopsKInv ==
    ASSUME KInv, IInv', ProcessStops
    PROVE  KInv'
<1>1. /\ sirenOn' = FALSE /\ known' = FALSE /\ ready' = FALSE /\ attached' = FALSE
      /\ online' = FALSE /\ wire' = << >> /\ answers' = answers
      /\ astray' = (astray \/ Sounding(log') # {})
      /\ shows' = IF astray' THEN "nothing" ELSE shows
    BY DEF ProcessStops, ShowsNext
<1>2. DOMAIN wire' = {} /\ wire' \in Seq(Writes)
    BY <1>1, EmptySeq, LenProperties
<1>3. /\ shows' \in Shown
      /\ {sirenOn', known', ready', attached', answers', online', astray'} \subseteq BOOLEAN
    BY <1>1 DEF KInv, LinkInv, Shown
<1>4. LinkInv'
    BY <1>1, <1>2, <1>3 DEF LinkInv, Writes
<1>5. FlagInv'
    BY <1>1 DEF FlagInv
<1>6. QuietInv' /\ MirrorInv'
    BY <1>1, <1>2 DEF QuietInv, MirrorInv, Reached
<1> QED BY <1>4, <1>5, <1>6 DEF KInv

(* While the panel stays as it is, so does all that speaks of it. *)
LEMMA PanelStays ==
    ASSUME KInv, UNCHANGED vars, UNCHANGED <<sirenOn, astray>>
    PROVE  IInv' /\ FlagInv' /\ Current' = Current
<1>1. UNCHANGED <<log, mode, armedMode>>
    BY DEF vars
<1> QED BY <1>1, StutterInvariant DEF KInv, FlagInv, InAlarm, Current

LEMMA WriteEnds ==
    ASSUME KInv, Delivered \/ Lost
    PROVE  KInv'
<1>1. /\ wire # << >> /\ wire' = Tail(wire) \o Resumed
      /\ UNCHANGED <<vars, sirenOn, known, ready, attached, answers, online, astray>>
      /\ answers => shows' = IF astray THEN "nothing"
                             ELSE IF wire[1].shows # "alarm_off" THEN wire[1].shows
                             ELSE IF shows = "alarm" THEN "nothing" ELSE shows
      /\ ~answers => shows' = shows
  <2>1. Head(wire) = wire[1]
      OBVIOUS
  <2> QED BY <2>1 DEF Delivered, Lost, ShowsNext
<1>2. /\ wire \in Seq(Writes) /\ Len(wire) \in Nat /\ 1 \in DOMAIN wire
      /\ \A i \in DOMAIN wire : wire[i] \in Writes /\ wire[i].next # "alarm"
  <2>1. wire \in Seq(Writes) /\ \A i \in DOMAIN wire : wire[i].next # "alarm"
      BY DEF KInv, LinkInv, Writes
  <2>2. Len(wire) \in Nat \ {0} /\ DOMAIN wire = 1 .. Len(wire)
      BY <1>1, <2>1, EmptySeq, LenProperties
  <2> QED BY <2>1, <2>2, ElementOfSeq
<1>3. /\ wire' \in Seq(Writes)
      /\ \A i \in DOMAIN wire' : \/ \E j \in DOMAIN wire : wire'[i] = wire[j]
                                 \/ /\ wire'[i] = Write(wire[1].next)
                                    /\ wire[1].next # "nothing"
      /\ \/ wire[1].next # "nothing" /\ wire' # << >> /\ wire'[Len(wire')].shows = wire[1].next
         \/ /\ wire[1].next = "nothing"
            /\ \/ Len(wire) = 1 /\ wire' = << >>
               \/ wire' # << >> /\ wire'[Len(wire')] = wire[Len(wire)]
    BY <1>1, <1>2, Advances
<1>4. /\ wire[1].next \in Shown /\ wire[1].next # "alarm"
      /\ wire[1].shows \in Shown \cup {"alarm_off"}
    BY <1>2 DEF Writes
<1>5. IInv' /\ FlagInv' /\ Current' = Current /\ log' = log /\ up' = up
    BY <1>1, PanelStays DEF vars
<1>6. LinkInv'
  <2>1. \A i \in DOMAIN wire' : wire'[i].next # "alarm"
      BY <1>2, <1>3 DEF Write
  <2>2. shows' \in Shown
      BY <1>1, <1>4 DEF KInv, LinkInv, Shown
  <2>3. {sirenOn', known', ready', attached', answers', online', astray'} \subseteq BOOLEAN
      BY <1>1 DEF KInv, LinkInv
  <2>4. (known' \/ ready' => up') /\ (attached' => ready' /\ known') /\ ready
      BY <1>1, <1>5 DEF KInv, LinkInv
  <2>5. ready'
      BY <1>1, <2>4
  <2> QED BY <1>3, <2>1, <2>2, <2>3, <2>4, <2>5 DEF LinkInv, Writes
<1>7. Reached' => Reached /\ answers /\ ~astray
    BY <1>1, <1>5 DEF Reached
<1>8. QuietInv'
  <2> SUFFICES ASSUME Reached', ~sirenOn' PROVE Last' # "alarm"
      BY DEF QuietInv
  <2>1. Last # "alarm"
      BY <1>1, <1>7 DEF KInv, QuietInv
  <2>2. CASE wire' = << >>
    <3>1. Last = wire[1].shows /\ Last' = shows'
        BY <1>1, <1>3, <2>2 DEF Last
    <3> QED BY <1>1, <1>7, <2>1, <3>1
  <2>3. CASE wire' # << >>
      BY <1>1, <1>3, <1>4, <2>1, <2>3 DEF Last
  <2> QED BY <2>2, <2>3
<1>9. MirrorInv'
  <2> SUFFICES ASSUME ~astray', NeverSounded(log')
               PROVE  /\ \A i \in DOMAIN wire' : wire'[i].next = "nothing" /\ wire'[i].shows # "alarm_off"
                      /\ Reached' => Last' = Current'
      BY DEF MirrorInv, NeverSounded
  <2>1. /\ \A i \in DOMAIN wire : wire[i].next = "nothing" /\ wire[i].shows # "alarm_off"
        /\ Reached => Last = Current
      BY <1>1, <1>5 DEF KInv, MirrorInv
  <2>2. wire[1].next = "nothing" /\ wire[1].shows # "alarm_off"
      BY <1>2, <2>1
  <2>3. \A i \in DOMAIN wire' : wire'[i].next = "nothing" /\ wire'[i].shows # "alarm_off"
      BY <1>3, <2>1, <2>2
  <2>4. ASSUME Reached' PROVE Last' = Last
    <3>1. CASE wire' = << >>
        BY <1>1, <1>3, <1>7, <2>2, <2>4, <3>1 DEF Last
    <3>2. CASE wire' # << >>
        BY <1>1, <1>3, <2>2, <3>2 DEF Last
    <3> QED BY <3>1, <3>2
  <2> QED BY <1>5, <1>7, <2>1, <2>3, <2>4
<1> QED BY <1>5, <1>6, <1>8, <1>9 DEF KInv

LEMMA DiesKInv ==
    ASSUME KInv, NodeDies
    PROVE  KInv'
<1>1. /\ UNCHANGED <<vars, sirenOn, known, ready, attached, wire, shows, astray>>
      /\ answers' = FALSE /\ online' = (online /\ ~attached)
    BY DEF NodeDies
<1>2. IInv' /\ FlagInv' /\ UNCHANGED <<log, up>>
    BY <1>1, PanelStays DEF vars
<1>3. LinkInv'
  <2>1. online' \in BOOLEAN
      BY <1>1 DEF KInv, LinkInv
  <2> QED BY <1>1, <1>2, <2>1 DEF KInv, LinkInv
<1>4. QuietInv' /\ MirrorInv'
    BY <1>1, <1>2 DEF KInv, QuietInv, MirrorInv, Reached
<1> QED BY <1>2, <1>3, <1>4 DEF KInv

LEMMA UnnoticedKInv ==
    ASSUME KInv, ReturnsUnnoticed
    PROVE  KInv'
<1>1. /\ UNCHANGED <<vars, sirenOn, known, ready, attached, online, wire>>
      /\ answers' = TRUE /\ astray' = (astray \/ known)
      /\ shows' = IF astray' THEN "nothing" ELSE shows
    BY DEF ReturnsUnnoticed, ShowsNext
<1>2. IInv' /\ UNCHANGED <<log, up, mode, armedMode>>
    BY <1>1, StutterInvariant DEF KInv, vars
<1>3. FlagInv'
    BY <1>1, <1>2 DEF KInv, FlagInv, InAlarm
<1>4. LinkInv'
  <2>1. shows' \in Shown /\ astray' \in BOOLEAN
      BY <1>1 DEF KInv, LinkInv, Shown
  <2> QED BY <1>1, <1>2, <2>1 DEF KInv, LinkInv
<1>5. ~Reached' /\ (~astray' => ~astray)
    BY <1>1 DEF Reached
<1>6. QuietInv' /\ MirrorInv'
    BY <1>1, <1>2, <1>5 DEF KInv, QuietInv, MirrorInv
<1> QED BY <1>2, <1>3, <1>4, <1>6 DEF KInv

(* A keypad that appears, or comes back, is shown the current state.        *)
LEMMA ShownCurrent ==
    ASSUME KInv, UNCHANGED <<vars, sirenOn, astray, shows>>, LinkInv',
           wire' = Append(wire, Write(Current))
    PROVE  KInv'
<1>1. IInv' /\ FlagInv' /\ Current' = Current /\ log' = log
    BY PanelStays DEF vars
<1>2. Current \in Shown /\ (Current = "alarm" => InAlarm /\ Sounding(log) # {})
    BY IndicationIs DEF KInv, IInv, RowInv, RowType, Current, InAlarm
<1> DEFINE w == Write(Current)
<1>3. w \in Writes /\ w.shows = Current /\ w.next = "nothing"
    BY <1>2 DEF Write, Writes, Shown
<1> HIDE DEF w
<1>4. wire \in Seq(Writes)
    BY DEF KInv, LinkInv, Writes
<1>5. /\ Len(wire') = Len(wire) + 1 /\ Len(wire) \in Nat
      /\ \A i \in 1 .. Len(wire) : wire'[i] = wire[i]
      /\ wire'[Len(wire) + 1] = w
      /\ DOMAIN wire = 1 .. Len(wire) /\ DOMAIN wire' = 1 .. Len(wire')
    BY <1>3, <1>4, AppendProperties, LenProperties DEF w
<1>6. Last' = Current
  <2>1. wire' # << >>
      BY <1>5
  <2> QED BY <1>3, <1>5, <2>1 DEF Last
<1>7. QuietInv'
    BY <1>2, <1>6 DEF QuietInv, KInv, FlagInv, Reached
<1>8. MirrorInv'
  <2> SUFFICES ASSUME ~astray', NeverSounded(log')
               PROVE  /\ \A i \in DOMAIN wire' : wire'[i].next = "nothing" /\ wire'[i].shows # "alarm_off"
                      /\ Reached' => Last' = Current'
      BY DEF MirrorInv, NeverSounded
  <2>1. \A i \in DOMAIN wire : wire[i].next = "nothing" /\ wire[i].shows # "alarm_off"
      BY <1>1 DEF KInv, MirrorInv
  <2>2. w.shows # "alarm_off"
      BY <1>2, <1>3 DEF Shown
  <2> QED BY <1>1, <1>3, <1>5, <1>6, <2>1, <2>2
<1> QED BY <1>1, <1>7, <1>8 DEF KInv

LEMMA AppendedLink ==
    ASSUME KInv, UNCHANGED <<vars, sirenOn, astray, shows>>, ready', known', up,
           {online', known', ready', attached', answers'} \subseteq BOOLEAN,
           wire' = Append(wire, Write(Current))
    PROVE  LinkInv'
<1> DEFINE w == Write(Current)
<1>1. w \in Writes /\ w.next = "nothing"
  <2>1. Current \in Shown
      BY IndicationIs DEF KInv, IInv, RowInv, RowType, Current
  <2> QED BY <2>1 DEF Write, Writes, Shown
<1> HIDE DEF w
<1>2. wire \in Seq(Writes) /\ \A i \in DOMAIN wire : wire[i].next # "alarm"
    BY DEF KInv, LinkInv, Writes
<1>3. /\ wire' \in Seq(Writes)
      /\ Len(wire') = Len(wire) + 1 /\ Len(wire) \in Nat
      /\ \A i \in 1 .. Len(wire) : wire'[i] = wire[i]
      /\ wire'[Len(wire) + 1] = w
      /\ DOMAIN wire = 1 .. Len(wire) /\ DOMAIN wire' = 1 .. Len(wire')
    BY <1>1, <1>2, AppendProperties, LenProperties DEF w
<1>4. \A i \in DOMAIN wire' : wire'[i].next # "alarm"
    BY <1>1, <1>2, <1>3
<1>5. /\ up' /\ shows' \in Shown
      /\ {sirenOn', known', ready', attached', answers', online', astray'} \subseteq BOOLEAN
    BY DEF KInv, LinkInv, vars
<1> QED BY <1>3, <1>4, <1>5 DEF LinkInv, Writes

LEMMA OnlineKInv ==
    ASSUME KInv, ComesOnline
    PROVE  KInv'
<1>1. /\ UNCHANGED <<vars, sirenOn, astray, shows, known, ready, attached>>
      /\ online' = TRUE /\ answers' = TRUE /\ ready /\ known /\ up
    BY DEF ComesOnline, KInv, LinkInv
<1>2. wire' = Append(wire, Write(Current))
  <2>1. wire' = wire \o << Write(Current) >>
      BY <1>1 DEF ComesOnline, Send
  <2>2. wire \in Seq(Writes)
      BY DEF KInv, LinkInv, Writes
  <2> QED BY <2>1, <2>2
<1>3. {online', known', ready', attached', answers'} \subseteq BOOLEAN
    BY <1>1 DEF KInv, LinkInv
<1> QED BY <1>1, <1>2, <1>3, AppendedLink, ShownCurrent

(* The gateway adopts the node: one that is new and answers is shown the    *)
(* current state, one that is known already keeps what it was last sent.    *)
LEMMA AdoptKInv ==
    ASSUME KInv, Adopt
    PROVE  KInv'
<1>1. /\ UNCHANGED <<vars, sirenOn, astray, shows, ready, answers>>
      /\ ready /\ known' = TRUE /\ attached' = TRUE /\ up
      /\ online' = IF known THEN online ELSE answers
    BY DEF Adopt, KInv, LinkInv
<1>2. {online', known', ready', attached', answers'} \subseteq BOOLEAN
    BY <1>1 DEF KInv, LinkInv
<1>3. CASE ~known /\ answers
  <2>1. wire' = Append(wire, Write(Current))
      BY <1>3 DEF Adopt
  <2> QED BY <1>1, <1>2, <2>1, AppendedLink, ShownCurrent
<1>4. CASE ~(~known /\ answers)
  <2>1. wire' = wire
      BY <1>4 DEF Adopt
  <2>2. IInv' /\ FlagInv' /\ Current' = Current /\ UNCHANGED <<log, up>>
      BY <1>1, PanelStays DEF vars
  <2>3. LinkInv'
      BY <1>1, <1>2, <2>1, <2>2 DEF KInv, LinkInv
  <2>4. (Reached' => Reached) /\ Last' = Last
      BY <1>1, <1>4, <2>1, <2>2 DEF Reached, Last
  <2> QED BY <1>1, <2>1, <2>2, <2>3, <2>4 DEF KInv, QuietInv, MirrorInv
<1> QED BY <1>3, <1>4

LEMMA DriverKInv ==
    ASSUME KInv, DriverReady \/ DriverFails
    PROVE  KInv'
<1>1. CASE DriverReady
  <2>1. /\ UNCHANGED <<vars, sirenOn, known, attached, answers, online, wire, shows, astray>>
        /\ ready' = TRUE /\ up
      BY <1>1 DEF DriverReady
  <2>2. IInv' /\ FlagInv' /\ Current' = Current /\ UNCHANGED <<log, up>>
      BY <2>1, PanelStays DEF vars
  <2>3. LinkInv'
      BY <2>1, <2>2 DEF KInv, LinkInv
  <2>4. (Reached' <=> Reached) /\ Last' = Last
      BY <2>1, <2>2 DEF Reached, Last
  <2> QED BY <2>1, <2>2, <2>3, <2>4 DEF KInv, QuietInv, MirrorInv
<1>2. CASE DriverFails
  <2>1. /\ UNCHANGED <<vars, sirenOn, answers, online, known>>
        /\ ready' = FALSE /\ attached' = FALSE /\ wire' = << >>
        /\ astray' = (astray \/ wire # << >>)
        /\ shows' = IF astray' THEN "nothing" ELSE shows
      BY <1>2 DEF DriverFails, ShowsNext
  <2>2. DOMAIN wire' = {} /\ wire' \in Seq(Writes)
      BY <2>1, EmptySeq, LenProperties
  <2>3. UNCHANGED <<log, up, mode, armedMode>> /\ IInv'
      BY <2>1, StutterInvariant DEF vars, KInv
  <2>4. FlagInv'
      BY <2>1, <2>3 DEF KInv, FlagInv, InAlarm
  <2>5. /\ shows' \in Shown
        /\ {sirenOn', known', ready', attached', answers', online', astray'} \subseteq BOOLEAN
        /\ known' => up'
      BY <2>1, <2>3 DEF KInv, LinkInv, Shown
  <2>6. LinkInv'
      BY <2>1, <2>2, <2>5 DEF LinkInv, Writes
  <2>7. ~astray' => wire = << >> /\ ~astray
      BY <2>1
  <2>8. (Reached' => Reached /\ Last' = Last) /\ Current' = Current
      BY <2>1, <2>3, <2>7 DEF Reached, Last, Current
  <2>9. QuietInv' /\ MirrorInv'
      BY <2>1, <2>2, <2>3, <2>7, <2>8 DEF KInv, QuietInv, MirrorInv
  <2> QED BY <2>3, <2>4, <2>6, <2>9 DEF KInv
<1> QED BY <1>1, <1>2

LEMMA KStutter ==
    ASSUME KInv, UNCHANGED keypadVars
    PROVE  KInv'
<1>1. UNCHANGED <<vars, sirenOn, known, ready, attached, answers, online, wire, shows, astray>>
    BY DEF keypadVars, keypad
<1>2. IInv' /\ FlagInv' /\ Current' = Current /\ UNCHANGED <<log, up>>
    BY <1>1, PanelStays DEF vars
<1>3. LinkInv'
    BY <1>1, <1>2 DEF KInv, LinkInv
<1>4. Last' = Last /\ (Reached' <=> Reached)
    BY <1>1, <1>2 DEF Last, Reached
<1> QED BY <1>1, <1>2, <1>3, <1>4 DEF KInv, QuietInv, MirrorInv

LEMMA StepKInv == KInv /\ [KeypadNext]_keypadVars => KInv'
<1> SUFFICES ASSUME KInv, [KeypadNext]_keypadVars PROVE KInv'
    OBVIOUS
<1>1. Next => IInv'
    BY StepInvariant DEF KInv
<1> QED BY <1>1, TurnKInv, StopsKInv, WriteEnds, DiesKInv, OnlineKInv, UnnoticedKInv, DriverKInv,
        AdoptKInv, KStutter DEF KeypadNext

LEMMA KeypadInvariant == KeypadSpec => []KInv
BY InitKInv, StepKInv, PTL DEF KeypadSpec

(* Type correctness of the keypad and of the panel below it. *)
THEOREM KeypadTypeCorrect == KeypadSpec => []KeypadTypeOK
<1>1. KInv => KeypadTypeOK
  <2> SUFFICES ASSUME KInv PROVE KeypadTypeOK
      OBVIOUS
  <2>1. TypeOK
      BY TypeParts DEF KInv, IInv, RowInv
  <2>2. /\ sirenOn \in BOOLEAN /\ known \in BOOLEAN /\ ready \in BOOLEAN
        /\ attached \in BOOLEAN /\ answers \in BOOLEAN /\ online \in BOOLEAN
        /\ astray \in BOOLEAN /\ shows \in Shown
        /\ wire \in Seq([shows : Shown \cup {"alarm_off"}, next : Shown])
      BY DEF KInv, LinkInv
  <2> QED BY <2>1, <2>2 DEF KeypadTypeOK
<1> QED BY <1>1, KeypadInvariant, PTL

(* keypad_changed and panel_changed: until an alarm sounds, a keypad that   *)
(* has missed nothing for good ends up showing the state of the panel,      *)
(* however often it and its driver came and went.                           *)
THEOREM KeypadMirrors == KeypadSpec => []MirrorsUntilAlarm
<1>1. KInv => MirrorsUntilAlarm
    BY DEF KInv, MirrorInv, MirrorsUntilAlarm, MirrorsPanel, NeverSounded, Settled, Reached, Last
<1> QED BY <1>1, KeypadInvariant, PTL

(* alarm_event and show: the siren of a keypad that has missed nothing for  *)
(* good never outlasts the alarm.                                           *)
THEOREM KeypadSirenEnds == KeypadSpec => []SirenOffUnlessAstray
<1>1. KInv => SirenOffUnlessAstray
  <2> SUFFICES ASSUME KInv, ~astray, Settled, Sounding(log) = {} PROVE shows # "alarm"
      BY DEF SirenOffUnlessAstray, SirenOffWhenSilent
  <2>1. ~sirenOn /\ Reached /\ Last = shows
      BY DEF KInv, FlagInv, Settled, Reached, Last
  <2> QED BY <2>1 DEF KInv, QuietInv
<1> QED BY <1>1, KeypadInvariant, PTL

(* sirenOn: for every house, no turn takes the flag off the events, but for *)
(* the stand-down of a guest while something else sounds.                   *)
THEOREM KeypadFlagFollows ==
    ASSUME MaxEvents <= ListLimit
    PROVE  KeypadSpec => FlagFollowsEvents
<1> DEFINE Follows == up /\ up' /\ sirenOn = (Sounding(log) # {})
                        => StoodDownInAlarm \/ sirenOn' = (Sounding(log') # {})
<1>1. KInv /\ KInv' /\ [KeypadNext]_keypadVars => [Follows]_keypadVars
  <2> SUFFICES ASSUME KInv, KInv', KeypadNext, up, up', sirenOn = (Sounding(log) # {})
               PROVE  StoodDownInAlarm \/ sirenOn' = (Sounding(log') # {})
      OBVIOUS
  <2>1. ASSUME UNCHANGED <<vars, sirenOn>> PROVE sirenOn' = (Sounding(log') # {})
      BY <2>1 DEF vars
  <2>2. CASE Next /\ PanelTurn
    <3>1. TurnOfLog /\ LogType /\ RowType /\ RowType' /\ IInv' /\ LinkInv
        BY <2>2, PanelLog DEF KInv, IInv, RowInv
    <3>2. ~EventsChanged => Sounding(log') = Sounding(log)
        BY <3>1, QuietUnlessChanged
    <3>3. /\ WithEvents.siren =
                    IF EventsChanged /\ (Sounding(log') # {}) # sirenOn
                    THEN InAlarm /\ Sounding(log') # {} ELSE sirenOn
          /\ WithPanel.siren =
                    IF PanelCommitted
                    THEN mode' = "alarm_triggered" /\ Sounding(log') # {} ELSE WithEvents.siren
        BY <3>1, TurnSends
    <3>4. sirenOn' = WithPanel.siren /\ sirenOn \in BOOLEAN
        BY <2>2, TurnLink DEF KInv, LinkInv
    <3>5. ~PanelCommitted => mode' = mode
        BY DEF PanelCommitted
    <3>6. CASE Sounding(log') = {}
        BY <3>2, <3>3, <3>4, <3>6
    <3>7. CASE Sounding(log') # {} /\ mode' = "alarm_triggered"
        BY <3>2, <3>3, <3>4, <3>5, <3>7 DEF InAlarm
    <3>8. CASE Sounding(log') # {} /\ mode' # "alarm_triggered"
      <4>1. Sounding(log) # {}
          BY <3>1, <3>8, NewAlarm DEF KInv
      <4>2. InAlarm
          BY <4>1 DEF KInv, FlagInv
      <4> QED BY <3>8, <4>2 DEF StoodDownInAlarm, InAlarm
    <3> QED BY <3>6, <3>7, <3>8
  <2>3. ~ProcessStops
      BY DEF ProcessStops
  <2>4. CASE \/ Delivered \/ Lost \/ NodeDies \/ ComesOnline \/ ReturnsUnnoticed
             \/ DriverReady \/ Adopt \/ DriverFails
    <3>1. UNCHANGED <<vars, sirenOn>>
        BY <2>4 DEF Delivered, Lost, NodeDies, ComesOnline, ReturnsUnnoticed,
           DriverReady, Adopt, DriverFails
    <3> QED BY <2>1, <3>1
  <2> QED BY <2>2, <2>3, <2>4 DEF KeypadNext
<1> QED BY <1>1, KeypadInvariant, PTL DEF KeypadSpec, FlagFollowsEvents
=============================================================================
