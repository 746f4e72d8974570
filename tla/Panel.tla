------------------------------- MODULE Panel -------------------------------
(***************************************************************************)
(* The alarm panel: PanelService (src/src/alarm/panel-service.ts) with the *)
(* panel row and the disarmed zones it persists, the sensor states whose   *)
(* edges SensorMapper reports to it, and the alarm events it opens and     *)
(* ends through AlarmEventService.                                         *)
(*                                                                         *)
(* Every handler of the service runs to completion in one turn of Node's   *)
(* event loop, so it is one action.  It is several SQLite statements       *)
(* outside of a transaction, though, and the process can stop between two  *)
(* of them: the Crash actions.                                             *)
(***************************************************************************)
EXTENDS AlarmEventLog

CONSTANTS
    Zones, NoZone,
    NoMode,              \* armed_mode IS NULL
    ZoneOf,              \* sensor -> zone
    LifeSafety,          \* sensors of category life-safety; the others are intrusion
    AlarmKindOf,         \* life-safety sensor -> SMOKE, CO or FLOOD_FREEZE
    Delayed,             \* sensors placed at a main door or entryway, or nowhere
    AlertsOnly,          \* sensors that never alarm
    HomeSensors,         \* sensors with armedHome
    AwaySensors,         \* sensors with armedAway
    QuickExitSensors,    \* sensors with quickExitEnabled
    FaultKinds,          \* what sensors report, of "open", "tampered", "offline"
    PersonKinds,         \* events people and the lockout policy raise
    ExitDelay,           \* armed mode -> ticks
    EntryDelay,          \* armed mode -> ticks
    QuickExitWindow,     \* QUICK_EXIT_WINDOW_MS in ticks
    CrashInsideHandlers, \* whether the process may stop between two statements
    MaxEvents            \* bound on the rows of the log

ArmedModes == {"armed_home", "armed_away"}

ASSUME PanelAssumption ==
    /\ NoZone \notin Zones
    /\ NoMode \notin ArmedModes
    /\ ZoneOf \in [Devices -> Zones]
    /\ LifeSafety \subseteq Devices
    /\ AlarmKindOf \in [LifeSafety -> {"SMOKE", "CO", "FLOOD_FREEZE"}]
    /\ QuickExitSensors \subseteq Devices \ LifeSafety
    /\ FaultKinds \subseteq {"open", "tampered", "offline"}
    /\ PersonKinds \subseteq {"BURGLARY", "PANIC", "FIRE", "MEDICAL", "SOS", "DURESS"}
    /\ ExitDelay \in [ArmedModes -> Nat]
    /\ EntryDelay \in [ArmedModes -> Nat]
    /\ QuickExitWindow \in Nat
    /\ CrashInsideHandlers \in BOOLEAN
    /\ MaxEvents \in Nat

VARIABLES
    \* persisted: the panel row, and the table panel_disarmed_zones
    mode, armedMode,
    endsIn,         \* pending_delay_ends_at, as ticks from now
    triggeredBy,    \* sensor and zone of the security event triggered_by names
    bypassed, disarmedZones,
    \* persisted: sensor_devices and alarm_events
    installed, fault, log,
    \* lost in a crash
    pendingTimer, quickExitLeft, timers, up

panelRow == <<mode, armedMode, endsIn, triggeredBy, bypassed, disarmedZones>>
sensors  == <<installed, fault>>
events   == <<log, timers>>
vars == <<mode, armedMode, endsIn, triggeredBy, bypassed, disarmedZones,
          installed, fault, log, pendingTimer, quickExitLeft, timers, up>>

Modes == ArmedModes \cup {"disarmed", "arming", "alarm_pending", "alarm_triggered"}

NoDelay == -1

(* A security event is its sensor and zone; a panel row that names none is  *)
(* treated by every reader as one whose event has neither.                  *)
Causes == [sensor : Devices \cup {NoDevice}, zone : Zones \cup {NoZone}]
NoCause == [sensor |-> NoDevice, zone |-> NoZone]
CauseOf(s) == [sensor |-> s, zone |-> ZoneOf[s]]

(* What the closure given to setTimeout has captured.  `ref` is the row its *)
(* security event will refer to by a foreign key, the user who armed or the *)
(* sensor that started the delay: none, still there, or deleted since.      *)
Timers == [kind : {"none", "exit", "entry"}, left : Nat,
           target : ArmedModes \cup {NoMode}, cause : Causes,
           ref : {"none", "live", "gone"}]

NoTimer ==
    [kind |-> "none", left |-> 0, target |-> NoMode, cause |-> NoCause, ref |-> "none"]
ExitTimer(left, target, byUser) ==
    [kind |-> "exit", left |-> left, target |-> target, cause |-> NoCause,
     ref |-> IF byUser THEN "live" ELSE "none"]
EntryTimer(left, cause) ==
    [kind |-> "entry", left |-> left, target |-> NoMode, cause |-> cause,
     ref |-> IF cause.sensor \in Devices THEN "live" ELSE "none"]

NoQuickExit == [s \in Devices |-> 0]

Intrusion == installed \ LifeSafety

(* A new or an upgraded database; in the latter a row written while arming  *)
(* before the column armed_mode existed.  The process has yet to start.     *)
Init ==
    /\ \/ mode = "disarmed" /\ endsIn = NoDelay
       \/ mode = "arming" /\ endsIn = 0
    /\ armedMode = NoMode
    /\ triggeredBy = NoCause
    /\ bypassed = {}
    /\ disarmedZones = {}
    /\ installed = Devices
    /\ fault = [s \in Devices |-> {}]
    /\ log = << >>
    /\ pendingTimer = NoTimer
    /\ quickExitLeft = NoQuickExit
    /\ timers = {}
    /\ up = FALSE

-----------------------------------------------------------------------------
(* Raising an alarm.                                                        *)

(* Keeps one row free for the entry delay that may be running. *)
RoomForReport == Len(log) + 1 < MaxEvents

OpenEvent(kind, sensor) ==
    /\ log' = Opened(log, kind, sensor)
    /\ timers' = IF InitialDispatch(kind) = "held" THEN timers \cup {Len(log) + 1} ELSE timers

(* raise: the event is opened whatever the mode; a silent one leaves the    *)
(* panel as it is.                                                          *)
Raise(kind, cause) ==
    /\ OpenEvent(kind, cause.sensor)
    /\ IF SoundsSiren(kind)
       THEN /\ mode' = "alarm_triggered"
            /\ endsIn' = NoDelay
            /\ triggeredBy' = cause
            /\ pendingTimer' = NoTimer
            /\ UNCHANGED <<armedMode, bypassed, disarmedZones>>
       ELSE UNCHANGED <<panelRow, pendingTimer>>

(* raiseEmergency, raiseDuress, and triggerAlarm by the lockout policy. *)
PersonRaises(kind) ==
    /\ up
    /\ RoomForReport
    /\ Raise(kind, NoCause)
    /\ UNCHANGED <<sensors, quickExitLeft, up>>

(* silence; it throws when no siren sounds. *)
Silence ==
    /\ up
    /\ Sounding(log) # {}
    /\ log' = MoveSounding(log, "silenced")
    /\ UNCHANGED <<panelRow, sensors, pendingTimer, quickExitLeft, timers, up>>

(* timeOutSiren, called by the siren's auto-stop timer. *)
TimeOutSiren ==
    /\ up
    /\ Sounding(log) # {}
    /\ log' = MoveSounding(log, "timed_out")
    /\ UNCHANGED <<panelRow, sensors, pendingTimer, quickExitLeft, timers, up>>

(* The cancel window of row i is over. *)
Release(i) ==
    /\ up
    /\ i \in timers
    /\ log[i].releaseIn = 0
    /\ log' = Released(log, i)
    /\ timers' = timers \ {i}
    /\ UNCHANGED <<panelRow, sensors, pendingTimer, quickExitLeft, up>>

-----------------------------------------------------------------------------
(* Sensors.                                                                 *)

ArmedFor(s, m) == s \in (IF m = "armed_home" THEN HomeSensors ELSE AwaySensors)

(* The armed mode an alarm or entry delay interrupted, else the mode. *)
ModeInForce == IF mode = "alarm_pending" THEN armedMode ELSE mode

\* Mutant: zones a guest has disarmed are monitored all the same.
MonitoredInAnyZone(s) ==
    /\ mode \in ArmedModes \cup {"alarm_pending"}
    /\ s \notin bypassed
    /\ s \notin AlertsOnly
    /\ ArmedFor(s, ModeInForce)

(* The checks of reportIntrusionBreach up to the placement. *)
Monitored(s) ==
    /\ mode \in ArmedModes \cup {"alarm_pending"}
    /\ ZoneOf[s] \notin disarmedZones
    /\ s \notin bypassed
    /\ s \notin AlertsOnly
    /\ ArmedFor(s, ModeInForce)

(* A breach of s with an entry delay: the first one starts the delay. *)
EntryDelayOf(s) ==
    IF s \in Delayed /\ ModeInForce \in ArmedModes THEN EntryDelay[ModeInForce] ELSE 0

StartEntryDelay(s) ==
    /\ mode' = "alarm_pending"
    /\ endsIn' = EntryDelayOf(s)
    /\ triggeredBy' = CauseOf(s)
    /\ pendingTimer' = EntryTimer(EntryDelayOf(s), CauseOf(s))
    /\ UNCHANGED <<armedMode, bypassed, disarmedZones, events>>

\* Mutant: a breach during the entry delay starts it anew.
ReportBreachRestartsDelay(s) ==
    IF s \in LifeSafety THEN Raise(AlarmKindOf[s], CauseOf(s))
    ELSE IF quickExitLeft[s] > 0 \/ ~Monitored(s)
         THEN UNCHANGED <<panelRow, pendingTimer, events>>
    ELSE IF EntryDelayOf(s) > 0 THEN StartEntryDelay(s)
    ELSE Raise("BURGLARY", CauseOf(s))

IgnoresBreach(s) ==
    \/ quickExitLeft[s] > 0
    \/ ~Monitored(s)
    \/ mode = "alarm_pending" /\ s \in Delayed

StartsDelay(s) == mode \in ArmedModes /\ EntryDelayOf(s) > 0

(* reportSensorBreach with evaluateBreach and reportIntrusionBreach. *)
ReportBreach(s) ==
    IF s \in LifeSafety      THEN Raise(AlarmKindOf[s], CauseOf(s))
    ELSE IF IgnoresBreach(s) THEN UNCHANGED <<panelRow, pendingTimer, events>>
    ELSE IF StartsDelay(s)   THEN StartEntryDelay(s)
    ELSE Raise("BURGLARY", CauseOf(s))

(* reportSensorTamper: no entry delay, no zone and no armed flag counts. *)
TamperAlarms(s) ==
    /\ s \notin LifeSafety
    /\ mode \in ArmedModes \cup {"alarm_pending"}
    /\ s \notin bypassed

ReportTamper(s) ==
    IF TamperAlarms(s) THEN Raise("BURGLARY", CauseOf(s))
    ELSE UNCHANGED <<panelRow, pendingTimer, events>>

(* SensorMapper: only the edge is acted on.  A breach or tamper is stored   *)
(* on the sensor and then reported to the panel.                            *)
SensorFaults(s, kind) ==
    /\ up
    /\ s \in installed
    /\ kind \notin fault[s]
    /\ RoomForReport
    /\ fault' = [fault EXCEPT ![s] = @ \cup {kind}]
    /\ CASE kind = "open"     -> ReportBreach(s)
         [] kind = "tampered" -> ReportTamper(s)
         [] OTHER             -> UNCHANGED <<panelRow, pendingTimer, events>>
    /\ UNCHANGED <<installed, quickExitLeft, up>>

(* The door closing ends its quick exit. *)
SensorClears(s, kind) ==
    /\ up
    /\ s \in installed
    /\ kind \in fault[s]
    /\ fault' = [fault EXCEPT ![s] = @ \ {kind}]
    /\ quickExitLeft' = IF kind = "open" THEN [quickExitLeft EXCEPT ![s] = 0]
                        ELSE quickExitLeft
    /\ UNCHANGED <<panelRow, installed, events, pendingTimer, up>>

(* The sensor's button, with the conditions of quickExitBlockedReason. *)
StartQuickExit(s) ==
    /\ up
    /\ s \in installed \cap QuickExitSensors
    /\ mode = "armed_home"
    /\ fault[s] = {}
    /\ quickExitLeft' = [NoQuickExit EXCEPT ![s] = QuickExitWindow]
    /\ UNCHANGED <<panelRow, sensors, events, pendingTimer, up>>

(* SensorRepository.delete: past events keep their zone, lose their sensor. *)
RemoveSensor(s) ==
    /\ up
    /\ s \in installed
    /\ installed' = installed \ {s}
    /\ fault' = [fault EXCEPT ![s] = {}]
    /\ triggeredBy' = IF triggeredBy.sensor = s
                      THEN [triggeredBy EXCEPT !.sensor = NoDevice]
                      ELSE triggeredBy
    /\ pendingTimer' = IF pendingTimer.cause.sensor = s
                       THEN [pendingTimer EXCEPT !.ref = "gone"]
                       ELSE pendingTimer
    /\ UNCHANGED <<mode, armedMode, endsIn, bypassed, disarmedZones,
                   events, quickExitLeft, up>>

-----------------------------------------------------------------------------
(* Commands, serialised by the dispatcher.                                  *)

(* The sensors that keep the panel from arming in mode m. *)
Faulted(m) ==
    {s \in Intrusion \ AlertsOnly : ArmedFor(s, m) /\ fault[s] # {}}

(* preArmCheck: `bypass` is what the caller confirmed; locks, schedules and *)
(* some internal callers have every faulted sensor bypassed automatically.  *)
MayArm(m, auto, bypass) ==
    /\ bypass \subseteq Intrusion
    /\ auto \/ Faulted(m) \subseteq bypass

BypassFor(m, auto, bypass) == bypass \cup (IF auto THEN Faulted(m) ELSE {})

(* beginArming.  A refused request changes nothing. *)
Arm(m, auto, bypass, byUser) ==
    /\ up
    /\ mode = "disarmed"
    /\ MayArm(m, auto, bypass)
    /\ mode' = "arming"
    /\ armedMode' = m
    /\ endsIn' = ExitDelay[m]
    /\ triggeredBy' = NoCause
    /\ bypassed' = BypassFor(m, auto, bypass)
    /\ disarmedZones' = {}
    /\ pendingTimer' = ExitTimer(ExitDelay[m], m, byUser)
    /\ UNCHANGED <<sensors, events, quickExitLeft, up>>

\* Mutant: the release timers of the closed events keep running.
EndEventsKeepsTimers(rows) == log' = Closed(log, rows) /\ UNCHANGED timers

EndEvents(rows) ==
    /\ log' = Closed(log, rows)
    /\ timers' = timers \ rows

\* Mutant: the sensors bypassed in the last session stay bypassed.
ClearPanelKeepsBypass ==
    /\ mode' = "disarmed"
    /\ armedMode' = NoMode
    /\ endsIn' = NoDelay
    /\ triggeredBy' = NoCause
    /\ disarmedZones' = {}
    /\ UNCHANGED bypassed

ClearPanel ==
    /\ mode' = "disarmed"
    /\ armedMode' = NoMode
    /\ endsIn' = NoDelay
    /\ triggeredBy' = NoCause
    /\ bypassed' = {}
    /\ disarmedZones' = {}

\* Mutant: a panel that was not armed when the alarm came stays in alarm.
DisarmIfArmed ==
    /\ up
    /\ EndEvents(Listed(log))
    /\ IF armedMode = NoMode
       THEN UNCHANGED <<panelRow, pendingTimer>>
       ELSE ClearPanel /\ pendingTimer' = NoTimer
    /\ UNCHANGED <<sensors, quickExitLeft, up>>

(* applyDisarm.  While disarmed it still closes the silent events. *)
Disarm ==
    /\ up
    /\ EndEvents(Listed(log))
    /\ IF mode = "disarmed"
       THEN UNCHANGED <<panelRow, pendingTimer>>
       ELSE ClearPanel /\ pendingTimer' = NoTimer
    /\ UNCHANGED <<sensors, quickExitLeft, up>>

Alarming == mode \in {"alarm_pending", "alarm_triggered"}

\* Mutant: the stand-down disarms the whole panel, and forgets no session.
StandDownToDisarmed(z) ==
    /\ mode' = "disarmed"
    /\ disarmedZones' = disarmedZones \cup {z}
    /\ endsIn' = NoDelay
    /\ triggeredBy' = NoCause
    /\ pendingTimer' = NoTimer
    /\ UNCHANGED <<armedMode, bypassed>>

(* The panel goes back to the mode it is armed for, or, if it was disarmed  *)
(* when the alarm came, to disarmed.                                        *)
StandDown(z) ==
    /\ IF armedMode = NoMode
       THEN mode' = "disarmed" /\ bypassed' = {} /\ disarmedZones' = {}
       ELSE /\ mode' = armedMode
            /\ disarmedZones' = disarmedZones \cup {z}
            /\ UNCHANGED bypassed
    /\ endsIn' = NoDelay
    /\ triggeredBy' = NoCause
    /\ pendingTimer' = NoTimer
    /\ UNCHANGED armedMode

(* applyZoneDisarm, the disarm of a guest restricted to zone z. *)
DisarmZone(z) ==
    /\ up
    /\ mode # "disarmed"
    /\ IF Alarming /\ triggeredBy.zone = z
       THEN EndEvents(Burglaries(log)) /\ StandDown(z)
       ELSE /\ disarmedZones' = disarmedZones \cup {z}
            /\ UNCHANGED <<mode, armedMode, endsIn, triggeredBy, bypassed,
                           events, pendingTimer>>
    /\ UNCHANGED <<sensors, quickExitLeft, up>>

-----------------------------------------------------------------------------
(* Timers.                                                                  *)

IsOver(kind) ==
    /\ up
    /\ pendingTimer.kind = kind
    /\ pendingTimer.left = 0

(* Otherwise the insert of the security event throws. *)
IsRecordable == pendingTimer.ref # "gone"

\* Mutant: the deadline of the exit delay outlives it.
CompleteArmingKeepsDeadline ==
    /\ mode' = IF mode = "arming" THEN pendingTimer.target ELSE mode
    /\ UNCHANGED endsIn

CompleteArming ==
    IF mode = "arming"
    THEN mode' = pendingTimer.target /\ endsIn' = NoDelay
    ELSE UNCHANGED <<mode, endsIn>>

(* completeArming *)
ExitDelayElapses ==
    /\ IsOver("exit")
    /\ IsRecordable
    /\ CompleteArming
    /\ pendingTimer' = NoTimer
    /\ UNCHANGED <<armedMode, triggeredBy, bypassed, disarmedZones,
                   sensors, events, quickExitLeft, up>>

(* completeEntryDelay *)
EntryDelayElapses ==
    /\ IsOver("entry")
    /\ IsRecordable
    /\ IF mode = "alarm_pending"
       THEN Raise("BURGLARY", pendingTimer.cause)
       ELSE pendingTimer' = NoTimer /\ UNCHANGED <<panelRow, events>>
    /\ UNCHANGED <<sensors, quickExitLeft, up>>

(* UserRepository.delete of the user who armed the panel. *)
RemoveRequester ==
    /\ up
    /\ pendingTimer.kind = "exit"
    /\ pendingTimer.ref = "live"
    /\ pendingTimer' = [pendingTimer EXCEPT !.ref = "gone"]
    /\ UNCHANGED <<panelRow, sensors, events, quickExitLeft, up>>

Tick ==
    LET later == /\ endsIn' = Less(endsIn)
                 /\ pendingTimer' = [pendingTimer EXCEPT !.left = Less(@)]
                 /\ quickExitLeft' = [s \in Devices |-> Less(quickExitLeft[s])]
                 /\ log' = Aged(log)
    IN  /\ later
        /\ <<endsIn', pendingTimer', quickExitLeft', log'>>
              # <<endsIn, pendingTimer, quickExitLeft, log>>
        /\ UNCHANGED <<mode, armedMode, triggeredBy, bypassed, disarmedZones,
                       sensors, timers, up>>

-----------------------------------------------------------------------------
(* Crashes.  The process stops, the database stays.                         *)

Stops ==
    /\ up
    /\ up' = FALSE
    /\ pendingTimer' = NoTimer
    /\ quickExitLeft' = NoQuickExit
    /\ timers' = {}

Crash == Stops /\ UNCHANGED <<panelRow, sensors, log>>

(* An exception in a timer's callback: nothing catches it.  completeArming  *)
(* has committed the mode by then, completeEntryDelay has done nothing.     *)
ExitDelayThrows ==
    /\ IsOver("exit")
    /\ ~IsRecordable
    /\ CompleteArming
    /\ Stops
    /\ UNCHANGED <<armedMode, triggeredBy, bypassed, disarmedZones, sensors, log>>

EntryDelayThrows ==
    /\ IsOver("entry")
    /\ ~IsRecordable
    /\ Crash

(* After the sensor's state was stored, before it was reported. *)
CrashBeforeReport(s, kind) ==
    /\ CrashInsideHandlers
    /\ Stops
    /\ s \in installed
    /\ kind \notin fault[s]
    /\ fault' = [fault EXCEPT ![s] = @ \cup {kind}]
    /\ UNCHANGED <<panelRow, installed, log>>

(* In raise, after the event was opened and before the panel was committed. *)
CrashInPersonRaises(kind) ==
    /\ CrashInsideHandlers
    /\ Stops
    /\ RoomForReport
    /\ log' = Opened(log, kind, NoDevice)
    /\ UNCHANGED <<panelRow, sensors>>

CrashInSensorRaises(s, kind) ==
    /\ CrashInsideHandlers
    /\ Stops
    /\ s \in installed
    /\ kind \notin fault[s]
    /\ RoomForReport
    /\ fault' = [fault EXCEPT ![s] = @ \cup {kind}]
    /\ \/ /\ kind = "open" /\ s \in LifeSafety
          /\ log' = Opened(log, AlarmKindOf[s], s)
       \/ /\ \/ kind = "open" /\ s \notin LifeSafety /\ ~IgnoresBreach(s) /\ ~StartsDelay(s)
             \/ kind = "tampered" /\ TamperAlarms(s)
          /\ log' = Opened(log, "BURGLARY", s)
    /\ UNCHANGED <<panelRow, installed>>

CrashInEntryDelay ==
    /\ CrashInsideHandlers
    /\ IsOver("entry")
    /\ IsRecordable
    /\ mode = "alarm_pending"
    /\ Stops
    /\ RoomForReport
    /\ log' = Opened(log, "BURGLARY", pendingTimer.cause.sensor)
    /\ UNCHANGED <<panelRow, sensors>>

(* The rows closed when endAll or endBurglary, newest first, stops early. *)
PartlyClosed(rows) ==
    \E oldest \in 1 .. Len(log) + 1 : log' = Closed(log, {i \in rows : i >= oldest})

CrashInDisarm ==
    /\ CrashInsideHandlers
    /\ Stops
    /\ PartlyClosed(Listed(log))
    /\ disarmedZones' = IF mode = "disarmed" THEN disarmedZones ELSE {}
    /\ UNCHANGED <<mode, armedMode, endsIn, triggeredBy, bypassed, sensors>>

CrashInDisarmZone(z) ==
    /\ CrashInsideHandlers
    /\ Stops
    /\ Alarming
    /\ triggeredBy.zone = z
    /\ PartlyClosed(Burglaries(log))
    /\ \/ disarmedZones' = disarmedZones \cup {z}
       \/ armedMode = NoMode /\ disarmedZones' = {}
    /\ UNCHANGED <<mode, armedMode, endsIn, triggeredBy, bypassed, sensors>>

\* Mutants: a restart grants the whole delay again, or forgets an entry delay.
ResumedTimerInFull ==
    CASE mode = "arming" /\ armedMode # NoMode ->
            ExitTimer(ExitDelay[armedMode], armedMode, FALSE)
      [] mode = "alarm_pending" -> EntryTimer(EntryDelay[armedMode], triggeredBy)
      [] OTHER                  -> NoTimer
ResumedTimerAfterArming ==
    IF mode = "arming" /\ armedMode # NoMode
    THEN ExitTimer(endsIn, armedMode, FALSE) ELSE NoTimer

(* PanelService.resume on the row it finds. *)
ResumedTimer ==
    CASE mode = "arming" /\ armedMode # NoMode -> ExitTimer(endsIn, armedMode, FALSE)
      [] mode = "alarm_pending"                -> EntryTimer(endsIn, triggeredBy)
      [] OTHER                                 -> NoTimer

(* index.ts: alarmEvents.resume(), then panelService.resume(). *)
Restart ==
    /\ ~up
    /\ up' = TRUE
    /\ timers' = Held(log)
    /\ log' = ResumedLog(log)
    /\ pendingTimer' = ResumedTimer
    /\ IF mode = "arming" /\ armedMode = NoMode THEN ClearPanel ELSE UNCHANGED panelRow
    /\ UNCHANGED <<sensors, quickExitLeft>>

-----------------------------------------------------------------------------
Next ==
    \/ \E kind \in PersonKinds : PersonRaises(kind) \/ CrashInPersonRaises(kind)
    \/ Silence
    \/ TimeOutSiren
    \/ \E i \in DOMAIN log : Release(i)
    \/ \E s \in Devices, kind \in FaultKinds :
          \/ SensorFaults(s, kind)
          \/ SensorClears(s, kind)
          \/ CrashBeforeReport(s, kind)
          \/ CrashInSensorRaises(s, kind)
    \/ \E s \in Devices : StartQuickExit(s) \/ RemoveSensor(s)
    \/ \E m \in ArmedModes, auto \in BOOLEAN, bypass \in SUBSET Devices,
          byUser \in BOOLEAN : Arm(m, auto, bypass, byUser)
    \/ RemoveRequester
    \/ Disarm
    \/ CrashInDisarm
    \/ \E z \in Zones : DisarmZone(z) \/ CrashInDisarmZone(z)
    \/ ExitDelayElapses
    \/ EntryDelayElapses
    \/ ExitDelayThrows
    \/ EntryDelayThrows
    \/ CrashInEntryDelay
    \/ Crash
    \/ Restart
    \/ Tick

(* Time passes, Node runs a timer that is due, and the container restarts   *)
(* the process.                                                             *)
Fairness ==
    /\ WF_vars(Tick)
    /\ WF_vars(Restart)
    /\ WF_vars(ExitDelayElapses)
    /\ WF_vars(EntryDelayElapses)
    /\ WF_vars(ExitDelayThrows)
    /\ WF_vars(EntryDelayThrows)
    /\ \A i \in 1 .. MaxEvents : WF_vars(i \in DOMAIN log /\ Release(i))

Spec == Init /\ [][Next]_vars /\ Fairness

-----------------------------------------------------------------------------
TypeOK ==
    /\ mode \in Modes
    /\ armedMode \in ArmedModes \cup {NoMode}
    /\ endsIn \in Nat \cup {NoDelay}
    /\ triggeredBy \in Causes
    /\ bypassed \subseteq Devices
    /\ disarmedZones \subseteq Zones
    /\ installed \subseteq Devices
    /\ fault \in [Devices -> SUBSET FaultKinds]
    /\ log \in Seq(Rows)
    /\ Len(log) <= MaxEvents
    /\ pendingTimer \in Timers
    /\ quickExitLeft \in [Devices -> Nat]
    /\ timers \subseteq DOMAIN log
    /\ up \in BOOLEAN

(* While the process runs, a delay is running exactly when its mode says    *)
(* so, to the persisted deadline, and will end in the persisted mode: no    *)
(* command, alarm or restart leaves a stale timer or drops the one that the *)
(* panel depends on (clearPendingTimer, resume).                            *)
TimerMatchesMode ==
    up => /\ pendingTimer.kind = CASE mode = "arming"        -> "exit"
                                   [] mode = "alarm_pending" -> "entry"
                                   [] OTHER                  -> "none"
          /\ pendingTimer.kind # "none" => pendingTimer.left = endsIn
          /\ pendingTimer.kind = "exit" => pendingTimer.target = armedMode /\ armedMode # NoMode

(* The persisted row is coherent whenever it can be read, between handlers  *)
(* and after a crash inside one: a deadline exactly while a delay runs, an  *)
(* armed mode that agrees with the mode, and nothing of an earlier arm      *)
(* session left in a disarmed panel.                                        *)
RowIsCoherent ==
    /\ (endsIn # NoDelay) <=> (mode \in {"arming", "alarm_pending"})
    /\ mode \in ArmedModes => armedMode = mode
    /\ mode = "alarm_pending" => armedMode \in ArmedModes
    /\ mode = "disarmed" => armedMode = NoMode /\ bypassed = {} /\ disarmedZones = {}

(* Every open burglary shows on the panel: no way of leaving the alarm, by  *)
(* a disarm, a guest's zone disarm or a restart, leaves one behind.         *)
OpenBurglaryShows ==
    \A i \in Active(log) : log[i].kind = "BURGLARY" => mode = "alarm_triggered"

(* An entry delay never runs over a zone a guest has disarmed, whichever of *)
(* the breach and the disarm came first: it would end in an alarm from a    *)
(* zone the guest may be in.                                                *)
NoDelayInDisarmedZone == mode = "alarm_pending" => triggeredBy.zone \notin disarmedZones

(* A panel in alarm has an open event of a kind that sounds: it is never in *)
(* alarm over events that were all closed.                                  *)
AlarmHasEvent ==
    mode = "alarm_triggered" => \E i \in Active(log) : SoundsSiren(log[i].kind)

(* Only a full disarm closes an event that is not a burglary: a guest who   *)
(* stands down their own zone, or a restart, leaves fire and panic open.    *)
OnlyDisarmEndsEmergencies ==
    [][\A i \in Active(log) :
        i \notin Active(log') /\ log[i].kind # "BURGLARY" => mode' = "disarmed"]_vars

(* A delay in progress is never restarted: a second breach, another command *)
(* or a crash and restart only ever leave less of it (SC-006).              *)
DelayNeverExtended ==
    [][mode' = mode /\ endsIn # NoDelay => endsIn' <= endsIn]_vars

(* Comment of disarmZone, panel-service.ts:227: "An alarm from anywhere     *)
(* else is untouched".                                                      *)
AlarmElsewhereUntouched ==
    [][\A z \in Zones : DisarmZone(z) =>
        \A i \in Active(log) :
            log[i].device \in Devices /\ ZoneOf[log[i].device] # z => log'[i] = log[i]]_vars

(* A delay that runs comes to its end if the process eventually stays up,   *)
(* restarts and the removal of the sensor that started it included.         *)
DelayResolves ==
    <>[]up => \A m \in {"arming", "alarm_pending"} : (mode = m) ~> (mode # m)
=============================================================================
