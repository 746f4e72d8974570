------------------------------- MODULE Siren -------------------------------
(***************************************************************************)
(* Siren (src/src/alarm/siren.ts): the Z-Wave sirens that follow the alarm *)
(* events.  AlarmEventService emits an event on every change, and the      *)
(* Siren re-evaluates the whole log in the same turn: each action below is *)
(* an operation of AlarmEvents with what the sirens make of it.            *)
(*                                                                         *)
(* A siren that is switched on stays on until it is switched off: `lit` is *)
(* the device, `on` what the process remembers of it.  The driver, and a   *)
(* device that obeys, are external.                                        *)
(***************************************************************************)
EXTENDS AlarmEvents, FiniteSetsExt

CONSTANTS
    Sirens,      \* node ids a siren can be enrolled with
    Duration,    \* siren -> durationSec in ticks
    Faults       \* what may go wrong, of "driver", "crash" and "removal"

ASSUME SirenAssumption ==
    /\ Duration \in [Sirens -> 1 .. SirenDuration]
    /\ Faults \subseteq {"driver", "crash", "removal"}

VARIABLES
    enrolled,   \* table sirens (persisted)
    on,         \* sirens switched on -> ticks until their auto-stop
    expired,    \* sirens that ran their full duration in this alarm
    ready,      \* whether the driver has a controller
    lit         \* sirens that sound

sirenVars == <<vars, enrolled, on, expired, ready, lit>>

Off == [s \in {} |-> 0]
Without(s) == [t \in DOMAIN on \ {s} |-> on[t]]

SirenInit ==
    /\ Init
    /\ enrolled = {}
    /\ on = Off
    /\ expired = {}
    /\ ready = FALSE
    /\ lit = {}

-----------------------------------------------------------------------------
(* oldestSoundingStartedAt, as an age. *)
OldestAge(l) == Max({l[i].age : i \in Sounding(l)})

\* Mutant: a siren that is switched on late runs for its whole duration.
RemainingInFull(s, l) == Duration[s]

(* startAutoStop: what is left of the duration since the oldest alarm. *)
Remaining(s, l) ==
    IF Duration[s] > OldestAge(l) THEN Duration[s] - OldestAge(l) ELSE 0

(* reevaluate, on the next log and from the given memory of the sirens. *)
Reevaluate(on0, expired0, lit0) ==
    LET missing == IF ready' THEN enrolled' \ (DOMAIN on0 \cup expired0) ELSE {}
    IN  IF Sounding(log') = {}
        THEN /\ on' = Off
             /\ expired' = {}
             /\ lit' = lit0 \ (IF ready' THEN DOMAIN on0 ELSE {})
        ELSE /\ on' = [s \in DOMAIN on0 \cup missing |->
                          IF s \in missing THEN Remaining(s, log') ELSE on0[s]]
             /\ expired' = expired0
             /\ lit' = lit0 \cup missing

Follow == Reevaluate(on, expired, lit)

AlarmEvent ==
    /\ \/ \E kind \in RaisedKinds : Open(kind, NoDevice)
       \/ Silence
       \/ EndAll
       \/ EndBurglary
    /\ UNCHANGED <<enrolled, ready>>
    /\ Follow

ReleaseFires(i) ==
    /\ i \in DOMAIN log
    /\ Release(i)
    /\ UNCHANGED <<enrolled, ready>>
    /\ Follow

(* The auto-stop timer of s fires; the last siren times the alarm out. *)
AutoStop(s) ==
    /\ up
    /\ ready
    /\ s \in DOMAIN on
    /\ on[s] = 0
    /\ UNCHANGED <<enrolled, ready>>
    /\ IF DOMAIN on = {s}
       THEN /\ TimeOutSiren
            /\ Reevaluate(Off, expired \cup {s}, lit \ {s})
       ELSE /\ on' = Without(s)
            /\ expired' = expired \cup {s}
            /\ lit' = lit \ {s}
            /\ UNCHANGED <<log, timers, up>>

(* What the process knew is lost with it; the sirens go on. *)
SirensLost ==
    /\ on' = Off
    /\ expired' = {}
    /\ ready' = FALSE
    /\ UNCHANGED enrolled

(* The same without a driver: setSirenState reads driver.controller, which  *)
(* throws, and the rejected promise ends the process after the callback.    *)
AutoStopThrows(s) ==
    /\ up
    /\ ~ready
    /\ s \in DOMAIN on
    /\ on[s] = 0
    /\ log' = IF DOMAIN on = {s} THEN MoveSounding(log, "timed_out") ELSE log
    /\ Stops
    /\ SirensLost
    /\ UNCHANGED lit

TimePasses ==
    /\ log' = Aged(log)
    /\ on' = [s \in DOMAIN on |-> Less(on[s])]
    /\ <<log', on'>> # <<log, on>>
    /\ UNCHANGED <<timers, up, enrolled, expired, ready, lit>>

-----------------------------------------------------------------------------
(* SirenRepository.upsert and delete. *)
Enroll(s) ==
    /\ up
    /\ enrolled' = enrolled \cup {s}
    /\ enrolled' # enrolled
    /\ UNCHANGED <<log, timers, up, ready>>
    /\ Follow

\* Mutant: an un-enrolled siren is forgotten, not switched off.
RemoveForgets(s) ==
    /\ up
    /\ s \in enrolled
    /\ "removal" \in Faults
    /\ enrolled' = enrolled \ {s}
    /\ on' = Without(s)
    /\ UNCHANGED <<log, timers, up, expired, ready, lit>>

Remove(s) ==
    /\ up
    /\ s \in enrolled
    /\ "removal" \in Faults
    /\ enrolled' = enrolled \ {s}
    /\ on' = Without(s)
    /\ lit' = IF ready /\ s \in DOMAIN on THEN lit \ {s} ELSE lit
    /\ UNCHANGED <<log, timers, up, expired, ready>>

\* Mutant: the sirens are not brought up to date when the driver is ready.
DriverReadyUnsynced ==
    /\ up
    /\ ~ready
    /\ ready' = TRUE
    /\ UNCHANGED <<log, timers, up, enrolled, on, expired, lit>>

(* index.ts: "driver ready" calls sync(). *)
DriverReady ==
    /\ up
    /\ ~ready
    /\ ready' = TRUE
    /\ UNCHANGED <<log, timers, up, enrolled>>
    /\ Follow

(* The stick drops off USB: driver.ts replaces the instance. *)
DriverFails ==
    /\ "driver" \in Faults
    /\ up
    /\ ready
    /\ ready' = FALSE
    /\ UNCHANGED <<log, timers, up, enrolled, on, expired, lit>>

(* The process stops, between two handlers or inside one of the service; a  *)
(* siren may by then have been told that the last alarm it sounds for ended.*)
ProcessStops ==
    /\ "crash" \in Faults
    /\ \/ Crash
       \/ \E kind \in RaisedKinds : CrashInOpen(kind, NoDevice)
       \/ CrashInEnd(Listed(log))
       \/ CrashInEnd(Burglaries(log))
    /\ SirensLost
    /\ lit' \in {lit} \cup
          (IF ready /\ Sounding(log') = {} THEN {lit \ DOMAIN on} ELSE {})

(* The alarms resume() times out are re-evaluated before there is a driver. *)
Restart ==
    /\ Resume
    /\ UNCHANGED <<enrolled, ready>>
    /\ Follow

-----------------------------------------------------------------------------
SirenNext ==
    \/ AlarmEvent
    \/ \E i \in DOMAIN log : ReleaseFires(i)
    \/ \E s \in Sirens : AutoStop(s) \/ AutoStopThrows(s) \/ Enroll(s) \/ Remove(s)
    \/ TimePasses
    \/ DriverReady
    \/ DriverFails
    \/ ProcessStops
    \/ Restart

(* Time passes, due timers run, the container restarts the process and      *)
(* driver.ts the driver.                                                    *)
SirenFairness ==
    /\ WF_sirenVars(TimePasses)
    /\ \A i \in 1 .. MaxEvents : WF_sirenVars(ReleaseFires(i))
    /\ \A s \in Sirens : WF_sirenVars(AutoStop(s)) /\ WF_sirenVars(AutoStopThrows(s))
    /\ WF_sirenVars(DriverReady)
    /\ WF_sirenVars(Restart)

SirenSpec == SirenInit /\ [][SirenNext]_sirenVars /\ SirenFairness

-----------------------------------------------------------------------------
SirenTypeOK ==
    /\ TypeOK
    /\ enrolled \subseteq Sirens
    /\ DOMAIN on \subseteq Sirens
    /\ \A s \in DOMAIN on : on[s] \in 0 .. Duration[s]
    /\ expired \subseteq Sirens
    /\ ready \in BOOLEAN
    /\ lit \subseteq Sirens

(* With a driver, every enrolled siren is on while an alarm sounds, or has  *)
(* run its duration; when none sounds the process keeps none on and         *)
(* remembers no expiry: whatever came while the driver was away (reevaluate,*)
(* sync).                                                                   *)
SirensFollow ==
    /\ up /\ ready /\ Sounding(log) # {} => enrolled \subseteq DOMAIN on \cup expired
    /\ Sounding(log) = {} => on = Off /\ expired = {}
    /\ DOMAIN on \subseteq lit

(* A siren that was switched on late, after a restart or a new enrolment,   *)
(* still stops when its duration since the oldest sounding alarm is over.   *)
StopsOnTime ==
    \A s \in DOMAIN on : on[s] > 0 => on[s] + OldestAge(log) <= Duration[s]

(* Every siren that sounds is one the process will switch off: no alarm,    *)
(* auto-stop, enrolment or removal, and no order of them, leaves one behind *)
(* that it has forgotten, as long as the driver is there (release).         *)
NoneForgotten ==
    [][up /\ ready /\ ready' => lit' \ DOMAIN on' \subseteq lit \ DOMAIN on]_sirenVars

(* siren.ts:32: "when the last one stops, the sounding events are marked    *)
(* `timed_out`".                                                            *)
LastStopTimesOut == expired # {} => on # Off

(* No alarm sounds for ever: once the process and the driver stay up, and a *)
(* siren stays enrolled, every sounding event is silenced, timed out or     *)
(* closed.  The exception is LastStopTimesOut: the last siren that was on   *)
(* is un-enrolled.                                                          *)
SoundingEnds ==
    (\E s \in Sirens : <>[](up /\ ready /\ s \in enrolled /\ LastStopTimesOut)) =>
        \A i \in 1 .. MaxEvents : (i \in Sounding(log)) ~> (i \notin Sounding(log))
=============================================================================
