--------------------------- MODULE ModeSchedules ---------------------------
(***************************************************************************)
(* The mode schedules (src/src/alarm/mode-schedule.ts, api/routes/         *)
(* mode-schedule-routes.ts) over the mode machine of PanelContract.        *)
(*                                                                         *)
(* A schedule may be the first to disarm and then to arm: its promises are *)
(* kept within the turn of the timer, before anything else happens, and    *)
(* `due` and `disarmedFor` are what is left of that turn.  Every schedule  *)
(* runs every day; its time zone is the server's own (null) or the same    *)
(* one by its name.                                                        *)
(***************************************************************************)
EXTENDS Naturals, FiniteSetsExt

CONSTANTS
    MaxSchedules, \* bound: schedules there can be at a time
    DayLength,    \* minutes of a day
    MaxMinutes,   \* bound: the clock stops here
    MaxEdits      \* bound: requests that edit schedules

ASSUME ModeSchedulesAssumption ==
    /\ {MaxSchedules, MaxEdits} \subseteq Nat
    /\ {DayLength, MaxMinutes} \subseteq Nat \ {0}

ScheduledModes == {"disarmed", "armed_home", "armed_away"}
ArmedModes == {"armed_home", "armed_away"}
Alarms == {"alarm_pending", "alarm_triggered"}
Ids == 1 .. MaxSchedules    \* in the order of ORDER BY created_at, id
NoOne == 0
LongAgo == 0                \* a lastRunAt of null

VARIABLES
    mode, armedMode, \* of the panel
    schedules,       \* table mode_schedules
    half,            \* the clock, in half-minutes
    ticked,          \* whether the runner's timer fired in this one
    due,             \* of the turn: the schedules still to run
    disarmedFor,     \* of the turn: the schedule that disarmed and is to arm
    edits,
    runs,            \* history: how often each schedule ran in this minute
    watched,         \* history: schedules that have to run in this minute
    last             \* history: the schedule applied last in the turn

panelVars == <<mode, armedMode>>
turnVars == <<due, disarmedFor>>

schedulesVars ==
    <<panelVars, schedules, half, ticked, turnVars, edits, runs, watched, last>>

Minute == half \div 2

Rows == [mode : ScheduledModes, time : 0 .. DayLength - 1, zone : {"own", "named"},
         enabled : BOOLEAN, lastRun : 0 .. 2 * MaxMinutes + 1]

SchedulesInit ==
    /\ mode = "disarmed"
    /\ armedMode = "none"
    /\ schedules = [s \in {} |-> {}]
    /\ half = 2
    /\ ticked = FALSE
    /\ due = {}
    /\ disarmedFor = NoOne
    /\ edits = 0
    /\ runs = [s \in Ids |-> 0]
    /\ watched = {}
    /\ last = NoOne

-----------------------------------------------------------------------------
(* The panel, as others move it. *)
ArmTo(m) ==
    /\ mode = "disarmed"
    /\ mode' = "arming"
    /\ armedMode' = m

DisarmAll ==
    /\ mode' = "disarmed"
    /\ armedMode' = "none"

PanelMoves ==
    /\ \/ \E m \in ArmedModes : ArmTo(m)
       \/ DisarmAll
       \/ mode = "arming" /\ mode' = armedMode /\ UNCHANGED armedMode
       \/ mode \in ArmedModes /\ mode' = "alarm_pending" /\ UNCHANGED armedMode
       \/ mode' = "alarm_triggered" /\ UNCHANGED armedMode
       \/ /\ mode \in Alarms
          /\ mode' = IF armedMode = "none" THEN "disarmed" ELSE armedMode
          /\ UNCHANGED armedMode
    /\ UNCHANGED <<schedules, half, ticked, turnVars, edits, runs, watched, last>>

-----------------------------------------------------------------------------
(* POST, PATCH and DELETE /mode-schedules. *)
Edit ==
    /\ edits < MaxEdits
    /\ edits' = edits + 1
    /\ UNCHANGED <<panelVars, half, ticked, turnVars, last>>

(* findConflict *)
Conflicts(s, row) ==
    /\ row.enabled
    /\ \E t \in DOMAIN schedules \ {s} :
          /\ schedules[t].enabled
          /\ schedules[t].time = row.time
          /\ schedules[t].zone = row.zone

\* Mutant: an edited schedule has not run yet.
LastRunForgotten(s) == LongAgo

LastRun(s) == IF s \in DOMAIN schedules THEN schedules[s].lastRun ELSE LongAgo

(* create, update *)
Stored(s, row) ==
    [t \in DOMAIN schedules \cup {s} |-> IF t = s THEN row ELSE schedules[t]]

(* POST and PATCH /mode-schedules *)
EditSchedule(s, m, time, zone, enabled) ==
    LET row == [mode |-> m, time |-> time, zone |-> zone, enabled |-> enabled,
                lastRun |-> LastRun(s)]
    IN  /\ Edit
        /\ ~Conflicts(s, row)
        /\ schedules' = Stored(s, row)
        /\ watched' = watched \ {s}
        /\ UNCHANGED runs

Deleted(s) == [t \in DOMAIN schedules \ {s} |-> schedules[t]]

DeleteSchedule(s) ==
    /\ Edit
    /\ s \in DOMAIN schedules
    /\ schedules' = Deleted(s)
    /\ watched' = watched \ {s}
    /\ runs' = [runs EXCEPT ![s] = 0]

-----------------------------------------------------------------------------
(* The runner. *)
IsDueAt(s, minute) ==
    schedules[s].enabled /\ schedules[s].time = minute % DayLength

IsDue(s) == IsDueAt(s, Minute) /\ schedules[s].lastRun \div 2 # Minute

(* tick: the schedules that are due, of those list() returns. *)
RunnerTicks ==
    /\ ~ticked
    /\ ticked' = TRUE
    /\ due' = {s \in DOMAIN schedules : IsDue(s)}
    /\ last' = NoOne
    /\ UNCHANGED <<panelVars, schedules, half, disarmedFor, edits, runs, watched>>

\* Mutant: a panel that is arming counts as armed in whatever mode was asked.
AlreadyArming(m) ==
    IF m = "disarmed" THEN mode = m ELSE mode \in {m, "arming"}

AlreadyIn(m) ==
    IF m = "disarmed" THEN mode = m
                      ELSE armedMode = m /\ mode \in {m, "arming"}

MarkRun(s) ==
    /\ schedules' = [schedules EXCEPT ![s].lastRun = half]
    /\ runs' = [runs EXCEPT ![s] = @ + 1]
    /\ last' = s

(* The next one in the order of list(): markRun, and apply up to the end or *)
(* to the disarm it waits for.                                              *)
RunSchedule ==
    LET s == Min(due)
        m == schedules[s].mode
        done == UNCHANGED disarmedFor
    IN  /\ disarmedFor = NoOne
        /\ due # {}
        /\ due' = due \ {s}
        /\ MarkRun(s)
        /\ \/ (mode \in Alarms \/ AlreadyIn(m)) /\ done /\ UNCHANGED panelVars
           \/ /\ ~(mode \in Alarms \/ AlreadyIn(m))
              /\ \/ mode = "disarmed" /\ ArmTo(m) /\ done
                 \/ mode # "disarmed" /\ m = "disarmed" /\ DisarmAll /\ done
                 \/ /\ mode # "disarmed" /\ m # "disarmed"
                    /\ DisarmAll
                    /\ disarmedFor' = s
        /\ UNCHANGED <<half, ticked, edits, watched>>

ScheduleArms ==
    /\ disarmedFor # NoOne
    /\ ArmTo(schedules[disarmedFor].mode)
    /\ disarmedFor' = NoOne
    /\ UNCHANGED <<schedules, half, ticked, due, edits, runs, watched, last>>

(* The clock; a timer of 30 s fires once in every half-minute. *)
Elapse ==
    LET next == (half + 1) \div 2
    IN  /\ ticked
        /\ next <= MaxMinutes
        /\ half' = half + 1
        /\ ticked' = FALSE
        /\ IF next = Minute THEN UNCHANGED <<runs, watched>>
           ELSE /\ runs' = [s \in Ids |-> 0]
                /\ watched' = {s \in DOMAIN schedules : IsDueAt(s, next)}
        /\ UNCHANGED <<panelVars, schedules, turnVars, edits, last>>

(* The process stops, even within the turn, and starts; its timer starts    *)
(* anew and may miss the rest of the half-minute.                           *)
Restart ==
    /\ ticked' \in {ticked, TRUE}
    /\ due' = {}
    /\ disarmedFor' = NoOne
    /\ watched' = {}
    /\ last' = NoOne
    /\ UNCHANGED <<panelVars, schedules, half, edits, runs>>

-----------------------------------------------------------------------------
EditSchedules ==
    \E s \in Ids :
        \/ \E m \in ScheduledModes, time \in 0 .. DayLength - 1,
              zone \in {"own", "named"}, enabled \in BOOLEAN :
                  EditSchedule(s, m, time, zone, enabled)
        \/ DeleteSchedule(s)

TurnIsOver == due = {} /\ disarmedFor = NoOne

Between ==
    /\ TurnIsOver
    /\ PanelMoves \/ EditSchedules \/ RunnerTicks \/ Elapse

SchedulesNext == Between \/ RunSchedule \/ ScheduleArms \/ Restart

SchedulesSpec == SchedulesInit /\ [][SchedulesNext]_schedulesVars

-----------------------------------------------------------------------------
SchedulesTypeOK ==
    /\ mode \in ScheduledModes \cup Alarms \cup {"arming"}
    /\ armedMode \in ArmedModes \cup {"none"}
    /\ DOMAIN schedules \subseteq Ids
    /\ \A s \in DOMAIN schedules : schedules[s] \in Rows
    /\ half \in 2 .. 2 * MaxMinutes + 1
    /\ due \subseteq DOMAIN schedules
    /\ disarmedFor \in DOMAIN schedules \cup {NoOne}
    /\ watched \subseteq DOMAIN schedules
    /\ last \in Ids \cup {NoOne}

(* A schedule runs once in the minute it is due: not again after an edit or *)
(* a restart, and never not at all if it was there and the service up.      *)
DueRunsOnce ==
    [][/\ \A s \in Ids : runs'[s] <= 1
       /\ half' \div 2 # Minute => \A s \in watched : runs[s] = 1]_schedulesVars

(* When the turn of the timer is over, the panel is in, or arms to, the     *)
(* mode of the schedule that ran last, unless an alarm is in progress:      *)
(* going from one armed mode to the other does not end half way, and an     *)
(* exit delay to another mode does not pass for the one asked for.          *)
ScheduleTakesEffect ==
    [][~TurnIsOver /\ TurnIsOver' /\ last' # NoOne
         => \/ mode \in Alarms /\ UNCHANGED panelVars
            \/ /\ mode' \in {schedules[last'].mode, "arming"}
               /\ armedMode' = IF mode' = "disarmed" THEN "none"
                               ELSE schedules[last'].mode]_schedulesVars
=============================================================================
