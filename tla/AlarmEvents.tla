---------------------------- MODULE AlarmEvents ----------------------------
(***************************************************************************)
(* AlarmEventService (src/src/alarm/alarm-event-service.ts): the life of   *)
(* an alarm event, its siren state and the 30 s during which a disarm can  *)
(* cancel the signal.  `log` is persisted, the release timers are not.     *)
(*                                                                         *)
(* The service does not decide when an event opens or ends, its callers    *)
(* do: here any of its operations may come at any time.  Panel refines     *)
(* this specification.                                                     *)
(***************************************************************************)
EXTENDS AlarmEventLog

CONSTANTS
    RaisedKinds,    \* the kinds of event the callers open
    MaxEvents       \* bound on the rows of the log

ASSUME AlarmEventsAssumption ==
    /\ RaisedKinds \subseteq Kinds
    /\ MaxEvents \in Nat

VARIABLES
    log,      \* rows of alarm_events (persisted)
    timers,   \* releaseTimers: rows with a timer running (lost in a crash)
    up        \* whether the process runs

vars == <<log, timers, up>>

(* A new database; the process has yet to start. *)
Init ==
    /\ log = << >>
    /\ timers = {}
    /\ up = FALSE

-----------------------------------------------------------------------------
Open(kind, device) ==
    /\ up
    /\ Len(log) < MaxEvents
    /\ log' = Opened(log, kind, device)
    /\ timers' = IF InitialDispatch(kind) = "held" THEN timers \cup {Len(log) + 1} ELSE timers
    /\ UNCHANGED up

Silence ==
    /\ up
    /\ log' = MoveSounding(log, "silenced")
    /\ UNCHANGED <<timers, up>>

TimeOutSiren ==
    /\ up
    /\ log' = MoveSounding(log, "timed_out")
    /\ UNCHANGED <<timers, up>>

EndAll ==
    /\ up
    /\ log' = Closed(log, Listed(log))
    /\ timers' = timers \ Listed(log)
    /\ UNCHANGED up

\* Mutant: the release timers of the closed burglaries keep running.
EndBurglaryKeepsTimers ==
    /\ up
    /\ log' = Closed(log, Burglaries(log))
    /\ UNCHANGED <<timers, up>>

EndBurglary ==
    /\ up
    /\ log' = Closed(log, Burglaries(log))
    /\ timers' = timers \ Burglaries(log)
    /\ UNCHANGED up

(* The release timer of row i fires. *)
Release(i) ==
    /\ up
    /\ i \in timers
    /\ log[i].releaseIn = 0
    /\ log' = Released(log, i)
    /\ timers' = timers \ {i}
    /\ UNCHANGED up

-----------------------------------------------------------------------------
Stops ==
    /\ up
    /\ up' = FALSE
    /\ timers' = {}

Crash == Stops /\ UNCHANGED log

(* After the row was inserted, before its timer was started or the caller   *)
(* has done its own part.                                                   *)
CrashInOpen(kind, device) ==
    /\ Stops
    /\ Len(log) < MaxEvents
    /\ log' = Opened(log, kind, device)

(* endAll updates one row after the other, newest first, outside of a       *)
(* transaction: the process may stop before or after any of them.  The same *)
(* goes for endBurglary.                                                    *)
CrashInEnd(rows) ==
    /\ Stops
    /\ \E oldest \in 1 .. Len(log) + 1 : log' = Closed(log, {i \in rows : i >= oldest})

\* Mutant: only the sirens are looked after, no release timer is started.
ResumeSirensOnly ==
    /\ ~up
    /\ up' = TRUE
    /\ log' = ResumedLog(log)
    /\ UNCHANGED timers

Resume ==
    /\ ~up
    /\ up' = TRUE
    /\ timers' = Held(log)
    /\ log' = ResumedLog(log)

Tick ==
    /\ Aged(log) # log
    /\ log' = Aged(log)
    /\ UNCHANGED <<timers, up>>

-----------------------------------------------------------------------------
Next ==
    \/ \E kind \in RaisedKinds, device \in Devices \cup {NoDevice} :
          Open(kind, device) \/ CrashInOpen(kind, device)
    \/ Silence
    \/ TimeOutSiren
    \/ EndAll
    \/ EndBurglary
    \/ \E i \in DOMAIN log : Release(i)
    \/ Crash
    \/ CrashInEnd(Listed(log))
    \/ CrashInEnd(Burglaries(log))
    \/ Resume
    \/ Tick

(* Node runs a timer that is due, and time passes. *)
Fairness ==
    /\ WF_vars(Tick)
    /\ \A i \in 1 .. MaxEvents : WF_vars(i \in DOMAIN log /\ Release(i))

Spec == Init /\ [][Next]_vars /\ Fairness

-----------------------------------------------------------------------------
TypeOK ==
    /\ log \in Seq(Rows)
    /\ Len(log) <= MaxEvents
    /\ timers \subseteq DOMAIN log
    /\ up \in BOOLEAN

(* A signal held for the cancel window has exactly one timer that will send *)
(* it, through opens, partial ends, time-outs and restarts: none is lost    *)
(* and none is sent after it was cancelled (scheduleRelease, clearRelease,  *)
(* resume).                                                                 *)
TimerPerHeldSignal == up => timers = Held(log)

(* An event closed by a disarm has neither a siren to sound nor a signal    *)
(* still to send (endAll, endBurglary).                                     *)
EndedIsSettled ==
    \A i \in DOMAIN log :
        log[i].ended => /\ log[i].siren \notin {"sounding", "silenced"}
                        /\ log[i].dispatch # "held"

(* What was sent cannot be taken back, what was cancelled is not sent, and  *)
(* a closed event is never touched again: by a timer that fires late, a     *)
(* second disarm, or the resume after a restart.                            *)
SettledStays ==
    [][\A i \in DOMAIN log :
        /\ log[i].dispatch # "held" => log'[i].dispatch = log[i].dispatch
        /\ log[i].ended => log'[i] = log[i]]_vars

(* Once the service stays up, every held signal is sent or cancelled: the   *)
(* cancel window cannot hold it for good, whatever restarts came before.    *)
HeldSettles ==
    <>[]up => \A i \in 1 .. MaxEvents :
                (i \in Held(log)) ~> (i \notin Held(log))
=============================================================================
