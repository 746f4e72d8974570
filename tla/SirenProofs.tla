----------------------------- MODULE SirenProofs -----------------------------
(***************************************************************************)
(* What the alarm event service keeps, and the sirens that follow it: for  *)
(* every set of sensors, every window, duration and limit, a log of any    *)
(* length and any number of sirens.                                        *)
(***************************************************************************)
EXTENDS Siren, AlarmEventLogProofs, WellFoundedInduction

(* The three invariants are inductive together: TimerPerHeldSignal needs    *)
(* the type of the log, and EndedIsSettled that only open rows sound.       *)
IInv == TypeOK /\ TimerPerHeldSignal /\ EndedIsSettled

(* In every step a row either stays in place or is a new last one. *)
LEMMA RowTypes ==
    ASSUME NEW l \in Seq(Rows)
    PROVE  \A i \in DOMAIN l : l[i] \in Rows
BY ElementOfSeq, LenProperties

LEMMA InitInvariant == Init => IInv
<1> SUFFICES ASSUME Init PROVE IInv
  OBVIOUS
<1>1. log \in Seq(Rows) /\ Len(log) = 0
  BY EmptySeq DEF Init
<1>2. DOMAIN log = {}
  BY <1>1, LenProperties
<1>3. TypeOK
  <2>1. Len(log) <= MaxEvents
    BY <1>1, AlarmEventsAssumption
  <2>2. timers \subseteq DOMAIN log /\ up \in BOOLEAN
    BY DEF Init
  <2> QED
    BY <1>1, <2>1, <2>2 DEF TypeOK
<1>4. TimerPerHeldSignal /\ EndedIsSettled
  BY <1>2 DEF Init, TimerPerHeldSignal, EndedIsSettled
<1> QED
  BY <1>3, <1>4 DEF IInv

LEMMA OpenStep ==
    ASSUME log \in Seq(Rows), NEW kind \in Kinds, NEW device \in Devices \cup {NoDevice},
           log' = Opened(log, kind, device)
    PROVE  /\ log' \in Seq(Rows) /\ Len(log') = Len(log) + 1
           /\ DOMAIN log' = DOMAIN log \cup {Len(log) + 1} /\ Len(log) + 1 \notin DOMAIN log
           /\ \A i \in DOMAIN log : log'[i] = log[i]
           /\ log'[Len(log) + 1] = NewRow(kind, device)
<1> DEFINE m == Opened(log, kind, device)
<1>1. /\ m \in Seq(Rows) /\ Len(m) = Len(log) + 1
      /\ DOMAIN m = DOMAIN log \cup {Len(log) + 1} /\ Len(log) + 1 \notin DOMAIN log
      /\ \A i \in DOMAIN log : m[i] = log[i]
      /\ m[Len(log) + 1] = NewRow(kind, device)
  BY OpenedType
<1> HIDE DEF m
<1>2. log' = m
  BY DEF m
<1> QED
  BY <1>1, <1>2

LEMMA OpenInvariant ==
    ASSUME IInv, NEW kind \in Kinds, NEW device \in Devices \cup {NoDevice}, Len(log) < MaxEvents,
           log' = Opened(log, kind, device),
           \/ up /\ up' /\ timers' = IF InitialDispatch(kind) = "held"
                                     THEN timers \cup {Len(log) + 1} ELSE timers
           \/ up' = FALSE /\ timers' = {}
    PROVE  IInv'
<1> DEFINE n == Len(log) + 1
<1>1. log \in Seq(Rows) /\ Len(log) \in Nat
  BY LenProperties DEF IInv, TypeOK
<1>2. /\ log' \in Seq(Rows) /\ Len(log') = n
      /\ DOMAIN log' = DOMAIN log \cup {n} /\ n \notin DOMAIN log
      /\ \A i \in DOMAIN log : log'[i] = log[i]
      /\ log'[n] = NewRow(kind, device)
  BY <1>1, OpenStep
<1>3. /\ log'[n].dispatch = InitialDispatch(kind)
      /\ ~log'[n].ended
  BY <1>2 DEF NewRow
<1>4. Held(log') = IF InitialDispatch(kind) = "held" THEN Held(log) \cup {n} ELSE Held(log)
  BY <1>2, <1>3 DEF Held
<1>5. TypeOK'
  <2>1. Len(log') <= MaxEvents
    BY <1>1, <1>2, AlarmEventsAssumption
  <2>2. timers' \subseteq DOMAIN log'
    BY <1>2 DEF IInv, TypeOK
  <2>3. up' \in BOOLEAN
    OBVIOUS
  <2> QED
    BY <1>2, <2>1, <2>2, <2>3 DEF TypeOK
<1>6. TimerPerHeldSignal'
  BY <1>4 DEF IInv, TimerPerHeldSignal
<1>7. EndedIsSettled'
  BY <1>2, <1>3 DEF IInv, EndedIsSettled
<1> QED
  BY <1>5, <1>6, <1>7 DEF IInv

(* endAll, endBurglary, and either of them cut short. *)
LEMMA CloseInvariant ==
    ASSUME IInv, NEW S, log' = Closed(log, S),
           (up /\ up' /\ timers' = timers \ S) \/ (up' = FALSE /\ timers' = {})
    PROVE  IInv'
<1>1. log \in Seq(Rows)
  BY DEF IInv, TypeOK
<1>2. /\ log' \in Seq(Rows) /\ Len(log') = Len(log) /\ DOMAIN log' = DOMAIN log
      /\ \A i \in DOMAIN log : log'[i] = IF i \in S THEN EndedRow(log[i]) ELSE log[i]
  BY <1>1, ClosedType
<1>3. \A i \in DOMAIN log : /\ EndedRow(log[i]).dispatch # "held"
                            /\ EndedRow(log[i]).siren \notin {"sounding", "silenced"}
  BY <1>1, RowTypes, EndedRowType
<1>4. Held(log') = Held(log) \ S
  BY <1>2, <1>3 DEF Held
<1>5. TypeOK'
  BY <1>2 DEF IInv, TypeOK
<1>6. TimerPerHeldSignal'
  BY <1>4 DEF IInv, TimerPerHeldSignal
<1>7. EndedIsSettled'
  BY <1>2, <1>3 DEF IInv, EndedIsSettled
<1> QED
  BY <1>5, <1>6, <1>7 DEF IInv

LEMMA StepInvariant == IInv /\ [Next]_vars => IInv'
<1> SUFFICES ASSUME IInv, [Next]_vars PROVE IInv'
  OBVIOUS
<1>1. log \in Seq(Rows)
  BY DEF IInv, TypeOK
<1>2. ASSUME NEW kind \in RaisedKinds, NEW device \in Devices \cup {NoDevice},
             Open(kind, device) \/ CrashInOpen(kind, device)
      PROVE  IInv'
  <2>1. kind \in Kinds
    BY AlarmEventsAssumption
  <2>2. CASE Open(kind, device)
    <3>1. up /\ up'
      BY <2>2 DEF Open
    <3> QED
      BY <2>1, <2>2, <3>1, OpenInvariant DEF Open
  <2>3. CASE CrashInOpen(kind, device)
    BY <2>1, <2>3, OpenInvariant DEF CrashInOpen, Stops
  <2> QED
    BY <1>2, <2>2, <2>3
<1>3. CASE Silence \/ TimeOutSiren
  <2>1. PICK next \in {"silenced", "timed_out"} : log' = MoveSounding(log, next)
    BY <1>3 DEF Silence, TimeOutSiren
  <2>2. /\ log' \in Seq(Rows) /\ Len(log') = Len(log) /\ DOMAIN log' = DOMAIN log
        /\ \A i \in DOMAIN log : log'[i] = IF i \in Sounding(log)
                                           THEN [log[i] EXCEPT !.siren = next] ELSE log[i]
    BY <1>1, <2>1, MoveSoundingType
  <2>3. \A i \in DOMAIN log : log'[i].dispatch = log[i].dispatch /\ log'[i].ended = log[i].ended
    BY <1>1, <2>2, RowTypes DEF Rows
  <2>4. \A i \in DOMAIN log : log[i].ended => log'[i] = log[i]
    BY <2>2 DEF Sounding, Listed, Active
  <2>5. Held(log') = Held(log)
    BY <2>2, <2>3 DEF Held
  <2> QED
    BY <1>3, <2>2, <2>3, <2>4, <2>5
       DEF IInv, TypeOK, TimerPerHeldSignal, EndedIsSettled, Silence, TimeOutSiren
<1>4. CASE EndAll \/ EndBurglary
  <2>1. PICK rows : log' = Closed(log, rows) /\ timers' = timers \ rows
    BY <1>4 DEF EndAll, EndBurglary
  <2>2. up /\ up'
    BY <1>4 DEF EndAll, EndBurglary
  <2> QED
    BY <2>1, <2>2, CloseInvariant
<1>5. ASSUME NEW k \in DOMAIN log, Release(k)
      PROVE  IInv'
  <2>1. /\ log' \in Seq(Rows) /\ Len(log') = Len(log) /\ DOMAIN log' = DOMAIN log
        /\ \A i \in DOMAIN log : log'[i] = IF i = k /\ log[i].dispatch = "held"
                                           THEN [log[i] EXCEPT !.dispatch = "queued"] ELSE log[i]
    BY <1>1, <1>5, ReleasedType DEF Release
  <2>2. Held(log') = Held(log) \ {k}
    BY <1>1, <2>1, RowTypes DEF Held, Rows
  <2>3. EndedIsSettled'
    <3>1. \A i \in DOMAIN log : log'[i].ended = log[i].ended
      BY <1>1, <2>1, RowTypes DEF Rows
    <3>2. \A i \in DOMAIN log : log[i].ended => log'[i] = log[i]
      BY <2>1 DEF IInv, EndedIsSettled
    <3> QED
      BY <2>1, <3>1, <3>2 DEF IInv, EndedIsSettled
  <2> QED
    BY <1>5, <2>1, <2>2, <2>3 DEF IInv, TypeOK, TimerPerHeldSignal, Release
<1>6. CASE Crash
  BY <1>6 DEF IInv, TypeOK, TimerPerHeldSignal, EndedIsSettled, Crash, Stops
<1>7. ASSUME NEW rows, CrashInEnd(rows)
      PROVE  IInv'
  BY <1>7, CloseInvariant DEF CrashInEnd, Stops
<1>8. CASE Resume
  <2>1. /\ log' \in Seq(Rows) /\ Len(log') = Len(log) /\ DOMAIN log' = DOMAIN log
        /\ \A i \in DOMAIN log :
              log'[i] = IF i \in Sounding(log) /\ log[i].age >= SirenDuration
                        THEN [log[i] EXCEPT !.siren = "timed_out"] ELSE log[i]
    BY <1>1, <1>8, ResumedLogType DEF Resume
  <2>2. \A i \in DOMAIN log : log'[i].dispatch = log[i].dispatch /\ log'[i].ended = log[i].ended
    BY <1>1, <2>1, RowTypes DEF Rows
  <2>3. \A i \in DOMAIN log : log[i].ended => log'[i] = log[i]
    BY <2>1 DEF Sounding, Listed, Active
  <2>4. Held(log') = Held(log)
    BY <2>1, <2>2 DEF Held
  <2>5. TypeOK'
    BY <1>8, <2>1 DEF IInv, TypeOK, Resume, Held
  <2>6. TimerPerHeldSignal'
    BY <1>8, <2>4 DEF TimerPerHeldSignal, Resume
  <2>7. EndedIsSettled'
    BY <2>1, <2>2, <2>3 DEF IInv, EndedIsSettled
  <2> QED
    BY <2>5, <2>6, <2>7 DEF IInv
<1>9. CASE Tick
  <2>1. /\ log' \in Seq(Rows) /\ Len(log') = Len(log) /\ DOMAIN log' = DOMAIN log
        /\ \A i \in DOMAIN log : /\ log'[i].dispatch = log[i].dispatch
                                 /\ log'[i].siren = log[i].siren
                                 /\ log'[i].ended = log[i].ended
    BY <1>1, <1>9, AgedType DEF Tick
  <2>2. Held(log') = Held(log)
    BY <2>1 DEF Held
  <2> QED
    BY <1>9, <2>1, <2>2 DEF IInv, TypeOK, TimerPerHeldSignal, EndedIsSettled, Tick
<1>10. CASE UNCHANGED vars
  BY <1>10 DEF IInv, TypeOK, TimerPerHeldSignal, EndedIsSettled, vars, Held
<1> QED
  BY <1>2, <1>3, <1>4, <1>5, <1>6, <1>7, <1>8, <1>9, <1>10 DEF Next

(* A step that leaves settled rows and sent signals as they are. *)
LEMMA StepSettled ==
    ASSUME IInv, [Next]_vars
    PROVE  \A i \in DOMAIN log :
              /\ log[i].dispatch # "held" => log'[i].dispatch = log[i].dispatch
              /\ log[i].ended => log'[i] = log[i]
<1> DEFINE Kept == \A i \in DOMAIN log :
              /\ log[i].dispatch # "held" => log'[i].dispatch = log[i].dispatch
              /\ log[i].ended => log'[i] = log[i]
<1> SUFFICES Kept
  OBVIOUS
<1>1. log \in Seq(Rows) /\ \A i \in DOMAIN log : log[i] \in Rows
  BY RowTypes DEF IInv, TypeOK
<1>2. \A i \in Sounding(log) \cup Listed(log) \cup Burglaries(log) : ~log[i].ended
  BY DEF Sounding, Listed, Burglaries, Active
<1>3. ASSUME NEW kind \in RaisedKinds, NEW device \in Devices \cup {NoDevice},
             log' = Opened(log, kind, device)
      PROVE  Kept
  BY <1>1, <1>3, OpenStep, AlarmEventsAssumption
<1>4. ASSUME NEW rows \in SUBSET Listed(log), log' = Closed(log, rows)
      PROVE  Kept
  BY <1>1, <1>2, <1>4, ClosedType, EndedRowType
<1>5. ASSUME NEW next \in {"silenced", "timed_out"}, log' = MoveSounding(log, next)
      PROVE  Kept
  <2>1. \A i \in DOMAIN log : log'[i] = IF i \in Sounding(log)
                                         THEN [log[i] EXCEPT !.siren = next] ELSE log[i]
    BY <1>1, <1>5, MoveSoundingType
  <2>2. \A i \in DOMAIN log : log'[i].dispatch = log[i].dispatch
    BY <1>1, <2>1 DEF Rows
  <2> QED
    BY <1>2, <2>1, <2>2
<1>6. ASSUME NEW k \in DOMAIN log, log' = Released(log, k)
      PROVE  Kept
  BY <1>1, <1>6, ReleasedType DEF IInv, EndedIsSettled
<1>7. ASSUME log' = ResumedLog(log)
      PROVE  Kept
  <2>1. \A i \in DOMAIN log : log'[i] = IF i \in Sounding(log) /\ log[i].age >= SirenDuration
                                         THEN [log[i] EXCEPT !.siren = "timed_out"] ELSE log[i]
    BY <1>1, <1>7, ResumedLogType
  <2>2. \A i \in DOMAIN log : log'[i].dispatch = log[i].dispatch
    BY <1>1, <2>1 DEF Rows
  <2> QED
    BY <1>2, <2>1, <2>2
<1>8. ASSUME log' = Aged(log)
      PROVE  Kept
  BY <1>1, <1>8, AgedType DEF IInv, EndedIsSettled
<1>9. ASSUME log' = log
      PROVE  Kept
  BY <1>9
<1>10. Burglaries(log) \subseteq Listed(log)
  BY DEF Burglaries
<1> HIDE DEF Kept
<1>11. ASSUME NEW kind \in RaisedKinds, NEW device \in Devices \cup {NoDevice},
              Open(kind, device) \/ CrashInOpen(kind, device)
       PROVE  Kept
  BY <1>3, <1>11 DEF Open, CrashInOpen
<1>12. CASE Silence \/ TimeOutSiren
  BY <1>5, <1>12 DEF Silence, TimeOutSiren
<1>13. CASE EndAll \/ EndBurglary
  BY <1>4, <1>10, <1>13 DEF EndAll, EndBurglary
<1>14. ASSUME NEW rows \in SUBSET Listed(log), CrashInEnd(rows)
       PROVE  Kept
  <2>1. PICK oldest \in 1 .. Len(log) + 1 : log' = Closed(log, {i \in rows : i >= oldest})
    BY <1>14 DEF CrashInEnd
  <2>2. {i \in rows : i >= oldest} \in SUBSET Listed(log)
    OBVIOUS
  <2> QED
    BY <1>4, <2>1, <2>2
<1>15. ASSUME NEW k \in DOMAIN log, Release(k)
       PROVE  Kept
  BY <1>6, <1>15 DEF Release
<1>16. CASE Resume
  BY <1>7, <1>16 DEF Resume
<1>17. CASE Tick
  BY <1>8, <1>17 DEF Tick
<1>18. CASE Crash \/ UNCHANGED vars
  BY <1>9, <1>18 DEF Crash, vars
<1> QED
  BY <1>10, <1>11, <1>12, <1>13, <1>14, <1>15, <1>16, <1>17, <1>18 DEF Next

(* The log stays a log of rows, and a timer always belongs to one of them. *)
THEOREM TypeCorrect == Spec => []TypeOK
<1>1. IInv => TypeOK
  BY DEF IInv
<1> QED
  BY <1>1, InitInvariant, StepInvariant, PTL DEF Spec

(* scheduleRelease, clearRelease and resume: every signal inside its cancel *)
(* window has its release timer, and no other row has one.                  *)
THEOREM NoSignalLost == Spec => []TimerPerHeldSignal
<1>1. IInv => TimerPerHeldSignal
  BY DEF IInv
<1> QED
  BY <1>1, InitInvariant, StepInvariant, PTL DEF Spec

(* endAll and endBurglary leave nothing to sound or to send. *)
THEOREM EndedSettled == Spec => []EndedIsSettled
<1>1. IInv => EndedIsSettled
  BY DEF IInv
<1> QED
  BY <1>1, InitInvariant, StepInvariant, PTL DEF Spec

(* A signal that was sent or cancelled keeps that state, and a closed event *)
(* every state, through all later operations, crashes and restarts.         *)
THEOREM SettledRowsStay == Spec => SettledStays
<1>1. ASSUME IInv, [Next]_vars
      PROVE  [\A i \in DOMAIN log :
                /\ log[i].dispatch # "held" => log'[i].dispatch = log[i].dispatch
                /\ log[i].ended => log'[i] = log[i]]_vars
  BY <1>1, StepSettled
<1> QED
  BY <1>1, InitInvariant, StepInvariant, PTL DEF Spec, SettledStays

-----------------------------------------------------------------------------
(***************************************************************************)
(* For any number of sirens, durations, events and kinds: the sirens       *)
(* follow the alarm, and none that sounds is forgotten.                    *)
(***************************************************************************)

(* The service goes on as in AlarmEvents, whatever the sirens do. *)
LEMMA ServiceStep ==
    ASSUME IInv, [SirenNext]_sirenVars
    PROVE  IInv'
<1>1. CASE [Next]_vars
    BY <1>1, StepInvariant
<1>2. ASSUME NEW s \in Sirens, AutoStopThrows(s), log' = MoveSounding(log, "timed_out")
      PROVE  IInv'
  <2>1. log \in Seq(Rows) /\ \A i \in DOMAIN log : log[i] \in Rows
      BY RowTypes DEF IInv, TypeOK
  <2>2. /\ log' \in Seq(Rows) /\ Len(log') = Len(log) /\ DOMAIN log' = DOMAIN log
        /\ \A i \in DOMAIN log : log'[i] = IF i \in Sounding(log)
                                           THEN [log[i] EXCEPT !.siren = "timed_out"]
                                           ELSE log[i]
      BY <1>2, <2>1, MoveSoundingType
  <2>3. \A i \in DOMAIN log : log'[i].ended = log[i].ended
      BY <2>1, <2>2 DEF Rows
  <2>4. \A i \in DOMAIN log : log[i].ended => log'[i] = log[i]
      BY <2>2 DEF Sounding, Listed, Active
  <2>5. up' = FALSE /\ timers' = {}
      BY <1>2 DEF AutoStopThrows, Stops
  <2> QED BY <2>2, <2>3, <2>4, <2>5 DEF IInv, TypeOK, TimerPerHeldSignal, EndedIsSettled
<1>3. ASSUME NEW s \in Sirens, AutoStopThrows(s), UNCHANGED log
      PROVE  [Next]_vars
    BY <1>3 DEF AutoStopThrows, Crash, Next
<1>4. AlarmEvent \/ (\E i \in DOMAIN log : ReleaseFires(i)) => Next
    BY DEF AlarmEvent, ReleaseFires, Next
<1>5. \A s \in Sirens : AutoStop(s) \/ Enroll(s) \/ Remove(s) => [Next]_vars
    BY DEF AutoStop, Enroll, Remove, Next, vars
<1>6. TimePasses => [Next]_vars
    BY DEF TimePasses, Tick, Next, vars
<1>7. DriverReady \/ DriverFails => UNCHANGED vars
    BY DEF DriverReady, DriverFails, vars
<1>8. ProcessStops \/ Restart => Next
    BY DEF ProcessStops, Restart, Next
<1>9. \A s \in Sirens : AutoStopThrows(s) => log' = MoveSounding(log, "timed_out") \/ UNCHANGED log
    BY DEF AutoStopThrows
<1>10. UNCHANGED sirenVars => UNCHANGED vars
    BY DEF sirenVars, vars
<1> QED BY <1>1, <1>2, <1>3, <1>4, <1>5, <1>6, <1>7, <1>8, <1>9, <1>10 DEF SirenNext

-----------------------------------------------------------------------------
(* What SirensFollow needs is that a step which moves the alarm follows it, *)
(* and that one which does not leaves the same events sounding.             *)
LEMMA SameSounding ==
    ASSUME log \in Seq(Rows), DOMAIN log' = DOMAIN log,
           \A i \in DOMAIN log : log'[i].ended = log[i].ended /\ log'[i].siren = log[i].siren
    PROVE  Sounding(log') = Sounding(log)
<1>1. Active(log') = Active(log)
    BY DEF Active
<1>2. Listed(log') = Listed(log)
    BY <1>1 DEF Listed
<1> QED BY <1>2 DEF Sounding, Listed, Active

LEMMA AfterTimeOut ==
    ASSUME log \in Seq(Rows), log' = MoveSounding(log, "timed_out")
    PROVE  Sounding(log') = {}
<1>1. /\ DOMAIN log' = DOMAIN log /\ \A i \in DOMAIN log : log[i] \in Rows
      /\ \A i \in DOMAIN log : log'[i] = IF i \in Sounding(log)
                                         THEN [log[i] EXCEPT !.siren = "timed_out"]
                                         ELSE log[i]
    BY MoveSoundingType, RowTypes
<1>2. \A i \in DOMAIN log : log'[i].ended = log[i].ended
    BY <1>1 DEF Rows
<1>3. Active(log') = Active(log)
    BY <1>1, <1>2 DEF Active
<1>4. Listed(log') = Listed(log)
    BY <1>3 DEF Listed
<1>5. \A i \in Listed(log) : log'[i].siren # "sounding"
    BY <1>1 DEF Sounding, Listed, Active, Rows
<1> QED BY <1>4, <1>5 DEF Sounding

(* reevaluate, from a memory that is part of what sounds. *)
LEMMA Reevaluated ==
    ASSUME NEW on0, NEW expired0, NEW lit0, DOMAIN on0 \subseteq lit0,
           Reevaluate(on0, expired0, lit0)
    PROVE  SirensFollow'
<1>1. CASE Sounding(log') = {}
    BY <1>1 DEF Reevaluate, SirensFollow, Off
<1>2. CASE Sounding(log') # {}
    BY <1>2 DEF Reevaluate, SirensFollow
<1> QED BY <1>1, <1>2

LEMMA FollowStep ==
    ASSUME IInv, SirensFollow, [SirenNext]_sirenVars
    PROVE  SirensFollow'
<1>1. log \in Seq(Rows) /\ DOMAIN on \subseteq lit
    BY DEF IInv, TypeOK, SirensFollow
<1>2. ASSUME Follow PROVE SirensFollow'
    BY <1>1, <1>2, Reevaluated DEF Follow
<1>3. AlarmEvent \/ DriverReady \/ Restart => Follow
    BY DEF AlarmEvent, DriverReady, Restart
<1>4. (\E i \in DOMAIN log : ReleaseFires(i)) \/ (\E s \in Sirens : Enroll(s)) => Follow
    BY DEF ReleaseFires, Enroll
<1>5. ASSUME NEW s \in Sirens, AutoStop(s) PROVE SirensFollow'
  <2>1. CASE DOMAIN on = {s}
    <3>1. DOMAIN Off \subseteq lit \ {s}
        BY DEF Off
    <3>2. Reevaluate(Off, expired \cup {s}, lit \ {s})
        BY <1>5, <2>1 DEF AutoStop
    <3> QED BY <3>1, <3>2, Reevaluated
  <2>2. CASE DOMAIN on # {s}
    <3>1. /\ on' = Without(s) /\ expired' = expired \cup {s} /\ lit' = lit \ {s}
          /\ UNCHANGED <<log, up, enrolled, ready>> /\ s \in DOMAIN on
        BY <1>5, <2>2 DEF AutoStop
    <3>2. DOMAIN on' = DOMAIN on \ {s}
        BY <3>1 DEF Without
    <3>3. Sounding(log) # {}
        BY <3>1 DEF SirensFollow, Off
    <3> QED BY <3>1, <3>2, <3>3 DEF SirensFollow
  <2> QED BY <2>1, <2>2
<1>6. ASSUME SirensLost PROVE ~ready' /\ on' = Off /\ expired' = {}
    BY <1>6 DEF SirensLost
<1>7. ASSUME SirensLost PROVE SirensFollow'
    BY <1>6, <1>7 DEF SirensFollow, Off
<1>8. ProcessStops \/ (\E s \in Sirens : AutoStopThrows(s)) => SirensLost
    BY DEF ProcessStops, AutoStopThrows
<1>9. ASSUME NEW s \in Sirens, Remove(s) PROVE SirensFollow'
  <2>1. /\ enrolled' = enrolled \ {s} /\ on' = Without(s)
        /\ lit' = IF ready /\ s \in DOMAIN on THEN lit \ {s} ELSE lit
        /\ UNCHANGED <<log, up, expired, ready>>
      BY <1>9 DEF Remove
  <2>2. DOMAIN on' = DOMAIN on \ {s}
      BY <2>1 DEF Without
  <2>3. on = Off => on' = Off
      BY <2>1 DEF Without, Off
  <2> QED BY <2>1, <2>2, <2>3 DEF SirensFollow
<1>10. CASE TimePasses
  <2>1. Sounding(log') = Sounding(log)
      BY <1>1, <1>10, AgedType, SameSounding DEF TimePasses
  <2>2. /\ on' = [s \in DOMAIN on |-> Less(on[s])]
        /\ UNCHANGED <<up, enrolled, expired, ready, lit>>
      BY <1>10 DEF TimePasses
  <2>3. on = Off => on' = Off
      BY <2>2 DEF Off
  <2> QED BY <2>1, <2>2, <2>3 DEF SirensFollow
<1>11. CASE DriverFails
    BY <1>11 DEF DriverFails, SirensFollow
<1>12. CASE UNCHANGED sirenVars
    BY <1>12 DEF sirenVars, vars, SirensFollow
<1> QED BY <1>2, <1>3, <1>4, <1>5, <1>7, <1>8, <1>9, <1>10, <1>11, <1>12 DEF SirenNext

LEMMA SirenInitHolds == SirenInit => IInv /\ SirensFollow
<1> SUFFICES ASSUME SirenInit PROVE IInv /\ SirensFollow
    OBVIOUS
<1>1. IInv
    BY InitInvariant DEF SirenInit
<1>2. SirensFollow
    BY DEF SirenInit, SirensFollow, Off
<1> QED BY <1>1, <1>2

LEMMA SirenInvariant == SirenSpec => [](IInv /\ SirensFollow)
<1>1. IInv /\ SirensFollow /\ [SirenNext]_sirenVars => (IInv /\ SirensFollow)'
    BY ServiceStep, FollowStep
<1> QED BY <1>1, SirenInitHolds, PTL DEF SirenSpec

(* The release timers stay with the held signals though the sirens time     *)
(* alarms out by themselves, and a timer of theirs can end the process.     *)
THEOREM NoSignalLostWithSirens == SirenSpec => []TimerPerHeldSignal
<1>1. IInv => TimerPerHeldSignal
    BY DEF IInv
<1> QED BY <1>1, SirenInvariant, PTL

(* reevaluate and sync keep every enrolled siren with the alarm, whatever   *)
(* happened while the driver was away: enrolments, alarms, restarts.        *)
THEOREM SirensAlwaysFollow == SirenSpec => []SirensFollow
BY SirenInvariant, PTL

-----------------------------------------------------------------------------
LEMMA ReevaluateForgetsNone ==
    ASSUME NEW on0, NEW expired0, NEW lit0, ready',
           Reevaluate(on0, expired0, lit0)
    PROVE  lit' \ DOMAIN on' \subseteq lit0 \ DOMAIN on0
<1>1. CASE Sounding(log') = {}
    BY <1>1 DEF Reevaluate
<1>2. CASE Sounding(log') # {}
    BY <1>2 DEF Reevaluate
<1> QED BY <1>1, <1>2

(* While the driver is there no step leaves a siren sounding that the       *)
(* process does not hold to be on: not a removal, nor an alarm that ends    *)
(* as the last auto-stop fires.                                             *)
THEOREM NoSirenForgotten == SirenSpec => NoneForgotten
<1> DEFINE Kept == lit' \ DOMAIN on' \subseteq lit \ DOMAIN on
<1>1. ASSUME SirenNext, ready, ready' PROVE Kept
  <2>1. ASSUME Follow PROVE Kept
      BY <1>1, <2>1, ReevaluateForgetsNone DEF Follow
  <2>2. AlarmEvent \/ DriverReady \/ Restart => Follow
      BY DEF AlarmEvent, DriverReady, Restart
  <2>3. (\E i \in DOMAIN log : ReleaseFires(i)) \/ (\E s \in Sirens : Enroll(s)) => Follow
      BY DEF ReleaseFires, Enroll
  <2>4. ASSUME NEW s \in Sirens, AutoStop(s) PROVE Kept
    <3>1. CASE DOMAIN on = {s}
      <4>1. Reevaluate(Off, expired \cup {s}, lit \ {s})
          BY <2>4, <3>1 DEF AutoStop
      <4>2. lit' \ DOMAIN on' \subseteq (lit \ {s}) \ DOMAIN Off
          BY <1>1, <4>1, ReevaluateForgetsNone
      <4> QED BY <3>1, <4>2
    <3>2. CASE DOMAIN on # {s}
        BY <2>4, <3>2 DEF AutoStop, Without
    <3> QED BY <3>1, <3>2
  <2>5. ASSUME NEW s \in Sirens, Remove(s) PROVE Kept
      BY <1>1, <2>5 DEF Remove, Without
  <2>6. CASE TimePasses
      BY <2>6 DEF TimePasses
  <2>7. DriverFails \/ ProcessStops \/ (\E s \in Sirens : AutoStopThrows(s)) => ~ready'
      BY DEF DriverFails, ProcessStops, AutoStopThrows, SirensLost
  <2> QED BY <1>1, <2>1, <2>2, <2>3, <2>4, <2>5, <2>6, <2>7 DEF SirenNext
<1>2. [SirenNext]_sirenVars =>
        [up /\ ready /\ ready' => lit' \ DOMAIN on' \subseteq lit \ DOMAIN on]_sirenVars
    BY <1>1
<1> QED BY <1>2, PTL DEF SirenSpec, NoneForgotten
-----------------------------------------------------------------------------
(* The oldest of some ages is one of them, and none is greater: the least   *)
(* of what is left of the siren's duration exists.                          *)
LEMMA LargestAge ==
    ASSUME NEW S \in SUBSET (0 .. SirenDuration), S # {}
    PROVE  Max(S) \in S /\ \A a \in S : a <= Max(S)
<1> DEFINE T == {SirenDuration - a : a \in S}
<1>1. T \subseteq Nat /\ T # {}
  <2>1. \A a \in S : SirenDuration - a \in Nat
      BY EventLogAssumption
  <2>2. PICK a \in S : TRUE
      OBVIOUS
  <2>3. SirenDuration - a \in T
      OBVIOUS
  <2> QED BY <2>1, <2>3
<1>2. PICK x \in T : \A y \in T : ~(<<y, x>> \in OpToRel(<, Nat))
    BY <1>1, NatLessThanWellFounded, WFMin
<1>3. \A y \in T : ~(y < x)
    BY <1>1, <1>2 DEF OpToRel
<1>4. PICK a \in S : x = SirenDuration - a
    BY <1>2
<1>5. \A b \in S : a >= b
    BY <1>3, <1>4, EventLogAssumption
<1> QED BY <1>4, <1>5 DEF Max

LEMMA RemainingFits ==
    ASSUME NEW l \in Seq(Rows), Sounding(l) # {}, NEW s \in Sirens
    PROVE  /\ Remaining(s, l) \in 0 .. Duration[s]
           /\ Remaining(s, l) > 0 =>
                 \A i \in Sounding(l) : Remaining(s, l) + l[i].age <= Duration[s]
<1> DEFINE ages == {l[i].age : i \in Sounding(l)}
<1>1. \A i \in Sounding(l) : l[i].age \in 0 .. SirenDuration
    BY RowTypes DEF Sounding, Listed, Active, Rows
<1>2. /\ OldestAge(l) \in 0 .. SirenDuration
      /\ \A i \in Sounding(l) : l[i].age <= OldestAge(l)
  <2>1. ages \in SUBSET (0 .. SirenDuration) /\ ages # {}
      BY <1>1
  <2>2. Max(ages) \in ages /\ \A a \in ages : a <= Max(ages)
      BY <2>1, LargestAge
  <2> QED BY <2>1, <2>2 DEF OldestAge
<1>3. Duration[s] \in Nat
    BY SirenAssumption, EventLogAssumption
<1> QED BY <1>1, <1>2, <1>3, EventLogAssumption DEF Remaining

(* The types of what the sirens keep. *)
SirensType ==
    /\ enrolled \subseteq Sirens
    /\ DOMAIN on \subseteq Sirens
    /\ \A s \in DOMAIN on : on[s] \in 0 .. Duration[s]
    /\ expired \subseteq Sirens
    /\ ready \in BOOLEAN
    /\ lit \subseteq Sirens

LEMMA ReevaluatedType ==
    ASSUME log' \in Seq(Rows), enrolled' \subseteq Sirens, ready' \in BOOLEAN,
           NEW on0, DOMAIN on0 \subseteq Sirens,
           \A s \in DOMAIN on0 : on0[s] \in 0 .. Duration[s],
           NEW expired0 \in SUBSET Sirens, NEW lit0 \in SUBSET Sirens,
           Reevaluate(on0, expired0, lit0)
    PROVE  SirensType'
<1>1. CASE Sounding(log') = {}
    BY <1>1 DEF Reevaluate, SirensType, Off
<1>2. CASE Sounding(log') # {}
  <2> DEFINE missing == IF ready' THEN enrolled' \ (DOMAIN on0 \cup expired0) ELSE {}
  <2>1. /\ on' = [s \in DOMAIN on0 \cup missing |->
                     IF s \in missing THEN Remaining(s, log') ELSE on0[s]]
        /\ expired' = expired0 /\ lit' = lit0 \cup missing
      BY <1>2 DEF Reevaluate
  <2>2. missing \subseteq Sirens
      OBVIOUS
  <2>3. \A s \in missing : Remaining(s, log') \in 0 .. Duration[s]
      BY <1>2, <2>2, RemainingFits
  <2> HIDE DEF missing
  <2>4. DOMAIN on' \subseteq Sirens /\ \A s \in DOMAIN on' : on'[s] \in 0 .. Duration[s]
      BY <2>1, <2>2, <2>3
  <2> QED BY <2>1, <2>2, <2>4 DEF SirensType
<1> QED BY <1>1, <1>2

LEMMA TypeStep ==
    ASSUME IInv, IInv', SirensType, [SirenNext]_sirenVars
    PROVE  SirensType'
<1>1. log' \in Seq(Rows)
    BY DEF IInv, TypeOK
<1>2. ASSUME Follow, enrolled' \subseteq Sirens, ready' \in BOOLEAN PROVE SirensType'
    BY <1>1, <1>2, ReevaluatedType DEF Follow, SirensType
<1>3. CASE AlarmEvent \/ DriverReady \/ Restart
    BY <1>2, <1>3 DEF AlarmEvent, DriverReady, Restart, SirensType
<1>4. CASE \E i \in DOMAIN log : ReleaseFires(i)
    BY <1>2, <1>4 DEF ReleaseFires, SirensType
<1>5. CASE \E s \in Sirens : Enroll(s)
    BY <1>2, <1>5 DEF Enroll, SirensType
<1>6. ASSUME NEW s \in Sirens, AutoStop(s) PROVE SirensType'
  <2>1. CASE DOMAIN on = {s}
    <3>1. Reevaluate(Off, expired \cup {s}, lit \ {s})
        BY <1>6, <2>1 DEF AutoStop
    <3>2. /\ DOMAIN Off \subseteq Sirens
          /\ \A t \in DOMAIN Off : Off[t] \in 0 .. Duration[t]
        BY DEF Off
    <3>3. /\ expired \cup {s} \in SUBSET Sirens /\ lit \ {s} \in SUBSET Sirens
          /\ enrolled' \subseteq Sirens /\ ready' \in BOOLEAN
        BY <1>6 DEF SirensType, AutoStop
    <3> QED BY <1>1, <3>1, <3>2, <3>3, ReevaluatedType
  <2>2. CASE DOMAIN on # {s}
      BY <1>6, <2>2 DEF AutoStop, Without, SirensType
  <2> QED BY <2>1, <2>2
<1>7. ASSUME NEW s \in Sirens, AutoStopThrows(s) PROVE SirensType'
    BY <1>7 DEF AutoStopThrows, SirensLost, SirensType, Off
<1>8. ASSUME NEW s \in Sirens, Remove(s) PROVE SirensType'
    BY <1>8 DEF Remove, Without, SirensType
<1>9. CASE TimePasses
  <2>1. \A s \in DOMAIN on : Less(on[s]) \in 0 .. Duration[s]
      BY SirenAssumption, EventLogAssumption DEF SirensType, Less
  <2> QED BY <1>9, <2>1 DEF TimePasses, SirensType
<1>10. CASE DriverFails
    BY <1>10 DEF DriverFails, SirensType
<1>11. CASE ProcessStops
    BY <1>11 DEF ProcessStops, SirensLost, SirensType, Off
<1>12. CASE UNCHANGED sirenVars
    BY <1>12 DEF sirenVars, SirensType
<1> QED BY <1>3, <1>4, <1>5, <1>6, <1>7, <1>8, <1>9, <1>10, <1>11, <1>12 DEF SirenNext

LEMMA SirenTypeInvariant == SirenSpec => []SirensType
<1>1. SirenInit => SirensType
    BY DEF SirenInit, SirensType, Off
<1>2. IInv /\ IInv' /\ SirensType /\ [SirenNext]_sirenVars => SirensType'
    BY TypeStep
<1> QED BY <1>1, <1>2, SirenInvariant, PTL DEF SirenSpec

(* What the process remembers of a siren is of an enrolled node, and never  *)
(* more than the duration of that siren.                                    *)
THEOREM SirenTypeCorrect == SirenSpec => []SirenTypeOK
<1>1. IInv /\ SirensType => SirenTypeOK
    BY DEF IInv, SirensType, SirenTypeOK
<1> QED BY <1>1, SirenInvariant, SirenTypeInvariant, PTL

-----------------------------------------------------------------------------
(* StopsOnTime needs that list() returns every open event: one that falls   *)
(* off the end and comes back when newer ones are closed is older than what *)
(* the sirens were started for.                                             *)

(* Every siren that is on has no longer to go than any event that sounds    *)
(* allows it.                                                               *)
OnTime(sirens, l) ==
    \A s \in DOMAIN sirens :
        sirens[s] > 0 => \A i \in Sounding(l) : sirens[s] + l[i].age <= Duration[s]

(* What sounds after an operation of the service sounded before, at the     *)
(* same age, or has just begun.                                             *)
NoneOlder ==
    \A i \in Sounding(log') :
        \/ i \in Sounding(log) /\ log'[i].age = log[i].age
        \/ log'[i].age = 0

LEMMA SoundingRows ==
    ASSUME MaxEvents <= ListLimit, NEW l \in Seq(Rows), Len(l) <= MaxEvents
    PROVE  Sounding(l) = {i \in DOMAIN l : ~l[i].ended /\ l[i].siren = "sounding"}
<1>1. Len(l) <= ListLimit
    BY LenProperties, EventLogAssumption, AlarmEventsAssumption
<1> QED BY <1>1, EveryOpenIsListed DEF Sounding, Active

LEMMA ServiceMakesNoneOlder ==
    ASSUME MaxEvents <= ListLimit, IInv, IInv', AlarmEvent \/ Restart
                              \/ (\E i \in DOMAIN log : ReleaseFires(i))
    PROVE  NoneOlder
<1>1. /\ log \in Seq(Rows) /\ log' \in Seq(Rows)
      /\ \A i \in DOMAIN log : log[i] \in Rows
    BY RowTypes DEF IInv, TypeOK
<1>2. Sounding(log) = {i \in DOMAIN log : ~log[i].ended /\ log[i].siren = "sounding"}
    BY SoundingRows DEF IInv, TypeOK
<1>3. Sounding(log') = {i \in DOMAIN log' : ~log'[i].ended /\ log'[i].siren = "sounding"}
  <2>1. log' \in Seq(Rows) /\ Len(log') <= MaxEvents
      BY DEF IInv, TypeOK
  <2> QED BY <2>1, SoundingRows
<1>4. ASSUME NEW kind \in RaisedKinds, Open(kind, NoDevice) PROVE NoneOlder
  <2>1. /\ DOMAIN log' = DOMAIN log \cup {Len(log) + 1}
        /\ \A i \in DOMAIN log : log'[i] = log[i]
        /\ log'[Len(log) + 1] = NewRow(kind, NoDevice)
      BY <1>1, <1>4, OpenStep, AlarmEventsAssumption DEF Open
  <2>2. log'[Len(log) + 1].age = 0
      BY <2>1 DEF NewRow
  <2> QED BY <1>2, <1>3, <2>1, <2>2 DEF NoneOlder
<1>5. ASSUME NEW next \in {"silenced", "timed_out"}, log' = MoveSounding(log, next)
      PROVE  NoneOlder
  <2>1. /\ DOMAIN log' = DOMAIN log
        /\ \A i \in DOMAIN log : log'[i] = IF i \in Sounding(log)
                                           THEN [log[i] EXCEPT !.siren = next] ELSE log[i]
      BY <1>1, <1>5, MoveSoundingType
  <2>2. \A i \in Sounding(log) : log'[i].siren # "sounding"
      BY <1>1, <1>2, <2>1 DEF Rows
  <2> QED BY <1>2, <1>3, <2>1, <2>2 DEF NoneOlder
<1>6. ASSUME NEW rows, log' = Closed(log, rows) PROVE NoneOlder
  <2>1. /\ DOMAIN log' = DOMAIN log
        /\ \A i \in DOMAIN log : log'[i] = IF i \in rows THEN EndedRow(log[i]) ELSE log[i]
      BY <1>1, <1>6, ClosedType
  <2>2. \A i \in DOMAIN log : EndedRow(log[i]).ended
      BY <1>1, EndedRowType
  <2> QED BY <1>2, <1>3, <2>1, <2>2 DEF NoneOlder
<1>7. ASSUME NEW k \in DOMAIN log, Release(k) PROVE NoneOlder
  <2>1. /\ DOMAIN log' = DOMAIN log
        /\ \A i \in DOMAIN log : log'[i] = IF i = k /\ log[i].dispatch = "held"
                                           THEN [log[i] EXCEPT !.dispatch = "queued"] ELSE log[i]
      BY <1>1, <1>7, ReleasedType DEF Release
  <2>2. \A i \in DOMAIN log : /\ log'[i].ended = log[i].ended
                              /\ log'[i].siren = log[i].siren
                              /\ log'[i].age = log[i].age
      BY <1>1, <2>1 DEF Rows
  <2> QED BY <1>2, <1>3, <2>1, <2>2 DEF NoneOlder
<1>8. ASSUME Resume PROVE NoneOlder
  <2>1. /\ DOMAIN log' = DOMAIN log
        /\ \A i \in DOMAIN log :
              log'[i] = IF i \in Sounding(log) /\ log[i].age >= SirenDuration
                        THEN [log[i] EXCEPT !.siren = "timed_out"] ELSE log[i]
      BY <1>1, <1>8, ResumedLogType DEF Resume
  <2>2. \A i \in DOMAIN log : log'[i].siren = "sounding" => log'[i] = log[i]
      BY <1>1, <2>1 DEF Rows
  <2> QED BY <1>2, <1>3, <2>1, <2>2 DEF NoneOlder
<1>9. AlarmEvent => \/ \E kind \in RaisedKinds : Open(kind, NoDevice)
                    \/ \E next \in {"silenced", "timed_out"} : log' = MoveSounding(log, next)
                    \/ \E rows : log' = Closed(log, rows)
    BY DEF AlarmEvent, Silence, EndAll, EndBurglary
<1> QED BY <1>4, <1>5, <1>6, <1>7, <1>8, <1>9 DEF Restart, ReleaseFires

(* reevaluate starts what is missing for what is left, and keeps the rest.  *)
LEMMA ReevaluatedOnTime ==
    ASSUME log' \in Seq(Rows), enrolled' \subseteq Sirens,
           NEW on0, NEW expired0, NEW lit0, OnTime(on0, log'),
           Reevaluate(on0, expired0, lit0)
    PROVE  OnTime(on, log)'
<1>1. CASE Sounding(log') = {}
    BY <1>1 DEF Reevaluate, OnTime, Off
<1>2. CASE Sounding(log') # {}
  <2> DEFINE missing == IF ready' THEN enrolled' \ (DOMAIN on0 \cup expired0) ELSE {}
  <2>1. on' = [s \in DOMAIN on0 \cup missing |->
                  IF s \in missing THEN Remaining(s, log') ELSE on0[s]]
      BY <1>2 DEF Reevaluate
  <2>2. \A s \in missing : Remaining(s, log') > 0 =>
              \A i \in Sounding(log') : Remaining(s, log') + log'[i].age <= Duration[s]
      BY <1>2, RemainingFits
  <2> HIDE DEF missing
  <2>3. ASSUME NEW s \in DOMAIN on', on'[s] > 0, NEW i \in Sounding(log')
        PROVE  on'[s] + log'[i].age <= Duration[s]
    <3>1. CASE s \in missing
        BY <2>1, <2>2, <2>3, <3>1
    <3>2. CASE s \notin missing
        BY <2>1, <2>3, <3>2 DEF OnTime
    <3> QED BY <3>1, <3>2
  <2> QED BY <2>3 DEF OnTime
<1> QED BY <1>1, <1>2

(* A siren that is on, and an alarm that becomes no older. *)
LEMMA KeptOnTime ==
    ASSUME IInv, SirensType, SirensFollow, OnTime(on, log), NoneOlder
    PROVE  OnTime(on, log')
<1>1. SUFFICES ASSUME NEW s \in DOMAIN on, on[s] > 0, NEW i \in Sounding(log')
               PROVE  on[s] + log'[i].age <= Duration[s]
    BY DEF OnTime
<1>2. on[s] \in Nat /\ on[s] <= Duration[s] /\ Duration[s] \in Nat
    BY SirenAssumption, EventLogAssumption DEF SirensType
<1> QED BY <1>1, <1>2 DEF OnTime, NoneOlder

LEMMA OnTimeStep ==
    ASSUME MaxEvents <= ListLimit, IInv, IInv', SirensType, SirensType', SirensFollow,
           OnTime(on, log), [SirenNext]_sirenVars
    PROVE  OnTime(on, log)'
<1>1. log \in Seq(Rows) /\ log' \in Seq(Rows) /\ enrolled' \subseteq Sirens
    BY DEF IInv, TypeOK, SirensType
<1>2. ASSUME Follow, NoneOlder PROVE OnTime(on, log)'
    BY <1>1, <1>2, KeptOnTime, ReevaluatedOnTime DEF Follow
<1>3. CASE AlarmEvent \/ Restart \/ (\E i \in DOMAIN log : ReleaseFires(i))
  <2>1. NoneOlder
      BY <1>3, ServiceMakesNoneOlder
  <2>2. Follow
      BY <1>3 DEF AlarmEvent, Restart, ReleaseFires
  <2> QED BY <1>2, <2>1, <2>2
<1>4. CASE DriverReady \/ (\E s \in Sirens : Enroll(s))
  <2>1. UNCHANGED log /\ Follow
      BY <1>4 DEF DriverReady, Enroll
  <2>2. NoneOlder
      BY <2>1 DEF NoneOlder
  <2> QED BY <1>2, <2>1, <2>2
<1>5. ASSUME NEW s \in Sirens, AutoStop(s) PROVE OnTime(on, log)'
  <2>1. CASE DOMAIN on = {s}
    <3>1. Reevaluate(Off, expired \cup {s}, lit \ {s})
        BY <1>5, <2>1 DEF AutoStop
    <3>2. OnTime(Off, log')
        BY DEF OnTime, Off
    <3> QED BY <1>1, <3>1, <3>2, ReevaluatedOnTime
  <2>2. CASE DOMAIN on # {s}
      BY <1>5, <2>2 DEF AutoStop, Without, OnTime
  <2> QED BY <2>1, <2>2
<1>6. CASE ProcessStops \/ (\E s \in Sirens : AutoStopThrows(s))
  <2>1. on' = Off
      BY <1>6 DEF ProcessStops, AutoStopThrows, SirensLost
  <2> QED BY <2>1 DEF OnTime, Off
<1>7. ASSUME NEW s \in Sirens, Remove(s) PROVE OnTime(on, log)'
    BY <1>7 DEF Remove, Without, OnTime
<1>8. CASE TimePasses
  <2>1. /\ log' = Aged(log) /\ on' = [s \in DOMAIN on |-> Less(on[s])]
      BY <1>8 DEF TimePasses
  <2>2. Sounding(log') = Sounding(log)
      BY <1>1, <2>1, AgedType, SameSounding
  <2>3. ASSUME NEW i \in Sounding(log)
        PROVE  log[i].age \in Nat /\ log'[i].age \in Nat /\ log'[i].age <= log[i].age + 1
    <3>1. i \in DOMAIN log /\ log[i] \in Rows
        BY <1>1, RowTypes DEF Sounding, Listed, Active
    <3>2. log[i].age \in 0 .. SirenDuration
        BY <3>1 DEF Rows
    <3>3. log'[i].age = IF log[i].siren = "sounding" THEN Older(log[i].age, SirenDuration)
                        ELSE log[i].age
        BY <2>1, <3>1 DEF Aged, Rows
    <3> QED BY <3>2, <3>3, EventLogAssumption DEF Older
  <2>4. ASSUME NEW s \in DOMAIN on', on'[s] > 0, NEW i \in Sounding(log')
        PROVE  on'[s] + log'[i].age <= Duration[s]
    <3>1. s \in DOMAIN on /\ on[s] \in Nat /\ Duration[s] \in Nat
        BY <2>1, SirenAssumption, EventLogAssumption DEF SirensType
    <3>2. on[s] > 0 /\ on'[s] = on[s] - 1
        BY <2>1, <2>4, <3>1 DEF Less
    <3>3. on[s] + log[i].age <= Duration[s]
        BY <2>2, <3>1, <3>2 DEF OnTime
    <3> QED BY <2>2, <2>3, <3>1, <3>2, <3>3
  <2> QED BY <2>4 DEF OnTime
<1>9. CASE DriverFails \/ UNCHANGED sirenVars
    BY <1>9 DEF DriverFails, sirenVars, vars, OnTime
<1> QED BY <1>3, <1>4, <1>5, <1>6, <1>7, <1>8, <1>9 DEF SirenNext

(* A siren switched on late, by a restart, a new enrolment or a driver that *)
(* comes back, stops when the oldest alarm has sounded for its duration:    *)
(* for any sirens and durations, as long as list() returns all open events. *)
THEOREM SirensStopOnTime ==
    ASSUME MaxEvents <= ListLimit
    PROVE  SirenSpec => []StopsOnTime
<1>1. SirenInit => OnTime(on, log)
    BY DEF SirenInit, OnTime, Off
<1>2. IInv /\ IInv' /\ SirensType /\ SirensType' /\ SirensFollow
        /\ OnTime(on, log) /\ [SirenNext]_sirenVars => OnTime(on, log)'
    BY OnTimeStep
<1>3. IInv /\ SirensType /\ SirensFollow /\ OnTime(on, log) => StopsOnTime
  <2> SUFFICES ASSUME IInv, SirensType, SirensFollow, OnTime(on, log),
                      NEW s \in DOMAIN on, on[s] > 0
               PROVE  on[s] + OldestAge(log) <= Duration[s]
      BY DEF StopsOnTime
  <2> DEFINE ages == {log[i].age : i \in Sounding(log)}
  <2>1. Sounding(log) # {}
      BY DEF SirensFollow, Off
  <2>2. \A i \in Sounding(log) : log[i].age \in 0 .. SirenDuration
      BY RowTypes DEF IInv, TypeOK, Sounding, Listed, Active, Rows
  <2>3. ages \in SUBSET (0 .. SirenDuration) /\ ages # {}
      BY <2>1, <2>2
  <2>4. Max(ages) \in ages
      BY <2>3, LargestAge
  <2> QED BY <2>4 DEF OldestAge, OnTime
<1> QED BY <1>1, <1>2, <1>3, SirenInvariant, SirenTypeInvariant, PTL DEF SirenSpec
=============================================================================
