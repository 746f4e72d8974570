--------------------------- MODULE AlarmEventLog ---------------------------
(***************************************************************************)
(* The table alarm_events and what AlarmEventService computes on it        *)
(* (src/src/alarm/alarm-event-service.ts, alarm-event-repository.ts).      *)
(* Operators only: the modules that own a log (AlarmEvents, Panel, Siren)  *)
(* extend this one.                                                        *)
(*                                                                         *)
(* A log is the sequence of rows in insertion order; rows are never        *)
(* deleted.  Times are relative, counted in ticks: `releaseIn` is what is  *)
(* left of dispatch_release_at - now, `age` is now - started_at up to the  *)
(* siren's full duration.                                                  *)
(***************************************************************************)
EXTENDS Integers, Sequences, FiniteSets

CONSTANTS
    Devices,        \* sensors an event can name as the one that triggered it
    NoDevice,       \* an event raised by a person or the lockout policy
    CancelWindow,   \* CANCEL_WINDOW_MS in ticks
    SirenDuration,  \* SIREN_DURATION_MS in ticks
    ListLimit       \* the LIMIT of AlarmEventRepository.list (50)

ASSUME EventLogAssumption ==
    /\ NoDevice \notin Devices
    /\ CancelWindow \in Nat
    /\ SirenDuration \in Nat
    /\ ListLimit \in Nat

(* The eight event types, FIRE_MEDICAL split by its service. *)
Kinds == {"BURGLARY", "SMOKE", "CO", "PANIC", "FIRE", "MEDICAL", "DURESS",
          "SOS", "FLOOD_FREEZE"}

Cancellable == {"BURGLARY", "SMOKE"}

SoundsSiren(kind) == kind \notin {"MEDICAL", "DURESS", "FLOOD_FREEZE"}

InitialDispatch(kind) ==
    CASE kind = "FLOOD_FREEZE"  -> "none"
      [] kind \in Cancellable   -> "held"
      [] OTHER                  -> "queued"

Rows == [kind      : Kinds,
         device    : Devices \cup {NoDevice},
         siren     : {"none", "sounding", "silenced", "timed_out", "stopped"},
         dispatch  : {"none", "held", "queued", "cancelled"},
         ended     : BOOLEAN,
         age       : 0 .. SirenDuration,
         releaseIn : 0 .. CancelWindow]

NewRow(kind, device) ==
    [kind      |-> kind,
     device    |-> device,
     siren     |-> IF SoundsSiren(kind) THEN "sounding" ELSE "none",
     dispatch  |-> InitialDispatch(kind),
     ended     |-> FALSE,
     age       |-> 0,
     releaseIn |-> IF InitialDispatch(kind) = "held" THEN CancelWindow ELSE 0]

Opened(l, kind, device) == Append(l, NewRow(kind, device))

Held(l)   == {i \in DOMAIN l : l[i].dispatch = "held"}
Active(l) == {i \in DOMAIN l : ~l[i].ended}

(* listActive: the newest ListLimit open events. *)
Listed(l) == {i \in Active(l) : Cardinality({j \in Active(l) : j > i}) < ListLimit}

Sounding(l) == {i \in Listed(l) : l[i].siren = "sounding"}

\* Mutant: a siren that was silenced is not recorded as stopped.
SirenOnEndSoundingOnly(siren) == IF siren = "sounding" THEN "stopped" ELSE siren

SirenOnEnd(siren) == IF siren \in {"sounding", "silenced"} THEN "stopped" ELSE siren

\* Mutant: the signal counts as cancelled though it was already sent.
EndedRowAlwaysCancels(row) ==
    [row EXCEPT !.ended    = TRUE,
                !.siren    = SirenOnEnd(@),
                !.dispatch = IF row.kind \in Cancellable THEN "cancelled" ELSE @]

EndedRow(row) ==
    [row EXCEPT !.ended    = TRUE,
                !.siren    = SirenOnEnd(@),
                !.dispatch = IF @ # "held" THEN @
                             ELSE IF row.kind \in Cancellable THEN "cancelled"
                             ELSE "queued"]

(* The log after the rows of S were closed; endAll closes every listed row, *)
(* endBurglary the listed burglaries.                                       *)
Closed(l, S) == [i \in DOMAIN l |-> IF i \in S THEN EndedRow(l[i]) ELSE l[i]]

\* Mutants: a stand-down closes only what still sounds, or all that is open.
BurglariesSounding(l) == {i \in Sounding(l) : l[i].kind = "BURGLARY"}
BurglariesAndOthers(l) == Listed(l)

Burglaries(l) == {i \in Listed(l) : l[i].kind = "BURGLARY"}

MoveSounding(l, next) ==
    [i \in DOMAIN l |-> IF i \in Sounding(l) THEN [l[i] EXCEPT !.siren = next] ELSE l[i]]

(* The callback of a release timer. *)
Released(l, i) ==
    IF l[i].dispatch = "held" THEN [l EXCEPT ![i].dispatch = "queued"] ELSE l

(* AlarmEventService.resume: sirens that ran out while the service was down. *)
ResumedLog(l) ==
    [i \in DOMAIN l |-> IF i \in Sounding(l) /\ l[i].age >= SirenDuration
                        THEN [l[i] EXCEPT !.siren = "timed_out"]
                        ELSE l[i]]

Older(n, cap) == IF n < cap THEN n + 1 ELSE n

\* Mutant: a time that ran out while the process was down becomes negative.
LessUnclamped(n) == n - 1

Less(n) == IF n > 0 THEN n - 1 ELSE n

(* One tick of the clock.  A row's times are read only while it waits for   *)
(* its release, or sounds, so only those are counted.                       *)
Aged(l) ==
    [i \in DOMAIN l |->
        [l[i] EXCEPT
            !.age       = IF l[i].siren = "sounding" THEN Older(@, SirenDuration) ELSE @,
            !.releaseIn = IF l[i].dispatch = "held" THEN Less(@) ELSE @]]
=============================================================================
