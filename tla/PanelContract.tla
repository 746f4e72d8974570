--------------------------- MODULE PanelContract ---------------------------
(***************************************************************************)
(* What the panel promises (specs/.../data-model.md:17-23, FR-001, FR-003, *)
(* FR-004, FR-010a, FR-015, SC-006): a mode, the armed mode of the current *)
(* arm session, and the time left of a delay.  There are no timers, events *)
(* or handlers here, and no crash: the panel that implements it may stop   *)
(* and restart at any point, and shows nothing but a pause.                *)
(***************************************************************************)
EXTENDS Integers

CONSTANTS NoMode, ExitDelay, EntryDelay

ArmedModes == {"armed_home", "armed_away"}

VARIABLES mode, session, left

vars == <<mode, session, left>>

NoDelay == -1

(* The second alternative is a database written before sessions were        *)
(* recorded.                                                                *)
Init ==
    /\ session = NoMode
    /\ \/ mode = "disarmed" /\ left = NoDelay
       \/ mode = "arming" /\ left = 0

Arm(m) ==
    /\ mode = "disarmed"
    /\ mode' = "arming"
    /\ session' = m
    /\ left' = ExitDelay[m]

(* Only a panel that has waited the whole exit delay becomes armed, in the  *)
(* mode asked for.                                                          *)
Armed ==
    /\ mode = "arming"
    /\ left = 0
    /\ session # NoMode
    /\ mode' = session
    /\ left' = NoDelay
    /\ UNCHANGED session

Breach ==
    /\ mode \in ArmedModes
    /\ EntryDelay[mode] > 0
    /\ mode' = "alarm_pending"
    /\ left' = EntryDelay[mode]
    /\ UNCHANGED session

(* From any mode, at any time: it is what an entry delay ends in, too. *)
Alarm ==
    /\ mode' = "alarm_triggered"
    /\ left' = NoDelay
    /\ UNCHANGED session

Disarm ==
    /\ mode' = "disarmed"
    /\ session' = NoMode
    /\ left' = NoDelay

(* A guest stands down an alarm in their own zone. *)
StandDown ==
    /\ mode \in {"alarm_pending", "alarm_triggered"}
    /\ mode' = IF session = NoMode THEN "disarmed" ELSE session
    /\ left' = NoDelay
    /\ UNCHANGED session

Wait ==
    /\ left > 0
    /\ left' = left - 1
    /\ UNCHANGED <<mode, session>>

Next ==
    \/ \E m \in ArmedModes : Arm(m)
    \/ Armed
    \/ Breach
    \/ Alarm
    \/ Disarm
    \/ StandDown
    \/ Wait

Spec == Init /\ [][Next]_vars
=============================================================================
