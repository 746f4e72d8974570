------------------------------ MODULE MCPanel ------------------------------
(***************************************************************************)
(* Panel on a small house for TLC: a front door and a smoke detector in    *)
(* the guest's zone, a window elsewhere.                                   *)
(***************************************************************************)
EXTENDS PanelRefinement

CONSTANTS door, window, smoke, guestZone, otherZone

House == {door, window, smoke}
DoorAndSmoke == {door, smoke}

MCZoneOf == [s \in Devices |-> IF s = window THEN otherZone ELSE guestZone]
MCAlarmKindOf == [s \in LifeSafety |-> "SMOKE"]
OneTick == [m \in ArmedModes |-> 1]
\* Home has no entry delay.
AwayOnly == [m \in ArmedModes |-> IF m = "armed_away" THEN 1 ELSE 0]
=============================================================================
