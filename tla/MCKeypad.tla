------------------------------ MODULE MCKeypad ------------------------------
(***************************************************************************)
(* Keypad in a house with a front door and a panic button, for TLC.        *)
(***************************************************************************)
EXTENDS Keypad

CONSTANTS door, zone

MCZoneOf == [s \in Devices |-> zone]
NoAlarmKinds == [s \in LifeSafety |-> "SMOKE"]
AwayOnly == [m \in ArmedModes |-> IF m = "armed_away" THEN 1 ELSE 0]
NoTicks == [m \in ArmedModes |-> 0]
=============================================================================
