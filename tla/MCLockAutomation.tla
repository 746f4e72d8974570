-------------------------- MODULE MCLockAutomation --------------------------
(***************************************************************************)
(* LockAutomation for TLC: two doors; a door drives the alarm and follows  *)
(* it, or only locks when the household leaves.                            *)
(***************************************************************************)
EXTENDS LockAutomation

Acts(drives, home, away) ==
    [armOnLockWithCode |-> drives, armOnOneTouch |-> FALSE, disarmOnUnlock |-> drives,
     actions |-> [disarmed |-> home, armed_home |-> "none", armed_away |-> away]]

MCSettings == {Acts(TRUE, "unlocked", "locked"), Acts(FALSE, "none", "locked")}
=============================================================================
