----------------------------- MODULE MCAccounts -----------------------------
(***************************************************************************)
(* Accounts with two users and a week of two days of three ticks.          *)
(***************************************************************************)
EXTENDS Accounts

\* Lock after two wrong codes, or call it an alarm.
MCPolicies ==
    [threshold : {2}, cooldown : {1}, onThreshold : {"lockout", "trigger_alarm"}]

\* From the evening of the last day into the morning of the first.
MCWindows == {[days |-> {Days - 1}, allDay |-> FALSE, start |-> 2, end |-> 1]}
=============================================================================
