------------------------------ MODULE MCSiren ------------------------------
(***************************************************************************)
(* Siren with a base siren and an outdoor one that runs for half as long.  *)
(***************************************************************************)
EXTENDS Siren

CONSTANTS base, outdoor

MCDuration == [s \in Sirens |-> IF s = outdoor THEN 1 ELSE SirenDuration]
=============================================================================
