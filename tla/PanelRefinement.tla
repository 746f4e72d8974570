-------------------------- MODULE PanelRefinement --------------------------
(***************************************************************************)
(* Panel implements what the panel promises, and uses the alarm events in  *)
(* no way AlarmEvents does not know.                                       *)
(***************************************************************************)
EXTENDS Panel

Contract == INSTANCE PanelContract WITH session <- armedMode, left <- endsIn

(* The kinds a panel can raise. *)
PanelKinds == PersonKinds \cup {"BURGLARY"} \cup {AlarmKindOf[s] : s \in LifeSafety}

EventService == INSTANCE AlarmEvents WITH RaisedKinds <- PanelKinds

(* Seen through mode, armed_mode and the deadline, every run of the panel,  *)
(* with its crashes and restarts, is a run of the panel that never crashes  *)
(* (SC-006).                                                                *)
ImplementsContract == Contract!Spec

(* Every turn of the panel is at most one operation of the alarm event      *)
(* service, so what AlarmEvents shows of a service with arbitrary callers   *)
(* holds of this caller.                                                    *)
ImplementsEventService == EventService!Init /\ [][EventService!Next]_(EventService!vars)
=============================================================================
