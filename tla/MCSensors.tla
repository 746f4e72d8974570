----------------------------- MODULE MCSensors -----------------------------
(***************************************************************************)
(* Sensors with one node: the mapper and the routes treat each node by its *)
(* own id and row.                                                         *)
(***************************************************************************)
EXTENDS Sensors

CONSTANT co

COCategory == [n \in Nodes |-> "life-safety"]
COKind == [n \in Nodes |-> "CO"]

Nothing == [category |-> Keep, placement |-> Keep, armedHome |-> Keep,
            armedAway |-> Keep, alertsOnly |-> Keep, alarmKind |-> Keep]

\* One field, a category with what belongs to it, a placement with a flag.
FewRequests ==
    {Nothing}
    \cup {[Nothing EXCEPT !.category = c, !.placement = p, !.alarmKind = k] :
              c \in Categories \cup {Keep}, p \in Placements \cup {Keep},
              k \in AlarmKinds \cup {Keep}}
    \cup {[Nothing EXCEPT !.placement = p, !.armedHome = h] :
              p \in Placements \cup {Keep}, h \in BOOLEAN}
    \cup {[Nothing EXCEPT !.alertsOnly = a] : a \in BOOLEAN}
=============================================================================
