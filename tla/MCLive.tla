------------------------------- MODULE MCLive -------------------------------
(***************************************************************************)
(* Roles, a map and a bell in one instance, as in MCServices: each behaviour *)
(* is one of one of them.  Apart from it for the sake of a liveness         *)
(* property, which rules symmetry out.                                     *)
(***************************************************************************)
EXTENDS Roles, LiveMap, Inbox

VARIABLE part  \* the component that moves

vars == <<part, rvars, mvars, ivars>>

Parts == {"roles", "map", "inbox"}

Init ==
    /\ part \in Parts
    /\ RolesInit /\ MapInit /\ InboxInit
    /\ part # "map" => status = [p \in MapSpots |-> CHOOSE c \in Colours : TRUE]

Next ==
    \/ part = "roles" /\ RolesNext /\ UNCHANGED <<part, mvars, ivars>>
    \/ part = "map"   /\ MapNext   /\ UNCHANGED <<part, rvars, ivars>>
    \/ part = "inbox" /\ InboxNext /\ UNCHANGED <<part, rvars, mvars>>

Spec == Init /\ [][Next]_vars /\ RolesFairness
=============================================================================
