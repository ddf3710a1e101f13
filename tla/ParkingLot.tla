----------------------------- MODULE ParkingLot -----------------------------
(***************************************************************************)
(* What check-in and check-out promise a citizen, without handlers, rows   *)
(* or transactions: a spot has at most one holder, a citizen holds at most *)
(* one spot, and only parking, leaving or the removal of the spot changes  *)
(* who holds what.                                                         *)
(***************************************************************************)
CONSTANTS Users, Spots

VARIABLES
    parked,   \* pairs <<spot, user>>: who holds which spot
    gone      \* spots removed for good

lotVars == <<parked, gone>>

Init == parked = {} /\ gone = {}

\* A citizen takes a spot that exists and is nobody's.
Park(u, s) ==
    /\ s \notin gone
    /\ \A v \in Users : <<s, v>> \notin parked
    /\ \A r \in Spots : <<r, u>> \notin parked
    /\ parked' = parked \cup {<<s, u>>}
    /\ UNCHANGED gone

\* A citizen leaves the spot they hold.
Leave(u, s) ==
    /\ <<s, u>> \in parked
    /\ parked' = parked \ {<<s, u>>}
    /\ UNCHANGED gone

\* Spots are removed, whoever holds them.
Remove(S) ==
    /\ gone' = gone \cup S
    /\ parked' = {p \in parked : p[1] \notin S}

Next == \/ \E u \in Users, s \in Spots : Park(u, s) \/ Leave(u, s)
        \/ \E S \in SUBSET Spots : Remove(S)

Spec == Init /\ [][Next]_lotVars

LotTypeOK == parked \subseteq Spots \X Users /\ gone \subseteq Spots

\* No spot has two holders, no citizen two spots, and nobody holds a spot that
\* is gone: what the schema's sessions and spots are meant to say together.
Exclusive ==
    /\ \A p, q \in parked : p[1] = q[1] \/ p[2] = q[2] => p = q
    /\ \A p \in parked : p[1] \notin gone
=============================================================================
