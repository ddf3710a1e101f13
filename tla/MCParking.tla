------------------------------ MODULE MCParking ------------------------------
(* Small instances of Parking for TLC. *)
EXTENDS Parking, TLC

CONSTANTS u1, u2, t1, t2, t3, s1, s2

\* One tab for each citizen.
OwnTab    == t1 :> u1 @@ t2 :> u2
\* The first citizen has two tabs open.
SharedTab == t1 :> u1 @@ t2 :> u1 @@ t3 :> u2
\* Only one tab, of one citizen, or two of the same.
TwoOfOne  == t1 :> u1 @@ t2 :> u1

\* The second citizen may get a reservation of the first spot.
OneBooking == {<<s1, u2>>}
NoBooking  == {}

SafeEdits  == {"disabled"}
AllEdits   == {"free", "disabled", KeepStatus}
BlindEdits == {"free", KeepStatus}

\* Session rows are alike to the handlers; so are two bare spots, and two citizens with a tab each.
PairSymmetry ==
    Permutations(SessionIds) \cup Permutations(Spots)
        \cup {u1 :> u2 @@ u2 :> u1 @@ t1 :> t2 @@ t2 :> t1}
=============================================================================
