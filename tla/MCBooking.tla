------------------------------ MODULE MCBooking ------------------------------
(* Small instances of Booking for TLC. *)
EXTENDS Booking, TLC

CONSTANTS u1, u2, t1, t2, s1, s2

\* A tab of their own for each of two citizens, or two tabs of one citizen.
OwnTab == t1 :> u1 @@ t2 :> u2
SameOne == t1 :> u1 @@ t2 :> u1

\* Each citizen books a spot of their own; or both book the first one.
OwnSpot  == {<<t1, s1>>, <<t2, s2>>}
SameSpot == {<<t1, s1>>, <<t2, s1>>}

RowSymmetry == Permutations(ReservationIds)

\* Over one spot two tabs of one citizen are alike as well, and so are the checks.
PairSymmetry ==
    Permutations(ReservationIds) \cup Permutations(Ticks) \cup Permutations(Tabs)
=============================================================================
