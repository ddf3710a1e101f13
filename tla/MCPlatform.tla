----------------------------- MODULE MCPlatform -----------------------------
(* A small instance of Platform for TLC. *)
EXTENDS Platform, TLC

CONSTANTS u1, u2, t1, t2, s1

OwnTab == t1 :> u1 @@ t2 :> u2

\* The first citizen parks, the second books.
OneBooks   == {<<t2, s1>>}
AnyBooking == Spots \X Users
=============================================================================
