------------------------------ MODULE Platform ------------------------------
(***************************************************************************)
(* Parking and reservations over one database.  A check-in asks for the     *)
(* reservations that are in force at its instant, a booking for the status  *)
(* of its spot, and the removal of a spot or of a zone takes the sessions   *)
(* and the reservations with it.  Parking and Booking each leave the other  *)
(* to its environment; here each is the environment of the other.           *)
(***************************************************************************)
EXTENDS Parking

CONSTANTS
    ReservationIds,  \* ids of reservation rows: bounds the number made
    MayBook,         \* pairs <<tab, spot>>: who books what
    Checks,          \* how many reminder checks may overlap
    Lead,            \* minutes before the start at which a reminder is due
    MaxTime,         \* the last minute of the model (a bound)
    MaxReminders,    \* checks stop once a reservation had this many (a bound)
    Prompt           \* TRUE: the check of each minute ends within the minute

ASSUME MayBookType   == MayBook \subseteq Tabs \X Spots
ASSUME BookableReach == \A p \in MayBook : <<p[2], UserOf[p[1]]>> \in Bookable
ASSUME LeadType      == Lead \in Nat /\ MaxTime \in Nat
ASSUME BoundType     == MaxReminders \in Nat /\ Prompt \in BOOLEAN
ASSUME NoneIsNoId    == None \notin ReservationIds

VARIABLES
    now, resv,       \* the clock and the rows of reservations
    sent,            \* the notifications that reservations have caused
    form,            \* the create or cancel each tab waits for
    check, lastRun,  \* the reminder checks
    readAt           \* history: when each check-in has read the reservations

bookVars == <<now, resv, sent, form, check, lastRun>>
pvars    == <<vars, bookVars, readAt>>

\* What create asks of a status: out of service or not (404 where there is no row).
Condition(status) ==
    CASE status = "unborn"   -> "unborn"
      [] status = "deleted"  -> "deleted"
      [] status = "disabled" -> "disabled"
      [] OTHER               -> "usable"

Booking == INSTANCE Booking
    WITH Ticks <- Checks, Removals <- TRUE, tab <- form, notices <- sent,
         spot <- [s \in Spots |-> Condition(row[s])]

\* Mutants: a reservation that begins this minute is not in force yet; a cancelled one still is.
CoversAny(r)  == r.state # "unused" /\ r.from <= now /\ now < r.to
CoversLate(r) == r.state = "confirmed" /\ r.from < now /\ now < r.to

\* startTime <= now < endTime.
Covers(r) == r.state = "confirmed" /\ r.from <= now /\ now < r.to

InForce == {<<resv[i].spot, resv[i].user>> : i \in {j \in ReservationIds : Covers(resv[j])}}

PlatformInit ==
    /\ row \in [Spots -> {"free", "unborn"}]
    /\ resv = [i \in ReservationIds |-> Booking!NoResv]
    /\ Init /\ Booking!Init
    /\ readAt = [t \in Tabs |-> 0]

-----------------------------------------------------------------------------
(* The parking core moves, and nobody reserves meanwhile.                   *)

ParkingTab(t) ==
    /\ UNCHANGED bookVars
    /\ TabNext(t)
    /\ readAt' = [readAt EXCEPT ![t] = IF tab'[t].pc = "claim" THEN now ELSE 0]

ParkingOther ==
    /\ UNCHANGED <<bookVars, readAt>>
    /\ (\E w \in Staff : StaffNext(w)) \/ (\E k \in Ticks : TickNext(k))

(* Reservations and the clock move, and nobody parks meanwhile.             *)

BookingStep ==
    /\ UNCHANGED <<row, session, notices, shown, tab, staff, tick, readAt>>
    /\ \/ \E t \in Tabs : Booking!TabNext(t)
       \/ \E k \in Checks : Booking!CheckNext(k)
       \/ Booking!ClockTick
    /\ booked' = InForce'

(* Both at once: the rows of spots go.                                      *)

\* Mutant: no cascade from spots to reservations.
CascadeNone(S) == UNCHANGED resv

\* A reservation refers to its spot ON DELETE CASCADE.
Cascade(S) ==
    resv' = [i \in ReservationIds |->
               IF resv[i].spot \in S THEN [resv[i] EXCEPT !.state = "deleted"] ELSE resv[i]]

Removal(w) ==
    /\ \/ \E s \in Spots : StaffRemoveSpot(w, s) /\ Cascade({s})
       \/ \E S \in SUBSET Spots : StaffRemoveZone(w, S) /\ Cascade(S)
    /\ UNCHANGED <<now, sent, form, check, lastRun, readAt>>

PlatformNext ==
    \/ \E t \in Tabs : ParkingTab(t)
    \/ ParkingOther
    \/ BookingStep
    \/ \E w \in Staff : Removal(w)

PlatformSpec == PlatformInit /\ [][PlatformNext]_pvars

-----------------------------------------------------------------------------
\* What check-in takes for reserved is what is reserved at that instant, whatever is made,
\* begins, ends, is cancelled or goes with its spot (sessions.service.ts 50-59).
BookedIsTrue == booked = InForce

\* A check-in about to take a spot that is somebody else's at this instant could not know: the
\* reservation has been made, or has begun, since it asked (sessions.service.ts 48-64).
ReservationsRespected ==
    \A t \in Tabs : tab[t].pc = "claim" =>
        \A i \in ReservationIds :
            /\ resv[i].state = "confirmed" /\ resv[i].from <= now /\ now < resv[i].to
            /\ resv[i].spot = tab[t].spot /\ resv[i].user # UserOf[t]
            => resv[i].made >= readAt[t] \/ resv[i].from > readAt[t]

\* Neither a session nor a reservation, in force or to come, is left of a spot that is gone,
\* whatever was being checked in to or booked while it went (schema.prisma 111-155).
NothingLeftBehind ==
    /\ NoOrphanSession
    /\ \A i \in ReservationIds :
          resv[i].state \in {"confirmed", "cancelled"} => Exists(resv[i].spot)

\* Every reservation behaves towards its citizen as Booking says, though spots change status with
\* check-ins, check-outs, ticks and staff, and not at will.
BookingSpec == Booking!Spec

\* Parking sees of the reservations no more than it allows for.
ParkingSpec == Spec
=============================================================================
