--------------------------- MODULE PlatformProofs ---------------------------
(***************************************************************************)
(* Proofs about parking and reservations over one database: each is an      *)
(* environment that the other allows for, and what the two promise together. *)
(***************************************************************************)
EXTENDS Platform, ParkingProofs

-----------------------------------------------------------------------------
(* What the parking core does to the rows of spots.                         *)

RowKept == UNCHANGED row
RowSet  == \E s \in Spots, c \in Statuses :
              /\ Exists(s) \/ row[s] = "unborn"
              /\ row' = [row EXCEPT ![s] = c]

\* A handler that is no removal writes one status to one row that is there, or makes one.
LEMMA RowSteps ==
    ASSUME BaseInv,
           \/ \E t \in Tabs : TabNext(t)
           \/ \E w \in Staff : StaffNext(w)
           \/ \E k \in Ticks : TickNext(k)
    PROVE  UNCHANGED booked /\ (RowKept \/ RowSet)
<1>1. ASSUME NEW t \in Tabs, CheckInClaim(t) PROVE UNCHANGED booked /\ RowSet
  <2>1. tab[t].spot \in Spots
    BY <1>1 DEF CheckInClaim, BaseInv, Shapes, TabShape
  <2>. QED  BY <1>1, <2>1 DEF CheckInClaim, RowSet, Exists, Statuses
<1>2. ASSUME NEW t \in Tabs, CheckOutRelease(t) PROVE UNCHANGED booked /\ RowSet
  <2>1. tab[t].spot \in Spots /\ Exists(tab[t].spot)
    BY <1>2 DEF CheckOutRelease, BaseInv, Shapes, TabShape, TypeOK, SessionRows,
                NoOrphanSession
  <2>. QED  BY <1>2, <2>1 DEF CheckOutRelease, RowSet, Statuses
<1>3. ASSUME NEW w \in Staff, StaffUpdateWrite(w) PROVE UNCHANGED booked /\ (RowKept \/ RowSet)
  BY <1>3 DEF StaffUpdateWrite, BaseInv, Shapes, StaffShape, RowKept, RowSet
<1>4. ASSUME NEW w \in Staff, NEW s \in Spots, NEW e \in Edits, StaffCreateSpot(w, s, e)
      PROVE  UNCHANGED booked /\ RowSet
  <2>1. (IF e = KeepStatus THEN "free" ELSE e) \in Statuses
    BY EditsType DEF Statuses
  <2>. QED  BY <1>4, <2>1 DEF StaffCreateSpot, RowSet
<1>5. ASSUME NEW k \in Ticks, NEW s \in Spots, NEW status \in {"free", "occupied"},
             TickUpdate(k, s, status)
      PROVE  UNCHANGED booked /\ (RowKept \/ RowSet)
  BY <1>5 DEF TickUpdate, RowKept, RowSet, Statuses
<1>6. CASE \/ \E t \in Tabs : \/ \E s \in Spots : CheckInRequest(t, s)
                              \/ CheckInReadSession(t) \/ CheckInReadBooking(t)
                              \/ CheckInRefused(t) \/ CheckOutRequest(t) \/ CheckOutLost(t)
                              \/ Reload(t) \/ Publish(t) \/ Notify(t) \/ FailTab(t)
           \/ \E w \in Staff : \/ \E s \in Spots, e \in Edits : StaffUpdateRequest(w, s, e)
                               \/ StaffRefused(w) \/ StaffAudit(w) \/ FailStaff(w)
           \/ \E k \in Ticks : TickStart(k) \/ TickRecord(k) \/ TickPublish(k) \/ FailTick(k)
  BY <1>6 DEF CheckInRequest, CheckInReadSession, CheckInReadBooking, CheckInRefused,
       CheckOutRequest, CheckOutLost, Reload, Publish, Notify, FailTab, StaffUpdateRequest,
       StaffRefused, StaffAudit, FailStaff, TickStart, TickRecord, TickPublish, FailTick,
       RowKept
<1>. QED
  BY <1>1, <1>2, <1>3, <1>4, <1>5, <1>6
  DEF TabNext, StaffNext, TickNext, TabStep, StaffStep, TickStep

\* Bookings see of it that one spot comes to be, or goes out of service or back, or nothing.
LEMMA RowStepIsSpotStep ==
    ASSUME TypeOK, RowKept \/ RowSet, UNCHANGED bookVars
    PROVE  [Booking!Next]_(Booking!vars)
<1>1. CASE RowKept
  BY <1>1 DEF RowKept, bookVars, Booking!vars
<1>2. CASE RowSet
  <2>1. PICK s \in Spots, c \in Statuses :
          /\ Exists(s) \/ row[s] = "unborn"
          /\ row' = [row EXCEPT ![s] = c]
    BY <1>2 DEF RowSet
  <2> DEFINE seen == [x \in Spots |-> Condition(row[x])]
  <2>2. /\ Condition(c) \in {"usable", "disabled"}
        /\ Exists(s) => Condition(row[s]) \in {"usable", "disabled"}
        /\ row[s] = "unborn" => Condition(row[s]) = "unborn"
    BY <2>1 DEF Condition, Statuses, Exists
  <2>3. seen' = [seen EXCEPT ![s] = Condition(c)]
    BY <2>1 DEF TypeOK
  <2>4. CASE row[s] = "unborn"
    <3>1. Booking!SpotCreate(s, Condition(c))
      BY <2>2, <2>3, <2>4 DEF Booking!SpotCreate, bookVars
    <3>. QED  BY <2>2, <3>1 DEF Booking!Next, Booking!SpotNext
  <2>5. CASE Exists(s) /\ Condition(c) = Condition(row[s])
    <3>1. seen' = seen
      BY <2>3, <2>5
    <3>. QED  BY <3>1 DEF bookVars, Booking!vars
  <2>6. CASE Exists(s) /\ Condition(c) # Condition(row[s])
    <3>1. seen[s] = Condition(row[s])
      OBVIOUS
    <3>2. Condition(c) = IF seen[s] = "usable" THEN "disabled" ELSE "usable"
      BY <2>2, <2>6, <3>1
    <3>3. seen' = [seen EXCEPT ![s] = IF @ = "usable" THEN "disabled" ELSE "usable"]
      BY <2>3, <3>2
    <3>4. Booking!SpotToggle(s)
      BY <2>2, <2>6, <3>1, <3>3 DEF Booking!SpotToggle, bookVars
    <3>. QED  BY <3>4 DEF Booking!Next, Booking!SpotNext
  <2>. QED  BY <2>1, <2>4, <2>5, <2>6
<1>. QED  BY <1>1, <1>2
-----------------------------------------------------------------------------
(* The inductive invariant. *)

\* The rows and the requests of reservations, and the history, are of their types.
BookTyped ==
    /\ now \in Booking!Times
    /\ resv \in [ReservationIds -> Booking!ResvRows]
    /\ form \in [Tabs -> Booking!TabStates]
    /\ readAt \in [Tabs -> Booking!Times]

\* A row that was made is of a spot and a citizen who may book it.
ResvMade ==
    \A i \in ReservationIds :
        IF resv[i].state = "unused" THEN resv[i].spot = None
                                    ELSE <<resv[i].spot, resv[i].user>> \in Bookable

\* What a create has read of its spot, and what a cancel has read of its reservation.
FormShape ==
    \A t \in Tabs :
        /\ form[t].pc \in {"spot", "conflict", "insert"} => <<t, form[t].spot>> \in MayBook
        /\ form[t].pc \in {"conflict", "insert"} => row[form[t].spot] # "unborn"
        /\ form[t].pc = "cancel" => /\ form[t].id \in ReservationIds
                                    /\ resv[form[t].id].state # "unused"

\* The half of NothingLeftBehind that is about reservations.
ResvOfSpot ==
    \A i \in ReservationIds :
        resv[i].state \in {"confirmed", "cancelled"} => Exists(resv[i].spot)

\* A reservation of somebody else's that a check-in has not found was made since, had not begun
\* or was over.
ReadHeld ==
    \A t \in Tabs : tab[t].pc = "claim" =>
        \A i \in ReservationIds :
            resv[i].state = "confirmed" /\ resv[i].spot = tab[t].spot /\ resv[i].user # UserOf[t]
            => \/ resv[i].made >= readAt[t]
               \/ resv[i].from > readAt[t]
               \/ resv[i].to <= readAt[t]

NoFuture == \A t \in Tabs : readAt[t] <= now

BookShape   == BookTyped /\ ResvMade /\ FormShape /\ ResvOfSpot
PlatformInv == BaseInv /\ BookShape /\ BookedIsTrue /\ NoFuture /\ ReadHeld

-----------------------------------------------------------------------------
(* What a step of bookings does to a reservation. *)

\* It stays, has its flag set, or is cancelled; ...
Kept(i) ==
    /\ resv'[i].spot = resv[i].spot /\ resv'[i].user = resv[i].user
    /\ resv'[i].from = resv[i].from /\ resv'[i].to = resv[i].to
    /\ resv'[i].made = resv[i].made
    /\ \/ resv'[i].state = resv[i].state
       \/ resv'[i].state = "cancelled" /\ resv[i].state \notin {"unused", "deleted"}

\* ... or is made now, of a spot that is there.
Made(i) ==
    \E t \in Tabs :
        /\ form[t].pc = "insert" /\ row[form[t].spot] # "deleted"
        /\ resv[i].state = "unused" /\ resv'[i].state = "confirmed"
        /\ resv'[i].spot = form[t].spot /\ resv'[i].user = UserOf[t]
        /\ resv'[i].made = now

LEMMA IdleFormTyped == Booking!IdleTab \in Booking!TabStates
  BY LeadType DEF Booking!IdleTab, Booking!TabStates, Booking!Times

LEMMA FormMoves ==
    ASSUME NEW r \in Booking!TabStates,
           NEW pc \in {"idle", "spot", "conflict", "insert", "cancel", "code", "notify"}
    PROVE  /\ [r EXCEPT !.pc = pc] \in Booking!TabStates
           /\ \A c \in Booking!Kinds : [r EXCEPT !.pc = pc, !.kind = c] \in Booking!TabStates
  BY DEF Booking!TabStates

\* A step that moves one request and leaves the reservations alone.
LEMMA FormFrame ==
    ASSUME BookTyped, UNCHANGED <<now, resv, readAt>>,
           NEW t \in Tabs, NEW f \in Booking!TabStates, form' = [form EXCEPT ![t] = f]
    PROVE  BookTyped' /\ \A i \in ReservationIds : Kept(i) \/ Made(i)
  BY DEF BookTyped, Kept

LEMMA FormSteps ==
    ASSUME TypeOK, BookTyped, FormShape, NEW t \in Tabs, Booking!TabNext(t),
           UNCHANGED <<row, readAt>>
    PROVE  BookTyped' /\ FormShape' /\ \A i \in ReservationIds : Kept(i) \/ Made(i)
<1>. DEFINE Goal == BookTyped' /\ FormShape' /\ \A i \in ReservationIds : Kept(i) \/ Made(i)
<1>0. form[t] \in Booking!TabStates /\ UserOf[t] \in Users
  BY UserOfType DEF BookTyped
<1>1. ASSUME NEW s \in Spots, NEW from \in Booking!Times, NEW to \in Booking!Times,
             Booking!CreateRequest(t, s, from, to)
      PROVE  Goal
  <2> DEFINE f == [Booking!IdleTab EXCEPT !.pc = "spot", !.spot = s, !.from = from, !.to = to]
  <2>1. f \in Booking!TabStates /\ f.pc = "spot" /\ f.spot = s
    BY DEF Booking!IdleTab, Booking!TabStates
  <2>2. form' = [form EXCEPT ![t] = f] /\ UNCHANGED <<now, resv>> /\ <<t, s>> \in MayBook
    BY <1>1 DEF Booking!CreateRequest
  <2>. HIDE DEF f
  <2>3. FormShape'
    BY <2>1, <2>2 DEF BookTyped, FormShape
  <2>. QED  BY <2>1, <2>2, <2>3, FormFrame
<1>2. ASSUME Booking!CreateReadSpot(t) \/ Booking!CreateReadConflict(t) PROVE Goal
  <2>1. /\ form[t].pc \in {"spot", "conflict"} /\ form[t].spot \in Spots
        /\ <<t, form[t].spot>> \in MayBook
    BY <1>2, MayBookType DEF Booking!CreateReadSpot, Booking!CreateReadConflict, FormShape
  <2>2. PICK f \in {[form[t] EXCEPT !.pc = "conflict"], [form[t] EXCEPT !.pc = "insert"],
                    Booking!IdleTab} :
          /\ form' = [form EXCEPT ![t] = f] /\ UNCHANGED <<now, resv>>
          /\ f # Booking!IdleTab => row[form[t].spot] # "unborn"
    BY <1>2, <2>1 DEF Booking!CreateReadSpot, Booking!CreateReadConflict, FormShape, Condition
  <2>3. f \in Booking!TabStates
    BY <1>0, IdleFormTyped, FormMoves
  <2>4. /\ f # Booking!IdleTab => f.pc \in {"conflict", "insert"} /\ f.spot = form[t].spot
        /\ Booking!IdleTab.pc = "idle"
    BY <1>0 DEF Booking!TabStates, Booking!IdleTab
  <2>5. FormShape'
    BY <2>1, <2>2, <2>3, <2>4 DEF BookTyped, FormShape
  <2>. QED  BY <2>2, <2>3, <2>5, FormFrame
<1>3. ASSUME Booking!CreateInsert(t) PROVE Goal
  <2> DEFINE r == [state |-> "confirmed", user |-> UserOf[t], spot |-> form[t].spot,
                   from |-> form[t].from, to |-> form[t].to, reminded |-> FALSE,
                   made |-> now]
  <2>1. PICK i \in Booking!Unused :
          /\ resv' = [resv EXCEPT ![i] = r]
          /\ form' = [form EXCEPT ![t] = [Booking!IdleTab EXCEPT !.pc = "notify", !.id = i,
                                                                 !.kind = "confirmed"]]
    BY <1>3 DEF Booking!CreateInsert
  <2>2. /\ i \in ReservationIds /\ resv[i].state = "unused"
        /\ form[t].pc = "insert" /\ form[t].spot \in Spots /\ UNCHANGED now
        /\ row[form[t].spot] # "deleted"
    BY <1>3, <2>1, MayBookType DEF Booking!CreateInsert, Booking!Unused, FormShape, Condition
  <2>3. r \in Booking!ResvRows
    BY <1>0, <2>2 DEF Booking!ResvRows, Booking!TabStates, BookTyped
  <2>4. /\ [Booking!IdleTab EXCEPT !.pc = "notify", !.id = i, !.kind = "confirmed"]
              \in Booking!TabStates
        /\ [Booking!IdleTab EXCEPT !.pc = "notify", !.id = i, !.kind = "confirmed"].pc
              = "notify"
    BY <2>2, IdleFormTyped DEF Booking!IdleTab, Booking!TabStates, Booking!Kinds
  <2>5. BookTyped'
    BY <2>1, <2>2, <2>3, <2>4 DEF BookTyped
  <2>6. /\ \A j \in ReservationIds \ {i} : resv'[j] = resv[j]
        /\ resv'[i].state = "confirmed" /\ resv'[i].spot = form[t].spot
        /\ resv'[i].user = UserOf[t] /\ resv'[i].made = now
    BY <2>1, <2>2 DEF BookTyped
  <2>7. FormShape'
    BY <2>1, <2>4, <2>6 DEF BookTyped, FormShape
  <2>8. Made(i)
    BY <2>2, <2>6 DEF Made
  <2>9. \A j \in ReservationIds \ {i} : Kept(j)
    BY <2>6 DEF Kept
  <2>. QED  BY <2>5, <2>7, <2>8, <2>9
<1>4. ASSUME NEW i \in ReservationIds, Booking!CancelRequest(t, i) PROVE Goal
  <2> DEFINE f == [Booking!IdleTab EXCEPT !.pc = "cancel", !.id = i]
  <2>1. f \in Booking!TabStates /\ f.pc = "cancel" /\ f.id = i
    BY IdleFormTyped DEF Booking!IdleTab, Booking!TabStates
  <2>2. /\ form' = [form EXCEPT ![t] = f] /\ UNCHANGED <<now, resv>>
        /\ resv[i].state = "confirmed"
    BY <1>4 DEF Booking!CancelRequest
  <2>. HIDE DEF f
  <2>3. FormShape'
    BY <2>1, <2>2 DEF BookTyped, FormShape
  <2>. QED  BY <2>1, <2>2, <2>3, FormFrame
<1>5. ASSUME Booking!CancelWrite(t) PROVE Goal
  <2>1. /\ resv' = [resv EXCEPT ![form[t].id] = [@ EXCEPT !.state = "cancelled"]]
        /\ form' = [form EXCEPT ![t] = [@ EXCEPT !.pc = "code"]]
        /\ UNCHANGED now
        /\ form[t].id \in ReservationIds
        /\ resv[form[t].id].state \notin {"unused", "deleted"}
    BY <1>5 DEF Booking!CancelWrite, FormShape
  <2>2. [form[t] EXCEPT !.pc = "code"] \in Booking!TabStates
    BY <1>0, FormMoves
  <2>3. [form[t] EXCEPT !.pc = "code"].pc = "code"
    BY <1>0 DEF Booking!TabStates
  <2>4. \A j \in ReservationIds : [resv[j] EXCEPT !.state = "cancelled"] \in Booking!ResvRows
    BY DEF BookTyped, Booking!ResvRows
  <2>5. BookTyped'
    BY <2>1, <2>2, <2>4 DEF BookTyped
  <2>6. \A j \in ReservationIds : Kept(j)
    BY <2>1 DEF BookTyped, Booking!ResvRows, Kept
  <2>7. FormShape'
    BY <2>1, <2>3, <2>6 DEF BookTyped, Kept, FormShape
  <2>. QED  BY <2>5, <2>6, <2>7
<1>6. ASSUME \/ Booking!CreateLost(t) \/ Booking!CancelLost(t) \/ Booking!CancelReadSpot(t)
             \/ Booking!Notify(t) \/ Booking!FailTab(t)
      PROVE  Goal
  <2>1. PICK f \in {[form[t] EXCEPT !.pc = "notify", !.kind = "cancelled"], Booking!IdleTab} :
          form' = [form EXCEPT ![t] = f] /\ UNCHANGED <<now, resv>>
    BY <1>6 DEF Booking!CreateLost, Booking!CancelLost, Booking!CancelReadSpot,
                Booking!Notify, Booking!FailTab
  <2>2. f \in Booking!TabStates
    BY <1>0, IdleFormTyped, FormMoves DEF Booking!Kinds
  <2>3. f.pc \in {"idle", "notify"}
    <3>1. [form[t] EXCEPT !.pc = "notify", !.kind = "cancelled"].pc = "notify"
      BY <1>0 DEF Booking!TabStates
    <3>2. Booking!IdleTab.pc = "idle"
      BY DEF Booking!IdleTab
    <3>. QED  BY <2>1, <3>1, <3>2
  <2>4. FormShape'
    BY <2>1, <2>3 DEF BookTyped, FormShape
  <2>. QED  BY <2>1, <2>2, <2>4, FormFrame
<1>. QED  BY <1>1, <1>2, <1>3, <1>4, <1>5, <1>6 DEF Booking!TabNext

\* A step of bookings as a whole.
LEMMA BookSteps ==
    ASSUME TypeOK, BookTyped, FormShape, BookingStep
    PROVE  /\ BookTyped' /\ FormShape' /\ now' >= now
           /\ \A i \in ReservationIds : Kept(i) \/ Made(i)
<1>0. now \in Nat
  BY LeadType DEF BookTyped, Booking!Times
<1>1. ASSUME NEW t \in Tabs, Booking!TabNext(t), UNCHANGED <<row, readAt>>
      PROVE  now' = now
  BY <1>1 DEF Booking!TabNext, Booking!CreateRequest, Booking!CreateReadSpot,
     Booking!CreateReadConflict, Booking!CreateInsert, Booking!CreateLost,
     Booking!CancelRequest, Booking!CancelWrite, Booking!CancelLost, Booking!CancelReadSpot,
     Booking!Notify, Booking!FailTab
<1>2. ASSUME NEW k \in Checks, Booking!CheckNext(k), UNCHANGED <<row, readAt>>
      PROVE  /\ BookTyped' /\ FormShape' /\ now' = now
             /\ \A i \in ReservationIds : Kept(i)
  <2>1. /\ UNCHANGED <<now, form>>
        /\ \/ resv' = [resv EXCEPT ![check[k].id] = [@ EXCEPT !.reminded = TRUE]]
           \/ resv' = resv
    BY <1>2 DEF Booking!CheckNext, Booking!CheckQuery, Booking!CheckSend, Booking!CheckMark,
                Booking!FailCheck
  <2>2. \A j \in ReservationIds : [resv[j] EXCEPT !.reminded = TRUE] \in Booking!ResvRows
    BY DEF BookTyped, Booking!ResvRows
  <2>3. BookTyped'
    BY <1>2, <2>1, <2>2 DEF BookTyped
  <2>4. \A j \in ReservationIds : Kept(j) /\ resv'[j].state = resv[j].state
    BY <2>1 DEF BookTyped, Booking!ResvRows, Kept
  <2>5. FormShape'
    BY <1>2, <2>1, <2>4 DEF BookTyped, Booking!ResvRows, FormShape
  <2>. QED  BY <2>1, <2>3, <2>4, <2>5
<1>3. ASSUME Booking!ClockTick, UNCHANGED <<row, readAt>>
      PROVE  /\ BookTyped' /\ FormShape' /\ now' >= now
             /\ \A i \in ReservationIds : Kept(i)
  <2>1. now' \in Booking!Times /\ now' >= now /\ UNCHANGED <<resv, form>>
    BY <1>0, <1>3, LeadType DEF Booking!ClockTick, BookTyped, Booking!Times
  <2>. QED  BY <1>3, <2>1 DEF BookTyped, FormShape, Kept
<1>. QED  BY <1>0, <1>1, <1>2, <1>3, FormSteps DEF BookingStep

-----------------------------------------------------------------------------
(* The invariant is inductive. *)

LEMMA PlatformBegins == PlatformInit => PlatformInv
<1>. SUFFICES ASSUME PlatformInit PROVE PlatformInv
  OBVIOUS
<1>1. BaseInv
  BY BaseInit DEF PlatformInit
<1>2. Booking!NoResv \in Booking!ResvRows /\ 0 \in Booking!Times /\ 0 <= 0
  BY LeadType DEF Booking!NoResv, Booking!ResvRows, Booking!Times
<1>3. BookTyped
  BY <1>2, IdleFormTyped DEF PlatformInit, Booking!Init, BookTyped
<1>4. ResvMade /\ FormShape /\ ResvOfSpot
  BY DEF PlatformInit, Booking!Init, Booking!NoResv, Booking!IdleTab, ResvMade, FormShape,
         ResvOfSpot
<1>5. BookedIsTrue
  BY DEF PlatformInit, Init, Booking!NoResv, BookedIsTrue, InForce, Covers
<1>6. NoFuture /\ ReadHeld
  BY <1>2 DEF PlatformInit, Init, Booking!Init, IdleTab, NoFuture, ReadHeld
<1>. QED  BY <1>1, <1>3, <1>4, <1>5, <1>6 DEF PlatformInv, BookShape

\* A spot that is there stays, and one that came to be never turns unborn.
LEMMA RowsStay ==
    ASSUME TypeOK, RowKept \/ RowSet, NEW s \in Spots
    PROVE  /\ Exists(s) => Exists(s)'
           /\ row[s] # "unborn" => row'[s] # "unborn"
  BY DEF TypeOK, RowKept, RowSet, Exists, Statuses

\* What parking does to one spot or none leaves the bookings their shape.
LEMMA BookFrame ==
    ASSUME TypeOK, BookShape, RowKept \/ RowSet, UNCHANGED bookVars, BookTyped'
    PROVE  BookShape'
<1>1. ResvMade'
  BY DEF BookShape, ResvMade, bookVars
<1>2. FormShape'
  BY RowsStay, MayBookType DEF BookShape, FormShape, bookVars
<1>3. ResvOfSpot'
  <2>1. \A i \in ReservationIds : resv[i].state # "unused" => resv[i].spot \in Spots
    BY BookableType DEF BookShape, ResvMade
  <2>. QED  BY <2>1, RowsStay DEF BookShape, ResvOfSpot, bookVars
<1>. QED  BY <1>1, <1>2, <1>3 DEF BookShape

LEMMA ParkingTabKeeps ==
    ASSUME PlatformInv, NEW t \in Tabs, ParkingTab(t) PROVE PlatformInv'
<1>1. BaseInv' /\ UNCHANGED booked /\ (RowKept \/ RowSet) /\ UNCHANGED bookVars
  BY BaseStep, RowSteps DEF PlatformInv, ParkingTab, Next
<1>2. now \in Booking!Times /\ now \in Nat /\ 0 \in Booking!Times
  BY LeadType DEF PlatformInv, BookShape, BookTyped, Booking!Times
<1>3. readAt' = [readAt EXCEPT ![t] = IF tab'[t].pc = "claim" THEN now ELSE 0]
  BY DEF ParkingTab
<1>4. BookTyped' /\ NoFuture'
  BY <1>1, <1>2, <1>3 DEF PlatformInv, BookShape, BookTyped, NoFuture, bookVars
<1>5. BookShape'
  BY <1>1, <1>4, BookFrame DEF PlatformInv, BaseInv
<1>6. BookedIsTrue'
  BY <1>1 DEF PlatformInv, BookedIsTrue, InForce, Covers, bookVars
<1>7. \A u \in Tabs \ {t} : tab'[u] = tab[u] /\ readAt'[u] = readAt[u]
  <2>1. \E f : tab' = [tab EXCEPT ![t] = f]
    BY DEF ParkingTab, TabNext, TabStep, CheckInRequest, CheckInReadSession,
       CheckInReadBooking, CheckInRefused, CheckInClaim, CheckOutRequest, CheckOutRelease,
       CheckOutLost, Reload, Publish, Notify, FailTab
  <2>. QED  BY <1>3, <2>1 DEF PlatformInv, BaseInv, TypeOK, BookShape, BookTyped
<1>8. ASSUME tab'[t].pc = "claim",
             NEW i \in ReservationIds, resv[i].state = "confirmed",
             resv[i].spot = tab'[t].spot, resv[i].user # UserOf[t]
      PROVE  resv[i].from > now \/ resv[i].to <= now
  <2>1. CheckInReadBooking(t)
    <3>1. tab[t] \in TabStates /\ tab \in [Tabs -> TabStates] /\ IdleTab.pc = "idle"
      BY DEF PlatformInv, BaseInv, TypeOK, IdleTab
    <3>2. ~\E s \in Spots : CheckInRequest(t, s)
      BY <1>8, <3>1 DEF CheckInRequest, IdleTab
    <3>3. ~CheckInReadSession(t)
      BY <1>8, <3>1 DEF CheckInReadSession, TabStates
    <3>4. ~CheckOutRequest(t)
      BY <1>8, <3>1 DEF CheckOutRequest, IdleTab
    <3>5. ~CheckInRefused(t) /\ ~CheckOutLost(t) /\ ~Notify(t) /\ ~FailTab(t)
      BY <1>8, <3>1 DEF CheckInRefused, CheckOutLost, Notify, FailTab
    <3>6. ~CheckInClaim(t) /\ ~CheckOutRelease(t)
      BY <1>8, <3>1 DEF CheckInClaim, CheckOutRelease, TabStates
    <3>7. ~Reload(t) /\ ~Publish(t)
      BY <1>8, <3>1 DEF Reload, Publish, TabStates
    <3>. QED
      BY <3>2, <3>3, <3>4, <3>5, <3>6, <3>7 DEF ParkingTab, TabNext, TabStep
  <2>2. /\ tab'[t].spot = tab[t].spot
        /\ \A u \in Users \ {UserOf[t]} : <<tab[t].spot, u>> \notin booked
    BY <1>8, <2>1 DEF CheckInReadBooking, IdleTab, PlatformInv, BaseInv, TypeOK, TabStates
  <2>3. resv[i].user \in Users
    BY <1>8, BookableType DEF PlatformInv, BookShape, ResvMade
  <2>4. ~Covers(resv[i])
    BY <1>8, <2>2, <2>3 DEF PlatformInv, BookedIsTrue, InForce
  <2>. QED  BY <1>2, <1>8, <2>4
    DEF Covers, PlatformInv, BookShape, BookTyped, Booking!ResvRows, Booking!Times
<1>9. ReadHeld'
  <2>1. readAt'[t] = IF tab'[t].pc = "claim" THEN now ELSE 0
    BY <1>3 DEF PlatformInv, BookShape, BookTyped
  <2>2. resv' = resv
    BY <1>1 DEF bookVars
  <2>. QED  BY <1>7, <1>8, <2>1, <2>2 DEF PlatformInv, ReadHeld
<1>. QED  BY <1>1, <1>4, <1>5, <1>6, <1>9 DEF PlatformInv

LEMMA ParkingOtherKeeps == ASSUME PlatformInv, ParkingOther PROVE PlatformInv'
<1>1. BaseInv' /\ UNCHANGED <<booked, bookVars, readAt>> /\ (RowKept \/ RowSet)
  BY BaseStep, RowSteps DEF PlatformInv, ParkingOther, Next
<1>2. UNCHANGED tab
  BY DEF ParkingOther, StaffNext, StaffStep, TickNext, TickStep, StaffUpdateRequest,
     StaffUpdateWrite, StaffRefused, StaffCreateSpot, StaffAudit, FailStaff, TickStart,
     TickUpdate, TickRecord, TickPublish, FailTick
<1>3. BookShape'
  BY <1>1, BookFrame DEF PlatformInv, BaseInv, BookShape, BookTyped, bookVars
<1>4. BookedIsTrue' /\ NoFuture' /\ ReadHeld'
  BY <1>1, <1>2 DEF PlatformInv, BookedIsTrue, InForce, Covers, NoFuture, ReadHeld, bookVars
<1>. QED  BY <1>1, <1>3, <1>4 DEF PlatformInv

\* What bookings do is a change of what is in force that parking allows for.
LEMMA BookingStepKeeps ==
    ASSUME PlatformInv, BookingStep
    PROVE  PlatformInv' /\ InForce' \in SUBSET Bookable /\ BookingChange(InForce')
<1>1. /\ BookTyped' /\ FormShape' /\ now' >= now
      /\ \A i \in ReservationIds : Kept(i) \/ Made(i)
  BY BookSteps DEF PlatformInv, BaseInv, BookShape
<1>2. UNCHANGED <<row, session, notices, shown, tab, staff, tick, readAt>> /\ booked' = InForce'
  BY DEF BookingStep
<1>3. BookTyped /\ ResvMade /\ FormShape /\ ResvOfSpot
  BY DEF PlatformInv, BookShape
<1>4. \A t \in Tabs : form[t].pc = "insert" =>
        /\ form[t].spot \in Spots /\ row[form[t].spot] # "unborn"
        /\ <<form[t].spot, UserOf[t]>> \in Bookable
  BY <1>3, MayBookType, BookableReach DEF FormShape
<1>5. ResvMade'
  BY <1>1, <1>3, <1>4 DEF ResvMade, Kept, Made
<1>6. ResvOfSpot'
  <2>1. ASSUME NEW i \in ReservationIds, Kept(i), resv'[i].state \in {"confirmed", "cancelled"}
        PROVE  Exists(resv'[i].spot)
    BY <1>3, <2>1 DEF ResvOfSpot, Kept, BookTyped, Booking!ResvRows
  <2>2. ASSUME NEW i \in ReservationIds, Made(i) PROVE Exists(resv'[i].spot)
    BY <1>4, <2>2 DEF Made, Exists, PlatformInv, BaseInv, TypeOK, RowStates
  <2>. QED  BY <1>1, <1>2, <2>1, <2>2 DEF ResvOfSpot, Exists
<1>7. InForce' \in SUBSET Bookable /\ \A b \in InForce' : Exists(b[1])
  <2>1. ASSUME NEW i \in ReservationIds, resv'[i].state = "confirmed"
        PROVE  /\ <<resv'[i].spot, resv'[i].user>> \in Bookable
               /\ Exists(resv'[i].spot)
    BY <1>2, <1>5, <1>6, <2>1 DEF ResvMade, ResvOfSpot, Exists
  <2>. QED  BY <2>1 DEF InForce, Covers
<1>8. BookingChange(InForce')
  BY <1>2, <1>7 DEF BookingChange
<1>9. BaseInv'
  BY <1>7, <1>8, BaseStep DEF Next, PlatformInv
<1>10. NoFuture'
  <2>1. /\ now \in Nat /\ now' \in Nat
        /\ \A t \in Tabs : readAt[t] \in Nat /\ readAt[t] <= now
    BY <1>1, <1>3, LeadType DEF PlatformInv, NoFuture, BookTyped, Booking!Times
  <2>. QED  BY <1>1, <1>2, <2>1 DEF NoFuture
<1>11. ReadHeld'
  <2>1. \A t \in Tabs : readAt[t] <= now
    BY DEF PlatformInv, NoFuture
  <2>2. ASSUME NEW t \in Tabs, tab[t].pc = "claim", NEW i \in ReservationIds, Kept(i),
               resv'[i].state = "confirmed", resv'[i].spot = tab[t].spot,
               resv'[i].user # UserOf[t]
        PROVE  \/ resv'[i].made >= readAt[t]
               \/ resv'[i].from > readAt[t]
               \/ resv'[i].to <= readAt[t]
    BY <2>2 DEF Kept, PlatformInv, ReadHeld
  <2>3. ASSUME NEW t \in Tabs, NEW i \in ReservationIds, Made(i)
        PROVE  resv'[i].made >= readAt[t]
    BY <1>3, <2>1, <2>3, LeadType DEF Made, BookTyped, Booking!Times
  <2>. QED  BY <1>1, <1>2, <2>2, <2>3 DEF ReadHeld
<1>12. BookedIsTrue'
  BY <1>2 DEF BookedIsTrue
<1>. QED  BY <1>1, <1>5, <1>6, <1>7, <1>8, <1>9, <1>10, <1>11, <1>12 DEF PlatformInv, BookShape

\* A removal takes the rows of the spots, and of the reservations what refers to them.
LEMMA RemovalSteps ==
    ASSUME NEW w \in Staff, Removal(w)
    PROVE  /\ \E S \in SUBSET Spots : /\ \A s \in S : Exists(s)
                                     /\ Drop(S) /\ Cascade(S)
           /\ UNCHANGED <<tab, now, sent, form, check, lastRun, readAt>>
  BY DEF Removal, StaffRemoveSpot, StaffRemoveZone

LEMMA RemovalKeeps == ASSUME PlatformInv, NEW w \in Staff, Removal(w) PROVE PlatformInv'
<1>1. PICK S \in SUBSET Spots : (\A s \in S : Exists(s)) /\ Drop(S) /\ Cascade(S)
  BY RemovalSteps
<1>2. UNCHANGED <<tab, now, form, readAt>> /\ None \notin S
  BY RemovalSteps, NoneType
<1>3. BaseInv'
  BY BaseStep DEF PlatformInv, Removal, Next
<1>4. BookTyped /\ ResvMade /\ FormShape /\ ResvOfSpot /\ row \in [Spots -> RowStates]
  BY DEF PlatformInv, BookShape, BaseInv, TypeOK
<1>5. /\ \A i \in ReservationIds : [resv[i] EXCEPT !.state = "deleted"] \in Booking!ResvRows
      /\ resv' = [i \in ReservationIds |->
                    IF resv[i].spot \in S THEN [resv[i] EXCEPT !.state = "deleted"] ELSE resv[i]]
  BY <1>1, <1>4 DEF Cascade, BookTyped, Booking!ResvRows
<1>6. BookTyped'
  BY <1>2, <1>4, <1>5 DEF BookTyped
<1>7. \A i \in ReservationIds :
        /\ resv[i].spot \notin S => resv'[i] = resv[i]
        /\ resv[i].spot \in S => /\ resv'[i].state = "deleted"
                                 /\ resv'[i].spot = resv[i].spot
                                 /\ resv'[i].user = resv[i].user
  BY <1>4, <1>5 DEF BookTyped, Booking!ResvRows
<1>8. \A s \in Spots : row'[s] = IF s \in S THEN "deleted" ELSE row[s]
  BY <1>1 DEF Drop
<1>9. ResvMade'
  BY <1>2, <1>4, <1>7 DEF ResvMade
<1>10. FormShape'
  <2>1. \A s \in Spots : row[s] # "unborn" => row'[s] # "unborn"
    BY <1>8
  <2>2. \A i \in ReservationIds : resv[i].state # "unused" => resv'[i].state # "unused"
    BY <1>7
  <2>. QED  BY <1>2, <1>4, <2>1, <2>2, MayBookType DEF FormShape
<1>11. ResvOfSpot'
  <2>1. \A i \in ReservationIds : resv[i].state # "unused" => resv[i].spot \in Spots
    BY <1>4, BookableType DEF ResvMade
  <2>. QED  BY <1>4, <1>7, <1>8, <2>1 DEF ResvOfSpot, Exists
<1>12. BookedIsTrue'
  <2>1. booked' = {b \in InForce : b[1] \notin S}
    BY <1>1 DEF Drop, PlatformInv, BookedIsTrue
  <2>2. \A i \in ReservationIds :
          Covers(resv[i])' <=> Covers(resv[i]) /\ resv[i].spot \notin S
    BY <1>2, <1>7 DEF Covers
  <2>3. InForce' = {b \in InForce : b[1] \notin S}
    BY <1>7, <2>2 DEF InForce
  <2>. QED  BY <2>1, <2>3 DEF BookedIsTrue
<1>13. NoFuture' /\ ReadHeld'
  <2>1. \A i \in ReservationIds : resv'[i].state = "confirmed" => resv'[i] = resv[i]
    BY <1>7
  <2>. QED  BY <1>2, <2>1 DEF PlatformInv, NoFuture, ReadHeld
<1>. QED
  BY <1>3, <1>6, <1>9, <1>10, <1>11, <1>12, <1>13 DEF PlatformInv, BookShape

LEMMA PlatformStep == ASSUME PlatformInv, [PlatformNext]_pvars PROVE PlatformInv'
<1>1. CASE UNCHANGED pvars
  <2>1. UNCHANGED <<vars, now, resv, form, readAt>> /\ UNCHANGED vars
    BY <1>1 DEF pvars, bookVars
  <2>2. BaseInv'
    BY <2>1, BaseStep DEF PlatformInv
  <2>. QED  BY <2>1, <2>2
    DEF vars, PlatformInv, BookShape, BookTyped, ResvMade, FormShape, ResvOfSpot, Exists,
        BookedIsTrue, InForce, Covers, NoFuture, ReadHeld
<1>. QED
  BY <1>1, ParkingTabKeeps, ParkingOtherKeeps, BookingStepKeeps, RemovalKeeps
  DEF PlatformNext

-----------------------------------------------------------------------------
(* The theorems. *)

\* What the two keep true of the rows they share.
THEOREM PlatformInvariant == PlatformSpec => []PlatformInv
  BY PlatformBegins, PlatformStep, PTL DEF PlatformSpec

\* However citizens book, cancel and are reminded, parking sees of it only what it allows for:
\* every theorem about Parking holds of the two together.
THEOREM ImplementsParking == PlatformSpec => ParkingSpec
<1>1. PlatformInit => Init
  BY DEF PlatformInit
<1>2. PlatformInv /\ [PlatformNext]_pvars => [Next]_vars
  BY BookingStepKeeps DEF PlatformNext, ParkingTab, ParkingOther, Removal, Next, pvars
<1>. QED  BY <1>1, <1>2, PlatformInvariant, PTL DEF PlatformSpec, ParkingSpec, Spec

\* However check-ins, check-outs, ticks and staff write to the spots, bookings see of it only
\* what they allow for.
THEOREM ImplementsBooking == PlatformSpec => BookingSpec
<1>1. ASSUME PlatformInit PROVE Booking!Init
  BY <1>1 DEF PlatformInit
<1>2. ASSUME PlatformInv, [PlatformNext]_pvars PROVE [Booking!Next]_(Booking!vars)
  <2>1. TypeOK /\ BaseInv
    BY <1>2 DEF PlatformInv, BaseInv
  <2>2. CASE (\E t \in Tabs : ParkingTab(t)) \/ ParkingOther
    BY <2>1, <2>2, RowSteps, RowStepIsSpotStep DEF ParkingTab, ParkingOther
  <2>3. CASE BookingStep
    BY <2>3 DEF BookingStep, Booking!Next
  <2>4. ASSUME NEW w \in Staff, Removal(w) PROVE Booking!Next
    <3>1. PICK S \in SUBSET Spots : (\A s \in S : Exists(s)) /\ Drop(S) /\ Cascade(S)
      BY <2>4, RemovalSteps
    <3>2. UNCHANGED <<now, sent, form, check, lastRun>>
      BY <2>4, RemovalSteps
    <3>3. \A s \in S : Condition(row[s]) \in {"usable", "disabled"}
      BY <3>1 DEF Exists, Statuses, Condition
    <3>4. \A s \in Spots : Condition(row'[s]) = IF s \in S THEN "deleted" ELSE Condition(row[s])
      BY <3>1 DEF Drop, Condition
    <3>5. Booking!SpotsRemove(S)
      BY <3>1, <3>2, <3>3, <3>4 DEF Booking!SpotsRemove, Cascade
    <3>. QED  BY <3>5 DEF Booking!Next, Booking!SpotNext
  <2>5. CASE UNCHANGED pvars
    BY <2>5 DEF pvars, vars, bookVars, Booking!vars
  <2>. QED  BY <1>2, <2>2, <2>3, <2>4, <2>5 DEF PlatformNext
<1>. QED
  BY <1>1, <1>2, PlatformInvariant, PTL DEF PlatformSpec, BookingSpec, Booking!Spec

\* A check-in is about to take a reserved spot only if the reservation has been made, or has
\* begun, since it asked, however long it waits and whatever is booked and cancelled meanwhile.
THEOREM RespectsReservations == PlatformSpec => []ReservationsRespected
<1>1. PlatformInv => ReservationsRespected
  <2>. SUFFICES ASSUME PlatformInv,
                       NEW t \in Tabs, tab[t].pc = "claim", NEW i \in ReservationIds,
                       resv[i].state = "confirmed", resv[i].from <= now, now < resv[i].to,
                       resv[i].spot = tab[t].spot, resv[i].user # UserOf[t]
                PROVE  resv[i].made >= readAt[t] \/ resv[i].from > readAt[t]
    BY DEF ReservationsRespected
  <2>1. \/ resv[i].made >= readAt[t] \/ resv[i].from > readAt[t] \/ resv[i].to <= readAt[t]
    BY DEF PlatformInv, ReadHeld
  <2>2. now \in Nat /\ readAt[t] \in Nat /\ readAt[t] <= now /\ resv[i].to \in Nat
    BY LeadType
    DEF PlatformInv, NoFuture, BookShape, BookTyped, Booking!ResvRows, Booking!Times
  <2>. QED  BY <2>1, <2>2
<1>. QED  BY <1>1, PlatformInvariant, PTL

\* A spot, or a zone with its spots, goes with every session and every reservation of it,
\* however many requests were on their way to add one.
THEOREM NothingIsLeftBehind == PlatformSpec => []NothingLeftBehind
<1>1. PlatformInv => NothingLeftBehind
  BY DEF PlatformInv, BaseInv, BookShape, ResvOfSpot, NothingLeftBehind
<1>. QED  BY <1>1, PlatformInvariant, PTL

\* Reservations and all, in the serial regime the system implements the lot.
THEOREM PlatformParks == Serial => (PlatformSpec => LotSpec)
<1>. SUFFICES ASSUME Serial PROVE PlatformSpec => LotSpec
  OBVIOUS
<1>1. Spec => LotSpec
  BY ImplementsLot
<1>. QED  BY <1>1, ImplementsParking DEF ParkingSpec

=============================================================================
