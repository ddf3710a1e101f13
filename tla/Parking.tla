------------------------------- MODULE Parking -------------------------------
(***************************************************************************)
(* The parking core: check-in, check-out, the sensor simulator and the     *)
(* staff's writes to a spot, all of which read and write the two tables    *)
(* parking_spots (its status column) and parking_sessions, and announce    *)
(* what they did on Redis and in the notifications table.                  *)
(*                                                                         *)
(* One action is one await of the source: the handlers of different        *)
(* requests, ticks and staff members interleave between awaits.  A         *)
(* Prisma transaction runs at READ COMMITTED, so each of its reads is an    *)
(* action of its own; its first UPDATE takes the row lock of the spot and  *)
(* keeps it to the commit, so that UPDATE, the statements after it and the *)
(* commit are one action.                                                  *)
(***************************************************************************)
EXTENDS Naturals, FiniteSets

CONSTANTS
    Users,       \* citizens
    Tabs,        \* browser tabs or devices: each has one request in flight
    UserOf,      \* the citizen signed in to each tab
    Spots,       \* ids of parking spots, created or not yet
    SessionIds,  \* ids of session rows: bounds the number of check-ins
    Staff,       \* admins and attendants: one request in flight each
    Edits,       \* what a staff update may ask: a status, or KeepStatus
    Ticks,       \* how many sensor ticks may overlap
    Bookable,    \* pairs <<spot, user>> that may get a reservation for now
    Watched,     \* spots some open live map shows (others reach nobody)
    Faults,      \* TRUE: a call may fail, or the process die, between awaits
    None         \* no value

Statuses   == {"free", "occupied", "reserved", "disabled"}
KeepStatus == "keep"                       \* an update without dto.status
RowStates  == Statuses \cup {"unborn", "deleted"}
Ops        == {"checkin", "checkout"}
TabPcs     == {"idle", "session", "booking", "claim", "release",
               "reload", "publish", "notify"}

ASSUME UserOfType   == UserOf \in [Tabs -> Users]
ASSUME EditsType    == Edits \subseteq Statuses \cup {KeepStatus}
ASSUME BookableType == Bookable \subseteq Spots \X Users
ASSUME WatchedType  == Watched \subseteq Spots
ASSUME FaultsType   == Faults \in BOOLEAN
ASSUME NoneType     == None \notin Spots \cup SessionIds \cup Users \cup RowStates

VARIABLES
    row,      \* row[s]: the status column of the spot's row, if there is one
    session,  \* session[i]: the row of parking_sessions with id i
    booked,   \* <<s, u>>: a confirmed reservation of u on s covers this instant
    notices,  \* how many notifications of each kind a session has caused
    shown,    \* shown[s]: the status of s on the live maps that show it
    tab,      \* the check-in or check-out each tab waits for
    staff,    \* the update each staff member waits for
    tick      \* the sensor ticks in progress

vars == <<row, session, booked, notices, shown, tab, staff, tick>>

IdleTab   == [pc |-> "idle", op |-> None, spot |-> None, session |-> None,
              sees |-> None]
IdleStaff == [pc |-> "idle", spot |-> None, status |-> None]
IdleTick  == [pc |-> "idle", todo |-> {}, spot |-> None, status |-> None]
NoSession == [state |-> "unused", user |-> None, spot |-> None]

Exists(s)    == row[s] \in Statuses
OpenAt(s)    == {i \in SessionIds : session[i].state = "open" /\ session[i].spot = s}
OpenOf(u)    == {i \in SessionIds : session[i].state = "open" /\ session[i].user = u}
Unused       == {i \in SessionIds : session[i].state = "unused"}
CheckingIn   == {t \in Tabs : tab[t].pc \in {"session", "booking", "claim"}}

SessionRows == [state : {"unused", "open", "closed", "deleted"},
                user : Users \cup {None}, spot : Spots \cup {None}]
TabStates   == [pc : TabPcs, op : Ops \cup {None}, spot : Spots \cup {None},
                session : SessionIds \cup {None}, sees : Statuses \cup {None}]
StaffStates == [pc : {"idle", "write", "audit"}, spot : Spots \cup {None},
                status : Statuses \cup {None}]
TickStates  == [pc : {"idle", "next", "record", "publish"},
                todo : SUBSET (Spots \X {"free", "occupied"}),
                spot : Spots \cup {None}, status : Statuses \cup {None}]

TypeOK ==
    /\ row \in [Spots -> RowStates]
    /\ session \in [SessionIds -> SessionRows]
    /\ booked \subseteq Bookable
    /\ notices \in [SessionIds -> [Ops -> Nat]]
    /\ shown \in [Watched -> RowStates]
    /\ tab \in [Tabs -> TabStates]
    /\ staff \in [Staff -> StaffStates]
    /\ tick \in [Ticks -> TickStates]

Init ==
    /\ row \in [Spots -> {"free", "unborn"}]
    /\ session = [i \in SessionIds |-> NoSession]
    /\ booked = {}
    /\ notices = [i \in SessionIds |-> [o \in Ops |-> 0]]
    /\ shown = [s \in Watched |-> row[s]]
    /\ tab = [t \in Tabs |-> IdleTab]
    /\ staff = [w \in Staff |-> IdleStaff]
    /\ tick = [k \in Ticks |-> IdleTick]

-----------------------------------------------------------------------------
(* Check-in.                                                               *)

\* POST /sessions/check-in: the spot exists, or the answer is 404 at once.
\* The second conjunct keeps an id for every check-in under way (a bound).
CheckInRequest(t, s) ==
    /\ tab[t].pc = "idle"
    /\ Cardinality(CheckingIn) < Cardinality(Unused)
    /\ Exists(s)
    /\ tab' = [tab EXCEPT ![t] = [IdleTab EXCEPT !.pc = "session", !.op = "checkin",
                                                 !.spot = s]]
    /\ UNCHANGED <<row, session, booked, notices, shown, staff, tick>>

\* Mutant: the first read is left out.
CheckInReadSessionSkipped(t) ==
    /\ tab[t].pc = "session"
    /\ tab' = [tab EXCEPT ![t] = [@ EXCEPT !.pc = "booking"]]
    /\ UNCHANGED <<row, session, booked, notices, shown, staff, tick>>

\* The transaction's first read: does this citizen hold a spot already?
CheckInReadSession(t) ==
    /\ tab[t].pc = "session"
    /\ tab' = IF OpenOf(UserOf[t]) = {}
                THEN [tab EXCEPT ![t] = [@ EXCEPT !.pc = "booking"]]
                ELSE [tab EXCEPT ![t] = IdleTab]
    /\ UNCHANGED <<row, session, booked, notices, shown, staff, tick>>

\* The second read: has somebody else reserved this spot for now?
CheckInReadBooking(t) ==
    /\ tab[t].pc = "booking"
    /\ tab' = IF \A u \in Users \ {UserOf[t]} : <<tab[t].spot, u>> \notin booked
                THEN [tab EXCEPT ![t] = [@ EXCEPT !.pc = "claim"]]
                ELSE [tab EXCEPT ![t] = IdleTab]
    /\ UNCHANGED <<row, session, booked, notices, shown, staff, tick>>

\* UPDATE ... WHERE status = 'free' changed no row: the check-in is refused.
CheckInRefused(t) ==
    /\ tab[t].pc = "claim"
    /\ row[tab[t].spot] # "free"
    /\ tab' = [tab EXCEPT ![t] = IdleTab]
    /\ UNCHANGED <<row, session, booked, notices, shown, staff, tick>>

\* Mutants: the UPDATE refuses only a disabled spot; the session is created
\* without the UPDATE; a closed session of the table is opened again.
CheckInClaimAny(t) ==
    /\ tab[t].pc = "claim"
    /\ row[tab[t].spot] \in Statuses \ {"disabled"}
    /\ row' = [row EXCEPT ![tab[t].spot] = "occupied"]
    /\ \E i \in Unused :
         /\ session' = [session EXCEPT ![i] = [state |-> "open", user |-> UserOf[t],
                                               spot |-> tab[t].spot]]
         /\ tab' = [tab EXCEPT ![t] = [@ EXCEPT !.pc = "reload", !.session = i]]
    /\ UNCHANGED <<booked, notices, shown, staff, tick>>

CheckInClaimNoUpdate(t) ==
    /\ tab[t].pc = "claim"
    /\ row[tab[t].spot] = "free"
    /\ \E i \in Unused :
         /\ session' = [session EXCEPT ![i] = [state |-> "open", user |-> UserOf[t],
                                               spot |-> tab[t].spot]]
         /\ tab' = [tab EXCEPT ![t] = [@ EXCEPT !.pc = "reload", !.session = i]]
    /\ UNCHANGED <<row, booked, notices, shown, staff, tick>>

CheckInClaimReuse(t) ==
    /\ tab[t].pc = "claim"
    /\ row[tab[t].spot] = "free"
    /\ row' = [row EXCEPT ![tab[t].spot] = "occupied"]
    /\ \E i \in {j \in SessionIds : session[j].state \in {"unused", "closed"}} :
         /\ session' = [session EXCEPT ![i] = [state |-> "open", user |-> UserOf[t],
                                               spot |-> tab[t].spot]]
         /\ tab' = [tab EXCEPT ![t] = [@ EXCEPT !.pc = "reload", !.session = i]]
    /\ UNCHANGED <<booked, notices, shown, staff, tick>>

\* UPDATE ... WHERE status = 'free', INSERT of the session, COMMIT.
CheckInClaim(t) ==
    /\ tab[t].pc = "claim"
    /\ row[tab[t].spot] = "free"
    /\ row' = [row EXCEPT ![tab[t].spot] = "occupied"]
    /\ \E i \in Unused :
         /\ session' = [session EXCEPT ![i] = [state |-> "open", user |-> UserOf[t],
                                               spot |-> tab[t].spot]]
         /\ tab' = [tab EXCEPT ![t] = [@ EXCEPT !.pc = "reload", !.session = i]]
    /\ UNCHANGED <<booked, notices, shown, staff, tick>>

-----------------------------------------------------------------------------
(* Check-out.                                                              *)

\* Mutant: findFirst without the citizen's id.
CheckOutRequestAny(t) ==
    /\ tab[t].pc = "idle"
    /\ \E i \in UNION {OpenOf(u) : u \in Users} :
         tab' = [tab EXCEPT ![t] = [IdleTab EXCEPT !.pc = "release", !.op = "checkout",
                                      !.spot = session[i].spot, !.session = i]]
    /\ UNCHANGED <<row, session, booked, notices, shown, staff, tick>>

\* POST /sessions/check-out: findFirst gives any open session of the citizen.
CheckOutRequest(t) ==
    /\ tab[t].pc = "idle"
    /\ \E i \in OpenOf(UserOf[t]) :
         tab' = [tab EXCEPT ![t] = [IdleTab EXCEPT !.pc = "release", !.op = "checkout",
                                      !.spot = session[i].spot, !.session = i]]
    /\ UNCHANGED <<row, session, booked, notices, shown, staff, tick>>

\* Mutants: the session is left open; the request ends with the commit.
CheckOutReleaseOpen(t) ==
    /\ tab[t].pc = "release"
    /\ session[tab[t].session].state # "deleted"
    /\ row' = [row EXCEPT ![tab[t].spot] = "free"]
    /\ tab' = [tab EXCEPT ![t] = [@ EXCEPT !.pc = "reload"]]
    /\ UNCHANGED <<session, booked, notices, shown, staff, tick>>

CheckOutReleaseOnly(t) ==
    /\ tab[t].pc = "release"
    /\ session[tab[t].session].state # "deleted"
    /\ row' = [row EXCEPT ![tab[t].spot] = "free"]
    /\ session' = [session EXCEPT ![tab[t].session].state = "closed"]
    /\ tab' = [tab EXCEPT ![t] = IdleTab]
    /\ UNCHANGED <<booked, notices, shown, staff, tick>>

\* UPDATE status = 'free' whatever the status is, close the session that was
\* read, COMMIT.
CheckOutRelease(t) ==
    /\ tab[t].pc = "release"
    /\ session[tab[t].session].state # "deleted"
    /\ row' = [row EXCEPT ![tab[t].spot] = "free"]
    /\ session' = [session EXCEPT ![tab[t].session].state = "closed"]
    /\ tab' = [tab EXCEPT ![t] = [@ EXCEPT !.pc = "reload"]]
    /\ UNCHANGED <<booked, notices, shown, staff, tick>>

\* The session went with its spot since it was read: its update finds no row,
\* throws, and the transaction rolls back.
CheckOutLost(t) ==
    /\ tab[t].pc = "release"
    /\ session[tab[t].session].state = "deleted"
    /\ tab' = [tab EXCEPT ![t] = IdleTab]
    /\ UNCHANGED <<row, session, booked, notices, shown, staff, tick>>

-----------------------------------------------------------------------------
(* What both do after the commit: read the row again, publish what was     *)
(* read, notify the citizen.                                               *)

\* Mutant: the row is read again without the 404 for one that has gone.
ReloadAny(t) ==
    /\ tab[t].pc = "reload"
    /\ tab' = [tab EXCEPT ![t] = [@ EXCEPT !.pc = "publish", !.sees = row[tab[t].spot]]]
    /\ UNCHANGED <<row, session, booked, notices, shown, staff, tick>>

\* A spot:update message reaches the live maps in the zone's room, and they
\* take its status for the spot's.
Show(s, status) == shown' = [x \in Watched |-> IF x = s THEN status ELSE shown[x]]

Reload(t) ==
    /\ tab[t].pc = "reload"
    /\ tab' = IF Exists(tab[t].spot)
                THEN [tab EXCEPT ![t] = [@ EXCEPT !.pc = "publish",
                                                !.sees = row[tab[t].spot]]]
                ELSE [tab EXCEPT ![t] = IdleTab]
    /\ UNCHANGED <<row, session, booked, notices, shown, staff, tick>>

\* Mutant: publishing is the last thing the handler does.
PublishOnly(t) ==
    /\ tab[t].pc = "publish"
    /\ Show(tab[t].spot, tab[t].sees)
    /\ tab' = [tab EXCEPT ![t] = IdleTab]
    /\ UNCHANGED <<row, session, booked, notices, staff, tick>>

Publish(t) ==
    /\ tab[t].pc = "publish"
    /\ Show(tab[t].spot, tab[t].sees)
    /\ tab' = [tab EXCEPT ![t] = [@ EXCEPT !.pc = "notify", !.sees = None]]
    /\ UNCHANGED <<row, session, booked, notices, staff, tick>>

Notify(t) ==
    /\ tab[t].pc = "notify"
    /\ notices' = [notices EXCEPT ![tab[t].session][tab[t].op] = @ + 1]
    /\ tab' = [tab EXCEPT ![t] = IdleTab]
    /\ UNCHANGED <<row, session, booked, shown, staff, tick>>

-----------------------------------------------------------------------------
(* Staff: PATCH, POST and DELETE on spots, DELETE on a zone.               *)

\* The update reads the row first, and writes that status back when the
\* request has none.
StaffUpdateRequest(w, s, e) ==
    /\ staff[w].pc = "idle"
    /\ Exists(s)
    /\ staff' = [staff EXCEPT ![w] = [pc |-> "write", spot |-> s,
                                      status |-> IF e = KeepStatus THEN row[s] ELSE e]]
    /\ UNCHANGED <<row, session, booked, notices, shown, tab, tick>>

\* The UPDATE; when the row has gone it returns no row and the handler throws.
StaffUpdateWrite(w) ==
    /\ staff[w].pc = "write"
    /\ IF Exists(staff[w].spot)
         THEN /\ row' = [row EXCEPT ![staff[w].spot] = staff[w].status]
              /\ staff' = [staff EXCEPT ![w] = [IdleStaff EXCEPT !.pc = "audit"]]
         ELSE /\ staff' = [staff EXCEPT ![w] = IdleStaff]
              /\ UNCHANGED row
    /\ UNCHANGED <<session, booked, notices, shown, tab, tick>>

\* The update names a zone that has gone (404), or a code its zone has already
\* (409): nothing is written.
StaffRefused(w) ==
    /\ staff[w].pc = "write"
    /\ staff' = [staff EXCEPT ![w] = IdleStaff]
    /\ UNCHANGED <<row, session, booked, notices, shown, tab, tick>>

\* A new spot is free unless the request says otherwise.
StaffCreateSpot(w, s, e) ==
    /\ staff[w].pc = "idle"
    /\ row[s] = "unborn"
    /\ row' = [row EXCEPT ![s] = IF e = KeepStatus THEN "free" ELSE e]
    /\ staff' = [staff EXCEPT ![w] = [IdleStaff EXCEPT !.pc = "audit"]]
    /\ UNCHANGED <<session, booked, notices, shown, tab, tick>>

\* Mutant: no cascade from spots to sessions.
DropSpotsOnly(S) ==
    /\ row' = [s \in Spots |-> IF s \in S THEN "deleted" ELSE row[s]]
    /\ booked' = {b \in booked : b[1] \notin S}
    /\ UNCHANGED session

\* The rows of a set of spots go, and with them their sessions and reservations
\* (ON DELETE CASCADE).
Drop(S) ==
    /\ row' = [s \in Spots |-> IF s \in S THEN "deleted" ELSE row[s]]
    /\ session' = [i \in SessionIds |->
                     IF session[i].spot \in S
                       THEN [session[i] EXCEPT !.state = "deleted"]
                       ELSE session[i]]
    /\ booked' = {b \in booked : b[1] \notin S}

StaffRemoveSpot(w, s) ==
    /\ staff[w].pc = "idle"
    /\ Exists(s)
    /\ Drop({s})
    /\ staff' = [staff EXCEPT ![w] = [IdleStaff EXCEPT !.pc = "audit"]]
    /\ UNCHANGED <<notices, shown, tab, tick>>

\* Removing a zone removes whatever spots are in it.
StaffRemoveZone(w, S) ==
    /\ staff[w].pc = "idle"
    /\ \A s \in S : Exists(s)
    /\ Drop(S)
    /\ staff' = [staff EXCEPT ![w] = [IdleStaff EXCEPT !.pc = "audit"]]
    /\ UNCHANGED <<notices, shown, tab, tick>>

\* The audit row, which no operation modelled here reads, ends the request.
StaffAudit(w) ==
    /\ staff[w].pc = "audit"
    /\ staff' = [staff EXCEPT ![w] = IdleStaff]
    /\ UNCHANGED <<row, session, booked, notices, shown, tab, tick>>

-----------------------------------------------------------------------------
(* The sensor simulator.                                                   *)

Toggle(status) == IF status = "free" THEN "occupied" ELSE "free"

\* Mutant: candidates are not checked for an active session.
TogglableAny == {s \in Spots : row[s] \in {"free", "occupied"}}

\* Spots a sensor may flip: free or occupied, with nobody checked in.
Togglable == {s \in Spots : row[s] \in {"free", "occupied"} /\ OpenAt(s) = {}}

\* A tick picks one or two of them and decides what each becomes.
TickStart(k) ==
    /\ tick[k].pc = "idle"
    /\ \E S \in SUBSET Togglable :
         /\ Cardinality(S) \in 1..2
         /\ tick' = [tick EXCEPT ![k] = [IdleTick EXCEPT !.pc = "next",
                                           !.todo = {<<s, Toggle(row[s])>> : s \in S}]]
    /\ UNCHANGED <<row, session, booked, notices, shown, tab, staff>>

\* spotsService.update of the next candidate; when its row has gone it throws
\* and the tick ends there.
TickUpdate(k, s, status) ==
    /\ tick[k].pc = "next"
    /\ <<s, status>> \in tick[k].todo
    /\ IF Exists(s)
         THEN /\ row' = [row EXCEPT ![s] = status]
              /\ tick' = [tick EXCEPT ![k] = [pc |-> "record", spot |-> s,
                                              status |-> status,
                                              todo |-> @.todo \ {<<s, status>>}]]
         ELSE /\ tick' = [tick EXCEPT ![k] = IdleTick]
              /\ UNCHANGED row
    /\ UNCHANGED <<session, booked, notices, shown, tab, staff>>

\* The sensor event refers to the spot: its insert fails when the spot has gone.
TickRecord(k) ==
    /\ tick[k].pc = "record"
    /\ tick' = IF Exists(tick[k].spot) THEN [tick EXCEPT ![k] = [@ EXCEPT !.pc = "publish"]]
                                       ELSE [tick EXCEPT ![k] = IdleTick]
    /\ UNCHANGED <<row, session, booked, notices, shown, tab, staff>>

\* Publishes the row as its own UPDATE returned it.
TickPublish(k) ==
    /\ tick[k].pc = "publish"
    /\ Show(tick[k].spot, tick[k].status)
    /\ tick' = IF tick[k].todo = {} THEN [tick EXCEPT ![k] = IdleTick]
                                    ELSE [tick EXCEPT ![k] = [@ EXCEPT !.pc = "next",
                                                                     !.spot = None,
                                                                     !.status = None]]
    /\ UNCHANGED <<row, session, booked, notices, tab, staff>>

-----------------------------------------------------------------------------
(* Outside the parking core: reservations, failures.                       *)

\* Reservations are made for now, begin, end or are cancelled (module Booking), of spots
\* that there are: the foreign key sees to that.
BookingChange(B) ==
    /\ \A b \in B \ booked : Exists(b[1])
    /\ booked' = B
    /\ UNCHANGED <<row, session, notices, shown, tab, staff, tick>>

\* A call to PostgreSQL or Redis fails or the process dies: the handler is gone,
\* what it committed stays.
FailTab(t) ==
    /\ Faults
    /\ tab[t].pc # "idle"
    /\ tab' = [tab EXCEPT ![t] = IdleTab]
    /\ UNCHANGED <<row, session, booked, notices, shown, staff, tick>>

FailStaff(w) ==
    /\ Faults
    /\ staff[w].pc # "idle"
    /\ staff' = [staff EXCEPT ![w] = IdleStaff]
    /\ UNCHANGED <<row, session, booked, notices, shown, tab, tick>>

FailTick(k) ==
    /\ Faults
    /\ tick[k].pc # "idle"
    /\ tick' = [tick EXCEPT ![k] = IdleTick]
    /\ UNCHANGED <<row, session, booked, notices, shown, tab, staff>>

-----------------------------------------------------------------------------
TabStep(t) ==
    \/ CheckInReadSession(t) \/ CheckInReadBooking(t)
    \/ CheckInRefused(t) \/ CheckInClaim(t)
    \/ CheckOutRelease(t) \/ CheckOutLost(t)
    \/ Reload(t) \/ Publish(t) \/ Notify(t)

StaffStep(w) == StaffUpdateWrite(w) \/ StaffRefused(w) \/ StaffAudit(w)

TickStep(k) ==
    \/ \E s \in Spots, status \in {"free", "occupied"} : TickUpdate(k, s, status)
    \/ TickRecord(k)
    \/ TickPublish(k)

TabNext(t) ==
    \/ \E s \in Spots : CheckInRequest(t, s)
    \/ CheckOutRequest(t)
    \/ TabStep(t)
    \/ FailTab(t)

StaffNext(w) ==
    \/ \E s \in Spots, e \in Edits : StaffUpdateRequest(w, s, e) \/ StaffCreateSpot(w, s, e)
    \/ StaffStep(w)
    \/ FailStaff(w)

TickNext(k) == TickStart(k) \/ TickStep(k) \/ FailTick(k)

Next ==
    \/ \E t \in Tabs : TabNext(t)
    \/ \E w \in Staff : \/ StaffNext(w)
                        \/ \E s \in Spots : StaffRemoveSpot(w, s)
                        \/ \E S \in SUBSET Spots : StaffRemoveZone(w, S)
    \/ \E k \in Ticks : TickNext(k)
    \/ \E B \in SUBSET Bookable : BookingChange(B)

Spec == Init /\ [][Next]_vars

\* An await that was started returns, one way or another; nothing obliges a
\* citizen, a sensor or the staff to start another request.
Fairness ==
    /\ \A t \in Tabs : WF_vars(TabStep(t))
    /\ \A w \in Staff : WF_vars(StaffStep(w))
    /\ \A k \in Ticks : WF_vars(TickStep(k))

FairSpec == Spec /\ Fairness
-----------------------------------------------------------------------------
(* The regime in which the handlers keep their promises: every citizen has *)
(* one request in flight, ticks do not overlap, and staff neither free a   *)
(* spot by hand nor send an update without a status.                       *)

OneTabPerUser   == \A t, u \in Tabs : UserOf[t] = UserOf[u] => t = u
OneTickAtATime  == \A k, l \in Ticks : k = l
StaffNeverFrees == Edits \cap {"free", KeepStatus} = {}
Serial          == OneTabPerUser /\ OneTickAtATime /\ StaffNeverFrees

-----------------------------------------------------------------------------
(* Safety.                                                                 *)

\* A citizen has at most one active session (sessions.service.ts 38-45).
OneSpotPerUser ==
    \A i, j \in SessionIds :
        /\ session[i].state = "open"
        /\ session[j].state = "open"
        /\ session[i].user = session[j].user
        => i = j

\* Two citizens never hold the same spot: what the compare-and-swap of check-in
\* is there for (65-67).
OneCarPerSpot ==
    \A i, j \in SessionIds :
        /\ session[i].state = "open"
        /\ session[j].state = "open"
        /\ session[i].spot = session[j].spot
        => i = j

\* A spot somebody is checked in to is never offered as free: neither a sensor
\* (spots.service.ts 57-58) nor another citizen's check-out releases it.
ParkedSpotNotFree ==
    \A i \in SessionIds : session[i].state = "open" => row[session[i].spot] # "free"

\* A session that is still on record belongs to a spot that is: a check-in that
\* raced the removal of its spot or zone leaves nothing behind.
NoOrphanSession ==
    \A i \in SessionIds :
        session[i].state \in {"open", "closed"} => Exists(session[i].spot)

\* A citizen is told once of each check-in and of each check-out.
OneNoticePerEvent ==
    \A i \in SessionIds, o \in Ops : notices[i][o] <= 1

\* Nobody is told of a check-in or a check-out that is not committed, however
\* long the notification comes after the commit.
NoticesAreTrue ==
    \A i \in SessionIds :
        /\ session[i].state = "unused" => \A o \in Ops : notices[i][o] = 0
        /\ session[i].state = "open" => notices[i]["checkout"] = 0

\* What the source of a tick's candidates promises stays true until the tick
\* writes: a spot about to be freed has nobody checked in, and cannot get anybody.
TickIsHarmless ==
    \A k \in Ticks, s \in Spots :
        <<s, "free">> \in tick[k].todo => /\ OpenAt(s) = {}
                                          /\ row[s] \notin {"free", "unborn"}

\* No handler is at work on any spot.
Quiet ==
    /\ \A t \in Tabs : tab[t].pc = "idle"
    /\ \A w \in Staff : staff[w].pc = "idle"
    /\ \A k \in Ticks : tick[k].pc = "idle"

\* Once everything has settled, the live map shows the status of every spot
\* (README: "status updates in real time via WebSocket").
MapIsLive ==
    Quiet => \A s \in Watched : Exists(s) /\ shown[s] # "unborn" => shown[s] = row[s]

(* Steps.                                                                  *)

\* A session is opened for good by one citizen on one spot, closes once and is
\* never opened again; only its spot's removal takes it off the record.
SessionsForward ==
    \A i \in SessionIds :
        /\ session[i].state # "unused" => /\ session'[i].user = session[i].user
                                          /\ session'[i].spot = session[i].spot
                                          /\ session'[i].state # "unused"
        /\ session[i].state = "closed" => session'[i].state # "open"
        /\ session[i].state = "deleted" => session'[i].state = "deleted"

SessionsMoveForward == [][SessionsForward]_vars

(* Liveness, under FairSpec.                                               *)

\* Without failures, every check-in ends with its citizen told of it, unless the
\* spot is removed first.
CheckInAnnounced ==
    \A i \in SessionIds :
        session[i].state = "open" ~>
            notices[i]["checkin"] > 0 \/ session[i].state = "deleted"

\* Likewise every check-out.
CheckOutAnnounced ==
    \A i \in SessionIds :
        session[i].state = "closed" ~>
            notices[i]["checkout"] > 0 \/ session[i].state = "deleted"

(* The abstract lot: a pair for every open session.                        *)

Parked == {<<session[i].spot, session[i].user>> :
             i \in {j \in SessionIds : session[j].state = "open"}}
Gone   == {s \in Spots : row[s] = "deleted"}

Lot == INSTANCE ParkingLot WITH parked <- Parked, gone <- Gone

\* In the serial regime the handlers implement the lot.
LotSpec == Lot!Spec
=============================================================================
