---------------------------- MODULE ParkingProofs ----------------------------
(***************************************************************************)
(* Proofs about the parking core, for any number of citizens, tabs, spots, *)
(* sessions, staff and ticks, with and without failures.                   *)
(***************************************************************************)
EXTENDS Parking, TLAPS

-----------------------------------------------------------------------------
(* The inductive invariant that needs no assumption on the regime: what the *)
(* local state of each handler says of the rows.                           *)

\* An unused id has no row; a used one was given a citizen and a spot.
SessionShape ==
    \A i \in SessionIds :
        /\ session[i].state = "unused" => session[i].spot = None
        /\ session[i].state # "unused" => /\ session[i].user \in Users
                                          /\ session[i].spot \in Spots

\* From the moment a handler has a session it is its own citizen's, on the spot
\* it works on; after the commit of a check-out that session is not open.
TabShape ==
    \A t \in Tabs :
        /\ tab[t].pc # "idle" => tab[t].spot \in Spots /\ tab[t].op \in Ops
        /\ tab[t].pc \in {"session", "booking", "claim"} => tab[t].op = "checkin"
        /\ tab[t].pc = "release" => tab[t].op = "checkout"
        /\ tab[t].pc = "publish" => tab[t].sees \in Statuses
        /\ tab[t].pc \in {"release", "reload", "publish", "notify"} =>
             /\ tab[t].session \in SessionIds
             /\ session[tab[t].session].state # "unused"
             /\ session[tab[t].session].user = UserOf[t]
             /\ session[tab[t].session].spot = tab[t].spot
        /\ tab[t].pc \in {"reload", "publish", "notify"} /\ tab[t].op = "checkout" =>
             session[tab[t].session].state # "open"

StaffShape ==
    \A w \in Staff : staff[w].pc = "write" => /\ staff[w].spot \in Spots
                                              /\ staff[w].status \in Statuses

TickShape ==
    \A k \in Ticks : tick[k].pc \in {"record", "publish"} =>
                        /\ tick[k].spot \in Spots
                        /\ tick[k].status \in Statuses

Shapes  == SessionShape /\ TabShape /\ StaffShape /\ TickShape
BaseInv == TypeOK /\ Shapes /\ NoOrphanSession /\ NoticesAreTrue
\* The local states a handler passes through are of their type.
LEMMA IdleTyped ==
    IdleTab \in TabStates /\ IdleStaff \in StaffStates /\ IdleTick \in TickStates
  BY DEF IdleTab, IdleStaff, IdleTick, TabStates, StaffStates, TickStates, TabPcs, Statuses

LEMMA TabMoves ==
    ASSUME NEW r \in TabStates, NEW pc \in TabPcs
    PROVE  /\ [r EXCEPT !.pc = pc] \in TabStates
           /\ \A i \in SessionIds : [r EXCEPT !.pc = pc, !.session = i] \in TabStates
           /\ \A x \in Statuses \cup {None} :
                [r EXCEPT !.pc = pc, !.sees = x] \in TabStates
  BY DEF TabStates

\* What is left to show of a step that only moves a request, ...
LEMMA TabFrame ==
    ASSUME BaseInv, UNCHANGED <<row, session, booked, notices, staff, tick>>,
           shown' \in [Watched -> RowStates], tab' \in [Tabs -> TabStates], TabShape'
    PROVE  BaseInv'
  BY DEF BaseInv, TypeOK, Shapes, SessionShape, StaffShape, TickShape, NoOrphanSession,
         NoticesAreTrue, Exists

\* ... of one of the staff's that drops no row, ...
LEMMA StaffFrame ==
    ASSUME BaseInv, UNCHANGED <<session, booked, notices, shown, tab, tick>>,
           row' \in [Spots -> RowStates], staff' \in [Staff -> StaffStates], StaffShape',
           NoOrphanSession'
    PROVE  BaseInv'
  BY DEF BaseInv, TypeOK, Shapes, SessionShape, TabShape, TickShape, NoticesAreTrue

\* ... and of one of a tick's.
LEMMA TickFrame ==
    ASSUME BaseInv, UNCHANGED <<session, booked, notices, tab, staff>>,
           row' \in [Spots -> RowStates], shown' \in [Watched -> RowStates],
           tick' \in [Ticks -> TickStates], TickShape', NoOrphanSession'
    PROVE  BaseInv'
  BY DEF BaseInv, TypeOK, Shapes, SessionShape, TabShape, StaffShape, NoticesAreTrue

LEMMA BaseStep == ASSUME BaseInv, [Next]_vars PROVE BaseInv'
<1>1. ASSUME NEW t \in Tabs, NEW s \in Spots, CheckInRequest(t, s) PROVE BaseInv'
  <2>1. [IdleTab EXCEPT !.pc = "session", !.op = "checkin", !.spot = s] \in TabStates
    BY DEF IdleTab, TabStates, TabPcs, Ops
  <2>2. tab' \in [Tabs -> TabStates]
    BY <1>1, <2>1 DEF BaseInv, TypeOK, CheckInRequest
  <2>3. TabShape'
    BY <1>1 DEF BaseInv, TypeOK, Shapes, TabShape, Ops, CheckInRequest, IdleTab
  <2>. QED  BY <1>1, <2>2, <2>3, TabFrame DEF BaseInv, TypeOK, CheckInRequest
<1>2. ASSUME NEW t \in Tabs, CheckInReadSession(t) PROVE BaseInv'
  <2>1. tab' \in [Tabs -> TabStates]
    BY <1>2, IdleTyped, TabMoves DEF BaseInv, TypeOK, TabPcs, CheckInReadSession
  <2>2. TabShape'
    BY <1>2 DEF BaseInv, TypeOK, TabStates, Shapes, TabShape, CheckInReadSession, IdleTab
  <2>. QED  BY <1>2, <2>1, <2>2, TabFrame DEF BaseInv, TypeOK, CheckInReadSession
<1>3. ASSUME NEW t \in Tabs, CheckInReadBooking(t) PROVE BaseInv'
  <2>1. tab' \in [Tabs -> TabStates]
    BY <1>3, IdleTyped, TabMoves DEF BaseInv, TypeOK, TabPcs, CheckInReadBooking
  <2>2. TabShape'
    BY <1>3 DEF BaseInv, TypeOK, TabStates, Shapes, TabShape, CheckInReadBooking, IdleTab
  <2>. QED  BY <1>3, <2>1, <2>2, TabFrame DEF BaseInv, TypeOK, CheckInReadBooking
<1>4. ASSUME NEW t \in Tabs, CheckInRefused(t) PROVE BaseInv'
  <2>1. tab' \in [Tabs -> TabStates]
    BY <1>4, IdleTyped DEF BaseInv, TypeOK, CheckInRefused
  <2>2. TabShape'
    BY <1>4 DEF BaseInv, TypeOK, TabStates, Shapes, TabShape, CheckInRefused, IdleTab
  <2>. QED  BY <1>4, <2>1, <2>2, TabFrame DEF BaseInv, TypeOK, CheckInRefused
<1>5. ASSUME NEW t \in Tabs, CheckInClaim(t) PROVE BaseInv'
  <2>1. PICK i \in Unused :
          /\ session' = [session EXCEPT ![i] = [state |-> "open", user |-> UserOf[t],
                                               spot |-> tab[t].spot]]
          /\ tab' = [tab EXCEPT ![t] = [@ EXCEPT !.pc = "reload", !.session = i]]
    BY <1>5 DEF CheckInClaim
  <2>2. /\ tab[t].spot \in Spots /\ tab[t].pc = "claim" /\ tab[t].op = "checkin"
        /\ row[tab[t].spot] = "free"
        /\ row' = [row EXCEPT ![tab[t].spot] = "occupied"]
        /\ UNCHANGED <<booked, notices, shown, staff, tick>>
        /\ i \in SessionIds /\ session[i].state = "unused"
    BY <1>5, <2>1 DEF CheckInClaim, Unused, BaseInv, Shapes, TabShape
  <2>3. /\ [state |-> "open", user |-> UserOf[t], spot |-> tab[t].spot] \in SessionRows
        /\ [tab[t] EXCEPT !.pc = "reload", !.session = i] \in TabStates
    BY <2>2, UserOfType, TabMoves DEF SessionRows, TabPcs, BaseInv, TypeOK
  <2>4. TypeOK'
    BY <2>1, <2>2, <2>3 DEF BaseInv, TypeOK, RowStates, Statuses
  <2>5. SessionShape'
    BY <2>1, <2>2, UserOfType, NoneType DEF BaseInv, TypeOK, Shapes, SessionShape
  <2>6. TabShape'
    BY <2>1, <2>2, UserOfType DEF BaseInv, TypeOK, TabStates, Shapes, TabShape, Ops
  <2>7. StaffShape' /\ TickShape'
    BY <2>2 DEF BaseInv, Shapes, StaffShape, TickShape
  <2>8. NoOrphanSession'
    BY <2>1, <2>2 DEF BaseInv, TypeOK, Shapes, SessionShape, NoOrphanSession, Exists, Statuses
  <2>9. NoticesAreTrue'
    BY <2>1, <2>2 DEF BaseInv, TypeOK, NoticesAreTrue, Ops
  <2>. QED  BY <2>4, <2>5, <2>6, <2>7, <2>8, <2>9 DEF BaseInv, Shapes
<1>6. ASSUME NEW t \in Tabs, CheckOutRequest(t) PROVE BaseInv'
  <2>1. PICK i \in OpenOf(UserOf[t]) :
          tab' = [tab EXCEPT ![t] = [IdleTab EXCEPT !.pc = "release", !.op = "checkout",
                                       !.spot = session[i].spot, !.session = i]]
    BY <1>6 DEF CheckOutRequest
  <2>2. /\ i \in SessionIds /\ session[i].state = "open"
        /\ session[i].user = UserOf[t] /\ session[i].spot \in Spots
    BY <2>1 DEF OpenOf, BaseInv, Shapes, SessionShape
  <2>3. [IdleTab EXCEPT !.pc = "release", !.op = "checkout", !.spot = session[i].spot,
                        !.session = i] \in TabStates
    BY <2>2 DEF IdleTab, TabStates, TabPcs, Ops
  <2>4. TypeOK'
    BY <1>6, <2>1, <2>3 DEF BaseInv, TypeOK, CheckOutRequest
  <2>5. TabShape'
    BY <1>6, <2>1, <2>2 DEF BaseInv, TypeOK, Shapes, TabShape, Ops, CheckOutRequest, IdleTab
  <2>. QED  BY <1>6, <2>4, <2>5
    DEF BaseInv, Shapes, SessionShape, StaffShape, TickShape, NoOrphanSession,
        NoticesAreTrue, Exists, CheckOutRequest
<1>7. ASSUME NEW t \in Tabs, CheckOutRelease(t) PROVE BaseInv'
  <2> DEFINE i == tab[t].session
  <2>1. /\ i \in SessionIds /\ tab[t].spot \in Spots
        /\ session[i].state \in {"open", "closed"}
        /\ session[i].spot = tab[t].spot
        /\ Exists(tab[t].spot)
    BY <1>7 DEF CheckOutRelease, BaseInv, Shapes, TabShape, TypeOK, SessionRows,
                NoOrphanSession
  <2>2. /\ row' = [row EXCEPT ![tab[t].spot] = "free"]
        /\ session' = [session EXCEPT ![i].state = "closed"]
        /\ tab' = [tab EXCEPT ![t] = [@ EXCEPT !.pc = "reload"]]
        /\ UNCHANGED <<booked, notices, shown, staff, tick>>
    BY <1>7 DEF CheckOutRelease
  <2>3. /\ [session[i] EXCEPT !.state = "closed"] \in SessionRows
        /\ [tab[t] EXCEPT !.pc = "reload"] \in TabStates
    BY <2>1, TabMoves DEF BaseInv, TypeOK, SessionRows, TabPcs
  <2>4. TypeOK'
    BY <2>1, <2>2, <2>3 DEF BaseInv, TypeOK, RowStates, Statuses
  <2>5. SessionShape'
    BY <2>1, <2>2 DEF BaseInv, TypeOK, SessionRows, Shapes, SessionShape
  <2>6. TabShape'
    BY <1>7, <2>1, <2>2
    DEF CheckOutRelease, BaseInv, TypeOK, SessionRows, TabStates, Shapes, TabShape
  <2>7. StaffShape' /\ TickShape'
    BY <2>2 DEF BaseInv, Shapes, StaffShape, TickShape
  <2>8. NoOrphanSession'
    BY <2>1, <2>2
    DEF BaseInv, TypeOK, SessionRows, Shapes, SessionShape, NoOrphanSession, Exists, Statuses
  <2>9. NoticesAreTrue'
    BY <2>1, <2>2 DEF BaseInv, TypeOK, SessionRows, NoticesAreTrue, Ops
  <2>. QED  BY <2>4, <2>5, <2>6, <2>7, <2>8, <2>9 DEF BaseInv, Shapes
<1>8. ASSUME NEW t \in Tabs, CheckOutLost(t) PROVE BaseInv'
  <2>1. tab' \in [Tabs -> TabStates]
    BY <1>8, IdleTyped DEF BaseInv, TypeOK, CheckOutLost
  <2>2. TabShape'
    BY <1>8 DEF BaseInv, TypeOK, TabStates, Shapes, TabShape, CheckOutLost, IdleTab
  <2>. QED  BY <1>8, <2>1, <2>2, TabFrame DEF BaseInv, TypeOK, CheckOutLost
<1>9. ASSUME NEW t \in Tabs, Reload(t) PROVE BaseInv'
  <2>1. tab' \in [Tabs -> TabStates]
    BY <1>9, IdleTyped, TabMoves DEF BaseInv, TypeOK, TabPcs, Shapes, TabShape, Exists, Reload
  <2>2. TabShape'
    BY <1>9 DEF BaseInv, TypeOK, TabStates, Shapes, TabShape, Exists, Reload, IdleTab
  <2>. QED  BY <1>9, <2>1, <2>2, TabFrame DEF BaseInv, TypeOK, Reload
<1>10. ASSUME NEW t \in Tabs, Publish(t) PROVE BaseInv'
  <2>1. tab[t].sees \in Statuses
    BY <1>10 DEF Publish, BaseInv, Shapes, TabShape
  <2>2. tab' \in [Tabs -> TabStates] /\ shown' \in [Watched -> RowStates]
    BY <1>10, <2>1, TabMoves DEF BaseInv, TypeOK, TabPcs, RowStates, Publish, Show
  <2>3. TabShape'
    BY <1>10 DEF BaseInv, TypeOK, TabStates, Shapes, TabShape, Publish
  <2>. QED  BY <1>10, <2>2, <2>3, TabFrame DEF Publish
<1>11. ASSUME NEW t \in Tabs, Notify(t) PROVE BaseInv'
  <2>1. /\ tab[t].session \in SessionIds /\ tab[t].op \in Ops
        /\ session[tab[t].session].state # "unused"
        /\ tab[t].op = "checkout" => session[tab[t].session].state # "open"
    BY <1>11 DEF Notify, BaseInv, Shapes, TabShape
  <2>2. tab' \in [Tabs -> TabStates] /\ notices' \in [SessionIds -> [Ops -> Nat]]
    BY <1>11, <2>1, IdleTyped DEF Notify, BaseInv, TypeOK
  <2>3. TabShape'
    BY <1>11 DEF BaseInv, TypeOK, Shapes, TabShape, Notify, IdleTab
  <2>4. NoticesAreTrue'
    BY <1>11, <2>1 DEF Notify, BaseInv, TypeOK, NoticesAreTrue, Ops
  <2>. QED  BY <1>11, <2>2, <2>3, <2>4
    DEF Notify, BaseInv, TypeOK, Shapes, SessionShape, StaffShape, TickShape,
        NoOrphanSession, Exists
<1>12. ASSUME NEW t \in Tabs, FailTab(t) PROVE BaseInv'
  <2>1. tab' \in [Tabs -> TabStates]
    BY <1>12, IdleTyped DEF BaseInv, TypeOK, FailTab
  <2>2. TabShape'
    BY <1>12 DEF BaseInv, TypeOK, TabStates, Shapes, TabShape, FailTab, IdleTab
  <2>. QED  BY <1>12, <2>1, <2>2, TabFrame DEF BaseInv, TypeOK, FailTab
<1>13. ASSUME NEW w \in Staff, NEW s \in Spots, NEW e \in Edits, StaffUpdateRequest(w, s, e)
      PROVE BaseInv'
  <2> DEFINE status == IF e = KeepStatus THEN row[s] ELSE e
  <2>1. status \in Statuses
    BY <1>13, EditsType DEF StaffUpdateRequest, Exists
  <2>2. [pc |-> "write", spot |-> s, status |-> status] \in StaffStates
    BY <2>1 DEF StaffStates
  <2>3. staff' = [staff EXCEPT ![w] = [pc |-> "write", spot |-> s, status |-> status]]
    BY <1>13 DEF StaffUpdateRequest
  <2>4. staff' \in [Staff -> StaffStates] /\ StaffShape'
    BY <2>1, <2>2, <2>3 DEF BaseInv, TypeOK, Shapes, StaffShape
  <2>. QED  BY <1>13, <2>4, StaffFrame
    DEF StaffUpdateRequest, BaseInv, TypeOK, NoOrphanSession, Exists
<1>14. ASSUME NEW w \in Staff, NEW s \in Spots, NEW e \in Edits, StaffCreateSpot(w, s, e)
      PROVE BaseInv'
  <2>1. (IF e = KeepStatus THEN "free" ELSE e) \in Statuses
    BY EditsType DEF Statuses
  <2>2. row' \in [Spots -> RowStates] /\ NoOrphanSession'
    BY <1>14, <2>1 DEF StaffCreateSpot, BaseInv, TypeOK, RowStates, Shapes, SessionShape,
                      NoOrphanSession, Exists
  <2>3. staff' \in [Staff -> StaffStates] /\ StaffShape'
    BY <1>14 DEF StaffCreateSpot, IdleStaff, BaseInv, TypeOK, StaffStates, Shapes, StaffShape
  <2>. QED  BY <1>14, <2>2, <2>3, StaffFrame DEF StaffCreateSpot
<1>15. ASSUME NEW w \in Staff, NEW s \in Spots, StaffRemoveSpot(w, s) PROVE BaseInv'
  <2>1. TypeOK'
    <3>1. \A i \in SessionIds :
            [session[i] EXCEPT !.state = "deleted"] \in SessionRows
      BY DEF BaseInv, TypeOK, SessionRows
    <3>2. session' \in [SessionIds -> SessionRows]
      BY <1>15, <3>1 DEF BaseInv, TypeOK, StaffRemoveSpot, Drop
    <3>3. [IdleStaff EXCEPT !.pc = "audit"] \in StaffStates
      BY DEF IdleStaff, StaffStates
    <3>. QED  BY <1>15, <3>2, <3>3 DEF BaseInv, TypeOK, RowStates, StaffRemoveSpot, Drop
  <2>2. SessionShape'
    BY <1>15, NoneType DEF BaseInv, TypeOK, SessionRows, Shapes, SessionShape,
                           StaffRemoveSpot, Drop
  <2>3. TabShape'
    BY <1>15, NoneType DEF BaseInv, TypeOK, SessionRows, Shapes, TabShape,
                           StaffRemoveSpot, Drop
  <2>4. StaffShape' /\ TickShape'
    BY <1>15 DEF BaseInv, TypeOK, Shapes, StaffShape, TickShape, StaffRemoveSpot, IdleStaff
  <2>5. NoOrphanSession'
    BY <1>15, NoneType DEF BaseInv, TypeOK, SessionRows, Shapes, SessionShape,
         NoOrphanSession, Exists, Statuses, RowStates, StaffRemoveSpot, Drop
  <2>6. NoticesAreTrue'
    BY <1>15, NoneType DEF BaseInv, TypeOK, SessionRows, Shapes, SessionShape,
         NoticesAreTrue, StaffRemoveSpot, Drop
  <2>. QED  BY <2>1, <2>2, <2>3, <2>4, <2>5, <2>6 DEF BaseInv, Shapes
<1>16. ASSUME NEW w \in Staff, NEW S \in SUBSET Spots, StaffRemoveZone(w, S) PROVE BaseInv'
  <2>1. TypeOK'
    <3>1. \A i \in SessionIds :
            [session[i] EXCEPT !.state = "deleted"] \in SessionRows
      BY DEF BaseInv, TypeOK, SessionRows
    <3>2. session' \in [SessionIds -> SessionRows]
      BY <1>16, <3>1 DEF BaseInv, TypeOK, StaffRemoveZone, Drop
    <3>3. [IdleStaff EXCEPT !.pc = "audit"] \in StaffStates
      BY DEF IdleStaff, StaffStates
    <3>. QED  BY <1>16, <3>2, <3>3 DEF BaseInv, TypeOK, RowStates, StaffRemoveZone, Drop
  <2>2. SessionShape'
    BY <1>16, NoneType DEF BaseInv, TypeOK, SessionRows, Shapes, SessionShape,
                           StaffRemoveZone, Drop
  <2>3. TabShape'
    BY <1>16, NoneType DEF BaseInv, TypeOK, SessionRows, Shapes, TabShape,
                           StaffRemoveZone, Drop
  <2>4. StaffShape' /\ TickShape'
    BY <1>16 DEF BaseInv, TypeOK, Shapes, StaffShape, TickShape, StaffRemoveZone, IdleStaff
  <2>5. NoOrphanSession'
    BY <1>16, NoneType DEF BaseInv, TypeOK, SessionRows, Shapes, SessionShape,
         NoOrphanSession, Exists, Statuses, RowStates, StaffRemoveZone, Drop
  <2>6. NoticesAreTrue'
    BY <1>16, NoneType DEF BaseInv, TypeOK, SessionRows, Shapes, SessionShape,
         NoticesAreTrue, StaffRemoveZone, Drop
  <2>. QED  BY <2>1, <2>2, <2>3, <2>4, <2>5, <2>6 DEF BaseInv, Shapes
<1>17. ASSUME NEW w \in Staff, StaffUpdateWrite(w) PROVE BaseInv'
  <2>1. CASE Exists(staff[w].spot)
    <3>1. /\ row' = [row EXCEPT ![staff[w].spot] = staff[w].status]
          /\ staff' = [staff EXCEPT ![w] = [IdleStaff EXCEPT !.pc = "audit"]]
          /\ UNCHANGED <<session, booked, notices, shown, tab, tick>>
          /\ staff[w].spot \in Spots /\ staff[w].status \in Statuses
      BY <1>17, <2>1 DEF StaffUpdateWrite, BaseInv, Shapes, StaffShape
    <3>2. row' \in [Spots -> RowStates] /\ NoOrphanSession'
      BY <3>1 DEF BaseInv, TypeOK, RowStates, Shapes, SessionShape, NoOrphanSession, Exists
    <3>3. staff' \in [Staff -> StaffStates] /\ StaffShape'
      BY <3>1 DEF IdleStaff, BaseInv, TypeOK, StaffStates, Shapes, StaffShape
    <3>. QED  BY <3>1, <3>2, <3>3, StaffFrame
  <2>2. CASE ~Exists(staff[w].spot)
    <3>1. /\ staff' = [staff EXCEPT ![w] = IdleStaff]
          /\ UNCHANGED <<row, session, booked, notices, shown, tab, tick>>
      BY <1>17, <2>2 DEF StaffUpdateWrite
    <3>2. staff' \in [Staff -> StaffStates] /\ StaffShape'
      BY <3>1, IdleTyped DEF IdleStaff, BaseInv, TypeOK, Shapes, StaffShape
    <3>. QED  BY <3>1, <3>2, StaffFrame DEF BaseInv, TypeOK, NoOrphanSession, Exists
  <2>. QED  BY <2>1, <2>2
<1>18. ASSUME NEW w \in Staff, StaffRefused(w) \/ StaffAudit(w) PROVE BaseInv'
  <2>1. staff' \in [Staff -> StaffStates] /\ StaffShape'
    BY <1>18, IdleTyped DEF StaffRefused, StaffAudit, IdleStaff, BaseInv, TypeOK, Shapes, StaffShape
  <2>. QED  BY <1>18, <2>1, StaffFrame
    DEF StaffRefused, StaffAudit, BaseInv, TypeOK, NoOrphanSession, Exists
<1>19. ASSUME NEW w \in Staff, FailStaff(w) PROVE BaseInv'
  <2>1. staff' \in [Staff -> StaffStates] /\ StaffShape'
    BY <1>19, IdleTyped DEF FailStaff, IdleStaff, BaseInv, TypeOK, Shapes, StaffShape
  <2>. QED  BY <1>19, <2>1, StaffFrame DEF FailStaff, BaseInv, TypeOK, NoOrphanSession, Exists
<1>20. ASSUME NEW k \in Ticks, TickStart(k) PROVE BaseInv'
  <2>1. PICK S \in SUBSET Togglable :
          tick' = [tick EXCEPT ![k] = [IdleTick EXCEPT !.pc = "next",
                                         !.todo = {<<s, Toggle(row[s])>> : s \in S}]]
    BY <1>20 DEF TickStart
  <2>2. {<<s, Toggle(row[s])>> : s \in S} \in SUBSET (Spots \X {"free", "occupied"})
    BY <2>1 DEF Togglable, Toggle
  <2>3. [IdleTick EXCEPT !.pc = "next", !.todo = {<<s, Toggle(row[s])>> : s \in S}]
          \in TickStates
    BY <2>2 DEF IdleTick, TickStates
  <2>4. tick' \in [Ticks -> TickStates] /\ TickShape'
    BY <2>1, <2>3 DEF BaseInv, TypeOK, Shapes, TickShape, IdleTick
  <2>. QED  BY <1>20, <2>4, TickFrame DEF TickStart, BaseInv, TypeOK, NoOrphanSession, Exists
<1>21. ASSUME NEW k \in Ticks, NEW s \in Spots, NEW status \in {"free", "occupied"},
             TickUpdate(k, s, status)
      PROVE BaseInv'
  <2>1. CASE Exists(s)
    <3> DEFINE r == [pc |-> "record", spot |-> s, status |-> status,
                     todo |-> tick[k].todo \ {<<s, status>>}]
    <3>1. /\ row' = [row EXCEPT ![s] = status]
          /\ tick' = [tick EXCEPT ![k] = r]
          /\ UNCHANGED <<session, booked, notices, shown, tab, staff>>
      BY <1>21, <2>1 DEF TickUpdate
    <3>2. tick[k] \in TickStates /\ status \in Statuses
      BY DEF BaseInv, TypeOK, Statuses
    <3>3. r \in TickStates
      BY <3>2 DEF TickStates
    <3>4. tick' \in [Ticks -> TickStates] /\ TickShape'
      BY <3>1, <3>2, <3>3 DEF BaseInv, TypeOK, Shapes, TickShape
    <3>5. row' \in [Spots -> RowStates] /\ NoOrphanSession'
      BY <3>1, <3>2 DEF BaseInv, TypeOK, RowStates, Shapes, SessionShape, NoOrphanSession,
                        Exists
    <3>. QED  BY <3>1, <3>4, <3>5, TickFrame DEF BaseInv, TypeOK
  <2>2. CASE ~Exists(s)
    <3>1. /\ tick' = [tick EXCEPT ![k] = IdleTick]
          /\ UNCHANGED <<row, session, booked, notices, shown, tab, staff>>
      BY <1>21, <2>2 DEF TickUpdate
    <3>2. tick' \in [Ticks -> TickStates] /\ TickShape'
      BY <3>1, IdleTyped DEF IdleTick, BaseInv, TypeOK, Shapes, TickShape
    <3>. QED  BY <3>1, <3>2, TickFrame DEF BaseInv, TypeOK, NoOrphanSession, Exists
  <2>. QED  BY <2>1, <2>2
<1>22. ASSUME NEW k \in Ticks, TickRecord(k) PROVE BaseInv'
  <2>1. [tick[k] EXCEPT !.pc = "publish"] \in TickStates
    BY DEF BaseInv, TypeOK, TickStates
  <2>2. tick' \in [Ticks -> TickStates] /\ TickShape'
    BY <1>22, <2>1, IdleTyped
    DEF TickRecord, IdleTick, BaseInv, TypeOK, TickStates, Shapes, TickShape
  <2>. QED  BY <1>22, <2>2, TickFrame DEF TickRecord, BaseInv, TypeOK, NoOrphanSession, Exists
<1>23. ASSUME NEW k \in Ticks, TickPublish(k) PROVE BaseInv'
  <2>1. /\ tick[k].spot \in Spots /\ tick[k].status \in Statuses
        /\ tick[k] \in TickStates
    BY <1>23 DEF TickPublish, BaseInv, TypeOK, Shapes, TickShape
  <2>2. [tick[k] EXCEPT !.pc = "next", !.spot = None, !.status = None] \in TickStates
    BY <2>1 DEF TickStates
  <2>3. tick' \in [Ticks -> TickStates] /\ shown' \in [Watched -> RowStates]
    BY <1>23, <2>1, <2>2, IdleTyped DEF BaseInv, TypeOK, RowStates, TickPublish, Show
  <2>4. TickShape'
    BY <1>23, <2>1 DEF BaseInv, TypeOK, TickStates, Shapes, TickShape, TickPublish, IdleTick
  <2>. QED  BY <1>23, <2>3, <2>4, TickFrame DEF TickPublish, BaseInv, TypeOK,
                                               NoOrphanSession, Exists
<1>24. ASSUME NEW k \in Ticks, FailTick(k) PROVE BaseInv'
  <2>1. tick' \in [Ticks -> TickStates] /\ TickShape'
    BY <1>24, IdleTyped DEF FailTick, IdleTick, BaseInv, TypeOK, Shapes, TickShape
  <2>. QED  BY <1>24, <2>1, TickFrame DEF FailTick, BaseInv, TypeOK, NoOrphanSession, Exists
<1>25. ASSUME NEW B \in SUBSET Bookable, BookingChange(B) PROVE BaseInv'
  <2>1. booked' \subseteq Bookable
    BY <1>25 DEF BookingChange, BaseInv, TypeOK
  <2>. QED  BY <1>25, <2>1
    DEF BookingChange, BaseInv, TypeOK, Shapes, SessionShape, TabShape, StaffShape,
        TickShape, NoOrphanSession, NoticesAreTrue, Exists
<1>26. CASE UNCHANGED vars
  BY <1>26
  DEF vars, BaseInv, TypeOK, Shapes, SessionShape, TabShape, StaffShape, TickShape,
      NoOrphanSession, NoticesAreTrue, Exists
<1>. QED
  BY <1>1, <1>2, <1>3, <1>4, <1>5, <1>6, <1>7, <1>8, <1>9, <1>10, <1>11, <1>12, <1>13,
     <1>14, <1>15, <1>16, <1>17, <1>18, <1>19, <1>20, <1>21, <1>22, <1>23, <1>24, <1>25, <1>26
  DEF Next, TabNext, StaffNext, TickNext, TabStep, StaffStep, TickStep

-----------------------------------------------------------------------------
(* With one request in flight per citizen: what a check-in has read of its *)
(* citizen's sessions is still so, and nobody else closes the session a     *)
(* check-out has read.                                                     *)

ReadsHold ==
    \A t \in Tabs :
        /\ tab[t].pc \in {"booking", "claim"} =>
             \A i \in SessionIds :
                 session[i].state = "open" => session[i].user # UserOf[t]
        /\ tab[t].pc = "release" => session[tab[t].session].state # "closed"
        /\ tab[t].pc \in {"reload", "publish", "notify"} =>
             notices[tab[t].session][tab[t].op] = 0

UserInv == OneSpotPerUser /\ OneNoticePerEvent /\ ReadsHold

(* In the serial regime, what is known of the spots. *)

StaffWritesNoFree ==
    \A w \in Staff : staff[w].pc = "write" => staff[w].status # "free"

SpotInv == OneCarPerSpot /\ ParkedSpotNotFree /\ TickIsHarmless /\ StaffWritesNoFree

LEMMA UserStep ==
    ASSUME OneTabPerUser, BaseInv, UserInv, [Next]_vars PROVE UserInv'
<1>. USE DEF UserInv, BaseInv
<1>1. ASSUME NEW t \in Tabs, NEW s \in Spots, CheckInRequest(t, s) PROVE UserInv'
  BY <1>1 DEF OneSpotPerUser, OneNoticePerEvent, ReadsHold, TypeOK, CheckInRequest, IdleTab
<1>2. ASSUME NEW t \in Tabs, CheckInReadSession(t) PROVE UserInv'
  BY <1>2 DEF OneSpotPerUser, OneNoticePerEvent, ReadsHold, TypeOK, TabStates,
              CheckInReadSession, OpenOf, IdleTab
<1>3. ASSUME NEW t \in Tabs, CheckInReadBooking(t) PROVE UserInv'
  BY <1>3 DEF OneSpotPerUser, OneNoticePerEvent, ReadsHold, TypeOK, TabStates,
              CheckInReadBooking, IdleTab
<1>4. ASSUME NEW t \in Tabs, CheckInRefused(t) PROVE UserInv'
  BY <1>4 DEF OneSpotPerUser, OneNoticePerEvent, ReadsHold, TypeOK, CheckInRefused, IdleTab
<1>5. ASSUME NEW t \in Tabs, CheckInClaim(t) PROVE UserInv'
  <2>1. PICK i \in Unused :
          /\ session' = [session EXCEPT ![i] = [state |-> "open", user |-> UserOf[t],
                                               spot |-> tab[t].spot]]
          /\ tab' = [tab EXCEPT ![t] = [@ EXCEPT !.pc = "reload", !.session = i]]
    BY <1>5 DEF CheckInClaim
  <2>2. /\ tab[t].pc = "claim" /\ tab[t].op = "checkin"
        /\ UNCHANGED notices
        /\ i \in SessionIds /\ session[i].state = "unused"
        /\ notices[i]["checkin"] = 0
    BY <1>5, <2>1 DEF CheckInClaim, Unused, Shapes, TabShape, NoticesAreTrue, Ops
  <2>3. OneSpotPerUser'
    BY <2>1, <2>2 DEF TypeOK, OneSpotPerUser, ReadsHold
  <2>4. ReadsHold'
    BY <2>1, <2>2, UserOfType
    DEF OneTabPerUser, TypeOK, TabStates, Shapes, TabShape, ReadsHold
  <2>. QED  BY <2>2, <2>3, <2>4 DEF OneNoticePerEvent
<1>6. ASSUME NEW t \in Tabs, CheckOutRequest(t) PROVE UserInv'
  BY <1>6 DEF OneSpotPerUser, OneNoticePerEvent, ReadsHold, TypeOK, CheckOutRequest,
              OpenOf, IdleTab
<1>7. ASSUME NEW t \in Tabs, CheckOutRelease(t) PROVE UserInv'
  <2>1. /\ tab[t].session \in SessionIds
        /\ session[tab[t].session].state = "open"
        /\ tab[t].op = "checkout"
        /\ notices[tab[t].session]["checkout"] = 0
    BY <1>7 DEF CheckOutRelease, TypeOK, SessionRows, Shapes, TabShape, ReadsHold,
                NoticesAreTrue
  <2>2. OneSpotPerUser'
    BY <1>7, <2>1 DEF CheckOutRelease, TypeOK, SessionRows, OneSpotPerUser
  <2>3. ReadsHold'
    BY <1>7, <2>1, UserOfType
    DEF CheckOutRelease, OneTabPerUser, TypeOK, SessionRows, TabStates, Shapes, TabShape,
        ReadsHold
  <2>. QED  BY <1>7, <2>2, <2>3 DEF OneNoticePerEvent, CheckOutRelease
<1>8. ASSUME NEW t \in Tabs, CheckOutLost(t) PROVE UserInv'
  BY <1>8 DEF OneSpotPerUser, OneNoticePerEvent, ReadsHold, TypeOK, CheckOutLost, IdleTab
<1>9. ASSUME NEW t \in Tabs, Reload(t) PROVE UserInv'
  BY <1>9 DEF OneSpotPerUser, OneNoticePerEvent, ReadsHold, TypeOK, TabStates, Reload, IdleTab
<1>10. ASSUME NEW t \in Tabs, Publish(t) PROVE UserInv'
  BY <1>10 DEF OneSpotPerUser, OneNoticePerEvent, ReadsHold, TypeOK, TabStates, Publish
<1>11. ASSUME NEW t \in Tabs, Notify(t) PROVE UserInv'
  <2>1. /\ tab[t].session \in SessionIds /\ tab[t].op \in Ops
        /\ notices[tab[t].session][tab[t].op] = 0
        /\ session[tab[t].session].user = UserOf[t]
    BY <1>11 DEF Notify, Shapes, TabShape, ReadsHold
  <2>2. OneNoticePerEvent'
    BY <1>11, <2>1 DEF Notify, TypeOK, OneNoticePerEvent
  <2>3. ReadsHold'
    BY <1>11, <2>1, UserOfType
    DEF Notify, OneTabPerUser, TypeOK, TabStates, Shapes, TabShape, ReadsHold, IdleTab
  <2>. QED  BY <1>11, <2>2, <2>3 DEF Notify, OneSpotPerUser
<1>12. ASSUME NEW t \in Tabs, FailTab(t) PROVE UserInv'
  BY <1>12 DEF OneSpotPerUser, OneNoticePerEvent, ReadsHold, TypeOK, FailTab, IdleTab
<1>13. ASSUME NEW S \in SUBSET Spots, Drop(S), UNCHANGED <<notices, tab>> PROVE UserInv'
  BY <1>13 DEF OneSpotPerUser, OneNoticePerEvent, ReadsHold, TypeOK, SessionRows, Shapes,
               TabShape, Drop
<1>14. CASE UNCHANGED <<session, notices, tab>>
  BY <1>14 DEF OneSpotPerUser, OneNoticePerEvent, ReadsHold
<1>15. CASE \E w \in Staff : \/ \E s \in Spots : StaffRemoveSpot(w, s)
                             \/ \E S \in SUBSET Spots : StaffRemoveZone(w, S)
  BY <1>13, <1>15 DEF StaffRemoveSpot, StaffRemoveZone
<1>16. CASE \/ \E w \in Staff : \/ \E s \in Spots, e \in Edits : \/ StaffUpdateRequest(w, s, e)
                                                                 \/ StaffCreateSpot(w, s, e)
                                \/ StaffStep(w)
                                \/ FailStaff(w)
            \/ \E k \in Ticks : TickStart(k) \/ TickStep(k) \/ FailTick(k)
            \/ \E B \in SUBSET Bookable : BookingChange(B)
            \/ UNCHANGED vars
  BY <1>14, <1>16 DEF StaffUpdateRequest, StaffCreateSpot, StaffStep, StaffUpdateWrite,
       StaffRefused, StaffAudit, FailStaff, TickStart, TickStep, TickUpdate, TickRecord, TickPublish,
       FailTick, BookingChange, vars
<1>. QED
  BY <1>1, <1>2, <1>3, <1>4, <1>5, <1>6, <1>7, <1>8, <1>9, <1>10, <1>11, <1>12, <1>15, <1>16
  DEF Next, TabNext, StaffNext, TickNext, TabStep

LEMMA SpotStep ==
    ASSUME Serial, BaseInv, UserInv, SpotInv, [Next]_vars PROVE SpotInv'
<1>. USE DEF SpotInv, BaseInv
<1>1. ASSUME NEW t \in Tabs, CheckInClaim(t) PROVE SpotInv'
  <2>1. PICK i \in Unused :
          session' = [session EXCEPT ![i] = [state |-> "open", user |-> UserOf[t],
                                            spot |-> tab[t].spot]]
    BY <1>1 DEF CheckInClaim
  <2>2. /\ i \in SessionIds /\ tab[t].spot \in Spots /\ row[tab[t].spot] = "free"
        /\ row' = [row EXCEPT ![tab[t].spot] = "occupied"]
        /\ UNCHANGED <<staff, tick>>
    BY <1>1, <2>1 DEF CheckInClaim, Unused, Shapes, TabShape
  <2>3. OneCarPerSpot'
    BY <2>1, <2>2 DEF TypeOK, OneCarPerSpot, ParkedSpotNotFree
  <2>4. ParkedSpotNotFree'
    BY <2>1, <2>2 DEF TypeOK, Shapes, SessionShape, ParkedSpotNotFree
  <2>5. TickIsHarmless'
    BY <2>1, <2>2 DEF TypeOK, TickIsHarmless, OpenAt
  <2>. QED  BY <2>2, <2>3, <2>4, <2>5 DEF StaffWritesNoFree
<1>2. ASSUME NEW t \in Tabs, CheckOutRelease(t) PROVE SpotInv'
  <2> DEFINE i == tab[t].session
  <2>1. /\ i \in SessionIds /\ session[i].state = "open"
        /\ tab[t].spot \in Spots /\ session[i].spot = tab[t].spot
        /\ row' = [row EXCEPT ![tab[t].spot] = "free"]
        /\ session' = [session EXCEPT ![i].state = "closed"]
        /\ UNCHANGED <<staff, tick>>
    BY <1>2 DEF CheckOutRelease, TypeOK, SessionRows, Shapes, TabShape, UserInv, ReadsHold
  <2>2. OneCarPerSpot'
    BY <2>1 DEF TypeOK, SessionRows, OneCarPerSpot
  <2>3. ParkedSpotNotFree'
    BY <2>1 DEF TypeOK, SessionRows, Shapes, SessionShape, OneCarPerSpot, ParkedSpotNotFree
  <2>4. TickIsHarmless'
    BY <2>1 DEF TypeOK, SessionRows, TickIsHarmless, OpenAt
  <2>. QED  BY <2>1, <2>2, <2>3, <2>4 DEF StaffWritesNoFree
<1>3. ASSUME NEW w \in Staff, NEW s \in Spots, NEW e \in Edits, StaffUpdateRequest(w, s, e)
      PROVE SpotInv'
  BY <1>3 DEF Serial, StaffNeverFrees, TypeOK, StaffUpdateRequest, OneCarPerSpot,
              ParkedSpotNotFree, TickIsHarmless, OpenAt, StaffWritesNoFree
<1>4. ASSUME NEW w \in Staff, NEW s \in Spots, NEW e \in Edits, StaffCreateSpot(w, s, e)
      PROVE SpotInv'
  <2>1. \A i \in SessionIds : session[i].state = "open" => session[i].spot # s
    BY <1>4 DEF StaffCreateSpot, NoOrphanSession, Exists, Statuses
  <2>. QED  BY <1>4, <2>1
    DEF Serial, StaffNeverFrees, TypeOK, StaffCreateSpot, IdleStaff, OneCarPerSpot,
        ParkedSpotNotFree, TickIsHarmless, OpenAt, StaffWritesNoFree
<1>5. ASSUME NEW w \in Staff, NEW S \in SUBSET Spots, Drop(S), UNCHANGED tick,
             staff' = [staff EXCEPT ![w] = [IdleStaff EXCEPT !.pc = "audit"]]
      PROVE SpotInv'
  <2>1. OneCarPerSpot' /\ ParkedSpotNotFree'
    BY <1>5 DEF TypeOK, SessionRows, Shapes, SessionShape, Drop, OneCarPerSpot,
                ParkedSpotNotFree
  <2>2. TickIsHarmless'
    BY <1>5 DEF TypeOK, SessionRows, Drop, TickIsHarmless, OpenAt
  <2>. QED  BY <1>5, <2>1, <2>2 DEF TypeOK, IdleStaff, StaffWritesNoFree
<1>6. ASSUME NEW w \in Staff, StaffUpdateWrite(w) PROVE SpotInv'
  <2>1. CASE Exists(staff[w].spot)
    <3>1. /\ staff[w].spot \in Spots /\ staff[w].status \in Statuses \ {"free"}
          /\ row' = [row EXCEPT ![staff[w].spot] = staff[w].status]
          /\ staff' = [staff EXCEPT ![w] = [IdleStaff EXCEPT !.pc = "audit"]]
          /\ UNCHANGED <<session, tick>>
      BY <1>6, <2>1 DEF StaffUpdateWrite, Shapes, StaffShape, StaffWritesNoFree
    <3>2. ParkedSpotNotFree' /\ OneCarPerSpot'
      BY <3>1 DEF TypeOK, Shapes, SessionShape, ParkedSpotNotFree, OneCarPerSpot
    <3>3. TickIsHarmless'
      BY <3>1 DEF TypeOK, TickIsHarmless, OpenAt, Statuses
    <3>. QED  BY <3>1, <3>2, <3>3 DEF TypeOK, StaffWritesNoFree, IdleStaff
  <2>2. CASE ~Exists(staff[w].spot)
    BY <1>6, <2>2 DEF StaffUpdateWrite, IdleStaff, TypeOK, OneCarPerSpot, ParkedSpotNotFree,
                      TickIsHarmless, OpenAt, StaffWritesNoFree
  <2>. QED  BY <2>1, <2>2
<1>7. ASSUME NEW w \in Staff, StaffRefused(w) \/ StaffAudit(w) \/ FailStaff(w) PROVE SpotInv'
  BY <1>7 DEF StaffRefused, StaffAudit, FailStaff, IdleStaff, TypeOK, OneCarPerSpot, ParkedSpotNotFree,
              TickIsHarmless, OpenAt, StaffWritesNoFree
<1>8. ASSUME NEW k \in Ticks, TickStart(k) PROVE SpotInv'
  <2>1. PICK S \in SUBSET Togglable :
          tick' = [tick EXCEPT ![k] = [IdleTick EXCEPT !.pc = "next",
                                         !.todo = {<<s, Toggle(row[s])>> : s \in S}]]
    BY <1>8 DEF TickStart
  <2>2. ASSUME NEW s \in Spots, <<s, "free">> \in {<<r, Toggle(row[r])>> : r \in S}
        PROVE  OpenAt(s) = {} /\ row[s] = "occupied"
    BY <2>1, <2>2 DEF Togglable, Toggle
  <2>3. TickIsHarmless'
    BY <1>8, <2>1, <2>2 DEF TickStart, IdleTick, TypeOK, TickIsHarmless, OpenAt
  <2>. QED  BY <1>8, <2>3 DEF TickStart, OneCarPerSpot, ParkedSpotNotFree, StaffWritesNoFree
<1>9. ASSUME NEW k \in Ticks, NEW s \in Spots, NEW status \in {"free", "occupied"},
             TickUpdate(k, s, status)
      PROVE SpotInv'
  <2>1. CASE Exists(s)
    <3>1. /\ row' = [row EXCEPT ![s] = status]
          /\ tick' = [tick EXCEPT ![k] = [pc |-> "record", spot |-> s, status |-> status,
                                          todo |-> @.todo \ {<<s, status>>}]]
          /\ UNCHANGED <<session, staff>>
          /\ <<s, status>> \in tick[k].todo
      BY <1>9, <2>1 DEF TickUpdate
    <3>2. ParkedSpotNotFree'
      BY <3>1 DEF TypeOK, Shapes, SessionShape, ParkedSpotNotFree, TickIsHarmless, OpenAt
    <3>3. TickIsHarmless'
      BY <3>1 DEF Serial, OneTickAtATime, TypeOK, TickIsHarmless, OpenAt
    <3>. QED  BY <3>1, <3>2, <3>3 DEF OneCarPerSpot, StaffWritesNoFree
  <2>2. CASE ~Exists(s)
    BY <1>9, <2>2 DEF TickUpdate, IdleTick, TypeOK, OneCarPerSpot, ParkedSpotNotFree,
                      TickIsHarmless, OpenAt, StaffWritesNoFree
  <2>. QED  BY <2>1, <2>2
<1>10. ASSUME NEW k \in Ticks, TickRecord(k) \/ TickPublish(k) \/ FailTick(k) PROVE SpotInv'
  <2>1. /\ tick[k] \in TickStates
        /\ UNCHANGED <<row, session, staff>>
        /\ \/ tick' = [tick EXCEPT ![k] = [@ EXCEPT !.pc = "publish"]]
           \/ tick' = [tick EXCEPT ![k] = [@ EXCEPT !.pc = "next", !.spot = None,
                                                    !.status = None]]
           \/ tick' = [tick EXCEPT ![k] = IdleTick]
    BY <1>10 DEF TickRecord, TickPublish, FailTick, TypeOK
  <2>2. /\ [tick[k] EXCEPT !.pc = "publish"].todo = tick[k].todo
        /\ [tick[k] EXCEPT !.pc = "next", !.spot = None, !.status = None].todo = tick[k].todo
        /\ IdleTick.todo = {}
    BY <2>1 DEF IdleTick, TickStates
  <2>3. \A l \in Ticks : (tick'[l].todo = tick[l].todo) \/ (tick'[l].todo = {})
    BY <2>1, <2>2 DEF TypeOK
  <2>. QED  BY <2>1, <2>3 DEF OneCarPerSpot, ParkedSpotNotFree, TickIsHarmless, OpenAt,
                             StaffWritesNoFree
<1>11. CASE UNCHANGED <<row, session, staff, tick>>
  BY <1>11 DEF OneCarPerSpot, ParkedSpotNotFree, TickIsHarmless, OpenAt, StaffWritesNoFree
<1>12. CASE \E w \in Staff : \/ \E s \in Spots : StaffRemoveSpot(w, s)
                             \/ \E S \in SUBSET Spots : StaffRemoveZone(w, S)
  BY <1>5, <1>12 DEF StaffRemoveSpot, StaffRemoveZone
<1>13. CASE \/ \E t \in Tabs : \/ \E s \in Spots : CheckInRequest(t, s)
                               \/ CheckInReadSession(t) \/ CheckInReadBooking(t)
                               \/ CheckInRefused(t) \/ CheckOutRequest(t) \/ CheckOutLost(t)
                               \/ Reload(t) \/ Publish(t) \/ Notify(t) \/ FailTab(t)
            \/ \E B \in SUBSET Bookable : BookingChange(B)
            \/ UNCHANGED vars
  BY <1>11, <1>13 DEF CheckInRequest, CheckInReadSession, CheckInReadBooking, CheckInRefused,
       CheckOutRequest, CheckOutLost, Reload, Publish, Notify, FailTab, BookingChange, vars
<1>. QED
  BY <1>1, <1>2, <1>3, <1>4, <1>6, <1>7, <1>8, <1>9, <1>10, <1>12, <1>13
  DEF Next, TabNext, StaffNext, TickNext, TabStep, StaffStep, TickStep

-----------------------------------------------------------------------------
(* The theorems. *)

LEMMA BaseInit == Init => BaseInv
<1>. SUFFICES ASSUME Init PROVE BaseInv
  OBVIOUS
<1>1. NoSession \in SessionRows
  BY DEF NoSession, SessionRows
<1>2. TypeOK
  <2>1. row \in [Spots -> RowStates] /\ shown \in [Watched -> RowStates]
    BY WatchedType DEF Init, RowStates, Statuses
  <2>2. notices \in [SessionIds -> [Ops -> Nat]] /\ booked \subseteq Bookable
    BY DEF Init
  <2>. QED  BY <1>1, <2>1, <2>2, IdleTyped DEF Init, TypeOK
<1>3. Shapes
  BY DEF Init, Shapes, SessionShape, TabShape, StaffShape, TickShape, NoSession, IdleTab,
         IdleStaff, IdleTick
<1>. QED
  BY <1>2, <1>3 DEF Init, BaseInv, NoOrphanSession, NoticesAreTrue, NoSession

\* What the handlers keep true of the rows whatever the regime.
THEOREM BaseInvariant == Spec => []BaseInv
  BY BaseInit, BaseStep, PTL DEF Spec

\* Every row, local state and counter keeps its type.
THEOREM TypeCorrect == Spec => []TypeOK
  BY BaseInvariant, PTL DEF BaseInv

\* However requests, ticks, staff and failures interleave, no session on record
\* belongs to a spot that is gone.
THEOREM NoOrphan == Spec => []NoOrphanSession
  BY BaseInvariant, PTL DEF BaseInv

\* However they interleave, nobody is notified of what is not committed.
THEOREM TrueNotices == Spec => []NoticesAreTrue
  BY BaseInvariant, PTL DEF BaseInv

LEMMA UserInvariant == ASSUME OneTabPerUser PROVE Spec => []UserInv
<1>1. Init => UserInv
  BY DEF Init, UserInv, OneSpotPerUser, OneNoticePerEvent, ReadsHold, NoSession, IdleTab
<1>2. BaseInv /\ UserInv /\ [Next]_vars => UserInv'
  BY UserStep
<1>. QED  BY BaseInvariant, <1>1, <1>2, PTL DEF Spec

\* With one request in flight per citizen, and whatever staff, ticks and
\* failures do: one spot for each citizen.
THEOREM OnePerUser == OneTabPerUser => (Spec => []OneSpotPerUser)
<1>. SUFFICES ASSUME OneTabPerUser PROVE Spec => []OneSpotPerUser
  OBVIOUS
<1>1. UserInv => OneSpotPerUser
  BY DEF UserInv
<1>. QED  BY UserInvariant, <1>1, PTL

\* Under the same condition: one notification for each check-in and each check-out.
THEOREM ToldOnce == OneTabPerUser => (Spec => []OneNoticePerEvent)
<1>. SUFFICES ASSUME OneTabPerUser PROVE Spec => []OneNoticePerEvent
  OBVIOUS
<1>1. UserInv => OneNoticePerEvent
  BY DEF UserInv
<1>. QED  BY UserInvariant, <1>1, PTL

LEMMA SerialInit == Init => UserInv /\ SpotInv
  BY DEF Init, UserInv, OneSpotPerUser, OneNoticePerEvent, ReadsHold, NoSession, IdleTab,
         SpotInv, OneCarPerSpot, ParkedSpotNotFree, TickIsHarmless, StaffWritesNoFree,
         IdleStaff, IdleTick

LEMMA SerialInvariant == ASSUME Serial PROVE Spec => [](UserInv /\ SpotInv)
<1>1. Init => UserInv /\ SpotInv
  BY SerialInit
<1>2. BaseInv /\ UserInv /\ SpotInv /\ [Next]_vars => UserInv' /\ SpotInv'
  BY UserStep, SpotStep DEF Serial
<1>. QED  BY BaseInvariant, <1>1, <1>2, PTL DEF Spec

\* In the serial regime a spot has one car: the swap of check-in is refused wherever
\* somebody is parked, for there the status is never free.
THEOREM OneCarOnSpot == Serial => (Spec => []OneCarPerSpot)
<1>. SUFFICES ASSUME Serial PROVE Spec => []OneCarPerSpot
  OBVIOUS
<1>1. SpotInv => OneCarPerSpot
  BY DEF SpotInv
<1>. QED  BY SerialInvariant, <1>1, PTL

\* In the serial regime a spot is not offered while somebody is checked in to it: no
\* sensor, no staff member and no other citizen's check-out sets it free.
THEOREM NeverOfferedWhileParked == Serial => (Spec => []ParkedSpotNotFree)
<1>. SUFFICES ASSUME Serial PROVE Spec => []ParkedSpotNotFree
  OBVIOUS
<1>1. SpotInv => ParkedSpotNotFree
  BY DEF SpotInv
<1>. QED  BY SerialInvariant, <1>1, PTL

\* In the serial regime the list of a tick, though read several awaits before it is
\* used, frees no spot that somebody is checked in to.
THEOREM TicksHarmless == Serial => (Spec => []TickIsHarmless)
<1>. SUFFICES ASSUME Serial PROVE Spec => []TickIsHarmless
  OBVIOUS
<1>1. SpotInv => TickIsHarmless
  BY DEF SpotInv
<1>. QED  BY SerialInvariant, <1>1, PTL

-----------------------------------------------------------------------------
(* Steps: sessions only move forward, and the handlers implement the lot.  *)

\* The only steps that touch sessions open one, close one, or drop those of
\* spots that are removed.
LEMMA SessionSteps ==
    ASSUME BaseInv, [Next]_vars
    PROVE  \/ \E t \in Tabs : CheckInClaim(t) \/ CheckOutRelease(t)
           \/ \E S \in SUBSET Spots : Drop(S)
           \/ /\ UNCHANGED session
              /\ \A s \in Spots : row'[s] = "deleted" <=> row[s] = "deleted"
<1>1. ASSUME NEW w \in Staff, NEW s \in Spots, NEW e \in Edits, StaffCreateSpot(w, s, e)
      PROVE  /\ UNCHANGED session
             /\ \A x \in Spots : row'[x] = "deleted" <=> row[x] = "deleted"
  BY <1>1, EditsType DEF StaffCreateSpot, BaseInv, TypeOK, Statuses, KeepStatus
<1>2. ASSUME NEW w \in Staff, StaffUpdateWrite(w)
      PROVE  /\ UNCHANGED session
             /\ \A x \in Spots : row'[x] = "deleted" <=> row[x] = "deleted"
  BY <1>2 DEF StaffUpdateWrite, BaseInv, TypeOK, Shapes, StaffShape, Statuses, Exists
<1>3. ASSUME NEW k \in Ticks, NEW s \in Spots, NEW status \in {"free", "occupied"},
             TickUpdate(k, s, status)
      PROVE  /\ UNCHANGED session
             /\ \A x \in Spots : row'[x] = "deleted" <=> row[x] = "deleted"
  BY <1>3 DEF TickUpdate, BaseInv, TypeOK, Statuses, Exists
<1>4. ASSUME NEW w \in Staff,
             \/ \E s \in Spots : StaffRemoveSpot(w, s)
             \/ \E S \in SUBSET Spots : StaffRemoveZone(w, S)
      PROVE  \E S \in SUBSET Spots : Drop(S)
  BY <1>4 DEF StaffRemoveSpot, StaffRemoveZone
<1>5. CASE \/ \E t \in Tabs : \/ \E s \in Spots : CheckInRequest(t, s)
                              \/ CheckInReadSession(t) \/ CheckInReadBooking(t)
                              \/ CheckInRefused(t) \/ CheckOutRequest(t) \/ CheckOutLost(t)
                              \/ Reload(t) \/ Publish(t) \/ Notify(t) \/ FailTab(t)
           \/ \E w \in Staff : \/ \E s \in Spots, e \in Edits : StaffUpdateRequest(w, s, e)
                               \/ StaffRefused(w) \/ StaffAudit(w) \/ FailStaff(w)
           \/ \E k \in Ticks : TickStart(k) \/ TickRecord(k) \/ TickPublish(k) \/ FailTick(k)
           \/ \E B \in SUBSET Bookable : BookingChange(B)
           \/ UNCHANGED vars
  BY <1>5 DEF CheckInRequest, CheckInReadSession, CheckInReadBooking, CheckInRefused,
       CheckOutRequest, CheckOutLost, Reload, Publish, Notify, FailTab, StaffUpdateRequest,
       StaffRefused, StaffAudit, FailStaff, TickStart, TickRecord, TickPublish, FailTick,
       BookingChange, vars
<1>. QED
  BY <1>1, <1>2, <1>3, <1>4, <1>5
  DEF Next, TabNext, StaffNext, TickNext, TabStep, StaffStep, TickStep

\* However requests, ticks, staff and failures interleave, a session never
\* changes hands and is never opened again.
THEOREM MoveForward == Spec => SessionsMoveForward
<1>1. ASSUME BaseInv, [Next]_vars PROVE SessionsForward
  <2>1. ASSUME NEW t \in Tabs, CheckInClaim(t) PROVE SessionsForward
    BY <1>1, <2>1 DEF CheckInClaim, Unused, BaseInv, TypeOK, SessionsForward
  <2>2. ASSUME NEW t \in Tabs, CheckOutRelease(t) PROVE SessionsForward
    BY <1>1, <2>2 DEF CheckOutRelease, BaseInv, TypeOK, SessionRows, SessionsForward
  <2>3. ASSUME NEW S \in SUBSET Spots, Drop(S) PROVE SessionsForward
    BY <1>1, <2>3 DEF Drop, BaseInv, TypeOK, SessionRows, SessionsForward
  <2>4. CASE UNCHANGED session
    BY <2>4 DEF SessionsForward
  <2>. QED  BY <1>1, <2>1, <2>2, <2>3, <2>4, SessionSteps
<1>. QED  BY BaseInvariant, <1>1, PTL DEF Spec, SessionsMoveForward

\* In the serial regime check-in, check-out, ticks and staff implement the lot:
\* nobody gets a spot that is somebody's, and nobody loses theirs but by leaving
\* or with the spot itself.
THEOREM ImplementsLot == Serial => (Spec => LotSpec)
<1>. SUFFICES ASSUME Serial PROVE Spec => LotSpec
  OBVIOUS
<1>1. Init => Lot!Init
  BY DEF Init, Lot!Init, Parked, Gone, NoSession
<1>2. ASSUME BaseInv, UserInv, SpotInv, [Next]_vars PROVE [Lot!Next]_(Lot!lotVars)
  <2>1. ASSUME NEW t \in Tabs, CheckInClaim(t) PROVE Lot!Next
    <3>1. PICK i \in Unused :
            session' = [session EXCEPT ![i] = [state |-> "open", user |-> UserOf[t],
                                              spot |-> tab[t].spot]]
      BY <2>1 DEF CheckInClaim
    <3>2. /\ i \in SessionIds /\ session[i].state = "unused"
          /\ UserOf[t] \in Users /\ tab[t].spot \in Spots
          /\ row[tab[t].spot] = "free"
          /\ row' = [row EXCEPT ![tab[t].spot] = "occupied"]
          /\ \A j \in SessionIds : session[j].state = "open" =>
                /\ session[j].user # UserOf[t] /\ session[j].spot # tab[t].spot
      BY <1>2, <2>1, <3>1, UserOfType
      DEF CheckInClaim, Unused, BaseInv, Shapes, TabShape, UserInv, ReadsHold, SpotInv,
          ParkedSpotNotFree
    <3>3. Gone' = Gone /\ tab[t].spot \notin Gone
      BY <1>2, <3>2 DEF Gone, BaseInv, TypeOK
    <3>4. Parked' = Parked \cup {<<tab[t].spot, UserOf[t]>>}
      BY <1>2, <3>1, <3>2 DEF Parked, BaseInv, TypeOK
    <3>5. /\ \A v \in Users : <<tab[t].spot, v>> \notin Parked
          /\ \A r \in Spots : <<r, UserOf[t]>> \notin Parked
      BY <3>2 DEF Parked
    <3>6. Lot!Park(UserOf[t], tab[t].spot)
      BY <3>3, <3>4, <3>5 DEF Lot!Park
    <3>. QED  BY <3>2, <3>6 DEF Lot!Next
  <2>2. ASSUME NEW t \in Tabs, CheckOutRelease(t) PROVE Lot!Next
    <3> DEFINE i == tab[t].session
    <3>1. /\ i \in SessionIds /\ session[i].state = "open"
          /\ session[i].user = UserOf[t] /\ session[i].spot = tab[t].spot
          /\ UserOf[t] \in Users /\ tab[t].spot \in Spots
          /\ row' = [row EXCEPT ![tab[t].spot] = "free"]
          /\ session' = [session EXCEPT ![i].state = "closed"]
      BY <1>2, <2>2, UserOfType
      DEF CheckOutRelease, BaseInv, TypeOK, SessionRows, Shapes, TabShape, UserInv, ReadsHold
    <3>2. /\ row[tab[t].spot] # "deleted"
          /\ \A j \in SessionIds : session[j].state = "open" /\ j # i =>
                session[j].spot # tab[t].spot
      BY <1>2, <3>1
      DEF BaseInv, NoOrphanSession, Exists, Statuses, SpotInv, OneCarPerSpot
    <3>3. Gone' = Gone
      BY <1>2, <3>1, <3>2 DEF Gone, BaseInv, TypeOK
    <3>4. /\ \A j \in SessionIds : session'[j].state = "open" <=>
                                     session[j].state = "open" /\ j # i
          /\ \A j \in SessionIds : /\ session'[j].spot = session[j].spot
                                   /\ session'[j].user = session[j].user
      BY <1>2, <3>1, <3>2 DEF BaseInv, TypeOK, SessionRows
    <3>5. Parked' = Parked \ {<<tab[t].spot, UserOf[t]>>}
      BY <3>1, <3>2, <3>4 DEF Parked
    <3>6. <<tab[t].spot, UserOf[t]>> \in Parked
      BY <3>1, <3>2 DEF Parked
    <3>7. Lot!Leave(UserOf[t], tab[t].spot)
      BY <3>3, <3>5, <3>6 DEF Lot!Leave
    <3>. QED  BY <3>1, <3>2, <3>7 DEF Lot!Next
  <2>3. ASSUME NEW S \in SUBSET Spots, Drop(S) PROVE Lot!Next
    <3>1. Gone' = Gone \cup S
      BY <1>2, <2>3 DEF Drop, Gone, BaseInv, TypeOK
    <3>2. \A j \in SessionIds :
            /\ session'[j].spot = session[j].spot /\ session'[j].user = session[j].user
            /\ session'[j].state = "open" <=>
                 session[j].state = "open" /\ session[j].spot \notin S
      BY <1>2, <2>3 DEF Drop, BaseInv, TypeOK, SessionRows
    <3>3. Parked' = {p \in Parked : p[1] \notin S}
      BY <3>2 DEF Parked
    <3>. QED  BY <3>1, <3>3 DEF Lot!Next, Lot!Remove
  <2>4. CASE UNCHANGED session /\ \A s \in Spots : row'[s] = "deleted" <=> row[s] = "deleted"
    BY <2>4 DEF Lot!lotVars, Parked, Gone
  <2>. QED  BY <1>2, <2>1, <2>2, <2>3, <2>4, SessionSteps
<1>. QED  BY BaseInvariant, SerialInvariant, <1>1, <1>2, PTL DEF Spec, LotSpec, Lot!Spec

-----------------------------------------------------------------------------
(* The lot itself. *)

\* However citizens park, leave and spots are removed, nobody of the lot ever shares a spot,
\* holds two, or holds one that is gone.
THEOREM LotExclusive == LotSpec => [](Lot!LotTypeOK /\ Lot!Exclusive)
<1> DEFINE LotInv == Lot!LotTypeOK /\ Lot!Exclusive
<1>1. Lot!Init => LotInv
  BY DEF Lot!Init, Lot!LotTypeOK, Lot!Exclusive
<1>2. ASSUME LotInv, [Lot!Next]_(Lot!lotVars) PROVE LotInv'
  <2>1. ASSUME NEW u \in Users, NEW s \in Spots, Lot!Park(u, s) PROVE LotInv'
    <3>1. Lot!LotTypeOK'
      BY <1>2, <2>1 DEF Lot!LotTypeOK, Lot!Park
    <3>2. \A p \in Parked : p[1] # s /\ p[2] # u
      <4>1. ASSUME NEW p \in Parked PROVE p = <<p[1], p[2]>> /\ p[1] \in Spots /\ p[2] \in Users
        BY <1>2 DEF Lot!LotTypeOK
      <4>. QED  BY <2>1, <4>1 DEF Lot!Park
    <3>3. Lot!Exclusive'
      BY <1>2, <2>1, <3>2 DEF Lot!Exclusive, Lot!Park
    <3>. QED  BY <3>1, <3>3
  <2>2. ASSUME NEW u \in Users, NEW s \in Spots, Lot!Leave(u, s) PROVE LotInv'
    BY <1>2, <2>2 DEF Lot!LotTypeOK, Lot!Exclusive, Lot!Leave
  <2>3. ASSUME NEW S \in SUBSET Spots, Lot!Remove(S) PROVE LotInv'
    BY <1>2, <2>3 DEF Lot!LotTypeOK, Lot!Exclusive, Lot!Remove
  <2>4. CASE UNCHANGED Lot!lotVars
    BY <1>2, <2>4 DEF Lot!LotTypeOK, Lot!Exclusive, Lot!lotVars
  <2>. QED  BY <1>2, <2>1, <2>2, <2>3, <2>4 DEF Lot!Next
<1>. QED
  BY <1>1, <1>2, PTL DEF LotSpec, Lot!Spec

=============================================================================
