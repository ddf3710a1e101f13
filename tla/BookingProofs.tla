---------------------------- MODULE BookingProofs ----------------------------
(***************************************************************************)
(* Proofs about reservations, for any number of citizens, tabs, spots and  *)
(* reminder checks, any length of time and any lead, with and without      *)
(* removals and failures.                                                  *)
(***************************************************************************)
EXTENDS Booking, TLAPS

-----------------------------------------------------------------------------
(* The inductive invariant of every regime.                                *)

ResvShape ==
    \A i \in ReservationIds :
        /\ resv[i].state = "unused" => resv[i].spot = None
        /\ resv[i].state # "unused" => resv[i].spot \in Spots

\* What the local state of a request says of the reservation it is about.
TabShape ==
    \A t \in Tabs :
        /\ tab[t].pc \in {"spot", "conflict", "insert"} =>
             /\ tab[t].spot \in Spots
             /\ <<t, tab[t].spot>> \in MayBook
        /\ tab[t].pc \in {"cancel", "code", "notify"} => tab[t].id \in ReservationIds
        /\ tab[t].pc = "cancel" => resv[tab[t].id].state # "unused"
        /\ tab[t].pc = "code" => resv[tab[t].id].state \in {"cancelled", "deleted"}
        /\ tab[t].pc = "notify" => tab[t].kind \in {"confirmed", "cancelled"}
        /\ tab[t].pc = "notify" /\ tab[t].kind = "cancelled" =>
             resv[tab[t].id].state \in {"cancelled", "deleted"}

\* A check about to set the flag has stored the notification.
CheckShape ==
    \A k \in Ticks :
        check[k].pc = "mark" => /\ check[k].id \in ReservationIds
                                /\ notices[check[k].id]["reminder"] > 0

Shapes  == ResvShape /\ TabShape /\ CheckShape
BaseInv == TypeOK /\ Shapes /\ FlagMeansSent /\ CancelNoticeIsTrue

\* Where one tab books a spot, what it has read of the spot's windows holds until
\* it inserts its own.
ReadHolds ==
    \A t \in Tabs :
        tab[t].pc = "insert" => Conflicts(tab[t].spot, tab[t].from, tab[t].to) = {}

-----------------------------------------------------------------------------
LEMMA IdleTyped == IdleTab \in TabStates /\ IdleCheck \in CheckStates
  BY LeadType DEF IdleTab, IdleCheck, TabStates, CheckStates, Times

LEMMA TabMoves ==
    ASSUME NEW r \in TabStates,
           NEW pc \in {"idle", "spot", "conflict", "insert", "cancel", "code", "notify"}
    PROVE  /\ [r EXCEPT !.pc = pc] \in TabStates
           /\ \A c \in Kinds : [r EXCEPT !.pc = pc, !.kind = c] \in TabStates
  BY DEF TabStates

\* Overlapping is symmetric, so it does not matter which of two reservations was
\* there first.
LEMMA OverlapSymmetric ==
    ASSUME NEW a \in Times, NEW b \in Times, NEW c \in Times, NEW d \in Times,
           Overlap(a, b, c, d)
    PROVE  Overlap(c, d, a, b)
  BY DEF Overlap, Times

\* What is left to show of a step that only moves a request, ...
LEMMA TabFrame ==
    ASSUME BaseInv, UNCHANGED <<now, spot, resv, notices, check, lastRun>>,
           tab' \in [Tabs -> TabStates], TabShape'
    PROVE  BaseInv'
  BY DEF BaseInv, TypeOK, Shapes, ResvShape, CheckShape, FlagMeansSent, CancelNoticeIsTrue

LEMMA BaseInit == Init => BaseInv
<1>. SUFFICES ASSUME Init PROVE BaseInv
  OBVIOUS
<1>1. NoResv \in ResvRows /\ 0 \in Times
  BY LeadType DEF NoResv, ResvRows, Times
<1>2. TypeOK
  BY <1>1, IdleTyped DEF Init, TypeOK, SpotRows
<1>3. Shapes
  BY DEF Init, Shapes, ResvShape, TabShape, CheckShape, NoResv, IdleTab, IdleCheck
<1>. QED
  BY <1>2, <1>3 DEF Init, BaseInv, FlagMeansSent, CancelNoticeIsTrue, NoResv, Kinds

LEMMA BaseStep == ASSUME BaseInv, [Next]_vars PROVE BaseInv'
<1>1. ASSUME NEW t \in Tabs, NEW s \in Spots, NEW from \in Times, NEW to \in Times,
             CreateRequest(t, s, from, to)
      PROVE BaseInv'
  <2>1. [IdleTab EXCEPT !.pc = "spot", !.spot = s, !.from = from, !.to = to] \in TabStates
    BY DEF IdleTab, TabStates
  <2>2. tab' \in [Tabs -> TabStates] /\ TabShape'
    BY <1>1, <2>1 DEF CreateRequest, IdleTab, BaseInv, TypeOK, Shapes, TabShape
  <2>. QED  BY <1>1, <2>2, TabFrame DEF CreateRequest
<1>2. ASSUME NEW t \in Tabs, CreateReadSpot(t) PROVE BaseInv'
  <2>1. tab' \in [Tabs -> TabStates]
    BY <1>2, IdleTyped, TabMoves DEF CreateReadSpot, BaseInv, TypeOK
  <2>2. TabShape'
    BY <1>2 DEF CreateReadSpot, IdleTab, BaseInv, TypeOK, TabStates, Shapes, TabShape
  <2>. QED  BY <1>2, <2>1, <2>2, TabFrame DEF CreateReadSpot
<1>3. ASSUME NEW t \in Tabs, CreateReadConflict(t) PROVE BaseInv'
  <2>1. tab' \in [Tabs -> TabStates]
    BY <1>3, IdleTyped, TabMoves DEF CreateReadConflict, BaseInv, TypeOK
  <2>2. TabShape'
    BY <1>3 DEF CreateReadConflict, IdleTab, BaseInv, TypeOK, TabStates, Shapes, TabShape
  <2>. QED  BY <1>3, <2>1, <2>2, TabFrame DEF CreateReadConflict
<1>4. ASSUME NEW t \in Tabs, CreateInsert(t) PROVE BaseInv'
  <2> DEFINE r == [state |-> "confirmed", user |-> UserOf[t], spot |-> tab[t].spot,
                   from |-> tab[t].from, to |-> tab[t].to, reminded |-> FALSE,
                   made |-> now]
  <2>1. PICK i \in Unused :
          /\ resv' = [resv EXCEPT ![i] = r]
          /\ tab' = [tab EXCEPT ![t] = [IdleTab EXCEPT !.pc = "notify", !.id = i,
                                                       !.kind = "confirmed"]]
    BY <1>4 DEF CreateInsert
  <2>2. /\ i \in ReservationIds /\ resv[i].state = "unused"
        /\ tab[t].spot \in Spots /\ tab[t] \in TabStates
        /\ UNCHANGED <<now, spot, notices, check, lastRun>>
    BY <1>4, <2>1 DEF CreateInsert, Unused, BaseInv, TypeOK, Shapes, TabShape
  <2>3. r \in ResvRows
    BY <2>2, UserOfType DEF ResvRows, TabStates, BaseInv, TypeOK
  <2>4. [IdleTab EXCEPT !.pc = "notify", !.id = i, !.kind = "confirmed"] \in TabStates
    BY <2>2, IdleTyped DEF IdleTab, TabStates, Kinds
  <2>5. TypeOK'
    BY <2>1, <2>2, <2>3, <2>4 DEF BaseInv, TypeOK
  <2>6. ResvShape' /\ CheckShape'
    BY <2>1, <2>2 DEF BaseInv, TypeOK, Shapes, ResvShape, CheckShape
  <2>7. TabShape'
    BY <2>1, <2>2 DEF IdleTab, BaseInv, TypeOK, Shapes, TabShape
  <2>8. FlagMeansSent' /\ CancelNoticeIsTrue'
    BY <2>1, <2>2 DEF BaseInv, TypeOK, FlagMeansSent, CancelNoticeIsTrue
  <2>. QED  BY <2>5, <2>6, <2>7, <2>8 DEF BaseInv, Shapes
<1>5. ASSUME NEW t \in Tabs, CreateLost(t) \/ CancelLost(t) \/ FailTab(t) PROVE BaseInv'
  <2>1. tab' = [tab EXCEPT ![t] = IdleTab]
    BY <1>5 DEF CreateLost, CancelLost, FailTab
  <2>2. tab' \in [Tabs -> TabStates] /\ TabShape'
    BY <1>5, <2>1, IdleTyped
    DEF CreateLost, CancelLost, FailTab, IdleTab, BaseInv, TypeOK, Shapes, TabShape
  <2>. QED  BY <1>5, <2>2, TabFrame DEF CreateLost, CancelLost, FailTab
<1>6. ASSUME NEW t \in Tabs, NEW i \in ReservationIds, CancelRequest(t, i) PROVE BaseInv'
  <2>1. [IdleTab EXCEPT !.pc = "cancel", !.id = i] \in TabStates
    BY IdleTyped DEF IdleTab, TabStates
  <2>2. tab' \in [Tabs -> TabStates] /\ TabShape'
    BY <1>6, <2>1 DEF CancelRequest, IdleTab, BaseInv, TypeOK, Shapes, TabShape
  <2>. QED  BY <1>6, <2>2, TabFrame DEF CancelRequest
<1>7. ASSUME NEW t \in Tabs, CancelWrite(t) PROVE BaseInv'
  <2> DEFINE i == tab[t].id
  <2>1. /\ i \in ReservationIds /\ resv[i].state \in {"confirmed", "cancelled"}
        /\ resv' = [resv EXCEPT ![i] = [@ EXCEPT !.state = "cancelled"]]
        /\ tab' = [tab EXCEPT ![t] = [@ EXCEPT !.pc = "code"]]
        /\ tab[t] \in TabStates /\ resv[i] \in ResvRows
        /\ UNCHANGED <<now, spot, notices, check, lastRun>>
    BY <1>7 DEF CancelWrite, BaseInv, TypeOK, ResvRows, Shapes, TabShape
  <2>2. [resv[i] EXCEPT !.state = "cancelled"] \in ResvRows
    BY <2>1 DEF ResvRows
  <2>3. TypeOK'
    BY <2>1, <2>2, TabMoves DEF BaseInv, TypeOK
  <2>4. ResvShape' /\ CheckShape'
    BY <2>1 DEF BaseInv, TypeOK, ResvRows, Shapes, ResvShape, CheckShape
  <2>5. TabShape'
    BY <2>1 DEF BaseInv, TypeOK, ResvRows, TabStates, Shapes, TabShape
  <2>6. FlagMeansSent' /\ CancelNoticeIsTrue'
    BY <2>1 DEF BaseInv, TypeOK, ResvRows, FlagMeansSent, CancelNoticeIsTrue
  <2>. QED  BY <2>3, <2>4, <2>5, <2>6 DEF BaseInv, Shapes
<1>8. ASSUME NEW t \in Tabs, CancelReadSpot(t) PROVE BaseInv'
  <2>1. tab' \in [Tabs -> TabStates]
    BY <1>8, IdleTyped, TabMoves DEF CancelReadSpot, BaseInv, TypeOK, Kinds
  <2>2. TabShape'
    BY <1>8 DEF CancelReadSpot, IdleTab, BaseInv, TypeOK, TabStates, Shapes, TabShape
  <2>. QED  BY <1>8, <2>1, <2>2, TabFrame DEF CancelReadSpot
<1>9. ASSUME NEW t \in Tabs, Notify(t) PROVE BaseInv'
  <2> DEFINE i == tab[t].id
  <2> DEFINE c == tab[t].kind
  <2>1. /\ i \in ReservationIds /\ c \in {"confirmed", "cancelled"}
        /\ c = "cancelled" => resv[i].state \in {"cancelled", "deleted"}
        /\ notices' = [notices EXCEPT ![i][c] = @ + 1]
        /\ tab' = [tab EXCEPT ![t] = IdleTab]
        /\ UNCHANGED <<now, spot, resv, check, lastRun>>
    BY <1>9 DEF Notify, BaseInv, Shapes, TabShape
  <2>2. TypeOK'
    BY <2>1, IdleTyped DEF BaseInv, TypeOK, Kinds
  <2>3. TabShape'
    BY <2>1 DEF IdleTab, BaseInv, TypeOK, Shapes, TabShape
  <2>4. CheckShape' /\ FlagMeansSent' /\ CancelNoticeIsTrue'
    BY <2>1 DEF BaseInv, TypeOK, Kinds, Shapes, CheckShape, FlagMeansSent, CancelNoticeIsTrue
  <2>. QED  BY <2>1, <2>2, <2>3, <2>4 DEF BaseInv, Shapes, ResvShape
<1>10. ASSUME NEW k \in Ticks, CheckQuery(k) PROVE BaseInv'
  <2>1. [IdleCheck EXCEPT !.pc = "next", !.todo = Due] \in CheckStates
    BY DEF IdleCheck, CheckStates, Due
  <2>2. check' \in [Ticks -> CheckStates] /\ lastRun' \in Times \cup {None}
    BY <1>10, <2>1 DEF CheckQuery, Ended, BaseInv, TypeOK
  <2>3. CheckShape'
    BY <1>10 DEF CheckQuery, IdleCheck, BaseInv, TypeOK, Shapes, CheckShape
  <2>. QED  BY <1>10, <2>2, <2>3
    DEF CheckQuery, BaseInv, TypeOK, Shapes, ResvShape, TabShape, FlagMeansSent,
        CancelNoticeIsTrue
<1>11. ASSUME NEW k \in Ticks, NEW i \in ReservationIds, CheckSend(k, i) PROVE BaseInv'
  <2>1. [pc |-> "mark", todo |-> check[k].todo \ {i}, id |-> i] \in CheckStates
    BY DEF BaseInv, TypeOK, CheckStates
  <2>2. TypeOK'
    BY <1>11, <2>1 DEF CheckSend, BaseInv, TypeOK, Kinds
  <2>3. CheckShape' /\ FlagMeansSent' /\ CancelNoticeIsTrue'
    BY <1>11 DEF CheckSend, BaseInv, TypeOK, Kinds, Shapes, CheckShape, FlagMeansSent,
                 CancelNoticeIsTrue
  <2>. QED  BY <1>11, <2>2, <2>3 DEF CheckSend, BaseInv, Shapes, ResvShape, TabShape
<1>12. ASSUME NEW k \in Ticks, CheckMark(k) PROVE BaseInv'
  <2> DEFINE i == check[k].id
  <2>1. /\ i \in ReservationIds /\ notices[i]["reminder"] > 0
        /\ resv[i] \in ResvRows /\ check[k] \in CheckStates
        /\ UNCHANGED <<now, spot, notices, tab>>
    BY <1>12 DEF CheckMark, BaseInv, TypeOK, Shapes, CheckShape
  <2>2. \/ resv' = [resv EXCEPT ![i] = [@ EXCEPT !.reminded = TRUE]]
        \/ resv' = resv
    BY <1>12 DEF CheckMark
  <2>3. \/ check' = [check EXCEPT ![k] = IdleCheck]
        \/ check' = [check EXCEPT ![k] = [@ EXCEPT !.pc = "next", !.id = None]]
    BY <1>12 DEF CheckMark
  <2>4. /\ [resv[i] EXCEPT !.reminded = TRUE] \in ResvRows
        /\ [check[k] EXCEPT !.pc = "next", !.id = None] \in CheckStates
    BY <2>1 DEF ResvRows, CheckStates
  <2>5. lastRun' \in Times \cup {None}
    BY <1>12 DEF CheckMark, Ended, BaseInv, TypeOK
  <2>6. TypeOK'
    BY <2>1, <2>2, <2>3, <2>4, <2>5, IdleTyped DEF BaseInv, TypeOK
  <2>7. \A j \in ReservationIds : /\ resv'[j].state = resv[j].state
                                  /\ resv'[j].spot = resv[j].spot
                                  /\ resv'[j].reminded => resv[j].reminded \/ j = i
    BY <2>1, <2>2 DEF BaseInv, TypeOK, ResvRows
  <2>8. ResvShape' /\ TabShape'
    BY <2>1, <2>7 DEF BaseInv, Shapes, ResvShape, TabShape
  <2>9. CheckShape'
    <3>1. check \in [Ticks -> CheckStates] /\ CheckShape
      BY DEF BaseInv, TypeOK, Shapes
    <3>2. /\ IdleCheck.pc # "mark"
          /\ [check[k] EXCEPT !.pc = "next", !.id = None].pc # "mark"
      BY <2>1 DEF IdleCheck, CheckStates
    <3>3. /\ check'[k].pc # "mark"
          /\ \A l \in Ticks \ {k} : check'[l] = check[l]
      BY <2>3, <3>1, <3>2
    <3>. QED  BY <2>1, <3>1, <3>3 DEF CheckShape
  <2>10. FlagMeansSent' /\ CancelNoticeIsTrue'
    BY <2>1, <2>7 DEF BaseInv, FlagMeansSent, CancelNoticeIsTrue
  <2>. QED  BY <2>6, <2>8, <2>9, <2>10 DEF BaseInv, Shapes
<1>13. CASE ClockTick
  <2>1. now' \in Times
    BY <1>13, LeadType DEF ClockTick, BaseInv, TypeOK, Times
  <2>. QED  BY <1>13, <2>1
    DEF ClockTick, BaseInv, TypeOK, Shapes, ResvShape, TabShape, CheckShape, FlagMeansSent,
        CancelNoticeIsTrue
<1>14. ASSUME NEW s \in Spots,
              SpotToggle(s) \/ \E c \in {"usable", "disabled"} : SpotCreate(s, c)
       PROVE BaseInv'
  BY <1>14
  DEF SpotToggle, SpotCreate, BaseInv, TypeOK, SpotRows, Shapes, ResvShape, TabShape, CheckShape,
      FlagMeansSent, CancelNoticeIsTrue
<1>15. ASSUME NEW S \in SUBSET Spots, SpotsRemove(S) PROVE BaseInv'
  <2>1. \A i \in ReservationIds : [resv[i] EXCEPT !.state = "deleted"] \in ResvRows
    BY DEF BaseInv, TypeOK, ResvRows
  <2>2. TypeOK'
    BY <1>15, <2>1 DEF SpotsRemove, BaseInv, TypeOK, SpotRows
  <2>3. \A j \in ReservationIds : /\ resv'[j].state \in {resv[j].state, "deleted"}
                                  /\ resv[j].state = "unused" => resv'[j] = resv[j]
                                  /\ resv'[j].spot = resv[j].spot
                                  /\ resv'[j].reminded = resv[j].reminded
    BY <1>15, NoneType DEF SpotsRemove, BaseInv, TypeOK, ResvRows, Shapes, ResvShape
  <2>4. ResvShape'
    BY <1>15, <2>3 DEF BaseInv, Shapes, ResvShape
  <2>5. TabShape' /\ CheckShape'
    BY <1>15, <2>3 DEF SpotsRemove, BaseInv, Shapes, TabShape, CheckShape
  <2>6. FlagMeansSent' /\ CancelNoticeIsTrue'
    BY <1>15, <2>3 DEF SpotsRemove, BaseInv, FlagMeansSent, CancelNoticeIsTrue
  <2>. QED  BY <2>2, <2>4, <2>5, <2>6 DEF BaseInv, Shapes
<1>16. ASSUME NEW k \in Ticks, FailCheck(k) PROVE BaseInv'
  <2>1. check' \in [Ticks -> CheckStates] /\ CheckShape'
    BY <1>16, IdleTyped DEF FailCheck, IdleCheck, BaseInv, TypeOK, Shapes, CheckShape
  <2>. QED  BY <1>16, <2>1
    DEF FailCheck, BaseInv, TypeOK, Shapes, ResvShape, TabShape, FlagMeansSent,
        CancelNoticeIsTrue
<1>17. CASE UNCHANGED vars
  BY <1>17
  DEF vars, BaseInv, TypeOK, Shapes, ResvShape, TabShape, CheckShape, FlagMeansSent,
      CancelNoticeIsTrue
<1>. QED
  BY <1>1, <1>2, <1>3, <1>4, <1>5, <1>6, <1>7, <1>8, <1>9, <1>10, <1>11, <1>12, <1>13,
     <1>14, <1>15, <1>16, <1>17
  DEF Next, TabNext, CheckNext, SpotNext

-----------------------------------------------------------------------------
(* Theorems of every regime.                                               *)

\* Everything above holds in every reachable state.
THEOREM BaseInvariant == Spec => []BaseInv
<1>. QED
  BY BaseInit, BaseStep, PTL DEF Spec

\* The variables keep their types, whatever the requests, checks and failures do.
THEOREM TypeCorrect == Spec => []TypeOK
<1>1. BaseInv => TypeOK
  BY DEF BaseInv
<1>. QED
  BY <1>1, BaseInvariant, PTL

\* reminderSent is never set without its notification: a crash between the two
\* costs a duplicate, never a reminder.
THEOREM FlagSent == Spec => []FlagMeansSent
<1>1. BaseInv => FlagMeansSent
  BY DEF BaseInv
<1>. QED
  BY <1>1, BaseInvariant, PTL

\* A cancellation that was announced was made, even where two requests cancel the
\* same reservation and staff remove its spot meanwhile.
THEOREM CancelTrue == Spec => []CancelNoticeIsTrue
<1>1. BaseInv => CancelNoticeIsTrue
  BY DEF BaseInv
<1>. QED
  BY <1>1, BaseInvariant, PTL

-----------------------------------------------------------------------------
(* No double booking, where each spot is booked from one tab at a time.    *)

BookInv == NoDoubleBooking /\ ReadHolds

\* A step that confirms nothing new, and lets no request reach its insert, keeps
\* both.
LEMMA ConfirmsNothing ==
    ASSUME BookInv,
           \A i \in ReservationIds :
               resv'[i].state = "confirmed" => /\ resv[i].state = "confirmed"
                                               /\ resv'[i].spot = resv[i].spot
                                               /\ resv'[i].from = resv[i].from
                                               /\ resv'[i].to = resv[i].to,
           \A t \in Tabs : tab'[t].pc = "insert" => tab'[t] = tab[t]
    PROVE  BookInv'
<1>1. NoDoubleBooking'
  BY DEF BookInv, NoDoubleBooking, Overlap
<1>2. ReadHolds'
  BY DEF BookInv, ReadHolds, Conflicts, Overlap
<1>. QED  BY <1>1, <1>2 DEF BookInv

LEMMA BookStep ==
    ASSUME OneBookerPerSpot, BaseInv, BookInv, [Next]_vars
    PROVE  BookInv'
<1>1. ASSUME NEW t \in Tabs, CreateReadConflict(t) PROVE BookInv'
  <2>1. CASE Conflicts(tab[t].spot, tab[t].from, tab[t].to) = {}
    <3>1. /\ tab' = [tab EXCEPT ![t] = [@ EXCEPT !.pc = "insert"]]
          /\ resv' = resv
      BY <1>1, <2>1 DEF CreateReadConflict
    <3>2. /\ tab'[t].spot = tab[t].spot /\ tab'[t].from = tab[t].from
          /\ tab'[t].to = tab[t].to
          /\ \A u \in Tabs \ {t} : tab'[u] = tab[u]
      BY <3>1 DEF BaseInv, TypeOK, TabStates
    <3>3. ReadHolds'
      BY <2>1, <3>1, <3>2 DEF BookInv, ReadHolds, Conflicts
    <3>. QED  BY <3>1, <3>3 DEF BookInv, NoDoubleBooking
  <2>2. CASE Conflicts(tab[t].spot, tab[t].from, tab[t].to) # {}
    BY <1>1, <2>2, ConfirmsNothing DEF CreateReadConflict, IdleTab, BaseInv, TypeOK
  <2>. QED  BY <2>1, <2>2
<1>2. ASSUME NEW t \in Tabs, CreateInsert(t) PROVE BookInv'
  <2> DEFINE r == [state |-> "confirmed", user |-> UserOf[t], spot |-> tab[t].spot,
                   from |-> tab[t].from, to |-> tab[t].to, reminded |-> FALSE,
                   made |-> now]
  <2>1. PICK i \in ReservationIds :
          /\ resv' = [resv EXCEPT ![i] = r]
          /\ tab' = [tab EXCEPT ![t] = [IdleTab EXCEPT !.pc = "notify", !.id = i,
                                                       !.kind = "confirmed"]]
    BY <1>2 DEF CreateInsert, Unused
  <2>2. /\ resv'[i] = r
        /\ \A j \in ReservationIds \ {i} : resv'[j] = resv[j]
        /\ tab[t].pc = "insert" /\ tab[t] \in TabStates
        /\ tab'[t].pc = "notify"
        /\ \A u \in Tabs \ {t} : tab'[u] = tab[u]
    BY <1>2, <2>1 DEF CreateInsert, IdleTab, BaseInv, TypeOK
  <2>3. Conflicts(tab[t].spot, tab[t].from, tab[t].to) = {}
    BY <2>2 DEF BookInv, ReadHolds
  <2>4. ASSUME NEW j \in ReservationIds, j # i, resv[j].state = "confirmed",
               resv[j].spot = tab[t].spot
        PROVE  /\ ~Overlap(resv[j].from, resv[j].to, tab[t].from, tab[t].to)
               /\ ~Overlap(tab[t].from, tab[t].to, resv[j].from, resv[j].to)
    BY <2>2, <2>3, <2>4 DEF Conflicts, Overlap
  <2>5. NoDoubleBooking'
    <3>1. SUFFICES ASSUME NEW j \in ReservationIds, NEW l \in ReservationIds,
                          resv'[j].state = "confirmed", resv'[l].state = "confirmed",
                          resv'[j].spot = resv'[l].spot,
                          Overlap(resv'[j].from, resv'[j].to, resv'[l].from, resv'[l].to)
                   PROVE  j = l
      BY DEF NoDoubleBooking, Overlap
    <3>2. CASE j # i /\ l # i
      BY <2>2, <3>1, <3>2 DEF BookInv, NoDoubleBooking
    <3>3. CASE j = i \/ l = i
      BY <2>2, <2>4, <3>1, <3>3
    <3>. QED  BY <3>2, <3>3
  <2>6. ReadHolds'
    <3>1. ASSUME NEW u \in Tabs, tab'[u].pc = "insert"
          PROVE  /\ u # t /\ tab'[u] = tab[u] /\ tab[u].spot # tab[t].spot
      <4>1. u # t /\ tab'[u] = tab[u]
        BY <2>2, <3>1
      <4>2. /\ tab[u].spot \in Spots /\ <<u, tab[u].spot>> \in MayBook
            /\ tab[t].spot \in Spots /\ <<t, tab[t].spot>> \in MayBook
        BY <2>2, <3>1, <4>1 DEF BaseInv, Shapes, TabShape
      <4>. QED  BY <4>1, <4>2 DEF OneBookerPerSpot
    <3>. QED  BY <2>2, <3>1 DEF BookInv, ReadHolds, Conflicts
  <2>. QED  BY <2>5, <2>6 DEF BookInv
<1>3. ASSUME NEW t \in Tabs,
             \/ \E s \in Spots, from \in Times, to \in Times : CreateRequest(t, s, from, to)
             \/ CreateReadSpot(t) \/ CreateLost(t) \/ CancelLost(t) \/ CancelReadSpot(t)
             \/ \E i \in ReservationIds : CancelRequest(t, i)
             \/ Notify(t) \/ FailTab(t)
      PROVE BookInv'
  <2> DEFINE Moves(l) == tab' = [tab EXCEPT ![t] = l] /\ l.pc # "insert"
  <2>1. resv' = resv /\ tab \in [Tabs -> TabStates] /\ IdleTab.pc # "insert"
    BY <1>3
    DEF CreateRequest, CreateReadSpot, CreateLost, CancelLost, CancelReadSpot,
        CancelRequest, Notify, FailTab, IdleTab, BaseInv, TypeOK
  <2>2. \E l : Moves(l)
    <3>1. CASE CreateLost(t) \/ CancelLost(t) \/ Notify(t) \/ FailTab(t)
      BY <2>1, <3>1 DEF CreateLost, CancelLost, Notify, FailTab
    <3>2. ASSUME NEW s \in Spots, NEW from \in Times, NEW to \in Times,
                 CreateRequest(t, s, from, to)
          PROVE  \E l : Moves(l)
      <4>1. Moves([IdleTab EXCEPT !.pc = "spot", !.spot = s, !.from = from, !.to = to])
        BY <3>2 DEF CreateRequest, IdleTab
      <4>. QED  BY <4>1
    <3>3. ASSUME NEW i \in ReservationIds, CancelRequest(t, i) PROVE \E l : Moves(l)
      <4>1. Moves([IdleTab EXCEPT !.pc = "cancel", !.id = i])
        BY <3>3 DEF CancelRequest, IdleTab
      <4>. QED  BY <4>1
    <3>4. CASE CreateReadSpot(t)
      <4>1. Moves([tab[t] EXCEPT !.pc = "conflict"]) \/ Moves(IdleTab)
        BY <2>1, <3>4 DEF CreateReadSpot, TabStates
      <4>. QED  BY <4>1
    <3>5. CASE CancelReadSpot(t)
      <4>1. Moves([tab[t] EXCEPT !.pc = "notify", !.kind = "cancelled"]) \/ Moves(IdleTab)
        BY <2>1, <3>5 DEF CancelReadSpot, TabStates
      <4>. QED  BY <4>1
    <3>. QED  BY <1>3, <3>1, <3>2, <3>3, <3>4, <3>5
  <2>. QED  BY <2>1, <2>2, ConfirmsNothing
<1>4. ASSUME NEW t \in Tabs, CancelWrite(t) PROVE BookInv'
  <2>1. /\ tab[t].id \in ReservationIds /\ tab[t] \in TabStates
        /\ resv' = [resv EXCEPT ![tab[t].id] = [@ EXCEPT !.state = "cancelled"]]
        /\ tab' = [tab EXCEPT ![t] = [@ EXCEPT !.pc = "code"]]
    BY <1>4 DEF CancelWrite, BaseInv, TypeOK, Shapes, TabShape
  <2>. QED  BY <2>1, ConfirmsNothing DEF BaseInv, TypeOK, TabStates, ResvRows
<1>5. ASSUME NEW k \in Ticks, CheckMark(k) PROVE BookInv'
  <2>1. /\ check[k].id \in ReservationIds /\ tab' = tab
        /\ \/ resv' = [resv EXCEPT ![check[k].id] = [@ EXCEPT !.reminded = TRUE]]
           \/ resv' = resv
    BY <1>5 DEF CheckMark, BaseInv, Shapes, CheckShape
  <2>2. \A i \in ReservationIds : /\ resv'[i].state = resv[i].state
                                  /\ resv'[i].spot = resv[i].spot
                                  /\ resv'[i].from = resv[i].from
                                  /\ resv'[i].to = resv[i].to
    BY <2>1 DEF BaseInv, TypeOK, ResvRows
  <2>. QED  BY <2>1, <2>2, ConfirmsNothing
<1>6. ASSUME NEW S \in SUBSET Spots, SpotsRemove(S) PROVE BookInv'
  BY <1>6, ConfirmsNothing DEF SpotsRemove, BaseInv, TypeOK, ResvRows
<1>7. ASSUME UNCHANGED <<resv, tab>> PROVE BookInv'
  BY <1>7, ConfirmsNothing
<1>. QED
  BY <1>1, <1>2, <1>3, <1>4, <1>5, <1>6, <1>7
  DEF Next, TabNext, CheckNext, SpotNext, vars, CheckQuery, CheckSend, FailCheck, ClockTick,
      SpotToggle, SpotCreate

\* Where no two tabs book the same spot, create's conflict check keeps the
\* confirmed reservations of every spot apart, whatever is cancelled, removed or
\* failing meanwhile.
THEOREM BookedOnce == OneBookerPerSpot => (Spec => []NoDoubleBooking)
<1>. SUFFICES ASSUME OneBookerPerSpot PROVE Spec => []NoDoubleBooking
  OBVIOUS
<1>1. Init => BookInv
  BY DEF Init, BookInv, NoDoubleBooking, ReadHolds, NoResv, IdleTab
<1>2. BaseInv /\ BookInv /\ [Next]_vars => BookInv'
  BY BookStep
<1>3. BookInv => NoDoubleBooking
  BY DEF BookInv
<1>. QED
  BY <1>1, <1>2, <1>3, BaseInvariant, PTL DEF Spec

-----------------------------------------------------------------------------
(* Who announces a cancellation.                                           *)

AllAnnounced == \A i \in ReservationIds : AnnouncedByThoseAtWork(i)

\* A step that starts no cancellation and announces none.
LEMMA CancelsNothing ==
    ASSUME \A i \in ReservationIds : notices'[i]["cancelled"] = notices[i]["cancelled"],
           \A t \in Tabs : \/ tab'[t] = tab[t]
                           \/ tab'[t].pc = "notify" /\ tab'[t].kind = "confirmed"
                           \/ tab'[t].pc \in {"idle", "spot", "conflict", "insert"}
                           \/ /\ tab[t].pc \in {"cancel", "code"}
                              /\ tab'[t].id = tab[t].id
    PROVE  AllAnnounced
  BY DEF AllAnnounced, AnnouncedByThoseAtWork, Cancelling

LEMMA CancelStep ==
    ASSUME BaseInv, [Next]_vars
    PROVE  AllAnnounced
<1>1. ASSUME NEW t \in Tabs, NEW i \in ReservationIds, CancelRequest(t, i) PROVE AllAnnounced
  <2>1. /\ tab'[t].id = i /\ resv[i].state = "confirmed"
        /\ \A u \in Tabs \ {t} : tab'[u] = tab[u]
        /\ notices' = notices
    BY <1>1 DEF CancelRequest, IdleTab, BaseInv, TypeOK
  <2>. QED  BY <2>1 DEF AllAnnounced, AnnouncedByThoseAtWork, Cancelling
<1>2. ASSUME NEW t \in Tabs, Notify(t), tab[t].kind = "cancelled" PROVE AllAnnounced
  <2>0. PICK i \in ReservationIds : i = tab[t].id
    BY <1>2 DEF Notify, BaseInv, Shapes, TabShape
  <2>1. /\ tab[t].pc = "notify"
        /\ notices' = [notices EXCEPT ![i]["cancelled"] = @ + 1]
        /\ tab'[t].pc = "idle"
        /\ \A u \in Tabs \ {t} : tab'[u] = tab[u]
    BY <1>2, <2>0 DEF Notify, IdleTab, BaseInv, TypeOK
  <2>2. /\ notices'[i]["cancelled"] = notices[i]["cancelled"] + 1
        /\ \A j \in ReservationIds \ {i} : notices'[j] = notices[j]
    BY <2>1 DEF BaseInv, TypeOK, Kinds
  <2>3. \A j \in ReservationIds : Cancelling(j)' \subseteq Cancelling(j)
    BY <2>1 DEF Cancelling
  <2>4. t \in Cancelling(i) /\ t \notin Cancelling(i)'
    BY <1>2, <2>0, <2>1 DEF Cancelling
  <2>. QED  BY <2>2, <2>3, <2>4 DEF AllAnnounced, AnnouncedByThoseAtWork
<1>3. ASSUME NEW t \in Tabs, Notify(t), tab[t].kind # "cancelled" PROVE AllAnnounced
  <2>1. /\ \A i \in ReservationIds : notices'[i]["cancelled"] = notices[i]["cancelled"]
        /\ tab'[t].pc = "idle"
        /\ \A u \in Tabs \ {t} : tab'[u] = tab[u]
    BY <1>3 DEF Notify, IdleTab, BaseInv, TypeOK, Kinds
  <2>. QED  BY <2>1, CancelsNothing
<1>4. ASSUME NEW t \in Tabs, CreateInsert(t) PROVE AllAnnounced
  <2>1. /\ notices' = notices
        /\ tab'[t].pc = "notify" /\ tab'[t].kind = "confirmed"
        /\ \A u \in Tabs \ {t} : tab'[u] = tab[u]
    BY <1>4 DEF CreateInsert, IdleTab, BaseInv, TypeOK
  <2>. QED  BY <2>1, CancelsNothing
<1>5. ASSUME NEW t \in Tabs, CancelWrite(t) PROVE AllAnnounced
  <2>1. /\ tab[t].id \in ReservationIds /\ tab[t].pc = "cancel" /\ tab[t] \in TabStates
        /\ tab' = [tab EXCEPT ![t] = [@ EXCEPT !.pc = "code"]]
        /\ tab \in [Tabs -> TabStates]
        /\ notices' = notices
    BY <1>5 DEF CancelWrite, BaseInv, TypeOK, Shapes, TabShape
  <2>2. /\ tab'[t].id = tab[t].id
        /\ \A u \in Tabs \ {t} : tab'[u] = tab[u]
    BY <2>1 DEF TabStates
  <2>. QED  BY <2>1, <2>2, CancelsNothing
<1>6. ASSUME NEW t \in Tabs, CancelReadSpot(t) PROVE AllAnnounced
  <2>1. /\ tab[t].pc = "code"
        /\ \/ tab' = [tab EXCEPT ![t] = [@ EXCEPT !.pc = "notify", !.kind = "cancelled"]]
           \/ tab' = [tab EXCEPT ![t] = IdleTab]
        /\ tab \in [Tabs -> TabStates]
        /\ notices' = notices
    BY <1>6 DEF CancelReadSpot, BaseInv, TypeOK
  <2>2. CASE tab' = [tab EXCEPT ![t] = [@ EXCEPT !.pc = "notify", !.kind = "cancelled"]]
    <3>1. /\ tab'[t].id = tab[t].id
          /\ \A u \in Tabs \ {t} : tab'[u] = tab[u]
      BY <2>1, <2>2 DEF TabStates
    <3>. QED  BY <2>1, <3>1, CancelsNothing
  <2>3. CASE tab' = [tab EXCEPT ![t] = IdleTab]
    <3>1. /\ tab'[t].pc = "idle"
          /\ \A u \in Tabs \ {t} : tab'[u] = tab[u]
      BY <2>1, <2>3 DEF IdleTab
    <3>. QED  BY <2>1, <3>1, CancelsNothing
  <2>. QED  BY <2>1, <2>2, <2>3
<1>7. ASSUME NEW t \in Tabs,
              \/ \E s \in Spots, from \in Times, to \in Times : CreateRequest(t, s, from, to)
              \/ CreateReadSpot(t) \/ CreateReadConflict(t)
              \/ CreateLost(t) \/ CancelLost(t) \/ FailTab(t)
       PROVE AllAnnounced
  <2> DEFINE Moves == /\ tab'[t].pc \in {"idle", "spot", "conflict", "insert"}
                      /\ \A u \in Tabs \ {t} : tab'[u] = tab[u]
  <2>1. /\ notices' = notices
        /\ tab \in [Tabs -> TabStates] /\ IdleTab.pc = "idle"
    BY <1>7
    DEF CreateRequest, CreateReadSpot, CreateReadConflict, CreateLost, CancelLost, FailTab,
        IdleTab, BaseInv, TypeOK
  <2>2. CASE CreateLost(t) \/ CancelLost(t) \/ FailTab(t)
    <3>1. Moves
      BY <2>1, <2>2 DEF CreateLost, CancelLost, FailTab
    <3>. QED  BY <2>1, <3>1, CancelsNothing
  <2>3. CASE CreateReadSpot(t) \/ CreateReadConflict(t)
    <3>1. \/ tab' = [tab EXCEPT ![t] = [@ EXCEPT !.pc = "conflict"]]
          \/ tab' = [tab EXCEPT ![t] = [@ EXCEPT !.pc = "insert"]]
          \/ tab' = [tab EXCEPT ![t] = IdleTab]
      BY <2>3 DEF CreateReadSpot, CreateReadConflict
    <3>2. Moves
      BY <2>1, <3>1 DEF TabStates
    <3>. QED  BY <2>1, <3>2, CancelsNothing
  <2>4. CASE \E s \in Spots, from \in Times, to \in Times : CreateRequest(t, s, from, to)
    <3>1. Moves
      BY <2>1, <2>4 DEF CreateRequest, IdleTab
    <3>. QED  BY <2>1, <3>1, CancelsNothing
  <2>. QED  BY <1>7, <2>2, <2>3, <2>4
<1>8. ASSUME NEW k \in Ticks, NEW i \in ReservationIds, CheckSend(k, i) PROVE AllAnnounced
  <2>1. \A j \in ReservationIds : notices'[j]["cancelled"] = notices[j]["cancelled"]
    BY <1>8 DEF CheckSend, BaseInv, TypeOK, Kinds
  <2>. QED  BY <1>8, <2>1, CancelsNothing DEF CheckSend
<1>9. ASSUME NEW k \in Ticks, CheckMark(k) PROVE AllAnnounced
  BY <1>9, CancelsNothing DEF CheckMark
<1>10. ASSUME NEW S \in SUBSET Spots, SpotsRemove(S) PROVE AllAnnounced
  BY <1>10, CancelsNothing DEF SpotsRemove
<1>11. ASSUME UNCHANGED <<notices, tab>> PROVE AllAnnounced
  BY <1>11, CancelsNothing
<1>. QED
  BY <1>1, <1>2, <1>3, <1>4, <1>5, <1>6, <1>7, <1>8, <1>9, <1>10, <1>11
  DEF Next, TabNext, CheckNext, SpotNext, vars, CheckQuery, FailCheck, ClockTick, SpotToggle,
      SpotCreate

\* However cancellations of a reservation overlap, and whatever the staff, the checks
\* and the failures do, only those that read it confirmed announce it, once each.
THEOREM CancelledByThose == Spec => CancelledByThoseAtWork
<1>1. BaseInv /\ [Next]_vars => [\A i \in ReservationIds : AnnouncedByThoseAtWork(i)]_vars
  BY CancelStep DEF AllAnnounced
<1>. QED
  BY <1>1, BaseInvariant, PTL DEF Spec, CancelledByThoseAtWork

-----------------------------------------------------------------------------
(* One reminder, where checks do not overlap and none is cut short.        *)

\* A reminder that was sent is flagged, about to be, or its reservation is no
\* longer confirmed; a reservation still on a check's list has had none.
Settled(i) ==
    \/ resv[i].state \in {"cancelled", "deleted"}
    \/ resv[i].reminded
    \/ \E k \in Ticks : check[k].pc = "mark" /\ check[k].id = i

RemindInv ==
    /\ OneReminder
    /\ \A i \in ReservationIds : notices[i]["reminder"] > 0 => resv[i].state # "unused"
    /\ \A i \in ReservationIds : notices[i]["reminder"] > 0 => Settled(i)
    /\ \A k \in Ticks : \A i \in check[k].todo : /\ resv[i].state # "unused"
                                                 /\ notices[i]["reminder"] = 0

\* A step that sends no reminder keeps it, provided it settles no reservation anew
\* and puts none on a list.
LEMMA RemindsNothing ==
    ASSUME BaseInv, RemindInv,
           \A i \in ReservationIds :
               /\ notices'[i]["reminder"] = notices[i]["reminder"]
               /\ notices[i]["reminder"] > 0 /\ Settled(i) => Settled(i)'
               /\ resv[i].state # "unused" => resv'[i].state # "unused",
           \A k \in Ticks : check'[k].todo \subseteq check[k].todo
    PROVE  RemindInv'
<1>1. \A k \in Ticks : check[k].todo \subseteq ReservationIds
  BY DEF BaseInv, TypeOK, CheckStates
<1>2. OneReminder'
  BY DEF RemindInv, OneReminder
<1>3. \A i \in ReservationIds : notices'[i]["reminder"] > 0 => Settled(i)'
  BY DEF RemindInv
<1>4. \A i \in ReservationIds : notices'[i]["reminder"] > 0 => resv'[i].state # "unused"
  BY DEF RemindInv
<1>5. ASSUME NEW k \in Ticks, NEW i \in check'[k].todo
      PROVE  /\ resv'[i].state # "unused"
             /\ notices'[i]["reminder"] = 0
  <2>1. i \in check[k].todo /\ i \in ReservationIds
    BY <1>1
  <2>. QED  BY <2>1 DEF RemindInv
<1>. QED  BY <1>2, <1>3, <1>4, <1>5 DEF RemindInv

LEMMA RemindStep ==
    ASSUME OneCheckAtATime, ~Faults, BaseInv, RemindInv, [Next]_vars
    PROVE  RemindInv'
<1>0. /\ check \in [Ticks -> CheckStates] /\ resv \in [ReservationIds -> ResvRows]
      /\ notices \in [ReservationIds -> [Kinds -> Nat]] /\ tab \in [Tabs -> TabStates]
  BY DEF BaseInv, TypeOK
<1>1. ASSUME NEW k \in Ticks, CheckQuery(k) PROVE RemindInv'
  <2>1. ASSUME NEW l \in Ticks PROVE check[l].pc # "mark"
    BY <1>1, <2>1 DEF CheckQuery, OneCheckAtATime
  <2>2. \A i \in Due : /\ i \in ReservationIds /\ resv[i].state = "confirmed"
                       /\ notices[i]["reminder"] = 0
    BY <1>0, <2>1 DEF Due, RemindInv, Settled, Kinds
  <2>3. resv' = resv /\ notices' = notices
    BY <1>1 DEF CheckQuery
  <2>4. \A l \in Ticks : \A i \in check'[l].todo : i \in Due \/ i \in check[l].todo
    BY <1>0, <1>1 DEF CheckQuery, IdleCheck
  <2>5. \A i \in ReservationIds : Settled(i) => Settled(i)'
    BY <2>1, <2>3 DEF Settled
  <2>. QED  BY <2>2, <2>3, <2>4, <2>5 DEF RemindInv, OneReminder
<1>2. ASSUME NEW k \in Ticks, NEW i \in ReservationIds, CheckSend(k, i) PROVE RemindInv'
  <2>1. /\ i \in check[k].todo /\ check[k].pc = "next" /\ resv' = resv
        /\ notices' = [notices EXCEPT ![i]["reminder"] = @ + 1]
        /\ check'[k] = [pc |-> "mark", todo |-> check[k].todo \ {i}, id |-> i]
        /\ \A l \in Ticks : l = k
    BY <1>0, <1>2 DEF CheckSend, OneCheckAtATime
  <2>2. /\ notices[i]["reminder"] = 0 /\ notices'[i]["reminder"] = 1
        /\ \A j \in ReservationIds \ {i} : notices'[j] = notices[j]
    BY <1>0, <2>1 DEF RemindInv, Kinds
  <2>3. Settled(i)'
    BY <2>1 DEF Settled
  <2>4. \A j \in ReservationIds : Settled(j) => Settled(j)'
    BY <2>1 DEF Settled
  <2>5. OneReminder'
    BY <2>2 DEF RemindInv, OneReminder
  <2>6. \A j \in ReservationIds : notices'[j]["reminder"] > 0 => Settled(j)'
    BY <2>2, <2>3, <2>4 DEF RemindInv
  <2>7. \A l \in Ticks : \A j \in check'[l].todo : /\ j \in check[l].todo /\ j # i
                                                   /\ j \in ReservationIds
    BY <1>0, <2>1 DEF CheckStates
  <2>8. \A j \in ReservationIds : notices'[j]["reminder"] > 0 => resv'[j].state # "unused"
    BY <2>1, <2>2 DEF RemindInv
  <2>. QED  BY <2>1, <2>2, <2>5, <2>6, <2>7, <2>8 DEF RemindInv
<1>3. ASSUME NEW k \in Ticks, CheckMark(k) PROVE RemindInv'
  <2> DEFINE i == check[k].id
  <2>1. /\ i \in ReservationIds /\ notices' = notices
        /\ \A l \in Ticks : l = k
    BY <1>3 DEF CheckMark, BaseInv, Shapes, CheckShape, OneCheckAtATime
  <2>2. \/ resv' = [resv EXCEPT ![i] = [@ EXCEPT !.reminded = TRUE]]
        \/ resv' = resv /\ resv[i].state = "deleted"
    BY <1>3 DEF CheckMark
  <2>3. /\ \A j \in ReservationIds : /\ resv'[j].state = resv[j].state
                                     /\ resv[j].reminded => resv'[j].reminded
        /\ resv'[i].reminded \/ resv'[i].state = "deleted"
    <3>1. CASE resv' = [resv EXCEPT ![i] = [@ EXCEPT !.reminded = TRUE]]
      <4>1. /\ resv'[i].state = resv[i].state /\ resv'[i].reminded = TRUE
            /\ \A j \in ReservationIds \ {i} : resv'[j] = resv[j]
        BY <1>0, <2>1, <3>1 DEF ResvRows
      <4>. QED  BY <4>1
    <3>. QED  BY <2>2, <3>1
  <2>4. ASSUME NEW j \in ReservationIds, Settled(j) PROVE Settled(j)'
    BY <2>1, <2>3, <2>4 DEF Settled
  <2>5. \/ check' = [check EXCEPT ![k] = IdleCheck]
        \/ check' = [check EXCEPT ![k] = [@ EXCEPT !.pc = "next", !.id = None]]
    BY <1>3 DEF CheckMark
  <2>6. \A l \in Ticks : check'[l].todo \subseteq check[l].todo
    <3>1. CASE check' = [check EXCEPT ![k] = IdleCheck]
      BY <1>0, <3>1 DEF IdleCheck
    <3>2. CASE check' = [check EXCEPT ![k] = [@ EXCEPT !.pc = "next", !.id = None]]
      BY <1>0, <3>2 DEF CheckStates
    <3>. QED  BY <2>5, <3>1, <3>2
  <2>. QED  BY <2>1, <2>3, <2>4, <2>6, RemindsNothing
<1>4. ASSUME NEW t \in Tabs, CreateInsert(t) PROVE RemindInv'
  <2>1. /\ \A i \in ReservationIds : \/ resv'[i] = resv[i]
                                     \/ /\ resv[i].state = "unused"
                                        /\ resv'[i].state = "confirmed"
        /\ notices' = notices /\ check' = check
    BY <1>0, <1>4 DEF CreateInsert, Unused
  <2>2. \A i \in ReservationIds : notices[i]["reminder"] > 0 => resv'[i] = resv[i]
    BY <2>1 DEF RemindInv
  <2>. QED  BY <2>1, <2>2, RemindsNothing DEF Settled
<1>5. ASSUME NEW t \in Tabs, CancelWrite(t) PROVE RemindInv'
  <2>1. \A i \in ReservationIds : /\ resv'[i].state \in {resv[i].state, "cancelled"}
                                  /\ resv'[i].reminded = resv[i].reminded
    BY <1>0, <1>5 DEF CancelWrite, ResvRows
  <2>. QED  BY <1>5, <2>1, RemindsNothing DEF CancelWrite, Settled
<1>6. ASSUME NEW S \in SUBSET Spots, SpotsRemove(S) PROVE RemindInv'
  <2>1. \A i \in ReservationIds : /\ resv'[i].state \in {resv[i].state, "deleted"}
                                  /\ resv'[i].reminded = resv[i].reminded
    BY <1>0, <1>6 DEF SpotsRemove, ResvRows
  <2>. QED  BY <1>6, <2>1, RemindsNothing DEF SpotsRemove, Settled
<1>7. ASSUME NEW t \in Tabs, Notify(t) PROVE RemindInv'
  <2>1. tab[t].id \in ReservationIds /\ tab[t].kind \in {"confirmed", "cancelled"}
    BY <1>7 DEF Notify, BaseInv, Shapes, TabShape
  <2>2. \A i \in ReservationIds : notices'[i]["reminder"] = notices[i]["reminder"]
    BY <1>0, <1>7, <2>1 DEF Notify, Kinds
  <2>. QED  BY <1>7, <2>2, RemindsNothing DEF Notify, Settled
<1>8. ASSUME UNCHANGED <<resv, notices, check>> PROVE RemindInv'
  BY <1>8, RemindsNothing DEF Settled
<1>. QED
  BY <1>1, <1>2, <1>3, <1>4, <1>5, <1>6, <1>7, <1>8
  DEF Next, TabNext, CheckNext, SpotNext, vars, CreateRequest, CreateReadSpot,
      CreateReadConflict, CreateLost, CancelRequest, CancelLost, CancelReadSpot, FailTab, FailCheck, ClockTick, SpotToggle,
      SpotCreate

\* Where each check ends before the next and none is cut short, a reservation is
\* reminded of once at most, even if it is cancelled or removed meanwhile.
THEOREM RemindedOnce == OneCheckAtATime /\ ~Faults => (Spec => []OneReminder)
<1>. SUFFICES ASSUME OneCheckAtATime, ~Faults PROVE Spec => []OneReminder
  OBVIOUS
<1>1. Init => RemindInv
  BY DEF Init, RemindInv, OneReminder, IdleCheck, Kinds
<1>2. BaseInv /\ RemindInv /\ [Next]_vars => RemindInv'
  BY RemindStep
<1>3. RemindInv => OneReminder
  BY DEF RemindInv
<1>. QED
  BY <1>1, <1>2, <1>3, BaseInvariant, PTL DEF Spec

-----------------------------------------------------------------------------
(* A reminder in time, where the check of each minute ends within it, none is *)
(* cut short and no spot is removed.                                         *)

\* It was sent, or the check in progress still has it on its list.
Handled(i) ==
    \/ notices[i]["reminder"] > 0
    \/ \E k \in Ticks : check[k].pc # "idle" /\ i \in check[k].todo

\* The check of this minute has read what is due.
CheckHasRun == lastRun = now \/ \E k \in Ticks : check[k].pc # "idle"

\* The last check before the start misses nothing that was there a minute ago.
LastMinute ==
    \A i \in ReservationIds :
        /\ resv[i].state = "confirmed"
        /\ resv[i].from = now + 1 /\ resv[i].made < now
        /\ CheckHasRun
        => Handled(i)

NoneRemoved == \A i \in ReservationIds : resv[i].state # "deleted"
\* A check that has ended in this minute is the only one of the minute.
OnTheMinute == \A k \in Ticks : check[k].pc # "idle" => lastRun # now

InTimeInv == RemindedInTime /\ LastMinute /\ NoneRemoved /\ OnTheMinute

\* A step of a request: a reservation that is confirmed was so before, or is made now.
LEMMA InTimeKept ==
    ASSUME TypeOK, TypeOK', InTimeInv, UNCHANGED <<now, check, lastRun>>,
           \A i \in ReservationIds :
               /\ notices[i]["reminder"] > 0 => notices'[i]["reminder"] > 0
               /\ resv'[i].state # "deleted"
               /\ resv'[i].state = "confirmed" =>
                    \/ resv'[i].made = now
                    \/ /\ resv[i].state = "confirmed"
                       /\ resv'[i].from = resv[i].from /\ resv'[i].made = resv[i].made
    PROVE  InTimeInv'
<1>1. now \in Times /\ \A i \in ReservationIds : resv'[i].from \in Times
  BY DEF TypeOK, ResvRows
<1>2. RemindedInTime'
  BY <1>1 DEF InTimeInv, RemindedInTime, Times
<1>3. (CheckHasRun' <=> CheckHasRun) /\ \A i \in ReservationIds : Handled(i) => Handled(i)'
  BY DEF CheckHasRun, Handled
<1>4. LastMinute'
  BY <1>1, <1>3 DEF InTimeInv, LastMinute, Times
<1>. QED  BY <1>2, <1>4 DEF InTimeInv, NoneRemoved, OnTheMinute

LEMMA InTimeStep ==
    ASSUME OneCheckAtATime, Prompt, ~Faults, ~Removals, Lead # 0,
           BaseInv, BaseInv', InTimeInv, [Next]_vars
    PROVE  InTimeInv'
<1>0. /\ check \in [Ticks -> CheckStates] /\ resv \in [ReservationIds -> ResvRows]
      /\ notices \in [ReservationIds -> [Kinds -> Nat]] /\ tab \in [Tabs -> TabStates]
      /\ now \in Nat /\ now' \in Nat /\ Lead \in Nat
      /\ \A i \in ReservationIds : resv[i].from \in Nat /\ resv[i].made \in Nat
  BY LeadType DEF BaseInv, TypeOK, ResvRows, Times
<1>t. TypeOK /\ TypeOK'
  BY DEF BaseInv
\* The query: one that starts next minute is due, unless it is flagged.
<1>1. ASSUME NEW k \in Ticks, CheckQuery(k) PROVE InTimeInv'
  <2>1. /\ UNCHANGED <<now, resv, notices>>
        /\ lastRun # now /\ check[k].pc = "idle"
        /\ \A l \in Ticks : l = k
    BY <1>1 DEF CheckQuery, OneCheckAtATime
  <2>2. RemindedInTime' /\ NoneRemoved'
    BY <2>1 DEF InTimeInv, RemindedInTime, NoneRemoved
  <2>3. ASSUME NEW i \in ReservationIds, resv[i].state = "confirmed", resv[i].from = now + 1
        PROVE  i \in Due \/ notices[i]["reminder"] > 0
    BY <1>0, <2>3 DEF Due, BaseInv, FlagMeansSent
  <2>4. CASE Due = {}
    <3>1. check' = check
      BY <1>1, <2>4 DEF CheckQuery
    <3> QED BY <2>1, <2>2, <2>3, <2>4, <3>1 DEF InTimeInv, LastMinute, OnTheMinute, Handled
  <2>5. CASE Due # {}
    <3>1. lastRun' = lastRun /\ check'[k].pc = "next" /\ check'[k].todo = Due
      BY <1>0, <1>1, <2>5 DEF CheckQuery, IdleCheck
    <3>2. LastMinute'
      BY <2>1, <2>3, <3>1 DEF LastMinute, Handled
    <3>3. OnTheMinute'
      BY <2>1, <3>1 DEF OnTheMinute
    <3> QED BY <2>2, <3>2, <3>3 DEF InTimeInv
  <2> QED BY <2>4, <2>5
\* What leaves the list has been sent.
<1>2. ASSUME NEW k \in Ticks, NEW i \in ReservationIds, CheckSend(k, i) PROVE InTimeInv'
  <2>1. /\ UNCHANGED <<now, resv, lastRun>> /\ check[k].pc = "next"
        /\ check'[k].pc = "mark" /\ check'[k].todo = check[k].todo \ {i}
        /\ \A l \in Ticks : l = k
    BY <1>0, <1>2 DEF CheckSend, OneCheckAtATime
  <2>2. /\ notices'[i]["reminder"] > 0
        /\ \A j \in ReservationIds : notices[j]["reminder"] > 0 => notices'[j]["reminder"] > 0
    BY <1>0, <1>2 DEF CheckSend, Kinds
  <2>3. RemindedInTime' /\ NoneRemoved' /\ OnTheMinute'
    BY <2>1, <2>2 DEF InTimeInv, RemindedInTime, NoneRemoved, OnTheMinute
  <2>4. ASSUME NEW j \in ReservationIds, Handled(j) PROVE Handled(j)'
    BY <2>1, <2>2, <2>4 DEF Handled
  <2>5. CheckHasRun
    BY <2>1 DEF CheckHasRun
  <2> QED BY <2>1, <2>3, <2>4, <2>5 DEF InTimeInv, LastMinute
\* No row has gone, so the check ends with an empty list.
<1>3. ASSUME NEW k \in Ticks, CheckMark(k) PROVE InTimeInv'
  <2> DEFINE i == check[k].id
  <2>1. /\ i \in ReservationIds /\ UNCHANGED <<now, notices>> /\ check[k].pc = "mark"
        /\ \A l \in Ticks : l = k
    BY <1>3 DEF CheckMark, BaseInv, Shapes, CheckShape, OneCheckAtATime
  <2>2. /\ resv' = [resv EXCEPT ![i] = [@ EXCEPT !.reminded = TRUE]]
        /\ check' = [check EXCEPT ![k] =
                       IF @.todo = {} THEN IdleCheck
                                      ELSE [@ EXCEPT !.pc = "next", !.id = None]]
        /\ lastRun' = IF check'[k].pc = "idle" THEN Ended ELSE lastRun
    BY <1>3, <2>1 DEF CheckMark, InTimeInv, NoneRemoved
  <2>3. \A j \in ReservationIds : /\ resv'[j].state = resv[j].state
                                  /\ resv'[j].from = resv[j].from
                                  /\ resv'[j].made = resv[j].made
    BY <1>0, <2>1, <2>2 DEF ResvRows
  <2>4. RemindedInTime' /\ NoneRemoved'
    BY <2>1, <2>3 DEF InTimeInv, RemindedInTime, NoneRemoved
  <2>5. CheckHasRun
    BY <2>1 DEF CheckHasRun
  <2>6. CASE check[k].todo = {}
    <3>1. check'[k].pc = "idle"
      BY <1>0, <2>2, <2>6 DEF IdleCheck
    <3>2. \A j \in ReservationIds : Handled(j) => notices'[j]["reminder"] > 0
      BY <2>1, <2>6 DEF Handled
    <3>3. LastMinute'
      BY <2>1, <2>3, <2>5, <3>2 DEF InTimeInv, LastMinute, Handled
    <3> QED BY <2>1, <2>4, <3>1, <3>3 DEF InTimeInv, OnTheMinute
  <2>7. CASE check[k].todo # {}
    <3>1. check'[k].pc = "next" /\ check'[k].todo = check[k].todo
      BY <1>0, <2>2, <2>7 DEF CheckStates
    <3>2. lastRun' = lastRun
      BY <2>2, <3>1
    <3>3. \A j \in ReservationIds : Handled(j) => Handled(j)'
      BY <2>1, <3>1 DEF Handled
    <3>4. LastMinute'
      BY <2>1, <2>3, <2>5, <3>3 DEF InTimeInv, LastMinute
    <3> QED BY <2>1, <2>4, <3>2, <3>4 DEF InTimeInv, OnTheMinute
  <2> QED BY <2>6, <2>7
\* The minute ends after its check: what starts now was handled, and the list is empty.
<1>4. CASE ClockTick
  <2>1. /\ now' = now + 1 /\ lastRun = now
        /\ UNCHANGED <<resv, notices, check, lastRun>>
    BY <1>4 DEF ClockTick
  <2>2. \A k \in Ticks : check[k].pc = "idle"
    BY <2>1 DEF InTimeInv, OnTheMinute
  <2>3. ASSUME NEW i \in ReservationIds, resv[i].state = "confirmed",
               resv[i].from = now + 1, resv[i].made < now
        PROVE  notices[i]["reminder"] > 0
    BY <2>1, <2>2, <2>3 DEF InTimeInv, LastMinute, CheckHasRun, Handled
  <2>4. RemindedInTime'
    <3> SUFFICES ASSUME NEW i \in ReservationIds, resv[i].state = "confirmed",
                        resv[i].from <= now + 1, resv[i].made + 1 < resv[i].from
                 PROVE  notices[i]["reminder"] > 0
      BY <2>1 DEF RemindedInTime
    <3>1. CASE resv[i].from <= now
      BY <3>1 DEF InTimeInv, RemindedInTime
    <3>2. CASE resv[i].from = now + 1
      <4>1. resv[i].made < now
        BY <1>0, <3>2
      <4> QED BY <2>3, <3>2, <4>1
    <3>3. resv[i].from <= now \/ resv[i].from = now + 1
      <4> DEFINE f == resv[i].from
      <4>1. f \in Nat /\ now \in Nat /\ f <= now + 1
        BY <1>0
      <4> HIDE DEF f
      <4>2. f <= now \/ f = now + 1
        BY <4>1
      <4> QED BY <4>2 DEF f
    <3> QED BY <3>1, <3>2, <3>3
  <2>5. ~CheckHasRun'
    BY <1>0, <2>1, <2>2 DEF CheckHasRun
  <2> QED BY <2>1, <2>2, <2>4, <2>5 DEF InTimeInv, LastMinute, NoneRemoved, OnTheMinute
<1>5. ASSUME NEW t \in Tabs, CreateInsert(t) PROVE InTimeInv'
  <2>1. /\ \A i \in ReservationIds : \/ resv'[i] = resv[i]
                                     \/ resv'[i].state = "confirmed" /\ resv'[i].made = now
        /\ UNCHANGED <<now, notices, check, lastRun>>
    BY <1>0, <1>5 DEF CreateInsert, Unused
  <2>2. \A i \in ReservationIds : resv'[i].state # "deleted"
    BY <2>1 DEF InTimeInv, NoneRemoved
  <2> QED BY <1>t, <2>1, <2>2, InTimeKept
<1>6. ASSUME NEW t \in Tabs, CancelWrite(t) PROVE InTimeInv'
  <2>1. \A i \in ReservationIds : /\ resv'[i].state \in {resv[i].state, "cancelled"}
                                  /\ resv'[i].from = resv[i].from
                                  /\ resv'[i].made = resv[i].made
    BY <1>0, <1>6 DEF CancelWrite, ResvRows
  <2>2. \A i \in ReservationIds : resv'[i].state # "deleted"
    BY <2>1 DEF InTimeInv, NoneRemoved
  <2>3. UNCHANGED <<now, notices, check, lastRun>>
    BY <1>6 DEF CancelWrite
  <2> QED BY <1>t, <2>1, <2>2, <2>3, InTimeKept
<1>7. ASSUME NEW t \in Tabs, Notify(t) PROVE InTimeInv'
  <2>1. tab[t].id \in ReservationIds /\ tab[t].kind \in {"confirmed", "cancelled"}
    BY <1>7 DEF Notify, BaseInv, Shapes, TabShape
  <2>2. \A i \in ReservationIds : notices'[i]["reminder"] = notices[i]["reminder"]
    BY <1>0, <1>7, <2>1 DEF Notify, Kinds
  <2>3. UNCHANGED <<now, resv, check, lastRun>>
    BY <1>7 DEF Notify
  <2>4. \A i \in ReservationIds : resv'[i].state # "deleted"
    BY <2>3 DEF InTimeInv, NoneRemoved
  <2> QED BY <1>t, <2>2, <2>3, <2>4, InTimeKept
<1>8. ASSUME UNCHANGED <<now, resv, notices, check, lastRun>> PROVE InTimeInv'
  BY <1>8
  DEF InTimeInv, RemindedInTime, LastMinute, NoneRemoved, OnTheMinute, CheckHasRun, Handled
<1>. QED
  BY <1>1, <1>2, <1>3, <1>4, <1>5, <1>6, <1>7, <1>8
  DEF Next, TabNext, CheckNext, SpotNext, vars, CreateRequest, CreateReadSpot,
      CreateReadConflict, CreateLost, CancelRequest, CancelLost, CancelReadSpot, FailTab, FailCheck, SpotToggle, SpotCreate,
      SpotsRemove

\* Where a check runs in every minute and ends within it, none is cut short and no
\* spot is removed, a reservation made more than a minute before its start has its
\* reminder when it starts, whatever the lead.
THEOREM AlwaysRemindedInTime ==
    OneCheckAtATime /\ Prompt /\ ~Faults /\ ~Removals /\ Lead # 0
        => (Spec => []RemindedInTime)
<1>. SUFFICES ASSUME OneCheckAtATime, Prompt, ~Faults, ~Removals, Lead # 0
              PROVE  Spec => []RemindedInTime
  OBVIOUS
<1>1. Init => InTimeInv
  BY DEF Init, InTimeInv, RemindedInTime, LastMinute, NoneRemoved, OnTheMinute, NoResv,
         IdleCheck
<1>2. BaseInv /\ BaseInv' /\ InTimeInv /\ [Next]_vars => InTimeInv'
  BY InTimeStep
<1>3. InTimeInv => RemindedInTime
  BY DEF InTimeInv
<1>. QED
  BY <1>1, <1>2, <1>3, BaseInvariant, PTL DEF Spec
=============================================================================
