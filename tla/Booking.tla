------------------------------- MODULE Booking -------------------------------
(***************************************************************************)
(* Reservations: creating and cancelling one, and the reminder that is      *)
(* sent some minutes before it starts.  Neither handler uses a transaction: *)
(* every query is an await, and one action here.  The reminder check runs  *)
(* every minute and handles the reservations it found one after the other. *)
(***************************************************************************)
EXTENDS Naturals, FiniteSets

CONSTANTS
    Users,           \* citizens
    Tabs,            \* browser tabs: each has one request in flight
    UserOf,          \* the citizen signed in to each tab
    Spots,           \* parking spots
    ReservationIds,  \* ids of reservation rows: bounds the number made
    MayBook,         \* pairs <<tab, spot>>: who books what
    Ticks,           \* how many reminder checks may overlap
    Lead,            \* minutes before the start at which a reminder is due
    MaxTime,         \* the last minute of the model (a bound)
    MaxReminders,    \* checks stop once a reservation had this many (a bound)
    Removals,        \* TRUE: staff may remove spots
    Prompt,          \* TRUE: the check of each minute ends within the minute
    Faults,          \* TRUE: a call may fail, or the process die, between awaits
    None             \* no value

Times    == 0..MaxTime
SpotRows == {"unborn", "usable", "disabled", "deleted"}   \* what create asks of a row
Kinds    == {"confirmed", "cancelled", "reminder"}

ASSUME UserOfType  == UserOf \in [Tabs -> Users]
ASSUME MayBookType == MayBook \subseteq Tabs \X Spots
ASSUME LeadType    == Lead \in Nat /\ MaxTime \in Nat
ASSUME BoundType   == MaxReminders \in Nat
ASSUME FlagsType   == Removals \in BOOLEAN /\ Prompt \in BOOLEAN /\ Faults \in BOOLEAN
ASSUME NoneType    == None \notin Users \cup Spots \cup ReservationIds

VARIABLES
    now,      \* the clock, in minutes
    spot,     \* spot[s]: what a booking needs to know of the row of s
    resv,     \* resv[i]: the row of reservations with id i
    notices,  \* how many notifications of each kind a reservation has caused
    tab,      \* the create or cancel each tab waits for
    check,    \* the reminder checks in progress
    lastRun   \* the last minute whose check has ended, when Prompt

vars == <<now, spot, resv, notices, tab, check, lastRun>>

IdleTab   == [pc |-> "idle", spot |-> None, from |-> 0, to |-> 0, id |-> None,
              kind |-> None]
IdleCheck == [pc |-> "idle", todo |-> {}, id |-> None]
NoResv    == [state |-> "unused", user |-> None, spot |-> None, from |-> 0, to |-> 0,
              reminded |-> FALSE, made |-> 0]

ResvRows    == [state : {"unused", "confirmed", "cancelled", "deleted"},
                user : Users \cup {None}, spot : Spots \cup {None},
                from : Times, to : Times, reminded : BOOLEAN, made : Times]
TabStates   == [pc : {"idle", "spot", "conflict", "insert", "cancel", "code", "notify"},
                spot : Spots \cup {None}, from : Times, to : Times,
                id : ReservationIds \cup {None}, kind : Kinds \cup {None}]
CheckStates == [pc : {"idle", "next", "mark"}, todo : SUBSET ReservationIds,
                id : ReservationIds \cup {None}]

TypeOK ==
    /\ now \in Times
    /\ spot \in [Spots -> SpotRows]
    /\ resv \in [ReservationIds -> ResvRows]
    /\ notices \in [ReservationIds -> [Kinds -> Nat]]
    /\ tab \in [Tabs -> TabStates]
    /\ check \in [Ticks -> CheckStates]
    /\ lastRun \in Times \cup {None}

Init ==
    /\ now = 0
    /\ spot \in [Spots -> {"unborn", "usable"}]
    /\ resv = [i \in ReservationIds |-> NoResv]
    /\ notices = [i \in ReservationIds |-> [c \in Kinds |-> 0]]
    /\ tab = [t \in Tabs |-> IdleTab]
    /\ check = [k \in Ticks |-> IdleCheck]
    /\ lastRun = None

Unused   == {i \in ReservationIds : resv[i].state = "unused"}
Creating == {t \in Tabs : tab[t].pc \in {"spot", "conflict", "insert"}}

\* Two half-open windows of time have a minute in common.
Overlap(from1, to1, from2, to2) == from1 < to2 /\ from2 < to1

\* Mutant: only reservations that start within the window are found.
ConflictsInside(s, from, to) ==
    {i \in ReservationIds :
        /\ resv[i].state = "confirmed"
        /\ resv[i].spot = s
        /\ from <= resv[i].from /\ resv[i].from < to}

\* Confirmed reservations of s that meet the window.
Conflicts(s, from, to) ==
    {i \in ReservationIds :
        /\ resv[i].state = "confirmed"
        /\ resv[i].spot = s
        /\ Overlap(resv[i].from, resv[i].to, from, to)}

-----------------------------------------------------------------------------
(* Creating a reservation.                                                 *)

\* A window that ends before it starts, or starts in the past, is refused at once.
\* The third conjunct keeps an id for every create under way (a bound).
CreateRequest(t, s, from, to) ==
    /\ tab[t].pc = "idle"
    /\ <<t, s>> \in MayBook
    /\ Cardinality(Creating) < Cardinality(Unused)
    /\ from < to
    /\ now <= from
    /\ tab' = [tab EXCEPT ![t] = [IdleTab EXCEPT !.pc = "spot", !.spot = s,
                                                 !.from = from, !.to = to]]
    /\ UNCHANGED <<now, spot, resv, notices, check, lastRun>>

\* The spot must exist (404) and not be out of service (409).
CreateReadSpot(t) ==
    /\ tab[t].pc = "spot"
    /\ tab' = IF spot[tab[t].spot] = "usable"
                THEN [tab EXCEPT ![t] = [@ EXCEPT !.pc = "conflict"]]
                ELSE [tab EXCEPT ![t] = IdleTab]
    /\ UNCHANGED <<now, spot, resv, notices, check, lastRun>>

\* findFirst of a confirmed reservation of the spot that overlaps.
CreateReadConflict(t) ==
    /\ tab[t].pc = "conflict"
    /\ tab' = IF Conflicts(tab[t].spot, tab[t].from, tab[t].to) = {}
                THEN [tab EXCEPT ![t] = [@ EXCEPT !.pc = "insert"]]
                ELSE [tab EXCEPT ![t] = IdleTab]
    /\ UNCHANGED <<now, spot, resv, notices, check, lastRun>>

\* Mutant: the row gets the id of the tab for its citizen's.
CreateInsertForTab(t) ==
    /\ tab[t].pc = "insert"
    /\ spot[tab[t].spot] # "deleted"
    /\ \E i \in Unused :
         /\ resv' = [resv EXCEPT ![i] =
                      [state |-> "confirmed", user |-> t, spot |-> tab[t].spot,
                       from |-> tab[t].from, to |-> tab[t].to, reminded |-> FALSE,
                       made |-> now]]
         /\ tab' = [tab EXCEPT ![t] = [IdleTab EXCEPT !.pc = "notify", !.id = i,
                                                      !.kind = "confirmed"]]
    /\ UNCHANGED <<now, spot, notices, check, lastRun>>

\* The row, confirmed by default, with the times asked for.
CreateInsert(t) ==
    /\ tab[t].pc = "insert"
    /\ spot[tab[t].spot] # "deleted"
    /\ \E i \in Unused :
         /\ resv' = [resv EXCEPT ![i] =
                      [state |-> "confirmed", user |-> UserOf[t], spot |-> tab[t].spot,
                       from |-> tab[t].from, to |-> tab[t].to, reminded |-> FALSE,
                       made |-> now]]
         /\ tab' = [tab EXCEPT ![t] = [IdleTab EXCEPT !.pc = "notify", !.id = i,
                                                      !.kind = "confirmed"]]
    /\ UNCHANGED <<now, spot, notices, check, lastRun>>

\* The spot has gone since it was read: the foreign key refuses the row.
CreateLost(t) ==
    /\ tab[t].pc = "insert"
    /\ spot[tab[t].spot] = "deleted"
    /\ tab' = [tab EXCEPT ![t] = IdleTab]
    /\ UNCHANGED <<now, spot, resv, notices, check, lastRun>>

-----------------------------------------------------------------------------
(* Cancelling one.                                                         *)

\* Mutant: one that is cancelled already is cancelled again.
CancelRequestAgain(t, i) ==
    /\ tab[t].pc = "idle"
    /\ resv[i].state \in {"confirmed", "cancelled"}
    /\ resv[i].user = UserOf[t]
    /\ tab' = [tab EXCEPT ![t] = [IdleTab EXCEPT !.pc = "cancel", !.id = i]]
    /\ UNCHANGED <<now, spot, resv, notices, check, lastRun>>

\* The reservation is read: only its own citizen may cancel it, and one that is
\* cancelled already is returned as it is.
CancelRequest(t, i) ==
    /\ tab[t].pc = "idle"
    /\ resv[i].state = "confirmed"
    /\ resv[i].user = UserOf[t]
    /\ tab' = [tab EXCEPT ![t] = [IdleTab EXCEPT !.pc = "cancel", !.id = i]]
    /\ UNCHANGED <<now, spot, resv, notices, check, lastRun>>

\* Mutant: the status is not written.
CancelWriteNothing(t) ==
    /\ tab[t].pc = "cancel"
    /\ resv[tab[t].id].state # "deleted"
    /\ tab' = [tab EXCEPT ![t] = [@ EXCEPT !.pc = "code"]]
    /\ UNCHANGED <<now, spot, resv, notices, check, lastRun>>

CancelWrite(t) ==
    /\ tab[t].pc = "cancel"
    /\ resv[tab[t].id].state # "deleted"
    /\ resv' = [resv EXCEPT ![tab[t].id] = [@ EXCEPT !.state = "cancelled"]]
    /\ tab' = [tab EXCEPT ![t] = [@ EXCEPT !.pc = "code"]]
    /\ UNCHANGED <<now, spot, notices, check, lastRun>>

\* The row went with its spot since it was read: the update throws.
CancelLost(t) ==
    /\ tab[t].pc = "cancel"
    /\ resv[tab[t].id].state = "deleted"
    /\ tab' = [tab EXCEPT ![t] = IdleTab]
    /\ UNCHANGED <<now, spot, resv, notices, check, lastRun>>

\* The spot is read for its code: 404, after the fact, when it has gone.
CancelReadSpot(t) ==
    /\ tab[t].pc = "code"
    /\ tab' = IF spot[resv[tab[t].id].spot] # "deleted"
                THEN [tab EXCEPT ![t] = [@ EXCEPT !.pc = "notify", !.kind = "cancelled"]]
                ELSE [tab EXCEPT ![t] = IdleTab]
    /\ UNCHANGED <<now, spot, resv, notices, check, lastRun>>

\* Both end with a notification.
Notify(t) ==
    /\ tab[t].pc = "notify"
    /\ notices' = [notices EXCEPT ![tab[t].id][tab[t].kind] = @ + 1]
    /\ tab' = [tab EXCEPT ![t] = IdleTab]
    /\ UNCHANGED <<now, spot, resv, check, lastRun>>

-----------------------------------------------------------------------------
(* The reminder check.                                                     *)

\* Mutants: the flag is not asked for; only a start exactly Lead away is found.
DueFlagged == {i \in ReservationIds :
                 /\ resv[i].state = "confirmed"
                 /\ now < resv[i].from
                 /\ resv[i].from <= now + Lead}

DueExactly == {i \in ReservationIds :
                 /\ resv[i].state = "confirmed"
                 /\ ~resv[i].reminded
                 /\ resv[i].from = now + Lead}

\* Confirmed, not reminded, and starting within Lead minutes from now.
Due == {i \in ReservationIds :
          /\ resv[i].state = "confirmed"
          /\ ~resv[i].reminded
          /\ now < resv[i].from
          /\ resv[i].from <= now + Lead}

Ended == IF Prompt THEN now ELSE lastRun

\* The interval fires, once a minute when Prompt: the check reads the reservations that are due.
CheckQuery(k) ==
    /\ check[k].pc = "idle"
    /\ Prompt => lastRun # now
    /\ \A i \in Due : notices[i]["reminder"] < MaxReminders
    /\ check' = IF Due = {} THEN check
                            ELSE [check EXCEPT ![k] = [IdleCheck EXCEPT !.pc = "next",
                                                                        !.todo = Due]]
    /\ lastRun' = IF Due = {} THEN Ended ELSE lastRun
    /\ UNCHANGED <<now, spot, resv, notices, tab>>

\* The next one's citizen is notified, whatever became of the reservation since.
CheckSend(k, i) ==
    /\ check[k].pc = "next"
    /\ i \in check[k].todo
    /\ notices' = [notices EXCEPT ![i]["reminder"] = @ + 1]
    /\ check' = [check EXCEPT ![k] = [pc |-> "mark", todo |-> @.todo \ {i}, id |-> i]]
    /\ UNCHANGED <<now, spot, resv, tab, lastRun>>

\* Mutant: reminderSent is set for the rest of the list too.
CheckMarkAll(k) ==
    /\ check[k].pc = "mark"
    /\ IF resv[check[k].id].state # "deleted"
         THEN /\ resv' = [i \in ReservationIds |->
                            IF i \in check[k].todo \cup {check[k].id}
                              THEN [resv[i] EXCEPT !.reminded = TRUE] ELSE resv[i]]
              /\ check' = [check EXCEPT ![k] =
                             IF @.todo = {} THEN IdleCheck
                                            ELSE [@ EXCEPT !.pc = "next", !.id = None]]
         ELSE /\ check' = [check EXCEPT ![k] = IdleCheck]
              /\ UNCHANGED resv
    /\ lastRun' = IF check'[k].pc = "idle" THEN Ended ELSE lastRun
    /\ UNCHANGED <<now, spot, notices, tab>>

\* reminderSent is set; when the row has gone the update throws and the check
\* ends there.
CheckMark(k) ==
    /\ check[k].pc = "mark"
    /\ IF resv[check[k].id].state # "deleted"
         THEN /\ resv' = [resv EXCEPT ![check[k].id] = [@ EXCEPT !.reminded = TRUE]]
              /\ check' = [check EXCEPT ![k] =
                             IF @.todo = {} THEN IdleCheck
                                            ELSE [@ EXCEPT !.pc = "next", !.id = None]]
         ELSE /\ check' = [check EXCEPT ![k] = IdleCheck]
              /\ UNCHANGED resv
    /\ lastRun' = IF check'[k].pc = "idle" THEN Ended ELSE lastRun
    /\ UNCHANGED <<now, spot, notices, tab>>

-----------------------------------------------------------------------------
(* Outside: the clock, the staff, failures.                                *)

ClockTick ==
    /\ now < MaxTime
    /\ Prompt => lastRun = now
    /\ now' = now + 1
    /\ UNCHANGED <<spot, resv, notices, tab, check, lastRun>>

\* Staff take a spot out of service or back; a tick that had seen it before puts it back too.
SpotToggle(s) ==
    /\ spot[s] \in {"usable", "disabled"}
    /\ spot' = [spot EXCEPT ![s] = IF @ = "usable" THEN "disabled" ELSE "usable"]
    /\ UNCHANGED <<now, resv, notices, tab, check, lastRun>>

SpotCreate(s, c) ==
    /\ spot[s] = "unborn"
    /\ spot' = [spot EXCEPT ![s] = c]
    /\ UNCHANGED <<now, resv, notices, tab, check, lastRun>>

\* Staff remove a spot, or a zone with its spots, and their reservations go with them
\* (ON DELETE CASCADE).
SpotsRemove(S) ==
    /\ Removals
    /\ \A s \in S : spot[s] \in {"usable", "disabled"}
    /\ spot' = [s \in Spots |-> IF s \in S THEN "deleted" ELSE spot[s]]
    /\ resv' = [i \in ReservationIds |->
                  IF resv[i].spot \in S THEN [resv[i] EXCEPT !.state = "deleted"] ELSE resv[i]]
    /\ UNCHANGED <<now, notices, tab, check, lastRun>>

FailTab(t) ==
    /\ Faults
    /\ tab[t].pc # "idle"
    /\ tab' = [tab EXCEPT ![t] = IdleTab]
    /\ UNCHANGED <<now, spot, resv, notices, check, lastRun>>

FailCheck(k) ==
    /\ Faults
    /\ check[k].pc # "idle"
    /\ check' = [check EXCEPT ![k] = IdleCheck]
    /\ UNCHANGED <<now, spot, resv, notices, tab, lastRun>>

-----------------------------------------------------------------------------
TabNext(t) ==
    \/ \E s \in Spots, from \in Times, to \in Times : CreateRequest(t, s, from, to)
    \/ CreateReadSpot(t) \/ CreateReadConflict(t) \/ CreateInsert(t) \/ CreateLost(t)
    \/ \E i \in ReservationIds : CancelRequest(t, i)
    \/ CancelWrite(t) \/ CancelLost(t) \/ CancelReadSpot(t)
    \/ Notify(t)
    \/ FailTab(t)

CheckNext(k) ==
    \/ CheckQuery(k)
    \/ \E i \in ReservationIds : CheckSend(k, i)
    \/ CheckMark(k)
    \/ FailCheck(k)

SpotNext ==
    \/ \E s \in Spots : SpotToggle(s) \/ \E c \in {"usable", "disabled"} : SpotCreate(s, c)
    \/ \E S \in SUBSET Spots : SpotsRemove(S)

Next ==
    \/ \E t \in Tabs : TabNext(t)
    \/ \E k \in Ticks : CheckNext(k)
    \/ ClockTick
    \/ SpotNext

Spec == Init /\ [][Next]_vars

-----------------------------------------------------------------------------
(* Regimes.                                                                *)

OneTabPerUser    == \A t, u \in Tabs : UserOf[t] = UserOf[u] => t = u
\* No two tabs book the same spot.
OneBookerPerSpot == \A t, u \in Tabs, s \in Spots :
                        <<t, s>> \in MayBook /\ <<u, s>> \in MayBook => t = u
\* The check of a minute ends before the next one fires.
OneCheckAtATime  == \A k, l \in Ticks : k = l

(* Safety.                                                                 *)

\* No two confirmed reservations of a spot overlap (create's conflict check).
NoDoubleBooking ==
    \A i, j \in ReservationIds :
        /\ resv[i].state = "confirmed" /\ resv[j].state = "confirmed"
        /\ resv[i].spot = resv[j].spot
        /\ Overlap(resv[i].from, resv[i].to, resv[j].from, resv[j].to)
        => i = j

\* A reservation gets at most one reminder (checkReminders, 79-80).
OneReminder == \A i \in ReservationIds : notices[i]["reminder"] <= 1

\* A reservation made more than a minute before its start has had its reminder
\* when it starts: every minute before the start is within reach of one check.
RemindedInTime ==
    \A i \in ReservationIds :
        /\ resv[i].state = "confirmed"
        /\ resv[i].from <= now
        /\ resv[i].made + 1 < resv[i].from
        => notices[i]["reminder"] > 0

\* The flag is set only after the notification is stored: a reminder is lost by
\* no crash, though it may be sent again.
FlagMeansSent ==
    \A i \in ReservationIds : resv[i].reminded => notices[i]["reminder"] > 0

\* The requests that still have to announce the cancellation of i.
Cancelling(i) ==
    {t \in Tabs : /\ tab[t].id = i
                  /\ \/ tab[t].pc \in {"cancel", "code"}
                     \/ tab[t].pc = "notify" /\ tab[t].kind = "cancelled"}

AnnouncedByThoseAtWork(i) ==
    resv[i].state \in {"cancelled", "deleted"} =>
      /\ Cancelling(i)' \subseteq Cancelling(i)
      /\ notices'[i]["cancelled"] # notices[i]["cancelled"] =>
           /\ notices'[i]["cancelled"] = notices[i]["cancelled"] + 1
           /\ Cancelling(i)' # Cancelling(i)

\* Once a reservation is cancelled (or gone) no further request sets out to announce
\* it: only those that had read it confirmed before still may, each of them once.
\* Two cancellations that overlap do both announce it (cancel, 92-116).
CancelledByThoseAtWork ==
    [][\A i \in ReservationIds : AnnouncedByThoseAtWork(i)]_vars

\* A citizen is told of a cancellation only when the reservation has ceased to
\* bind its spot, and for good.
CancelNoticeIsTrue ==
    \A i \in ReservationIds :
        notices[i]["cancelled"] > 0 => resv[i].state \in {"cancelled", "deleted"}
=============================================================================
