------------------------------- MODULE Pages -------------------------------
(***************************************************************************)
(* The pages of a citizen: what the query cache says is theirs, and the     *)
(* buttons that change it.  Two caches behave alike, and a behaviour is     *)
(* about one of them: "session", the active parking session, which the page *)
(* of a zone and the page of the session watch, and on every page the       *)
(* header, to show a link to it; or "bookings", the reservations, which are *)
(* made on the page of a zone and listed on their own.  Neither knows whose *)
(* it is.                                                                  *)
(***************************************************************************)
EXTENDS Common, Naturals, FiniteSets

CONSTANTS
    Citizens,
    Places,      \* spots to park at, or windows of time to reserve
    MaxSent      \* requests that are not answered yet (a bound)

ASSUME CitizensType == None \notin Citizens \cup Places /\ MaxSent \in Nat \ {0}

VARIABLES
    desk,       \* which cache
    owns,       \* owns[u]: u's active session, or u's confirmed reservations
    visitor,    \* who is signed in
    at,         \* the page: "away", "zone", or "own"
    seen,       \* the cache, None before the first answer
    lookup,     \* the fetch
    expired,    \* the cache was invalidated while nothing watched it
    outgoing,   \* requests
    form,       \* the spot whose reservation form is open
    doubt       \* history: the cache may be wrong (see below)

pvars == <<desk, owns, visitor, at, seen, lookup, expired, outgoing, form, doubt>>

Buttons       == {"checkIn", "checkOut", "reserve", "cancel"}
\* kept: the page, and for a reservation the form, from which it was sent is still there.
SentRows  == [op : Buttons, what : Places \cup {None}, by : Citizens, done : BOOLEAN,
              kept : {"form", "page", "gone"}]
\* History, off: the answer will be wrong.
Lookups   == [pc : {"idle", "asked", "read"}, by : Citizens \cup {None},
              found : SUBSET Places, off : BOOLEAN]
NoLookup  == [pc |-> "idle", by |-> None, found |-> {}, off |-> FALSE]

PagesTypeOK ==
    /\ desk \in {"session", "bookings"}
    /\ owns \in [Citizens -> SUBSET Places] /\ visitor \in Citizens \cup {None}
    /\ at \in {"away", "zone", "own"}
    /\ seen \in (SUBSET Places) \cup {None} /\ lookup \in Lookups
    /\ expired \in BOOLEAN /\ outgoing \subseteq SentRows /\ Cardinality(outgoing) <= MaxSent
    /\ form \in Places \cup {None} /\ doubt \in BOOLEAN

PagesInit ==
    /\ desk \in {"session", "bookings"}
    /\ owns = [u \in Citizens |-> {}] /\ visitor = None /\ at = "away"
    /\ seen = None /\ lookup = NoLookup /\ expired = FALSE
    /\ outgoing = {} /\ form = None /\ doubt = FALSE

\* The header watches the session on every page, as soon as somebody is signed in.
Watches(u, page) == u # None /\ (page = "own" \/ desk = "session")
LookupOf(u)      == [NoLookup EXCEPT !.pc = "asked", !.by = u]
\* To a new watcher the cache is fetched unless it is less than 30 seconds old (not old)
\* and was not invalidated.
Stale(old)       == lookup.pc = "idle" /\ (seen = None \/ expired \/ old)
\* isPending of the hooks of this page; those of a page that was left are forgotten.
Pending          == \E q \in outgoing : q.kept # "gone"
Abandoned        == {[q EXCEPT !.kept = "gone"] : q \in outgoing}

\* What the cache holds, or is about to be told, does not come from u's own server state.
Doubted(yes) ==
    /\ doubt' = (doubt \/ yes)
    /\ lookup' = [lookup EXCEPT !.off = @ \/ (yes /\ lookup.pc = "read")]

-----------------------------------------------------------------------------
(* Who is there, and on which page.                                        *)

\* On the page of the login, over another session or none: then the header's watch begins.
VisitorComes(u, old) ==
    /\ at = "away" /\ visitor # u
    /\ visitor' = u
    /\ doubt' = (doubt \/ seen # None)
    /\ IF visitor = None /\ Watches(u, at) /\ Stale(old)
         THEN lookup' = LookupOf(u) /\ expired' = FALSE
         ELSE /\ lookup' = [lookup EXCEPT !.off = @ \/ lookup.pc # "idle"]
              /\ UNCHANGED expired
    /\ UNCHANGED <<desk, owns, at, seen, outgoing, form>>

\* Signing out leads to another page; a session that cannot be renewed just ends.
VisitorGoes(to) ==
    /\ visitor # None
    /\ visitor' = None
    /\ at' = to
    /\ outgoing' = IF to = at THEN outgoing ELSE Abandoned
    /\ form' = IF to = at THEN form ELSE None
    /\ UNCHANGED <<desk, owns, seen, lookup, expired, doubt>>

Arrive(page, old) ==
    /\ at = "away"
    /\ at' = page
    /\ IF Watches(visitor, page) /\ Stale(old)
         THEN lookup' = LookupOf(visitor) /\ expired' = FALSE
         ELSE UNCHANGED <<lookup, expired>>
    /\ UNCHANGED <<desk, owns, visitor, seen, outgoing, form, doubt>>

Leave ==
    /\ at # "away"
    /\ at' = "away"
    /\ outgoing' = Abandoned /\ form' = None
    /\ UNCHANGED <<desk, owns, visitor, seen, lookup, expired, doubt>>

-----------------------------------------------------------------------------
(* The buttons.                                                            *)

Send(op, what, kept) ==
    /\ Cardinality(outgoing) < MaxSent
    /\ outgoing' = outgoing \cup {[op |-> op, what |-> what, by |-> visitor, done |-> FALSE, kept |-> kept]}
    /\ UNCHANGED <<desk, owns, visitor, at, seen, lookup, expired, form, doubt>>

\* A free spot, when the cache knows of no session: it may not have been fetched yet.
CheckIn(s) ==
    /\ desk = "session" /\ at = "zone" /\ visitor # None
    /\ seen \in {None, {}} /\ ~Pending
    /\ Send("checkIn", s, "page")

\* On the page of the zone for the spot of the session, on its own page for whatever it is.
CheckOut ==
    /\ desk = "session" /\ at # "away"
    /\ visitor # None
    /\ seen \notin {None, {}} /\ ~Pending
    /\ Send("checkOut", None, "page")

\* setReservingSpotId: one form at a time; the same button closes it.
ToggleReserve(s) ==
    /\ desk = "bookings" /\ at = "zone" /\ visitor # None
    /\ form' = IF form = s THEN None ELSE s
    /\ outgoing' = {IF q.kept = "form" THEN [q EXCEPT !.kept = "page"] ELSE q : q \in outgoing}
    /\ UNCHANGED <<desk, owns, visitor, at, seen, lookup, expired, doubt>>

\* ReserveSpotForm: isPending is that of the form.
Reserve(s) ==
    /\ desk = "bookings" /\ at = "zone" /\ visitor # None
    /\ form = s /\ ~\E q \in outgoing : q.kept = "form"
    /\ Send("reserve", s, "form")

Cancel(b) ==
    /\ desk = "bookings" /\ at = "own" /\ visitor # None
    /\ seen # None /\ b \in seen /\ ~Pending
    /\ Send("cancel", b, "page")

-----------------------------------------------------------------------------
(* The server, and its answers.                                            *)

Effect(q) ==
    CASE q.op = "checkIn"  -> {q.what}
      [] q.op = "checkOut" -> {}
      [] q.op = "reserve"  -> owns[q.by] \cup {q.what}
      [] q.op = "cancel"   -> owns[q.by] \ {q.what}

\* One active session each; a reservation may be cancelled twice.
Accepted(q) ==
    CASE q.op = "checkIn"  -> owns[q.by] = {}
      [] q.op = "checkOut" -> owns[q.by] # {}
      [] q.op = "reserve"  -> q.what \notin owns[q.by]
      [] q.op = "cancel"   -> TRUE

Commit(q) ==
    /\ q \in outgoing /\ ~q.done /\ Accepted(q)
    /\ owns' = [owns EXCEPT ![q.by] = Effect(q)]
    /\ outgoing' = (outgoing \ {q}) \cup {[q EXCEPT !.done = TRUE]}
    /\ UNCHANGED <<desk, visitor, at, seen, lookup, expired, form, doubt>>

\* 404, 409 or any other refusal: the buttons are free again, and that is all.
Decline(q) ==
    /\ q \in outgoing /\ ~q.done
    /\ outgoing' = outgoing \ {q}
    /\ UNCHANGED <<desk, owns, visitor, at, seen, lookup, expired, form, doubt>>

\* onDone toggles, even when the form has been closed meanwhile.
FormAfter(q) ==
    IF q.op = "reserve" /\ q.kept # "gone" THEN (IF form = q.what THEN None ELSE q.what) ELSE form

\* Mutant: a check-out invalidates nothing.
AnswerComesOut(q) ==
    /\ q \in outgoing /\ q.done
    /\ outgoing' = outgoing \ {q}
    /\ form' = FormAfter(q)
    /\ IF q.op # "checkOut" /\ Watches(visitor, at) /\ (seen # None \/ lookup.pc = "idle")
         THEN lookup' = LookupOf(visitor) /\ UNCHANGED expired
         ELSE UNCHANGED <<lookup, expired>>
    /\ UNCHANGED <<desk, owns, visitor, at, seen, doubt>>

\* onSuccess: the cache is invalidated, and fetched anew if it is watched; only a
\* first fetch goes on.
AnswerComes(q) ==
    /\ q \in outgoing /\ q.done
    /\ outgoing' = outgoing \ {q}
    /\ form' = FormAfter(q)
    /\ CASE ~Watches(visitor, at) ->
              /\ expired' = (seen # None \/ lookup.pc # "idle")
              /\ lookup' = [lookup EXCEPT !.off = @ \/ lookup.pc = "read"]
         [] Watches(visitor, at) /\ seen = None /\ lookup.pc # "idle" ->
              /\ lookup' = [lookup EXCEPT !.off = @ \/ lookup.pc = "read"]
              /\ UNCHANGED expired
         [] OTHER -> lookup' = LookupOf(visitor) /\ expired' = FALSE
    /\ UNCHANGED <<desk, owns, visitor, at, seen, doubt>>

\* Lost, before or after the server has done it.
AnswerLost(q) ==
    /\ Faults
    /\ q \in outgoing
    /\ outgoing' = outgoing \ {q}
    /\ Doubted(q.done /\ q.by = visitor)
    /\ UNCHANGED <<desk, owns, visitor, at, seen, expired, form>>

\* Another device of u, or, for a session, staff.
Elsewhere(u, new) ==
    /\ owns[u] # new /\ (desk = "session" => Cardinality(new) <= 1)
    /\ owns' = [owns EXCEPT ![u] = new]
    /\ Doubted(u = visitor)
    /\ UNCHANGED <<desk, visitor, at, seen, expired, outgoing, form>>

-----------------------------------------------------------------------------
(* The fetch.                                                              *)

\* The window gets the focus with a cache older than 30 seconds.
LookAgain ==
    /\ Watches(visitor, at) /\ lookup.pc = "idle"
    /\ lookup' = LookupOf(visitor) /\ expired' = FALSE
    /\ UNCHANGED <<desk, owns, visitor, at, seen, outgoing, form, doubt>>

LookUp ==
    /\ lookup.pc = "asked"
    /\ lookup' = [lookup EXCEPT !.pc = "read", !.found = owns[lookup.by]]
    /\ UNCHANGED <<desk, owns, visitor, at, seen, expired, outgoing, form, doubt>>

\* A success clears the invalidation.
LookupComes ==
    /\ lookup.pc = "read"
    /\ seen' = lookup.found
    /\ doubt' = lookup.off
    /\ lookup' = NoLookup /\ expired' = FALSE
    /\ UNCHANGED <<desk, owns, visitor, at, outgoing, form>>

LookupFails ==
    /\ Faults
    /\ lookup.pc # "idle"
    /\ lookup' = NoLookup
    /\ doubt' = TRUE
    /\ UNCHANGED <<desk, owns, visitor, at, seen, expired, outgoing, form>>

PagesNext ==
    \/ \E u \in Citizens, old \in BOOLEAN : VisitorComes(u, old)
    \/ \E u \in Citizens, new \in SUBSET Places : Elsewhere(u, new)
    \/ \E to \in {"away", at} : VisitorGoes(to)
    \/ \E page \in {"zone", "own"}, old \in BOOLEAN : Arrive(page, old)
    \/ Leave \/ CheckOut
    \/ \E s \in Places : CheckIn(s) \/ ToggleReserve(s) \/ Reserve(s) \/ Cancel(s)
    \/ \E q \in outgoing : Commit(q) \/ Decline(q) \/ AnswerComes(q) \/ AnswerLost(q)
    \/ LookAgain \/ LookUp \/ LookupComes \/ LookupFails

PagesSpec == PagesInit /\ [][PagesNext]_pvars

-----------------------------------------------------------------------------
PagesQuiet ==
    /\ Watches(visitor, at) /\ seen # None
    /\ outgoing = {} /\ lookup.pc = "idle"

\* Once every answer is there, what watches the cache, a page or the header's link to the
\* session, shows the session, or the reservations, that its user has (useSessions.ts 6-42,
\* useReservations.ts 10-59, Header.tsx 92-93).  The exceptions: a cache that
\* was filled for another user, a change on another device, a lost answer, a failed fetch,
\* and a fetch that was read before the change and goes on after it: a first one, or one
\* that nothing watches any more, whose answer clears the invalidation as well.
PagesTrue == PagesQuiet => seen = owns[visitor] \/ doubt
=============================================================================
