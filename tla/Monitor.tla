------------------------------ MODULE Monitor ------------------------------
(***************************************************************************)
(* The overview and the alerts of the admin panel.  A request is answered   *)
(* from several queries that run side by side and see no common snapshot,   *)
(* while spots, reservations and services change.                          *)
(***************************************************************************)
EXTENDS Common, Naturals, FiniteSets, Sequences, SequencesExt

CONSTANTS
    Blocks,        \* zones that have spots
    Tallies,       \* how many spots of a zone are occupied and how many are not
    MinSpots,      \* a smaller zone raises no alert
    Critical, Warning,  \* percentages of a zone's spots that are occupied
    MaxChanges     \* changes of the world during a request (a bound)

ASSUME BlocksType  == IsFiniteSet(Blocks) /\ Blocks \cap {"db", "redis", "reservations"} = {}
ASSUME TalliesType == Tallies \subseteq [occupied : Nat, others : Nat]
ASSUME LevelsType  == Critical \in 0..100 /\ Warning \in 0..Critical /\ MinSpots \in Nat \ {0}
ASSUME ChangesType == MaxChanges \in Nat

VARIABLES
    tally,     \* tally[z]: the spots of zone z
    booked,    \* a reservation was made within the hour
    services,  \* those that answer
    ask,       \* the request
    answer,    \* what requests have returned last, and which was the last
    ever,      \* history: alerts that were due at some moment of the request
    always,    \* history: alerts that were due all the time
    changes,   \* history: changes of the world during the request
    resized    \* history: spots were added or removed during the request

ovars == <<tally, booked, services, ask, answer, ever, always, changes, resized>>

Worlds   == [Blocks -> Tallies]
\* What is still to be read, and what has been.
AlertReads == {"groups", "booked", "db", "redis"}
StatsReads == {"total", "groups"}
AskRows  == [what : {"none", "alerts", "stats"}, todo : SUBSET (AlertReads \cup StatsReads),
             groups : Worlds \cup {None}, total : Nat, booked : BOOLEAN,
             down : SUBSET {"db", "redis"}]
NoAsk    == [what |-> "none", todo |-> {}, groups |-> None, total |-> 0,
             booked |-> FALSE, down |-> {}]
Alerts   == [level : {"critical", "warning", "info"},
             about : Blocks \cup {"db", "redis", "reservations"}]
Answers  == [what : {"none", "alerts", "stats"}, alerts : Seq(Alerts), total : Nat,
             free : Nat, taken : Nat]
NoAnswer == [what |-> "none", alerts |-> <<>>, total |-> 0, free |-> 0, taken |-> 0]

MonitorTypeOK ==
    /\ tally \in Worlds /\ booked \in BOOLEAN /\ services \subseteq {"db", "redis"}
    /\ ask \in AskRows
    /\ answer \in Answers
    /\ ever \subseteq Alerts /\ always \subseteq Alerts
    /\ changes \in 0..MaxChanges /\ resized \in BOOLEAN

MonitorInit ==
    /\ tally \in Worlds /\ booked \in BOOLEAN /\ services \in SUBSET {"db", "redis"}
    /\ ask = NoAsk /\ answer = NoAnswer
    /\ ever = {} /\ always = {} /\ changes = 0 /\ resized = FALSE

SumOf(f) == FoldSet(LAMBDA z, n : f[z] + n, 0, DOMAIN f)
Size(t)  == t.occupied + t.others

-----------------------------------------------------------------------------
(* What an alert stands for.                                               *)

OccupancyDue(z, t, level) ==
    /\ Size(t[z]) >= MinSpots
    /\ LET rate == t[z].occupied * 100
       IN  CASE level = "critical" -> rate >= Critical * Size(t[z])
             [] level = "warning"  -> rate >= Warning * Size(t[z]) /\ rate < Critical * Size(t[z])
             [] level = "info"     -> FALSE

DueNow(t, b, up) ==
    {a \in Alerts :
       \/ a.about \in Blocks /\ OccupancyDue(a.about, t, a.level)
       \/ a.about \in {"db", "redis"} /\ a.about \notin up /\ a.level = "critical"
       \/ a.about = "reservations" /\ b /\ a.level = "info"}

-----------------------------------------------------------------------------
(* The world.  Between requests it may become anything: see MonitorInit.    *)

World(t, b, up) ==
    /\ ask.what # "none" /\ changes < MaxChanges
    /\ <<t, b, up>> # <<tally, booked, services>>
    /\ tally' = t /\ booked' = b /\ services' = up
    /\ changes' = changes + 1
    /\ IF ask.what = "alerts"
         THEN /\ ever' = ever \cup DueNow(t, b, up)
              /\ always' = always \cap DueNow(t, b, up)
              /\ UNCHANGED resized
         ELSE /\ resized' = (resized \/ \E z \in Blocks : Size(t[z]) # Size(tally[z]))
              /\ UNCHANGED <<ever, always>>
    /\ UNCHANGED <<ask, answer>>

SpotsChange(z, c) == World([tally EXCEPT ![z] = c], booked, services)
BookingsChange    == World(tally, ~booked, services)
ServiceChange(s)  == World(tally, booked, IF s \in services THEN services \ {s} ELSE services \cup {s})

-----------------------------------------------------------------------------
(* A request.                                                              *)

\* The page polls: all the queries are started at once.
Poll(what) ==
    /\ ask.what = "none"
    /\ ask' = [NoAsk EXCEPT !.what = what,
                            !.todo = IF what = "alerts" THEN AlertReads ELSE StatsReads]
    /\ answer' = [answer EXCEPT !.what = "none", !.alerts = <<>>]
    /\ ever' = IF what = "alerts" THEN DueNow(tally, booked, services) ELSE {}
    /\ always' = ever'
    /\ changes' = 0 /\ resized' = FALSE
    /\ UNCHANGED <<tally, booked, services>>

\* A query of the database ends, if there is a database.
Query(q) ==
    /\ q \in ask.todo \ {"db", "redis"}
    /\ "db" \in services
    /\ ask' = [ask EXCEPT !.todo = @ \ {q},
                          !.groups = IF q = "groups" THEN tally ELSE @,
                          !.total = IF q = "total" THEN SumOf([z \in Blocks |-> Size(tally[z])]) ELSE @,
                          !.booked = IF q = "booked" THEN booked ELSE @]
    /\ UNCHANGED <<tally, booked, services, answer, ever, always, changes, resized>>

\* Otherwise the whole request fails: Promise.all.
QueryFails ==
    /\ ask.todo \ {"db", "redis"} # {}
    /\ "db" \notin services
    /\ ask' = NoAsk
    /\ UNCHANGED <<tally, booked, services, answer, ever, always, changes, resized>>

\* checkLatency swallows the error.
CheckService(s) ==
    /\ s \in ask.todo \cap {"db", "redis"}
    /\ ask' = [ask EXCEPT !.todo = @ \ {s}, !.down = @ \cup ({s} \ services)]
    /\ UNCHANGED <<tally, booked, services, answer, ever, always, changes, resized>>

\* Mutant: the rate must exceed the threshold.
LevelAbove(t) ==
    CASE t.occupied * 100 > Critical * Size(t) -> "critical"
      [] t.occupied * 100 > Warning * Size(t) /\ t.occupied * 100 <= Critical * Size(t) -> "warning"
      [] OTHER -> "none"

Level(t) ==
    CASE t.occupied * 100 >= Critical * Size(t) -> "critical"
      [] t.occupied * 100 >= Warning * Size(t) /\ t.occupied * 100 < Critical * Size(t) -> "warning"
      [] OTHER -> "none"

\* In the order in which they are pushed.
Pushed(r) ==
    LET zones == SetToSeq({z \in Blocks : Size(r.groups[z]) >= MinSpots /\ Level(r.groups[z]) # "none"})
        one(level, about) == [level |-> level, about |-> about]
    IN  [k \in DOMAIN zones |-> one(Level(r.groups[zones[k]]), zones[k])]
        \o (IF "db" \in r.down THEN <<one("critical", "db")>> ELSE <<>>)
        \o (IF "redis" \in r.down THEN <<one("critical", "redis")>> ELSE <<>>)
        \o (IF r.booked THEN <<one("info", "reservations")>> ELSE <<>>)

OfLevel(level, s) ==
    FoldLeft(LAMBDA out, a : IF a.level = level THEN Append(out, a) ELSE out, <<>>, s)

\* sort is stable.
ByLevel(s) == OfLevel("critical", s) \o OfLevel("warning", s) \o OfLevel("info", s)

AnswerAlerts ==
    /\ ask.what = "alerts" /\ ask.todo = {}
    /\ answer' = [answer EXCEPT !.what = "alerts", !.alerts = ByLevel(Pushed(ask))]
    /\ ask' = NoAsk
    /\ UNCHANGED <<tally, booked, services, ever, always, changes, resized>>

\* Mutant: not a copy, so what has no group keeps its count of the request before.
ByStatusShared(g) ==
    LET free  == SumOf([z \in Blocks |-> g[z].others])
        taken == SumOf([z \in Blocks |-> g[z].occupied])
    IN  [free  |-> IF free = 0 THEN answer.free ELSE free,
         taken |-> IF taken = 0 THEN answer.taken ELSE taken]

\* Mutant: what is not occupied is what is left of the total, which is another query's.
ByStatusLeft(g) ==
    LET taken == SumOf([z \in Blocks |-> g[z].occupied])
    IN  [free |-> ask.total - taken, taken |-> taken]

\* A copy of EMPTY_STATUS_COUNTS, filled from the groups.
ByStatus(g) ==
    [free |-> SumOf([z \in Blocks |-> g[z].others]),
     taken |-> SumOf([z \in Blocks |-> g[z].occupied])]

AnswerStats ==
    /\ ask.what = "stats" /\ ask.todo = {}
    /\ answer' = [answer EXCEPT !.what = "stats", !.total = ask.total,
                     !.free = ByStatus(ask.groups).free, !.taken = ByStatus(ask.groups).taken]
    /\ ask' = NoAsk
    /\ UNCHANGED <<tally, booked, services, ever, always, changes, resized>>

MonitorNext ==
    \/ \E z \in Blocks, c \in Tallies : SpotsChange(z, c)
    \/ BookingsChange
    \/ \E s \in {"db", "redis"} : ServiceChange(s) \/ CheckService(s)
    \/ \E what \in {"alerts", "stats"} : Poll(what)
    \/ \E q \in AlertReads \cup StatsReads : Query(q)
    \/ QueryFails
    \/ AnswerAlerts \/ AnswerStats

MonitorSpec == MonitorInit /\ [][MonitorNext]_ovars

-----------------------------------------------------------------------------
\* Though its queries see different moments, an answer is no fabrication (admin.service.ts
\* 108-112): each of its alerts was due while it was being made, none that was due all the time is
\* missing, and the graver come first.
AlertsWereTrue ==
    answer.what = "alerts" =>
        LET rank == [critical |-> 0, warning |-> 1, info |-> 2] IN
        /\ ToSet(answer.alerts) \subseteq ever
        /\ always \subseteq ToSet(answer.alerts)
        /\ \A i, j \in DOMAIN answer.alerts :
              i < j => rank[answer.alerts[i].level] <= rank[answer.alerts[j].level]

\* The figures of the overview add up to the total, however statuses change meanwhile,
\* unless spots are added or removed just then (233-244).
StatsAddUp ==
    answer.what = "stats" /\ ~resized => answer.free + answer.taken = answer.total
=============================================================================
