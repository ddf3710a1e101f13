------------------------------ MODULE LiveMap ------------------------------
(***************************************************************************)
(* A page with the map of one zone: the list of spots that it has fetched,   *)
(* and the socket through which the changes come.  A change of status is     *)
(* committed first and published later; the page may be away, cut off, not   *)
(* yet in the room of the zone, or waiting for an older answer.  (In what     *)
(* order the publications of a spot leave is a matter of Parking.)          *)
(***************************************************************************)
EXTENDS Common, Naturals, Sequences

CONSTANTS
    MapSpots,   \* the spots of the zone
    Colours,    \* their statuses; two stand for the four
    MaxWire     \* messages on their way to the page (a bound)

ASSUME MapType == None \notin Colours /\ Colours # {} /\ MaxWire \in Nat

VARIABLES
    status,     \* status[p]: the row of the spot
    due,        \* spots with a change that was committed and not published yet
    sock,       \* the socket: "off" nobody wants it, "down", "up"
    room,       \* "out", "asked" zone:join is on its way, "in"
    wire,       \* spot:update messages on their way to the page
    page,       \* "away", "loading" its zones, "open": the effect has run
    known,      \* hasConnectedBefore
    list,       \* the list of spots in the query cache, None before the first answer
    fetch,      \* the fetch of that list
    owed,       \* history: spots changed while the page was cut off, not fetched since
    wrong       \* history: spots that the list may be wrong about (see below)

mvars == <<status, due, sock, room, wire, page, known, list, fetch, owed, wrong>>

Lists     == [MapSpots -> Colours]
Messages  == [spot : MapSpots, colour : Colours]
\* snap: what the server has read.  History, bad: spots that will be wrong when it comes.
FetchRows == [pc : {"idle", "asked", "read"}, snap : Lists \cup {None},
              bad : SUBSET MapSpots]
NoFetch   == [pc |-> "idle", snap |-> None, bad |-> {}]
Asked     == [NoFetch EXCEPT !.pc = "asked"]

MapTypeOK ==
    /\ status \in Lists /\ due \subseteq MapSpots
    /\ sock \in {"off", "down", "up"} /\ room \in {"out", "asked", "in"}
    /\ wire \in Seq(Messages)
    /\ page \in {"away", "loading", "open"} /\ known \in BOOLEAN
    /\ list \in Lists \cup {None} /\ fetch \in FetchRows
    /\ owed \subseteq MapSpots /\ wrong \subseteq MapSpots

MapInit ==
    /\ status \in Lists /\ due = {}
    /\ sock = "off" /\ room = "out" /\ wire = <<>>
    /\ page = "away" /\ known = FALSE
    /\ list = None /\ fetch = NoFetch /\ owed = {} /\ wrong = {}

OnWire == {wire[k].spot : k \in DOMAIN wire}

\* The answer that is on its way does not know of these spots.
Spoilt(ps) == IF fetch.pc = "read" THEN [fetch EXCEPT !.bad = @ \cup ps] ELSE fetch

\* Nothing will tell the page about these spots before its next fetch.
Missed(ps) == wrong' = wrong \cup ps /\ fetch' = Spoilt(ps) /\ UNCHANGED owed

\* Cut off after it was connected, the page fetches the list when it is connected again.
\* Only its very first fetch is not started anew.
Repaired(ps) ==
    /\ owed' = owed \cup ps
    /\ UNCHANGED wrong
    /\ fetch' = IF list = None THEN Spoilt(ps) ELSE fetch

-----------------------------------------------------------------------------
(* The server.                                                             *)

\* A check-in, a check-out or a sensor tick commits; publishing comes later.
Change(p, c) ==
    /\ status[p] # c
    /\ status' = [status EXCEPT ![p] = c]
    /\ due' = due \cup {p}
    /\ UNCHANGED <<sock, room, wire, page, known, list, fetch, owed, wrong>>

\* A status set by staff is never published.
SilentChange(p, c) ==
    /\ status[p] # c
    /\ status' = [status EXCEPT ![p] = c]
    /\ Missed({p})
    /\ UNCHANGED <<due, sock, room, wire, page, known, list>>

\* The gateway passes the message to the sockets in the room of the zone.
Publish(p) ==
    /\ p \in due
    /\ due' = due \ {p}
    /\ \/ /\ room = "in" /\ Len(wire) < MaxWire
          /\ wire' = Append(wire, [spot |-> p, colour |-> status[p]])
          /\ UNCHANGED <<fetch, owed, wrong>>
       \/ /\ room # "in"
          /\ IF page = "open" /\ known /\ room = "out" THEN Repaired({p}) ELSE Missed({p})
          /\ UNCHANGED wire
    /\ UNCHANGED <<status, sock, room, page, known, list>>

\* Redis, or the process before it gets there, fails.
PublishFails(p) ==
    /\ Faults
    /\ p \in due
    /\ due' = due \ {p}
    /\ Missed({p})
    /\ UNCHANGED <<status, sock, room, wire, page, known, list>>

HandleZoneJoin ==
    /\ room = "asked"
    /\ room' = "in"
    /\ UNCHANGED <<status, due, sock, wire, page, known, list, fetch, owed, wrong>>

-----------------------------------------------------------------------------
(* The socket.                                                             *)

\* Invalidating starts the fetch anew, unless it is the first.
Restarted == IF list = None /\ fetch.pc # "idle" THEN fetch ELSE Asked

\* Mutant: the first connection and a later one are treated alike.
ConnectAgain ==
    /\ sock = "down"
    /\ sock' = "up"
    /\ room' = IF page = "open" THEN "asked" ELSE room
    /\ known' = (known \/ page = "open")
    /\ UNCHANGED <<status, due, wire, page, list, fetch, owed, wrong>>

\* handleConnect: join the rooms; when connected before, fetch the list anew.
Connect ==
    /\ sock = "down"
    /\ sock' = "up"
    /\ IF page = "open"
         THEN /\ room' = "asked"
              /\ fetch' = IF known THEN Restarted ELSE fetch
              /\ known' = TRUE /\ owed' = {}
         ELSE UNCHANGED <<room, fetch, known, owed>>
    /\ UNCHANGED <<status, due, wire, page, list, wrong>>

\* The connection breaks, or signing out disconnects it: the rooms are forgotten and
\* the messages on their way are lost.
Disconnect(to) ==
    /\ sock = "up" \/ (sock = "down" /\ to = "off")
    /\ sock' = to
    /\ room' = "out" /\ wire' = <<>>
    /\ Repaired(OnWire)
    /\ UNCHANGED <<status, due, page, known, list>>

\* The bell of somebody who signs in wants the socket too.
Wanted ==
    /\ sock = "off"
    /\ sock' = "down"
    /\ UNCHANGED <<status, due, room, wire, page, known, list, fetch, owed, wrong>>

\* handleSpotUpdate.  An answer read before the change will undo it; a message older
\* than the last change, when nothing more is to come, leaves the list wrong.
Deliver ==
    LET m    == Head(wire)
        more == m.spot \in due \/ \E k \in 2..Len(wire) : wire[k].spot = m.spot
    IN
    /\ wire # <<>>
    /\ wire' = Tail(wire)
    /\ list' = IF list = None THEN None ELSE [list EXCEPT ![m.spot] = m.colour]
    /\ fetch' = IF fetch.pc = "read" /\ fetch.snap[m.spot] # m.colour
                  THEN Spoilt({m.spot}) ELSE fetch
    /\ wrong' = CASE m.colour = status[m.spot] -> wrong \ {m.spot}
                  [] m.colour # status[m.spot] /\ ~more -> wrong \cup {m.spot}
                  [] OTHER -> wrong
    /\ UNCHANGED <<status, due, sock, room, page, known, owed>>

-----------------------------------------------------------------------------
(* The page.                                                               *)

\* The list is fetched unless there is one less than 30 seconds old.
Visit(stale) ==
    /\ page = "away"
    /\ page' = "loading"
    /\ fetch' = IF fetch.pc = "idle" /\ (stale \/ list = None) THEN Asked ELSE fetch
    /\ UNCHANGED <<status, due, sock, room, wire, known, list, owed, wrong>>

\* The zones are there: useParkingSocket connects, or joins at once.
ZonesCome ==
    /\ page = "loading"
    /\ page' = "open"
    /\ sock' = IF sock = "off" THEN "down" ELSE sock
    /\ room' = IF sock = "up" THEN "asked" ELSE "out"
    /\ known' = (sock = "up")
    /\ UNCHANGED <<status, due, wire, list, fetch, owed, wrong>>

\* The effect is cleaned up: zone:leave, and no handlers any more.
LeavePage ==
    /\ page # "away"
    /\ page' = "away"
    /\ room' = "out" /\ wire' = <<>> /\ known' = FALSE
    /\ wrong' = wrong \cup OnWire \cup owed /\ owed' = {}
    /\ fetch' = Spoilt(OnWire \cup owed)
    /\ UNCHANGED <<status, due, sock, list>>

\* The window gets the focus with a list older than 30 seconds, or staff save a status.
Refetch ==
    /\ page # "away" /\ fetch.pc = "idle"
    /\ fetch' = Asked
    /\ UNCHANGED <<status, due, sock, room, wire, page, known, list, owed, wrong>>

\* SpotsService.findAll.
ServeList ==
    /\ fetch.pc = "asked"
    /\ fetch' = [pc |-> "read", snap |-> status, bad |-> {}]
    /\ owed' = {}
    /\ UNCHANGED <<status, due, sock, room, wire, page, known, list, wrong>>

ListComes ==
    /\ fetch.pc = "read"
    /\ list' = fetch.snap
    /\ wrong' = fetch.bad
    /\ fetch' = NoFetch
    /\ UNCHANGED <<status, due, sock, room, wire, page, known, owed>>

\* After three retries the query has failed; an older list stays.
ListFails ==
    /\ Faults
    /\ fetch.pc # "idle"
    /\ fetch' = NoFetch
    /\ wrong' = MapSpots
    /\ UNCHANGED <<status, due, sock, room, wire, page, known, list, owed>>

\* Nobody has used the list for five minutes.
Forgotten ==
    /\ page = "away" /\ fetch.pc = "idle"
    /\ list' = None
    /\ wrong' = {}
    /\ UNCHANGED <<status, due, sock, room, wire, page, known, fetch, owed>>

MapNext ==
    \/ \E p \in MapSpots :
         \/ \E c \in Colours : Change(p, c) \/ SilentChange(p, c)
         \/ Publish(p) \/ PublishFails(p)
    \/ HandleZoneJoin \/ Connect \/ Wanted \/ Deliver
    \/ \E to \in {"down", "off"} : Disconnect(to)
    \/ \E stale \in BOOLEAN : Visit(stale)
    \/ ZonesCome \/ LeavePage \/ Refetch
    \/ ServeList \/ ListComes \/ ListFails \/ Forgotten

MapSpec == MapInit /\ [][MapNext]_mvars

-----------------------------------------------------------------------------
\* useConnectionStatus: what the indicator calls "Live".
ShownLive == page = "open" /\ sock = "up"

\* No message, answer or join is under way.
MapQuiet ==
    /\ due = {} /\ wire = <<>> /\ room # "asked"
    /\ fetch.pc = "idle" /\ list # None

\* "Never show stale data as live" (useParkingSocket.ts 49-55): once everything on its
\* way has arrived, a map that says it is live shows the statuses there are.  The
\* exceptions: a status that staff set, or whose publication failed; a change before the
\* page was connected for the first time or while it was not in the room yet, or while
\* the user was on another page; a change that an answer read earlier has undone; a
\* list that could not be fetched.
ScreenTrue ==
    ShownLive /\ MapQuiet => \A p \in MapSpots : list[p] = status[p] \/ p \in wrong
=============================================================================
