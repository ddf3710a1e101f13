------------------------------- MODULE Inbox -------------------------------
(***************************************************************************)
(* The bell of one browser: the count of unread notifications in the query  *)
(* cache, and the socket, which hears the notifications of whoever was      *)
(* signed in when it connected.                                            *)
(***************************************************************************)
EXTENDS Common, Naturals, FiniteSets

CONSTANTS
    Readers,    \* who may sign in in this browser
    NoteIds     \* notifications that may be created: bounds how many are

ASSUME InboxType ==
    None \notin Readers \cup NoteIds /\ None \notin Nat /\ IsFiniteSet(NoteIds)

VARIABLES
    note,       \* note[n]: the row of notifications
    unsent,     \* notifications created and not published yet
    user,       \* who is signed in in the browser
    valid,      \* the access token in the store has not expired
    conn,       \* the socket: "off" nobody wants it, "down", "joining", "up"
    ears,       \* whose private room the socket is in, or is about to be
    pushed,     \* notification:new messages on their way
    bell,       \* the count in the query cache, None before the first answer
    count,      \* the fetch of the count
    marking,    \* a mark-as-read was done, its answer is on its way
    kept,       \* history: the session of ears ended without a sign-out
    amiss       \* history: the count may be wrong (see below)

ivars == <<note, unsent, user, valid, conn, ears, pushed, bell, count, marking, kept, amiss>>

NoteRows  == [to : Readers \cup {None}, read : BOOLEAN]
\* whose: the owner of the token; snap: the unread ones that the server has counted.
\* History: base, those in the last answer; bad, the answer will be wrong.
CountRows == [pc : {"idle", "asked", "read"}, whose : Readers \cup {None},
              snap : SUBSET NoteIds, base : SUBSET NoteIds, bad : BOOLEAN]

InboxTypeOK ==
    /\ note \in [NoteIds -> NoteRows] /\ unsent \subseteq NoteIds
    /\ user \in Readers \cup {None} /\ valid \in BOOLEAN
    /\ conn \in {"off", "down", "joining", "up"} /\ ears \in Readers \cup {None}
    /\ pushed \subseteq NoteIds
    /\ bell \in Nat \cup {None} /\ count \in CountRows
    /\ marking \in BOOLEAN /\ kept \in BOOLEAN /\ amiss \in BOOLEAN

InboxInit ==
    /\ note = [n \in NoteIds |-> [to |-> None, read |-> FALSE]] /\ unsent = {}
    /\ user = None /\ valid = FALSE
    /\ conn = "off" /\ ears = None /\ pushed = {}
    /\ bell = None
    /\ count = [pc |-> "idle", whose |-> None, snap |-> {}, base |-> {}, bad |-> FALSE]
    /\ marking = FALSE /\ kept = FALSE /\ amiss = FALSE

Unread(u) == {n \in NoteIds : note[n].to = u /\ ~note[n].read}
Hears(u)  == conn = "up" /\ ears = u

AskCount ==
    [count EXCEPT !.pc = "asked", !.whose = user, !.snap = {}, !.bad = FALSE]

\* An answer that is on its way was asked for in another session.
Outlived(c) == [c EXCEPT !.bad = (@ \/ c.pc # "idle")]

\* Nothing will tell the browser about n, which concerns the one signed in.
Unheard(ns) ==
    LET mine == \E n \in ns : note[n].to = user IN
    /\ amiss' = (amiss \/ mine)
    /\ count' = [count EXCEPT !.bad = @ \/ (mine /\ count.pc = "read")]

-----------------------------------------------------------------------------
(* The server.                                                             *)

\* NotificationsService.create: the row, then the publication.
CreateNote(n, u) ==
    /\ note[n].to = None
    /\ note' = [note EXCEPT ![n].to = u]
    /\ unsent' = unsent \cup {n}
    /\ UNCHANGED <<user, valid, conn, ears, pushed, bell, count, marking, kept, amiss>>

PublishNote(n) ==
    /\ n \in unsent
    /\ unsent' = unsent \ {n}
    /\ IF Hears(note[n].to)
         THEN pushed' = pushed \cup {n} /\ UNCHANGED <<amiss, count>>
         ELSE Unheard({n}) /\ UNCHANGED pushed
    /\ UNCHANGED <<note, user, valid, conn, ears, bell, marking, kept>>

PublishNoteFails(n) ==
    /\ Faults
    /\ n \in unsent
    /\ unsent' = unsent \ {n}
    /\ Unheard({n})
    /\ UNCHANGED <<note, user, valid, conn, ears, pushed, bell, marking, kept>>

\* handleConnection has verified the token.
JoinOwnRoom ==
    /\ conn = "joining"
    /\ conn' = "up"
    /\ UNCHANGED <<note, unsent, user, valid, ears, pushed, bell, count, marking, kept, amiss>>

-----------------------------------------------------------------------------
(* The socket.                                                             *)

\* The token of the store goes with the connection; an expired one counts as none.
ConnectAs ==
    /\ conn = "down"
    /\ conn' = "joining"
    /\ ears' = IF valid THEN user ELSE None
    /\ UNCHANGED <<note, unsent, user, valid, pushed, bell, count, marking, kept, amiss>>

CutOff ==
    /\ conn \in {"joining", "up"}
    /\ conn' = "down" /\ ears' = None /\ kept' = FALSE
    /\ pushed' = {}
    /\ Unheard(pushed)
    /\ UNCHANGED <<note, unsent, user, valid, bell, marking>>

\* A map is opened: it wants the socket, whoever is signed in.
MapOpens ==
    /\ conn = "off"
    /\ conn' = "down"
    /\ UNCHANGED <<note, unsent, user, valid, ears, pushed, bell, count, marking, kept, amiss>>

\* handleNew counts one more, and does not look whose.  What was counted already, or is
\* read by now, is counted all the same; an answer read earlier does not know of it.
Ring(n) ==
    /\ n \in pushed
    /\ pushed' = pushed \ {n}
    /\ IF user = None
         THEN UNCHANGED <<bell, count, amiss>>
         ELSE LET late == count.pc = "read" /\ n \notin count.snap IN
              /\ bell' = IF bell = None THEN 1 ELSE bell + 1
              /\ count' = [count EXCEPT !.bad = @ \/ late]
              /\ amiss' = (amiss \/ n \in count.base \/ n \notin Unread(user))
    /\ UNCHANGED <<note, unsent, user, valid, conn, ears, marking, kept>>

-----------------------------------------------------------------------------
(* The session, as the header sees it.                                     *)

\* Over a session there was, or after none.  The count of the cache is shown if it is
\* less than 30 seconds old.
SessionBegins(u, old) ==
    /\ user # u
    /\ user' = u /\ valid' = TRUE
    /\ conn' = IF user = None /\ conn = "off" THEN "down" ELSE conn
    /\ kept' = (kept \/ ears \notin {None, u})
    /\ count' = IF count.pc = "idle" /\ ~(old /\ bell # None)
                  THEN [AskCount EXCEPT !.whose = u] ELSE Outlived(count)
    /\ amiss' = (amiss \/ bell # None \/ pushed # {})
    /\ UNCHANGED <<note, unsent, ears, pushed, bell, marking>>

\* Mutant: the socket stays connected.
SignOutConnected ==
    /\ user # None
    /\ user' = None /\ valid' = FALSE
    /\ count' = Outlived(count)
    /\ UNCHANGED <<note, unsent, conn, ears, pushed, bell, marking, kept, amiss>>

\* handleLogout: disconnect, and clear the session.
SignsOutHere ==
    /\ user # None
    /\ user' = None /\ valid' = FALSE
    /\ conn' = "off" /\ ears' = None /\ kept' = FALSE /\ pushed' = {}
    /\ count' = Outlived(count)
    /\ UNCHANGED <<note, unsent, bell, marking, amiss>>

\* A renewal was refused: the session is cleared, and the socket stays as it is.
SessionRefused ==
    /\ user # None /\ ~valid
    /\ user' = None
    /\ kept' = (kept \/ ears # None)
    /\ count' = Outlived(count)
    /\ UNCHANGED <<note, unsent, valid, conn, ears, pushed, bell, marking, amiss>>

TokenEnds ==
    /\ valid
    /\ valid' = FALSE
    /\ UNCHANGED <<note, unsent, user, conn, ears, pushed, bell, count, marking, kept, amiss>>

TokenRenewed ==
    /\ user # None /\ ~valid
    /\ valid' = TRUE
    /\ UNCHANGED <<note, unsent, user, conn, ears, pushed, bell, count, marking, kept, amiss>>

-----------------------------------------------------------------------------
(* The count.                                                              *)

\* The window gets the focus with a count older than 30 seconds.
RefetchCount ==
    /\ user # None /\ count.pc = "idle"
    /\ count' = AskCount
    /\ UNCHANGED <<note, unsent, user, valid, conn, ears, pushed, bell, marking, kept, amiss>>

\* countUnread, for the owner of the token.
CountUnread ==
    /\ count.pc = "asked"
    /\ count' = [count EXCEPT !.pc = "read", !.snap = Unread(count.whose)]
    /\ UNCHANGED <<note, unsent, user, valid, conn, ears, pushed, bell, marking, kept, amiss>>

\* Who is signed in now may be somebody else.
CountComes ==
    /\ count.pc = "read"
    /\ bell' = Cardinality(count.snap)
    /\ amiss' = count.bad
    /\ count' = [count EXCEPT !.pc = "idle", !.whose = None, !.snap = {},
                              !.base = count.snap, !.bad = FALSE]
    /\ UNCHANGED <<note, unsent, user, valid, conn, ears, pushed, marking, kept>>

CountFails ==
    /\ Faults
    /\ count.pc # "idle"
    /\ count' = [count EXCEPT !.pc = "idle", !.whose = None, !.snap = {}, !.bad = FALSE]
    /\ amiss' = TRUE
    /\ UNCHANGED <<note, unsent, user, valid, conn, ears, pushed, bell, marking, kept>>

-----------------------------------------------------------------------------
(* Marking as read.                                                        *)

\* markRead for one that is listed, markAllRead for all.
MarkRead(ns) ==
    /\ user # None /\ ~marking
    /\ ns # {} /\ ns \subseteq Unread(user)
    /\ \/ Cardinality(ns) = 1
       \/ ns = Unread(user)
    /\ note' = [n \in NoteIds |-> IF n \in ns THEN [note[n] EXCEPT !.read = TRUE] ELSE note[n]]
    /\ marking' = TRUE
    /\ UNCHANGED <<unsent, user, valid, conn, ears, pushed, bell, count, kept, amiss>>

\* Mutant: nothing is fetched anew.
MarkAnsweredOnly ==
    /\ marking
    /\ marking' = FALSE
    /\ UNCHANGED <<note, unsent, user, valid, conn, ears, pushed, bell, count, kept, amiss>>

\* invalidateQueries: the count is fetched anew, unless it is being fetched for the
\* first time.
MarkAnswered ==
    /\ marking
    /\ marking' = FALSE
    /\ IF bell = None /\ count.pc # "idle"
         THEN /\ count' = [count EXCEPT !.bad = @ \/ count.pc = "read"]
              /\ UNCHANGED amiss
         ELSE /\ count' = IF user = None THEN count ELSE AskCount
              /\ amiss' = (amiss \/ user = None)
    /\ UNCHANGED <<note, unsent, user, valid, conn, ears, pushed, bell, kept>>

\* The answer is lost, and with it the reason to fetch.
MarkUnanswered ==
    /\ Faults
    /\ marking
    /\ marking' = FALSE
    /\ amiss' = TRUE
    /\ count' = [count EXCEPT !.bad = @ \/ count.pc = "read"]
    /\ UNCHANGED <<note, unsent, user, valid, conn, ears, pushed, bell, kept>>

\* On another device.
MarkElsewhere(n) ==
    /\ note[n].to # None /\ ~note[n].read
    /\ note' = [note EXCEPT ![n].read = TRUE]
    /\ Unheard({n})
    /\ UNCHANGED <<unsent, user, valid, conn, ears, pushed, bell, marking, kept>>

InboxNext ==
    \/ \E n \in NoteIds :
         \/ \E u \in Readers : CreateNote(n, u)
         \/ PublishNote(n) \/ PublishNoteFails(n) \/ Ring(n) \/ MarkElsewhere(n)
    \/ JoinOwnRoom \/ ConnectAs \/ CutOff \/ MapOpens
    \/ \E u \in Readers, old \in BOOLEAN : SessionBegins(u, old)
    \/ SignsOutHere \/ SessionRefused \/ TokenEnds \/ TokenRenewed
    \/ RefetchCount \/ CountUnread \/ CountComes \/ CountFails
    \/ \E ns \in SUBSET NoteIds : MarkRead(ns)
    \/ MarkAnswered \/ MarkUnanswered

InboxSpec == InboxInit /\ [][InboxNext]_ivars

-----------------------------------------------------------------------------
\* Notifications are private: the socket is in the room of nobody but the one signed in,
\* and of nobody after a sign-out (Header.tsx 111-121, realtime.gateway.ts 77-97).  The
\* exception: a session that ended without a sign-out, for its renewal was refused or
\* somebody else signed in over it, and the socket stayed connected.
OwnRoomOnly == ears \in {None, user} \/ kept

\* Nothing about notifications is on its way.
InboxQuiet ==
    /\ user # None /\ bell # None
    /\ unsent = {} /\ pushed = {} /\ ~marking /\ count.pc = "idle"

\* Once everything has arrived the badge shows how many of the user's notifications are
\* unread (useNotifications.ts 46-78).  The exceptions: one that the socket did not hear of;
\* a push that crosses an answer, or is not for this user or not unread any more; a
\* count cached before the user came, or fetched for another; marking on another device or
\* without an answer; marking as read while the first count is being fetched, which then
\* goes on; a failed fetch.
BadgeTrue ==
    InboxQuiet => bell = Cardinality(Unread(user)) \/ amiss
=============================================================================
