------------------------------- MODULE Panels -------------------------------
(***************************************************************************)
(* The tables in which the staff edit zones and spots.  They are built the  *)
(* same way: rows out of the query cache, in pages; a dialog to create one, *)
(* a dialog to delete one, and a way to amend one: zones are renamed in a   *)
(* dialog, the status of a spot is chosen in its row.  A behaviour is about *)
(* one of the tables.  The order of the rows is left out.                  *)
(***************************************************************************)
EXTENDS Common, Naturals, FiniteSets

CONSTANTS
    Items,       \* ids of zones or spots
    Values,      \* names of zones, or statuses of spots
    PageSize,    \* rows on a page: 5 zones, 8 spots
    MaxSaves     \* requests that are not answered yet (a bound)

ASSUME PanelsType ==
    /\ IsFiniteSet(Items)
    /\ None \notin Items \cup Values /\ None \notin [Items -> Values \cup {None}]
    /\ PageSize \in Nat \ {0} /\ MaxSaves \in Nat \ {0}

VARIABLES
    table,      \* which table: "zones" or "spots"
    record,     \* record[i]: its name or status in the database, None if there is no i
    rows,       \* the list in the query cache, None before the first answer
    load,       \* the fetch of the list
    overdue,    \* the list was invalidated while the panel was away
    mounted,    \* the panel is on the screen
    turn,       \* page
    dialog,     \* createOpen, editingZone, deletingZone or deletingSpot
    saves,      \* requests
    dubious,    \* history: the list may be wrong (see below)
    shrunk      \* history: the list has become shorter since the page was chosen

tvars == <<table, record, rows, load, overdue, mounted, turn, dialog, saves,
           dubious, shrunk>>

Tables   == [Items -> Values \cup {None}]
Existing(t) == {i \in Items : t[i] # None}
Rows     == IF rows = None THEN {} ELSE Existing(rows)

\* History, off: the answer will be wrong.
Loads    == [pc : {"idle", "asked", "read"}, got : Tables \cup {None}, off : BOOLEAN]
NoLoad   == [pc |-> "idle", got |-> None, off |-> FALSE]
Loading  == [NoLoad EXCEPT !.pc = "asked"]
\* kept: the panel from which it was sent is still there.
SaveRows == [op : {"create", "amend", "delete"}, item : Items,
             value : Values \cup {None}, done : BOOLEAN, kept : BOOLEAN]
Dialogs  == [kind : {"none", "create", "edit", "delete"}, item : Items \cup {None}]
NoDialog == [kind |-> "none", item |-> None]

PanelsTypeOK ==
    /\ table \in {"zones", "spots"} /\ record \in Tables
    /\ rows \in Tables \cup {None} /\ load \in Loads /\ overdue \in BOOLEAN
    /\ mounted \in BOOLEAN /\ turn \in 0..Cardinality(Items)
    /\ dialog \in Dialogs
    /\ saves \subseteq SaveRows /\ Cardinality(saves) <= MaxSaves
    /\ dubious \in BOOLEAN /\ shrunk \in BOOLEAN

PanelsInit ==
    /\ table \in {"zones", "spots"} /\ record \in Tables
    /\ rows = None /\ load = NoLoad /\ overdue = FALSE
    /\ mounted = FALSE /\ turn = 0 /\ dialog = NoDialog
    /\ saves = {} /\ dubious = FALSE /\ shrunk = FALSE

\* At least one.
PageCount == IF Rows = {} THEN 1 ELSE (Cardinality(Rows) + PageSize - 1) \div PageSize
\* A row can be clicked when its page is shown and no dialog is before it.
Clickable(i) == mounted /\ dialog = NoDialog /\ i \in Rows /\ turn * PageSize < Cardinality(Rows)
Saving(op)   == \E q \in saves : q.op = op /\ q.kept

-----------------------------------------------------------------------------
(* The panel, its pages and its dialogs.                                   *)

\* The state of the components is new; the cache is there, and is fetched unless it is
\* less than 30 seconds old and was not invalidated.
Mount(old) ==
    /\ ~mounted
    /\ mounted' = TRUE /\ turn' = 0 /\ dialog' = NoDialog /\ shrunk' = FALSE
    /\ IF load.pc = "idle" /\ (rows = None \/ overdue \/ old)
         THEN load' = Loading /\ overdue' = FALSE
         ELSE UNCHANGED <<load, overdue>>
    /\ UNCHANGED <<table, record, rows, saves, dubious>>

Unmount ==
    /\ mounted
    /\ mounted' = FALSE /\ turn' = 0 /\ dialog' = NoDialog /\ shrunk' = FALSE
    /\ saves' = {[q EXCEPT !.kept = FALSE] : q \in saves}
    /\ UNCHANGED <<table, record, rows, load, overdue, dubious>>

\* handleSort
Sort ==
    /\ mounted /\ Rows # {} /\ dialog = NoDialog
    /\ turn' = 0 /\ shrunk' = FALSE
    /\ UNCHANGED <<table, record, rows, load, overdue, mounted, dialog, saves, dubious>>

\* Mutant: disabled one page too late.
TurnPastEnd(n) ==
    /\ mounted /\ Rows # {} /\ dialog = NoDialog
    /\ \/ n = turn + 1 /\ turn < PageCount
       \/ n + 1 = turn
    /\ turn' = n /\ shrunk' = FALSE
    /\ UNCHANGED <<table, record, rows, load, overdue, mounted, dialog, saves, dubious>>

\* DataTablePagination: nothing to turn when there is no row.
Turn(n) ==
    /\ mounted /\ Rows # {} /\ dialog = NoDialog
    /\ \/ n = turn + 1 /\ turn < PageCount - 1
       \/ n + 1 = turn
    /\ turn' = n
    /\ shrunk' = (shrunk /\ n >= PageCount)
    /\ UNCHANGED <<table, record, rows, load, overdue, mounted, dialog, saves, dubious>>

Open(kind, i) ==
    /\ mounted /\ dialog = NoDialog
    /\ IF kind = "create" THEN i = None ELSE Clickable(i) /\ (kind = "edit" => table = "zones")
    /\ dialog' = [kind |-> kind, item |-> i]
    /\ UNCHANGED <<table, record, rows, load, overdue, mounted, turn, saves, dubious, shrunk>>

Close ==
    /\ dialog # NoDialog
    /\ dialog' = NoDialog
    /\ UNCHANGED <<table, record, rows, load, overdue, mounted, turn, saves, dubious, shrunk>>

-----------------------------------------------------------------------------
(* The requests.                                                           *)

Save(op, i, v) ==
    /\ Cardinality(saves) < MaxSaves
    /\ saves' = saves \cup {[op |-> op, item |-> i, value |-> v, done |-> FALSE, kept |-> TRUE]}
    /\ UNCHANGED <<table, record, rows, load, overdue, mounted, turn, dialog, dubious, shrunk>>

\* handleSubmit of the create dialogs, when the numbers are valid.  The id is a new one.
SubmitNew(i, v) ==
    /\ dialog.kind = "create" /\ ~Saving("create")
    /\ record[i] = None /\ i \notin Rows /\ (load.got # None => load.got[i] = None)
    /\ \A q \in saves : q.item # i
    /\ Save("create", i, v)

SubmitNewZone(i, v) == table = "zones" /\ SubmitNew(i, v)
SubmitNewSpot(i, v) == table = "spots" /\ SubmitNew(i, v)

\* handleSubmit of EditZoneDialog.  Not what the dialog shows, but what was typed last, in
\* whatever zone's dialog: it may be any name, and in the beginning it is none.
SubmitName(v) ==
    /\ dialog.kind = "edit" /\ ~Saving("amend")
    /\ Save("amend", dialog.item, v)

\* SpotRow: its select saves at once.
ChooseStatus(i, v) ==
    /\ table = "spots" /\ Clickable(i) /\ rows[i] # v
    /\ Save("amend", i, v)

\* handleDeleteConfirm leaves the dialog open.
ConfirmDelete ==
    /\ dialog.kind = "delete" /\ ~Saving("delete")
    /\ Save("delete", dialog.item, None)

\* A name has two letters at least; what is gone cannot be amended or deleted.
SaveCommits(q) ==
    /\ q \in saves /\ ~q.done
    /\ IF q.op = "create" THEN record[q.item] = None ELSE record[q.item] # None
    /\ q.op = "amend" => q.value # None
    /\ record' = [record EXCEPT ![q.item] = q.value]
    /\ saves' = (saves \ {q}) \cup {[q EXCEPT !.done = TRUE]}
    /\ UNCHANGED <<table, rows, load, overdue, mounted, turn, dialog, dubious, shrunk>>

\* The dialog stays open; the buttons are enabled again.
SaveRefused(q) ==
    /\ q \in saves /\ ~q.done
    /\ saves' = saves \ {q}
    /\ UNCHANGED <<table, record, rows, load, overdue, mounted, turn, dialog, dubious, shrunk>>

\* onSuccess closes whatever dialog of its kind is open by now; the list is invalidated,
\* and fetched anew if it is shown; only a first fetch goes on.
SaveAnswered(q) ==
    /\ q \in saves /\ q.done
    /\ saves' = saves \ {q}
    /\ dialog' = IF q.kept /\ dialog.kind = (IF q.op = "amend" THEN "edit" ELSE q.op)
                      /\ (q.op = "amend" => table = "zones")
                   THEN NoDialog ELSE dialog
    /\ IF mounted /\ (rows # None \/ load.pc = "idle")
         THEN load' = Loading /\ overdue' = FALSE
         ELSE /\ load' = [load EXCEPT !.off = @ \/ load.pc = "read"]
              /\ overdue' = (overdue \/ (~mounted /\ (rows # None \/ load.pc # "idle")))
    /\ UNCHANGED <<table, record, rows, mounted, turn, dubious, shrunk>>

Doubtful(yes) ==
    /\ dubious' = (dubious \/ yes)
    /\ load' = [load EXCEPT !.off = @ \/ (yes /\ load.pc = "read")]

SaveLost(q) ==
    /\ Faults
    /\ q \in saves
    /\ saves' = saves \ {q}
    /\ Doubtful(q.done)
    /\ UNCHANGED <<table, record, rows, overdue, mounted, turn, dialog, shrunk>>

\* Other staff, a sensor, a citizen; for spots, also the deletion of a zone in this
\* browser, which takes its spots along and invalidates the zones alone.  One change at a
\* time, until the list is fetched (a bound).
ChangedElsewhere(i, v) ==
    /\ record[i] # v /\ (record[i] = None => i \notin Rows) /\ ~dubious
    /\ record' = [record EXCEPT ![i] = v]
    /\ Doubtful(TRUE)
    /\ UNCHANGED <<table, rows, overdue, mounted, turn, dialog, saves, shrunk>>

-----------------------------------------------------------------------------
(* The fetch.                                                              *)

\* The window gets the focus with a list older than 30 seconds.
LoadAgain ==
    /\ mounted /\ load.pc = "idle"
    /\ load' = Loading /\ overdue' = FALSE
    /\ UNCHANGED <<table, record, rows, mounted, turn, dialog, saves, dubious, shrunk>>

LoadServed ==
    /\ load.pc = "asked"
    /\ load' = [load EXCEPT !.pc = "read", !.got = record]
    /\ UNCHANGED <<table, record, rows, overdue, mounted, turn, dialog, saves, dubious, shrunk>>

\* The page stays what it is, however many rows there are now.
LoadComes ==
    /\ load.pc = "read"
    /\ rows' = load.got
    /\ shrunk' = (shrunk \/ Cardinality(Existing(load.got)) < Cardinality(Rows))
    /\ dubious' = load.off
    /\ load' = NoLoad /\ overdue' = FALSE
    /\ UNCHANGED <<table, record, mounted, turn, dialog, saves>>

LoadFails ==
    /\ Faults
    /\ load.pc # "idle"
    /\ load' = NoLoad
    /\ dubious' = TRUE
    /\ UNCHANGED <<table, record, rows, overdue, mounted, turn, dialog, saves, shrunk>>

PanelsNext ==
    \/ \E old \in BOOLEAN : Mount(old)
    \/ Unmount \/ Sort \/ Close \/ ConfirmDelete
    \/ \E n \in 0..Cardinality(Items) : Turn(n)
    \/ \E kind \in {"create", "edit", "delete"}, i \in Items \cup {None} : Open(kind, i)
    \/ \E i \in Items, v \in Values :
          SubmitNewZone(i, v) \/ SubmitNewSpot(i, v) \/ ChooseStatus(i, v)
    \/ \E v \in Values \cup {None} : SubmitName(v)
    \/ \E i \in Items, v \in Values \cup {None} : ChangedElsewhere(i, v)
    \/ \E q \in saves : SaveCommits(q) \/ SaveRefused(q) \/ SaveAnswered(q) \/ SaveLost(q)
    \/ LoadAgain \/ LoadServed \/ LoadComes \/ LoadFails

PanelsSpec == PanelsInit /\ [][PanelsNext]_tvars

-----------------------------------------------------------------------------
PanelsQuiet == mounted /\ rows # None /\ saves = {} /\ load.pc = "idle"

\* The table shows what there is (zones-panel.tsx 60-85, spots-panel.tsx 73-97).  Once every
\* answer is there its rows are those of the database; the exceptions are a change made
\* elsewhere, a lost answer, a failed fetch, and a fetch that was read before the change
\* and goes on after it: a first one, or one of a panel that was left meanwhile, whose
\* answer clears the invalidation as well.  And there are rows on its page, unless the list has become shorter meanwhile.
TableTrue ==
    /\ PanelsQuiet => rows = record \/ dubious
    /\ mounted /\ Rows # {} => turn < PageCount \/ shrunk
=============================================================================
