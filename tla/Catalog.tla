------------------------------ MODULE Catalog ------------------------------
(***************************************************************************)
(* Zones and spots as the staff edit them: names, codes, outlines and       *)
(* places.  (The status of a spot is the subject of Parking; what the seed  *)
(* creates, requests create here.)  A handler reads the row, perhaps the    *)
(* zone it is to belong to, writes every column and records the change; a   *)
(* sensor tick writes every column as well.                                *)
(***************************************************************************)
EXTENDS Common

CONSTANTS
    ZoneIds, SpotIds,
    Texts,     \* names and codes; also outlines and places
    Jobs       \* requests and ticks that may be under way

ASSUME CatalogIds   == ZoneIds \cap SpotIds = {} /\ None \notin ZoneIds \cup SpotIds \cup Texts

VARIABLES
    row,   \* row[i]: the zone or spot with id i
    job    \* job[j]: the local state of a handler

cvars == <<row, job>>

Ids == ZoneIds \cup SpotIds

\* label: the name of a zone, the code of a spot; shape: outline, or place; zone: that
\* of a spot.
Fields   == [label : Texts \cup {None}, shape : Texts \cup {None}, zone : ZoneIds \cup {None}]
CatRows  == [state : {"unborn", "live", "gone"}, label : Texts \cup {None},
             shape : Texts \cup {None}, zone : ZoneIds \cup {None}]
\* dto: the fields that are asked for; old: what findOne has returned.  History: stale,
\* the row has been written since.
JobRows  == [pc : {"idle", "find", "zone", "write", "record"},
             op : {"none", "create", "update", "delete", "tick"},
             id : Ids \cup {None}, dto : Fields, old : CatRows, stale : BOOLEAN]

Blank    == [label |-> None, shape |-> None, zone |-> None]
Unborn   == [state |-> "unborn", label |-> None, shape |-> None, zone |-> None]
GoneRow  == [Unborn EXCEPT !.state = "gone"]
IdleJob  == [pc |-> "idle", op |-> "none", id |-> None, dto |-> Blank, old |-> Unborn,
             stale |-> FALSE]

CatalogTypeOK ==
    /\ row \in [Ids -> CatRows]
    /\ job \in [Jobs -> JobRows]

CatalogInit ==
    /\ row = [i \in Ids |-> Unborn]
    /\ job = [j \in Jobs |-> IdleJob]

Live(i)    == i \in Ids /\ row[i].state = "live"
IsSpot(i)  == i \in SpotIds
CatMoved(j, pc) == [job EXCEPT ![j] = [@ EXCEPT !.pc = pc]]
CatEnded(j)     == [job EXCEPT ![j] = IdleJob]

\* What a form may send: everything for a new row; for a change any one field, or none
\* of these (a status).  A PATCH with several would only combine them.
IsNewRow(i, d) == /\ d.label # None /\ d.shape # None
                  /\ d.zone = None <=> ~IsSpot(i)
IsChange(i, d) == \/ d = Blank
                  \/ \E t \in Texts : d \in {[Blank EXCEPT !.label = t],
                                             [Blank EXCEPT !.shape = t]}
                  \/ IsSpot(i) /\ d.zone # None /\ d = [Blank EXCEPT !.zone = d.zone]

-----------------------------------------------------------------------------
\* POST.  A spot's zone must exist.
CreateStart(j, i, d) ==
    /\ job[j].pc = "idle"
    /\ row[i].state = "unborn" /\ IsNewRow(i, d)
    /\ \A k \in Jobs : job[k].id # i
    /\ job' = [job EXCEPT ![j] = [IdleJob EXCEPT !.op = "create", !.id = i, !.dto = d,
                                     !.pc = IF IsSpot(i) THEN "zone" ELSE "write"]]
    /\ UNCHANGED row

\* PATCH and DELETE start with findOne.
Find(j, op, i, d) ==
    /\ Live(i)
    /\ job' = [job EXCEPT ![j] = [IdleJob EXCEPT !.op = op, !.id = i, !.dto = d,
                                     !.old = IF op = "delete" THEN Unborn ELSE row[i],
                                     !.pc = IF d.zone # None THEN "zone" ELSE "write"]]
    /\ UNCHANGED row

UpdateStart(j, i, d) == job[j].pc = "idle" /\ IsChange(i, d) /\ Find(j, "update", i, d)
DeleteStart(j, i)    == job[j].pc = "idle" /\ Find(j, "delete", i, Blank)

\* Mutant: the tick hands update the row of its list.
TickListRow(j, i) ==
    /\ job[j].pc = "idle"
    /\ IsSpot(i) /\ Live(i)
    /\ job' = [job EXCEPT ![j] = [IdleJob EXCEPT !.op = "tick", !.id = i, !.pc = "find",
                 !.dto = [Blank EXCEPT !.label = row[i].label, !.zone = row[i].zone]]]
    /\ UNCHANGED row

\* A tick lists spots, and asks for a status and nothing else of each.
TickList(j, i) ==
    /\ job[j].pc = "idle"
    /\ IsSpot(i) /\ Live(i)
    /\ job' = [job EXCEPT ![j] = [IdleJob EXCEPT !.op = "tick", !.id = i, !.pc = "find"]]
    /\ UNCHANGED row

TickFind(j) == job[j].pc = "find" /\ Find(j, "tick", job[j].id, job[j].dto)

\* zonesService.findOne.
CheckZone(j) ==
    /\ job[j].pc = "zone"
    /\ Live(job[j].dto.zone)
    /\ job' = CatMoved(j, "write")
    /\ UNCHANGED row

Or(a, b) == IF a = None THEN b ELSE a

\* Mutant: the shape that was read is written back too.
WrittenAll(r) == [state |-> "live", label |-> Or(r.dto.label, r.old.label),
                  zone |-> Or(r.dto.zone, r.old.zone), shape |-> Or(r.dto.shape, r.old.shape)]

\* The columns of an UPDATE: code and zone as asked for or as read, the geometry as
\* asked for or as it is.
Written(r) == [state |-> "live", label |-> Or(r.dto.label, r.old.label),
               zone |-> Or(r.dto.zone, r.old.zone), shape |-> Or(r.dto.shape, row[r.id].shape)]

\* A spot belongs to a zone that exists, and its code is unique there.
Permitted(i, w) ==
    IsSpot(i) => /\ Live(w.zone)
                 /\ \A s \in SpotIds \ {i} :
                       Live(s) => ~(row[s].zone = w.zone /\ row[s].label = w.label)

\* Those that have read row i learn that it is another one now.
Touched(i, rows) ==
    [k \in Jobs |-> IF rows[k].id = i /\ rows[k].old # Unborn THEN [rows[k] EXCEPT !.stale = TRUE] ELSE rows[k]]

\* The audit row is all that is left to do; a tick has none.
Recording(j) ==
    [job EXCEPT ![j] = IF @.op = "tick" THEN IdleJob ELSE [IdleJob EXCEPT !.pc = "record"]]

Insert(j) ==
    LET i == job[j].id
        w == Written(job[j])
    IN  /\ job[j].pc = "write" /\ job[j].op = "create"
        /\ Permitted(i, w)
        /\ row' = [row EXCEPT ![i] = w]
        /\ job' = Recording(j)

Update(j) ==
    LET i == job[j].id
        w == Written(job[j])
    IN  /\ job[j].pc = "write" /\ job[j].op \in {"update", "tick"}
        /\ Live(i) /\ Permitted(i, w)
        /\ row' = [row EXCEPT ![i] = w]
        /\ job' = Touched(i, Recording(j))

\* Mutant: the foreign key does not cascade.
DeleteAlone(j) ==
    LET i == job[j].id IN
    /\ job[j].pc = "write" /\ job[j].op = "delete"
    /\ Live(i)
    /\ row' = [row EXCEPT ![i] = GoneRow]
    /\ job' = Recording(j)

\* The spots of a zone go with it.
Delete(j) ==
    LET i == job[j].id IN
    /\ job[j].pc = "write" /\ job[j].op = "delete"
    /\ Live(i)
    /\ row' = [k \in Ids |-> IF k = i \/ (Live(k) /\ row[k].zone = i) THEN GoneRow ELSE row[k]]
    /\ job' = Recording(j)

\* auditLogService.record.
Record(j) ==
    /\ job[j].pc = "record"
    /\ job' = CatEnded(j)
    /\ UNCHANGED row

\* 404, 409, a foreign key, no row returned, or any other failure.
CatFails(j) ==
    LET i == job[j].id IN
    /\ \/ Faults /\ job[j].pc # "idle"
       \/ job[j].pc = "find" /\ ~Live(i)
       \/ job[j].pc = "zone" /\ ~Live(job[j].dto.zone)
       \/ job[j].pc = "write" /\ ~(IF job[j].op = "create" THEN Permitted(i, Written(job[j]))
                                   ELSE Live(i) /\ Permitted(i, Written(job[j])))
    /\ job' = CatEnded(j)
    /\ UNCHANGED row

CatalogNext ==
    \E j \in Jobs :
        \/ job[j].pc = "idle" /\ \E i \in Ids :
             \/ \E d \in Fields : CreateStart(j, i, d) \/ UpdateStart(j, i, d)
             \/ DeleteStart(j, i) \/ TickList(j, i)
        \/ TickFind(j) \/ CheckZone(j)
        \/ Insert(j) \/ Update(j) \/ Delete(j) \/ Record(j) \/ CatFails(j)

CatalogSpec == CatalogInit /\ [][CatalogNext]_cvars

-----------------------------------------------------------------------------
Kept(i) == row[i].state = "live" /\ row'[i].state = "live"

\* An outline or a place is never undone by a handler that had read an older one: only
\* a request for that very shape changes it (zones.service.ts 79-88, spots.service.ts 131-143).
ShapesStick ==
    [][\A i \in Ids : Kept(i) /\ row'[i].shape # row[i].shape =>
          \E j \in Jobs : job[j].id = i /\ job[j].dto.shape = row'[i].shape]_cvars

\* Codes and zones are written back as they were read.  Still, what nobody of the staff
\* has asked for happens only when a handler had read the row before another wrote it; a tick
\* never brings back what it saw in its list (sensor-simulator.service.ts 54-60).
LabelsStick ==
    [][\A i \in Ids :
          Kept(i) /\ (row'[i].label # row[i].label \/ row'[i].zone # row[i].zone) =>
          \E j \in Jobs :
             /\ job[j].id = i /\ job[j].pc = "write"
             /\ \/ job[j].stale
                \/ job[j].op = "update" /\ job[j].dto # Blank]_cvars

\* Whatever is removed meanwhile, a spot has a zone (schema.prisma 75-76).
SpotsHaveZones == \A s \in SpotIds : Live(s) => Live(row[s].zone)
=============================================================================
