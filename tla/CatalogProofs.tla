--------------------------- MODULE CatalogProofs ---------------------------
(***************************************************************************)
(* Proofs about zones and spots, for any number of them, of texts and of    *)
(* handlers, with and without failures.                                    *)
(***************************************************************************)
EXTENDS Catalog, TLAPS

-----------------------------------------------------------------------------
(* What the operators of the model return.                                 *)

LEMMA RowsTyped ==
    /\ Blank \in Fields /\ Unborn \in CatRows /\ GoneRow \in CatRows
    /\ IdleJob \in JobRows
  BY DEF Blank, Unborn, GoneRow, IdleJob, Fields, CatRows, JobRows, Ids

\* A row to be written is a live one, and has a type.
LEMMA WrittenTyped ==
    ASSUME CatalogTypeOK, NEW r \in JobRows, r.id \in Ids
    PROVE  Written(r) \in CatRows /\ Written(r).state = "live"
  <1>1. row[r.id] \in CatRows
    BY DEF CatalogTypeOK
  <1>2. r.dto \in Fields /\ r.old \in CatRows
    BY DEF JobRows
  <1>3. Or(r.dto.shape, row[r.id].shape) \in Texts \cup {None}
    BY <1>1, <1>2 DEF Or, Fields, CatRows
  <1>4. Or(r.dto.label, r.old.label) \in Texts \cup {None}
    BY <1>2 DEF Or, Fields, CatRows
  <1>5. Or(r.dto.zone, r.old.zone) \in ZoneIds \cup {None}
    BY <1>2 DEF Or, Fields, CatRows
  <1> QED BY <1>3, <1>4, <1>5 DEF Written, CatRows

LEMMA TouchedTyped ==
    ASSUME NEW rows \in [Jobs -> JobRows], NEW i
    PROVE  Touched(i, rows) \in [Jobs -> JobRows]
  <1>1. ASSUME NEW r \in JobRows PROVE [r EXCEPT !.stale = TRUE] \in JobRows
    BY DEF JobRows
  <1> QED BY <1>1 DEF Touched

LEMMA RecordingTyped ==
    ASSUME CatalogTypeOK, NEW j \in Jobs
    PROVE  /\ Recording(j) \in [Jobs -> JobRows]
           /\ CatEnded(j) \in [Jobs -> JobRows]
           /\ CatMoved(j, "write") \in [Jobs -> JobRows]
  <1>1. IdleJob \in JobRows /\ [IdleJob EXCEPT !.pc = "record"] \in JobRows
    BY RowsTyped DEF JobRows
  <1>2. \A r \in JobRows : [r EXCEPT !.pc = "write"] \in JobRows
    BY DEF JobRows
  <1> QED BY <1>1, <1>2 DEF Recording, CatEnded, CatMoved, CatalogTypeOK

-----------------------------------------------------------------------------
(* Types.                                                                  *)

\* A handler under way has an id.
JobShape == \A j \in Jobs : job[j].pc \in {"find", "zone", "write"} => job[j].id \in Ids

\* A zone is not in a zone, and nobody asks it to be.
ZoneShape ==
    \A z \in ZoneIds :
        /\ row[z].zone = None
        /\ \A j \in Jobs : job[j].id = z => job[j].dto.zone = None /\ job[j].old.zone = None

CatInv == CatalogTypeOK /\ JobShape /\ ZoneShape

\* After its write a handler has no id; the others keep theirs, and what they have read.
LEMMA OthersKeep ==
    ASSUME CatalogTypeOK, NEW j \in Jobs, NEW i,
           NEW rows \in {Recording(j), Touched(i, Recording(j)), CatEnded(j)}
    PROVE  /\ rows[j].pc \in {"idle", "record"} /\ rows[j].id = None
           /\ \A k \in Jobs \ {j} : /\ rows[k].pc = job[k].pc /\ rows[k].id = job[k].id
                                    /\ rows[k].dto = job[k].dto /\ rows[k].old = job[k].old
                                    /\ rows[k].op = job[k].op
  <1>1. Recording(j)[j] \in {IdleJob, [IdleJob EXCEPT !.pc = "record"]} /\ CatEnded(j)[j] = IdleJob
    BY DEF CatalogTypeOK, Recording, CatEnded
  <1>2. \A k \in Jobs \ {j} : Recording(j)[k] = job[k] /\ CatEnded(j)[k] = job[k]
    BY DEF CatalogTypeOK, Recording, CatEnded
  <1>3. \A k \in Jobs : Recording(j)[k] \in JobRows
    BY RecordingTyped
  <1>4. \A k \in Jobs :
          Touched(i, Recording(j))[k] \in {Recording(j)[k], [Recording(j)[k] EXCEPT !.stale = TRUE]}
    BY DEF Touched
  <1>5. ASSUME NEW r \in JobRows
        PROVE  LET t == [r EXCEPT !.stale = TRUE] IN
               t.pc = r.pc /\ t.id = r.id /\ t.dto = r.dto /\ t.old = r.old /\ t.op = r.op
    BY DEF JobRows
  <1>6. \A k \in Jobs : LET t == Touched(i, Recording(j))[k]
                            r == Recording(j)[k]
                        IN  t.pc = r.pc /\ t.id = r.id /\ t.dto = r.dto /\ t.old = r.old /\ t.op = r.op
    BY <1>3, <1>4, <1>5
  <1>7. /\ IdleJob.pc = "idle" /\ IdleJob.id = None
        /\ [IdleJob EXCEPT !.pc = "record"].pc = "record"
        /\ [IdleJob EXCEPT !.pc = "record"].id = None
    BY DEF IdleJob
  <1>8. CASE rows \in {Recording(j), CatEnded(j)}
    BY <1>1, <1>2, <1>7, <1>8
  <1>9. CASE rows = Touched(i, Recording(j))
    <2>1. Recording(j)[j].pc \in {"idle", "record"} /\ Recording(j)[j].id = None
      BY <1>1, <1>7
    <2>2. rows[j].pc = Recording(j)[j].pc /\ rows[j].id = Recording(j)[j].id
      BY <1>6, <1>9
    <2>3. \A k \in Jobs \ {j} : /\ rows[k].pc = job[k].pc /\ rows[k].id = job[k].id
                                /\ rows[k].dto = job[k].dto /\ rows[k].old = job[k].old
                                /\ rows[k].op = job[k].op
      <3> SUFFICES ASSUME NEW k \in Jobs \ {j}
                   PROVE  /\ rows[k].pc = job[k].pc /\ rows[k].id = job[k].id
                          /\ rows[k].dto = job[k].dto /\ rows[k].old = job[k].old
                          /\ rows[k].op = job[k].op
        OBVIOUS
      <3>1. Recording(j)[k] = job[k]
        BY <1>2
      <3>2. /\ rows[k].pc = Recording(j)[k].pc /\ rows[k].id = Recording(j)[k].id
            /\ rows[k].dto = Recording(j)[k].dto /\ rows[k].old = Recording(j)[k].old
            /\ rows[k].op = Recording(j)[k].op
        BY <1>6, <1>9
      <3> QED BY <3>1, <3>2
    <2> QED BY <2>1, <2>2, <2>3
  <1> QED BY <1>8, <1>9

LEMMA CatalogInitInv == CatalogInit => CatInv
  <1> SUFFICES ASSUME CatalogInit PROVE CatInv
    OBVIOUS
  <1>1. CatalogTypeOK
    BY RowsTyped DEF CatalogInit, CatalogTypeOK
  <1>2. JobShape
    BY DEF CatalogInit, JobShape, IdleJob
  <1>3. ZoneShape
    BY CatalogIds DEF CatalogInit, ZoneShape, IdleJob, Ids, Unborn
  <1> QED BY <1>1, <1>2, <1>3 DEF CatInv

\* A handler starts on a row with what it is asked, and what it has read of it.
LEMMA StartInv ==
    ASSUME CatInv, NEW j \in Jobs, NEW i \in Ids, row' = row,
           NEW r \in JobRows, r.id = i, i \in ZoneIds => r.dto.zone = None /\ r.old.zone = None,
           job' = [job EXCEPT ![j] = r]
    PROVE  CatInv'
  <1>0. CatalogTypeOK /\ JobShape /\ ZoneShape
    BY DEF CatInv
  <1>1. CatalogTypeOK'
    BY <1>0 DEF CatalogTypeOK
  <1>2. JobShape'
    BY <1>0 DEF CatalogTypeOK, JobShape
  <1>3. ZoneShape'
    BY <1>0 DEF CatalogTypeOK, ZoneShape
  <1> QED BY <1>1, <1>2, <1>3 DEF CatInv

\* A handler is done, and the zones stay out of zones.
LEMMA EndInv ==
    ASSUME CatInv, NEW j \in Jobs, NEW i,
           job' \in {Recording(j), Touched(i, Recording(j)), CatEnded(j)},
           row' \in [Ids -> CatRows], \A z \in ZoneIds : row'[z].zone = None
    PROVE  CatInv'
  <1>0. CatalogTypeOK /\ JobShape /\ ZoneShape
    BY DEF CatInv
  <1>1. job' \in [Jobs -> JobRows]
    BY <1>0, RecordingTyped, TouchedTyped
  <1>2. /\ job'[j].pc \in {"idle", "record"} /\ job'[j].id = None
        /\ \A k \in Jobs \ {j} : /\ job'[k].pc = job[k].pc /\ job'[k].id = job[k].id
                                 /\ job'[k].dto = job[k].dto /\ job'[k].old = job[k].old
    BY <1>0, OthersKeep
  <1>3. JobShape'
    BY <1>0, <1>2 DEF JobShape
  <1>4. ZoneShape'
    BY <1>0, <1>2, CatalogIds DEF ZoneShape
  <1> QED BY <1>1, <1>3, <1>4 DEF CatInv, CatalogTypeOK

LEMMA CatalogStepInv == CatInv /\ [CatalogNext]_cvars => CatInv'
  <1> SUFFICES ASSUME CatInv, [CatalogNext]_cvars PROVE CatInv'
    OBVIOUS
  <1>0. CatalogTypeOK /\ JobShape /\ ZoneShape
    BY DEF CatInv
  <1>1. CASE UNCHANGED cvars
    BY <1>0, <1>1 DEF cvars, CatInv, CatalogTypeOK, JobShape, ZoneShape
  <1>2. ASSUME NEW j \in Jobs, NEW i \in Ids, NEW d \in Fields, CreateStart(j, i, d)
        PROVE  CatInv'
    <2> DEFINE r == [IdleJob EXCEPT !.op = "create", !.id = i, !.dto = d,
                                    !.pc = IF IsSpot(i) THEN "zone" ELSE "write"]
    <2>1. r \in JobRows /\ r.id = i /\ r.dto = d /\ r.old.zone = None
      BY RowsTyped DEF JobRows, IdleJob, Unborn
    <2>2. i \in ZoneIds => d.zone = None
      BY <1>2, CatalogIds DEF CreateStart, IsNewRow, IsSpot
    <2>3. job' = [job EXCEPT ![j] = r] /\ row' = row
      BY <1>2 DEF CreateStart
    <2> QED BY <2>1, <2>2, <2>3, StartInv
  <1>3. ASSUME NEW j \in Jobs, NEW i \in Ids, NEW d \in Fields, NEW op \in {"update", "delete", "tick"},
               i \in ZoneIds => d.zone = None, Find(j, op, i, d)
        PROVE  CatInv'
    <2> DEFINE r == [IdleJob EXCEPT !.op = op, !.id = i, !.dto = d,
                                    !.old = IF op = "delete" THEN Unborn ELSE row[i],
                                    !.pc = IF d.zone # None THEN "zone" ELSE "write"]
    <2>1. row[i] \in CatRows /\ (i \in ZoneIds => row[i].zone = None)
      BY <1>0 DEF CatalogTypeOK, ZoneShape
    <2>2. r \in JobRows /\ r.id = i /\ r.dto = d
      BY <2>1, RowsTyped DEF JobRows, IdleJob
    <2>3. r.old \in {Unborn, row[i]}
      BY DEF IdleJob
    <2>4. i \in ZoneIds => r.dto.zone = None /\ r.old.zone = None
      BY <1>3, <2>1, <2>2, <2>3 DEF Unborn
    <2>5. job' = [job EXCEPT ![j] = r] /\ row' = row
      BY <1>3 DEF Find
    <2> HIDE DEF r
    <2> QED BY <2>2, <2>4, <2>5, StartInv
  <1>4. ASSUME NEW j \in Jobs, NEW i \in Ids, NEW d \in Fields, UpdateStart(j, i, d)
        PROVE  CatInv'
    <2>1. i \in ZoneIds => d.zone = None
      BY <1>4, CatalogIds DEF UpdateStart, IsChange, IsSpot, Blank
    <2> QED BY <1>3, <1>4, <2>1 DEF UpdateStart
  <1>5. ASSUME NEW j \in Jobs, NEW i \in Ids, DeleteStart(j, i) PROVE CatInv'
    <2>1. Blank \in Fields /\ Blank.zone = None
      BY RowsTyped DEF Blank
    <2> QED BY <1>3, <1>5, <2>1 DEF DeleteStart
  <1>6. ASSUME NEW j \in Jobs, NEW i \in Ids, TickList(j, i) PROVE CatInv'
    <2> DEFINE r == [IdleJob EXCEPT !.op = "tick", !.id = i, !.pc = "find"]
    <2>1. r \in JobRows /\ r.id = i /\ r.dto.zone = None /\ r.old.zone = None
      BY RowsTyped DEF JobRows, IdleJob, Blank, Unborn
    <2>2. job' = [job EXCEPT ![j] = r] /\ row' = row
      BY <1>6 DEF TickList
    <2> HIDE DEF r
    <2> QED BY <2>1, <2>2, StartInv
  <1>7. ASSUME NEW j \in Jobs, TickFind(j) PROVE CatInv'
    <2>1. job[j].id \in Ids /\ job[j].dto \in Fields
      BY <1>0, <1>7 DEF TickFind, JobShape, CatalogTypeOK, JobRows
    <2>2. job[j].id \in ZoneIds => job[j].dto.zone = None
      BY <1>0 DEF ZoneShape
    <2> QED BY <1>3, <1>7, <2>1, <2>2 DEF TickFind
  <1>8. ASSUME NEW j \in Jobs, CheckZone(j) PROVE CatInv'
    <2> DEFINE r == [job[j] EXCEPT !.pc = "write"]
    <2>1. job[j] \in JobRows /\ job[j].id \in Ids
      BY <1>0, <1>8 DEF CheckZone, JobShape, CatalogTypeOK
    <2>2. r \in JobRows /\ r.id = job[j].id /\ r.dto = job[j].dto /\ r.old = job[j].old
      BY <2>1 DEF JobRows
    <2>3. job' = [job EXCEPT ![j] = r] /\ row' = row
      BY <1>8 DEF CheckZone, CatMoved
    <2> HIDE DEF r
    <2> QED BY <1>0, <2>1, <2>2, <2>3, StartInv DEF ZoneShape
  <1>9. ASSUME NEW j \in Jobs, Insert(j) \/ Update(j) PROVE CatInv'
    <2> DEFINE i == job[j].id
               w == Written(job[j])
    <2>1. job[j] \in JobRows /\ i \in Ids
      BY <1>0, <1>9 DEF Insert, Update, CatalogTypeOK, JobShape
    <2>2. row' = [row EXCEPT ![i] = w]
      BY <1>9 DEF Insert, Update
    <2>3. w \in CatRows /\ (i \in ZoneIds => w.zone = None)
      BY <1>0, <2>1, WrittenTyped DEF ZoneShape, Written, Or
    <2>4. job' \in {Recording(j), Touched(i, Recording(j))}
      BY <1>9 DEF Insert, Update
    <2> HIDE DEF i, w
    <2>5. row' \in [Ids -> CatRows] /\ \A z \in ZoneIds : row'[z].zone = None
      BY <1>0, <2>1, <2>2, <2>3 DEF CatalogTypeOK, ZoneShape, Ids
    <2> QED BY <2>4, <2>5, EndInv
  <1>10. ASSUME NEW j \in Jobs, Delete(j) PROVE CatInv'
    <2>1. row' \in [Ids -> CatRows]
      BY <1>0, <1>10, RowsTyped DEF Delete, CatalogTypeOK
    <2>2. \A z \in ZoneIds : row'[z] \in {GoneRow, row[z]}
      BY <1>10 DEF Delete, Ids
    <2>3. \A z \in ZoneIds : row'[z].zone = None
      BY <1>0, <2>2 DEF ZoneShape, GoneRow, Unborn
    <2> QED BY <1>10, <2>1, <2>3, EndInv DEF Delete
  <1>11. ASSUME NEW j \in Jobs, Record(j) \/ CatFails(j) PROVE CatInv'
    <2>1. row' = row /\ job' = CatEnded(j)
      BY <1>11 DEF Record, CatFails
    <2> QED BY <1>0, <2>1, EndInv DEF CatalogTypeOK, ZoneShape
  <1> QED BY <1>1, <1>2, <1>4, <1>5, <1>6, <1>7, <1>8, <1>9, <1>10, <1>11 DEF CatalogNext

LEMMA CatalogInvariant == CatalogSpec => []CatInv
  BY CatalogInitInv, CatalogStepInv, PTL DEF CatalogSpec

\* Rows and handlers stay within their types.
THEOREM CatalogTyped == CatalogSpec => []CatalogTypeOK
  <1>1. CatInv => CatalogTypeOK
    BY DEF CatInv
  <1> QED BY CatalogInvariant, <1>1, PTL

\* Only these write rows.
LEMMA OnlyWrites ==
    ASSUME CatalogNext PROVE row' = row \/ \E j \in Jobs : Insert(j) \/ Update(j) \/ Delete(j)
  <1>1. ASSUME NEW j \in Jobs, NEW i \in Ids, NEW d \in Fields,
               CreateStart(j, i, d) \/ UpdateStart(j, i, d)
        PROVE  row' = row
    BY <1>1 DEF CreateStart, UpdateStart, Find
  <1>2. ASSUME NEW j \in Jobs, NEW i \in Ids, DeleteStart(j, i) \/ TickList(j, i)
        PROVE  row' = row
    BY <1>2 DEF DeleteStart, TickList, Find
  <1>3. ASSUME NEW j \in Jobs, TickFind(j) \/ CheckZone(j) \/ Record(j) \/ CatFails(j)
        PROVE  row' = row
    BY <1>3 DEF TickFind, Find, CheckZone, Record, CatFails
  <1> QED BY <1>1, <1>2, <1>3 DEF CatalogNext

-----------------------------------------------------------------------------
(* A spot has a zone.                                                      *)

LEMMA ZonesStayStep == CatInv /\ SpotsHaveZones /\ [CatalogNext]_cvars => SpotsHaveZones'
  <1> SUFFICES ASSUME CatInv, SpotsHaveZones, [CatalogNext]_cvars PROVE SpotsHaveZones'
    OBVIOUS
  <1>0. CatalogTypeOK /\ JobShape /\ ZoneShape
    BY DEF CatInv
  <1>1. CASE row' = row
    BY <1>1 DEF SpotsHaveZones, Live
  \* What is written is live, and if it is a spot, so is its zone.
  <1>2. ASSUME NEW j \in Jobs, Insert(j) \/ Update(j) PROVE SpotsHaveZones'
    <2> DEFINE i == job[j].id
               w == Written(job[j])
    <2>1. i \in Ids /\ w.state = "live" /\ w \in CatRows
      BY <1>0, <1>2, WrittenTyped DEF Insert, Update, CatalogTypeOK, JobShape
    <2>2. row' = [row EXCEPT ![i] = w] /\ Permitted(i, w)
      BY <1>2 DEF Insert, Update
    <2> HIDE DEF i, w
    <2>3. ASSUME NEW k, Live(k) PROVE Live(k)'
      BY <1>0, <2>1, <2>2, <2>3 DEF Live, CatalogTypeOK
    <2>4. ASSUME NEW s \in SpotIds, Live(s)' PROVE Live(row[s].zone)'
      <3>1. CASE s = i
        <4>1. Live(w.zone)
          BY <2>2, <3>1 DEF Permitted, IsSpot
        <4>2. row'[s].zone = w.zone
          BY <1>0, <2>1, <2>2, <3>1 DEF CatalogTypeOK
        <4> QED BY <2>3, <4>1, <4>2
      <3>2. CASE s # i
        <4>1. row'[s] = row[s] /\ Live(s)
          BY <1>0, <2>2, <2>4, <3>2 DEF CatalogTypeOK, Live, Ids
        <4> QED BY <2>3, <4>1 DEF SpotsHaveZones
      <3> QED BY <3>1, <3>2
    <2> QED BY <2>4 DEF SpotsHaveZones
  \* With a zone go its spots.
  <1>3. ASSUME NEW j \in Jobs, Delete(j) PROVE SpotsHaveZones'
    <2> DEFINE i == job[j].id
    <2>1. \A k \in Ids : row'[k] = IF k = i \/ (Live(k) /\ row[k].zone = i) THEN GoneRow ELSE row[k]
      BY <1>3 DEF Delete
    <2>2. ASSUME NEW s \in SpotIds, Live(s)' PROVE Live(row[s].zone)'
      <3>1. s \in Ids /\ row'[s].state = "live"
        BY <2>2 DEF Live, Ids
      <3>2. s # i /\ ~(Live(s) /\ row[s].zone = i) /\ row'[s] = row[s]
        BY <2>1, <3>1 DEF GoneRow, Unborn
      <3>3. Live(s) /\ row[s].zone # i
        BY <3>1, <3>2 DEF Live
      <3>4. Live(row[s].zone)
        BY <3>3 DEF SpotsHaveZones
      <3>5. row[s].zone \in ZoneIds
        BY <1>0, <3>1, <3>4, CatalogIds DEF CatalogTypeOK, CatRows, Live, Ids
      \* A zone is in no zone, so it goes only when it is the one deleted.
      <3>6. row[row[s].zone].zone = None /\ row[s].zone \in Ids
        BY <1>0, <3>5 DEF ZoneShape, Ids
      <3>7. i \in Ids
        BY <1>0, <1>3 DEF Delete, Live
      <3>8. row'[row[s].zone] = row[row[s].zone]
        BY <2>1, <3>3, <3>6, <3>7, CatalogIds DEF Ids
      <3> QED BY <3>2, <3>4, <3>6, <3>8 DEF Live
    <2> QED BY <2>2 DEF SpotsHaveZones
  <1>4. CASE UNCHANGED cvars
    BY <1>1, <1>4 DEF cvars
  <1> QED BY <1>1, <1>2, <1>3, <1>4, OnlyWrites

\* Whatever is removed meanwhile, a spot that exists has a zone that exists.
THEOREM SpotsAlwaysHaveZones == CatalogSpec => []SpotsHaveZones
  <1>1. CatalogInit => SpotsHaveZones
    BY DEF CatalogInit, SpotsHaveZones, Live, Unborn, Ids
  <1> QED BY <1>1, CatalogInvariant, ZonesStayStep, PTL DEF CatalogSpec

-----------------------------------------------------------------------------
(* An outline or a place changes only to what is asked for.                *)

LEMMA ShapeStep ==
  ASSUME CatInv, CatalogNext, NEW i \in Ids, Kept(i), row'[i].shape # row[i].shape
  PROVE  \E j \in Jobs : job[j].id = i /\ job[j].dto.shape = row'[i].shape
  <1>0. CatalogTypeOK /\ JobShape
    BY DEF CatInv
  \* Only a write leaves a row alive and different.
  <1>1. ASSUME NEW j \in Jobs, Insert(j) \/ Update(j)
        PROVE  job[j].id = i /\ job[j].dto.shape = row'[i].shape
    <2>1. row' = [row EXCEPT ![job[j].id] = Written(job[j])]
      BY <1>1 DEF Insert, Update
    <2>2. job[j].id = i
      BY <1>0, <2>1 DEF CatalogTypeOK
    <2>3. row'[i].shape = Or(job[j].dto.shape, row[i].shape)
      BY <1>0, <2>1, <2>2 DEF CatalogTypeOK, Written
    <2> QED BY <2>2, <2>3 DEF Or
  <1>2. ASSUME NEW j \in Jobs, Delete(j) PROVE FALSE
    <2>1. row'[i] \in {GoneRow, row[i]}
      BY <1>2 DEF Delete
    <2> QED BY <2>1 DEF Kept, GoneRow, Unborn
  <1> QED BY <1>1, <1>2, OnlyWrites

\* An outline or a place is never undone by a handler that had read an older one.
THEOREM ShapesAlwaysStick == CatalogSpec => ShapesStick
  <1>1. CatInv /\ [CatalogNext]_cvars =>
          [\A i \in Ids : Kept(i) /\ row'[i].shape # row[i].shape =>
             \E j \in Jobs : job[j].id = i /\ job[j].dto.shape = row'[i].shape]_cvars
    BY ShapeStep DEF cvars
  <1> QED BY <1>1, CatalogInvariant, PTL DEF CatalogSpec, ShapesStick

-----------------------------------------------------------------------------
(* Codes and zones change only when somebody asks, or after a stale read.  *)

\* Unless the row has been written since, an update holds the code and the zone that
\* the row has.
ReadTrue(r) ==
    r.pc \in {"zone", "write"} /\ r.op \in {"update", "tick"} =>
       /\ r.old.state = "live"
       /\ ~r.stale /\ row[r.id].state = "live" =>
            r.old.label = row[r.id].label /\ r.old.zone = row[r.id].zone

\* Nobody knows of a row before it is inserted, and a tick asks for nothing.
Creating(r) == r.pc \in {"zone", "write"} /\ r.op = "create"
Alone(j)    == /\ row[job[j].id].state = "unborn"
               /\ \A k \in Jobs \ {j} : job[k].id # job[j].id
TickAsks(r) == r.op = "tick" \/ r.pc = "find" => r.dto = Blank
ReadsInv    == \A j \in Jobs : /\ ReadTrue(job[j])
                               /\ TickAsks(job[j])
                               /\ Creating(job[j]) => Alone(j)

\* A handler starts, or goes on, and the rows stay as they are.
LEMMA StartReads ==
    ASSUME CatalogTypeOK, ReadsInv, NEW j \in Jobs, NEW r, row' = row,
           job' = [job EXCEPT ![j] = r],
           ReadTrue(r), TickAsks(r),
           Creating(r) => /\ row[r.id].state = "unborn"
                          /\ \A k \in Jobs \ {j} : job[k].id # r.id,
           \A k \in Jobs \ {j} : Creating(job[k]) => job[k].id # r.id
    PROVE  ReadsInv'
  <1>1. job'[j] = r /\ \A k \in Jobs \ {j} : job'[k] = job[k]
    BY DEF CatalogTypeOK
  <1>2. \A q : ReadTrue(q) => ReadTrue(q)'
    BY DEF ReadTrue
  <1>3. ASSUME NEW k \in Jobs PROVE ReadTrue(job[k])' /\ TickAsks(job[k])'
    BY <1>1 DEF ReadTrue, TickAsks, ReadsInv
  <1>4. ASSUME NEW k \in Jobs, Creating(job[k])' PROVE Alone(k)'
    <2>1. CASE k = j
      BY <1>1, <1>4, <2>1 DEF Creating, Alone
    <2>2. CASE k # j
      BY <1>1, <1>4, <2>2 DEF Creating, Alone, ReadsInv
    <2> QED BY <2>1, <2>2
  <1> QED BY <1>3, <1>4 DEF ReadsInv

\* A handler is done.  It has written at most the row i, and whoever had read that one
\* learns of it; other rows have gone or are as they were.
LEMMA EndReads ==
    ASSUME CatalogTypeOK, ReadsInv, NEW j \in Jobs, NEW i,
           job' \in {Recording(j), Touched(i, Recording(j)), CatEnded(j)},
           \A k \in Ids :
              \/ row'[k] = row[k]
              \/ row'[k] = GoneRow /\ row[k].state = "live"
              \/ k = i /\ \A q \in Jobs \ {j} :
                             job[q].id = i => ~Creating(job[q]) /\ job' = Touched(i, Recording(j)),
           JobShape
    PROVE  ReadsInv'
  <1>1. /\ job'[j].pc \in {"idle", "record"} /\ job'[j].id = None
        /\ \A k \in Jobs \ {j} : /\ job'[k].pc = job[k].pc /\ job'[k].id = job[k].id
                                 /\ job'[k].dto = job[k].dto /\ job'[k].old = job[k].old
                                 /\ job'[k].op = job[k].op
    BY OthersKeep
  <1>2. job'[j].op = "none"
    <2>1. Recording(j)[j].op = "none" /\ CatEnded(j)[j].op = "none"
      BY DEF CatalogTypeOK, Recording, CatEnded, IdleJob
    <2>2. Recording(j)[j] \in JobRows
      BY RecordingTyped
    <2>3. Touched(i, Recording(j))[j].op = "none"
      BY <2>1, <2>2 DEF Touched, JobRows
    <2> QED BY <2>1, <2>3
  <1>3. ASSUME NEW k \in Jobs \ {j}
        PROVE  /\ job'[k].stale = FALSE => job[k].stale = FALSE
               /\ job[k].id = i /\ job[k].old # Unborn /\ job' = Touched(i, Recording(j)) =>
                    job'[k].stale = TRUE
    <2>1. job[k] \in JobRows /\ Recording(j)[k] = job[k] /\ CatEnded(j)[k] = job[k]
      BY DEF CatalogTypeOK, Recording, CatEnded
    <2>2. Touched(i, Recording(j))[k] =
            IF job[k].id = i /\ job[k].old # Unborn THEN [job[k] EXCEPT !.stale = TRUE] ELSE job[k]
      BY <2>1 DEF Touched
    <2>3. [job[k] EXCEPT !.stale = TRUE].stale = TRUE
      BY <2>1 DEF JobRows
    <2> QED BY <2>1, <2>2, <2>3
  <1>4. ASSUME NEW k \in Jobs \ {j} PROVE ReadTrue(job[k])'
    <2> SUFFICES ASSUME job[k].pc \in {"zone", "write"}, job[k].op \in {"update", "tick"}
                 PROVE  /\ job[k].old.state = "live"
                        /\ ~job'[k].stale /\ row'[job[k].id].state = "live" =>
                             /\ job[k].old.label = row'[job[k].id].label
                             /\ job[k].old.zone = row'[job[k].id].zone
      BY <1>1 DEF ReadTrue
    <2>1. ReadTrue(job[k]) /\ job[k].id \in Ids
      BY DEF ReadsInv, JobShape
    <2>2. job[k].stale \in BOOLEAN /\ job'[k].stale \in BOOLEAN
      <3>1. job' \in [Jobs -> JobRows]
        BY RecordingTyped, TouchedTyped
      <3> QED BY <3>1 DEF CatalogTypeOK, JobRows
    <2>3. CASE row'[job[k].id] = row[job[k].id]
      BY <1>3, <2>1, <2>2, <2>3 DEF ReadTrue
    <2>4. CASE row'[job[k].id] = GoneRow
      BY <2>1, <2>4 DEF ReadTrue, GoneRow, Unborn
    <2>5. CASE job[k].id = i /\ job' = Touched(i, Recording(j))
      <3>1. job[k].old.state = "live" /\ job[k].old # Unborn
        BY <2>1 DEF ReadTrue, Unborn
      <3> QED BY <1>3, <2>5, <3>1
    <2> QED BY <2>1, <2>3, <2>4, <2>5
  <1>5. ASSUME NEW k \in Jobs \ {j}, Creating(job[k]) PROVE Alone(k)'
    <2>1. job[k].id \in Ids /\ job[k].id # None /\ Alone(k)
      BY <1>5, CatalogIds DEF Creating, JobShape, ReadsInv, Ids
    <2>2. row'[job[k].id] = row[job[k].id]
      BY <1>5, <2>1 DEF Alone
    <2> QED BY <1>1, <2>1, <2>2 DEF Alone
  <1>6. ReadTrue(job[j])' /\ TickAsks(job[j])' /\ ~Creating(job[j])'
    BY <1>1, <1>2 DEF ReadTrue, TickAsks, Creating
  <1>7. \A k \in Jobs \ {j} : /\ Creating(job[k])' => Creating(job[k])
                              /\ ReadTrue(job[k])' /\ TickAsks(job[k])'
    BY <1>1, <1>4 DEF Creating, TickAsks, ReadsInv
  <1> QED BY <1>1, <1>4, <1>5, <1>6, <1>7 DEF ReadsInv

LEMMA ReadsStep == CatInv /\ ReadsInv /\ [CatalogNext]_cvars => ReadsInv'
  <1> SUFFICES ASSUME CatInv, ReadsInv, [CatalogNext]_cvars PROVE ReadsInv'
    OBVIOUS
  <1>0. CatalogTypeOK /\ JobShape
    BY DEF CatInv
  <1>1. CASE UNCHANGED cvars
    BY <1>1 DEF cvars, ReadsInv, ReadTrue, Creating, Alone
  <1>2. ASSUME NEW j \in Jobs, NEW i \in Ids, NEW d \in Fields, CreateStart(j, i, d)
        PROVE  ReadsInv'
    <2> DEFINE r == [IdleJob EXCEPT !.op = "create", !.id = i, !.dto = d,
                                    !.pc = IF IsSpot(i) THEN "zone" ELSE "write"]
    <2>1. r.op = "create" /\ r.id = i /\ r.pc # "find"
      BY DEF IdleJob
    <2>2. job' = [job EXCEPT ![j] = r] /\ row' = row
      BY <1>2 DEF CreateStart
    <2>3. row[i].state = "unborn" /\ \A k \in Jobs : job[k].id # i
      BY <1>2 DEF CreateStart
    <2> HIDE DEF r
    <2> QED BY <1>0, <2>1, <2>2, <2>3, StartReads DEF ReadTrue, TickAsks
  \* What is found is alive, so it is not about to be created.
  <1>3. ASSUME NEW j \in Jobs, NEW i \in Ids, NEW d, NEW op \in {"update", "delete", "tick"},
               op = "tick" => d = Blank, Find(j, op, i, d)
        PROVE  ReadsInv'
    <2> DEFINE r == [IdleJob EXCEPT !.op = op, !.id = i, !.dto = d,
                                    !.old = IF op = "delete" THEN Unborn ELSE row[i],
                                    !.pc = IF d.zone # None THEN "zone" ELSE "write"]
    <2>1. /\ r.op = op /\ r.id = i /\ r.dto = d /\ r.pc # "find"
          /\ op # "delete" => r.old = row[i]
      BY DEF IdleJob
    <2>2. job' = [job EXCEPT ![j] = r] /\ row' = row /\ row[i].state = "live"
      BY <1>3 DEF Find, Live
    <2> HIDE DEF r
    <2>3. \A k \in Jobs : Creating(job[k]) => job[k].id # i
      BY <2>2 DEF ReadsInv, Alone
    <2>4. ReadTrue(r) /\ TickAsks(r) /\ ~Creating(r)
      BY <1>3, <2>1, <2>2 DEF ReadTrue, TickAsks, Creating
    <2> QED BY <1>0, <1>3, <2>1, <2>2, <2>3, <2>4, StartReads
  <1>4. ASSUME NEW j \in Jobs, NEW i \in Ids, NEW d \in Fields, UpdateStart(j, i, d)
        PROVE  ReadsInv'
    BY <1>3, <1>4 DEF UpdateStart
  <1>5. ASSUME NEW j \in Jobs, NEW i \in Ids, DeleteStart(j, i) PROVE ReadsInv'
    BY <1>3, <1>5 DEF DeleteStart
  <1>6. ASSUME NEW j \in Jobs, NEW i \in Ids, TickList(j, i) PROVE ReadsInv'
    <2> DEFINE r == [IdleJob EXCEPT !.op = "tick", !.id = i, !.pc = "find"]
    <2>1. r.pc = "find" /\ r.id = i /\ r.dto = Blank
      BY DEF IdleJob
    <2>2. job' = [job EXCEPT ![j] = r] /\ row' = row /\ row[i].state = "live"
      BY <1>6 DEF TickList, Live
    <2> HIDE DEF r
    <2>3. \A k \in Jobs : Creating(job[k]) => job[k].id # i
      BY <2>2 DEF ReadsInv, Alone
    <2>4. ReadTrue(r) /\ TickAsks(r) /\ ~Creating(r)
      BY <2>1 DEF ReadTrue, TickAsks, Creating
    <2> QED BY <1>0, <2>1, <2>2, <2>3, <2>4, StartReads
  <1>7. ASSUME NEW j \in Jobs, TickFind(j) PROVE ReadsInv'
    <2>1. /\ job[j].id \in Ids /\ job[j].dto = Blank
          /\ Find(j, "tick", job[j].id, job[j].dto)
      BY <1>7 DEF TickFind, Find, Live, ReadsInv, TickAsks
    <2> QED BY <1>3, <2>1
  <1>8. ASSUME NEW j \in Jobs, CheckZone(j) PROVE ReadsInv'
    <2> DEFINE r == [job[j] EXCEPT !.pc = "write"]
    <2>1. /\ r.pc = "write" /\ r.op = job[j].op /\ r.id = job[j].id
          /\ r.dto = job[j].dto /\ r.old = job[j].old /\ r.stale = job[j].stale
      BY <1>0 DEF CatalogTypeOK, JobRows
    <2>2. job' = [job EXCEPT ![j] = r] /\ row' = row /\ job[j].pc = "zone"
      BY <1>8 DEF CheckZone, CatMoved
    <2> HIDE DEF r
    <2>3. ReadTrue(r) /\ TickAsks(r)
      BY <2>1, <2>2 DEF ReadsInv, ReadTrue, TickAsks
    <2>4. Creating(r) => /\ row[r.id].state = "unborn"
                         /\ \A k \in Jobs \ {j} : job[k].id # r.id
      BY <2>1, <2>2 DEF ReadsInv, Creating, Alone
    <2>5. \A k \in Jobs \ {j} : Creating(job[k]) => job[k].id # r.id
      BY <2>1 DEF ReadsInv, Alone
    <2> QED BY <1>0, <2>2, <2>3, <2>4, <2>5, StartReads
  <1>9. ASSUME NEW j \in Jobs, Insert(j) \/ Update(j) PROVE ReadsInv'
    <2> DEFINE i == job[j].id
    <2>1. i \in Ids /\ row' = [row EXCEPT ![i] = Written(job[j])]
      BY <1>0, <1>9 DEF Insert, Update, JobShape
    <2>2. \A k \in Ids : row'[k] = row[k] \/ k = i
      BY <1>0, <2>1 DEF CatalogTypeOK
    <2>3. \A k \in Jobs \ {j} : Creating(job[k]) => job[k].id # i
      BY DEF ReadsInv, Alone
    <2>4. CASE Insert(j)
      <3>1. job' = Recording(j) /\ Creating(job[j])
        BY <2>4 DEF Insert, Creating
      <3>2. \A k \in Jobs \ {j} : job[k].id # i
        BY <3>1 DEF ReadsInv, Alone
      <3> HIDE DEF i
      <3> QED BY <1>0, <2>2, <2>3, <3>1, <3>2, EndReads
    <2>5. CASE Update(j)
      <3>1. job' = Touched(i, Recording(j))
        BY <2>5 DEF Update
      <3> HIDE DEF i
      <3> QED BY <1>0, <2>2, <2>3, <3>1, EndReads
    <2> QED BY <1>9, <2>4, <2>5
  <1>10. ASSUME NEW j \in Jobs, Delete(j) PROVE ReadsInv'
    <2>1. job' = Recording(j) /\ Live(job[j].id)
      BY <1>10 DEF Delete
    <2>2. \A k \in Ids : row'[k] = row[k] \/ (row'[k] = GoneRow /\ row[k].state = "live")
      BY <1>10, <2>1 DEF Delete, Live
    <2> QED BY <1>0, <2>1, <2>2, EndReads
  <1>11. ASSUME NEW j \in Jobs, Record(j) \/ CatFails(j) PROVE ReadsInv'
    <2>1. row' = row /\ job' = CatEnded(j)
      BY <1>11 DEF Record, CatFails
    <2> QED BY <1>0, <2>1, EndReads
  <1> QED BY <1>1, <1>2, <1>4, <1>5, <1>6, <1>7, <1>8, <1>9, <1>10, <1>11 DEF CatalogNext

LEMMA ReadsInvariant == CatalogSpec => []ReadsInv
  <1>1. CatalogInit => ReadsInv
    BY DEF CatalogInit, ReadsInv, ReadTrue, TickAsks, Creating, IdleJob
  <1> QED BY <1>1, CatalogInvariant, ReadsStep, PTL DEF CatalogSpec

LEMMA LabelStep ==
  ASSUME CatInv, ReadsInv, CatalogNext, NEW i \in Ids, Kept(i),
         row'[i].label # row[i].label \/ row'[i].zone # row[i].zone
  PROVE  \E j \in Jobs : /\ job[j].id = i /\ job[j].pc = "write"
                         /\ \/ job[j].stale
                            \/ job[j].op = "update" /\ job[j].dto # Blank
  <1>0. CatalogTypeOK /\ JobShape
    BY DEF CatInv
  \* A row that is inserted was not alive before.
  <1>1. ASSUME NEW j \in Jobs, Insert(j) PROVE FALSE
    <2>1. row[job[j].id].state = "unborn" /\ row' = [row EXCEPT ![job[j].id] = Written(job[j])]
      BY <1>1 DEF Insert, ReadsInv, Creating, Alone
    <2> QED BY <1>0, <2>1 DEF CatalogTypeOK, Kept
  <1>2. ASSUME NEW j \in Jobs, Update(j)
        PROVE  /\ job[j].id = i /\ job[j].pc = "write"
               /\ \/ job[j].stale
                  \/ job[j].op = "update" /\ job[j].dto # Blank
    <2>1. /\ row' = [row EXCEPT ![job[j].id] = Written(job[j])]
          /\ job[j].pc = "write" /\ job[j].op \in {"update", "tick"}
      BY <1>2 DEF Update
    <2>2. job[j].id = i
      BY <1>0, <2>1 DEF CatalogTypeOK
    <2>3. /\ row'[i].label = Or(job[j].dto.label, job[j].old.label)
          /\ row'[i].zone = Or(job[j].dto.zone, job[j].old.zone)
      BY <1>0, <2>1, <2>2 DEF CatalogTypeOK, Written
    <2>4. ASSUME job[j].dto = Blank, ~job[j].stale PROVE FALSE
      <3>1. row'[i].label = job[j].old.label /\ row'[i].zone = job[j].old.zone
        BY <2>3, <2>4 DEF Or, Blank
      <3>2. job[j].old.label = row[i].label /\ job[j].old.zone = row[i].zone
        BY <2>1, <2>2, <2>4 DEF ReadsInv, ReadTrue, Kept
      <3> QED BY <3>1, <3>2
    <2>5. job[j].op = "tick" => job[j].dto = Blank
      BY DEF ReadsInv, TickAsks
    <2> QED BY <2>1, <2>2, <2>4, <2>5
  <1>3. ASSUME NEW j \in Jobs, Delete(j) PROVE FALSE
    <2>1. row'[i] \in {GoneRow, row[i]}
      BY <1>3 DEF Delete
    <2> QED BY <2>1 DEF Kept, GoneRow, Unborn
  <1> QED BY <1>1, <1>2, <1>3, OnlyWrites DEF Kept

\* A code or a zone is changed only by somebody who asked for it, or by a handler that had
\* read the row before another wrote it; a tick never brings back what it saw in its list.
THEOREM LabelsAlwaysStick == CatalogSpec => LabelsStick
  <1>1. CatInv /\ ReadsInv /\ [CatalogNext]_cvars =>
          [\A i \in Ids :
             Kept(i) /\ (row'[i].label # row[i].label \/ row'[i].zone # row[i].zone) =>
             \E j \in Jobs :
                /\ job[j].id = i /\ job[j].pc = "write"
                /\ \/ job[j].stale
                   \/ job[j].op = "update" /\ job[j].dto # Blank]_cvars
    BY LabelStep DEF cvars
  <1> QED BY <1>1, CatalogInvariant, ReadsInvariant, PTL DEF CatalogSpec, LabelsStick

=============================================================================
