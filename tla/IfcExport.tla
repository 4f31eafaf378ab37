------------------------------ MODULE IfcExport ------------------------------
(***************************************************************************)
(* The IFC file of a plan: export/ifc_exporter.py, which writes it, the    *)
(* gate that inspects what was written (validation/ifc_checks.py and       *)
(* ifc_geometry.py), and the reader at the other end, the compliance       *)
(* engine's ingest/ifc_to_bim_data.py.                                     *)
(*                                                                         *)
(* A file has a row per IFC entity, a manifest (Pset_SimsysContract) and   *)
(* the elevation of its one storey.  An opening is placed by its chainage  *)
(* along the wall it voids.  Global ids are names made as the exporter     *)
(* makes them; the ids ifcopenshell draws at random never clash.           *)
(***************************************************************************)
EXTENDS PlanChecks, SequencesExt

FitTol  == 1              \* millimetres an opening may stick out of its wall
HostTol == 5              \* and what the gate lets pass (placement_tolerance_mm)

-----------------------------------------------------------------------------
(* Before anything is written.                                             *)

Assessed(scale) == "confidence" \in DOMAIN scale

\* A scale of an older plan is assessed, or kept as a bare number.
SettledScale(scale) ==
    IF Assessed(scale) THEN scale
    ELSE IF ScaleAccepted(scale) THEN AssessScale(scale)
    ELSE AssessScale(UnverifiedScale(scale.mmpp))

StaleProvenance(bim) ==
    \E c \in Collections : \E i \in DOMAIN bim[c] :
        \/ bim[c][i].prov = <<>>
        \/ \E f \in DOMAIN bim[c][i].prov : bim[c][i].prov[f].scale # bim.scale

Settled(bim, r) ==
    LET b == [r.bim EXCEPT !.scale = SettledScale(@)]
    IN  IF ~r.ok \/ ~(Assessed(bim.scale) \/ ScaleAccepted(bim.scale)
                        \/ ScaleAccepted(UnverifiedScale(bim.scale.mmpp)))
        THEN [ok |-> FALSE, bim |-> bim]
        ELSE [ok |-> TRUE,
              bim |-> IF StaleProvenance(b) THEN WithProvenance(b) ELSE b]

Preflight(bim) ==
    Settled(bim, IF bim.manual = <<>> THEN Stage1Resolve(EmptyPayload, bim)
                 ELSE [ok |-> TRUE, bim |-> bim])

FileParams(bim) == [k \in ParamNames |->
    IF k \in DOMAIN bim.params THEN bim.params[k] ELSE SystemDefaults[k]]

\* Points less than a millimetre apart are one point.
Thinned(line) ==
    FoldLeft(LAMBDA kept, p : IF kept # <<>> /\ Last(kept) = p THEN kept
                              ELSE Append(kept, p), <<>>, line)

Expanded_LosesTheLast(w) ==    \* mutant: one segment too few
    LET parts == SubSeq(Segments(Thinned(w.line)), 1,
                        Max({1, Len(Thinned(w.line)) - 2}))
    IN  [i \in DOMAIN parts |->
            [id |-> IF Len(parts) = 1 THEN w.id
                    ELSE w.id \o "__seg_" \o ToString(i),
             parent |-> w.id, axis |-> parts[i], exterior |-> w.exterior,
             dims |-> w.dims, prov |-> w.prov, conf |-> w.conf,
             needs_review |-> w.needs_review]]

\* One straight wall per segment; a straight wall keeps its id.
Expanded(w) ==
    LET parts == Segments(Thinned(w.line))
    IN  [i \in DOMAIN parts |->
            [id |-> IF Len(parts) = 1 THEN w.id
                    ELSE w.id \o "__seg_" \o ToString(i),
             parent |-> w.id, axis |-> parts[i], exterior |-> w.exterior,
             dims |-> w.dims, prov |-> w.prov, conf |-> w.conf,
             needs_review |-> w.needs_review]]

ExpandedWalls(walls) ==
    FlattenSeq([i \in DOMAIN walls |-> Expanded(walls[i])])

WallGeometryValid(walls) ==
    /\ \A i \in DOMAIN walls : Len(Thinned(walls[i].line)) >= 2
    /\ Repeated(ExpandedWalls(walls)) = {}

-----------------------------------------------------------------------------
(* Elements.                                                               *)

WallEntity(w, p) ==
    [id |-> w.id, parent |-> w.parent, guid |-> "IfcWall:" \o w.id,
     axis |-> w.axis, exterior |-> w.exterior,
     thickness |-> Either(Get(w.dims, "thickness"), 200),
     height |-> Either(Get(w.dims, "height"), p.wall_height),
     prov |-> w.prov, conf |-> w.conf, needs_review |-> w.needs_review]

\* What an opening is cut as; doors stand on the floor.
DoorSize(row, p) ==
    [width |-> Either(Get(row.dims, "width"), 900),
     height |-> Either(Get(row.dims, "height"), p.door_height), sill |-> 0]
WindowSize(row, p) ==
    [width |-> Either(Get(row.dims, "width"), 1200),
     height |-> Either(Get(row.dims, "height"), p.window_height),
     sill |-> Either(Get(row.dims, "sill_height"), p.window_sill_height)]

SizeValid(size) == size.width > 0 /\ size.height > 0 /\ size.sill >= 0

FitsIn(wall, at, size) ==
    /\ 2 * Along(at, wall.axis) - size.width >= -2 * FitTol
    /\ 2 * Along(at, wall.axis) + size.width
           <= 2 * (Length(wall.axis) + FitTol)
    /\ size.sill + size.height <= wall.height + FitTol

\* The wall of that id, or else the segments of the wall that had it.
HostCandidates(walls, host) ==
    LET named == {i \in DOMAIN walls : walls[i].id = host}
    IN  IF named # {} THEN named
        ELSE {i \in DOMAIN walls : walls[i].parent = host}

FittingHosts(walls, row, size) ==
    {i \in HostCandidates(walls, row.host) : FitsIn(walls[i], row.at, size)}

ResolveHostWall(walls, row, size) ==
    LET beside(i) == Beside(row.at, walls[i].axis)
    IN  Nearest(FittingHosts(walls, row, size), beside)

CanPlace(row, walls, size) ==
    row.host # "none" /\ SizeValid(size) /\ FittingHosts(walls, row, size) # {}

\* The hole's global id is made of its wall's and of the rounded point.
OpeningIn(wall, row) ==
    [hole |-> wall.guid \o ":" \o ToString(row.at), wall |-> wall.id,
     chainage |-> Along(row.at, wall.axis), exterior |-> wall.exterior]
Opening(row, walls, size) ==
    OpeningIn(walls[ResolveHostWall(walls, row, size)], row)

OpeningEntity(class, row, size, place) ==
    [id |-> row.id, guid |-> class \o row.id, prov |-> row.prov,
     width_source |-> row.width_source, conf |-> row.conf,
     needs_review |-> row.needs_review,
     width |-> size.width, height |-> size.height, sill |-> size.sill,
     hole |-> place.hole, wall |-> place.wall, chainage |-> place.chainage,
     exterior |-> place.exterior]
DoorEntity(d, walls, p) ==
    OpeningEntity("IfcDoor:", d, DoorSize(d, p), Opening(d, walls, DoorSize(d, p)))
WindowEntity(w, walls, p) ==
    OpeningEntity("IfcWindow:", w, WindowSize(w, p), Opening(w, walls, WindowSize(w, p)))

CanFloor(room) == Len(room.polygon) >= 4 /\ room.centroid
SpaceEntity(room, p) ==
    [id |-> room.id, guid |-> "IfcSpace:" \o room.id, area |-> room.area,
     footprint |-> Front(room.polygon), height |-> p.wall_height,
     category |-> room.category, conf |-> room.conf,
     needs_review |-> room.needs_review]

\* Stairs and slabs are written with the default confidence and no doubt.
PlainEntity(class, row) ==
    [id |-> row.id, guid |-> class \o row.id, footprint |-> row.polygon,
     conf |-> 1000, needs_review |-> FALSE]

-----------------------------------------------------------------------------
(* The file, when every element of the plan could be written.              *)

Entities(rows, Entity(_)) == [i \in DOMAIN rows |-> Entity(rows[i])]

Manifest(bim, p, walls) ==
    [params |-> p, provided |-> bim.provided \cap ParamNames, scale |-> bim.scale,
     counts |-> [walls |-> Len(walls), doors |-> Len(bim.doors),
                 windows |-> Len(bim.windows), spaces |-> Len(bim.rooms),
                 stairs |-> Len(bim.stairs), slabs |-> Len(bim.slabs)]]

IfcFile(bim, elevation) ==
    LET p         == FileParams(bim)
        wall(w)   == WallEntity(w, p)
        walls     == Entities(ExpandedWalls(bim.walls), wall)
        door(d)   == DoorEntity(d, walls, p)
        window(w) == WindowEntity(w, walls, p)
        space(r)  == SpaceEntity(r, p)
        stair(s)  == PlainEntity("IfcStair:", s)
        slab(s)   == PlainEntity("IfcSlab:", s)
    IN  [walls |-> walls, doors |-> Entities(bim.doors, door),
         windows |-> Entities(bim.windows, window),
         spaces |-> Entities(bim.rooms, space),
         stairs |-> Entities(bim.stairs, stair),
         slabs |-> Entities(bim.slabs, slab), elevation |-> elevation,
         manifest |-> Manifest(bim, p, walls)]

\* One element that cannot be written and nothing is.
ExportFailures(bim) ==
    LET p       == FileParams(bim)
        wall(w) == WallEntity(w, p)
        walls   == Entities(ExpandedWalls(bim.walls), wall)
        lost(rows, CanWrite(_)) == {rows[i].id : i \in {j \in DOMAIN rows :
                                                    ~CanWrite(rows[j])}}
        door(d)   == CanPlace(d, walls, DoorSize(d, p))
        window(w) == CanPlace(w, walls, WindowSize(w, p))
        flat(s)   == Len(s.polygon) >= 3
    IN  lost(bim.doors, door) \cup lost(bim.windows, window)
        \cup lost(bim.rooms, CanFloor)
        \cup lost(bim.stairs, flat) \cup lost(bim.slabs, flat)

\* bim_json_to_ifc up to the point where it writes.
BuildSettled(pre, elevation) ==
    IF pre.ok /\ WallGeometryValid(pre.bim.walls) /\ ExportFailures(pre.bim) = {}
    THEN [ok |-> TRUE, file |-> IfcFile(pre.bim, elevation)]
    ELSE [ok |-> FALSE, file |-> <<>>]

BuildIfc(bim, elevation) == BuildSettled(Preflight(bim), elevation)

-----------------------------------------------------------------------------
(* The gate (validate_ifc_contract): the codes of what it finds critical.  *)

Rooted(file) == UNION {{<<c, i>> : i \in DOMAIN file[c]} :
    c \in {"walls", "doors", "windows", "spaces", "stairs", "slabs"}}
OpeningRows(file) == {e \in Rooted(file) : e[1] \in {"doors", "windows"}}
Row(file, e) == file[e[1]][e[2]]

DuplicateGuids(file) ==
    \/ \E a, b \in Rooted(file) : a # b /\ Row(file, a).guid = Row(file, b).guid
    \/ \E a, b \in OpeningRows(file) :
           a # b /\ Row(file, a).hole = Row(file, b).hole

\* The opening lies between the ends of the wall it voids, and below its top.
InsideHost(file, o, tolerance) ==
    \E i \in DOMAIN file.walls :
        LET w == file.walls[i]
        IN  /\ w.id = o.wall
            /\ 2 * o.chainage - o.width >= -2 * tolerance
            /\ 2 * o.chainage + o.width <= 2 * (Length(w.axis) + tolerance)
            /\ o.sill >= -tolerance
            /\ o.sill + o.height <= w.height + tolerance

\* A cut that reaches an edge of the wall's body shrinks its bounding box.
BodyIntact(file, w) ==
    \A e \in OpeningRows(file) :
        LET o    == Row(file, e)
            low  == 2 * o.chainage - o.width <= 0
            high == 2 * o.chainage + o.width >= 2 * Length(w.axis)
            full == o.sill <= 0 /\ o.sill + o.height >= w.height
            edge == o.sill <= 0 \/ o.sill + o.height >= w.height
        IN  o.wall = w.id => ~(full /\ (low \/ high)) /\ ~(low /\ high /\ edge)

FloorArea(space) == Area(space.footprint)
AreaAgrees(space) ==
    space.area > 0 =>
        Size(FloorArea(space) - space.area) <= Max({10, (2 * space.area) \div 100})

Recorded_ScaleOnly(file, row, fields) ==    \* mutant: compares no value
    \A f \in fields : f \in DOMAIN row.prov
                      /\ row.prov[f].scale = file.manifest.scale

\* A recorded measurement must be the value in the file, at the file's scale.
Recorded(file, row, fields) ==
    \A f \in fields :
        /\ f \in DOMAIN row.prov
        /\ row.prov[f].value = row[f]
        /\ row.prov[f].scale = file.manifest.scale

ManifestHolds(file) ==
    /\ file.manifest.scale.source \in DOMAIN ScaleSources
    /\ Within(file.manifest.scale.mmpp, <<1, 100>>)
    /\ \A c \in DOMAIN file.manifest.counts :
           file.manifest.counts[c] = Len(file[c])

GateIssues(file) ==
    When(~ManifestHolds(file), "MANIFEST")
    \cup When(DuplicateGuids(file), "GUID.DUPLICATE")
    \cup When(\E i \in DOMAIN file.walls :
                ~Recorded(file, file.walls[i], {"thickness", "height"}),
              "MEASUREMENT_MISMATCH")
    \cup When(\E e \in OpeningRows(file) :
                ~Recorded(file, Row(file, e), {"width", "height"}),
              "MEASUREMENT_MISMATCH")
    \cup When(\E e \in OpeningRows(file) : ~InsideHost(file, Row(file, e), HostTol),
              "OPENING.OUTSIDE_HOST")
    \cup When(\E i \in DOMAIN file.walls : ~BodyIntact(file, file.walls[i]),
              "WALL.BODY_QTO_MISMATCH")
    \cup When(\E i \in DOMAIN file.spaces : FloorArea(file.spaces[i]) = 0,
              "BODY.ZERO_OR_DEGENERATE")
    \cup When(\E i \in DOMAIN file.spaces : ~AreaAgrees(file.spaces[i]),
              "SPACE.BODY_QTO_MISMATCH")

-----------------------------------------------------------------------------
(* The engine reads the file back.                                         *)

Identity(e) == {e.id, e.guid}

IngestWall(w) ==
    [id |-> w.id, ids |-> Identity(w), line |-> w.axis, exterior |-> w.exterior,
     dims |-> [thickness |-> w.thickness, height |-> w.height],
     width_source |-> "none", res |-> <<>>, needs_review |-> w.needs_review]

IngestOpening_Certain(c, o) ==    \* mutant: reads no NeedsReview
    [id |-> o.id, ids |-> Identity(o), host |-> o.wall, chainage |-> o.chainage,
     dims |-> [width |-> o.width, height |-> o.height]
              @@ (IF c = "windows" THEN [sill_height |-> o.sill] ELSE <<>>),
     exterior |-> c = "windows" /\ o.exterior, width_source |-> o.width_source,
     res |-> <<>>, needs_review |-> FALSE]

IngestOpening(c, o) ==
    [id |-> o.id, ids |-> Identity(o), host |-> o.wall, chainage |-> o.chainage,
     dims |-> [width |-> o.width, height |-> o.height]
              @@ (IF c = "windows" THEN [sill_height |-> o.sill] ELSE <<>>),
     exterior |-> c = "windows" /\ o.exterior,
     width_source |-> IF o.width_source = "none" THEN "measured"
                      ELSE o.width_source,
     res |-> <<>>, needs_review |-> o.needs_review]

IngestSpace(s) ==
    [id |-> s.id, area |-> IF s.area > 0 THEN s.area ELSE Absent,
     polygon |-> Append(s.footprint, s.footprint[1]),
     category |-> IF s.category = "" THEN "Unknown" ELSE s.category,
     needs_review |-> s.needs_review]

IngestSimple(e) == [id |-> e.id, needs_review |-> e.needs_review]

\* The wall height of the file is the ceiling height of the rooms.
Ingest(file) ==
    LET door(d)   == IngestOpening("doors", d)
        window(w) == IngestOpening("windows", w)
        given     == file.manifest.provided
    IN  [walls |-> Entities(file.walls, IngestWall),
         doors |-> Entities(file.doors, door),
         windows |-> Entities(file.windows, window),
         rooms |-> Entities(file.spaces, IngestSpace),
         stairs |-> Entities(file.stairs, IngestSimple),
         slabs |-> Entities(file.slabs, IngestSimple),
         params |-> file.manifest.params
                    @@ [ceiling_height |-> file.manifest.params.wall_height],
         provided |-> given \cup (IF "wall_height" \in given
                                  THEN {"ceiling_height"} ELSE {}),
         elevation |-> file.elevation, level |-> 0,
         scale |-> file.manifest.scale]
=============================================================================
