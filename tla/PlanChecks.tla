----------------------------- MODULE PlanChecks -----------------------------
(***************************************************************************)
(* The check of a plan before it is exported (validation/bim_checks.py).   *)
(* An issue is <<severity, code, element>>; one critical issue refuses the *)
(* plan, a warning does not.  A dimension that is missing or no number is  *)
(* Absent, a host that is None is "none".                                  *)
(***************************************************************************)
EXTENDS PlanAnalysis

WallThickness == <<50, 600>>
WidthRange == [Door |-> <<500, 2000>>, Window |-> <<300, 4000>>]
RoomArea   == <<50, 50000>>
OnWallTol  == 150
JoinTol    == 200

Critical(code, id) == <<"critical", code, id>>
Warning(code, id)  == <<"warning", code, id>>
When(condition, issue) == IF condition THEN {issue} ELSE {}
Blocked(issues) == \E issue \in issues : issue[1] = "critical"

Repeated(rows) == {rows[i].id : i \in {j \in DOMAIN rows :
                       \E k \in 1..(j - 1) : rows[k].id = rows[j].id}}

\* The walls are indexed by id, and the last one of an id stays.
Indexed(walls, id) ==
    walls[Max({i \in DOMAIN walls : walls[i].id = id})]

Ends(line) == {line[1], line[Len(line)]}
Joins(walls, id) ==
    \E j \in DOMAIN walls :
        LET other == Indexed(walls, walls[j].id).line
        IN  /\ walls[j].id # id
            /\ TotalLength(other) >= 1
            /\ \E p \in Ends(other) : \E q \in Ends(Indexed(walls, id).line) :
                   Dist2(p, q) <= JoinTol * JoinTol

WallIssues(walls) ==
    IF walls = <<>> THEN {Critical("WALL.NONE", "")}
    ELSE {Warning("WALL.DUP_ID", id) : id \in Repeated(walls)} \cup
      UNION {LET w     == walls[i]
                 thick == Get(w.dims, "thickness")
                 line  == Indexed(walls, w.id).line
             IN  When(thick <= 0, Critical("WALL.NO_THICKNESS", w.id))
                 \cup When(thick > 0 /\ ~Within(thick, WallThickness),
                           Warning("WALL.THICKNESS_RANGE", w.id))
                 \cup When(Get(w.dims, "height") <= 0,
                           Critical("WALL.NO_HEIGHT", w.id))
                 \cup When(line = <<>>, Critical("WALL.BAD_POINTS", w.id))
                 \cup When(line # <<>> /\ TotalLength(line) < 1,
                           Critical("WALL.ZERO_LENGTH", w.id))
                 \cup When(line # <<>> /\ Len(walls) > 1 /\ ~Joins(walls, w.id),
                           Warning("WALL.FLOATING", w.id)) :
             i \in DOMAIN walls}

\* The segment whose line, drawn without end, runs closest to the opening.
SegmentUnder(at, line) ==
    LET beside(i) == Beside(at, Segments(line)[i])
    IN  Segments(line)[Nearest(DOMAIN Segments(line), beside)]

PlacementIssues(kind, row, line) ==
    LET s      == SegmentUnder(row.at, line)
        width  == Get(row.dims, "width")
        off    == Beside(row.at, s) > OnWallTol
        beyond == \/ 100 * Along(row.at, s) < -2 * Length(s)
                  \/ 100 * Along(row.at, s) > 102 * Length(s)
    IN  IF Len(line) < 2 THEN {Warning(kind \o ".NO_PLACEMENT", row.id)}
        ELSE When(off, Critical(kind \o ".OFF_WALL", row.id))
             \cup When(~off /\ beyond, Critical(kind \o ".PAST_END", row.id))
             \cup When(~off /\ ~beyond /\ Length(s) > 0 /\ width > Length(s),
                       Warning(kind \o ".WIDER_THAN_WALL", row.id))

OpeningIssues(kind, rows, walls) ==
    {Warning(kind \o ".DUP_ID", id) : id \in Repeated(rows)} \cup
    UNION {LET row   == rows[i]
               width == Get(row.dims, "width")
               known == \E j \in DOMAIN walls : walls[j].id = row.host
           IN  When(width <= 0, Critical(kind \o ".NO_WIDTH", row.id))
               \cup When(width > 0 /\ ~Within(width, WidthRange[kind]),
                         Warning(kind \o ".WIDTH_RANGE", row.id))
               \cup When(Get(row.dims, "height") <= 0,
                         Critical(kind \o ".NO_HEIGHT", row.id))
               \cup When(row.host = "none", Critical(kind \o ".NO_HOST", row.id))
               \cup When(row.host # "none" /\ ~known,
                         Critical(kind \o ".HOST_MISSING", row.id))
               \cup (IF known
                     THEN PlacementIssues(kind, row, Indexed(walls, row.host).line)
                     ELSE {}) :
           i \in DOMAIN rows}

RoomIssues(rooms) ==
    {Warning("ROOM.DUP_ID", id) : id \in Repeated(rooms)} \cup
    When(rooms = <<>>, Warning("ROOM.NONE", "")) \cup
    UNION {LET room == rooms[i]
               area == IF room.area > 0 THEN room.area ELSE Area(room.polygon)
           IN  IF Len(room.polygon) < 3
               THEN {Critical("ROOM.DEGENERATE", room.id)}
               ELSE When(~Closed(room.polygon),
                         Warning("ROOM.NOT_CLOSED", room.id))
                    \cup When(area <= 0, Critical("ROOM.ZERO_AREA", room.id))
                    \cup When(area > 0 /\ ~Within(area, RoomArea),
                              Warning("ROOM.AREA_RANGE", room.id))
                    \cup When(room.needs_review
                                \/ room.category \in {"", "Unknown", "unknown"},
                              Warning("ROOM.UNTYPED", room.id)) :
           i \in DOMAIN rooms}

ValidateBim(bim) ==
    When(bim.units # "millimeters", Warning("UNITS", ""))
    \cup WallIssues(bim.walls)
    \cup OpeningIssues("Door", bim.doors, bim.walls)
    \cup OpeningIssues("Window", bim.windows, bim.walls)
    \cup RoomIssues(bim.rooms)
=============================================================================
