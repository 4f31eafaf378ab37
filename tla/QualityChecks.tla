---------------------------- MODULE QualityChecks ----------------------------
(***************************************************************************)
(* The quality plugins of the engine (validation/quality/checks).  Each is *)
(* an operator from a model and the summary of the confidence review to    *)
(* the sequence of its findings.                                           *)
(***************************************************************************)
EXTENDS EngineModel

Finding(stage, code, severity, verdict) ==
    [stage |-> stage, code |-> code, severity |-> severity, verdict |-> verdict,
     clause |-> "none", id |-> Nothing, internal |-> Nothing, guid |-> Nothing,
     ordinal |-> 0, about |-> 0, measured |-> Missing]

\* quality_finding: about the whole model, or about one element of it.
Alert(code) == Finding("quality", code, "alert", "NOT_EVALUATED")
Fail(code)  == Finding("quality", code, "fail", "NOT_EVALUATED")
On(finding, row) ==
    [finding EXCEPT !.id = EngineId(row), !.internal = row.internal,
                    !.guid = row.guid, !.about = row.tag]
OnId(finding, id) == [finding EXCEPT !.id = id, !.internal = id]

-------------------------------------------------------------------------------
(* Polygons.                                                               *)
Ring(polygon) == IF Closed(polygon) THEN Front(polygon) ELSE polygon

Turn(a, b, c) == (b[1]-a[1]) * (c[2]-a[2]) - (b[2]-a[2]) * (c[1]-a[1])
Opposite(m, n) == (m > 0 /\ n < 0) \/ (m < 0 /\ n > 0)
Cross(s, t) == /\ Opposite(Turn(s[1], s[2], t[1]), Turn(s[1], s[2], t[2]))
               /\ Opposite(Turn(t[1], t[2], s[1]), Turn(t[1], t[2], s[2]))

\* validation_errors finds nothing.
Sound(polygon) ==
    /\ Closed(polygon)
    /\ Cardinality(ToSet(Ring(polygon))) >= 3
    /\ Area(polygon) > 0
    /\ \A i, j \in DOMAIN Segments(polygon) :
          ~Cross(Segments(polygon)[i], Segments(polygon)[j])

Mean(numbers) == FoldLeft(LAMBDA a, b : a + b, 0, numbers) \div Len(numbers)
Centroid(polygon) ==
    LET ring == Ring(polygon)
    IN  <<Mean([i \in DOMAIN ring |-> ring[i][1]]),
          Mean([i \in DOMAIN ring |-> ring[i][2]])>>

DistanceToBoundary(p, polygon) ==
    Min({SegmentDistance(p, Segments(polygon)[i]) : i \in DOMAIN Segments(polygon)})

Common(s, t) == Max({0, Min({Max(s), Max(t)}) - Max({Min(s), Min(t)})})
OverlapMm2(p, q) == Common(Xs(p), Xs(q)) * Common(Ys(p), Ys(q))

-------------------------------------------------------------------------------
(* Which spaces an opening connects: those it names, else those at whose   *)
(* outline it lies.                                                        *)
ConnectivityTol == 75

Explicit(m, opening) ==
    {OnlyNamed(Of(m.rows, "room"), opening.joins[i]).tag : i \in DOMAIN opening.joins} \ {0}
Unresolved(m, opening) ==
    \E i \in DOMAIN opening.joins :
        OnlyNamed(Of(m.rows, "room"), opening.joins[i]) = Blank
Derived(m, opening) ==
    IF opening.at = Nothing THEN {}
    ELSE {room.tag : room \in {r \in ToSet(Of(m.rows, "room")) :
            Sound(r.polygon) /\ DistanceToBoundary(opening.at, r.polygon) <= ConnectivityTol}}
Effective(m, opening) ==
    IF Explicit(m, opening) # {} THEN Explicit(m, opening) ELSE Derived(m, opening)

-------------------------------------------------------------------------------
ContractRead(m, review) == If(m.contractBroken, Alert("QC-CONTRACT-001"))

IdentityIntegrity(m, review) ==
    ForEach(m.rows, LAMBDA row : If(row.fallback, On(Alert("QC-IDENT-001"), row)))

Threshold == 50
AreaTol(area) == Max({10, area \div 50})

TagFindings(room) ==
    If(room.typeSource = "unmapped", On(Alert("QC-SPACE-TAG-001"), room)) \o
    If(room.typeSource # "unmapped" /\ room.typeConf < Threshold,
       On(Alert("QC-SPACE-TAG-002"), room))

SpaceFindings(m, room) ==
    LET storeys == Of(m.rows, "storey")
    IN  If(m.source = "ifc" /\ room.guid = Nothing, On(Fail("QC-SPACE-002"), room))
        \o If(room.name = "none", On(Alert("QC-SPACE-003"), room))
        \o TagFindings(room)
        \o If(room.area <= 0, On(Alert("QC-SPACE-004"), room))
        \o If(room.polygon = Nothing, On(Fail("QC-SPACE-005"), room))
        \o If(room.polygon # Nothing /\ ~Sound(room.polygon),
              On(Fail("QC-SPACE-006"), room))
        \o If(/\ room.polygon # Nothing /\ Sound(room.polygon) /\ room.area > 0
              /\ Size(Area(room.polygon) - room.area) > AreaTol(room.area),
              On(Alert("QC-SPACE-004"), room))
        \o If(\A i \in DOMAIN storeys : room.storey \notin ElementAliases(storeys[i]),
              On(Alert("QC-SPACE-007"), room))

Tagged(m, region) ==
    \E room \in ToSet(Of(m.rows, "room")) :
        /\ Sound(room.polygon)
        /\ \/ InBox(Centroid(region.polygon), room.polygon)
           \/ OverlapMm2(region.polygon, room.polygon) \div 9000 >= Area(region.polygon)

DoorConnects(m, door) ==
    LET host == LastNamed(Of(m.rows, "wall"), door.host)
        n    == Cardinality(Effective(m, door))
    IN  ~Unresolved(m, door) /\ (n = 2 \/ (n = 1 /\ host.exterior))

RoomOverlaps(m) ==
    LET rooms == Where(Of(m.rows, "room"), LAMBDA room : Sound(room.polygon))
        With(i, j) == If(i < j /\ OverlapMm2(rooms[i].polygon, rooms[j].polygon) > 10000,
                         On(Alert("QC-SPACE-010"), rooms[i]))
    IN  FlattenSeq([i \in DOMAIN rooms |->
            FlattenSeq([j \in DOMAIN rooms |-> With(i, j)])])

SpaceTagging(m, review) ==
    If(Of(m.rows, "room") = <<>> /\ Of(m.rows, "wall") # <<>>, Fail("QC-SPACE-001"))
    \o ForEach(Of(m.rows, "room"), LAMBDA room : SpaceFindings(m, room))
    \o ForEach(m.regions, LAMBDA region :
         If(Sound(region.polygon) /\ ~Tagged(m, region),
            OnId(Alert("QC-SPACE-008"), region.id)))
    \o ForEach(Of(m.rows, "door"), LAMBDA door :
         If(~DoorConnects(m, door), On(Alert("QC-SPACE-009"), door)))
    \o RoomOverlaps(m)

-------------------------------------------------------------------------------
(* What an element must say of itself.                                     *)
Required ==
    [wall   |-> <<<<"thickness", 1>>, <<"height", 1>>>>,
     door   |-> <<<<"width", 1>>, <<"height", 1>>>>,
     window |-> <<<<"width", 1>>, <<"height", 1>>, <<"sill", 0>>>>,
     room   |-> <<<<"area", 1>>>>]

PropertyFindings(row) ==
    LET needed == Required[row.kind]
    IN  If(row.kind = "room" /\ row.label = "none", On(Alert("QC-PROP-001"), row))
        \o FlattenSeq([i \in DOMAIN needed |->
             If(row[needed[i][1]] < needed[i][2], On(Alert("QC-PROP-001"), row))])
        \o [i \in 1..row.misfits |-> On(Alert("QC-PROP-002"), row)]

RequiredProperties(m, review) ==
    ForEach(Of(m.rows, "wall") \o Of(m.rows, "door") \o Of(m.rows, "window")
                \o Of(m.rows, "room"), PropertyFindings)

Walled(m) == OfAny(m.rows, {"wall", "door", "window", "room"}) # <<>>

\* An undeclared unit is an assumption, an unknown one an error.
UnitConsistency(m, review) ==
    LET said == IF Declared(m.contract.input) THEN m.contract.input ELSE m.units
        unknown == \/ said.length # "none" /\ ~SupportedLengthUnit(said.length)
                   \/ said.area # "none" /\ ~SupportedAreaUnit(said.area)
    IN  If(Walled(m) /\ ~m.contract.declared, Alert("QC-UNIT-001"))
        \o If(Walled(m) /\ unknown, Fail("QC-UNIT-002"))

StoreyAliases(m) ==
    UNION {ElementAliases(storey) : storey \in ToSet(Of(m.rows, "storey"))}

LevelsOf(m, name) ==
    {storey.level : storey \in {s \in ToSet(Of(m.rows, "storey")) :
                                   s.name = name /\ s.level # Missing}}

StoreyConsistency(m, review) ==
    LET storeys == Of(m.rows, "storey")
        names   == {s.name : s \in ToSet(storeys)} \ {"none"}
        clashes == {name \in names : Cardinality(LevelsOf(m, name)) > 1}
        others  == Of(m.rows, "wall") \o Of(m.rows, "door") \o Of(m.rows, "window")
                       \o Of(m.rows, "stair") \o Of(m.rows, "slab")
    IN  IF m.rows = <<>> THEN <<>>
        ELSE (IF storeys = <<>> THEN <<Alert("QC-STOREY-001")>>
              ELSE ForEach(others, LAMBDA row :
                      If(row.storey = Nothing, On(Alert("QC-STOREY-001"), row)) \o
                      If(row.storey \notin StoreyAliases(m) \cup {Nothing},
                         On(Alert("QC-STOREY-002"), row))))
             \o [i \in 1..Cardinality(clashes) |-> Alert("QC-STOREY-003")]
             \o If(/\ Len(storeys) = 1 /\ m.level # Missing
                   /\ storeys[1].level # Missing /\ Size(m.level - storeys[1].level) > 1,
                   On(Alert("QC-STOREY-003"), Head(storeys)))

-------------------------------------------------------------------------------
(* The confidence review.  review.flagged names every doubted element by    *)
(* its engine id, review.low says that the scale of the plan is doubted.    *)
SpaceTagIds(m) ==
    UNION {{EngineId(room)} \cup {room.internal, room.guid} :
              room \in {r \in ToSet(Of(m.rows, "room")) : TagFindings(r) # <<>>}}

ToldElsewhere_AnyReason(m, review, flag) ==    \* mutant: whatever the reason
    review.low \/ flag.id \in SpaceTagIds(m)

ToldElsewhere(m, review, flag) ==
    \/ review.low /\ flag.reason = "scale"
    \/ flag.id \in SpaceTagIds(m) /\ flag.reason = "category"

ElementConfidence(m, review) ==
    LET Told(flag) == LET row == OnlyNamed(m.rows, flag.id)
                      IN  IF row = Blank THEN OnId(Alert("QC-ELEM-CONF-001"), flag.id)
                          ELSE On(Alert("QC-ELEM-CONF-001"), row)
    IN  ForEach(review.flagged, LAMBDA flag :
            If(~ToldElsewhere(m, review, flag), Told(flag)))

ScaleConfidence(m, review) == If(review.low, Alert("QC-SCALE-001"))

ManualParameters(m, review) ==
    If((m.params.value # Missing \/ m.params.marked) /\ ~m.params.provided,
       Alert("QC-PARAM-001"))

-------------------------------------------------------------------------------
(* Openings in their walls.                                                *)
LenTol == 10
Axis(wall) == <<wall.start, wall.end>>
Drawn(wall) == wall.start # Nothing /\ wall.end # Nothing /\ wall.start # wall.end
HostOf(m, opening) == LastNamed(Of(m.rows, "wall"), opening.host)

\* Where along its wall an opening has its middle.
Middle(opening, wall) ==
    IF opening.centre # Missing THEN opening.centre ELSE Along(opening.at, Axis(wall))
Half(opening) == opening.width \div 2

PastTheEnd(opening, wall) ==
    \/ Middle(opening, wall) - Half(opening) < -LenTol
    \/ Middle(opening, wall) + Half(opening) > Length(Axis(wall)) + LenTol

OnWall(opening, wall) ==
    IF opening.at = Nothing THEN <<On(Alert("QC-PLACE-008"), opening)>>
    ELSE IF ~Drawn(wall) THEN <<>>
    ELSE If(2 * SegmentDistance(opening.at, Axis(wall)) > Max({0, wall.thickness}) + 100,
            On(Alert("QC-PLACE-004"), opening))
         \o If(opening.width > 0 /\ PastTheEnd(opening, wall),
               On(Alert("QC-PLACE-007"), opening))

BetweenRooms(m, opening) ==
    LET derived == Derived(m, opening)
    IN  If(/\ opening.kind = "window" /\ Cardinality(derived) >= 2
           /\ ~opening.exterior /\ ~opening.approved, On(Alert("QC-PLACE-009"), opening))
        \o If(/\ opening.kind = "door" /\ derived # {}
              /\ Explicit(m, opening) \notin {{}, derived}, On(Alert("QC-PLACE-010"), opening))

UnderTheWall(opening, wall) ==
    LET tall(top) == wall.height > 0 /\ opening.height # Missing /\ top > wall.height + LenTol
    IN  If(tall(opening.height), On(Alert("QC-PLACE-011"), opening))
        \o If(opening.kind = "window" /\ opening.sill # Missing
              /\ tall(opening.sill + opening.height), On(Alert("QC-PLACE-011"), opening))

PlaceFindings(m, opening) ==
    LET wall == HostOf(m, opening)
    IN  IF opening.host = Nothing THEN <<On(Alert("QC-PLACE-001"), opening)>>
        ELSE IF wall = Blank THEN <<On(Alert("QC-PLACE-002"), opening)>>
        ELSE (IF ~Drawn(wall) THEN <<On(Alert("QC-PLACE-008"), opening)>>
              ELSE If(opening.width > 0 /\ opening.width > Length(Axis(wall)) + LenTol,
                      On(Alert("QC-PLACE-003"), opening)))
             \o OnWall(opening, wall) \o BetweenRooms(m, opening)
             \o UnderTheWall(opening, wall)

\* The openings of a wall that have a span, in the order of their middles: doors
\* before windows where two have the same.
Spanned(m, wall) ==
    {i \in DOMAIN m.rows :
        LET o == m.rows[i]
        IN  /\ o.kind \in {"door", "window"} /\ o.width > 0 /\ o.at # Nothing
            /\ Drawn(wall) /\ HostOf(m, o).internal = wall.internal}

Ahead(m, wall, i, j) ==
    LET Place(n) == Middle(m.rows[n], wall)
        Second(n) == IF m.rows[n].kind = "door" THEN 0 ELSE 1
    IN  \/ Place(i) < Place(j)
        \/ Place(i) = Place(j) /\ Second(i) < Second(j)
        \/ Place(i) = Place(j) /\ Second(i) = Second(j) /\ i < j

\* Neighbours that overlap whatever end of an opening its place was taken from.
Colliding(m, wall) ==
    {p \in Spanned(m, wall) \X Spanned(m, wall) :
        LET first == m.rows[p[1]]  second == m.rows[p[2]]
        IN  /\ Ahead(m, wall, p[1], p[2])
            /\ ~\E k \in Spanned(m, wall) :
                  Ahead(m, wall, p[1], k) /\ Ahead(m, wall, k, p[2])
            /\ Min({first.width, second.width})
                  - (Middle(second, wall) - Middle(first, wall)) > LenTol}

Overlaps(m, wall) ==
    [n \in 1..Cardinality(Colliding(m, wall)) |-> On(Alert("QC-PLACE-006"), wall)]

WidthsOn(m, wall) ==
    MapThenSumSet(LAMBDA i : m.rows[i].width,
        {i \in DOMAIN m.rows :
            /\ m.rows[i].kind \in {"door", "window"} /\ m.rows[i].width > 0
            /\ m.rows[i].host # Nothing /\ HostOf(m, m.rows[i]).internal = wall.internal})

\* Walls that share an internal id are one wall here, the last.
HostWalls(m) ==
    Where(Of(m.rows, "wall"), LAMBDA wall :
        wall = LastNamed(Of(m.rows, "wall"), wall.internal))

OpeningPlacement(m, review) ==
    ForEach(Of(m.rows, "door") \o Of(m.rows, "window"),
            LAMBDA opening : PlaceFindings(m, opening))
    \o ForEach(HostWalls(m), LAMBDA wall : Overlaps(m, wall))
    \o ForEach(HostWalls(m), LAMBDA wall :
         If(/\ Drawn(wall) /\ WidthsOn(m, wall) > Length(Axis(wall)) + LenTol,
            On(Alert("QC-PLACE-005"), wall)))

-------------------------------------------------------------------------------
(* The registry, in the order in which the plugins run.                    *)
Registry ==
    <<"contract_read", "identity_integrity", "space_tagging", "required_properties",
      "unit_consistency", "storey_consistency", "element_confidence",
      "scale_confidence", "manual_parameters", "opening_placement">>

RunPlugin(name, m, review) ==
    CASE name = "contract_read"       -> ContractRead(m, review)
      [] name = "identity_integrity"  -> IdentityIntegrity(m, review)
      [] name = "space_tagging"       -> SpaceTagging(m, review)
      [] name = "required_properties" -> RequiredProperties(m, review)
      [] name = "unit_consistency"    -> UnitConsistency(m, review)
      [] name = "storey_consistency"  -> StoreyConsistency(m, review)
      [] name = "element_confidence"  -> ElementConfidence(m, review)
      [] name = "scale_confidence"    -> ScaleConfidence(m, review)
      [] name = "manual_parameters"   -> ManualParameters(m, review)
      [] OTHER                        -> OpeningPlacement(m, review)
=============================================================================
