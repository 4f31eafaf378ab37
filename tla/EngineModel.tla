----------------------------- MODULE EngineModel -----------------------------
(***************************************************************************)
(* The building model of the compliance engine: identities                 *)
(* (domain/identifiers.py), the reader of IFC files                        *)
(* (ingest/ifc_to_bim_data.py) and the adapter between the rows of bim_data *)
(* and the model (validation/compliance/adapter.py).                       *)
(*                                                                         *)
(* A row is a record with the fields of Blank.  A length or an elevation   *)
(* that is not there is Missing, a point or an id that is not there is     *)
(* Nothing.  Ids are sequences of strings, so that the uuid5 of a name is   *)
(* the name itself.  Areas are in hundredths of a square metre.            *)
(***************************************************************************)
EXTENDS PlanGeometry, SequencesExt

Missing == -1
Nothing == <<>>

Collections == <<"storey", "wall", "door", "window", "room", "stair", "slab">>

\* A row with no field set.  tag tells the objects of a model apart; conf,
\* needs and reason are its provenance, proven says that it came with one.
Blank ==
    [kind |-> "none", tag |-> 0, guid |-> Nothing, sid |-> Nothing,
     internal |-> Nothing, fallback |-> FALSE, storey |-> Nothing,
     name |-> "none",
     at |-> Nothing, start |-> Nothing, end |-> Nothing, polygon |-> Nothing,
     thickness |-> Missing, height |-> Missing, width |-> Missing,
     sill |-> Missing, level |-> Missing, area |-> Missing,
     host |-> Nothing, offset |-> Missing, convention |-> "center",
     centre |-> Missing, joins |-> Nothing, exterior |-> FALSE,
     approved |-> FALSE, label |-> "none", typeSource |-> "none",
     typeConf |-> Missing, misfits |-> 0,
     conf |-> 100, needs |-> FALSE, reason |-> "none", proven |-> FALSE]

-------------------------------------------------------------------------------
(* Identity: an internal id a row already has, or else one made of its IFC *)
(* GlobalId, its source id or, failing both, its place.                    *)
GeometryKey(row) ==
    <<"geometry", row.kind, ToString(row.storey),
      ToString(<<row.at, row.start, row.end>>)>>

Identified(row) ==
    LET unnamed == row.guid = Nothing /\ row.sid = Nothing
    IN  IF row.internal # Nothing THEN [row EXCEPT !.fallback = FALSE]
        ELSE [row EXCEPT
                !.internal = IF row.guid # Nothing THEN <<"guid">> \o row.guid
                             ELSE IF row.sid # Nothing THEN <<"source">> \o row.sid
                             ELSE GeometryKey(row),
                !.fallback = unnamed]

\* The id by which the agents know an element.
EngineId(row) ==
    IF row.sid # Nothing THEN row.sid
    ELSE IF row.guid # Nothing THEN row.guid ELSE row.internal

ElementAliases(row) == {row.internal, row.guid, row.sid} \ {Nothing}

\* A list made in one loop over another; Where is SelectSeq in this form, in
\* which the facts about FlattenSeq reach it.
If(condition, thing) == IF condition THEN <<thing>> ELSE <<>>
ForEach(rows, Things(_)) == FlattenSeq([i \in DOMAIN rows |-> Things(rows[i])])
Where(rows, Test(_)) == ForEach(rows, LAMBDA row : If(Test(row), row))

Of(rows, kind) == Where(rows, LAMBDA row : row.kind = kind)
OfAny(rows, kinds) == Where(rows, LAMBDA row : row.kind \in kinds)

\* An index by alias keeps the last element that has the alias ...
LastNamed(rows, id) ==
    LET named == {i \in DOMAIN rows : id \in ElementAliases(rows[i])}
    IN  IF named = {} THEN Blank ELSE rows[Max(named)]

\* ... or, where it may not guess, no element when several have it.
OnlyNamed(rows, id) ==
    LET named == {i \in DOMAIN rows : id \in ElementAliases(rows[i])}
    IN  IF Cardinality(named) = 1 THEN rows[Max(named)] ELSE Blank

-------------------------------------------------------------------------------
(* Units.  A payload that declares none is taken to be in mm and m2; one   *)
(* that declares a unit unknown here is left as it is.                     *)
LengthToMm == [mm |-> 1, cm |-> 10, m |-> 1000]
AreaToM2   == [m2 |-> 1, cm2 |-> 100, mm2 |-> 10000]   \* divisors

SupportedLengthUnit(u) == u \in DOMAIN LengthToMm
SupportedAreaUnit(u)   == u \in DOMAIN AreaToM2

Undeclared == [length |-> "none", area |-> "none"]
Declared(units) == units # Undeclared
OrDefault(u, default) == IF u = "none" THEN default ELSE u

Times(n, k) == IF n = Missing THEN Missing ELSE n * k
ScalePoint(p, k) == [i \in DOMAIN p |-> p[i] * k]
ScaleLine(line, k) == [i \in DOMAIN line |-> ScalePoint(line[i], k)]

\* Every length of a row, save the offsets of an opening along its wall.
ScaleRow(row, k) ==
    [row EXCEPT !.at = ScalePoint(@, k), !.start = ScalePoint(@, k),
                !.end = ScalePoint(@, k), !.polygon = ScaleLine(@, k),
                !.thickness = Times(@, k), !.height = Times(@, k),
                !.width = Times(@, k), !.sill = Times(@, k),
                !.level = Times(@, k)]

NormaliseUnits(data) ==
    LET length == OrDefault(data.units.length, "mm")
        area   == OrDefault(data.units.area, "m2")
        k == IF SupportedLengthUnit(length) THEN LengthToMm[length] ELSE 1
        d == IF SupportedAreaUnit(area) THEN AreaToM2[area] ELSE 1
        Normal(row) ==
            LET scaled == ScaleRow(row, k)
            IN  IF row.kind = "room" /\ row.area # Missing
                THEN [scaled EXCEPT !.area = @ \div d] ELSE scaled
    IN  [data EXCEPT
           !.rows = [i \in DOMAIN data.rows |-> Normal(data.rows[i])],
           !.units = [length |-> IF SupportedLengthUnit(length) THEN "mm" ELSE length,
                      area |-> IF SupportedAreaUnit(area) THEN "m2" ELSE area],
           !.params.value = Times(@, k),
           !.contract = IF data.contract.kept THEN data.contract
                        ELSE [kept |-> TRUE, declared |-> Declared(data.units),
                              input |-> data.units]]

-------------------------------------------------------------------------------
(* The adapter.  Where an opening sits along its wall is its centre.       *)
Placement(row) ==
    IF row.centre # Missing \/ row.offset = Missing THEN row.centre
    ELSE LET width == IF row.width = Missing THEN 0 ELSE row.width
         IN  CASE row.convention = "start" -> row.offset + width \div 2
               [] row.convention = "end"   -> row.offset - width \div 2
               [] OTHER                    -> row.offset

OpeningFromBimData(row) == [row EXCEPT !.centre = Placement(row)]

StoreyFromBimData(row) ==
    [row EXCEPT !.storey = IF row.storey = Nothing THEN row.sid ELSE row.storey]

RowFromBimData(row) ==
    LET known == Identified(row)
    IN  CASE row.kind \in {"door", "window"} -> OpeningFromBimData(known)
          [] row.kind = "storey"             -> StoreyFromBimData(known)
          [] OTHER                           -> known

BuildingModel(data) ==
    LET normal == NormaliseUnits(data)
    IN  [normal EXCEPT !.rows =
           [i \in DOMAIN normal.rows |-> RowFromBimData(normal.rows[i])]]

ToBimData_InputUnits(model) ==    \* mutant: with the units it came in
    [model EXCEPT !.units = IF model.contract.declared THEN model.contract.input ELSE @,
                  !.rows = [i \in DOMAIN model.rows |->
                     [model.rows[i] EXCEPT !.offset = Missing, !.fallback = FALSE]]]

\* What goes back into bim_data: the whole identity of every element, and of
\* the place of an opening only its centre.
ToBimData(model) ==
    [model EXCEPT !.rows =
       [i \in DOMAIN model.rows |->
          [model.rows[i] EXCEPT !.offset = Missing, !.convention = "center",
                                !.fallback = FALSE]]]

\* identity_index_from_bim_data, enrich_findings_with_engine_identity: an
\* agent's finding gets the identity of the last row with the id it names.
Enrich(finding, rows) ==
    LET row == LastNamed(rows, finding.id)
    IN  IF row = Blank THEN finding
        ELSE [finding EXCEPT !.internal = row.internal, !.guid = row.guid]

-------------------------------------------------------------------------------
(* Reading an IFC file.  Only SI prefixes are understood; a file in feet   *)
(* is read as one in millimetres.                                          *)
SiToMm == [METRE |-> 1000, DECIMETRE |-> 100, CENTIMETRE |-> 10, MILLIMETRE |-> 1]
LengthToMmFactor(unit) == IF unit \in DOMAIN SiToMm THEN SiToMm[unit] ELSE 1

OrElse(n, default) == IF n = Missing THEN default ELSE n

\* A wall without thickness or height gets one, in the unit of the file; one
\* without a placement starts at the origin.
ReadWall(row) ==
    LET start == IF row.start = Nothing THEN <<0, 0>> ELSE row.start
    IN  [row EXCEPT !.thickness = OrElse(@, 200), !.height = OrElse(@, 2800),
                    !.start = start, !.end = IF @ = Nothing THEN start ELSE @]

\* An opening is bound to the wall it voids, by the id the wall will have; one
\* without a size has size 0, and one outside every storey that of its wall.
ReadOpening(row, walls) ==
    LET voided == LastNamed(walls, row.host)
        host   == IF voided = Blank THEN Nothing ELSE EngineId(voided)
    IN  [row EXCEPT !.width = OrElse(@, 0), !.height = OrElse(@, 0),
                    !.at = IF @ = Nothing THEN <<0, 0>> ELSE @,
                    !.sill = IF row.kind = "window" THEN OrElse(@, 0) ELSE Missing,
                    !.host = host,
                    !.storey = IF @ = Nothing THEN LastNamed(walls, host).storey ELSE @]

AreaOrNone(area) == IF area > 0 THEN area ELSE Missing

\* The outline of a space is closed, and an area of 0 is no area.
ReadSpace(row) ==
    [row EXCEPT !.area = AreaOrNone(@),
                !.polygon = IF @ = Nothing \/ Closed(@) THEN @ ELSE Append(@, Head(@)),
                !.name = IF @ = "none" THEN "Room" ELSE @,
                !.label = IF @ = "none" THEN "Unknown" ELSE @]

ReadStorey(row) == [row EXCEPT !.level = OrElse(@, 0), !.storey = EngineId(row)]

ReadKind(row, walls) ==
    CASE row.kind = "wall"               -> ReadWall(row)
      [] row.kind \in {"door", "window"} -> ReadOpening(row, walls)
      [] row.kind = "room"               -> ReadSpace(row)
      [] row.kind = "storey"             -> ReadStorey(row)
      [] OTHER                           -> row

ReadRow(row, walls) == [ReadKind(row, walls) EXCEPT !.proven = TRUE]

\* The storey a row is contained in, by the id the storey will have.
InStorey(row, rows) ==
    LET storey == LastNamed(Of(rows, "storey"), row.storey)
    IN  IF storey = Blank THEN row ELSE [row EXCEPT !.storey = EngineId(storey)]

\* The parameters of Pset_SimsysContract, or none when it cannot be read.
ReadContract(file) ==
    IF file.contractBroken THEN [value |-> Missing, provided |-> FALSE, marked |-> FALSE]
    ELSE [file.params EXCEPT !.marked = TRUE]

ReadIfc(file) ==
    LET f      == LengthToMmFactor(file.unit)
        placed == [i \in DOMAIN file.rows |-> InStorey(file.rows[i], file.rows)]
        walls  == Of(placed, "wall")
    IN  [source |-> "ifc",
         rows |-> [i \in DOMAIN placed |-> ScaleRow(ReadRow(placed[i], walls), f)],
         units |-> [length |-> "mm", area |-> "m2"],
         contract |-> [kept |-> FALSE, declared |-> TRUE, input |-> Undeclared],
         params |-> ReadContract(file), contractBroken |-> file.contractBroken,
         scaleConf |-> file.scaleConf, level |-> 0, regions |-> Nothing]
=============================================================================
