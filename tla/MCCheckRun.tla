------------------------------ MODULE MCCheckRun ------------------------------
(***************************************************************************)
(* Instances of CheckRun: one small building, given as an IFC file or as a *)
(* payload in one of several units, with at most one defect.               *)
(***************************************************************************)
EXTENDS CheckRun

Id(name) == <<name>>
Box(x, y) == <<<<x, 0>>, <<y, 0>>, <<y, 4000>>, <<x, 4000>>, <<x, 0>>>>

RowOf(kind, tag, name) ==
    [Blank EXCEPT !.kind = kind, !.tag = tag, !.sid = Id(name), !.storey = Id("S1")]

Storey == [RowOf("storey", 1, "S1") EXCEPT !.name = "Ground", !.level = 0]
Outer  == [RowOf("wall", 2, "W1") EXCEPT !.start = <<0, 0>>, !.end = <<6000, 0>>,
              !.thickness = 1000, !.height = 3000, !.exterior = TRUE]
Inner  == [RowOf("wall", 3, "W2") EXCEPT !.start = <<3000, 0>>, !.end = <<3000, 4000>>,
              !.thickness = 1000, !.height = 3000]
Entry  == [RowOf("door", 4, "D1") EXCEPT !.at = <<3000, 2000>>, !.host = Id("W2"),
              !.width = 1000, !.height = 2000, !.offset = 2000]
Light  == [RowOf("window", 5, "O1") EXCEPT !.at = <<1000, 0>>, !.host = Id("W1"),
              !.width = 1000, !.height = 1000, !.sill = 1000, !.exterior = TRUE]
Bed    == [RowOf("room", 6, "R1") EXCEPT !.name = "North", !.polygon = Box(0, 3000),
              !.area = 1200, !.label = "canonical"]
Cook   == [RowOf("room", 7, "R2") EXCEPT !.name = "Kitchen", !.polygon = Box(3000, 6000),
              !.area = 1200, !.label = "none"]
Steps  == [RowOf("stair", 8, "T1") EXCEPT !.at = <<5000, 1000>>]

Payload ==
    [source |-> "bim_data", rows |-> <<Storey, Outer, Inner, Entry, Light, Bed, Cook, Steps>>,
     units |-> [length |-> "mm", area |-> "m2"],
     contract |-> [kept |-> FALSE, declared |-> TRUE, input |-> Undeclared],
     params |-> [value |-> Missing, provided |-> FALSE, marked |-> FALSE],
     contractBroken |-> FALSE, scaleConf |-> Missing, level |-> Missing,
     regions |-> Nothing, mode |-> "full_check",
     manual |-> [ok |-> TRUE, lost |-> 0, door |-> Missing]]

In(class, guid, under) == [class |-> class, guid |-> Id(guid), under |-> under]
Tree == <<In("IfcProject", "gP", <<>>), In("IfcSite", "gL", <<"IfcProject">>),
          In("IfcBuilding", "gB", <<"IfcSite">>),
          In("IfcBuildingStorey", "gS1", <<"IfcBuilding">>)>>

\* In the file everything has a GlobalId, and only some a detector's id.
WithGuid(row) ==
    [row EXCEPT !.guid = Id("g" \o row.sid[1]),
                !.sid = IF row.kind \in {"storey", "stair"} THEN Nothing ELSE @,
                !.offset = Missing]
File ==
    [k \in {"readable", "version", "spatial", "incomplete", "unit"} |->
       CASE k = "readable" -> TRUE [] k = "version" -> "IFC4" [] k = "spatial" -> Tree
         [] k = "incomplete" -> Nothing [] OTHER -> "MILLIMETRE"]
    @@ [Payload EXCEPT !.source = "ifc",
            !.rows = [i \in DOMAIN Payload.rows |->
                [WithGuid(Payload.rows[i]) EXCEPT !.storey = Id("gS1")]]]

-------------------------------------------------------------------------------
Row4(b, door) == [b EXCEPT !.rows[4] = door]
Row5(b, window) == [b EXCEPT !.rows[5] = window]
Row6(b, room) == [b EXCEPT !.rows[6] = room]

\* What may be wrong with a building, whichever way it is given.
Openings(b) ==
    {Row4(b, [b.rows[4] EXCEPT !.host = Nothing]),
     Row4(b, [b.rows[4] EXCEPT !.host = Id("W9")]),
     Row4(b, [b.rows[4] EXCEPT !.at = Nothing]),
     Row4(b, [b.rows[4] EXCEPT !.at = <<5000, 2000>>]),
     Row4(b, [b.rows[4] EXCEPT !.width = 9000]),
     Row4(b, [b.rows[4] EXCEPT !.width = Missing]),
     Row4(b, [b.rows[4] EXCEPT !.at = <<3000, 0>>, !.offset = Missing]),
     Row4(b, [b.rows[4] EXCEPT !.at = <<3000, 500>>, !.offset = 0, !.convention = "start"]),
     Row4(b, [b.rows[4] EXCEPT !.height = 4000]),
     Row4([b EXCEPT !.manual.door = 2000], [b.rows[4] EXCEPT !.height = Missing]),
     Row4(b, [b.rows[4] EXCEPT !.joins = <<Id("R1")>>]),
     Row4(b, [b.rows[4] EXCEPT !.joins = <<Id("R9"), Id("R1")>>]),
     Row5(b, [b.rows[5] EXCEPT !.sill = 2500]),
     Row5(b, [b.rows[5] EXCEPT !.at = <<3000, 3000>>, !.host = b.rows[4].host,
                               !.offset = 3000, !.exterior = FALSE]),
     [b EXCEPT !.rows = Append(@, [b.rows[5] EXCEPT
          !.tag = 9, !.sid = Id("O2"), !.guid = IF @ = Nothing THEN @ ELSE Id("gO2"),
          !.at = <<1500, 0>>])],
     [b EXCEPT !.rows[3].end = b.rows[3].start],
     [b EXCEPT !.rows[2].height = Missing, !.rows[3].thickness = Missing]}

Rooms(b) ==
    {Row6(b, [b.rows[6] EXCEPT !.name = "none"]),
     Row6(b, [b.rows[6] EXCEPT !.label = "alias"]),
     Row6(b, [b.rows[6] EXCEPT !.label = "unknown"]),
     Row6(b, [b.rows[6] EXCEPT !.label = "unknown", !.needs = TRUE, !.reason = "category"]),
     Row6(b, [b.rows[6] EXCEPT !.area = 900]),
     Row6(b, [b.rows[6] EXCEPT !.area = Missing]),
     Row6(b, [b.rows[6] EXCEPT !.polygon = Nothing]),
     Row6(b, [b.rows[6] EXCEPT !.polygon = Front(@)]),
     Row6(b, [b.rows[6] EXCEPT !.polygon =
        <<<<0, 0>>, <<3000, 4000>>, <<3000, 0>>, <<0, 4000>>, <<0, 0>>>>]),
     Row6(b, [b.rows[6] EXCEPT !.polygon = Box(0, 4000), !.area = 1600]),
     Row6(b, [b.rows[6] EXCEPT !.misfits = 3]),
     [b EXCEPT !.rows = SubSeq(@, 1, 5)],
     [b EXCEPT !.regions = <<[id |-> Id("P1"), polygon |-> Box(7000, 8000)],
                             [id |-> Id("P2"), polygon |-> Box(0, 3000)]>>]}

Doubts(b) ==
    {[b EXCEPT !.rows[2].needs = TRUE, !.rows[2].reason = "other"],
     [b EXCEPT !.rows[4].conf = 40], [b EXCEPT !.rows[8].conf = 10],
     [b EXCEPT !.scaleConf = 30],
     [b EXCEPT !.scaleConf = 30, !.rows[4].conf = 40],
     [b EXCEPT !.scaleConf = 30, !.rows[2].needs = TRUE],
     [b EXCEPT !.scaleConf = 30, !.rows[6].label = "unknown",
               !.rows[6].needs = TRUE, !.rows[6].reason = "category"],
     [b EXCEPT !.rows[6].needs = TRUE, !.rows[6].reason = "category"],
     [b EXCEPT !.scaleConf = 80]}

Names(b) ==
    {[b EXCEPT !.rows[4].sid = Id("W1")], [b EXCEPT !.rows[3].sid = Id("W1")],
     [b EXCEPT !.rows[6].sid = Id("D1"), !.rows[6].conf = 40],
     [b EXCEPT !.rows[5].storey = Nothing], [b EXCEPT !.rows[5].storey = Id("S9")],
     [b EXCEPT !.rows[1].level = Missing, !.level = 300],
     [b EXCEPT !.rows = Append(@, [b.rows[1] EXCEPT
          !.tag = 9, !.sid = Id("S2"), !.guid = IF @ = Nothing THEN @ ELSE Id("gS2"),
          !.level = 3000])],
     [b EXCEPT !.rows = Tail(@)], [b EXCEPT !.level = 300],
     [b EXCEPT !.mode = "precheck"], [b EXCEPT !.manual.lost = 2],
     [b EXCEPT !.manual.ok = FALSE]}

Defects(b) == {b} \cup Openings(b) \cup Rooms(b) \cup Doubts(b) \cup Names(b)

\* What may be wrong only with a file, or only with a payload.
BadFiles ==
    {[File EXCEPT !.readable = FALSE], [File EXCEPT !.version = "IFC2X3"],
     [File EXCEPT !.spatial = Append(@, In("IfcProject", "gP2", <<>>))],
     [File EXCEPT !.spatial = <<@[1], @[3], @[4]>>],
     [File EXCEPT !.spatial = SubSeq(@, 1, 3)],
     [File EXCEPT !.spatial[4].under = <<"IfcSite">>],
     [File EXCEPT !.rows[6].guid = Nothing, !.rows[5].guid = Nothing],
     [File EXCEPT !.rows[8].guid = Nothing],
     [File EXCEPT !.rows[5].guid = Id("gD1")], [File EXCEPT !.incomplete = <<Id("gW1")>>],
     [File EXCEPT !.rows = <<@[1], @[8]>>], [File EXCEPT !.rows[4].sid = Nothing],
     [File EXCEPT !.contractBroken = TRUE],
     [File EXCEPT !.params.value = 3000], [File EXCEPT !.unit = "FOOT"]}

BadPayloads ==
    {[Payload EXCEPT !.rows[2].sid = Nothing], [Payload EXCEPT !.rows[8].sid = Nothing],
     [Payload EXCEPT !.rows[4].guid = Id("gD1"), !.rows[5].guid = Id("gO1")],
     [Payload EXCEPT !.rows[4].guid = Id("gD1"), !.rows[5].guid = Id("gD1")],
     [Payload EXCEPT !.params.value = 3000], [Payload EXCEPT !.rows = Nothing],
     [Payload EXCEPT !.units = Undeclared], [Payload EXCEPT !.units.length = "ft"],
     [Payload EXCEPT !.units.area = "ha"], [Payload EXCEPT !.rows[6].needs = TRUE]}

\* The same building in another unit.
Less(n, k) == IF n = Missing THEN n ELSE n \div k
LessPoint(p, k) == [i \in DOMAIN p |-> p[i] \div k]
LessLine(line, k) == [i \in DOMAIN line |-> LessPoint(line[i], k)]
InUnit(b, k) ==
    [b EXCEPT !.rows = [i \in DOMAIN b.rows |->
       [b.rows[i] EXCEPT !.at = LessPoint(@, k), !.start = LessPoint(@, k),
            !.end = LessPoint(@, k), !.polygon = LessLine(@, k),
            !.thickness = Less(@, k), !.height = Less(@, k), !.width = Less(@, k),
            !.sill = Less(@, k), !.level = Less(@, k), !.offset = Missing]]]

OtherUnits ==
    UNION {{[InUnit(b, 1000) EXCEPT !.units.length = "m"],
            [InUnit(b, 10) EXCEPT !.units.length = "cm"],
            [InUnit(b, 10) EXCEPT !.units = Undeclared]} :
              b \in {Payload, [Payload EXCEPT !.rows[2].thickness = Missing]}}
    \cup
    UNION {{[InUnit(b, 1000) EXCEPT !.unit = "METRE"],
            [InUnit(b, 10) EXCEPT !.unit = "CENTIMETRE"]} :
              b \in {File, [File EXCEPT !.rows[2].thickness = Missing]}}

MCInputs == Defects(Payload) \cup Defects(File) \cup BadFiles \cup BadPayloads \cup OtherUnits

MCClauses ==
    <<[id |-> "door_width", kind |-> "door", field |-> "width", least |-> 900],
      [id |-> "window_sill", kind |-> "window", field |-> "sill", least |-> 2000],
      [id |-> "wall_height", kind |-> "wall", field |-> "height", least |-> 2400],
      [id |-> "daylight", kind |-> "judgement", field |-> "width", least |-> 0]>>
=============================================================================
