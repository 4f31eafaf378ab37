---------------------------- MODULE PlanAnalysis ----------------------------
(***************************************************************************)
(* What POST /analyze makes of a plan, from the detections to the rows of  *)
(* bim_data: the scale and its evidence, snapped and classified walls,     *)
(* rooms and their names, the host wall of every opening, and              *)
(* services/bim_builder.py.  The detectors and the tracing of masks are    *)
(* not modelled: seen is what they found, in pixels.                       *)
(*                                                                         *)
(*   seen.image      <<width, height>>                                     *)
(*   seen.walls      [line, thickness, joints]: the junction at each end   *)
(*   seen.junctions  junction -> point                                     *)
(*   seen.doors      [at, width, swing]: how it opens, and how sure        *)
(*   seen.windows    [at, width]                                           *)
(*   seen.rooms      closed polygons                                       *)
(*   seen.texts      [at, category, name], empty when OCR failed           *)
(*   seen.stairs     closed polygons                                       *)
(* Confidences are per mille, areas hundredths of a square metre.          *)
(***************************************************************************)
EXTENDS ManualInputs, PlanGeometry

CONSTANT Vocabulary      \* label -> canonical room type

ASSUME VocabularyAssumption ==
    /\ "Unknown" \notin DOMAIN Vocabulary
    /\ "Room" \notin DOMAIN Vocabulary

-----------------------------------------------------------------------------
(* The scale: millimetres per pixel and what speaks for it.                *)

ScaleSources == [user_dimension |-> 980, recognized_scale_bar |-> 900,
                 recognized_dimension_text |-> 820, document_metadata |-> 650,
                 default_unverified |-> 150]
Measuring == {"user_dimension", "recognized_scale_bar",
              "recognized_dimension_text"}

UnverifiedScale(mmpp) ==
    [mmpp |-> mmpp, source |-> "default_unverified", evidence |-> <<>>]

\* How far a measurement is from the length the scale predicts for it: exactly,
\* and in thousandths for the confidence.
Paired(s) == {i \in DOMAIN s.evidence : s.evidence[i].px # Absent /\ s.evidence[i].mm # Absent}
Deviation(s, i) == Size(s.evidence[i].mm - s.mmpp * s.evidence[i].px)
Predicted(s, i) == s.mmpp * s.evidence[i].px
ScaleErrors(s) == {(1000 * Deviation(s, i)) \div Predicted(s, i) : i \in Paired(s)}

ScaleAccepted(s) ==
    /\ s.mmpp > 0 /\ s.mmpp <= 100
    /\ s.source \in DOMAIN ScaleSources
    /\ \A i, j \in DOMAIN s.evidence :
           s.evidence[i].id = s.evidence[j].id => i = j
    /\ \A i \in DOMAIN s.evidence : Within(s.evidence[i].score, <<0, 1000>>)
    /\ (s.source = "default_unverified") <=> (s.evidence = <<>>)
    /\ s.source \in Measuring => Paired(s) # {}
    /\ \A i \in Paired(s) : 100 * Deviation(s, i) <= 3 * Predicted(s, i)

ScaleConfidence(s) ==
    LET weakest == Min({1000} \cup {s.evidence[i].score : i \in DOMAIN s.evidence})
        factor  == Max({0, 1000 - 5 * Max({0} \cup ScaleErrors(s))})
    IN  (((ScaleSources[s.source] * weakest) \div 1000) * factor) \div 1000

AssessScale(s) == [mmpp |-> s.mmpp, source |-> s.source,
                   evidence |-> s.evidence, confidence |-> ScaleConfidence(s),
                   needs_review |-> ScaleConfidence(s) < 750]

-----------------------------------------------------------------------------
(* Walls.                                                                  *)

ToMm(p, mmpp) == <<p[1] * mmpp, p[2] * mmpp>>
LineToMm(line, mmpp) == [i \in DOMAIN line |-> ToMm(line[i], mmpp)]

Snapped(end, joint, seen, mmpp) ==
    IF joint \in DOMAIN seen.junctions
       /\ Dist2(end, ToMm(seen.junctions[joint], mmpp)) <= 50 * 50
    THEN ToMm(seen.junctions[joint], mmpp) ELSE end

WallParameters(seen, mmpp) ==
    [i \in DOMAIN seen.walls |->
        LET w    == seen.walls[i]
            line == LineToMm(w.line, mmpp)
            last == Len(line)
        IN  [id |-> "W" \o ToString(i), thickness |-> w.thickness * mmpp,
             line |-> [line EXCEPT
                 ![1]    = Snapped(@, w.joints[1], seen, mmpp),
                 ![last] = Snapped(@, w.joints[2], seen, mmpp)],
             joined |-> \E k \in {1, 2} : w.joints[k] \in DOMAIN seen.junctions,
             traced |-> line]]

\* Why a wall is taken for an outer wall; "unconnected" alone is weak.
BoundaryReasons(w, size) ==
    LET xs   == Xs(w.traced)
        ys   == Ys(w.traced)
        near == (IF 100 * Min(xs) <= 3 * size[1] THEN {"left"} ELSE {})
           \cup (IF 100 * Max(xs) >= 97 * size[1] THEN {"right"} ELSE {})
           \cup (IF 100 * Min(ys) <= 3 * size[2] THEN {"top"} ELSE {})
           \cup (IF 100 * Max(ys) >= 97 * size[2] THEN {"bottom"} ELSE {})
    IN  near
        \cup (IF near # {} /\ TotalLength(w.traced) > 150 THEN {"long"} ELSE {})
        \cup (IF near \cap {"left", "right"} # {}
                 /\ 10 * (Max(ys) - Min(ys)) > 3 * size[2]
              THEN {"spans_vertical"} ELSE {})
        \cup (IF near \cap {"top", "bottom"} # {}
                 /\ 10 * (Max(xs) - Min(xs)) > 3 * size[1]
              THEN {"spans_horizontal"} ELSE {})

ExteriorWalls(walls, size) ==
    LET strong(i) == BoundaryReasons(walls[i], size)
        outer == {i \in DOMAIN walls : strong(i) # {} \/ ~walls[i].joined}
        conf(i) == IF strong(i) = {} THEN 400
                   ELSE Min({1000, 550 + 150 * Cardinality(strong(i))})
    IN  [id \in {walls[i].id : i \in outer} |->
            LET i == CHOOSE j \in outer : walls[j].id = id
            IN  [conf |-> conf(i), needs_review |-> conf(i) < 600]]

-----------------------------------------------------------------------------
(* Rooms: artefacts are dropped, a text names the room it lies in (or the  *)
(* nearest one), and whatever is doubtful is marked for review.            *)

MatchName(polygon, texts) ==
    LET inside == {i \in DOMAIN texts : InBox(texts[i].at, polygon)}
        centre == <<(Min(Xs(polygon)) + Max(Xs(polygon))) \div 2,
                    (Min(Ys(polygon)) + Max(Ys(polygon))) \div 2>>
        far(i) == Dist2(texts[i].at, centre)
    IN  IF inside # {} THEN texts[Min(inside)]
        ELSE IF \E i \in DOMAIN texts : far(i) <= 200 * 200
        THEN texts[Nearest(DOMAIN texts, far)]
        ELSE [category |-> "Unknown", name |-> "Room"]

Named(text) == "at" \in DOMAIN text

RoomDoubts(named, polygon, size) ==
    LET wide  == Max(Xs(polygon)) - Min(Xs(polygon))
        deep  == Max(Ys(polygon)) - Min(Ys(polygon))
        short == Max({Min({wide, deep}), 1})
    IN  (IF ~named THEN {<<"no_label", 600>>} ELSE {})
        \cup (IF Area(polygon) < 150 THEN {<<"small", 400>>} ELSE {})
        \cup (IF Area(polygon) > 12000 THEN {<<"large", 500>>} ELSE {})
        \cup (IF Max({wide, deep}) > 8 * short THEN {<<"sliver", 450>>} ELSE {})
        \cup (IF \/ 100 * Min(Xs(polygon)) <= size[1]
                 \/ 100 * Max(Xs(polygon)) >= 99 * size[1]
                 \/ 100 * Min(Ys(polygon)) <= size[2]
                 \/ 100 * Max(Ys(polygon)) >= 99 * size[2]
              THEN {<<"border", 500>>} ELSE {})
        \cup (IF Len(polygon) - 1 < 4 THEN {<<"degenerate", 400>>} ELSE {})

\* The first label of the text that the vocabulary knows.
CanonicalType(text) ==
    IF text.category \in DOMAIN Vocabulary THEN Vocabulary[text.category]
    ELSE IF text.name \in DOMAIN Vocabulary THEN Vocabulary[text.name]
    ELSE "unmapped"

RoomPolygons(seen, mmpp) ==
    LET large(r) == Len(r) >= 4 /\ Area(LineToMm(r, mmpp)) >= 50
        kept     == SelectSeq(seen.rooms, large)
        size     == ToMm(seen.image, mmpp)
    IN  [i \in DOMAIN kept |->
            LET polygon == LineToMm(kept[i], mmpp)
                text    == MatchName(kept[i], seen.texts)
                doubts  == RoomDoubts(Named(text), polygon, size)
            IN  [id |-> "Room_" \o ToString(i), polygon |-> polygon,
                 area |-> Area(polygon), centroid |-> TRUE,
                 conf |-> Min({1000} \cup {d[2] : d \in doubts}),
                 category |-> IF CanonicalType(text) = "unmapped"
                              THEN text.category ELSE CanonicalType(text),
                 needs_review |-> \/ doubts # {}
                                  \/ CanonicalType(text) = "unmapped"]]

-----------------------------------------------------------------------------
(* Openings.                                                               *)

\* The nearest wall, unless it is too far; a rival wall halves the trust.
HostAmong(walls, dist) ==
    LET key(i) == dist[i]
        host   == Nearest(DOMAIN dist, key)
        rivals == {i \in DOMAIN dist : dist[i] <= dist[host] + 150}
        alone  == Max({0, 1000 - (dist[host] * 1000) \div 600})
        conf   == IF Cardinality(rivals) > 1 THEN (alone * 6) \div 10 ELSE alone
    IN  IF DOMAIN dist = {} \/ dist[host] > 1000
        THEN [host |-> "none", conf |-> 0, needs_review |-> TRUE]
        ELSE [host |-> walls[host].id, conf |-> conf,
              needs_review |-> conf < 500 \/ Cardinality(rivals) > 1]

AssessHostWall(at, walls) ==
    HostAmong(walls, [i \in {j \in DOMAIN walls : Len(walls[j].line) >= 2} |->
                        Min({SegmentDistance(at, s) : s \in Range(Segments(walls[i].line))})])

-----------------------------------------------------------------------------
(* services/bim_builder.py.                                                *)

\* The route states all five parameters, its own defaults included.
RouteParams(m) ==
    [wall_height |-> Either(StatedWallHeight(m), 2800),
     door_height |-> Either(Get(m.defaults, "door_height"), 2100),
     window_height |-> Either(Get(m.defaults, "window_height"), 1200),
     window_sill_height |-> Either(Get(m.defaults, "window_sill_height"), 900),
     floor_thickness |-> Either(Get(m.defaults, "floor_thickness"),
                           Either(Get(m.project, "floor_thickness"), 200))]

ProvidedKeys(given) == DOMAIN given \cap ParamNames

BuildWalls(walls, outer, p) ==
    LET usable(w) == Len(w.line) >= 2
        kept      == SelectSeq(walls, usable)
    IN  [i \in DOMAIN kept |->
            [id |-> kept[i].id, ids |-> {kept[i].id}, line |-> kept[i].line,
             dims |-> [thickness |-> kept[i].thickness,
                       height |-> p.wall_height],
             exterior |-> kept[i].id \in DOMAIN outer,
             width_source |-> "none", res |-> <<>>, prov |-> <<>>,
             conf |-> 1000, needs_review |-> FALSE]]

HostedOpening(kind, i, o, host, outer, mmpp, dims) ==
    LET weak  == host.host \in DOMAIN outer /\ outer[host.host].needs_review
    IN  [id |-> kind \o ToString(i), ids |-> {kind \o ToString(i)},
         host |-> host.host, at |-> ToMm(o.at, mmpp),
         dims |-> [width |-> o.width * mmpp] @@ dims,
         exterior |-> host.host \in DOMAIN outer,
         width_source |-> IF kind = "Window_" THEN "measured" ELSE "none",
         res |-> <<>>, prov |-> <<>>,
         conf |-> IF kind = "Door_" THEN Min({host.conf, o.swing.conf})
                  ELSE IF weak THEN Min({host.conf, outer[host.host].conf})
                  ELSE host.conf,
         needs_review |-> \/ host.needs_review
                          \/ kind = "Window_" /\ weak
                          \/ kind = "Door_" /\ o.swing.needs_review]

BuildOpening(kind, i, o, walls, outer, mmpp, dims) ==
    HostedOpening(kind, i, o, AssessHostWall(ToMm(o.at, mmpp), walls), outer, mmpp, dims)

\* stated: the scale as it was assessed; mmpp: the factor after a resize.
BuildOf(seen, stated, mmpp, given, walls, outer) ==
    LET p == given @@ SystemDefaults
    IN  [walls |-> BuildWalls(walls, outer, p),
         doors |-> [i \in DOMAIN seen.doors |->
             BuildOpening("Door_", i, seen.doors[i], walls, outer, mmpp,
                          [height |-> p.door_height])],
         windows |-> [i \in DOMAIN seen.windows |->
             BuildOpening("Window_", i, seen.windows[i], walls, outer, mmpp,
                          [height |-> p.window_height,
                           sill_height |-> p.window_sill_height])],
         rooms |-> RoomPolygons(seen, mmpp),
         stairs |-> [i \in DOMAIN seen.stairs |->
             [id |-> "Stair_" \o ToString(i),
              polygon |-> LineToMm(seen.stairs[i], mmpp),
              height |-> p.wall_height, needs_review |-> TRUE]],
         slabs |-> <<>>, params |-> p, provided |-> ProvidedKeys(given),
         level |-> 0, units |-> "millimeters", scale |-> stated,
         manual |-> <<>>]

Build(seen, stated, mmpp, given) ==
    LET walls == WallParameters(seen, mmpp)
    IN  BuildOf(seen, stated, mmpp, given, walls,
                ExteriorWalls(walls, ToMm(seen.image, mmpp)))

-----------------------------------------------------------------------------
(* stage1_contracts/provenance.py: where every dimension came from.        *)

MeasurementRecord(row, f, scale) ==
    LET r      == IF f \in DOMAIN row.res THEN row.res[f]
                  ELSE Resolution(row.dims[f],
                           IF f \in {"width", "thickness"}
                           THEN "measured_from_image" ELSE "system_fallback",
                           Absent, <<>>)
        traced == r.source \in {"model_property", "measured_from_image"}
    IN  [value |-> row.dims[f], source |-> r.source, scale |-> scale,
         conf |-> IF traced THEN Either(r.conf, Get(scale, "confidence")) ELSE r.conf,
         px |-> IF traced /\ scale.mmpp # Absent
                THEN row.dims[f] \div scale.mmpp ELSE Absent]

WithProvenance(bim) ==
    LET stamp(rows) == [i \in DOMAIN rows |-> [rows[i] EXCEPT
            !.prov = [f \in DOMAIN rows[i].dims |->
                        MeasurementRecord(rows[i], f, bim.scale)]]]
    IN  [bim EXCEPT !.walls = stamp(bim.walls), !.doors = stamp(bim.doors),
                    !.windows = stamp(bim.windows)]

\* The rows /analyze saves and replies with, or nothing when it refuses.
AnalyzeAccepts(seen, claim, m) ==
    /\ Stage1Accepts(m)
    /\ ScaleAccepted(claim)

Analyze(seen, claim, resize, m) ==
    LET r == Stage1Resolve(m, Build(seen, AssessScale(claim),
                                    claim.mmpp * resize, RouteParams(m)))
    IN  [r EXCEPT !.bim = WithProvenance(@)]
=============================================================================
