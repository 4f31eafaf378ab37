---------------------------- MODULE ManualInputs ----------------------------
(***************************************************************************)
(* Manual Inputs v1: what an operator states about a plan (project values, *)
(* defaults, overrides of single elements) and the two programs that       *)
(* resolve it.  Stage 1 resolves a payload into its rows before the IFC    *)
(* file is written (stage1_contracts/manual_inputs.py); the compliance     *)
(* engine merges a payload into the model it read from that file           *)
(* (compliance-engine/manual_inputs).  Their orders of precedence differ.  *)
(*                                                                         *)
(* A payload, the dimensions of a row and the building parameters are      *)
(* functions whose domain is the set of keys that were given; the suffix   *)
(* _mm of the source's names is dropped.  Lengths are millimetres and      *)
(* confidences per mille.  A value that is no finite number is rejected as  *)
(* one outside the range is, and is modelled by one outside the range.     *)
(***************************************************************************)
EXTENDS Integers, Sequences, FiniteSets, TLC

Absent == -1000000           \* None: outside every range below

Get(f, k)  == IF k \in DOMAIN f THEN f[k] ELSE Absent
GivenAs(k, v) == IF v = Absent THEN <<>> ELSE k :> v
Either(a, b)  == IF a # Absent THEN a ELSE b
Within(v, r)  == r[1] <= v /\ v <= r[2]

Collections == {"walls", "doors", "windows"}
ParamNames  == {"wall_height", "door_height", "window_height",
                "window_sill_height", "floor_thickness"}

SystemDefaults == [wall_height |-> 2800, door_height |-> 2100,
                   window_height |-> 1200, window_sill_height |-> 900,
                   floor_thickness |-> 200]
ProjectRanges == [default_storey_height |-> <<500, 10000>>,
                  finished_floor_level |-> <<-100000, 100000>>,
                  floor_thickness |-> <<50, 1000>>]
DefaultRanges == [ceiling_height |-> <<2000, 6000>>,
                  wall_height |-> <<500, 6000>>,
                  door_height |-> <<1800, 3000>>,
                  window_width |-> <<300, 5000>>,
                  window_height |-> <<200, 3000>>,
                  window_sill_height |-> <<0, 2000>>,
                  floor_thickness |-> <<50, 600>>]
OverrideRanges ==
    [windows |-> [width |-> <<300, 5000>>, height |-> <<200, 3000>>,
                  sill_height |-> <<0, 3000>>],
     doors   |-> [width |-> <<300, 5000>>, height |-> <<500, 5000>>],
     walls   |-> [height |-> <<500, 10000>>, thickness |-> <<20, 2000>>]]

\* The default that stands in for a field of an element; "none" has no value.
DefaultKey ==
    [walls   |-> [height |-> "wall_height", thickness |-> "none"],
     doors   |-> [width |-> "none", height |-> "door_height"],
     windows |-> [width |-> "window_width", height |-> "window_height",
                  sill_height |-> "window_sill_height"]]

-----------------------------------------------------------------------------
(* Reading a payload.  shape says what kind of JSON came in: "plain" with  *)
(* the documented keys, "alias" with the engine's short names for defaults,*)
(* "alias_twice" with both names of one, or "broken": no JSON object, an   *)
(* unknown key or another schema version.                                  *)

EmptyPayload == [shape |-> "plain", project |-> <<>>, defaults |-> <<>>,
                 overrides |-> [c \in Collections |-> <<>>], allow |-> FALSE]

ValuesInRange(values, ranges) ==
    \A k \in DOMAIN values : k \in DOMAIN ranges /\ Within(values[k], ranges[k])

OverridesInRange(m) ==
    \A c \in Collections : \A id \in DOMAIN m.overrides[c] :
        /\ id # ""
        /\ DOMAIN m.overrides[c][id] # {}
        /\ ValuesInRange(m.overrides[c][id], OverrideRanges[c])

\* No default may promise an opening taller than the wall it is cut into.
DefaultsFit(m, wall) ==
    LET sill == Get(m.defaults, "window_sill_height")
        head == Get(m.defaults, "window_height")
        door == Get(m.defaults, "door_height")
    IN  wall # Absent =>
          /\ (sill # Absent /\ head # Absent) => sill + head <= wall
          /\ door # Absent => door <= wall

StatedWallHeight(m) ==
    Either(Get(m.defaults, "wall_height"),
           Either(Get(m.defaults, "ceiling_height"),
                  Get(m.project, "default_storey_height")))

Stage1Accepts(m) ==
    /\ m.shape = "plain"
    /\ ValuesInRange(m.project, ProjectRanges)
    /\ ValuesInRange(m.defaults, DefaultRanges)
    /\ OverridesInRange(m)
    /\ DefaultsFit(m, StatedWallHeight(m))

EngineAccepts(m) ==
    /\ m.shape \in {"plain", "alias"}
    /\ ValuesInRange(m.project, ProjectRanges)
    /\ ValuesInRange(m.defaults, DefaultRanges)
    /\ DefaultsFit(m, Either(Get(m.defaults, "wall_height"),
                             Get(m.defaults, "ceiling_height")))
    /\ OverridesInRange(m)
    /\ DefaultsFit(m, StatedWallHeight(m))

-----------------------------------------------------------------------------
(* What both programs do with the overrides.  A row has the set ids of the *)
(* names it answers to, its dimensions dims and the record res of how each *)
(* was resolved.                                                           *)

MatchingIds(overrides, row) == {id \in DOMAIN overrides : id \in row.ids}

OverrideFor(overrides, row) ==
    LET found == MatchingIds(overrides, row)
    IN  IF found = {} THEN <<>> ELSE overrides[CHOOSE id \in found : TRUE]

AmbiguousOverride(m, rows) ==
    \E c \in Collections : \E i \in DOMAIN rows[c] :
        Cardinality(MatchingIds(m.overrides[c], rows[c][i])) > 1

Unmatched(m, rows) ==
    UNION {{<<c, id>> : id \in {d \in DOMAIN m.overrides[c] :
                \A i \in DOMAIN rows[c] : d \notin rows[c][i].ids}} :
            c \in Collections}

\* The last wall that answers to an id: the index is a dictionary.
HostsOf(walls, id) == {i \in DOMAIN walls : id \in walls[i].ids}
HostOf(walls, id)  == LET found == HostsOf(walls, id)
                      IN  walls[CHOOSE i \in found : \A j \in found : j <= i]

Top(row) == LET sill == Get(row.dims, "sill_height")
            IN  row.dims["height"] + (IF sill = Absent THEN 0 ELSE sill)

TallerThanHost(c, walls, row) ==
    /\ HostsOf(walls, row.host) # {}
    /\ (IF c = "windows" THEN {"height", "sill_height"} ELSE {"height"})
            \subseteq DOMAIN row.dims
    /\ "height" \in DOMAIN HostOf(walls, row.host).dims
    /\ Top(row) > HostOf(walls, row.host).dims["height"]

Resolution(value, source, conf, history) ==
    [value |-> value, source |-> source, conf |-> conf, history |-> history]

-----------------------------------------------------------------------------
(* Stage 1: override > operator default > what the row has > parameters.   *)

Stage1Defaults(m) ==
    m.defaults @@ GivenAs("wall_height", StatedWallHeight(m))
               @@ GivenAs("floor_thickness", Get(m.project, "floor_thickness"))

Stage1Param(m, bim, k) ==
    IF k \in DOMAIN Stage1Defaults(m)
    THEN Resolution(Stage1Defaults(m)[k], "operator_default", 1000, <<>>)
    ELSE IF k \in DOMAIN bim.params
    THEN IF k \in bim.provided
         THEN Resolution(bim.params[k], "model_property", 1000, <<>>)
         ELSE Resolution(bim.params[k], "system_fallback", Absent, <<>>)
    ELSE Resolution(SystemDefaults[k], "system_fallback", Absent, <<>>)

\* An id that matched is added to the history of every field of the row.
Stage1History(m, c, row, f, value) ==
    (IF f \in DOMAIN row.res THEN row.res[f].history ELSE <<>>)
    \o (IF MatchingIds(m.overrides[c], row) = {} THEN <<>>
        ELSE <<[id |-> CHOOSE id \in MatchingIds(m.overrides[c], row) : TRUE,
                value |-> value]>>)

Stage1Resolves(m, bim, c, row, f) ==
    LET ovr   == OverrideFor(m.overrides[c], row)
        key   == DefaultKey[c][f]
        As(value, source, conf) ==
            Resolution(value, source, conf, Stage1History(m, c, row, f, value))
    IN  IF f \in DOMAIN ovr THEN As(ovr[f], "element_override", 1000)
        ELSE IF key \in DOMAIN Stage1Defaults(m)
        THEN As(Stage1Defaults(m)[key], "operator_default", 1000)
        ELSE IF f \in DOMAIN row.dims THEN As(row.dims[f], "model_property", 1000)
        ELSE LET p == Stage1Param(m, bim, key) IN As(p.value, p.source, Absent)

Stage1Row(m, bim, c, row) ==
    LET ovr      == OverrideFor(m.overrides[c], row)
        resolved == {f \in DOMAIN DefaultKey[c] :
                        \/ f \in DOMAIN ovr \cup DOMAIN row.dims
                        \/ DefaultKey[c][f] \in
                               DOMAIN Stage1Defaults(m) \cup ParamNames}
        new      == [f \in resolved |-> Stage1Resolves(m, bim, c, row, f)]
    IN  [row EXCEPT !.dims = [f \in resolved |-> new[f].value] @@ row.dims,
                    !.res  = new @@ row.res,
                    !.width_source =
                        IF c # "walls" /\ "width" \in DOMAIN ovr
                        THEN "user" ELSE row.width_source]

Stage1Merge(m, bim, rows, param) ==
    LET lost  == Unmatched(m, bim)
        ok    == /\ Stage1Accepts(m)
                 /\ ~AmbiguousOverride(m, bim)
                 /\ lost = {} \/ m.allow
                 /\ \A c \in {"doors", "windows"} : \A i \in DOMAIN rows[c] :
                        ~TallerThanHost(c, rows["walls"], rows[c][i])
        level == Get(m.project, "finished_floor_level")
    IN  [ok  |-> ok,
         bim |-> IF ~ok THEN bim ELSE
            [bim EXCEPT !.walls = rows["walls"], !.doors = rows["doors"],
                        !.windows = rows["windows"],
                        !.params = [k \in ParamNames |-> param[k].value],
                        !.provided = {k \in ParamNames :
                                        param[k].source # "system_fallback"},
                        !.level = Either(level, bim.level),
                        !.manual = [input |-> m, unmatched |-> lost,
                                    sources |-> [k \in ParamNames |->
                                                    param[k].source]]]]

Stage1Resolve(m, bim) ==
    Stage1Merge(m, bim, [c \in Collections |-> [i \in DOMAIN bim[c] |->
                            Stage1Row(m, bim, c, bim[c][i])]],
                [k \in ParamNames |-> Stage1Param(m, bim, k)])

-----------------------------------------------------------------------------
(* The engine: override > what the model has > operator default.           *)

EngineDefaults(m) ==
    m.defaults
    @@ GivenAs("wall_height", Get(m.project, "default_storey_height"))
    @@ GivenAs("floor_thickness", Get(m.project, "floor_thickness"))

EngineParam(m, model, k) ==
    IF k \in DOMAIN model.params /\ k \in model.provided
    THEN Resolution(model.params[k], "model_property", 1000, <<>>)
    ELSE IF k \in DOMAIN EngineDefaults(m)
    THEN Resolution(EngineDefaults(m)[k], "operator_default", 1000, <<>>)
    ELSE Resolution(model.params[k], "system_fallback", Absent, <<>>)

EngineParams(m, model) ==
    LET own  == [k \in DOMAIN model.params \cup
                     (DOMAIN EngineDefaults(m) \cap DOMAIN DefaultRanges) |->
                     EngineParam(m, model, k)]
    IN  own @@ (IF "wall_height" \in DOMAIN own
                THEN "ceiling_height" :> own["wall_height"] ELSE <<>>)

ApplyField_DefaultFirst(m, c, row, f) ==    \* mutant: Stage 1's order
    LET ovr == OverrideFor(m.overrides[c], row)
        key == DefaultKey[c][f]
    IN  IF f \in DOMAIN ovr
        THEN Resolution(ovr[f], "element_override", 1000, <<>>)
        ELSE IF key \in DOMAIN EngineDefaults(m)
        THEN Resolution(EngineDefaults(m)[key], "operator_default", 1000, <<>>)
        ELSE IF f \in DOMAIN row.dims
        THEN Resolution(row.dims[f], "model_property", 1000, <<>>)
        ELSE Resolution(Absent, "system_fallback", Absent, <<>>)

ApplyField(m, c, row, f) ==
    LET ovr == OverrideFor(m.overrides[c], row)
        key == DefaultKey[c][f]
    IN  IF f \in DOMAIN ovr
        THEN Resolution(ovr[f], "element_override", 1000, <<>>)
        ELSE IF f \in DOMAIN row.dims
        THEN Resolution(row.dims[f], "model_property", 1000, <<>>)
        ELSE IF key \in DOMAIN EngineDefaults(m)
        THEN Resolution(EngineDefaults(m)[key], "operator_default", 1000, <<>>)
        ELSE Resolution(Absent, "system_fallback", Absent, <<>>)

EngineRow(m, c, row) ==
    LET new == [f \in DOMAIN DefaultKey[c] |-> ApplyField(m, c, row, f)]
    IN  [row EXCEPT !.res  = new,
                    !.dims = [f \in {g \in DOMAIN new : new[g].value # Absent}
                                |-> new[f].value]]

\* Unmatched overrides are reported, and so is an opening that does not fit.
EngineResult(m, model, rows, params) ==
    LET lost   == Unmatched(m, model)
        stated == {k \in DOMAIN params : params[k].source # "system_fallback"}
        misfit == [doors |-> "QC-MANUAL-FIT-001", windows |-> "QC-MANUAL-FIT-002"]
        level  == Get(m.project, "finished_floor_level")
        ok     == /\ EngineAccepts(m)
                  /\ ~AmbiguousOverride(m, model)
                  /\ lost = {} \/ m.allow
    IN  [ok |-> ok,
         findings |-> {<<"QC-MANUAL-OVERRIDE-001", u[2]>> : u \in lost} \cup
            UNION {{<<misfit[c], rows[c][i].id>> : i \in {j \in DOMAIN rows[c] :
                        TallerThanHost(c, rows["walls"], rows[c][j])}} :
                    c \in {"doors", "windows"}},
         model |-> IF ~ok THEN model ELSE
            [model EXCEPT !.walls = rows["walls"], !.doors = rows["doors"],
                          !.windows = rows["windows"],
                          !.params = [k \in DOMAIN params |-> params[k].value],
                          !.provided = model.provided \cup stated \cup
                              (IF "wall_height" \in stated
                               THEN {"ceiling_height"} ELSE {}),
                          !.elevation = Either(model.elevation, level)]]

EngineMerge(m, model) ==
    EngineResult(m, model, [c \in Collections |-> [i \in DOMAIN model[c] |->
                               EngineRow(m, c, model[c][i])]],
                 EngineParams(m, model))
=============================================================================
