------------------------- MODULE MCValidationPipeline -------------------------
(* Small buildings and clause books for TLC.  Sizes are 1 (too small) or 2     *)
(* (enough) against a requirement of 2.                                        *)
EXTENDS ValidationPipeline, TLC

CONSTANTS r1, r2, r3, d1, d2, d3, w1

MCCategories == {"room_bedroom", "room_kitchen", "hall", "balcony", "Accommodation"}
MCVocabulary ==
    [k \in MCCategories |-> IF k = "Accommodation" THEN Unmapped ELSE k]

-------------------------------------------------------------------------------
(* Clauses *)

Clause(id, rule) ==
    [id |-> id, rule |-> rule, entities |-> TRUE, object |-> "other",
     category |-> Unmapped, target |-> Unmapped, quantity |-> "none",
     unit |-> "length", comparator |-> ">=", low |-> 2, high |-> 2,
     condition |-> "none", relation |-> "other", topics |-> {}]

AreaClause == [Clause("area", "numeric") EXCEPT !.object = "room", !.quantity = "area",
                                                !.unit = "area", !.category = "room_bedroom"]
AreaCapClause   == [AreaClause EXCEPT !.id = "area_cap", !.comparator = "<"]
AreaUnitClause  == [AreaClause EXCEPT !.id = "area_unit", !.unit = "ratio"]
AreaIfClause    == [AreaClause EXCEPT !.id = "area_if", !.condition = "stated"]
AreaEqualClause == [AreaClause EXCEPT !.id = "area_equal", !.comparator = "="]
AreaRangeClause == [AreaClause EXCEPT !.id = "area_range", !.comparator = "range"]
KitchenClause   == [AreaClause EXCEPT !.id = "kitchen", !.category = "room_kitchen"]
HeightClause == [Clause("height", "numeric") EXCEPT !.object = "room", !.quantity = "height",
                                                    !.category = "room_bedroom"]
DoorClause   == [Clause("door", "numeric") EXCEPT !.object = "door", !.quantity = "width"]
EmptyClause  == [Clause("empty", "numeric") EXCEPT !.entities = FALSE]

(* Clause 4-3-2-5-4 of the corpus: object "window", property "area", a ratio. *)
WindowRatioClause == [Clause("window_ratio", "numeric") EXCEPT
    !.object = "window", !.quantity = "area", !.unit = "ratio", !.low = 1, !.high = 1]
(* Clause 2-3-2-5-4: the same kind of rule under a condition. *)
RatioIfClause   == [WindowRatioClause EXCEPT !.id = "ratio_if", !.object = "glazing",
                                             !.condition = "stated"]
RatioSiteClause == [RatioIfClause EXCEPT !.id = "ratio_site", !.condition = "site"]
RatioBareClause == [WindowRatioClause EXCEPT !.id = "ratio", !.rule = "other"]

Spatial(id, relation, from, to) ==
    [Clause(id, "spatial") EXCEPT !.relation = relation, !.category = from, !.target = to]
ApartClause   == Spatial("apart", "must_not_connect_to", "room_bedroom", "room_kitchen")
JoinedClause  == Spatial("joined", "must_connect_to", "room_bedroom", "hall")
AccessClause  == Spatial("access", "must_have_access_to", "room_bedroom", "room_kitchen")
(* Clause 4-6-5-4: the object is a skylight, which is no room type. *)
SkylightClause == Spatial("skylight", "must_have_access_to", "room_bedroom", Unmapped)
FacingClause   == Spatial("facing", "must_face", "room_bedroom", "hall")
Topic(id, topics) == [Clause(id, "other") EXCEPT !.topics = topics]
SafetyClauses  == {Topic("egress", {"egress"}), Topic("stair", {"stair", "egress"}),
                   Topic("guard", {"guard"})}

NumericBook == {AreaClause, AreaCapClause, AreaUnitClause, AreaIfClause, AreaEqualClause,
                AreaRangeClause, KitchenClause, HeightClause, DoorClause, EmptyClause}
SpatialBook == {ApartClause, JoinedClause, AccessClause, SkylightClause,
                FacingClause} \cup SafetyClauses

-------------------------------------------------------------------------------
(* Buildings *)

Home == [category |-> [r \in Rooms |-> "room_bedroom"], outlined |-> Rooms,
         area |-> [r \in Rooms |-> 2],
         joins |-> [d \in Doors |-> {r1}], width |-> [d \in Doors |-> 2],
         faces |-> [w \in Windows |-> r1], outer |-> Windows, glass |-> [w \in Windows |-> 2],
         stairs |-> FALSE, railings |-> FALSE, ceiling |-> 2, asserted |-> TRUE]

Input(site, recorded, doubtful, rest) ==
    [mode |-> "full_check", source |-> "building_model", langgraph |-> FALSE,
     reports |-> TRUE, lowScale |-> FALSE, plan |-> recorded, site |-> site,
     name |-> [r \in Rooms |-> "Accommodation"],
     provenance |-> [e \in Elements |-> IF e \in doubtful THEN "doubtful" ELSE rest]]

(* Sizes a document may record, given what the building has: the right one for
   a trusted element, anything for a doubtful one. *)
Sizes == {1, 2, Missing}
Readings(size, e, doubtful) == IF e \in doubtful THEN Sizes ELSE {size}

NumericInputs ==
    UNION {UNION {
        LET site == [Home EXCEPT !.area[r1] = a, !.area[r2] = b, !.width[d1] = 1, !.ceiling = h]
            paper == [site EXCEPT !.ceiling = IF given THEN h ELSE 2, !.asserted = given,
                                  !.category[r1] = label]
        IN  {[Input(site, [paper EXCEPT !.area[r1] = a2, !.width[d1] = v2], doubtful, rest)
                EXCEPT !.lowScale = low] :
                a2 \in Readings(a, r1, doubtful), v2 \in Readings(1, d1, doubtful),
                rest \in {"absent", "sure"}, low \in (IF doubtful = {} THEN BOOLEAN ELSE {FALSE})} :
        a \in Sizes, b \in {1, 2}, h \in {1, 2}, given \in BOOLEAN,
        label \in {"room_bedroom", "Accommodation"}} : doubtful \in SUBSET {r1, d1}}

NumericRequests == {[input |-> i, book |-> NumericBook] : i \in NumericInputs}

(* Every way three doors can join three rooms, up to the names of the doors, with
   every set of outlines. *)
Joined == <<{}, {r1}, {r2}, {r3}, {r1, r2}, {r1, r3}, {r2, r3}>>
Layouts == {s \in [1 .. 3 -> 1 .. 7] : s[1] <= s[2] /\ s[2] <= s[3]}
Flats == {[Home EXCEPT !.category = (r1 :> "room_bedroom" @@ r2 :> "hall" @@ r3 :> k),
                       !.joins = (d1 :> Joined[s[1]] @@ d2 :> Joined[s[2]] @@ d3 :> Joined[s[3]]),
                       !.outlined = o] :
             s \in Layouts, o \in SUBSET Rooms, k \in {"room_kitchen", "balcony"}}
SpatialRequests == {[input |-> Input(f, f, {}, "sure"), book |-> SpatialBook] : f \in Flats}

(* Every mode, source and fault on a few homes with one window. *)
Studio(a, g, o, j, v, b, k) ==
    [Home EXCEPT !.area[r1] = a, !.glass[w1] = g, !.outer = o, !.joins[d1] = j,
                 !.width[d1] = v, !.railings = b, !.stairs = b,
                 !.category[r2] = k, !.category[r3] = "hall"]
Studios(extras, kinds) ==
    {Studio(a, g, o, j, v, b, k) :
        a \in {0, 2}, g \in {1, 2}, o \in SUBSET Windows, j \in {{r1}, {r1, r2}},
        v \in {2, Missing}, b \in extras, k \in kinds}
ModeOrders ==
    {[book |-> k, site |-> s] :
        k \in {{AreaClause}, {AreaClause, RatioBareClause}}, s \in Studios({FALSE}, {"hall"})}
    \cup {[book |-> {WindowRatioClause, RatioSiteClause} \cup SafetyClauses, site |-> s] :
              s \in Studios(BOOLEAN, {"hall", "balcony"})}
ModeRequests ==
    {[input |-> [Input(q.site, q.site, e, "sure") EXCEPT
                    !.mode = m, !.source = t, !.langgraph = g, !.reports = g \/ e = {}],
      book |-> q.book] :
        q \in ModeOrders, m \in {"precheck", "full_check"}, t \in {"ifc", "bim_data"},
        g \in BOOLEAN, e \in {{}, {r1}}}

AllRequests == UNION {NumericRequests, SpatialRequests, ModeRequests}

===============================================================================
