--------------------------- MODULE ComplianceAgents ---------------------------
(***************************************************************************)
(* The four deterministic agents of the compliance engine: numeric_checker, *)
(* topology_agent, opening_agent and safety_agent under                     *)
(* compliance-engine/services.  Each reads the plan and the clauses and     *)
(* returns findings; none writes the plan.                                  *)
(*                                                                         *)
(* A clause has one entity.  Its free text is kept as what the keyword      *)
(* tables make of it:                                                       *)
(*   rule       "numeric", "spatial" or "other"                             *)
(*   entities   FALSE when the clause has none                              *)
(*   object     "room", "door" and "window" are in OBJECT_MAP; "window" and *)
(*              "glazing" are glazing words; "other" is in neither table    *)
(*   category   the room type the object (numeric) or subject (spatial)     *)
(*              maps to, or Unmapped                                        *)
(*   target     the room type a spatial object maps to, or Unmapped         *)
(*   quantity, unit, comparator, low, high   the measured requirement       *)
(*   condition  "none", "stated", or "site" when it names the surroundings  *)
(*   relation   the spatial relation                                        *)
(*   topics     which of the safety keyword tables the text hits            *)
(***************************************************************************)
EXTENDS PlanGraph

CONSTANTS Unmapped,     \* a phrase no table knows
          WholePlan     \* the element of a finding that names no element

ASSUME AgentAssumption == Unmapped \notin Categories /\ WholePlan \notin Elements

Agents   == {"numeric", "topology", "opening", "safety"}
Verdicts == {"PASS", "FAIL", "NEEDS_REVIEW", "NOT_EVALUATED"}
Habitable == {"room_bedroom", "room_living", "room_kitchen"}
Guarded   == {"balcony", "room_balcony", "terrace"}
Comparators == {">=", "<=", ">", "<"}

DefaultSeverity(v) ==
    CASE v = "FAIL" -> "fail"
      [] v = "PASS" -> "info"
      [] OTHER      -> "alert"

Finding(agent, article, element, verdict) ==
    [agent |-> agent, article |-> article, element |-> element,
     verdict |-> verdict, severity |-> DefaultSeverity(verdict),
     unsupported |-> FALSE]

Review(agent, c, unsupported) ==
    [Finding(agent, c.id, WholePlan, "NEEDS_REVIEW") EXCEPT !.unsupported = unsupported]

Blocked(agent, c, element) == Finding(agent, c.id, element, "NOT_EVALUATED")
Decided(agent, c, element, ok) ==
    Finding(agent, c.id, element, IF ok THEN "PASS" ELSE "FAIL")

Compare(v, c, low, high) ==
    CASE c.comparator = ">=" -> v >= low
      [] c.comparator = "<=" -> v <= low
      [] c.comparator = ">"  -> v > low
      [] c.comparator = "<"  -> v < low
      [] c.comparator = "range" -> low <= v /\ v <= high

-------------------------------------------------------------------------------
(* Numeric checker *)

MeasureTable == {<<"room", "area">>, <<"room", "height">>, <<"door", "width">>}
Measurable(c) == <<c.object, c.quantity>> \in MeasureTable

ComparatorKnown(c) == c.comparator \in Comparators \cup {"range"}
ObjectMapped(c)    == c.object \in {"room", "door", "window"}
UnitUnderstood(c)  == c.unit = IF c.quantity = "area" THEN "area" ELSE "length"

AutoCheckable(c) ==
    /\ c.condition = "none"
    /\ ComparatorKnown(c) /\ ObjectMapped(c) /\ Measurable(c) /\ UnitUnderstood(c)

(* Of the clauses it cannot check, the ones it says it has no logic for. *)
NoLogicFor(c) ==
    /\ c.condition = "none"
    /\ \/ ~ComparatorKnown(c)
       \/ ~ObjectMapped(c)
       \/ Measurable(c) /\ ~UnitUnderstood(c)

Measured(p, c, e) ==
    CASE c.object = "door"     -> p.width[e]
      [] c.object # "door" /\ c.quantity = "height" -> p.ceiling
      [] OTHER                 -> p.area[e]

MeasuredItems(p, c) ==
    IF c.object = "door" THEN Doors ELSE RoomsByCategory(p, c.category)

(* The value a verdict may rest on: in the model, and not the engine default. *)
HasValue(p, c, e) ==
    /\ Measured(p, c, e) # Missing
    /\ c.quantity = "height" => p.asserted

MeasureOne(p, c, e) ==
    IF HasValue(p, c, e)
    THEN Decided("numeric", c, e, Compare(Measured(p, c, e), c, c.low, c.high))
    ELSE Blocked("numeric", c, e)

NumericCheck(p, c) ==
    IF ~c.entities THEN {Review("numeric", c, TRUE)}
    ELSE IF ~AutoCheckable(c) THEN {Review("numeric", c, NoLogicFor(c))}
    ELSE IF MeasuredItems(p, c) = {} THEN {Blocked("numeric", c, WholePlan)}
    ELSE {MeasureOne(p, c, e) : e \in MeasuredItems(p, c)}

-------------------------------------------------------------------------------
(* Topology agent *)

Subjects(p, c) == RoomsByCategory(p, c.category)
Targets(p, c)  == RoomsByCategory(p, c.target)

BothMapped(c) == c.category # Unmapped /\ c.target # Unmapped
BothPresent(p, c) == Subjects(p, c) # {} /\ Targets(p, c) # {}

Touching(p, c) ==
    {s \in Subjects(p, c) : \E o \in Targets(p, c) : AreDirectlyConnected(p, s, o)}

MustNotConnect(p, c) ==
    IF ~BothMapped(c) THEN Review("topology", c, TRUE)
    ELSE IF ~BothPresent(p, c) THEN Blocked("topology", c, WholePlan)
    ELSE Decided("topology", c, WholePlan, Touching(p, c) = {})

MustConnect(p, c) ==
    IF ~BothMapped(c) THEN Review("topology", c, TRUE)
    ELSE IF ~BothPresent(p, c) THEN Blocked("topology", c, WholePlan)
    ELSE IF Touching(p, c) = {} THEN Decided("topology", c, WholePlan, FALSE)
    ELSE Decided("topology", c, CHOOSE s \in Touching(p, c) : TRUE, TRUE)

HasAccess_OrExit(p, c, s) ==
    IF Targets(p, c) # {} THEN \E t \in Targets(p, c) : HasPath(p, s, t)
    ELSE CanReachExit(p, s)

(* An object phrase with no room type is taken for the way out. *)
HasAccess(p, c, s) ==
    IF c.target # Unmapped
    THEN \E t \in Targets(p, c) : HasPath(p, s, t)
    ELSE CanReachExit(p, s)

Stranded(p, c) == {s \in Subjects(p, c) : ~HasAccess(p, c, s)}

MustHaveAccess(p, c) ==
    IF c.category = Unmapped THEN Review("topology", c, TRUE)
    ELSE IF Subjects(p, c) = {} THEN Blocked("topology", c, WholePlan)
    ELSE IF Stranded(p, c) = {} THEN Decided("topology", c, WholePlan, TRUE)
    ELSE Decided("topology", c, CHOOSE s \in Stranded(p, c) : TRUE, FALSE)

(* RELATION_HANDLERS *)
ConnectRelations == {"must_connect_to", "must_have_direct_access_to"}
AccessRelations  == {"must_have_access_to", "must_reach"}

TopologyCheck(p, c) ==
    { CASE ~c.entities -> Review("topology", c, TRUE)
        [] c.entities /\ c.relation = "must_not_connect_to"  -> MustNotConnect(p, c)
        [] c.entities /\ c.relation \in ConnectRelations     -> MustConnect(p, c)
        [] c.entities /\ c.relation \in AccessRelations      -> MustHaveAccess(p, c)
        [] OTHER -> Review("topology", c, TRUE) }

-------------------------------------------------------------------------------
(* Opening agent *)

HabitableRooms(p) == UNION {RoomsByCategory(p, k) : k \in Habitable}
Unmeasured(p) == {r \in HabitableRooms(p) : ~GlazingMeasurable(p, r)}

(* glazing / area compared with the threshold, without dividing *)
Underlit(p, c) ==
    {r \in HabitableRooms(p) \ Unmeasured(p) :
        ~Compare(TotalGlazing(p, r), c, c.low * p.area[r], c.high * p.area[r])}

Worst(p, c) ==
    CHOOSE r \in Underlit(p, c) : \A x \in Underlit(p, c) :
        TotalGlazing(p, r) * p.area[x] <= TotalGlazing(p, x) * p.area[r]

CheckGlazingRatio(p, c) ==
    IF HabitableRooms(p) = {} THEN Blocked("opening", c, WholePlan)
    ELSE IF Underlit(p, c) # {}
         THEN Decided("opening", c, Worst(p, c), FALSE)
    ELSE IF Unmeasured(p) # {} THEN Blocked("opening", c, WholePlan)
    ELSE Decided("opening", c, WholePlan, TRUE)

(* Clauses outside the agent's domain, and length rules on windows, which are
   left to the numeric checker, produce nothing. *)
OpeningCheck(p, c) ==
    IF ~c.entities \/ c.object \notin {"window", "glazing"} THEN {}
    ELSE IF c.condition = "site" THEN {Review("opening", c, FALSE)}
    ELSE IF c.unit = "ratio" /\ c.comparator \in Comparators
         THEN {CheckGlazingRatio(p, c)}
    ELSE IF c.unit = "length" THEN {}
    ELSE {Review("opening", c, TRUE)}

CheckLightPresence(p) ==
    {Finding("opening", "natural_light_presence", r, "FAIL") :
        r \in {x \in HabitableRooms(p) : ExteriorWindows(p, x) = {}}}

-------------------------------------------------------------------------------
(* Safety agent *)

Trapped(p) == {r \in HabitableRooms(p) : ~CanReachExit(p, r)}

CheckEgressRule(p, c) ==
    IF Trapped(p) # {} THEN Decided("safety", c, WholePlan, FALSE)
    ELSE Review("safety", c, FALSE)

CheckStairPresence(p, c) ==
    IF p.stairs THEN Decided("safety", c, WholePlan, TRUE)
    ELSE Review("safety", c, FALSE)

GuardedRooms(p) == UNION {RoomsByCategory(p, k) : k \in Guarded}

CheckGuard(p, c) ==
    IF GuardedRooms(p) = {} THEN Review("safety", c, FALSE)
    ELSE IF p.railings THEN Decided("safety", c, WholePlan, TRUE)
    ELSE Decided("safety", c, CHOOSE r \in GuardedRooms(p) : TRUE, FALSE)

(* Guard before stair before egress. *)
SafetyCheck(p, c) ==
    IF ~c.entities \/ c.topics = {} THEN {}
    ELSE { IF "guard" \in c.topics THEN CheckGuard(p, c)
           ELSE IF "stair" \in c.topics THEN CheckStairPresence(p, c)
           ELSE CheckEgressRule(p, c) }

CheckEgressAllRooms(p) ==
    IF \A r \in Rooms : ~HasExteriorDoor(p, r)
    THEN {Finding("safety", "egress_presence", WholePlan, "FAIL")}
    ELSE {Finding("safety", "egress_reachability", r, "FAIL") : r \in Trapped(p)}

-------------------------------------------------------------------------------
OfRule(book, rule) == {c \in book : c.rule = rule}

(* AGENT_RUNNERS: what agent a returns for plan p and the clauses of book. *)
AgentFindings(a, p, book) ==
    CASE a = "numeric"  -> UNION {NumericCheck(p, c) : c \in OfRule(book, "numeric")}
      [] a = "topology" -> UNION {TopologyCheck(p, c) : c \in OfRule(book, "spatial")}
      [] a = "opening"  -> (UNION {OpeningCheck(p, c) : c \in book}) \cup CheckLightPresence(p)
      [] a = "safety"   -> (UNION {SafetyCheck(p, c) : c \in book}) \cup CheckEgressAllRooms(p)
===============================================================================
