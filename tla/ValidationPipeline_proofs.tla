----------------------- MODULE ValidationPipeline_proofs -----------------------
(***************************************************************************)
(* What every run of the verdict pipeline keeps, for any plan, any clauses  *)
(* and any order of the agents: what a report says of the building is true  *)
(* of it where the document is trusted, and its status was earned.          *)
(*                                                                         *)
(* The first part is about the room graph when the outlines of some rooms   *)
(* are missing: every edge it has is a door of the building, and a room     *)
(* with an outline that it calls cut off is cut off (HolesHideNoExit).      *)
(* What is left is that a finding keeps, on its way from an agent to the    *)
(* report, the plan it was made for (FindingsTellOfPlan), and that a run    *)
(* carries the sizes, the doubts and the answers of its document to the     *)
(* end (CourseInv).                                                         *)
(***************************************************************************)
EXTENDS ValidationPipeline, FiniteSetTheorems, TLAPS

(***************************************************************************)
(* The room graph.                                                         *)
(***************************************************************************)

(* No set of rooms with at most two members holds a third. *)
LEMMA TwoAtMost ==
    ASSUME NEW S, IsFiniteSet(S), Cardinality(S) <= 2,
           NEW a \in S, NEW b \in S, a # b
    PROVE  S = {a, b}
<1>1. SUFFICES ASSUME NEW x \in S, x # a, x # b PROVE FALSE
    BY <1>1
<1>2. IsFiniteSet({a, b, x}) /\ Cardinality({a, b, x}) = 3
    <2>1. IsFiniteSet({a}) /\ Cardinality({a}) = 1
        BY FS_Singleton
    <2>2. b \notin {a} /\ x \notin {a, b}
        BY <1>1
    <2>3. IsFiniteSet({a} \cup {b}) /\ Cardinality({a} \cup {b}) = Cardinality({a}) + 1
        BY <2>1, <2>2, FS_AddElement, Zenon
    <2>4. {a} \cup {b} = {a, b} /\ {a, b} \cup {x} = {a, b, x}
        OBVIOUS
    <2>5. IsFiniteSet({a, b}) /\ Cardinality({a, b}) = 2
        BY <2>1, <2>3, <2>4
    <2>6. IsFiniteSet({a, b} \cup {x}) /\ Cardinality({a, b} \cup {x}) = Cardinality({a, b}) + 1
        BY <2>2, <2>5, FS_AddElement, Zenon
    <2> QED BY <2>4, <2>5, <2>6
<1>3. {a, b, x} \subseteq S
    BY <1>1
<1>4. Cardinality({a, b, x}) <= Cardinality(S)
    BY <1>3, FS_Subset
<1>5. Cardinality(S) \in Nat
    BY FS_CardinalityType
<1> QED BY <1>2, <1>4, <1>5

(* With every outline known, a door joins the rooms it joins in the building. *)
LEMMA SidesAsBuilt ==
    ASSUME NEW p \in Plans, NEW d \in Doors
    PROVE  /\ RoomsOnEachSide(AsBuilt(p), d) = p.joins[d]
           /\ IsFiniteSet(p.joins[d]) /\ Cardinality(p.joins[d]) <= 2
           /\ RoomsOnEachSide(p, d) \subseteq p.joins[d]
<1>1. p.joins[d] \subseteq Rooms /\ Cardinality(p.joins[d]) <= 2
    BY DEF Plans
<1>2. AsBuilt(p).joins = p.joins /\ AsBuilt(p).outlined = Rooms
    BY DEF Plans, AsBuilt
<1>3. IsFiniteSet(p.joins[d])
    BY <1>1, PlanAssumption, FS_Subset DEF PlanAssumption
<1> QED BY <1>1, <1>2, <1>3 DEF RoomsOnEachSide

(* The connections of the graph are doors of the building. *)
LEMMA EdgesAreReal ==
    ASSUME NEW p \in Plans, NEW a, NEW b, AreDirectlyConnected(p, a, b)
    PROVE  AreDirectlyConnected(AsBuilt(p), a, b)
<1>1. a # b
    BY DEF AreDirectlyConnected
<1>2. PICK d \in Doors : RoomsOnEachSide(p, d) = {a, b}
    BY DEF AreDirectlyConnected
<1>3. p.joins[d] = {a, b}
    <2>1. a \in p.joins[d] /\ b \in p.joins[d]
        BY <1>2, SidesAsBuilt
    <2> QED BY <1>1, <2>1, SidesAsBuilt, TwoAtMost
<1>4. RoomsOnEachSide(AsBuilt(p), d) = {a, b}
    BY <1>3, SidesAsBuilt
<1> QED BY <1>1, <1>4 DEF AreDirectlyConnected

(* spatial_graph.py can_reach_exit and has_path with rooms whose polygon could
   not be parsed: a path through the graph is a path through the building. *)
THEOREM PathsAreReal ==
    ASSUME NEW p \in Plans, NEW a, NEW b, HasPath(p, a, b)
    PROVE  HasPath(AsBuilt(p), a, b)
<1> SUFFICES ASSUME NEW S \in SUBSET Rooms, a \in S,
                    \A x \in S, y \in Rooms : AreDirectlyConnected(AsBuilt(p), x, y) => y \in S
             PROVE  b \in S
    BY DEF HasPath
<1>1. \A x \in S, y \in Rooms : AreDirectlyConnected(p, x, y) => y \in S
    BY EdgesAreReal
<1> QED BY <1>1 DEF HasPath

(* spatial_graph.py _add_door_edges: a door beside a room without a polygon is
   read as a way out, so missing outlines never take an exit away: a room with
   an outline that reaches an exit of the building reaches one in the graph. *)
THEOREM HolesHideNoExit ==
    ASSUME NEW p \in Plans, NEW r \in p.outlined, CanReachExit(AsBuilt(p), r)
    PROVE  CanReachExit(p, r)
<1> DEFINE T == {x \in Rooms : HasPath(p, r, x)}
<1> SUFFICES ASSUME ~CanReachExit(p, r) PROVE FALSE
    OBVIOUS
<1>0. p.outlined \subseteq Rooms
    BY DEF Plans
<1>1. \A x \in T : ~HasExteriorDoor(p, x)
    BY DEF CanReachExit
<1>2. r \in T
    BY <1>0 DEF HasPath
<1>3. T \subseteq p.outlined
    <2>1. \A x, y : AreDirectlyConnected(p, x, y) => y \in p.outlined
        BY DEF AreDirectlyConnected, RoomsOnEachSide
    <2>2. SUFFICES ASSUME NEW x \in T PROVE x \in p.outlined
        OBVIOUS
    <2> QED BY <2>1, <2>2, <1>0 DEF HasPath
<1>4. \A x \in T, y \in Rooms : AreDirectlyConnected(AsBuilt(p), x, y) => y \in T
    <2> SUFFICES ASSUME NEW x \in T, NEW y \in Rooms,
                        AreDirectlyConnected(AsBuilt(p), x, y)
                 PROVE  y \in T
        OBVIOUS
    <2>1. PICK d \in Doors : RoomsOnEachSide(AsBuilt(p), d) = {x, y}
        BY DEF AreDirectlyConnected
    <2>2. x # y
        BY DEF AreDirectlyConnected
    <2>3. p.joins[d] = {x, y}
        BY <2>1, SidesAsBuilt
    <2>4. x \in p.outlined
        BY <1>3
    <2>5. y \in p.outlined
        <3>1. SUFFICES ASSUME y \notin p.outlined PROVE FALSE
            OBVIOUS
        <3>2. RoomsOnEachSide(p, d) = {x}
            BY <2>3, <2>4, <3>1 DEF RoomsOnEachSide
        <3>3. HasExteriorDoor(p, x)
            BY <3>2 DEF HasExteriorDoor
        <3> QED BY <3>3, <1>1
    <2>6. RoomsOnEachSide(p, d) = {x, y}
        BY <2>3, <2>4, <2>5 DEF RoomsOnEachSide
    <2>7. AreDirectlyConnected(p, x, y)
        BY <2>2, <2>6 DEF AreDirectlyConnected
    <2> QED BY <2>7 DEF HasPath
<1>5. PICK s \in Rooms : HasExteriorDoor(AsBuilt(p), s) /\ HasPath(AsBuilt(p), r, s)
    BY DEF CanReachExit
<1>6. s \in T
    <2>1. T \in SUBSET Rooms
        OBVIOUS
    <2> HIDE DEF T
    <2> QED BY <1>2, <1>4, <1>5, <2>1 DEF HasPath
<1>7. HasExteriorDoor(p, s)
    <2>1. PICK d \in Doors : RoomsOnEachSide(AsBuilt(p), d) = {s}
        BY <1>5 DEF HasExteriorDoor
    <2>2. p.joins[d] = {s} /\ s \in p.outlined
        BY <2>1, <1>3, <1>6, SidesAsBuilt
    <2>3. RoomsOnEachSide(p, d) = {s}
        BY <2>2 DEF RoomsOnEachSide
    <2> QED BY <2>3 DEF HasExteriorDoor
<1> QED BY <1>1, <1>6, <1>7

(* The queries depend on nothing but the outlines and the doors. *)
LEMMA SameGraph ==
    ASSUME NEW p, NEW q, p.joins = q.joins, p.outlined = q.outlined
    PROVE  /\ \A x, y : AreDirectlyConnected(p, x, y) <=> AreDirectlyConnected(q, x, y)
           /\ \A x, y : HasPath(p, x, y) <=> HasPath(q, x, y)
           /\ \A r : CanReachExit(p, r) <=> CanReachExit(q, r)
<1>1. \A d : RoomsOnEachSide(p, d) = RoomsOnEachSide(q, d)
    BY DEF RoomsOnEachSide
<1>2. \A x, y : AreDirectlyConnected(p, x, y) <=> AreDirectlyConnected(q, x, y)
    BY <1>1 DEF AreDirectlyConnected
<1>3. \A x, y : HasPath(p, x, y) <=> HasPath(q, x, y)
    BY <1>2 DEF HasPath
<1>4. \A x : HasExteriorDoor(p, x) <=> HasExteriorDoor(q, x)
    BY <1>1 DEF HasExteriorDoor
<1> QED BY <1>2, <1>3, <1>4 DEF CanReachExit

(***************************************************************************)
(* The findings.                                                           *)
(***************************************************************************)

(* A record with the fields of Finding, about that article, by that agent. *)
IsFinding(f) ==
    f = [agent |-> f.agent, article |-> f.article, element |-> f.element,
         verdict |-> f.verdict, severity |-> f.severity, unsupported |-> f.unsupported]

Made(f, agent, article) ==
    IsFinding(f) /\ f.agent = agent /\ f.article = article /\ f.verdict \in Verdicts

LEMMA FindingMade ==
    ASSUME NEW agent, NEW article, NEW element, NEW verdict \in Verdicts
    PROVE  /\ Made(Finding(agent, article, element, verdict), agent, article)
           /\ Finding(agent, article, element, verdict).element = element
           /\ Finding(agent, article, element, verdict).verdict = verdict
BY DEF Made, IsFinding, Finding

LEMMA AnswerMade ==
    ASSUME NEW agent, NEW c, NEW element, NEW b
    PROVE  /\ Made(Review(agent, c, b), agent, c.id)
           /\ Made(Blocked(agent, c, element), agent, c.id)
           /\ Made(Decided(agent, c, element, b), agent, c.id)
           /\ Review(agent, c, b).verdict = "NEEDS_REVIEW"
           /\ Blocked(agent, c, element).verdict = "NOT_EVALUATED"
           /\ Decided(agent, c, element, b).verdict = IF b THEN "PASS" ELSE "FAIL"
<1>1. Made(Review(agent, c, b), agent, c.id) /\ Review(agent, c, b).verdict = "NEEDS_REVIEW"
    <2> DEFINE f == Finding(agent, c.id, WholePlan, "NEEDS_REVIEW")
    <2>1. Made(f, agent, c.id) /\ f.verdict = "NEEDS_REVIEW"
        BY FindingMade DEF Verdicts
    <2>2. Review(agent, c, b) = [f EXCEPT !.unsupported = b]
        BY DEF Review
    <2> HIDE DEF f
    <2> QED BY <2>1, <2>2 DEF Made, IsFinding
<1>2. Made(Blocked(agent, c, element), agent, c.id)
      /\ Blocked(agent, c, element).verdict = "NOT_EVALUATED"
    BY FindingMade DEF Blocked, Verdicts
<1>3. Made(Decided(agent, c, element, b), agent, c.id)
      /\ Decided(agent, c, element, b).verdict = IF b THEN "PASS" ELSE "FAIL"
    BY FindingMade DEF Decided, Verdicts
<1> QED BY <1>1, <1>2, <1>3

(* Every finding on a clause names the clause and the agent. *)
LEMMA ClauseFindings ==
    ASSUME NEW p, NEW c
    PROVE  /\ \A f \in NumericCheck(p, c) : Made(f, "numeric", c.id)
           /\ \A f \in TopologyCheck(p, c) : Made(f, "topology", c.id)
           /\ \A f \in OpeningCheck(p, c) : Made(f, "opening", c.id)
           /\ \A f \in SafetyCheck(p, c) : Made(f, "safety", c.id)
<1>1. \A f \in NumericCheck(p, c) : Made(f, "numeric", c.id)
    <2>1. \A e : Made(MeasureOne(p, c, e), "numeric", c.id)
        BY AnswerMade DEF MeasureOne
    <2> QED BY <2>1, AnswerMade DEF NumericCheck
<1>2. \A f \in TopologyCheck(p, c) : Made(f, "topology", c.id)
    <2>1. Made(MustNotConnect(p, c), "topology", c.id)
        BY AnswerMade DEF MustNotConnect
    <2>2. Made(MustConnect(p, c), "topology", c.id)
        BY AnswerMade DEF MustConnect
    <2>3. Made(MustHaveAccess(p, c), "topology", c.id)
        BY AnswerMade DEF MustHaveAccess
    <2> QED BY <2>1, <2>2, <2>3, AnswerMade DEF TopologyCheck
<1>3. \A f \in OpeningCheck(p, c) : Made(f, "opening", c.id)
    <2>1. Made(CheckGlazingRatio(p, c), "opening", c.id)
        BY AnswerMade DEF CheckGlazingRatio
    <2> QED BY <2>1, AnswerMade DEF OpeningCheck
<1>4. \A f \in SafetyCheck(p, c) : Made(f, "safety", c.id)
    <2>1. Made(CheckGuard(p, c), "safety", c.id)
        BY AnswerMade DEF CheckGuard
    <2>2. Made(CheckStairPresence(p, c), "safety", c.id)
        BY AnswerMade DEF CheckStairPresence
    <2>3. Made(CheckEgressRule(p, c), "safety", c.id)
        BY AnswerMade DEF CheckEgressRule
    <2> QED BY <2>1, <2>2, <2>3 DEF SafetyCheck
<1> QED BY <1>1, <1>2, <1>3, <1>4

LEMMA TrappedRooms ==
    ASSUME NEW p, NEW r \in Trapped(p)
    PROVE  r \in Rooms /\ ~CanReachExit(p, r)
BY DEF Trapped, HabitableRooms, RoomsByCategory

(* Only the standalone check of the safety agent speaks of egress_reachability,
   and only about rooms that the graph has no way out of. *)
TrueOf(p, f) ==
    /\ IsFinding(f) /\ f.verdict \in Verdicts
    /\ f.article = "egress_reachability" => f.element \in Rooms /\ ~CanReachExit(p, f.element)

LEMMA AgentsTellOfPlan ==
    ASSUME NEW p, NEW bk, \A c \in bk : c.id \notin StandaloneArticles, NEW a \in Agents,
           NEW f \in AgentFindings(a, p, bk)
    PROVE  TrueOf(p, f) /\ f.agent = a
<1>1. ASSUME NEW c \in bk, Made(f, a, c.id) PROVE TrueOf(p, f) /\ f.agent = a
    BY <1>1 DEF TrueOf, Made, StandaloneArticles
<1>2. CASE a = "numeric"
    <2>1. PICK c \in OfRule(bk, "numeric") : f \in NumericCheck(p, c)
        BY <1>2 DEF AgentFindings
    <2>2. c \in bk /\ Made(f, a, c.id)
        BY <2>1, <1>2, ClauseFindings DEF OfRule
    <2> QED BY <2>2, <1>1
<1>3. CASE a = "topology"
    <2>1. PICK c \in OfRule(bk, "spatial") : f \in TopologyCheck(p, c)
        BY <1>3 DEF AgentFindings
    <2>2. c \in bk /\ Made(f, a, c.id)
        BY <2>1, <1>3, ClauseFindings DEF OfRule
    <2> QED BY <2>2, <1>1
<1>4. CASE a = "opening"
    <2>1. CASE \E c \in bk : f \in OpeningCheck(p, c)
        <3>1. PICK c \in bk : f \in OpeningCheck(p, c)
            BY <2>1
        <3> QED BY <3>1, <1>1, <1>4, ClauseFindings
    <2>2. CASE f \in CheckLightPresence(p)
        <3>1. PICK r : f = Finding("opening", "natural_light_presence", r, "FAIL")
            BY <2>2 DEF CheckLightPresence
        <3> QED BY <3>1, <1>4, FindingMade DEF TrueOf, Made, Verdicts
    <2> QED BY <2>1, <2>2, <1>4 DEF AgentFindings
<1>5. CASE a = "safety"
    <2>1. CASE \E c \in bk : f \in SafetyCheck(p, c)
        <3>1. PICK c \in bk : f \in SafetyCheck(p, c)
            BY <2>1
        <3> QED BY <3>1, <1>1, <1>5, ClauseFindings
    <2>2. CASE f = Finding("safety", "egress_presence", WholePlan, "FAIL")
        BY <2>2, <1>5, FindingMade DEF TrueOf, Made, Verdicts
    <2>3. CASE \E r \in Trapped(p) : f = Finding("safety", "egress_reachability", r, "FAIL")
        <3>1. PICK r \in Trapped(p) : f = Finding("safety", "egress_reachability", r, "FAIL")
            BY <2>3
        <3>2. r \in Rooms /\ ~CanReachExit(p, r)
            BY TrappedRooms
        <3>3. IsFinding(f) /\ f.verdict \in Verdicts /\ f.element = r /\ f.agent = a
            BY <3>1, <1>5, FindingMade DEF Made, Verdicts
        <3> QED BY <3>2, <3>3 DEF TrueOf
    <2>4. f \in CheckEgressAllRooms(p) =>
             \/ f = Finding("safety", "egress_presence", WholePlan, "FAIL")
             \/ \E r \in Trapped(p) : f = Finding("safety", "egress_reachability", r, "FAIL")
        BY DEF CheckEgressAllRooms
    <2> QED BY <2>1, <2>2, <2>3, <2>4, <1>5 DEF AgentFindings
<1> QED BY <1>2, <1>3, <1>4, <1>5 DEF Agents
-------------------------------------------------------------------------------
(* The inductive invariant *)

Early == {"parse", "merge", "prepare", "quality", "graph"}

(* Reading and normalising change sizes and room types, never the doors and the
   outlines. *)
GraphOfDocument ==
    /\ DOMAIN plan = DOMAIN in.plan
    /\ plan.joins = in.plan.joins /\ plan.outlined = in.plan.outlined

ToldOfPlan == \A a \in DOMAIN byAgent : byAgent[a] = AgentFindings(a, plan, book)
Told       == UNION {AgentFindings(a, plan, book) : a \in Agents}

(* Findings are what the agents said of the plan; once published, what they
   said after the downgrade. *)
FindingsTellOfPlan ==
    /\ pc \in Early => byAgent = <<>>
    /\ pc \in {"agents", "sequential", "collect"} => ToldOfPlan
    /\ pc = "collect" => Agents \subseteq DOMAIN byAgent
    /\ pc = "downgrade" => findings = Told
    /\ pc # "downgrade" /\ ~Published => findings = {}
    /\ Published => /\ pc \in {"coverage", "report", "done"}
                    /\ findings = {Downgraded(f) : f \in Told}

PipelineInv == request \in Requests /\ GraphOfDocument /\ FindingsTellOfPlan

USE DEF PipelineInv

LEMMA InitPipelineInv == Init => PipelineInv
<1> SUFFICES ASSUME Init PROVE PipelineInv
    OBVIOUS
<1>1. request \in Requests /\ GraphOfDocument
    BY DEF Init, GraphOfDocument, in
<1>2. FindingsTellOfPlan
    BY DEF Init, FindingsTellOfPlan, Published, Early
<1> QED BY <1>1, <1>2

(* The three steps that write the plan. *)
LEMMA DocumentIsAPlan ==
    ASSUME request \in Requests
    PROVE  /\ in.plan \in Plans /\ in.site \in Plans /\ Recorded(in)
           /\ \A c \in book : c.id \notin StandaloneArticles
BY RequestAssumption DEF RequestAssumption, Request, RequestTypes, in, book

LEMMA PreparingKeepsInv ==
    ASSUME PipelineInv, ParseIfc \/ ParseModel \/ Prepare
    PROVE  PipelineInv'
<1>0. "joins" \in DOMAIN plan /\ "outlined" \in DOMAIN plan
    BY DocumentIsAPlan DEF GraphOfDocument, Plans
<1>1. CASE ParseIfc
    <2>1. GraphOfDocument'
        BY <1>0, <1>1 DEF ParseIfc, GraphOfDocument, ReadIfc, in
    <2>2. FindingsTellOfPlan'
        BY <1>1 DEF ParseIfc, FindingsTellOfPlan, Published, Early, ReportOrEnd
    <2> QED BY <1>1, <2>1, <2>2 DEF ParseIfc
<1>2. CASE ParseModel
    BY <1>2 DEF ParseModel, GraphOfDocument, FindingsTellOfPlan, Published, Early, in
<1>3. CASE Prepare
    <2>1. GraphOfDocument'
        BY <1>0, <1>3 DEF Prepare, GraphOfDocument, NormalizeRoomCategories, in
    <2>2. FindingsTellOfPlan'
        BY <1>3 DEF Prepare, FindingsTellOfPlan, Published, Early
    <2> QED BY <1>3, <2>1, <2>2 DEF Prepare
<1> QED BY <1>1, <1>2, <1>3

(* The steps that leave the agents' findings alone. *)
LEMMA OtherStepsKeepInv ==
    ASSUME PipelineInv,
           \/ IfcMissing \/ LegacyParameters \/ MergeManualInputs \/ InvalidManualInputs
           \/ CheckQuality \/ BuildSpatialGraph \/ SpatialGraphRaises
           \/ BuildCoverage \/ WriteReports \/ UNCHANGED vars
    PROVE  PipelineInv'
<1>1. request' = request /\ plan' = plan /\ review' = review /\ byAgent' = byAgent
      /\ findings' = findings /\ compliance' = compliance
    BY DEF IfcMissing, LegacyParameters, MergeManualInputs, InvalidManualInputs, CheckQuality,
           BuildSpatialGraph, SpatialGraphRaises, BuildCoverage, WriteReports, Raise, vars
<1>2. request' \in Requests /\ GraphOfDocument' /\ (Published' <=> Published)
    BY <1>1 DEF GraphOfDocument, in, Published
<1>3. Told' = Told /\ {Downgraded(f) : f \in Told}' = {Downgraded(f) : f \in Told}
    BY <1>1 DEF Told, Downgraded, Withdrawn, book
<1>4. ToldOfPlan' <=> ToldOfPlan
    BY <1>1 DEF ToldOfPlan, book
<1>5. CASE IfcMissing \/ LegacyParameters \/ InvalidManualInputs \/ SpatialGraphRaises
    BY <1>1, <1>2, <1>5 DEF IfcMissing, LegacyParameters, InvalidManualInputs,
       SpatialGraphRaises, Raise, FindingsTellOfPlan, Early
<1>6. CASE MergeManualInputs \/ CheckQuality
    BY <1>1, <1>2, <1>6 DEF MergeManualInputs, CheckQuality, ReportOrEnd,
       FindingsTellOfPlan, Early
<1>7. CASE BuildSpatialGraph
    <2>1. byAgent = <<>> /\ pc' \in {"agents", "sequential"} /\ ~Published
        BY <1>7 DEF BuildSpatialGraph, FindingsTellOfPlan, Early
    <2>2. ToldOfPlan'
        BY <1>1, <2>1 DEF ToldOfPlan
    <2> QED BY <1>1, <1>2, <2>1, <2>2, <1>7 DEF BuildSpatialGraph, FindingsTellOfPlan, Early
<1>8. CASE BuildCoverage \/ WriteReports
    BY <1>1, <1>2, <1>3, <1>8 DEF BuildCoverage, WriteReports, ReportOrEnd,
       FindingsTellOfPlan, Early
<1>9. CASE UNCHANGED vars
    BY <1>1, <1>2, <1>3, <1>4, <1>9 DEF FindingsTellOfPlan, vars
<1> QED BY <1>5, <1>6, <1>7, <1>8, <1>9

(* An agent answers, under LangGraph or in turn, or LangGraph gives up. *)
LEMMA AgentsKeepInv ==
    ASSUME PipelineInv,
           \/ \E a \in Agents : RunInGraph(a)
           \/ LangGraphFails
           \/ \E i \in 1 .. 4 : RunInTurn(i)
    PROVE  PipelineInv'
<1>1. ASSUME NEW a, Answer(a), ToldOfPlan
      PROVE  ToldOfPlan' /\ DOMAIN byAgent' = DOMAIN byAgent \cup {a}
    BY <1>1 DEF Answer, ToldOfPlan, book
<1>2. pc \in {"agents", "sequential"} /\ ~Published /\ ToldOfPlan /\ findings = {}
    BY DEF RunInGraph, LangGraphFails, RunInTurn, FindingsTellOfPlan
<1>3. CASE \E a \in Agents : RunInGraph(a)
    <2>1. PICK a \in Agents : RunInGraph(a)
        BY <1>3
    <2>2. ToldOfPlan' /\ DOMAIN byAgent' = DOMAIN byAgent \cup {a}
        BY <1>1, <1>2, <2>1 DEF RunInGraph
    <2>3. GraphOfDocument' /\ request' \in Requests /\ findings' = {} /\ ~Published'
        BY <1>2, <2>1 DEF RunInGraph, Answer, GraphOfDocument, in, Published
    <2>4. pc' \in {"agents", "collect"} /\ (pc' = "collect" => Agents \subseteq DOMAIN byAgent')
        BY <2>1, <2>2 DEF RunInGraph
    <2> QED BY <2>2, <2>3, <2>4 DEF FindingsTellOfPlan, Early
<1>4. CASE LangGraphFails
    <2>1. byAgent' = <<>> /\ pc' = "sequential"
        BY <1>4 DEF LangGraphFails
    <2>2. ToldOfPlan'
        BY <2>1 DEF ToldOfPlan
    <2>3. GraphOfDocument' /\ request' \in Requests /\ findings' = {} /\ ~Published'
        BY <1>2, <1>4 DEF LangGraphFails, GraphOfDocument, in, Published
    <2> QED BY <2>1, <2>2, <2>3 DEF FindingsTellOfPlan, Early
<1>5. CASE \E i \in 1 .. 4 : RunInTurn(i)
    <2>1. PICK i \in 1 .. 4 : RunInTurn(i)
        BY <1>5
    <2>2. ToldOfPlan' /\ DOMAIN byAgent' = DOMAIN byAgent \cup {RunnerOrder[i]}
        BY <1>1, <1>2, <2>1 DEF RunInTurn
    <2>3. GraphOfDocument' /\ request' \in Requests /\ findings' = {} /\ ~Published'
        BY <1>2, <2>1 DEF RunInTurn, Answer, GraphOfDocument, in, Published
    <2>4. pc' \in {"sequential", "collect"}
        BY <2>1 DEF RunInTurn
    <2>5. pc' = "collect" => Agents \subseteq DOMAIN byAgent'
        <3>1. SUFFICES ASSUME pc' = "collect" PROVE Agents \subseteq DOMAIN byAgent'
            OBVIOUS
        <3>2. i = 4
            BY <3>1, <2>1 DEF RunInTurn
        <3>3. DOMAIN byAgent = {RunnerOrder[j] : j \in 1 .. 3}
            BY <3>2, <2>1 DEF RunInTurn
        <3>4. 1 \in 1 .. 3 /\ 2 \in 1 .. 3 /\ 3 \in 1 .. 3
            OBVIOUS
        <3>5. {"numeric", "topology", "opening"} \subseteq DOMAIN byAgent
            BY <3>3, <3>4 DEF RunnerOrder
        <3> QED BY <3>2, <3>5, <2>2 DEF RunnerOrder, Agents
    <2> QED BY <2>2, <2>3, <2>4, <2>5 DEF FindingsTellOfPlan, Early
<1> QED BY <1>3, <1>4, <1>5

LEMMA CollectKeepsInv == PipelineInv /\ CollectFindings => PipelineInv'
<1> SUFFICES ASSUME PipelineInv, CollectFindings PROVE PipelineInv'
    OBVIOUS
<1>1. pc = "collect" /\ pc' = "downgrade" /\ findings' = UNION {byAgent[a] : a \in Agents}
      /\ request' = request /\ plan' = plan /\ compliance' = compliance
    BY DEF CollectFindings
<1>2. ~Published /\ ToldOfPlan /\ Agents \subseteq DOMAIN byAgent
    BY <1>1 DEF FindingsTellOfPlan
<1>3. \A a \in Agents : byAgent[a] = AgentFindings(a, plan, book)
    BY <1>2 DEF ToldOfPlan
<1>4. findings' = Told'
    BY <1>1, <1>3 DEF Told, book
<1> QED BY <1>1, <1>2, <1>4 DEF FindingsTellOfPlan, GraphOfDocument, in, Published, Early

LEMMA DowngradeKeepsInv == PipelineInv /\ DowngradeFlagged => PipelineInv'
<1> SUFFICES ASSUME PipelineInv, DowngradeFlagged PROVE PipelineInv'
    OBVIOUS
<1>1. pc = "downgrade" /\ pc' = "coverage" /\ findings' = {Downgraded(f) : f \in findings}
      /\ request' = request /\ plan' = plan /\ review' = review
    BY DEF DowngradeFlagged
<1>2. Published'
    BY DEF DowngradeFlagged, StageStatus, Published
<1>3. findings = Told
    BY <1>1 DEF FindingsTellOfPlan
<1>4. findings' = {Downgraded(f) : f \in Told}'
    BY <1>1, <1>3 DEF Told, Downgraded, Withdrawn, book
<1> QED BY <1>1, <1>2, <1>4 DEF FindingsTellOfPlan, GraphOfDocument, in, Early

LEMMA StepPipelineInv == PipelineInv /\ [Next]_vars => PipelineInv'
BY PreparingKeepsInv, OtherStepsKeepInv, AgentsKeepInv, CollectKeepsInv, DowngradeKeepsInv
   DEF Next

(* The findings of every run are those of its agents, made of the plan whose
   doors and outlines are the document's. *)
THEOREM PipelineInvariant == Spec => []PipelineInv
BY InitPipelineInv, StepPipelineInv, PTL DEF Spec

-------------------------------------------------------------------------------
(* A PASS or FAIL that survived the downgrade is what the agent said. *)
LEMMA FinalIsAsTold ==
    ASSUME NEW f, NEW g, IsFinding(g), f = Downgraded(g), Final(f)
    PROVE  f = g
<1>1. SUFFICES ASSUME Withdrawn(g) PROVE FALSE
    BY DEF Downgraded
<1>2. f = [g EXCEPT !.verdict = "NOT_EVALUATED"]
    BY <1>1 DEF Downgraded
<1> QED BY <1>2 DEF IsFinding, Final

LEMMA TrustedDoors ==
    ASSUME request \in Requests, \A e \in Elements : in.provenance[e] # "doubtful"
    PROVE  in.plan.joins = in.site.joins
<1>1. \A d \in Doors : in.plan.joins[d] = in.site.joins[d]
    BY DocumentIsAPlan DEF Recorded, Elements
<1> QED BY <1>1, DocumentIsAPlan DEF Plans

(* safety_agent.check_egress_all_rooms and the steps after it: as long as the
   document doubts no element, a room with an outline that a report calls cut
   off from every exit is cut off in the building, whatever else is missing. *)
LEMMA TrapsAreReal == PipelineInv => EgressFailuresAreReal
<1> SUFFICES ASSUME PipelineInv, Published,
                    \A e \in Elements : in.provenance[e] # "doubtful",
                    NEW f \in findings,
                    f.article = "egress_reachability", f.verdict = "FAIL",
                    f.element \in plan.outlined
             PROVE  ~CanReachExit(AsBuilt(in.site), f.element)
    BY DEF EgressFailuresAreReal
<1>1. PICK g \in Told : f = Downgraded(g)
    BY DEF FindingsTellOfPlan
<1>2. TrueOf(plan, g)
    <2>1. \A c \in book : c.id \notin StandaloneArticles
        BY DocumentIsAPlan
    <2>2. PICK a \in Agents : g \in AgentFindings(a, plan, book)
        BY DEF Told
    <2> QED BY <2>1, <2>2, AgentsTellOfPlan
<1>3. f = g
    BY <1>1, <1>2, FinalIsAsTold DEF TrueOf, Final
<1>4. ~CanReachExit(plan, f.element)
    BY <1>2, <1>3 DEF TrueOf
<1>5. in.plan \in Plans /\ in.site \in Plans /\ Recorded(in)
    BY DocumentIsAPlan
<1>6. f.element \in in.plan.outlined /\ ~CanReachExit(in.plan, f.element)
    BY <1>4, SameGraph DEF GraphOfDocument
<1>7. ~CanReachExit(AsBuilt(in.plan), f.element)
    BY <1>5, <1>6, HolesHideNoExit
<1>8. in.plan.joins = in.site.joins
    BY TrustedDoors
<1>9. /\ AsBuilt(in.plan).joins = AsBuilt(in.site).joins
      /\ AsBuilt(in.plan).outlined = AsBuilt(in.site).outlined
    BY <1>5, <1>8 DEF AsBuilt, Plans
<1> QED BY <1>7, <1>9, SameGraph

(* Every report: a room with an outline that it calls cut off is cut off, as long
   as the document doubts nothing. *)
THEOREM EgressFailuresHold == Spec => []EgressFailuresAreReal
BY PipelineInvariant, TrapsAreReal, PTL

-------------------------------------------------------------------------------
(* The plan as the agents saw it, with every outline and the building's doors. *)
RealPlan == AsBuilt([plan EXCEPT !.joins = in.site.joins])

LEMMA RealPlanHasMore ==
    ASSUME PipelineInv, \A e \in Elements : in.provenance[e] # "doubtful", NEW c
    PROVE  /\ Subjects(RealPlan, c) = Subjects(plan, c)
           /\ Targets(RealPlan, c) = Targets(plan, c)
           /\ Touching(plan, c) \subseteq Touching(RealPlan, c)
           /\ \A x, y : HasPath(plan, x, y) => HasPath(RealPlan, x, y)
<1>1. in.plan \in Plans /\ in.plan.joins = in.site.joins
    BY DocumentIsAPlan, TrustedDoors
<1>2. DOMAIN plan = DOMAIN in.plan /\ plan.joins = in.plan.joins /\ plan.outlined = in.plan.outlined
    BY DEF GraphOfDocument
<1>3. /\ RealPlan.joins = AsBuilt(in.plan).joins
      /\ RealPlan.outlined = AsBuilt(in.plan).outlined
      /\ RealPlan.category = plan.category
    <2>1. {"joins", "outlined", "category"} \subseteq DOMAIN in.plan
        BY <1>1 DEF Plans
    <2>2. AsBuilt(in.plan).joins = in.plan.joins /\ AsBuilt(in.plan).outlined = Rooms
        BY <2>1 DEF AsBuilt
    <2>3. RealPlan.joins = in.site.joins /\ RealPlan.outlined = Rooms
          /\ RealPlan.category = plan.category
        BY <1>2, <2>1 DEF RealPlan, AsBuilt
    <2> QED BY <1>1, <2>2, <2>3
<1>4. \A x, y : AreDirectlyConnected(plan, x, y) => AreDirectlyConnected(RealPlan, x, y)
    BY <1>1, <1>2, <1>3, SameGraph, EdgesAreReal
<1>5. \A x, y : HasPath(plan, x, y) => HasPath(RealPlan, x, y)
    BY <1>1, <1>2, <1>3, SameGraph, PathsAreReal
<1>6. Subjects(RealPlan, c) = Subjects(plan, c) /\ Targets(RealPlan, c) = Targets(plan, c)
    BY <1>3 DEF Subjects, Targets, RoomsByCategory
<1> QED BY <1>4, <1>5, <1>6 DEF Touching

(* What a decided topology clause says of the plan. *)
LEMMA TopologySays ==
    ASSUME NEW p, NEW c, NEW f \in TopologyCheck(p, c), Final(f)
    PROVE  /\ c.relation = "must_not_connect_to" /\ f.verdict = "FAIL" => Touching(p, c) # {}
           /\ c.relation \in ConnectRelations /\ f.verdict = "PASS" => Touching(p, c) # {}
           /\ c.relation \in AccessRelations /\ f.verdict = "PASS" => Stranded(p, c) = {}
<1>1. c.entities
    BY AnswerMade DEF TopologyCheck, Final
<1>2. CASE c.relation = "must_not_connect_to"
    <2>1. f = MustNotConnect(p, c)
        BY <1>1, <1>2 DEF TopologyCheck, ConnectRelations, AccessRelations
    <2> QED BY <1>2, <2>1, AnswerMade DEF MustNotConnect, Final, ConnectRelations, AccessRelations
<1>3. CASE c.relation \in ConnectRelations
    <2>1. f = MustConnect(p, c)
        BY <1>1, <1>3 DEF TopologyCheck, ConnectRelations, AccessRelations
    <2> QED BY <1>3, <2>1, AnswerMade DEF MustConnect, Final, ConnectRelations, AccessRelations
<1>4. CASE c.relation \in AccessRelations
    <2>1. f = MustHaveAccess(p, c)
        BY <1>1, <1>4 DEF TopologyCheck, ConnectRelations, AccessRelations
    <2> QED BY <1>4, <2>1, AnswerMade DEF MustHaveAccess, Final, ConnectRelations, AccessRelations
<1> QED BY <1>2, <1>3, <1>4

(* topology_agent and the steps after it: every door and every path that a
   topology verdict of a report rests on is in the building. *)
LEMMA VerdictsRestOnDoors == PipelineInv => ConnectionsAreReal
<1> SUFFICES ASSUME PipelineInv, Published,
                    \A e \in Elements : in.provenance[e] # "doubtful",
                    NEW f \in findings, f.agent = "topology", Final(f)
             PROVE  LET c == ClauseOf(f)
                    IN  /\ c.relation = "must_not_connect_to" /\ f.verdict = "FAIL" =>
                                Touching(RealPlan, c) # {}
                        /\ c.relation \in ConnectRelations /\ f.verdict = "PASS" =>
                                Touching(RealPlan, c) # {}
                        /\ c.relation \in AccessRelations /\ BothMapped(c) /\ f.verdict = "PASS" =>
                                \A s \in Subjects(RealPlan, c) :
                                    \E t \in Targets(RealPlan, c) : HasPath(RealPlan, s, t)
    BY DEF ConnectionsAreReal, RealPlan
<1>1. PICK a \in Agents : \E g \in AgentFindings(a, plan, book) : f = Downgraded(g)
    BY DEF FindingsTellOfPlan, Told
<1>7. PICK g \in AgentFindings(a, plan, book) : f = Downgraded(g)
    BY <1>1
<1>2. TrueOf(plan, g) /\ g.agent = a
    BY DocumentIsAPlan, AgentsTellOfPlan
<1>3. f = g /\ a = "topology"
    BY <1>7, <1>2, FinalIsAsTold DEF TrueOf
<1>4. PICK c \in OfRule(book, "spatial") : f \in TopologyCheck(plan, c)
    BY <1>1, <1>3 DEF AgentFindings
<1>5. ClauseOf(f) = c
    <2>1. c \in book /\ f.article = c.id
        BY <1>4, ClauseFindings DEF Made, OfRule
    <2>2. \A k \in book : k.id = c.id => k = c
        BY <2>1, RequestAssumption DEF RequestAssumption, Request, book
    <2> QED BY <2>1, <2>2 DEF ClauseOf
<1>6. Stranded(plan, c) = {} /\ BothMapped(c) =>
          \A s \in Subjects(plan, c) : \E t \in Targets(plan, c) : HasPath(plan, s, t)
    BY DEF Stranded, HasAccess, BothMapped
<1> QED BY <1>4, <1>5, <1>6, TopologySays, RealPlanHasMore

(* Every report: the doors and paths of its topology verdicts are in the building. *)
THEOREM ConnectionsHold == Spec => []ConnectionsAreReal
BY PipelineInvariant, VerdictsRestOnDoors, PTL
-------------------------------------------------------------------------------
(* The course of a run: what it carries from the document to the report. *)

(* Past the review pre-pass, and not cut short before it. *)
Prepared == pc \in {"quality", "graph", "agents", "sequential", "collect", "downgrade"} \/ Published

(* Reading and normalising never put a size where the document has none, except
   the width 0 of a door of an IFC file, and never change one it has, except the
   area 0. *)
SizesOfDocument ==
    /\ pc = "parse" => plan = in.plan
    /\ plan.ceiling = in.plan.ceiling /\ plan.asserted = in.plan.asserted
    /\ \A d \in Doors : \/ plan.width[d] = in.plan.width[d]
                        \/ in.source = "ifc" /\ in.plan.width[d] = Missing
    /\ \A r \in Rooms : plan.area[r] \in {in.plan.area[r], Missing}

DoubtIsKept == Prepared => \A e \in Elements : in.provenance[e] = "doubtful" => e \in review

(* The summary and the lists by agent, before and after the downgrade. *)
AnswersAreKept ==
    /\ pc = "downgrade" => /\ ToldOfPlan /\ Agents \subseteq DOMAIN byAgent
                           /\ summary = Summarise(findings)
    /\ Published =>
          /\ \A a \in Agents : byAgent[a] = {Downgraded(f) : f \in AgentFindings(a, plan, book)}
          /\ summary = Summarise(findings)

(* Which runs get where, and what the report says of them. *)
CourseOfRun ==
    /\ pc \in {"parse", "merge", "prepare"} \/ Prepared => schema # "failed"
    /\ pc = "coverage" => Published
    /\ pc \in {"graph", "agents", "sequential", "collect", "downgrade"} \/ Published =>
          in.mode = "full_check"
    /\ pc \in {"report", "done"} /\ ~Published => schema = "failed" \/ in.mode = "precheck"
    /\ pc \in {"report", "done"} /\ Published =>
          coverage = [id \in {c.id : c \in book} |-> ClauseClass(CHOOSE c \in book : c.id = id)]
    /\ overall # "none" => pc = "done" /\ overall = OverallStatus

CourseInv == SizesOfDocument /\ DoubtIsKept /\ AnswersAreKept /\ CourseOfRun

LEMMA InitCourseInv == Init => CourseInv
BY DEF Init, CourseInv, SizesOfDocument, DoubtIsKept, AnswersAreKept, CourseOfRun, Prepared,
       Published, in

(* What a plan has, and keeps while it is read. *)
LEMMA PlanFields ==
    ASSUME PipelineInv
    PROVE  {"category", "outlined", "area", "joins", "width", "faces", "outer", "glass",
            "stairs", "railings", "ceiling", "asserted"} \subseteq DOMAIN plan
BY DocumentIsAPlan DEF GraphOfDocument, Plans

LEMMA SizesKept ==
    ASSUME PipelineInv, SizesOfDocument, [Next]_vars
    PROVE  SizesOfDocument'
<1>1. CASE ParseIfc
    <2>1. plan = in.plan /\ request' = request /\ pc' # "parse" /\ in.source = "ifc"
        BY <1>1 DEF ParseIfc, SizesOfDocument, ReportOrEnd
    <2>2. CASE plan' = plan
        BY <2>1, <2>2 DEF SizesOfDocument, in
    <2>3. CASE plan' = ReadIfc(plan)
        <3>1. /\ plan'.ceiling = plan.ceiling /\ plan'.asserted = plan.asserted
              /\ plan'.width = OrZero(plan.width)
              /\ plan'.area = [r \in Rooms |-> IF plan.area[r] = 0 THEN Missing ELSE plan.area[r]]
            BY <2>3, PlanFields DEF ReadIfc
        <3>2. DOMAIN plan.width = Doors
            BY <2>1, DocumentIsAPlan DEF Plans
        <3>3. \A d \in Doors : plan'.width[d] = plan.width[d] \/ plan.width[d] = Missing
            BY <3>1, <3>2 DEF OrZero
        <3>4. \A r \in Rooms : plan'.area[r] \in {plan.area[r], Missing}
            BY <3>1
        <3> QED BY <2>1, <3>1, <3>3, <3>4 DEF SizesOfDocument, in
    <2> QED BY <1>1, <2>2, <2>3 DEF ParseIfc
<1>2. CASE Prepare
    <2>1. /\ plan'.ceiling = plan.ceiling /\ plan'.asserted = plan.asserted
          /\ plan'.width = plan.width /\ plan'.area = plan.area
        BY <1>2, PlanFields DEF Prepare, NormalizeRoomCategories
    <2>2. request' = request /\ pc' # "parse"
        BY <1>2 DEF Prepare
    <2> QED BY <2>1, <2>2 DEF SizesOfDocument, in
<1>3. ASSUME plan' = plan, request' = request, pc' # "parse" \/ pc' = pc PROVE SizesOfDocument'
    BY <1>3 DEF SizesOfDocument, in
<1>4. CASE ~ParseIfc /\ ~Prepare
    BY <1>3, <1>4 DEF Next, vars, IfcMissing, ParseModel, LegacyParameters, MergeManualInputs,
       InvalidManualInputs, CheckQuality, BuildSpatialGraph, SpatialGraphRaises, RunInGraph,
       LangGraphFails, RunInTurn, Answer, CollectFindings, DowngradeFlagged, BuildCoverage,
       WriteReports, Raise, ReportOrEnd
<1> QED BY <1>1, <1>2, <1>4
(* Only the pre-pass writes the review set, and no step goes back before it. *)
LEMMA DoubtKept ==
    ASSUME PipelineInv, DoubtIsKept, [Next]_vars
    PROVE  DoubtIsKept'
<1>1. CASE Prepare
    BY <1>1 DEF Prepare, DoubtIsKept, ReviewNeeded, in
<1>2. ASSUME review' = review, request' = request, Prepared' => Prepared PROVE DoubtIsKept'
    BY <1>2 DEF DoubtIsKept, in
<1>3. CASE DowngradeFlagged
    BY <1>2, <1>3 DEF DowngradeFlagged, Prepared
<1>4. CASE \/ ParseIfc \/ IfcMissing \/ ParseModel \/ LegacyParameters \/ MergeManualInputs
           \/ InvalidManualInputs \/ CheckQuality \/ BuildSpatialGraph \/ SpatialGraphRaises
           \/ BuildCoverage \/ WriteReports \/ UNCHANGED vars
    BY <1>2, <1>4 DEF ParseIfc, IfcMissing, ParseModel, LegacyParameters, MergeManualInputs,
       InvalidManualInputs, CheckQuality, BuildSpatialGraph, SpatialGraphRaises, BuildCoverage,
       WriteReports, Raise, ReportOrEnd, Prepared, Published, vars
<1>5. CASE \/ \E a \in Agents : RunInGraph(a)
           \/ LangGraphFails
           \/ \E i \in 1 .. 4 : RunInTurn(i)
           \/ CollectFindings
    BY <1>2, <1>5 DEF RunInGraph, LangGraphFails, RunInTurn, Answer, CollectFindings, Prepared,
       Published
<1> QED BY <1>1, <1>3, <1>4, <1>5 DEF Next

LEMMA AnswersKept ==
    ASSUME PipelineInv, AnswersAreKept, [Next]_vars
    PROVE  AnswersAreKept'
<1>1. CASE CollectFindings
    <2>1. pc = "collect" /\ pc' = "downgrade" /\ summary' = Summarise(findings')
          /\ UNCHANGED <<byAgent, plan, request, compliance>>
        BY <1>1 DEF CollectFindings
    <2>2. ToldOfPlan /\ Agents \subseteq DOMAIN byAgent /\ ~Published
        BY <2>1 DEF FindingsTellOfPlan
    <2>3. ToldOfPlan' /\ ~Published'
        BY <2>1, <2>2 DEF ToldOfPlan, book, Published
    <2> QED BY <2>1, <2>2, <2>3 DEF AnswersAreKept
<1>2. CASE DowngradeFlagged
    <2>1. /\ pc = "downgrade" /\ pc' = "coverage"
          /\ findings' = {Downgraded(f) : f \in findings}
          /\ byAgent' = [a \in Agents |-> {Downgraded(f) : f \in byAgent[a]}]
          /\ summary' = IF \E f \in findings : Withdrawn(f) THEN Summarise(findings') ELSE summary
          /\ UNCHANGED <<plan, request, review>>
        BY <1>2 DEF DowngradeFlagged
    <2>2. ToldOfPlan /\ Agents \subseteq DOMAIN byAgent /\ summary = Summarise(findings)
        BY <2>1 DEF AnswersAreKept
    <2>3. summary' = Summarise(findings')
        <3>1. ASSUME ~\E f \in findings : Withdrawn(f) PROVE findings' = findings
            BY <2>1, <3>1 DEF Downgraded
        <3> QED BY <2>1, <2>2, <3>1
    <2>4. \A a \in Agents :
             byAgent'[a] = {Downgraded(f) : f \in AgentFindings(a, plan, book)}
        BY <2>1, <2>2 DEF ToldOfPlan
    <2>5. (\A a \in Agents : byAgent[a] = {Downgraded(f) : f \in AgentFindings(a, plan, book)})'
        BY <2>1, <2>4 DEF Downgraded, Withdrawn, book
    <2> QED BY <2>1, <2>3, <2>5 DEF AnswersAreKept
<1>3. ASSUME UNCHANGED <<byAgent, plan, request, review, findings, summary, compliance>>,
             pc' # "downgrade" \/ pc' = pc
      PROVE  AnswersAreKept'
    <2>1. (pc' = "downgrade" => pc = "downgrade") /\ (Published' <=> Published)
        BY <1>3 DEF Published
    <2>2. ToldOfPlan' <=> ToldOfPlan
        BY <1>3 DEF ToldOfPlan, book
    <2>3. (\A a \in Agents : byAgent[a] = {Downgraded(f) : f \in AgentFindings(a, plan, book)})
          => (\A a \in Agents : byAgent[a] = {Downgraded(f) : f \in AgentFindings(a, plan, book)})'
        BY <1>3 DEF Downgraded, Withdrawn, book
    <2> QED BY <1>3, <2>1, <2>2, <2>3 DEF AnswersAreKept
<1>4. CASE \/ IfcMissing \/ ParseModel \/ LegacyParameters \/ MergeManualInputs
           \/ InvalidManualInputs \/ CheckQuality \/ BuildSpatialGraph \/ SpatialGraphRaises
           \/ BuildCoverage \/ WriteReports \/ UNCHANGED vars
    BY <1>3, <1>4 DEF IfcMissing, ParseModel, LegacyParameters, MergeManualInputs,
       InvalidManualInputs, CheckQuality, BuildSpatialGraph, SpatialGraphRaises, BuildCoverage,
       WriteReports, Raise, ReportOrEnd, vars
<1>5. CASE \/ ParseIfc \/ Prepare
           \/ \E a \in Agents : RunInGraph(a)
           \/ LangGraphFails
           \/ \E i \in 1 .. 4 : RunInTurn(i)
    <2>1. ~Published /\ pc' # "downgrade" /\ compliance' = compliance
        BY <1>5 DEF ParseIfc, Prepare, RunInGraph, LangGraphFails, RunInTurn, Answer, ReportOrEnd,
           FindingsTellOfPlan
    <2> QED BY <2>1 DEF AnswersAreKept, Published
<1> QED BY <1>1, <1>2, <1>4, <1>5 DEF Next

LEMMA CourseKept ==
    ASSUME PipelineInv, CourseOfRun, [Next]_vars
    PROVE  CourseOfRun'
<1>1. CASE \/ ParseIfc \/ IfcMissing \/ ParseModel \/ LegacyParameters \/ MergeManualInputs
           \/ InvalidManualInputs \/ Prepare \/ CheckQuality \/ BuildSpatialGraph
           \/ SpatialGraphRaises
    <2>1. /\ ~Published /\ compliance' = compliance /\ request' = request /\ overall' = overall
          /\ pc # "done"
        BY <1>1 DEF ParseIfc, IfcMissing, ParseModel, LegacyParameters, MergeManualInputs,
           InvalidManualInputs, Prepare, CheckQuality, BuildSpatialGraph, SpatialGraphRaises,
           Raise, FindingsTellOfPlan
    <2>2. overall' = "none" /\ ~Published' /\ in' = in
        BY <2>1 DEF CourseOfRun, Published, in
    <2>3. ASSUME pc' \in {"merge", "prepare", "quality"} => schema' # "failed",
                 pc' = "graph" => schema' # "failed" /\ in.mode = "full_check",
                 pc' \in {"agents", "sequential"} => schema' # "failed" /\ in.mode = "full_check",
                 pc' \notin {"parse", "collect", "downgrade", "coverage"},
                 pc' \in {"report", "done"} => schema' = "failed" \/ in.mode = "precheck"
          PROVE  CourseOfRun'
        BY <2>2, <2>3 DEF CourseOfRun, Prepared
    <2>4. CASE ParseIfc
        BY <2>3, <2>4 DEF ParseIfc, ReportOrEnd
    <2>5. CASE IfcMissing \/ LegacyParameters \/ InvalidManualInputs \/ SpatialGraphRaises
        BY <2>3, <2>5 DEF IfcMissing, LegacyParameters, InvalidManualInputs, SpatialGraphRaises,
           Raise
    <2>6. CASE ParseModel
        BY <2>3, <2>6 DEF ParseModel, CourseOfRun, FindingsTellOfPlan
    <2>7. CASE MergeManualInputs \/ Prepare
        BY <2>3, <2>7 DEF MergeManualInputs, Prepare, CourseOfRun, Prepared
    <2>8. CASE CheckQuality
        <3>1. in.mode \in {"precheck", "full_check"}
            BY RequestAssumption DEF RequestAssumption, Request, RequestTypes, in
        <3> QED BY <2>3, <2>8, <3>1 DEF CheckQuality, ReportOrEnd, CourseOfRun, Prepared
    <2>9. CASE BuildSpatialGraph
        BY <2>3, <2>9 DEF BuildSpatialGraph, CourseOfRun, Prepared
    <2> QED BY <1>1, <2>4, <2>5, <2>6, <2>7, <2>8, <2>9
<1>2. CASE \/ \E a \in Agents : RunInGraph(a)
           \/ LangGraphFails
           \/ \E i \in 1 .. 4 : RunInTurn(i)
           \/ CollectFindings \/ DowngradeFlagged
    <2>1. /\ pc \in {"agents", "sequential", "collect", "downgrade"}
          /\ pc' \in {"agents", "sequential", "collect", "downgrade", "coverage"}
          /\ request' = request /\ schema' = schema /\ overall' = overall
          /\ pc' = "coverage" => Published'
        BY <1>2 DEF RunInGraph, LangGraphFails, RunInTurn, Answer, CollectFindings,
           DowngradeFlagged, StageStatus, Published
    <2>2. overall' = "none"
        BY <2>1 DEF CourseOfRun
    <2> QED BY <2>1, <2>2 DEF CourseOfRun, Prepared, in
<1>3. ASSUME UNCHANGED <<request, findings, compliance, quality, schema>>
      PROVE  /\ \A c : ClauseClass(c)' = ClauseClass(c)
             /\ OverallStatus' = OverallStatus
             /\ Published' <=> Published
             /\ in' = in /\ book' = book
    <2>1. \A c : ClauseClass(c)' = ClauseClass(c)
        BY <1>3 DEF ClauseClass, ClassesOf
    <2>2. OverallStatus' = OverallStatus
        BY <1>3 DEF OverallStatus, PrecheckStatus, FullCheckStatus, Has, in
    <2> QED BY <1>3, <2>1, <2>2 DEF Published, in, book
<1>4. ASSUME UNCHANGED <<request, findings>>,
             coverage' = [id \in {c.id : c \in book} |->
                            ClauseClass(CHOOSE c \in book : c.id = id)]
      PROVE  (coverage = [id \in {c.id : c \in book} |->
                            ClauseClass(CHOOSE c \in book : c.id = id)])'
    BY <1>4 DEF ClauseClass, ClassesOf, book
<1>5. CASE BuildCoverage
    <2>1. /\ pc = "coverage" /\ pc' \in {"report", "done"} /\ overall' = overall
          /\ UNCHANGED <<request, findings, compliance, quality, schema>>
          /\ coverage' = [id \in {c.id : c \in book} |->
                             ClauseClass(CHOOSE c \in book : c.id = id)]
        BY <1>5 DEF BuildCoverage, ReportOrEnd
    <2>2. overall' = "none"
        BY <2>1 DEF CourseOfRun
    <2>3. Published
        BY <2>1 DEF CourseOfRun
    <2>4. (coverage = [id \in {c.id : c \in book} |->
                          ClauseClass(CHOOSE c \in book : c.id = id)])'
        BY <1>4, <2>1
    <2> QED BY <1>3, <2>1, <2>2, <2>3, <2>4 DEF CourseOfRun, Prepared
<1>6. CASE WriteReports
    <2>1. /\ pc = "report" /\ pc' = "done" /\ overall' = OverallStatus
          /\ UNCHANGED <<request, findings, compliance, quality, schema, coverage>>
        BY <1>6 DEF WriteReports
    <2>2. OverallStatus' = OverallStatus /\ (Published' <=> Published) /\ in' = in
        BY <1>3, <2>1
    <2>3. Published => (coverage = [id \in {c.id : c \in book} |->
                          ClauseClass(CHOOSE c \in book : c.id = id)])'
        <3>1. Published => coverage = [id \in {c.id : c \in book} |->
                          ClauseClass(CHOOSE c \in book : c.id = id)]
            BY <2>1 DEF CourseOfRun
        <3> QED BY <1>4, <2>1, <3>1
    <2> QED BY <2>1, <2>2, <2>3 DEF CourseOfRun, Prepared
<1>7. CASE UNCHANGED vars
    <2>1. /\ pc' = pc /\ overall' = overall
          /\ UNCHANGED <<request, findings, compliance, quality, schema, coverage>>
        BY <1>7 DEF vars
    <2>2. /\ OverallStatus' = OverallStatus /\ (Published' <=> Published) /\ in' = in
          /\ (Prepared' <=> Prepared)
        BY <1>3, <2>1 DEF Prepared
    <2>3. pc \in {"report", "done"} /\ Published =>
            (coverage = [id \in {c.id : c \in book} |->
                          ClauseClass(CHOOSE c \in book : c.id = id)])'
        <3>1. pc \in {"report", "done"} /\ Published =>
                coverage = [id \in {c.id : c \in book} |->
                              ClauseClass(CHOOSE c \in book : c.id = id)]
            BY DEF CourseOfRun
        <3> QED BY <1>4, <2>1, <3>1
    <2> QED BY <2>1, <2>2, <2>3 DEF CourseOfRun
<1> QED BY <1>1, <1>2, <1>5, <1>6, <1>7 DEF Next

LEMMA StepCourseInv == PipelineInv /\ CourseInv /\ [Next]_vars => CourseInv'
BY SizesKept, DoubtKept, AnswersKept, CourseKept DEF CourseInv

(* Every run keeps the sizes and the doubts of its document, and the report is
   about the findings of its agents. *)
THEOREM CourseInvariant == Spec => []CourseInv
BY InitCourseInv, StepCourseInv, PipelineInvariant, PTL DEF Spec

-------------------------------------------------------------------------------
(* What a report may be held to *)

(* A finding of a report is an agent's, downgraded. *)
LEMMA FindingsWereTold ==
    ASSUME PipelineInv, Published, NEW f \in findings
    PROVE  \E a \in Agents : \E g \in AgentFindings(a, plan, book) :
              /\ f = Downgraded(g) /\ TrueOf(plan, g) /\ g.agent = a
              /\ Final(f) => f = g /\ g.element \notin review
<1>1. PICK a \in Agents : \E g \in AgentFindings(a, plan, book) : f = Downgraded(g)
    BY DEF FindingsTellOfPlan, Told
<1>2. PICK g \in AgentFindings(a, plan, book) : f = Downgraded(g)
    BY <1>1
<1>3. TrueOf(plan, g) /\ g.agent = a
    BY DocumentIsAPlan, AgentsTellOfPlan
<1>4. Final(f) => f = g
    BY <1>2, <1>3, FinalIsAsTold DEF TrueOf
<1>5. Final(f) => g.element \notin review
    BY <1>2, <1>4 DEF Downgraded, Withdrawn, Final, TrueOf, IsFinding
<1> QED BY <1>2, <1>3, <1>4, <1>5

LEMMA ClauseIsNamed ==
    ASSUME PipelineInv, NEW c \in book
    PROVE  (CHOOSE k \in book : k.id = c.id) = c
<1>1. \A k \in book : k.id = c.id => k = c
    BY RequestAssumption DEF RequestAssumption, Request, book
<1> QED BY <1>1

(* numeric_checker and review_prepass: an element that is not doubted and has a
   value gets a PASS or a FAIL from every clause that applies to it. *)
LEMMA ValuesAreDecided == PipelineInv => TrustedElementsAreDecided
<1> SUFFICES ASSUME PipelineInv, Published,
                    NEW c \in OfRule(book, "numeric"), c.entities, AutoCheckable(c),
                    NEW e \in MeasuredItems(plan, c) \ review, HasValue(plan, c, e)
             PROVE  \E f \in findings : f.article = c.id /\ f.element = e /\ Final(f)
    BY DEF TrustedElementsAreDecided
<1> DEFINE g == MeasureOne(plan, c, e)
<1>1. g \in NumericCheck(plan, c)
    BY DEF NumericCheck
<1>2. g \in Told
    BY <1>1 DEF Told, AgentFindings, Agents
<1>3. g.article = c.id /\ g.element = e /\ Final(g)
    <2>1. g = Decided("numeric", c, e, Compare(Measured(plan, c, e), c, c.low, c.high))
        BY DEF MeasureOne
    <2> HIDE DEF g
    <2> QED BY <2>1 DEF Decided, Finding, Final
<1> HIDE DEF g
<1>4. Downgraded(g) = g
    BY <1>3 DEF Downgraded, Withdrawn
<1> QED BY <1>2, <1>3, <1>4 DEF FindingsTellOfPlan

(* Every report: doubt about one element never silences a verdict about another. *)
THEOREM TrustedElementsHold == Spec => []TrustedElementsAreDecided
BY PipelineInvariant, ValuesAreDecided, PTL

(* A measured verdict rests on the value of the element it names. *)
LEMMA MeasuredVerdict ==
    ASSUME NEW p, NEW c, NEW f \in NumericCheck(p, c), Final(f), f.element \in Elements
    PROVE  /\ AutoCheckable(c) /\ f.element \in MeasuredItems(p, c) /\ HasValue(p, c, f.element)
           /\ (f.verdict = "PASS") <=> Compare(Measured(p, c, f.element), c, c.low, c.high)
<1>1. c.entities /\ AutoCheckable(c) /\ MeasuredItems(p, c) # {}
    <2>1. f # Review("numeric", c, TRUE) /\ f # Review("numeric", c, NoLogicFor(c))
          /\ f # Blocked("numeric", c, WholePlan)
        BY AnswerMade DEF Final
    <2> QED BY <2>1 DEF NumericCheck
<1>2. PICK e \in MeasuredItems(p, c) : f = MeasureOne(p, c, e)
    BY <1>1 DEF NumericCheck
<1>3. HasValue(p, c, e)
    BY <1>2, AnswerMade DEF MeasureOne, Final
<1>4. f = Decided("numeric", c, e, Compare(Measured(p, c, e), c, c.low, c.high))
    BY <1>2, <1>3 DEF MeasureOne
<1>5. f.element = e
      /\ f.verdict = IF Compare(Measured(p, c, e), c, c.low, c.high) THEN "PASS" ELSE "FAIL"
    BY <1>4 DEF Decided, Finding
<1> QED BY <1>1, <1>2, <1>3, <1>5

(* A value the document does not doubt is the building's. *)
LEMMA TrustedValue ==
    ASSUME PipelineInv, SizesOfDocument, NEW c, AutoCheckable(c),
           NEW e \in MeasuredItems(plan, c), HasValue(plan, c, e),
           in.provenance[e] # "doubtful",
           in.source = "ifc" => \A d \in Doors : in.plan.width[d] # Missing
    PROVE  Measured(plan, c, e) = Measured(in.site, c, e)
<1>1. Recorded(in)
    BY DocumentIsAPlan
<1>2. Measured(plan, c, e) # Missing /\ (c.quantity = "height" => plan.asserted)
    BY DEF HasValue
<1>3. CASE c.object = "door"
    <2>1. e \in Doors
        BY <1>3 DEF MeasuredItems
    <2>2. plan.width[e] = in.plan.width[e] /\ in.plan.width[e] = in.site.width[e]
        BY <1>1, <2>1 DEF SizesOfDocument, Recorded
    <2>3. c.quantity # "height"
        BY <1>3 DEF AutoCheckable, Measurable, MeasureTable
    <2>4. Measured(plan, c, e) = plan.width[e] /\ Measured(in.site, c, e) = in.site.width[e]
        BY <1>3, <2>3 DEF Measured
    <2> QED BY <2>2, <2>4
<1>4. CASE c.object # "door" /\ c.quantity = "height"
    <2>1. plan.ceiling = in.plan.ceiling /\ in.plan.ceiling = in.site.ceiling
        BY <1>1, <1>2, <1>4 DEF SizesOfDocument, Recorded
    <2>2. Measured(plan, c, e) = plan.ceiling /\ Measured(in.site, c, e) = in.site.ceiling
        BY <1>4 DEF Measured
    <2> QED BY <2>1, <2>2
<1>5. CASE c.object # "door" /\ c.quantity # "height"
    <2>1. Measured(plan, c, e) = plan.area[e] /\ Measured(in.site, c, e) = in.site.area[e]
        BY <1>5 DEF Measured
    <2>2. e \in Rooms
        BY <1>5 DEF MeasuredItems, RoomsByCategory
    <2>3. plan.area[e] = in.plan.area[e] /\ in.plan.area[e] = in.site.area[e]
        BY <1>1, <1>2, <2>1, <2>2 DEF SizesOfDocument, Recorded
    <2> QED BY <2>1, <2>3
<1> QED BY <1>3, <1>4, <1>5

(* numeric_checker with review_prepass: a PASS or FAIL that names an element is
   what measuring that element in the building would have given. *)
LEMMA MeasuresAreTrue == PipelineInv /\ CourseInv => MeasuredVerdictsAreTrue
<1> SUFFICES ASSUME PipelineInv, CourseInv, Published,
                    in.source = "ifc" => \A d \in Doors : in.plan.width[d] # Missing,
                    NEW f \in findings, f.agent = "numeric", f.element \in Elements, Final(f)
             PROVE  (f.verdict = "PASS") = HoldsOnSite(ClauseOf(f), f.element)
    BY DEF MeasuredVerdictsAreTrue
<1>1. PICK a \in Agents : \E g \in AgentFindings(a, plan, book) :
              /\ f = Downgraded(g) /\ TrueOf(plan, g) /\ g.agent = a
              /\ Final(f) => f = g /\ g.element \notin review
    BY FindingsWereTold
<1>2. f \in AgentFindings("numeric", plan, book) /\ f.element \notin review
    BY <1>1
<1>3. PICK c \in OfRule(book, "numeric") : f \in NumericCheck(plan, c)
    BY <1>2 DEF AgentFindings
<1>4. ClauseOf(f) = c
    <2>1. c \in book /\ f.article = c.id
        BY <1>3, ClauseFindings DEF Made, OfRule
    <2> QED BY <2>1, ClauseIsNamed DEF ClauseOf
<1>5. in.provenance[f.element] # "doubtful"
    BY <1>2 DEF CourseInv, DoubtIsKept, Prepared
<1>6. /\ AutoCheckable(c) /\ f.element \in MeasuredItems(plan, c)
      /\ HasValue(plan, c, f.element)
      /\ (f.verdict = "PASS") <=> Compare(Measured(plan, c, f.element), c, c.low, c.high)
    BY <1>3, MeasuredVerdict
<1>7. Measured(plan, c, f.element) = Measured(in.site, c, f.element)
    BY <1>5, <1>6, TrustedValue DEF CourseInv
<1>8. Measured(in.site, c, f.element) # Missing
    BY <1>6, <1>7 DEF HasValue
<1> QED BY <1>4, <1>6, <1>7, <1>8 DEF HoldsOnSite

(* Every report: a measured PASS or FAIL is what the building would have given. *)
THEOREM MeasuredVerdictsHold == Spec => []MeasuredVerdictsAreTrue
BY PipelineInvariant, CourseInvariant, MeasuresAreTrue, PTL

(* The result and what the agents said: the summary and by_agent agree with the
   findings after the downgrade, and no finding is lost. *)
LEMMA ResultAgrees == PipelineInv /\ CourseInv => ResultIsConsistent
<1> SUFFICES ASSUME PipelineInv, CourseInv, Published PROVE
        /\ summary = Summarise(findings)
        /\ findings = UNION {byAgent[a] : a \in Agents}
        /\ \A a \in Agents : \A f \in AgentFindings(a, plan, book) :
              \E g \in findings : /\ g.article = f.article /\ g.element = f.element
                                  /\ g.agent = a /\ g.verdict \in {f.verdict, "NOT_EVALUATED"}
    BY DEF ResultIsConsistent
<1>1. summary = Summarise(findings)
    BY DEF CourseInv, AnswersAreKept
<1>2. findings = {Downgraded(f) : f \in Told}
    BY DEF FindingsTellOfPlan
<1>3. findings = UNION {byAgent[a] : a \in Agents}
    <2>1. \A a \in Agents : byAgent[a] = {Downgraded(f) : f \in AgentFindings(a, plan, book)}
        BY DEF CourseInv, AnswersAreKept
    <2> QED BY <1>2, <2>1 DEF Told
<1>4. ASSUME NEW a \in Agents, NEW f \in AgentFindings(a, plan, book)
      PROVE  \E g \in findings : /\ g.article = f.article /\ g.element = f.element
                                 /\ g.agent = a /\ g.verdict \in {f.verdict, "NOT_EVALUATED"}
    <2>1. Downgraded(f) \in findings
        BY <1>2, <1>4 DEF Told
    <2>2. IsFinding(f) /\ f.agent = a
        BY <1>4, DocumentIsAPlan, AgentsTellOfPlan DEF TrueOf
    <2>3. /\ Downgraded(f).article = f.article /\ Downgraded(f).element = f.element
          /\ Downgraded(f).agent = a /\ Downgraded(f).verdict \in {f.verdict, "NOT_EVALUATED"}
        BY <2>2 DEF IsFinding, Downgraded
    <2> QED BY <2>1, <2>3
<1> QED BY <1>1, <1>3, <1>4

(* Every published result is consistent with itself and complete. *)
THEOREM ResultHolds == Spec => []ResultIsConsistent
BY PipelineInvariant, CourseInvariant, ResultAgrees, PTL

(* A clause whose findings all passed is classed so. *)
LEMMA AllPassed ==
    ASSUME NEW c, \A f \in findings : f.verdict = "PASS"
    PROVE  ClauseClass(c) \in {"PASS", "UNSUPPORTED"}
<1>1. \A f \in findings : ClassifyFinding(f) = "PASS"
    BY DEF ClassifyFinding
<1>2. ClassesOf(c) \subseteq {"PASS"}
    BY <1>1 DEF ClassesOf
<1>3. CASE ClassesOf(c) = {"PASS"}
    <2> DEFINE first == CHOOSE i \in 1 .. 5 : /\ Priority[i] \in ClassesOf(c)
                                              /\ \A j \in 1 .. i - 1 : Priority[j] \notin ClassesOf(c)
    <2>1. /\ 3 \in 1 .. 5 /\ Priority[3] \in ClassesOf(c)
          /\ \A j \in 1 .. 3 - 1 : Priority[j] \notin ClassesOf(c)
        BY <1>3 DEF Priority
    <2>2. Priority[first] \in ClassesOf(c)
        BY <2>1
    <2>3. ClauseClass(c) = Priority[first]
        BY <1>3 DEF ClauseClass
    <2> QED BY <1>3, <2>2, <2>3
<1>4. CASE ClassesOf(c) = {}
    BY <1>4 DEF ClauseClass
<1> QED BY <1>2, <1>3, <1>4

(* What the status of a run must have seen. *)
LEMMA StatusSays ==
    /\ OverallStatus \in {"compliant", "compliant_with_quality_alerts"} =>
          /\ schema # "failed" /\ in.mode # "precheck" /\ quality # "failed"
          /\ ~Has("FAIL") /\ ~Has("NOT_EVALUATED") /\ ~Has("NEEDS_REVIEW")
    /\ schema = "failed" => OverallStatus = "rejected"
    /\ schema # "failed" /\ in.mode = "precheck" =>
          OverallStatus \in {"precheck_failed", "precheck_ready_with_alerts", "precheck_ready"}
<1>1. PrecheckStatus \in {"precheck_failed", "precheck_ready_with_alerts", "precheck_ready"}
    BY DEF PrecheckStatus
<1>2. FullCheckStatus \in {"compliant", "compliant_with_quality_alerts"} =>
          quality # "failed" /\ ~Has("FAIL") /\ ~Has("NOT_EVALUATED") /\ ~Has("NEEDS_REVIEW")
    BY DEF FullCheckStatus
<1> QED BY <1>1, <1>2 DEF OverallStatus

(* compute_overall_status: a report calls the plan compliant only after a full
   check in which everything was decided and passed, on nothing doubtful. *)
LEMMA StatusRests == PipelineInv /\ CourseInv => StatusIsEarned
<1> SUFFICES ASSUME PipelineInv, CourseInv PROVE StatusIsEarned
    OBVIOUS
<1>1. overall # "none" => /\ pc = "done" /\ overall = OverallStatus
                          /\ ~Published => schema = "failed" \/ in.mode = "precheck"
                          /\ Published => in.mode = "full_check"
    BY DEF CourseInv, CourseOfRun
<1>2. ASSUME overall \in {"compliant", "compliant_with_quality_alerts"}
      PROVE  /\ in.mode = "full_check" /\ schema # "failed" /\ quality # "failed"
             /\ Published
             /\ \A f \in findings : f.verdict = "PASS" /\ f.element \notin review
             /\ \A c \in book : coverage[c.id] \in {"PASS", "UNSUPPORTED"}
    <2>1. /\ schema # "failed" /\ in.mode # "precheck" /\ quality # "failed"
          /\ ~Has("FAIL") /\ ~Has("NOT_EVALUATED") /\ ~Has("NEEDS_REVIEW")
        BY <1>1, <1>2, StatusSays
    <2>2. Published /\ in.mode = "full_check" /\ pc = "done"
        BY <1>1, <1>2, <2>1
    <2>3. ASSUME NEW f \in findings PROVE f.verdict = "PASS" /\ f.element \notin review
        <3>1. PICK a \in Agents : \E g \in AgentFindings(a, plan, book) :
                  /\ f = Downgraded(g) /\ TrueOf(plan, g) /\ g.agent = a
                  /\ Final(f) => f = g /\ g.element \notin review
            BY <2>2, <2>3, FindingsWereTold
        <3>2. PICK g \in AgentFindings(a, plan, book) :
                  /\ f = Downgraded(g) /\ TrueOf(plan, g)
                  /\ Final(f) => f = g /\ g.element \notin review
            BY <3>1
        <3>3. f.verdict \in Verdicts
            BY <3>2 DEF TrueOf, Downgraded, IsFinding, Verdicts
        <3>4. f.verdict = "PASS"
            BY <2>1, <2>3, <3>3 DEF Has, Verdicts
        <3> QED BY <3>2, <3>4 DEF Final
    <2>4. ASSUME NEW c \in book PROVE coverage[c.id] \in {"PASS", "UNSUPPORTED"}
        <3>1. coverage = [id \in {k.id : k \in book} |->
                             ClauseClass(CHOOSE k \in book : k.id = id)]
            BY <2>2 DEF CourseInv, CourseOfRun
        <3>2. coverage[c.id] = ClauseClass(CHOOSE k \in book : k.id = c.id)
            BY <2>4, <3>1
        <3> QED BY <2>3, <3>2, AllPassed
    <2> QED BY <2>1, <2>2, <2>3, <2>4
<1>3. ASSUME overall # "none", ~Published
      PROVE  \/ schema = "failed" /\ overall = "rejected"
             \/ in.mode = "precheck" /\ overall \in {"precheck_failed",
                    "precheck_ready_with_alerts", "precheck_ready"}
    BY <1>1, <1>3, StatusSays
<1> QED BY <1>2, <1>3 DEF StatusIsEarned

(* Every report: the status "compliant" was earned. *)
THEOREM StatusHolds == Spec => []StatusIsEarned
BY PipelineInvariant, CourseInvariant, StatusRests, PTL
===============================================================================
