-------------------------- MODULE ValidationPipeline --------------------------
(***************************************************************************)
(* One run of the compliance engine over one plan:                          *)
(* compliance-engine/services/validation_pipeline.py with the steps it      *)
(* calls, from the source document to the overall status of the report.     *)
(*                                                                         *)
(*   parse -> merge -> prepare -> quality -> graph -> agents -> collect     *)
(*         -> downgrade -> coverage -> report -> done                       *)
(*                                                                         *)
(* A schema failure and precheck mode leave this line early; an exception   *)
(* ends the run in "raised".  The agents run under LangGraph in any order,  *)
(* or one after the other when LangGraph fails.                             *)
(***************************************************************************)
EXTENDS ComplianceAgents

CONSTANTS
    Requests,     \* the requests a run may start from
    Vocabulary    \* room_types: the canonical type of a label, or Unmapped

(* input.plan is what the document says, input.site what the building is (the
   code never sees it). *)
Provenances == {"absent", "sure", "doubtful"}

RequestTypes ==
    [mode : {"precheck", "full_check"}, source : {"ifc", "building_model", "bim_data"},
     langgraph : BOOLEAN, reports : BOOLEAN, lowScale : BOOLEAN,
     plan : Plans, site : Plans, name : [Rooms -> Categories],
     provenance : [Elements -> Provenances]]

(* What the document does not doubt is as it says. *)
Recorded(i) ==
    LET Trusted(e) == i.provenance[e] # "doubtful"
    IN  /\ \A r \in Rooms : Trusted(r) => i.plan.area[r] = i.site.area[r]
        /\ \A d \in Doors : Trusted(d) => /\ i.plan.width[d] = i.site.width[d]
                                        /\ i.plan.joins[d] = i.site.joins[d]
        /\ \A w \in Windows : Trusted(w) => i.plan.glass[w] = i.site.glass[w]
        /\ i.plan.asserted => i.plan.ceiling = i.site.ceiling

StandaloneArticles == {"natural_light_presence", "egress_presence", "egress_reachability"}

Request(r) ==
    /\ r.input \in RequestTypes /\ Recorded(r.input)
    /\ IsFiniteSet(r.book)
    /\ \A c \in r.book : c.id \notin StandaloneArticles
    /\ \A c, k \in r.book : c.id = k.id => c = k

ASSUME RequestAssumption ==
    /\ \A r \in Requests : Request(r)
    /\ Vocabulary \in [Categories -> Categories \cup {Unmapped}]

VARIABLES
    pc,          \* where run_validation_pipeline is
    request,     \* PipelineRequest; never changes
    plan,        \* bim_data
    review,      \* _review_summary.flagged: the ids of doubtful elements
    marked,      \* rooms whose needs_review flag is set
    schema,      \* status of the schema stage, "none" without one
    quality,     \* status of the quality stage
    byAgent,     \* what the agents that have run returned
    findings,    \* ComplianceResult.findings
    summary,     \* ComplianceResult.summary
    compliance,  \* status of the compliance stage
    coverage,    \* by_clause of build_coverage
    overall,     \* overall code of the report
    cause        \* why the run raised

vars == <<pc, request, plan, review, marked, schema, quality, byAgent, findings,
          summary, compliance, coverage, overall, cause>>

in   == request.input
book == request.book

-------------------------------------------------------------------------------
NoCount == [v \in Verdicts |-> 0]

Init ==
    /\ pc = "parse"
    /\ request \in Requests
    /\ plan = request.input.plan
    /\ review = {} /\ marked = {}
    /\ schema = "none" /\ quality = "none"
    /\ byAgent = <<>>
    /\ findings = {} /\ summary = NoCount
    /\ compliance = "none" /\ coverage = <<>>
    /\ overall = "none" /\ cause = "none"

Raise(why) ==
    /\ pc' = "raised" /\ cause' = why
    /\ UNCHANGED <<request, plan, review, marked, schema, quality, byAgent,
                   findings, summary, compliance, coverage, overall>>

(* What follows the last stage that runs. *)
ReportOrEnd == IF in.reports THEN "report" ELSE "done"

(* ifc_to_bim_data: an opening without a size is read with size 0, a room with
   area 0 as one without an area. *)
OrZero(size) == [x \in DOMAIN size |-> IF size[x] = Missing THEN 0 ELSE size[x]]

ReadIfc(p) ==
    [p EXCEPT !.width = OrZero(p.width), !.glass = OrZero(p.glass),
              !.area = [r \in Rooms |-> IF p.area[r] = 0 THEN Missing ELSE p.area[r]]]

(* _load_source, IFC: the file must exist, and a schema failure stops the run. *)
ParseIfc ==
    /\ pc = "parse" /\ in.source = "ifc"
    /\ \E s \in {"passed", "passed_with_alerts", "failed"} :
        /\ schema' = s
        /\ pc' = IF s = "failed" THEN ReportOrEnd ELSE "merge"
        /\ plan' = IF s = "failed" THEN plan ELSE ReadIfc(plan)
    /\ UNCHANGED <<request, review, marked, quality, byAgent, findings,
                   summary, compliance, coverage, overall, cause>>

IfcMissing == pc = "parse" /\ in.source = "ifc" /\ Raise("file not found")

ParseModel ==
    /\ pc = "parse" /\ in.source # "ifc"
    /\ pc' = "merge"
    /\ UNCHANGED <<request, plan, review, marked, schema, quality, byAgent,
                   findings, summary, compliance, coverage, overall, cause>>

(* reject_legacy_building_params *)
LegacyParameters ==
    pc = "parse" /\ in.source = "bim_data" /\ Raise("legacy building_params")

MergeManualInputs ==
    /\ pc = "merge"
    /\ pc' = "prepare"
    /\ UNCHANGED <<request, plan, review, marked, schema, quality, byAgent,
                   findings, summary, compliance, coverage, overall, cause>>

InvalidManualInputs == pc = "merge" /\ Raise("invalid manual inputs")

(* normalize_room_categories: the label, or else the name, decides; a room
   neither places keeps its label and is marked for review. *)
RoomType(r) ==
    LET label == in.plan.category[r]
    IN  IF Vocabulary[label] # Unmapped THEN Vocabulary[label]
        ELSE IF Vocabulary[in.name[r]] # Unmapped THEN Vocabulary[in.name[r]]
        ELSE label

Unplaced(r) == Vocabulary[in.plan.category[r]] = Unmapped /\ Vocabulary[in.name[r]] = Unmapped

NormalizeRoomCategories == [plan EXCEPT !.category = [r \in Rooms |-> RoomType(r)]]
UnplacedRooms == {r \in Rooms : Unplaced(r)}

(* apply_review_prepass: provenance speaks first; the mark of the normaliser
   counts only for an element that has none.  An untrusted scale doubts all. *)
ReviewNeeded(e, marks) ==
    \/ in.provenance[e] = "doubtful"
    \/ in.provenance[e] = "absent" /\ e \in marks
    \/ in.lowScale

Prepare ==
    /\ pc = "prepare"
    /\ plan' = NormalizeRoomCategories
    /\ review' = {e \in Elements : ReviewNeeded(e, UnplacedRooms)}
    /\ marked' = review' \cap Rooms
    /\ pc' = "quality"
    /\ UNCHANGED <<request, schema, quality, byAgent, findings, summary,
                   compliance, coverage, overall, cause>>

(* room_space_tagging and the other plugins: a room without an outline fails
   the stage; an unplaced room or a missing area is at least an alert. *)
QualityOutcomes ==
    IF plan.outlined # Rooms THEN {"failed"}
    ELSE IF UnplacedRooms # {} \/ \E r \in Rooms : ~GlazingMeasurable(plan, r)
         THEN {"passed_with_alerts", "failed"}
    ELSE {"passed", "passed_with_alerts", "failed"}

CheckQuality ==
    /\ pc = "quality"
    /\ quality' \in QualityOutcomes
    /\ pc' = IF in.mode = "precheck" THEN ReportOrEnd ELSE "graph"
    /\ UNCHANGED <<request, plan, review, marked, schema, byAgent, findings,
                   summary, compliance, coverage, overall, cause>>

(* SpatialGraph(bim_data), outside every try block. *)
BuildSpatialGraph ==
    /\ pc = "graph" /\ GraphBuilds(plan)
    /\ pc' = IF in.langgraph THEN "agents" ELSE "sequential"
    /\ UNCHANGED <<request, plan, review, marked, schema, quality, byAgent,
                   findings, summary, compliance, coverage, overall, cause>>

SpatialGraphRaises == pc = "graph" /\ ~GraphBuilds(plan) /\ Raise("size missing")

(* One agent's result becomes known. *)
Answer(a) ==
    /\ byAgent' = [x \in DOMAIN byAgent \cup {a} |->
                     IF x = a THEN AgentFindings(a, plan, book) ELSE byAgent[x]]
    /\ UNCHANGED <<request, plan, review, marked, schema, quality, findings,
                   summary, compliance, coverage, overall, cause>>

RunInGraph(a) ==
    /\ pc = "agents" /\ a \notin DOMAIN byAgent
    /\ pc' = IF DOMAIN byAgent \cup {a} = Agents THEN "collect" ELSE "agents"
    /\ Answer(a)

(* Any exception of the LangGraph path: its partial results are dropped. *)
LangGraphFails ==
    /\ pc = "agents"
    /\ byAgent' = <<>>
    /\ pc' = "sequential"
    /\ UNCHANGED <<request, plan, review, marked, schema, quality, findings,
                   summary, compliance, coverage, overall, cause>>

RunnerOrder == <<"numeric", "topology", "opening", "safety">>

RunInTurn(i) ==
    /\ pc = "sequential"
    /\ DOMAIN byAgent = {RunnerOrder[j] : j \in 1 .. i - 1}
    /\ pc' = IF i = 4 THEN "collect" ELSE "sequential"
    /\ Answer(RunnerOrder[i])

-------------------------------------------------------------------------------
Summarise(fs) == [v \in Verdicts |-> Cardinality({f \in fs : f.verdict = v})]

StageStatus(fs) ==
    IF \E f \in fs : f.verdict = "NOT_EVALUATED" /\ f.severity = "fail" THEN "blocked"
    ELSE IF \E f \in fs : f.verdict \in {"NEEDS_REVIEW", "NOT_EVALUATED"}
         THEN "completed_with_review"
    ELSE "completed"

CollectFindings ==
    /\ pc = "collect"
    /\ findings' = UNION {byAgent[a] : a \in Agents}
    /\ summary' = Summarise(findings')
    /\ pc' = "downgrade"
    /\ UNCHANGED <<request, plan, review, marked, schema, quality, byAgent,
                   compliance, coverage, overall, cause>>

(* downgrade_flagged_findings: the verdict changes, the severity stays.  The
   lists in by_agent hold the same Finding objects. *)
Withdrawn_PassOnly(f) == f.element \in review /\ f.verdict = "PASS"
Withdrawn_Whole(f)    == review # {} /\ f.verdict \in {"PASS", "FAIL"}
Withdrawn(f) == f.element \in review /\ f.verdict \in {"PASS", "FAIL"}
Downgraded(f) == IF Withdrawn(f) THEN [f EXCEPT !.verdict = "NOT_EVALUATED"] ELSE f

DowngradeFlagged_OldSummary ==
    /\ pc = "downgrade"
    /\ findings' = {Downgraded(f) : f \in findings}
    /\ byAgent' = [a \in Agents |-> {Downgraded(f) : f \in byAgent[a]}]
    /\ compliance' = StageStatus(findings')
    /\ pc' = "coverage"
    /\ UNCHANGED <<request, plan, review, marked, schema, quality, summary,
                   coverage, overall, cause>>

DowngradeFlagged ==
    /\ pc = "downgrade"
    /\ findings' = {Downgraded(f) : f \in findings}
    /\ byAgent' = [a \in Agents |-> {Downgraded(f) : f \in byAgent[a]}]
    /\ summary' = IF \E f \in findings : Withdrawn(f) THEN Summarise(findings') ELSE summary
    /\ compliance' = StageStatus(findings')
    /\ pc' = "coverage"
    /\ UNCHANGED <<request, plan, review, marked, schema, quality,
                   coverage, overall, cause>>

ClassifyFinding(f) ==
    CASE f.verdict \in {"PASS", "FAIL"}                  -> f.verdict
      [] f.verdict = "NOT_EVALUATED"                     -> "BLOCKED"
      [] f.verdict = "NEEDS_REVIEW" /\ f.unsupported     -> "UNSUPPORTED"
      [] f.verdict = "NEEDS_REVIEW" /\ ~f.unsupported    -> "NEEDS_REVIEW"

(* The first of these that a finding of the clause has. *)
Priority == <<"FAIL", "NEEDS_REVIEW", "PASS", "BLOCKED", "UNSUPPORTED">>

ClassesOf(c) == {ClassifyFinding(f) : f \in {g \in findings : g.article = c.id}}

ClauseClass(c) ==
    IF ClassesOf(c) = {} THEN "UNSUPPORTED"
    ELSE Priority[CHOOSE i \in 1 .. 5 :
                    /\ Priority[i] \in ClassesOf(c)
                    /\ \A j \in 1 .. i - 1 : Priority[j] \notin ClassesOf(c)]

BuildCoverage ==
    /\ pc = "coverage"
    /\ coverage' = [id \in {c.id : c \in book} |->
                      ClauseClass(CHOOSE c \in book : c.id = id)]
    /\ pc' = ReportOrEnd
    /\ UNCHANGED <<request, plan, review, marked, schema, quality, byAgent,
                   findings, summary, compliance, overall, cause>>

Has(v) == \E f \in findings : f.verdict = v

PrecheckStatus ==
    CASE quality = "failed"             -> "precheck_failed"
      [] quality = "passed_with_alerts" -> "precheck_ready_with_alerts"
      [] OTHER                          -> "precheck_ready"

FullCheckStatus_NoReview ==
    IF compliance = "blocked" \/ Has("NOT_EVALUATED") \/ quality = "failed" THEN "incomplete"
    ELSE IF Has("FAIL") THEN "non_compliant"
    ELSE IF quality = "passed_with_alerts" THEN "compliant_with_quality_alerts"
    ELSE "compliant"

FullCheckStatus ==
    IF compliance = "blocked" THEN "incomplete"
    ELSE IF Has("FAIL") THEN "non_compliant"
    ELSE IF Has("NOT_EVALUATED") THEN "incomplete"
    ELSE IF Has("NEEDS_REVIEW") THEN "needs_review"
    ELSE IF quality = "failed" THEN "incomplete"
    ELSE IF quality = "passed_with_alerts" THEN "compliant_with_quality_alerts"
    ELSE "compliant"

(* compute_overall_status *)
OverallStatus ==
    IF schema = "failed" THEN "rejected"
    ELSE IF in.mode = "precheck" THEN PrecheckStatus
    ELSE FullCheckStatus

WriteReports ==
    /\ pc = "report"
    /\ overall' = OverallStatus
    /\ pc' = "done"
    /\ UNCHANGED <<request, plan, review, marked, schema, quality, byAgent,
                   findings, summary, compliance, coverage, cause>>

Next ==
    \/ ParseIfc \/ IfcMissing \/ ParseModel \/ LegacyParameters
    \/ MergeManualInputs \/ InvalidManualInputs
    \/ Prepare \/ CheckQuality
    \/ BuildSpatialGraph \/ SpatialGraphRaises
    \/ \E a \in Agents : RunInGraph(a)
    \/ LangGraphFails
    \/ \E i \in 1 .. 4 : RunInTurn(i)
    \/ CollectFindings \/ DowngradeFlagged \/ BuildCoverage \/ WriteReports

Spec == Init /\ [][Next]_vars /\ WF_vars(Next)
-------------------------------------------------------------------------------
(* Properties *)

Steps == {"parse", "merge", "prepare", "quality", "graph", "agents", "sequential",
          "collect", "downgrade", "coverage", "report", "done", "raised"}
Stage == {"none", "passed", "passed_with_alerts", "failed"}
OverallCodes == {"none", "rejected", "non_compliant", "incomplete", "needs_review",
                 "compliant_with_quality_alerts", "compliant", "precheck_failed",
                 "precheck_ready_with_alerts", "precheck_ready"}

(* Every variable has its type; an agent's findings exist only once it ran. *)
TypeOK ==
    /\ pc \in Steps
    /\ in \in RequestTypes
    /\ plan \in Plans
    /\ review \subseteq Elements /\ marked \subseteq Rooms
    /\ schema \in Stage /\ quality \in Stage
    /\ DOMAIN byAgent \subseteq Agents
    /\ \A f \in findings :
        /\ f.agent \in Agents /\ f.verdict \in Verdicts
        /\ f.element \in Elements \cup {WholePlan}
        /\ f.severity \in {"fail", "alert", "info"} /\ f.unsupported \in BOOLEAN
    /\ summary \in [Verdicts -> Nat]
    /\ compliance \in {"none", "blocked", "completed_with_review", "completed"}
    /\ \A id \in DOMAIN coverage : coverage[id] \in {Priority[i] : i \in 1 .. 5}
    /\ overall \in OverallCodes

(* The verdicts are final: ComplianceResult has been published. *)
Published == compliance # "none"
Final(f)  == f.verdict \in {"PASS", "FAIL"}

ClauseOf(f) == CHOOSE c \in book : c.id = f.article

(* What a measured verdict may be checked against: the building itself. *)
HoldsOnSite(c, e) ==
    /\ Measured(in.site, c, e) # Missing
    /\ Compare(Measured(in.site, c, e), c, c.low, c.high)

(* numeric_checker with review_prepass: a PASS or FAIL that names an element is
   what measuring that element in the building would have given, however wrong
   the elements are that the document itself doubts (an IFC file that leaves the
   width of a door out is the exception: ReadIfc makes it 0). *)
MeasuredVerdictsAreTrue ==
    Published /\ (in.source = "ifc" => \A d \in Doors : in.plan.width[d] # Missing) =>
        \A f \in findings : f.agent = "numeric" /\ f.element \in Elements /\ Final(f) =>
            (f.verdict = "PASS") = HoldsOnSite(ClauseOf(f), f.element)

(* review_prepass: doubtful data takes away the verdicts of its own elements
   only.  Every trusted element with a value still gets PASS or FAIL from each
   clause that applies to it. *)
TrustedElementsAreDecided ==
    Published =>
        \A c \in OfRule(book, "numeric") : c.entities /\ AutoCheckable(c) =>
            \A e \in MeasuredItems(plan, c) \ review : HasValue(plan, c, e) =>
                \E f \in findings : f.article = c.id /\ f.element = e /\ Final(f)

(* safety_agent on a graph with holes: a room that has an outline and is said to
   be cut off from every exit is cut off in the building, when no element is
   doubtful.  The missing rooms can hide a fault, never invent one. *)
EgressFailuresAreReal ==
    Published /\ (\A e \in Elements : in.provenance[e] # "doubtful") =>
        \A f \in findings :
            /\ f.article = "egress_reachability" /\ f.verdict = "FAIL"
            /\ f.element \in plan.outlined
            => ~CanReachExit(AsBuilt(in.site), f.element)

(* topology_agent: the doors and paths its verdicts rest on exist.  A forbidden
   connection it reports, a required one it accepts and an access it confirms
   to a room type it knows are in the building, however many outlines are
   missing. *)
ConnectionsAreReal ==
    Published /\ (\A e \in Elements : in.provenance[e] # "doubtful") =>
        \A f \in findings : f.agent = "topology" /\ Final(f) =>
            LET c == ClauseOf(f)
                real == AsBuilt([plan EXCEPT !.joins = in.site.joins])
            IN  /\ c.relation = "must_not_connect_to" /\ f.verdict = "FAIL" =>
                        Touching(real, c) # {}
                /\ c.relation \in ConnectRelations /\ f.verdict = "PASS" =>
                        Touching(real, c) # {}
                /\ c.relation \in AccessRelations /\ BothMapped(c) /\ f.verdict = "PASS" =>
                        \A s \in Subjects(real, c) :
                            \E t \in Targets(real, c) : HasPath(real, s, t)

(* The summary and by_agent of the result agree with its findings after the
   downgrade, and nothing an agent said is lost on the way. *)
ResultIsConsistent ==
    Published =>
        /\ summary = Summarise(findings)
        /\ findings = UNION {byAgent[a] : a \in Agents}
        /\ \A a \in Agents : \A f \in AgentFindings(a, plan, book) :
              \E g \in findings : /\ g.article = f.article /\ g.element = f.element
                                  /\ g.agent = a /\ g.verdict \in {f.verdict, "NOT_EVALUATED"}

(* compute_overall_status: a report calls the plan compliant only after a full
   check that no stage failed, whose every finding passed, that rests on no
   doubtful element, and in which no clause was left for review; and a run that
   checked nothing says so, with a precheck code or a rejection by the schema. *)
StatusIsEarned ==
    /\ overall \in {"compliant", "compliant_with_quality_alerts"} =>
          /\ in.mode = "full_check" /\ schema # "failed" /\ quality # "failed"
          /\ Published
          /\ \A f \in findings : f.verdict = "PASS" /\ f.element \notin review
          /\ \A c \in book : coverage[c.id] \in {"PASS", "UNSUPPORTED"}
    /\ overall # "none" /\ ~Published =>
          \/ schema = "failed" /\ overall = "rejected"
          \/ in.mode = "precheck" /\ overall \in {"precheck_failed",
                 "precheck_ready_with_alerts", "precheck_ready"}

-------------------------------------------------------------------------------
(* What the documents say and the code does not do *)

(* A failed check on data that nobody doubts reaches the overall status. *)
FailureIsReported ==
    overall # "none" /\ (\E f \in findings : f.verdict = "FAIL") =>
        overall = "non_compliant"

(* A room that is said to have a way out has one. *)
EgressPassesAreReal ==
    Published /\ (\A e \in Elements : in.provenance[e] # "doubtful") =>
        \A r \in HabitableRooms(plan) : CanReachExit(plan, r) =>
            CanReachExit(AsBuilt(in.site), r)
===============================================================================
