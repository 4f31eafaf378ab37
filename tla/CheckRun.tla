------------------------------- MODULE CheckRun -------------------------------
(***************************************************************************)
(* One run of the validation engine over one building, from the source it  *)
(* is given to the files of its report (services/validation_pipeline.py,   *)
(* validation/quality/checker.py, ingest/review_prepass.py and             *)
(* category_normalizer.py, reporting).  The four agents are modelled in     *)
(* ComplianceAgents; here a clause asks of every row of a kind that one of  *)
(* its lengths is at least so much, or asks for a human's judgement.       *)
(***************************************************************************)
EXTENDS SchemaChecks

CONSTANTS
    Inputs,        \* the buildings and the requests about them
    Clauses,       \* the clauses a full check judges, in order
    MaxCrashes     \* how many quality plugins may raise in a run

ASSUME MaxCrashesAssumption == MaxCrashes \in Nat

Lengths == {"thickness", "height", "width", "sill", "level"}

\* A sequence, of whatever it holds.
IsList(s) == s \in Seq(ToSet(s))

\* A row as a source gives it: an id is a sequence, a length a number, a point
\* two numbers, an outline a sequence of points, and only a window has a sill.
SourceRow(row) ==
    /\ DOMAIN row = DOMAIN Blank
    /\ row.kind \in ToSet(Collections)
    /\ row.tag \in Nat \ {0} /\ row.misfits \in Nat
    /\ \A field \in Lengths : row[field] \in Int
    /\ IsList(row.guid) /\ IsList(row.sid)
    /\ \A field \in {"at", "start", "end"} :
          row[field] # Nothing => row[field] \in [1..2 -> Int]
    /\ row.polygon \in Seq([1..2 -> Int])
    /\ row.kind # "window" => row.sill = Missing

\* What a source holds, of which a file also has the entities that the schema
\* checks look at, and what manual inputs leave to say about it.
SourceBuilding(b) ==
    /\ {"source", "rows", "units", "contract", "params", "contractBroken",
        "scaleConf", "level", "regions"} \subseteq DOMAIN b
    /\ IsList(b.rows) /\ IsList(b.regions)
    /\ \A i \in DOMAIN b.rows : SourceRow(b.rows[i])
    /\ \A i, j \in DOMAIN b.rows : b.rows[i].tag = b.rows[j].tag => i = j
    /\ b.manual.lost \in Nat /\ b.manual.door \in Int
    /\ b.source = "ifc" => IsList(b.spatial) /\ IsList(b.incomplete)

ASSUME InputsAssumption == \A b \in Inputs : SourceBuilding(b)

\* A clause asks for one length, and no two clauses have the same id.
ASSUME ClausesAssumption ==
    /\ IsList(Clauses)
    /\ \A i \in DOMAIN Clauses : Clauses[i].field \in Lengths
    /\ \A i, j \in DOMAIN Clauses : Clauses[i].id = Clauses[j].id => i = j

VARIABLES
    pc,            \* the stage the run is in
    input,         \* what it was asked to check
    data,          \* bim_data, what the agents read
    model,         \* the model rebuilt from it, what the plugins read
    review,        \* the summary of the confidence review
    schema, quality, compliance,   \* the findings of the three stages
    left,          \* the plugins that have not run yet
    crashed,       \* those that raised
    topics,        \* the topics of the BCF archive
    written        \* the files of the report written so far

vars == <<pc, input, data, model, review, schema, quality, compliance,
          left, crashed, topics, written>>

NoReview == [low |-> FALSE, flagged |-> Nothing]
Unread == [rows |-> Nothing]

Init ==
    /\ pc = "load"
    /\ input \in Inputs
    /\ data = Unread /\ model = Unread /\ review = NoReview
    /\ schema = Nothing /\ quality = Nothing /\ compliance = Nothing
    /\ left = Registry /\ crashed = {}
    /\ topics = Nothing /\ written = Nothing

-------------------------------------------------------------------------------
(* Loading.  A file that fails a schema check is not read.                 *)

Blocking(findings) == \E i \in DOMAIN findings : findings[i].severity = "fail"

LoadIfc ==
    /\ pc = "load" /\ input.source = "ifc"
    /\ schema' = ValidateIfc(input)
    /\ IF Blocking(schema')
       THEN pc' = "report" /\ UNCHANGED model
       ELSE pc' = "merge" /\ model' = BuildingModel(ReadIfc(input))
    /\ UNCHANGED <<input, data, review, quality, compliance, left, crashed, topics, written>>

\* The parameters of a payload came in the flat form that is not accepted.
LoadBimData ==
    /\ pc = "load" /\ input.source = "bim_data"
    /\ IF input.params.value # Missing
       THEN pc' = "raised" /\ UNCHANGED model
       ELSE pc' = "merge" /\ model' = BuildingModel(input)
    /\ UNCHANGED <<input, data, review, schema, quality, compliance, left, crashed,
                   topics, written>>

-------------------------------------------------------------------------------
(* What manual inputs leave to say: the overrides that named no element,   *)
(* and the openings that do not fit under their wall.                      *)
Top(opening) ==
    IF opening.kind = "door" THEN opening.height ELSE opening.sill + opening.height

TallerThanWall(m, opening) ==
    LET wall == HostOf(m, opening)
    IN  /\ opening.host # Nothing /\ wall.height # Missing
        /\ opening.height # Missing
        /\ opening.kind = "window" => opening.sill # Missing
        /\ Top(opening) > wall.height

MergeFindings(m) ==
    [i \in 1..input.manual.lost |-> Alert("QC-MANUAL-OVERRIDE-001")]
    \o ForEach(Of(m.rows, "door"), LAMBDA o :
          If(TallerThanWall(m, o), On(Alert("QC-MANUAL-FIT-001"), o)))
    \o ForEach(Of(m.rows, "window"), LAMBDA o :
          If(TallerThanWall(m, o), On(Alert("QC-MANUAL-FIT-002"), o)))

\* The values that manual inputs give are the matter of ManualInputs; here
\* they give the doors that have no height one.
Filled(row) ==
    IF row.kind = "door" THEN [row EXCEPT !.height = OrElse(@, input.manual.door)] ELSE row

Merge ==
    /\ pc = "merge"
    /\ IF ~input.manual.ok
       THEN pc' = "raised" /\ UNCHANGED <<model, quality>>
       ELSE /\ pc' = "prepare"
            /\ model' = [model EXCEPT
                  !.rows = [i \in DOMAIN model.rows |-> Filled(model.rows[i])]]
            /\ quality' = MergeFindings(model')
    /\ UNCHANGED <<input, data, review, schema, compliance, left, crashed, topics, written>>

-------------------------------------------------------------------------------
(* Preparation.  The category of a room is normalised by its label or else *)
(* by its name; a room without either is doubted, which only tells where   *)
(* the row brought no provenance of its own.                               *)
Normalise(row) ==
    LET As(source, conf) ==
            [row EXCEPT !.typeSource = source, !.typeConf = conf, !.label = "canonical"]
    IN  IF row.kind # "room" THEN row
        ELSE IF row.label = "canonical" THEN As("canonical", 100)
        ELSE IF row.label = "alias"     THEN As("label", 60)
        ELSE IF row.name = "Kitchen"    THEN As("name", 80)
        ELSE [row EXCEPT !.typeSource = "unmapped", !.typeConf = 0,
                         !.needs = @ \/ ~row.proven]

NormaliseRooms(d) == [d EXCEPT !.rows = [i \in DOMAIN d.rows |-> Normalise(d.rows[i])]]

ScaleLow(d) == d.scaleConf # Missing /\ d.scaleConf < Threshold
Reviewed == <<"wall", "door", "window", "room", "stair", "slab">>

Doubt(d, row) ==
    LET low    == row.conf < Threshold
        reason == IF row.reason # "none" THEN row.reason
                  ELSE IF low THEN "detector"
                  ELSE IF ScaleLow(d) THEN "scale" ELSE "none"
    IN  If(row.needs \/ low \/ ScaleLow(d), [id |-> EngineId(row), reason |-> reason])

Prepass(d) ==
    [low |-> ScaleLow(d),
     flagged |-> FlattenSeq([k \in DOMAIN Reviewed |->
                    ForEach(Of(d.rows, Reviewed[k]), LAMBDA row : Doubt(d, row))])]

Prepare ==
    /\ pc = "prepare"
    /\ data' = NormaliseRooms(ToBimData(model))
    /\ review' = Prepass(data')
    /\ model' = BuildingModel(data')
    /\ pc' = "quality"
    /\ UNCHANGED <<input, schema, quality, compliance, left, crashed, topics, written>>

-------------------------------------------------------------------------------
(* The plugins, one by one.  One that raises is told of and passed over.   *)
Plugin ==
    /\ pc = "quality" /\ left # <<>>
    /\ quality' = quality \o RunPlugin(Head(left), model, review)
    /\ left' = Tail(left)
    /\ UNCHANGED <<pc, input, data, model, review, schema, compliance, crashed,
                   topics, written>>

PluginRaises_Stops ==    \* mutant: the rest of the registry is given up
    /\ pc = "quality" /\ left # <<>>
    /\ Cardinality(crashed) < MaxCrashes
    /\ crashed' = crashed \cup {Head(left)}
    /\ quality' = Append(quality, Alert("QC-INTERNAL-001"))
    /\ left' = <<>>
    /\ UNCHANGED <<pc, input, data, model, review, schema, compliance, topics, written>>

PluginRaises ==
    /\ pc = "quality" /\ left # <<>>
    /\ Cardinality(crashed) < MaxCrashes
    /\ crashed' = crashed \cup {Head(left)}
    /\ quality' = Append(quality, Alert("QC-INTERNAL-001"))
    /\ left' = Tail(left)
    /\ UNCHANGED <<pc, input, data, model, review, schema, compliance, topics, written>>

\* What a finding's id is made of, the ordinal apart.
Basis(f) ==
    <<f.stage, f.code, f.clause,
      IF f.guid # Nothing THEN f.guid
      ELSE IF f.internal # Nothing THEN f.internal ELSE f.id>>
FindingId(f) == <<Basis(f), f.ordinal>>

\* assign_finding_ordinals: the findings of one basis are numbered.
AssignOrdinals(findings) ==
    [i \in DOMAIN findings |-> [findings[i] EXCEPT !.ordinal =
        Cardinality({j \in 1..(i - 1) : Basis(findings[j]) = Basis(findings[i])})]]

EndQuality ==
    /\ pc = "quality" /\ left = <<>>
    /\ quality' = AssignOrdinals(quality)
    /\ pc' = IF input.mode = "precheck" THEN "report" ELSE "judge"
    /\ UNCHANGED <<input, data, model, review, schema, compliance, left, crashed,
                   topics, written>>

-------------------------------------------------------------------------------
(* The compliance stage.                                                   *)
Judgement(clause, verdict) ==
    [Finding("compliance", "none", "info", verdict) EXCEPT !.clause = clause.id]

JudgeRow(clause, row) ==
    LET length  == row[clause.field]
        verdict == IF length <= 0 THEN "NOT_EVALUATED"
                   ELSE IF length < clause.least THEN "FAIL" ELSE "PASS"
    IN  [Judgement(clause, verdict) EXCEPT
           !.id = EngineId(row), !.about = row.tag, !.measured = length]

\* Two agents ask for a judgement of the same clause, neither of an element.
JudgeClause(clause, d) ==
    IF clause.kind = "judgement"
    THEN <<Judgement(clause, "NEEDS_REVIEW"), Judgement(clause, "NEEDS_REVIEW")>>
    ELSE LET rows == Of(d.rows, clause.kind)
         IN  [i \in DOMAIN rows |-> JudgeRow(clause, rows[i])]

EnrichAll(findings, d) == [i \in DOMAIN findings |-> Enrich(findings[i], d.rows)]

\* downgrade_flagged_findings, by the id of the element.
Downgrade(findings) ==
    LET flagged == {review.flagged[i].id : i \in DOMAIN review.flagged} \ {Nothing}
        Withheld(f) == f.id \in flagged /\ f.verdict \in {"PASS", "FAIL"}
    IN  [i \in DOMAIN findings |->
           IF Withheld(findings[i])
           THEN [findings[i] EXCEPT !.verdict = "NOT_EVALUATED"] ELSE findings[i]]

Judge ==
    /\ pc = "judge"
    /\ LET judged == FlattenSeq([i \in DOMAIN Clauses |-> JudgeClause(Clauses[i], data)])
       IN  compliance' = Downgrade(AssignOrdinals(EnrichAll(judged, data)))
    /\ pc' = "report"
    /\ UNCHANGED <<input, data, model, review, schema, quality, left, crashed,
                   topics, written>>

-------------------------------------------------------------------------------
(* The report.  A finding keeps the id it was given with its ordinal, which *)
(* it no longer has itself.                                                *)
ReportFinding_NewId(f) ==    \* mutant: the id made again
    [fid |-> <<Basis(f), 0>>, guid |-> f.guid, about |-> f.about, verdict |-> f.verdict]
ReportFinding(f) ==
    [fid |-> FindingId(f), guid |-> f.guid, about |-> f.about, verdict |-> f.verdict]

NormaliseStage(findings) == [i \in DOMAIN findings |-> ReportFinding(findings[i])]
Findings == NormaliseStage(schema) \o NormaliseStage(quality) \o NormaliseStage(compliance)

\* The elements of the model in the order of the index, which keeps the last
\* of those that share a GlobalId.
Indexed == FlattenSeq([k \in DOMAIN Collections |-> Of(model.rows, Collections[k])])

Element(guid) ==
    LET named == {i \in DOMAIN Indexed : Indexed[i].guid = guid}
    IN  IF named = {} THEN Blank ELSE Indexed[Max(named)]

\* A storey is found by its internal id and its GlobalId, not by its source id.
LevelOf(row) ==
    LET known == {s \in ToSet(Of(model.rows, "storey")) :
                     row.storey \in {s.internal, s.guid} \ {Nothing}}
    IN  IF known = {} THEN 0 ELSE (CHOOSE s \in known : TRUE).level

\* The corners of the box an element lies in, or no corner.
Around(p, half) == {<<p[1] - half, p[2] - half>>, <<p[1] + half, p[2] + half>>}
Extent(row) ==
    CASE row.kind = "wall" /\ row.start # Nothing /\ row.end # Nothing -> {row.start, row.end}
      [] row.kind = "room" -> ToSet(row.polygon)
      [] row.kind \in {"door", "window"} /\ row.at # Nothing ->
            Around(row.at, (IF row.width > 0 THEN row.width ELSE 300) \div 2)
      [] row.kind \in {"stair", "slab"} /\ row.at # Nothing -> Around(row.at, 250)
      [] OTHER -> {}

Halfway(numbers) == (Min(numbers) + Max(numbers)) \div 2
MiddleOf(points) == <<Halfway({p[1] : p \in points}), Halfway({p[2] : p \in points})>>

\* The camera stands over the element, or over the plan when the element has
\* no place of its own.
Camera(row) ==
    LET plan == UNION {Extent(r) : r \in ToSet(model.rows)}
        over == IF Extent(row) # {} THEN Extent(row) ELSE plan
    IN  IF row = Blank \/ over = {} THEN Nothing
        ELSE Append(MiddleOf(over), LevelOf(row))

\* The snapshot draws in red whatever has the GlobalId, a stair by its point.
Lit_SameStorey(row) ==    \* mutant: compares another field
    {r.tag : r \in {s \in ToSet(model.rows) : s.storey = row.storey /\ Extent(s) # {}}}
Lit(row) == {r.tag : r \in {s \in ToSet(model.rows) : s.guid = row.guid /\ Extent(s) # {}}}

Actionable == {"FAIL", "NEEDS_REVIEW", "NOT_EVALUATED"}

\* A finding becomes a topic when it names a GlobalId that the model has, or
\* when there is no model.
Topic(f) ==
    LET shown == IF model = Unread THEN Blank ELSE Element(f.guid)
    IN  If(/\ f.verdict \in Actionable /\ f.guid # Nothing
           /\ model = Unread \/ shown # Blank,
           [folder |-> f.fid, guid |-> f.guid, about |-> f.about, shown |-> shown.tag,
            camera |-> IF shown = Blank THEN Nothing ELSE Camera(shown),
            lit |-> IF shown = Blank THEN {} ELSE Lit(shown)])

Files == <<"json", "html", "pdf", "bcf", "manifest">>

\* One file after the other; only the PDF may be done without.
WriteFile ==
    /\ pc = "report"
    /\ LET next == Files[Len(written) + 1]
       IN  /\ \/ written' = Append(written, next)
              \/ next = "pdf" /\ written' = Append(written, "no pdf")
           /\ topics' = IF next = "bcf" THEN ForEach(Findings, Topic) ELSE topics
    /\ pc' = IF Len(written') = Len(Files) THEN "done" ELSE "report"
    /\ UNCHANGED <<input, data, model, review, schema, quality, compliance, left, crashed>>

WriteFails ==
    /\ pc = "report" /\ Files[Len(written) + 1] # "pdf"
    /\ pc' = "raised"
    /\ UNCHANGED <<input, data, model, review, schema, quality, compliance, left,
                   crashed, topics, written>>

Next ==
    \/ LoadIfc \/ LoadBimData \/ Merge \/ Prepare
    \/ Plugin \/ PluginRaises \/ EndQuality
    \/ Judge \/ WriteFile \/ WriteFails

Spec == Init /\ [][Next]_vars

-------------------------------------------------------------------------------
(* Properties.                                                             *)

Reported == pc \in {"report", "done"} /\ ~Blocking(schema)

\* Rows of one building that answer to a common name.
Shares(row) ==
    \E other \in ToSet(model.rows) :
        other.tag # row.tag /\ ElementAliases(other) \cap ElementAliases(row) # {}
Row(tag) == CHOOSE row \in ToSet(model.rows) : row.tag = tag

\* A place over the box of some corners.
Within(place, corners) ==
    \A k \in 1..2 : \E p, q \in corners : p[k] <= place[k] /\ place[k] <= q[k]

\* No two findings of a report have the same id, whatever plugins and agents
\* said twice: a topic of the BCF archive is named after the id of a finding
\* (numeric_checker.assign_finding_ordinals, Finding._id_basis).
FindingsAreDistinct ==
    Reported => \A i, j \in DOMAIN Findings : Findings[i].fid = Findings[j].fid => i = j

\* A topic selects the element that its finding is about, looks at it and
\* marks nothing else, and every finding that asks for action on an element
\* with a GlobalId has a topic, unless the element shares a name with another
\* (export_bcf, _index_elements, enrich_findings_with_engine_identity).
TopicsNameTheElement ==
    (pc = "done" /\ Reported) =>
        /\ \A i \in DOMAIN topics :
              (topics[i].about # 0 /\ ~Shares(Row(topics[i].about))) =>
                 /\ topics[i].guid = Row(topics[i].about).guid
                 /\ topics[i].shown = topics[i].about
                 /\ topics[i].lit \subseteq {topics[i].about}
                 /\ Extent(Row(topics[i].about)) # {} =>
                       Within(topics[i].camera, Extent(Row(topics[i].about)))
        /\ \A f \in ToSet(Findings) :
              (f.about # 0 /\ f.verdict \in Actionable
               /\ ~Shares(Row(f.about)) /\ Row(f.about).guid # Nothing) =>
                 \E i \in DOMAIN topics : topics[i].folder = f.fid

\* How many millimetres a length of the source stands for, where its unit is
\* one that the engine understands.
Scaled(n) ==
    IF input.source = "ifc" THEN n * SiToMm[input.unit] ELSE n * LengthToMm[input.units.length]
Understood ==
    IF input.source = "ifc" THEN input.unit \in DOMAIN SiToMm
    ELSE SupportedLengthUnit(input.units.length)

\* Between the source and a verdict a length passes the adapter twice and is
\* converted once: what the plugins measure and what the agents judge is what
\* the source says, in millimetres (_normalise_bim_data_units, ifc_to_bim_data).
MeasuredOnce ==
    (pc \in {"quality", "judge", "report", "done"} /\ model # Unread /\ Understood) =>
      \A i \in DOMAIN input.rows :
        LET said == input.rows[i]
        IN  /\ \A field \in Lengths : said[field] # Missing =>
                  /\ data.rows[i][field] = Scaled(said[field])
                  /\ model.rows[i][field] = Scaled(said[field])
            /\ said.at # Nothing => model.rows[i].at = [k \in {1, 2} |-> Scaled(said.at[k])]
            /\ \A f \in ToSet(compliance), c \in ToSet(Clauses) :
                  (f.about = said.tag /\ f.clause = c.id /\ said[c.field] # Missing) =>
                     f.measured = Scaled(said[c.field])

\* The doubt about an element that is its own: of a low confidence, or of a mark
\* with a reason, and not the plan's scale under another name.  A mark without a
\* reason is given that of the scale where the scale is doubted.
OwnDoubt(row) ==
    /\ row.needs \/ row.conf < Threshold
    /\ row.reason # "scale"
    /\ ScaleLow(input) => row.conf < Threshold \/ row.reason # "none"

\* What the source leaves in doubt is told: an element that its provenance or
\* its own confidence doubts by a finding about the element, a doubted scale by
\* one about the plan.  The plugins that would say the same are told apart by
\* the reason of the doubt (review_prepass, ElementConfidenceCheck).
DoubtCodes == {"QC-ELEM-CONF-001", "QC-SPACE-TAG-001", "QC-SPACE-TAG-002"}

NoDoubtIsSilent ==
    (Reported /\ crashed = {}) =>
        /\ \A i \in DOMAIN input.rows :
              LET row == model.rows[i]
              IN  (/\ input.rows[i].kind # "storey" /\ ~Shares(row)
                   /\ OwnDoubt(input.rows[i])) =>
                     \E f \in ToSet(quality) : f.code \in DoubtCodes /\ f.about = row.tag
        /\ ScaleLow(input) => \E f \in ToSet(quality) : f.code = "QC-SCALE-001"

\* A plugin that raises takes nothing with it: what every other plugin had to
\* say is in the report, and the report tells of the one that did not run
\* (run_model_quality_checks).
CrashIsVisible ==
    Reported =>
        /\ \A p \in ToSet(Registry) \ crashed :
              \A f \in ToSet(RunPlugin(p, model, review)) :
                 \E g \in ToSet(quality) : [g EXCEPT !.ordinal = 0] = f
        /\ Cardinality({i \in DOMAIN quality : quality[i].code = "QC-INTERNAL-001"})
               = Cardinality(crashed)

\* What identity_integrity.py mandates: that using the fallback surfaces.
FallbackIsReported ==
    (Reported /\ crashed = {}) => \A row \in ToSet(model.rows) :
        (row.guid = Nothing /\ row.sid = Nothing) =>
            \E f \in ToSet(quality) : f.code = "QC-IDENT-001" /\ f.about = row.tag
=============================================================================
