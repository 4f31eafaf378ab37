---------------------------- MODULE ExportWorkflow ----------------------------
(***************************************************************************)
(* A plan on its way to the compliance engine: POST /analyze replies with  *)
(* bim_data and saves it, an export writes the IFC file of it behind a     *)
(* gate (services/ifc_workflow.py, routes/export_routes.py), and the file  *)
(* goes to the engine, either by from-analysis, which writes and submits   *)
(* it in one request, or by a client that downloaded it                    *)
(* (routes/compliance_routes.py).  Requests fail at every step and a       *)
(* worker process may die in each of them; what it wrote stays on disk.    *)
(*                                                                         *)
(* One plan is followed, with the requests of one client in turn.  Other   *)
(* plans share nothing with it: every file name carries a fresh UUID.      *)
(***************************************************************************)
EXTENDS IfcExport

CONSTANTS
    Plans,          \* [seen, claim, resize, input]: a drawing and its request
    ExportInputs,   \* payloads of export requests, or NoInput
    EngineInputs,   \* payloads posted along with an IFC file, or NoInput
    Edits,          \* what a client does to bim_data before it uploads it
    Elevations,     \* storey_elevation of the request's ifc_metadata
    MaxRequests     \* requests after the analysis

ASSUME EditsAssumption ==
    Edits \subseteq {"none", "wider_doors", "no_resolution", "bare_scale", "open_rooms"}

NoInput == <<>>

VARIABLES
    plan,       \* the drawing
    analysis,   \* "waiting", "saving", "replied", "refused" or "died"
    reply,      \* bim_data of the analysis, once it replied
    saved,      \* the analysis file: "none", "partial" or "whole"
    request,    \* the request being served, or the last one
    disk,       \* the files of that request: "none", "partial" or "whole"
    orphans,    \* its files that nothing will delete any more
    held,       \* the IFC file the client downloaded, with its plan
    job,        \* what the engine was given, and the model it made of it
    count

vars == <<plan, analysis, reply, saved, request, disk, orphans, held, job, count>>

Files   == {"temp", "artifact", "upload"}
NoFiles == [f \in Files |-> "none"]
OnDisk  == {f \in Files : disk[f] # "none"}
Over    == {"none", "refused", "failed", "done", "died"}

NoRequest == [step |-> "none", kind |-> "none", input |-> NoInput,
              edit |-> "none", elevation |-> 0, bim |-> <<>>, file |-> <<>>]
NoFile == [file |-> <<>>, bim |-> <<>>, input |-> NoInput, edit |-> "none"]
NoJob == [step |-> "none", of |-> NoFile, input |-> NoInput,
          findings |-> {}, model |-> <<>>]

\* None means an empty payload to both resolvers.
Payload(input) == IF input = NoInput THEN EmptyPayload ELSE input

Init ==
    /\ plan \in Plans
    /\ analysis = "waiting" /\ reply = <<>> /\ saved = "none"
    /\ request = NoRequest /\ disk = NoFiles /\ orphans = {}
    /\ held = NoFile /\ job = NoJob /\ count = 0

Step(s)   == request' = [request EXCEPT !.step = s]
End(s)    == request' = [NoRequest EXCEPT !.step = s]
At(s)     == request.step = s
Exporting == UNCHANGED <<plan, analysis, reply, saved, held, job, count>>

-----------------------------------------------------------------------------
(* The analysis.  The reply names the file whether or not it was saved.    *)

RunAnalysis ==
    /\ analysis = "waiting"
    /\ \E r \in {IF AnalyzeAccepts(plan.seen, plan.claim, plan.input)
                 THEN Analyze(plan.seen, plan.claim, plan.resize, plan.input)
                 ELSE [ok |-> FALSE]} :
          IF r.ok
          THEN /\ analysis' = "saving"
               /\ saved'    = "partial"
               /\ reply'    = r.bim
          ELSE analysis' = "refused" /\ UNCHANGED <<saved, reply>>
    /\ UNCHANGED <<plan, request, disk, orphans, held, job, count>>

SaveAnalysis ==
    /\ analysis = "saving"
    /\ analysis' = "replied"
    /\ saved' \in {"whole", "partial", "none"}
    /\ UNCHANGED <<plan, reply, request, disk, orphans, held, job, count>>

AnalysisDies ==
    /\ analysis = "saving"
    /\ analysis' = "died"
    /\ UNCHANGED <<plan, reply, saved, request, disk, orphans, held, job, count>>

-----------------------------------------------------------------------------
(* An export.                                                              *)

Begin(kind, input, edit, elevation, bim, step) ==
    /\ request' = [step |-> step, kind |-> kind, input |-> input, edit |-> edit,
                   elevation |-> elevation, bim |-> bim, file |-> <<>>]
    /\ count' = count + 1
    /\ disk' = NoFiles /\ orphans' = {}
    /\ UNCHANGED <<plan, analysis, reply, saved, held, job>>

\* Bounds: MaxRequests requests, one file per client and one job.
MayBegin == /\ analysis = "replied" /\ request.step \in Over
            /\ count < MaxRequests /\ job = NoJob
MayExport == MayBegin /\ held = NoFile

\* POST /export/ifc, its validate_only, and POST /compliance/jobs/from-analysis.
StartFromFile ==
    /\ MayExport
    /\ \E kind \in {"validate", "export", "submit"}, input \in ExportInputs,
          elevation \in Elevations :
           IF saved = "whole"
           THEN Begin(kind, input, "none", elevation, reply, "loaded")
           ELSE Begin("none", NoInput, "none", 0, <<>>, "refused")

\* POST /export/ifc/upload.
Widened(door) == [door EXCEPT !.dims["width"] = @ + 100]
Opened(room)  == [room EXCEPT !.polygon = Front(@)]
Edited(edit, bim) ==
    CASE edit = "none" -> bim
      [] edit = "wider_doors" ->
            [bim EXCEPT !.doors = [i \in DOMAIN @ |-> Widened(@[i])]]
      [] edit = "no_resolution" ->
            [bim EXCEPT !.manual = <<>>, !.walls = [i \in DOMAIN @ |->
                [@[i] EXCEPT !.res = <<>>, !.prov = <<>>]]]
      [] edit = "bare_scale" ->
            [bim EXCEPT !.scale = [mmpp |-> bim.scale.mmpp, source |-> "none",
                                   evidence |-> <<>>]]
      [] edit = "open_rooms" ->
            [bim EXCEPT !.rooms = [i \in DOMAIN @ |-> Opened(@[i])]]

StartFromUpload ==
    /\ MayExport
    /\ \E input \in ExportInputs, edit \in Edits, elevation \in Elevations :
           Begin("upload", input, edit, elevation, Edited(edit, reply), "loaded")

\* A payload, or rows that never were resolved, make it resolve them.
PrepareBim ==
    /\ At("loaded")
    /\ IF request.input # NoInput \/ request.bim.manual = <<>>
       THEN \E r \in {Stage1Resolve(Payload(request.input), request.bim)} :
              request' = IF r.ok THEN [request EXCEPT !.step = "prepared",
                                           !.bim = WithProvenance(r.bim)]
                         ELSE [NoRequest EXCEPT !.step = "refused"]
       ELSE Step("prepared")
    /\ UNCHANGED <<disk, orphans>> /\ Exporting

ValidatePrepared ==
    /\ At("prepared")
    /\ IF Blocked(ValidateBim(request.bim)) THEN End("refused")
       ELSE IF request.kind = "validate" THEN End("done") ELSE Step("checked")
    /\ UNCHANGED <<disk, orphans>> /\ Exporting

\* bim_json_to_ifc builds the model in memory, then opens a sibling file.
BuildModel ==
    /\ At("checked")
    /\ \E built \in {BuildIfc(request.bim, request.elevation)} :
          IF built.ok
          THEN /\ request' = [request EXCEPT !.step = "writing", !.file = built.file]
               /\ disk' = [disk EXCEPT !["temp"] = "partial"]
          ELSE End("refused") /\ UNCHANGED disk
    /\ UNCHANGED orphans /\ Exporting

\* The clean-up of a failure may fail as well, and says nothing.
Discard(f) ==
    \/ disk' = [disk EXCEPT ![f] = "none"] /\ UNCHANGED orphans
    \/ UNCHANGED disk /\ orphans' = orphans \cup {f}

WriteTemp ==
    /\ At("writing")
    /\ \/ /\ Step("gate")
          /\ disk' = [disk EXCEPT !["temp"] = "whole"]
          /\ UNCHANGED orphans
       \/ End("failed") /\ Discard("temp")
    /\ Exporting

\* The gate reads the sibling file; only then is it renamed.
PassGate ==
    /\ At("gate")
    /\ \/ /\ GateIssues(request.file) = {}
          /\ Step("renamed")
          /\ disk' = [disk EXCEPT !["temp"] = "none", !["artifact"] = "whole"]
          /\ UNCHANGED orphans
       \/ /\ End(IF GateIssues(request.file) = {} THEN "failed" ELSE "refused")
          /\ Discard("temp")
    /\ Exporting

\* create_ifc_artifact then reads the artifact once more.  What that validation
\* finds goes into the headers; if it raises, the caller never learns of the
\* file: the finally of from-analysis has no artifact, and the export routes
\* have registered no clean-up.
VerifyArtifact ==
    /\ At("renamed")
    /\ \/ Step("published") /\ UNCHANGED orphans
       \/ End("failed") /\ orphans' = orphans \cup {"artifact"}
    /\ UNCHANGED disk /\ Exporting

Written == [file |-> request.file, bim |-> request.bim,
            input |-> request.input, edit |-> request.edit]
Hand(file, input) ==
    job' = [NoJob EXCEPT !.step = "sent", !.of = file, !.input = input]

Submit_NoFinally ==    \* mutant: deletes the file only after a success
    \/ /\ At("published") /\ request.kind = "submit"
       /\ \/ Step("sent") /\ Hand(Written, NoInput)
          \/ End("failed") /\ UNCHANGED job
       /\ UNCHANGED <<plan, analysis, reply, saved, disk, orphans, held, count>>
    \/ /\ At("copied") /\ Step("sent") /\ Hand(held, request.input)
       /\ UNCHANGED <<plan, analysis, reply, saved, disk, orphans, held, count>>

\* from-analysis hands no payload to the engine, a client's post its own.
\* A submission that fails is cleaned up like one that succeeds.
Submit ==
    /\ \/ At("published") /\ request.kind = "submit"
          /\ Step("sent") /\ Hand(Written, NoInput)
       \/ At("copied") /\ Step("sent") /\ Hand(held, request.input)
       \/ /\ At("copied") \/ (At("published") /\ request.kind = "submit")
          /\ Step("unsent") /\ UNCHANGED job
    /\ UNCHANGED <<plan, analysis, reply, saved, disk, orphans, held, count>>

\* send_file has opened the artifact: it is deleted before the reply goes out.
SendFile ==
    /\ At("published") /\ request.kind # "submit"
    /\ Step("sent")
    /\ UNCHANGED <<disk, orphans>> /\ Exporting

CleanUp ==
    /\ request.step \in {"sent", "unsent"}
    /\ End(IF At("sent") THEN "done" ELSE "failed")
    /\ Discard(IF request.kind = "post" THEN "upload" ELSE "artifact")
    /\ held' = IF At("sent") /\ request.kind \in {"export", "upload"}
               THEN Written ELSE held
    /\ UNCHANGED <<plan, analysis, reply, saved, job, count>>

-----------------------------------------------------------------------------
(* POST /compliance/jobs/ifc with the file the client holds.               *)

StartPost ==
    /\ MayBegin
    /\ held # NoFile
    /\ \E input \in EngineInputs :
           /\ request' = [NoRequest EXCEPT !.step = "copying", !.kind = "post",
                              !.input = input]
           /\ disk' = [NoFiles EXCEPT !["upload"] = "partial"]
    /\ count' = count + 1 /\ orphans' = {}
    /\ UNCHANGED <<plan, analysis, reply, saved, held, job>>

CopyUpload ==
    /\ At("copying")
    /\ \/ /\ Step("copied")
          /\ disk' = [disk EXCEPT !["upload"] = "whole"]
       \/ Step("unsent") /\ UNCHANGED disk
    /\ UNCHANGED orphans /\ Exporting

WorkerDies ==
    /\ request.step \notin Over
    /\ End("died")
    /\ orphans' = OnDisk
    /\ UNCHANGED disk /\ Exporting

-----------------------------------------------------------------------------
(* The engine reads the file and merges the payload into the model.        *)

RunEngine ==
    /\ job.step = "sent"
    /\ \E r \in {EngineMerge(Payload(job.input), Ingest(job.of.file))} :
          job' = IF r.ok THEN [job EXCEPT !.step = "merged", !.model = r.model,
                                          !.findings = r.findings]
                 ELSE [job EXCEPT !.step = "failed"]
    /\ UNCHANGED <<plan, analysis, reply, saved, request, disk, orphans, held, count>>

Next ==
    \/ RunAnalysis \/ SaveAnalysis \/ AnalysisDies
    \/ StartFromFile \/ StartFromUpload \/ StartPost
    \/ PrepareBim \/ ValidatePrepared \/ BuildModel \/ WriteTemp \/ PassGate
    \/ VerifyArtifact \/ Submit \/ SendFile \/ CleanUp \/ CopyUpload \/ WorkerDies
    \/ RunEngine

Spec == Init /\ [][Next]_vars

-----------------------------------------------------------------------------
(* Properties.                                                             *)

\* Every file that left the gate: in the output directory, with the client
\* or with the engine.
Released ==
    (IF request.step \notin Over /\ disk["artifact"] # "none"
     THEN {Written} ELSE {})
    \cup ({held, job.of} \ {NoFile})

HostWall(file, o) == CHOOSE w \in {file.walls[i] : i \in DOMAIN file.walls} :
                        w.id = o.wall

\* A file that is served is the whole plan (ifc_exporter.py aborts rather than
\* lose geometry): each wall as the segments it was drawn with, each opening
\* in a segment of the wall that hosts it, each room, stair and slab.
ServedFileIsThePlan ==
    \A r \in Released :
        /\ \A i \in DOMAIN r.bim.walls :
               LET w == r.bim.walls[i]
                   parts == {j \in DOMAIN r.file.walls :
                                r.file.walls[j].parent = w.id}
               IN  /\ MapThenSumSet(LAMBDA j : Length(r.file.walls[j].axis),
                                    parts) = TotalLength(w.line)
                   /\ \A j \in parts : r.file.walls[j].height = w.dims["height"]
        /\ \A c \in {"doors", "windows"} :
               /\ Len(r.file[c]) = Len(r.bim[c])
               /\ \A i \in DOMAIN r.bim[c] :
                      /\ r.file[c][i].id = r.bim[c][i].id
                      /\ HostWall(r.file, r.file[c][i]).parent = r.bim[c][i].host
        /\ {r.file.spaces[i].id : i \in DOMAIN r.file.spaces}
               = {r.bim.rooms[i].id : i \in DOMAIN r.bim.rooms}

\* The gate (ifc_checks.py) lets no file out in which two elements share a
\* global id, an opening sticks out of its wall, a measurement differs from
\* its record or was taken at another scale, or the stated area of a room is
\* off the area of its body by more than a tenth of a square metre and more than
\* two per cent.  Edited uploads get that far.
ServedFileIsSound ==
    \A r \in Released :
        LET f == r.file
        IN  /\ \A a, b \in Rooted(f) :
                   Row(f, a).guid = Row(f, b).guid => a = b
            /\ \A a, b \in OpeningRows(f) :
                   Row(f, a).hole = Row(f, b).hole => a = b
            /\ \A e \in OpeningRows(f) :
                   LET o == Row(f, e)
                       w == HostWall(f, o)
                   IN  /\ o.chainage >= o.width \div 2 - HostTol
                       /\ o.chainage + o.width \div 2
                              <= Length(w.axis) + HostTol
                       /\ o.sill + o.height <= w.height + HostTol
                       /\ o.prov["width"].value = o.width
                       /\ o.prov["width"].scale = f.manifest.scale
            /\ \A i \in DOMAIN f.spaces :
                   LET off == Size(Area(f.spaces[i].footprint) - f.spaces[i].area)
                   IN  f.spaces[i].area = 0 \/ off <= 10 \/ 50 * off <= f.spaces[i].area

\* A request that is over leaves no file behind, whatever failed in it, but
\* those whose delete failed, those of a worker that died, and an artifact whose
\* second validation raised (ifc_workflow.py:113).  "Stage 1 request-scoped IFC
\* files are deleted in `finally` blocks", says ADR-005; the last case has none.
NoFileOutlivesItsRequest ==
    request.step \in Over => OnDisk \subseteq orphans

-----------------------------------------------------------------------------
(* What the engine ends up with, against what the operator stated.         *)

\* What a payload states about a field of an element.
States(input, c, ids, f) ==
    LET m     == Payload(input)
        named == {id \in ids : id \in DOMAIN m.overrides[c]
                                /\ f \in DOMAIN m.overrides[c][id]}
    IN  IF named = {} THEN Absent
        ELSE m.overrides[c][CHOOSE id \in named : TRUE][f]
StatesDefault(input, k) ==
    LET m == Payload(input)
    IN  IF k = "wall_height" THEN StatedWallHeight(m)
        ELSE Either(Get(m.defaults, k),
                    IF k = "floor_thickness" THEN Get(m.project, k) ELSE Absent)

Measured(c, i, f) ==
    LET mmpp == plan.claim.mmpp * plan.resize
    IN  CASE f = "width" -> plan.seen[c][i].width * mmpp
          [] f = "thickness" -> plan.seen[c][i].thickness * mmpp
          [] OTHER -> SystemDefaults[DefaultKey[c][f]]

\* Export over analysis, and in each an element's own value over a default.
Stated(c, i, id, f) ==
    Either(States(job.of.input, c, {id}, f),
    Either(StatesDefault(job.of.input, DefaultKey[c][f]),
    Either(States(plan.input, c, {id}, f),
    Either(StatesDefault(plan.input, DefaultKey[c][f]),
           Measured(c, i, f)))))

\* The engine judges the values the operator stated last: an override that
\* comes with the file, else what the export said, else what the analysis
\* said, else what was measured; a default sent along with the file replaces
\* no value the file has, and the parameters follow the same order
\* (two resolvers, manual_inputs.py and merger.py, with orders of their own).
EngineValuesAreStated ==
    job.step = "merged" /\ job.of.edit = "none" =>
        /\ \A c \in {"doors", "windows"} : \A i \in DOMAIN job.model[c] :
               LET row == job.model[c][i]
               IN  \A f \in DOMAIN DefaultKey[c] :
                      row.dims[f] = Either(States(job.input, c, row.ids, f),
                                           Stated(c, i, row.id, f))
        /\ \A i \in DOMAIN job.model.walls :
               LET row    == job.model.walls[i]
                   parent == job.of.file.walls[i].parent
                   origin == CHOOSE j \in DOMAIN job.of.bim.walls :
                                job.of.bim.walls[j].id = parent
               IN  \A f \in {"height", "thickness"} :
                      row.dims[f] = Either(States(job.input, "walls", row.ids, f),
                                           Stated("walls", origin, parent, f))
        /\ \A k \in ParamNames :
               job.model.params[k] = Either(StatesDefault(job.of.input, k),
                   Either(StatesDefault(plan.input, k), SystemDefaults[k]))

\* A doubt of the analysis reaches the engine, which withdraws verdicts that
\* rest on it (ifc_exporter.py _add_provenance): an unsure swing, an opening
\* without a clear host, a room without a name.
DoubtReachesEngine ==
    job.step = "merged" =>
        /\ \A i \in DOMAIN job.model.doors :
               plan.seen.doors[i].swing.needs_review
                   => job.model.doors[i].needs_review
        /\ \A c \in {"doors", "windows"} : \A i \in DOMAIN job.model[c] :
               job.of.bim[c][i].needs_review => job.model[c][i].needs_review
        /\ plan.seen.texts = <<>> =>
               \A i \in DOMAIN job.model.rooms : job.model.rooms[i].needs_review

\* bim_builder.py: "_provided" lists exactly the keys the operator supplied,
\* so that the engine can tag verdicts that rest on a parameter.
ProvidedWasStated ==
    job.step = "merged" /\ job.of.edit = "none" =>
        \A k \in job.model.provided \cap ParamNames :
            \E input \in {plan.input, job.of.input, job.input} :
                StatesDefault(input, k) # Absent

\* ifc_exporter.py _add_provenance: the engine reads NeedsReview to downgrade
\* uncertain elements; every stair comes from a bounding box and is uncertain.
StairDoubtReachesEngine ==
    job.step = "merged" =>
        \A i \in DOMAIN job.model.stairs :
            job.of.bim.stairs[i].needs_review => job.model.stairs[i].needs_review

\* bim_checks.py _check_openings: no opening is cut in the wrong place.
OpeningsStayInPlace ==
    \A r \in Released : \A c \in {"doors", "windows"} :
        \A i \in DOMAIN r.file[c] :
            Beside(r.bim[c][i].at, HostWall(r.file, r.file[c][i]).axis)
                <= OnWallTol
=============================================================================
