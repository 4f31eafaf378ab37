----------------------- MODULE ExportWorkflow_proofs -----------------------
(***************************************************************************)
(* Proofs about the export of a plan, for any drawings, payloads, edits    *)
(* and number of requests: what a request writes is gone when it is over,  *)
(* the engine refuses no payload that Stage 1 let through, every doubt of  *)
(* the analysis is still there in the model the engine judges, and what    *)
(* the gate lets out is sound.                                             *)
(***************************************************************************)
EXTENDS ExportWorkflow, TLAPS

\* The files other than f are not there.
Only(f) == \A g \in Files \ {f} : disk[g] = "none"

Shape ==
    /\ request = [step |-> request.step, kind |-> request.kind,
                  input |-> request.input, edit |-> request.edit,
                  elevation |-> request.elevation, bim |-> request.bim,
                  file |-> request.file]
    /\ disk \in [Files -> {"none", "partial", "whole"}]

\* The one file a request may have at each of its steps.
FilesByStep ==
    /\ request.step \in {"loaded", "prepared", "checked"} =>
           disk = NoFiles /\ request.kind # "post"
    /\ request.step \in {"writing", "gate"} =>
           Only("temp") /\ request.kind # "post"
    /\ request.step \in {"renamed", "published"} => Only("artifact") /\ request.kind # "post"
    /\ request.step \in {"copying", "copied"} =>
           Only("upload") /\ request.kind = "post"
    /\ request.step \in {"sent", "unsent"} =>
           Only(IF request.kind = "post" THEN "upload" ELSE "artifact")

Inv == Shape /\ FilesByStep /\ NoFileOutlivesItsRequest

requestVars == <<request, disk, orphans>>

USE DEF Files

\* Ending a request leaves only its step.
LEMMA Ended ==
  ASSUME NEW s, End(s)
  PROVE  request'.step = s /\ request' = [NoRequest EXCEPT !.step = s]
         /\ request' = [step |-> s, kind |-> "none", input |-> NoInput,
                        edit |-> "none", elevation |-> 0, bim |-> <<>>, file |-> <<>>]
  BY DEF End, NoRequest

\* A step of a request changes nothing else of it.
LEMMA Stepped ==
  ASSUME Shape, NEW s, Step(s)
  PROVE  request'.step = s /\ request'.kind = request.kind
         /\ request' = [step |-> s, kind |-> request.kind, input |-> request.input,
                        edit |-> request.edit, elevation |-> request.elevation,
                        bim |-> request.bim, file |-> request.file]
  BY DEF Shape, Step

\* Deleting the only file leaves none, unless the delete fails.
LEMMA Discarded ==
  ASSUME Shape, NEW f \in Files, Only(f), Discard(f)
  PROVE  /\ disk' \in [Files -> {"none", "partial", "whole"}]
         /\ OnDisk' \subseteq orphans'
  BY DEF Shape, Only, Discard, OnDisk

\* A request that ends without a file keeps the invariant.
LEMMA EndsClean ==
  ASSUME Inv, NEW s \in Over, End(s),
         disk' \in [Files -> {"none", "partial", "whole"}],
         OnDisk' \subseteq orphans'
  PROVE  Inv'
<1>1. request'.step = s /\ Shape'
  BY Ended DEF Shape, NoRequest
<1>2. FilesByStep'
  BY <1>1 DEF FilesByStep, Over
<1>3. NoFileOutlivesItsRequest'
  BY <1>1 DEF NoFileOutlivesItsRequest
<1> QED BY <1>1, <1>2, <1>3 DEF Inv

\* What does not touch the request or its files keeps it.
LEMMA Aside ==
  ASSUME Inv, UNCHANGED requestVars
  PROVE  Inv'
  BY DEF Inv, Shape, FilesByStep, Only, NoFileOutlivesItsRequest, requestVars, NoFiles, OnDisk

\* A request begins with no file of its own.
LEMMA Begins ==
  ASSUME Inv, NEW kind \in {"validate", "export", "submit", "upload", "none"},
         NEW input, NEW edit, NEW elevation, NEW bim,
         NEW step \in {"loaded", "refused"},
         Begin(kind, input, edit, elevation, bim, step)
  PROVE  Inv'
  BY DEF Inv, Begin, Shape, FilesByStep, NoFileOutlivesItsRequest, NoFiles, OnDisk, Over

LEMMA StartKeeps ==
  ASSUME Inv, StartFromFile \/ StartFromUpload
  PROVE  Inv'
<1>1. CASE StartFromFile
  <2>1. PICK kind \in {"validate", "export", "submit"}, input \in ExportInputs,
             elevation \in Elevations :
           IF saved = "whole"
           THEN Begin(kind, input, "none", elevation, reply, "loaded")
           ELSE Begin("none", NoInput, "none", 0, <<>>, "refused")
    BY <1>1 DEF StartFromFile
  <2>2. CASE saved = "whole"
    BY <2>1, <2>2, Begins
  <2>3. CASE saved # "whole"
    BY <2>1, <2>3, Begins
  <2> QED BY <2>2, <2>3
<1>2. CASE StartFromUpload
  BY <1>2, Begins DEF StartFromUpload
<1> QED BY <1>1, <1>2

LEMMA PrepareKeeps ==
  ASSUME Inv, PrepareBim
  PROVE  Inv'
<1>1. request.step = "loaded" /\ disk = NoFiles /\ request.kind # "post" /\ Shape
  BY DEF PrepareBim, At, Inv, FilesByStep
<1>2. UNCHANGED <<disk, orphans>>
  BY DEF PrepareBim
<1>3. CASE Step("prepared")
  BY <1>1, <1>2, <1>3, Stepped
  DEF Inv, Shape, FilesByStep, NoFileOutlivesItsRequest, NoFiles, Over
<1>4. CASE \E b : request' = [request EXCEPT !.step = "prepared", !.bim = b]
  BY <1>1, <1>2, <1>4
  DEF Inv, Shape, FilesByStep, NoFileOutlivesItsRequest, NoFiles, Over
<1>5. CASE End("refused")
  BY <1>1, <1>2, <1>5, EndsClean DEF Shape, Over, OnDisk, NoFiles
<1> QED
  <2>1. CASE request.input # NoInput \/ request.bim.manual = <<>>
    <3>1. PICK r \in {Stage1Resolve(Payload(request.input), request.bim)} :
              request' = IF r.ok THEN [request EXCEPT !.step = "prepared",
                                           !.bim = WithProvenance(r.bim)]
                         ELSE [NoRequest EXCEPT !.step = "refused"]
      BY <2>1 DEF PrepareBim
    <3> QED BY <3>1, <1>4, <1>5 DEF End
  <2> QED BY <2>1, <1>3 DEF PrepareBim

LEMMA ValidateKeeps ==
  ASSUME Inv, ValidatePrepared
  PROVE  Inv'
<1>1. request.step = "prepared" /\ disk = NoFiles /\ request.kind # "post" /\ Shape
  BY DEF ValidatePrepared, At, Inv, FilesByStep
<1>2. UNCHANGED <<disk, orphans>>
  BY DEF ValidatePrepared
<1>3. CASE End("refused") \/ End("done")
  BY <1>1, <1>2, <1>3, EndsClean DEF Shape, Over, OnDisk, NoFiles
<1>4. CASE Step("checked")
  BY <1>1, <1>2, <1>4, Stepped
  DEF Inv, Shape, FilesByStep, NoFileOutlivesItsRequest, NoFiles, Over
<1> QED BY <1>3, <1>4 DEF ValidatePrepared

LEMMA BuildKeeps ==
  ASSUME Inv, BuildModel
  PROVE  Inv'
<1>1. request.step = "checked" /\ disk = NoFiles /\ request.kind # "post" /\ Shape
  BY DEF BuildModel, At, Inv, FilesByStep
<1>2. PICK built \in {BuildIfc(request.bim, request.elevation)} :
          IF built.ok
          THEN /\ request' = [request EXCEPT !.step = "writing", !.file = built.file]
               /\ disk' = [disk EXCEPT !["temp"] = "partial"]
          ELSE End("refused") /\ UNCHANGED disk
  BY DEF BuildModel
<1>3. UNCHANGED orphans
  BY DEF BuildModel
<1>4. CASE built.ok
  <2>1. Shape'
    BY <1>1, <1>2, <1>4 DEF Shape
  <2>2. request'.step = "writing" /\ request'.kind # "post"
    BY <1>1, <1>2, <1>4 DEF Shape
  <2>3. Only("temp")'
    BY <1>1, <1>2, <1>4 DEF Only, NoFiles
  <2> QED BY <2>1, <2>2, <2>3 DEF Inv, FilesByStep, NoFileOutlivesItsRequest, Over
<1>5. CASE ~built.ok
  BY <1>1, <1>2, <1>3, <1>5, EndsClean DEF Shape, Over, OnDisk, NoFiles
<1> QED BY <1>4, <1>5

LEMMA WriteKeeps ==
  ASSUME Inv, WriteTemp
  PROVE  Inv'
<1>1. request.step = "writing" /\ Only("temp") /\ request.kind # "post" /\ Shape
  BY DEF WriteTemp, At, Inv, FilesByStep
<1>2. CASE Step("gate") /\ disk' = [disk EXCEPT !["temp"] = "whole"] /\ UNCHANGED orphans
  <2>1. Shape' /\ request'.step = "gate" /\ request'.kind # "post"
    BY <1>1, <1>2, Stepped DEF Shape
  <2>2. Only("temp")'
    BY <1>1, <1>2 DEF Only, Shape
  <2> QED BY <2>1, <2>2 DEF Inv, FilesByStep, NoFileOutlivesItsRequest, Over
<1>3. CASE End("failed") /\ Discard("temp")
  BY <1>1, <1>3, Discarded, EndsClean DEF Over
<1> QED BY <1>2, <1>3 DEF WriteTemp

LEMMA GateKeeps ==
  ASSUME Inv, PassGate
  PROVE  Inv'
<1>1. request.step = "gate" /\ Only("temp") /\ request.kind # "post" /\ Shape
  BY DEF PassGate, At, Inv, FilesByStep
<1>2. CASE /\ Step("renamed")
           /\ disk' = [disk EXCEPT !["temp"] = "none", !["artifact"] = "whole"]
  <2>1. Shape' /\ request'.step = "renamed" /\ request'.kind # "post"
    BY <1>1, <1>2, Stepped DEF Shape
  <2>2. Only("artifact")'
    BY <1>1, <1>2 DEF Only, Shape
  <2> QED BY <2>1, <2>2 DEF Inv, FilesByStep, NoFileOutlivesItsRequest, Over
<1>3. CASE (End("failed") \/ End("refused")) /\ Discard("temp")
  BY <1>1, <1>3, Discarded, EndsClean DEF Over
<1> QED BY <1>2, <1>3 DEF PassGate

LEMMA VerifyKeeps ==
  ASSUME Inv, VerifyArtifact
  PROVE  Inv'
<1>1. /\ request.step = "renamed" /\ Only("artifact") /\ request.kind # "post"
      /\ Shape /\ UNCHANGED disk
  BY DEF VerifyArtifact, At, Inv, FilesByStep
<1>2. CASE Step("published")
  <2>1. Shape' /\ request'.step = "published" /\ request'.kind # "post"
    BY <1>1, <1>2, Stepped DEF Shape
  <2>2. Only("artifact")'
    BY <1>1 DEF Only
  <2> QED BY <2>1, <2>2 DEF Inv, FilesByStep, NoFileOutlivesItsRequest, Over
<1>3. CASE End("failed") /\ orphans' = orphans \cup {"artifact"}
  <2>1. OnDisk' \subseteq orphans'
    BY <1>1, <1>3 DEF OnDisk, Only
  <2> QED BY <1>1, <1>3, <2>1, EndsClean DEF Shape, Over, OnDisk, NoFiles
<1> QED BY <1>2, <1>3 DEF VerifyArtifact

LEMMA HandOverKeeps ==
  ASSUME Inv, Submit \/ SendFile
  PROVE  Inv'
<1>1. UNCHANGED <<disk, orphans>> /\ (Step("sent") \/ Step("unsent")) /\ Shape
  BY DEF Submit, SendFile, Inv
<1>2. request.step \in {"published", "copied"}
  BY DEF Submit, SendFile, At
<1>3. Only(IF request.kind = "post" THEN "upload" ELSE "artifact")
  BY <1>2 DEF Inv, FilesByStep
<1>4. Shape' /\ request'.step \in {"sent", "unsent"} /\ request'.kind = request.kind
  BY <1>1, Stepped DEF Shape
<1>5. Only(IF request.kind = "post" THEN "upload" ELSE "artifact")'
  BY <1>1, <1>3, <1>4 DEF Only
<1> QED BY <1>4, <1>5 DEF Inv, FilesByStep, NoFileOutlivesItsRequest, Over

LEMMA CleanUpKeeps ==
  ASSUME Inv, CleanUp
  PROVE  Inv'
<1> DEFINE own == IF request.kind = "post" THEN "upload" ELSE "artifact"
<1>1. request.step \in {"sent", "unsent"} /\ (End("done") \/ End("failed")) /\ Discard(own)
  BY DEF CleanUp
<1>2. Only(own) /\ Shape /\ own \in Files
  BY <1>1 DEF Inv, FilesByStep
<1> QED BY <1>1, <1>2, Discarded, EndsClean DEF Over

LEMMA PostKeeps ==
  ASSUME Inv, StartPost
  PROVE  Inv'
<1>1. PICK input \in EngineInputs :
          /\ request' = [NoRequest EXCEPT !.step = "copying", !.kind = "post",
                             !.input = input]
          /\ disk' = [NoFiles EXCEPT !["upload"] = "partial"]
  BY DEF StartPost
<1>2. Shape' /\ request'.step = "copying" /\ request'.kind = "post"
  BY <1>1 DEF Shape, NoRequest, NoFiles
<1>3. Only("upload")'
  BY <1>1 DEF Only, NoFiles
<1> QED BY <1>2, <1>3 DEF Inv, FilesByStep, NoFileOutlivesItsRequest, Over

LEMMA CopyKeeps ==
  ASSUME Inv, CopyUpload
  PROVE  Inv'
<1>1. request.step = "copying" /\ Only("upload") /\ request.kind = "post" /\ Shape
  BY DEF CopyUpload, At, Inv, FilesByStep
<1>2. CASE Step("copied") /\ disk' = [disk EXCEPT !["upload"] = "whole"]
  <2>1. Shape' /\ request'.step = "copied" /\ request'.kind = "post"
    BY <1>1, <1>2, Stepped DEF Shape
  <2>2. Only("upload")'
    BY <1>1, <1>2 DEF Only, Shape
  <2> QED BY <2>1, <2>2 DEF Inv, FilesByStep, NoFileOutlivesItsRequest, Over
<1>3. CASE Step("unsent") /\ UNCHANGED disk
  <2>1. Shape' /\ request'.step = "unsent" /\ request'.kind = "post"
    BY <1>1, <1>3, Stepped DEF Shape
  <2>2. Only("upload")'
    BY <1>1, <1>3 DEF Only
  <2> QED BY <2>1, <2>2 DEF Inv, FilesByStep, NoFileOutlivesItsRequest, Over
<1> QED BY <1>2, <1>3 DEF CopyUpload

LEMMA DeathKeeps ==
  ASSUME Inv, WorkerDies
  PROVE  Inv'
  BY EndsClean DEF WorkerDies, Inv, Shape, Over, OnDisk

LEMMA StepKeeps ==
  ASSUME Inv, [Next]_vars
  PROVE  Inv'
<1>1. CASE RunAnalysis \/ SaveAnalysis \/ AnalysisDies \/ RunEngine \/ UNCHANGED vars
  BY <1>1, Aside DEF RunAnalysis, SaveAnalysis, AnalysisDies, RunEngine, vars, requestVars
<1> QED
  BY <1>1, StartKeeps, PrepareKeeps, ValidateKeeps, BuildKeeps, WriteKeeps, GateKeeps,
     VerifyKeeps, HandOverKeeps, CleanUpKeeps, PostKeeps, CopyKeeps, DeathKeeps DEF Next

\* However a request ends, refused, failed in any step or served, no file of
\* it is left but those nothing can delete any more: the finally blocks and the
\* sibling file of ifc_exporter.py account for every path but a delete that
\* fails, a worker that dies, and an artifact whose second validation raises.
THEOREM RequestsLeaveNothing == Spec => []NoFileOutlivesItsRequest
<1>1. Init => Inv
  BY DEF Init, Inv, Shape, NoRequest, NoFiles, OnDisk, FilesByStep, NoFileOutlivesItsRequest
<1>2. Inv /\ [Next]_vars => Inv'
  BY StepKeeps
<1>3. Inv => NoFileOutlivesItsRequest
  BY DEF Inv
<1> QED BY <1>1, <1>2, <1>3, PTL DEF Spec

-----------------------------------------------------------------------------
(* What both programs say of a payload.                                    *)

\* The engine's own validator (compliance-engine/manual_inputs/models.py)
\* refuses no payload that Stage 1 accepted: from-analysis and a client that
\* posts the payload of its export never fail on that account.  The converse
\* does not hold: the engine knows short names that Stage 1 refuses.
THEOREM Stage1AcceptsEngineAccepts == \A m : Stage1Accepts(m) => EngineAccepts(m)
<1> SUFFICES ASSUME NEW m, Stage1Accepts(m)
             PROVE  EngineAccepts(m)
    OBVIOUS
<1> DEFINE given == Either(Get(m.defaults, "wall_height"),
                           Get(m.defaults, "ceiling_height"))
<1>1. given # Absent => given = StatedWallHeight(m)
  BY DEF StatedWallHeight, Either
<1>2. DefaultsFit(m, StatedWallHeight(m))
  BY DEF Stage1Accepts
<1>3. DefaultsFit(m, given)
  <2>1. CASE given = Absent
    BY <2>1 DEF DefaultsFit
  <2>2. CASE given # Absent
    BY <2>2, <1>1, <1>2
  <2> QED BY <2>1, <2>2
<1> QED BY <1>2, <1>3 DEF Stage1Accepts, EngineAccepts

-----------------------------------------------------------------------------
(* A doubt is never lost on the way.                                       *)

Doubted == {"doors", "windows", "rooms"}

IsBim(b) ==
    /\ Doubted \subseteq DOMAIN b
    /\ \A c \in Doubted : \A i \in DOMAIN b[c] : "needs_review" \in DOMAIN b[c][i]

SameDoubts(a, b) ==
    \A c \in Doubted :
        /\ DOMAIN b[c] = DOMAIN a[c]
        /\ \A i \in DOMAIN b[c] : b[c][i].needs_review = a[c][i].needs_review

Keeps(a, b) == IsBim(b) /\ SameDoubts(a, b)

PlanKept(p, b) ==
    /\ IsBim(b)
    /\ DOMAIN b.doors = DOMAIN p.seen.doors
    /\ \A i \in DOMAIN b.doors :
           p.seen.doors[i].swing.needs_review => b.doors[i].needs_review
    /\ p.seen.texts = <<>> => \A i \in DOMAIN b.rooms : b.rooms[i].needs_review

LEMMA RowKept ==
    ASSUME NEW m, NEW bim, NEW c, NEW row, "needs_review" \in DOMAIN row
    PROVE  /\ Stage1Row(m, bim, c, row).needs_review = row.needs_review
           /\ "needs_review" \in DOMAIN Stage1Row(m, bim, c, row)
<1> DEFINE F1(a) == [row EXCEPT !.dims = a]
           F2(a, b) == [F1(a) EXCEPT !.res = b]
           F3(a, b, d) == [F2(a, b) EXCEPT !.width_source = d]
<1>1. \E a, b, d : Stage1Row(m, bim, c, row) = F3(a, b, d)
    BY DEF Stage1Row
<1>2. \A a, b, d : F3(a, b, d).needs_review = row.needs_review /\ DOMAIN F3(a, b, d) = DOMAIN row
    OBVIOUS
<1> HIDE DEF F3
<1> QED BY <1>1, <1>2

LEMMA EngineRowKept ==
    ASSUME NEW m, NEW c, NEW row, "needs_review" \in DOMAIN row
    PROVE  /\ EngineRow(m, c, row).needs_review = row.needs_review
           /\ "needs_review" \in DOMAIN EngineRow(m, c, row)
<1> DEFINE F1(a) == [row EXCEPT !.res = a]
           F2(a, b) == [F1(a) EXCEPT !.dims = b]
<1>1. \E a, b : EngineRow(m, c, row) = F2(a, b)
    BY DEF EngineRow
<1>2. \A a, b : F2(a, b).needs_review = row.needs_review /\ DOMAIN F2(a, b) = DOMAIN row
    OBVIOUS
<1> HIDE DEF F2
<1> QED BY <1>1, <1>2

LEMMA KeptOn ==
    ASSUME NEW p, NEW a, NEW b, PlanKept(p, a), Keeps(a, b)
    PROVE  PlanKept(p, b)
    BY DEF PlanKept, Keeps, SameDoubts, Doubted

LEMMA KeepsOn ==
    ASSUME NEW a, NEW b, NEW c, Keeps(a, b), Keeps(b, c)
    PROVE  Keeps(a, c)
    BY DEF Keeps, SameDoubts

LEMMA KeepsSelf ==
    ASSUME NEW a, IsBim(a)
    PROVE  Keeps(a, a)
    BY DEF Keeps, SameDoubts

\* Rows replaced by rows.
LEMMA RowsReplaced ==
    ASSUME NEW a, IsBim(a), NEW w, NEW d, NEW n,
           DOMAIN d = DOMAIN a.doors, DOMAIN n = DOMAIN a.windows,
           \A i \in DOMAIN d : /\ "needs_review" \in DOMAIN d[i]
                               /\ d[i].needs_review = a.doors[i].needs_review,
           \A i \in DOMAIN n : /\ "needs_review" \in DOMAIN n[i]
                               /\ n[i].needs_review = a.windows[i].needs_review
    PROVE  Keeps(a, [a EXCEPT !.walls = w, !.doors = d, !.windows = n])
<1> DEFINE b == [a EXCEPT !.walls = w, !.doors = d, !.windows = n]
<1>1. DOMAIN b = DOMAIN a /\ b["doors"] = d /\ b["windows"] = n /\ b["rooms"] = a["rooms"]
    BY DEF IsBim, Doubted
<1> HIDE DEF b
<1>2. IsBim(b)
    BY <1>1 DEF IsBim, Doubted
<1>3. SameDoubts(a, b)
    BY <1>1 DEF SameDoubts, Doubted
<1> QED BY <1>2, <1>3 DEF Keeps, b

Plain == {"params", "provided", "level", "manual", "scale", "elevation"}

\* A field that holds no rows replaced.
LEMMA FieldReplaced ==
    ASSUME NEW a, IsBim(a), NEW f \in Plain, NEW v
    PROVE  Keeps(a, [a EXCEPT ![f] = v])
<1> DEFINE b == [a EXCEPT ![f] = v]
<1>1. DOMAIN b = DOMAIN a /\ \A c \in Doubted : b[c] = a[c]
    BY DEF Doubted, Plain
<1> HIDE DEF b
<1> QED BY <1>1 DEF Keeps, SameDoubts, IsBim, b

LEMMA Stamped ==
    ASSUME NEW bim, IsBim(bim)
    PROVE  Keeps(bim, WithProvenance(bim))
<1> DEFINE stamp(rows) == [i \in DOMAIN rows |-> [rows[i] EXCEPT
            !.prov = [f \in DOMAIN rows[i].dims |->
                        MeasurementRecord(rows[i], f, bim.scale)]]]
<1>1. \A c \in Doubted : /\ DOMAIN stamp(bim[c]) = DOMAIN bim[c]
        /\ \A i \in DOMAIN bim[c] : /\ "needs_review" \in DOMAIN stamp(bim[c])[i]
                               /\ stamp(bim[c])[i].needs_review = bim[c][i].needs_review
    BY DEF IsBim
<1> HIDE DEF stamp
<1>2. Keeps(bim, [bim EXCEPT !.walls = stamp(bim.walls), !.doors = stamp(bim.doors),
                    !.windows = stamp(bim.windows)])
    BY <1>1, RowsReplaced DEF Doubted
<1> QED BY <1>2 DEF WithProvenance, stamp

LEMMA Resolved ==
    ASSUME NEW m, NEW bim, IsBim(bim)
    PROVE  Keeps(bim, Stage1Resolve(m, bim).bim)
<1> DEFINE rows == [c \in Collections |-> [i \in DOMAIN bim[c] |->
                            Stage1Row(m, bim, c, bim[c][i])]]
           F3(a) == [a EXCEPT !.walls = rows["walls"], !.doors = rows["doors"],
                        !.windows = rows["windows"]]
           F4(a, x) == [a EXCEPT !.params = x]
           F5(a, x) == [a EXCEPT !.provided = x]
           F6(a, x) == [a EXCEPT !.level = x]
           F7(a, x) == [a EXCEPT !.manual = x]
           all(t, u, v, w) == F7(F6(F5(F4(F3(bim), t), u), v), w)
<1>1. Stage1Resolve(m, bim).bim = bim \/ \E t, u, v, w :
          Stage1Resolve(m, bim).bim = all(t, u, v, w)
    BY DEF Stage1Resolve, Stage1Merge
<1>2. \A c \in {"doors", "windows"} : /\ DOMAIN rows[c] = DOMAIN bim[c]
        /\ \A i \in DOMAIN bim[c] : /\ "needs_review" \in DOMAIN rows[c][i]
                               /\ rows[c][i].needs_review = bim[c][i].needs_review
    BY RowKept DEF IsBim, Doubted, Collections
<1> HIDE DEF rows
<1>3. Keeps(bim, F3(bim))
    BY <1>2, RowsReplaced
<1>4. \A a, x : IsBim(a) => /\ Keeps(a, F4(a, x)) /\ Keeps(a, F5(a, x))
                            /\ Keeps(a, F6(a, x)) /\ Keeps(a, F7(a, x))
    BY FieldReplaced DEF Plain
<1>5. \A a : Keeps(bim, a) => IsBim(a)
    BY DEF Keeps
<1> HIDE DEF F3, F4, F5, F6, F7
<1>6. \A t, u, v, w : Keeps(bim, all(t, u, v, w))
    <2> SUFFICES ASSUME NEW t, NEW u, NEW v, NEW w
                 PROVE  Keeps(bim, all(t, u, v, w))
        OBVIOUS
    <2>1. Keeps(bim, F4(F3(bim), t))
        BY <1>3, <1>4, <1>5, KeepsOn
    <2>2. Keeps(bim, F5(F4(F3(bim), t), u))
        BY <2>1, <1>4, <1>5, KeepsOn
    <2>3. Keeps(bim, F6(F5(F4(F3(bim), t), u), v))
        BY <2>2, <1>4, <1>5, KeepsOn
    <2> QED BY <2>3, <1>4, <1>5, KeepsOn
<1> HIDE DEF all
<1> QED BY <1>1, <1>6, KeepsSelf

LEMMA EditKept ==
    ASSUME NEW bim, IsBim(bim), NEW edit \in Edits
    PROVE  Keeps(bim, Edited(edit, bim))
<1>1. CASE edit = "none"
    BY <1>1, KeepsSelf DEF Edited
<1>2. CASE edit = "wider_doors"
    <2> DEFINE doors == [i \in DOMAIN bim.doors |-> Widened(bim.doors[i])]
               b == [bim EXCEPT !.doors = doors]
    <2>1. \A r : Widened(r).needs_review = r.needs_review /\ DOMAIN Widened(r) = DOMAIN r
        BY DEF Widened
    <2>2. Edited(edit, bim) = b
        BY <1>2 DEF Edited
    <2>3. DOMAIN b = DOMAIN bim /\ b["windows"] = bim["windows"] /\ b["rooms"] = bim["rooms"]
          /\ b["doors"] = doors
        BY DEF IsBim, Doubted
    <2> HIDE DEF b
    <2>4. IsBim(b)
        BY <2>1, <2>3 DEF IsBim, Doubted
    <2>5. SameDoubts(bim, b)
        BY <2>1, <2>3 DEF SameDoubts, Doubted
    <2> QED BY <2>2, <2>4, <2>5 DEF Keeps
<1>3. CASE edit = "no_resolution"
    <2> DEFINE walls == [i \in DOMAIN bim.walls |-> [bim.walls[i] EXCEPT !.res = <<>>, !.prov = <<>>]]
               b == [bim EXCEPT !.manual = <<>>, !.walls = walls]
    <2>1. Edited(edit, bim) = b
        BY <1>3 DEF Edited
    <2> HIDE DEF walls
    <2>2. DOMAIN b = DOMAIN bim /\ \A c \in Doubted : b[c] = bim[c]
        BY DEF Doubted
    <2> HIDE DEF b
    <2> QED BY <2>1, <2>2 DEF Keeps, SameDoubts, IsBim
<1>4. CASE edit = "bare_scale"
    <2>1. Edited(edit, bim) = [bim EXCEPT !["scale"] = [mmpp |-> bim.scale.mmpp, source |-> "none",
                                   evidence |-> <<>>]]
        BY <1>4 DEF Edited
    <2>2. "scale" \in Plain
        BY DEF Plain
    <2>3. Keeps(bim, [bim EXCEPT !["scale"] = [mmpp |-> bim.scale.mmpp, source |-> "none",
                                   evidence |-> <<>>]])
        BY <2>2, FieldReplaced
    <2> QED BY <2>1, <2>3
<1>5. CASE edit = "open_rooms"
    <2> DEFINE rooms == [i \in DOMAIN bim.rooms |-> Opened(bim.rooms[i])]
               b == [bim EXCEPT !.rooms = rooms]
    <2>1. \A r : Opened(r).needs_review = r.needs_review /\ DOMAIN Opened(r) = DOMAIN r
        BY DEF Opened
    <2>2. Edited(edit, bim) = b
        BY <1>5 DEF Edited
    <2>3. DOMAIN b = DOMAIN bim /\ b["windows"] = bim["windows"] /\ b["doors"] = bim["doors"]
          /\ b["rooms"] = rooms
        BY DEF IsBim, Doubted
    <2> HIDE DEF b
    <2>4. IsBim(b)
        BY <2>1, <2>3 DEF IsBim, Doubted
    <2>5. SameDoubts(bim, b)
        BY <2>1, <2>3 DEF SameDoubts, Doubted
    <2> QED BY <2>2, <2>4, <2>5 DEF Keeps
<1> QED BY <1>1, <1>2, <1>3, <1>4, <1>5, EditsAssumption DEF EditsAssumption

LEMMA PreflightKept ==
    ASSUME NEW bim, IsBim(bim)
    PROVE  Keeps(bim, Preflight(bim).bim)
<1> DEFINE r == IF bim.manual = <<>> THEN Stage1Resolve(EmptyPayload, bim)
                 ELSE [ok |-> TRUE, bim |-> bim]
           b == [r.bim EXCEPT !["scale"] = SettledScale(r.bim.scale)]
<1>1. Keeps(bim, r.bim)
    BY Resolved, KeepsSelf
<1>2. Preflight(bim).bim \in {bim, b, WithProvenance(b)}
    BY DEF Preflight, Settled
<1> HIDE DEF r
<1>3. Keeps(bim, b) /\ IsBim(b)
    BY <1>1, FieldReplaced, KeepsOn DEF Plain, Keeps
<1> HIDE DEF b
<1>4. Keeps(bim, WithProvenance(b))
    BY <1>3, Stamped, KeepsOn
<1> QED BY <1>2, <1>3, <1>4, KeepsSelf

LEMMA BuildKept ==
    ASSUME NEW p, NEW stated, NEW mmpp, NEW given
    PROVE  PlanKept(p, Build(p.seen, stated, mmpp, given))
<1> DEFINE seen == p.seen
           walls == WallParameters(seen, mmpp)
           outer == ExteriorWalls(walls, ToMm(seen.image, mmpp))
           b == BuildOf(seen, stated, mmpp, given, walls, outer)
           pp == given @@ SystemDefaults
<1> HIDE DEF seen, walls, outer
<1>1. \A kind, i, o, dims :
          LET r == BuildOpening(kind, i, o, walls, outer, mmpp, dims)
          IN  "needs_review" \in DOMAIN r /\ (kind = "Door_" /\ o.swing.needs_review => r.needs_review)
    BY DEF BuildOpening, HostedOpening
<1>2. DOMAIN b.doors = DOMAIN seen.doors /\ \A i \in DOMAIN b.doors :
         "needs_review" \in DOMAIN b.doors[i]
         /\ (seen.doors[i].swing.needs_review => b.doors[i].needs_review)
    BY <1>1 DEF BuildOf
<1>3. \A i \in DOMAIN b.windows : "needs_review" \in DOMAIN b.windows[i]
    BY <1>1 DEF BuildOf
<1>4. \A i \in DOMAIN b.rooms : "needs_review" \in DOMAIN b.rooms[i]
    BY DEF BuildOf, RoomPolygons
<1>5. ASSUME seen.texts = <<>>
      PROVE  \A i \in DOMAIN b.rooms : b.rooms[i].needs_review
    <2>1. \A polygon : MatchName(polygon, seen.texts) = [category |-> "Unknown", name |-> "Room"]
        BY <1>5 DEF MatchName
    <2>2. ~Named([category |-> "Unknown", name |-> "Room"])
        BY DEF Named
    <2>3. \A polygon, size : <<"no_label", 600>> \in RoomDoubts(FALSE, polygon, size)
        BY DEF RoomDoubts
    <2>4. \A polygon, size : RoomDoubts(FALSE, polygon, size) # {}
        BY <2>3
    <2>5. \A q : Named(MatchName(q, seen.texts)) = FALSE
        BY <2>1, <2>2 DEF Named
    <2>6. \A polygon, size, q : RoomDoubts(Named(MatchName(q, seen.texts)), polygon, size) # {}
        <3> TAKE polygon, size, q
        <3>1. Named(MatchName(q, seen.texts)) = FALSE
            BY <2>5
        <3> QED BY <3>1, <2>4
    <2> QED BY <2>6 DEF BuildOf, RoomPolygons
<1>6. Doubted \subseteq DOMAIN b
    BY DEF BuildOf, Doubted
<1> HIDE DEF b
<1> QED BY <1>2, <1>3, <1>4, <1>5, <1>6 DEF Build, PlanKept, IsBim, Doubted, b, walls, outer, seen

LEMMA Carried ==
    ASSUME NEW bim, IsBim(bim), NEW e
    PROVE  Keeps(bim, Ingest(IfcFile(bim, e)))
<1> DEFINE file == IfcFile(bim, e)
           model == Ingest(file)
           Same(x, y) == "needs_review" \in DOMAIN y /\ y.needs_review = x.needs_review
           walls == file.walls
           p == FileParams(bim)
<1>1. /\ DOMAIN file.doors = DOMAIN bim.doors
      /\ \A i \in DOMAIN bim.doors : file.doors[i] = DoorEntity(bim.doors[i], walls, p)
    BY DEF IfcFile, Entities
<1>2. /\ DOMAIN file.windows = DOMAIN bim.windows
      /\ \A i \in DOMAIN bim.windows : file.windows[i] = WindowEntity(bim.windows[i], walls, p)
    BY DEF IfcFile, Entities
<1>3. /\ DOMAIN file.spaces = DOMAIN bim.rooms
      /\ \A i \in DOMAIN bim.rooms : file.spaces[i] = SpaceEntity(bim.rooms[i], p)
    BY DEF IfcFile, Entities
<1> HIDE DEF file, walls, p
<1>4. \A r, w, q : Same(r, DoorEntity(r, w, q)) /\ Same(r, WindowEntity(r, w, q))
    BY DEF DoorEntity, WindowEntity, OpeningEntity
<1>5. \A r, q : Same(r, SpaceEntity(r, q))
    BY DEF SpaceEntity
<1>6. \A c, o : Same(o, IngestOpening(c, o))
    BY DEF IngestOpening
<1>7. \A o : Same(o, IngestSpace(o))
    BY DEF IngestSpace
<1>8. /\ Doubted \subseteq DOMAIN model
      /\ DOMAIN model["doors"] = DOMAIN file.doors
      /\ \A i \in DOMAIN file.doors : model["doors"][i] = IngestOpening("doors", file.doors[i])
      /\ DOMAIN model["windows"] = DOMAIN file.windows
      /\ \A i \in DOMAIN file.windows : model["windows"][i] = IngestOpening("windows", file.windows[i])
      /\ DOMAIN model["rooms"] = DOMAIN file.spaces
      /\ \A i \in DOMAIN file.spaces : model["rooms"][i] = IngestSpace(file.spaces[i])
    BY DEF Ingest, Entities, Doubted
<1> HIDE DEF model
<1>9. \A c \in Doubted : DOMAIN model[c] = DOMAIN bim[c]
                        /\ \A i \in DOMAIN bim[c] : Same(bim[c][i], model[c][i])
    <2>1. \A i \in DOMAIN bim.doors : Same(bim.doors[i], model["doors"][i])
        BY <1>1, <1>4, <1>6, <1>8
    <2>2. \A i \in DOMAIN bim.windows : Same(bim.windows[i], model["windows"][i])
        BY <1>2, <1>4, <1>6, <1>8
    <2>3. \A i \in DOMAIN bim.rooms : Same(bim.rooms[i], model["rooms"][i])
        BY <1>3, <1>5, <1>7, <1>8
    <2> HIDE DEF Same
    <2> QED BY <1>1, <1>2, <1>3, <1>8, <2>1, <2>2, <2>3 DEF Doubted
<1> QED BY <1>8, <1>9 DEF Keeps, IsBim, SameDoubts, model, file

LEMMA Merged ==
    ASSUME NEW m, NEW model, IsBim(model)
    PROVE  Keeps(model, EngineMerge(m, model).model)
<1> DEFINE rows == [c \in Collections |-> [i \in DOMAIN model[c] |->
                            EngineRow(m, c, model[c][i])]]
           F3(a) == [a EXCEPT !.walls = rows["walls"], !.doors = rows["doors"],
                        !.windows = rows["windows"]]
           F4(a, x) == [a EXCEPT !.params = x]
           F5(a, x) == [a EXCEPT !.provided = x]
           F6(a, x) == [a EXCEPT !.elevation = x]
           all(t, u, v) == F6(F5(F4(F3(model), t), u), v)
<1>1. EngineMerge(m, model).model = model \/ \E t, u, v :
          EngineMerge(m, model).model = all(t, u, v)
    BY DEF EngineMerge, EngineResult
<1>2. \A c \in {"doors", "windows"} : /\ DOMAIN rows[c] = DOMAIN model[c]
        /\ \A i \in DOMAIN model[c] : /\ "needs_review" \in DOMAIN rows[c][i]
                               /\ rows[c][i].needs_review = model[c][i].needs_review
    BY EngineRowKept DEF IsBim, Doubted, Collections
<1> HIDE DEF rows
<1>3. Keeps(model, F3(model))
    BY <1>2, RowsReplaced
<1>4. \A a, x : IsBim(a) => /\ Keeps(a, F4(a, x)) /\ Keeps(a, F5(a, x))
                            /\ Keeps(a, F6(a, x))
    BY FieldReplaced DEF Plain
<1>5. \A a : Keeps(model, a) => IsBim(a)
    BY DEF Keeps
<1> HIDE DEF F3, F4, F5, F6
<1>6. \A t, u, v : Keeps(model, all(t, u, v))
    <2> SUFFICES ASSUME NEW t, NEW u, NEW v
                 PROVE  Keeps(model, all(t, u, v))
        OBVIOUS
    <2>1. Keeps(model, F4(F3(model), t))
        BY <1>3, <1>4, <1>5, KeepsOn
    <2>2. Keeps(model, F5(F4(F3(model), t), u))
        BY <2>1, <1>4, <1>5, KeepsOn
    <2> QED BY <2>2, <1>4, <1>5, KeepsOn
<1> HIDE DEF all
<1> QED BY <1>1, <1>6, KeepsSelf

-----------------------------------------------------------------------------
(* What is in a file, from the analysis to the engine.                     *)

\* A file was made of a plan that kept the doubts of the analysis.
FromPlan(p, w) ==
    /\ PlanKept(p, w.bim)
    /\ w.file = IfcFile(Preflight(w.bim).bim, w.file.elevation)

\* And it came through the gate.
Leaves(p, w) == FromPlan(p, w) /\ GateIssues(w.file) = {}

AnalysisKept == analysis \in {"saving", "replied"} => PlanKept(plan, reply)

Serving == {"loaded", "prepared", "checked", "writing", "gate", "renamed", "published",
            "copying", "copied", "sent", "unsent"}

RequestKept ==
    /\ request.step \in Over \cup Serving
    /\ request.step \in {"loaded", "prepared", "checked"} => PlanKept(plan, request.bim)
    /\ request.step \in {"writing", "gate"} => FromPlan(plan, Written)
    /\ request.step \in {"renamed", "published"} => Leaves(plan, Written)
    /\ request.step \in {"sent", "unsent"} /\ request.kind # "post" => Leaves(plan, Written)
    /\ request.step \in {"copying", "copied"} => held # NoFile

HeldKept == held # NoFile => Leaves(plan, held)

JobKept ==
    /\ job = [step |-> job.step, of |-> job.of, input |-> job.input,
              findings |-> job.findings, model |-> job.model]
    /\ job = NoJob \/ (Leaves(plan, job.of) /\ job.step \in {"sent", "failed", "merged"})
    /\ job.step = "merged" => Keeps(job.of.bim, job.model)

FilesInv == AnalysisKept /\ RequestKept /\ HeldKept /\ JobKept

others == <<plan, analysis, reply, held, job>>

\* A request that touches nothing else has only itself to answer for.
LEMMA OnlyRequest ==
  ASSUME FilesInv, UNCHANGED others, RequestKept'
  PROVE  FilesInv'
  BY DEF FilesInv, AnalysisKept, HeldKept, JobKept, others

LEMMA EndKept ==
  ASSUME NEW s \in Over, End(s)
  PROVE  RequestKept'
<1>1. request'.step = s
  BY Ended
<1> QED BY <1>1 DEF RequestKept, Over, Serving

\* A step that takes the plan along, or the file and what it was made of.
LEMMA WrittenStays ==
  ASSUME Shape, NEW s, Step(s)
  PROVE  Written' = Written
  BY Stepped DEF Written

LEMMA StartKept ==
  ASSUME FilesInv, StartFromFile \/ StartFromUpload
  PROVE  FilesInv'
<1>1. PlanKept(plan, reply)
  BY DEF StartFromFile, StartFromUpload, MayExport, MayBegin, FilesInv, AnalysisKept
<1>2. \E kind, input, edit, elevation, bim :
          \/ PlanKept(plan, bim) /\ Begin(kind, input, edit, elevation, bim, "loaded")
          \/ Begin(kind, input, edit, elevation, bim, "refused")
  <2>1. CASE StartFromFile
    BY <1>1, <2>1 DEF StartFromFile
  <2>2. CASE StartFromUpload
    <3>1. PICK input \in ExportInputs, edit \in Edits, elevation \in Elevations :
              Begin("upload", input, edit, elevation, Edited(edit, reply), "loaded")
      BY <2>2 DEF StartFromUpload
    <3>2. PlanKept(plan, Edited(edit, reply))
      BY <1>1, EditKept, KeptOn DEF PlanKept
    <3> QED BY <3>1, <3>2
  <2> QED BY <2>1, <2>2
<1>3. PICK kind, input, edit, elevation, bim :
          \/ PlanKept(plan, bim) /\ Begin(kind, input, edit, elevation, bim, "loaded")
          \/ Begin(kind, input, edit, elevation, bim, "refused")
  BY <1>2
<1>4. UNCHANGED others
  BY <1>3 DEF Begin, others
<1>5. RequestKept'
  <2>1. CASE PlanKept(plan, bim) /\ Begin(kind, input, edit, elevation, bim, "loaded")
    <3>1. request'.step = "loaded" /\ request'.bim = bim /\ plan' = plan
      BY <2>1 DEF Begin
    <3> QED BY <2>1, <3>1 DEF RequestKept, Over, Serving
  <2>2. CASE Begin(kind, input, edit, elevation, bim, "refused")
    <3>1. request'.step = "refused"
      BY <2>2 DEF Begin
    <3> QED BY <3>1 DEF RequestKept, Over, Serving
  <2> QED BY <1>3, <2>1, <2>2
<1> QED BY <1>4, <1>5, OnlyRequest

LEMMA PrepareKept ==
  ASSUME Inv, FilesInv, PrepareBim
  PROVE  FilesInv'
<1>1. request.step = "loaded" /\ PlanKept(plan, request.bim) /\ Shape
  BY DEF PrepareBim, At, Inv, FilesInv, RequestKept
<1>2. UNCHANGED others
  BY DEF PrepareBim, Exporting, others
<1>3. CASE Step("prepared")
  <2>1. request'.step = "prepared" /\ request'.bim = request.bim /\ plan' = plan
    BY <1>1, <1>2, <1>3, Stepped DEF others
  <2>2. RequestKept'
    BY <1>1, <2>1 DEF RequestKept, Over, Serving
  <2> QED BY <1>2, <2>2, OnlyRequest
<1>4. CASE request.input # NoInput \/ request.bim.manual = <<>>
  <2> DEFINE r == Stage1Resolve(Payload(request.input), request.bim)
  <2>1. request' = IF r.ok THEN [request EXCEPT !.step = "prepared",
                                           !.bim = WithProvenance(r.bim)]
                   ELSE [NoRequest EXCEPT !.step = "refused"]
    BY <1>4 DEF PrepareBim
  <2>2. PlanKept(plan, WithProvenance(r.bim))
    <3>1. Keeps(request.bim, r.bim)
      BY <1>1, Resolved DEF PlanKept
    <3>2. PlanKept(plan, r.bim) /\ IsBim(r.bim)
      BY <1>1, <3>1, KeptOn DEF Keeps
    <3> QED BY <3>2, Stamped, KeptOn
  <2> HIDE DEF r
  <2>3. CASE r.ok
    <3>1. request'.step = "prepared" /\ request'.bim = WithProvenance(r.bim) /\ plan' = plan
      BY <1>1, <1>2, <2>1, <2>3 DEF Shape, others
    <3>2. RequestKept'
      BY <2>2, <3>1 DEF RequestKept, Over, Serving
    <3> QED BY <1>2, <3>2, OnlyRequest
  <2>4. CASE ~r.ok
    BY <1>2, <2>1, <2>4, EndKept, OnlyRequest DEF End, Over
  <2> QED BY <2>3, <2>4
<1> QED BY <1>3, <1>4 DEF PrepareBim

LEMMA ValidateKept ==
  ASSUME Inv, FilesInv, ValidatePrepared
  PROVE  FilesInv'
<1>1. request.step = "prepared" /\ PlanKept(plan, request.bim) /\ Shape
  BY DEF ValidatePrepared, At, Inv, FilesInv, RequestKept
<1>2. UNCHANGED others
  BY DEF ValidatePrepared, Exporting, others
<1>3. CASE End("refused") \/ End("done")
  BY <1>2, <1>3, EndKept, OnlyRequest DEF Over
<1>4. CASE Step("checked")
  <2>1. request'.step = "checked" /\ request'.bim = request.bim /\ plan' = plan
    BY <1>1, <1>2, <1>4, Stepped DEF others
  <2>2. RequestKept'
    BY <1>1, <2>1 DEF RequestKept, Over, Serving
  <2> QED BY <1>2, <2>2, OnlyRequest
<1> QED BY <1>3, <1>4 DEF ValidatePrepared

LEMMA BuildKeepsPlan ==
  ASSUME Inv, FilesInv, BuildModel
  PROVE  FilesInv'
<1> DEFINE built == BuildIfc(request.bim, request.elevation)
<1>1. request.step = "checked" /\ PlanKept(plan, request.bim) /\ Shape
  BY DEF BuildModel, At, Inv, FilesInv, RequestKept
<1>2. UNCHANGED others
  BY DEF BuildModel, Exporting, others
<1>3. CASE built.ok /\ request' = [request EXCEPT !.step = "writing", !.file = built.file]
  <2>1. built.file = IfcFile(Preflight(request.bim).bim, request.elevation)
    BY <1>3 DEF BuildIfc, BuildSettled
  <2>2. IfcFile(Preflight(request.bim).bim, request.elevation).elevation = request.elevation
    BY DEF IfcFile
  <2> HIDE DEF built
  <2>3. request'.step = "writing" /\ request'.bim = request.bim /\ request'.file = built.file
        /\ plan' = plan
    BY <1>1, <1>2, <1>3 DEF Shape, others
  <2>4. FromPlan(plan', Written')
    BY <1>1, <2>1, <2>2, <2>3 DEF FromPlan, Written
  <2>5. RequestKept'
    BY <2>3, <2>4 DEF RequestKept, Over, Serving
  <2> QED BY <1>2, <2>5, OnlyRequest
<1>4. CASE End("refused")
  BY <1>2, <1>4, EndKept, OnlyRequest DEF Over
<1> QED BY <1>3, <1>4 DEF BuildModel

LEMMA WriteKept ==
  ASSUME Inv, FilesInv, WriteTemp \/ PassGate \/ VerifyArtifact
  PROVE  FilesInv'
<1>1. FromPlan(plan, Written) /\ Shape
  BY DEF WriteTemp, PassGate, VerifyArtifact, At, Inv, FilesInv, RequestKept, Leaves
<1>2. UNCHANGED others
  BY DEF WriteTemp, PassGate, VerifyArtifact, Exporting, others
<1>3. CASE End("failed") \/ End("refused")
  BY <1>2, <1>3, EndKept, OnlyRequest DEF Over
<1>4. CASE Step("gate")
  <2>1. request'.step = "gate" /\ Written' = Written /\ plan' = plan
    BY <1>1, <1>2, <1>4, Stepped, WrittenStays DEF others
  <2>2. RequestKept'
    BY <1>1, <2>1 DEF RequestKept, Over, Serving
  <2> QED BY <1>2, <2>2, OnlyRequest
<1>5. CASE \/ Step("renamed") /\ GateIssues(request.file) = {}
           \/ Step("published") /\ Leaves(plan, Written)
  <2>1. request'.step \in {"renamed", "published"} /\ Written' = Written /\ plan' = plan
    BY <1>1, <1>2, <1>5, Stepped, WrittenStays DEF others
  <2>2. Leaves(plan, Written)
    BY <1>1, <1>5 DEF Leaves, Written
  <2>3. RequestKept'
    BY <2>1, <2>2 DEF RequestKept, Over, Serving
  <2> QED BY <1>2, <2>3, OnlyRequest
<1>6. VerifyArtifact => Leaves(plan, Written)
  BY DEF VerifyArtifact, At, FilesInv, RequestKept
<1> QED BY <1>3, <1>4, <1>5, <1>6 DEF WriteTemp, PassGate, VerifyArtifact

LEMMA HandOverKept ==
  ASSUME Inv, FilesInv, Submit \/ SendFile
  PROVE  FilesInv'
<1>1. Shape /\ plan' = plan /\ held' = held /\ UNCHANGED <<analysis, reply>>
  BY DEF Submit, SendFile, Exporting, Inv
<1>2. Step("sent") \/ Step("unsent")
  BY DEF Submit, SendFile
<1>3. /\ request'.step \in {"sent", "unsent"}
      /\ request'.kind = request.kind /\ Written' = Written
  BY <1>1, <1>2, Stepped, WrittenStays
<1>4. RequestKept'
  <2>1. At("published") \/ (At("copied") /\ request.kind = "post")
    BY DEF Submit, SendFile, Inv, FilesByStep, At
  <2>2. request.kind # "post" => Leaves(plan, Written)
    BY <2>1 DEF At, FilesInv, RequestKept
  <2> QED BY <1>1, <1>3, <2>2 DEF RequestKept, Over, Serving
<1>5. JobKept'
  <2>1. \/ UNCHANGED job
        \/ \E file, input : Leaves(plan, file) /\ Hand(file, input)
    BY DEF Submit, SendFile, Exporting, At, FilesInv, RequestKept, HeldKept
  <2>2. CASE UNCHANGED job
    BY <1>1, <2>2 DEF FilesInv, JobKept
  <2>3. CASE \E file, input : Leaves(plan, file) /\ Hand(file, input)
    <3>1. PICK file, input : Leaves(plan, file) /\ Hand(file, input)
      BY <2>3
    <3>2. job' = [step |-> "sent", of |-> file, input |-> input, findings |-> {}, model |-> <<>>]
      BY <3>1 DEF Hand, NoJob
    <3> QED BY <1>1, <3>1, <3>2 DEF JobKept
  <2> QED BY <2>1, <2>2, <2>3
<1> QED BY <1>1, <1>4, <1>5 DEF FilesInv, AnalysisKept, HeldKept

LEMMA CleanUpKept ==
  ASSUME Inv, FilesInv, CleanUp
  PROVE  FilesInv'
<1>1. UNCHANGED <<plan, analysis, reply, job>> /\ (End("done") \/ End("failed"))
  BY DEF CleanUp
<1>2. RequestKept'
  BY <1>1, EndKept DEF Over
<1>3. CASE held' = held
  BY <1>1, <1>2, <1>3, OnlyRequest DEF others
<1>4. CASE held' = Written /\ request.kind \in {"export", "upload"}
  <2>1. Leaves(plan, Written)
    BY <1>4 DEF CleanUp, FilesInv, RequestKept
  <2>2. HeldKept'
    BY <1>1, <1>4, <2>1 DEF HeldKept
  <2> QED BY <1>1, <1>2, <2>2 DEF FilesInv, AnalysisKept, JobKept
<1> QED BY <1>3, <1>4 DEF CleanUp

LEMMA PostKept ==
  ASSUME Inv, FilesInv, StartPost \/ CopyUpload \/ WorkerDies
  PROVE  FilesInv'
<1>1. UNCHANGED others /\ Shape
  BY DEF StartPost, CopyUpload, WorkerDies, Exporting, others, Inv
<1>2. CASE StartPost
  <2>1. request'.step = "copying"
    BY <1>2 DEF StartPost, NoRequest
  <2>2. held' # NoFile
    BY <1>1, <1>2 DEF StartPost, others
  <2>3. RequestKept'
    BY <2>1, <2>2 DEF RequestKept, Over, Serving
  <2> QED BY <1>1, <2>3, OnlyRequest
<1>3. CASE CopyUpload
  <2>1. request.step = "copying" /\ held # NoFile /\ request.kind = "post"
    BY <1>3 DEF CopyUpload, At, FilesInv, RequestKept, Inv, FilesByStep
  <2>2. request'.step \in {"copied", "unsent"} /\ request'.kind = "post"
    BY <1>1, <1>3, <2>1, Stepped DEF CopyUpload
  <2>3. RequestKept'
    BY <1>1, <2>1, <2>2 DEF RequestKept, others, Over, Serving
  <2> QED BY <1>1, <2>3, OnlyRequest
<1>4. CASE WorkerDies
  BY <1>1, <1>4, EndKept, OnlyRequest DEF WorkerDies, Over
<1> QED BY <1>2, <1>3, <1>4

LEMMA AnalysisKeeps ==
  ASSUME FilesInv, RunAnalysis \/ SaveAnalysis \/ AnalysisDies
  PROVE  FilesInv'
<1>1. UNCHANGED <<plan, request, held, job>>
  BY DEF RunAnalysis, SaveAnalysis, AnalysisDies
<1>2. AnalysisKept'
  <2>1. CASE SaveAnalysis \/ AnalysisDies
    BY <2>1 DEF SaveAnalysis, AnalysisDies, FilesInv, AnalysisKept
  <2>2. CASE RunAnalysis
    <3> DEFINE m == plan.input
               built == Build(plan.seen, AssessScale(plan.claim),
                              plan.claim.mmpp * plan.resize, RouteParams(m))
               first == Stage1Resolve(m, built)
               r == Analyze(plan.seen, plan.claim, plan.resize, m)
    <3>1. r.bim = WithProvenance(first.bim)
      BY DEF Analyze, Stage1Resolve, Stage1Merge
    <3>2. PlanKept(plan, built)
      BY BuildKept
    <3> HIDE DEF built
    <3>3. Keeps(built, first.bim)
      BY <3>2, Resolved DEF PlanKept
    <3> HIDE DEF first, m
    <3>4. PlanKept(plan, first.bim) /\ IsBim(first.bim)
      BY <3>2, <3>3, KeptOn DEF Keeps
    <3>5. PlanKept(plan, r.bim)
      BY <3>1, <3>4, Stamped, KeptOn
    <3>6. analysis' = "refused" \/ reply' = r.bim
      BY <2>2 DEF RunAnalysis, m
    <3> HIDE DEF r
    <3> QED BY <1>1, <3>5, <3>6 DEF AnalysisKept
  <2> QED BY <2>1, <2>2
<1>3. RequestKept'
  BY <1>1 DEF FilesInv, RequestKept, Written
<1> QED BY <1>1, <1>2, <1>3 DEF FilesInv, HeldKept, JobKept

LEMMA EngineKept ==
  ASSUME FilesInv, RunEngine
  PROVE  FilesInv'
<1> DEFINE r == EngineMerge(Payload(job.input), Ingest(job.of.file))
<1>1. UNCHANGED <<plan, request, held, analysis, reply>>
  BY DEF RunEngine
<1>2. job.step = "sent" /\ Leaves(plan, job.of)
  BY DEF RunEngine, FilesInv, JobKept, NoJob
<1>3. Keeps(job.of.bim, r.model)
  <2> DEFINE pre == Preflight(job.of.bim).bim
             file == job.of.file
  <2>1. IsBim(job.of.bim) /\ file = IfcFile(pre, file.elevation)
    BY <1>2 DEF Leaves, FromPlan, PlanKept
  <2>2. Keeps(job.of.bim, pre) /\ IsBim(pre)
    BY <2>1, PreflightKept DEF Keeps
  <2>3. Keeps(pre, Ingest(file))
    <3>1. Keeps(pre, Ingest(IfcFile(pre, file.elevation)))
      BY <2>2, Carried
    <3> QED BY <2>1, <3>1
  <2> HIDE DEF pre, file
  <2>4. IsBim(Ingest(file))
    BY <2>3 DEF Keeps
  <2>5. Keeps(Ingest(file), EngineMerge(Payload(job.input), Ingest(file)).model)
    BY <2>4, Merged
  <2>6. Keeps(job.of.bim, Ingest(file))
    BY <2>2, <2>3, KeepsOn
  <2> QED BY <2>5, <2>6, KeepsOn DEF file
<1>4. job' = IF r.ok THEN [job EXCEPT !.step = "merged", !.model = r.model,
                                      !.findings = r.findings]
             ELSE [job EXCEPT !.step = "failed"]
  BY DEF RunEngine
<1> HIDE DEF r
<1>5. JobKept'
  <2>1. CASE r.ok
    <3>1. job' = [step |-> "merged", of |-> job.of, input |-> job.input,
                  findings |-> r.findings, model |-> r.model]
      BY <1>4, <2>1 DEF FilesInv, JobKept
    <3> QED BY <1>1, <1>2, <1>3, <3>1 DEF JobKept
  <2>2. CASE ~r.ok
    <3>1. job' = [step |-> "failed", of |-> job.of, input |-> job.input,
                  findings |-> job.findings, model |-> job.model]
      BY <1>4, <2>2 DEF FilesInv, JobKept
    <3> QED BY <1>1, <1>2, <3>1 DEF JobKept
  <2> QED BY <2>1, <2>2
<1> QED BY <1>1, <1>5 DEF FilesInv, AnalysisKept, RequestKept, HeldKept, Written

\* Whatever file the engine is given was made of a plan that has every doubt
\* of the analysis, and went through the gate as it was made.
THEOREM FilesKeepThePlan == Spec => [](Inv /\ FilesInv)
<1>1. Init => Inv /\ FilesInv
  <2> SUFFICES ASSUME Init PROVE Inv /\ FilesInv
    OBVIOUS
  <2>1. Inv
    BY DEF Init, Inv, Shape, NoRequest, NoFiles, OnDisk, FilesByStep, NoFileOutlivesItsRequest
  <2>2. analysis = "waiting" /\ request.step = "none" /\ held = NoFile /\ job = NoJob
    BY DEF Init, NoRequest
  <2> QED BY <2>1, <2>2 DEF FilesInv, AnalysisKept, RequestKept, HeldKept, JobKept, NoJob, Over
<1>2. Inv /\ FilesInv /\ [Next]_vars => Inv' /\ FilesInv'
  <2> SUFFICES ASSUME Inv, FilesInv, [Next]_vars PROVE Inv' /\ FilesInv'
    OBVIOUS
  <2>1. Inv'
    BY StepKeeps
  <2>2. CASE UNCHANGED vars
    BY <2>1, <2>2 DEF vars, FilesInv, AnalysisKept, RequestKept, HeldKept, JobKept, Written
  <2> QED
    BY <2>1, <2>2, AnalysisKeeps, StartKept, PrepareKept, ValidateKept, BuildKeepsPlan,
       WriteKept, HandOverKept, CleanUpKept, PostKept, EngineKept DEF Next
<1> QED BY <1>1, <1>2, PTL DEF Spec

\* A swing the analysis was unsure of, an opening without a clear host and a
\* room without a name are still in doubt in the model the engine judges:
\* whatever was resolved, edited, settled, exported, read back and merged on
\* the way (manual_inputs.py, ifc_exporter.py, ifc_to_bim_data.py, merger.py).
THEOREM DoubtIsKept == Spec => []DoubtReachesEngine
<1>1. FilesInv => DoubtReachesEngine
  <2> SUFFICES ASSUME FilesInv, job.step = "merged"
               PROVE  /\ \A i \in DOMAIN job.model.doors :
                             plan.seen.doors[i].swing.needs_review
                                 => job.model.doors[i].needs_review
                      /\ \A c \in {"doors", "windows"} : \A i \in DOMAIN job.model[c] :
                             job.of.bim[c][i].needs_review => job.model[c][i].needs_review
                      /\ plan.seen.texts = <<>> =>
                             \A i \in DOMAIN job.model.rooms : job.model.rooms[i].needs_review
    BY DEF DoubtReachesEngine
  <2>1. Keeps(job.of.bim, job.model) /\ PlanKept(plan, job.of.bim)
    BY DEF FilesInv, JobKept, NoJob, Leaves, FromPlan
  <2>2. PlanKept(plan, job.model)
    BY <2>1, KeptOn
  <2> QED BY <2>1, <2>2 DEF PlanKept, Keeps, SameDoubts, Doubted
<1> QED BY <1>1, FilesKeepThePlan, PTL

-----------------------------------------------------------------------------
(* What the gate makes certain of a file.                                  *)

\* The lengths and areas of a file are whole numbers, as every length of this
\* specification is.
IsMeasured(f) ==
    /\ \A e \in OpeningRows(f) :
           /\ Row(f, e).chainage \in Int /\ Row(f, e).width \in Int
           /\ Row(f, e).sill \in Int /\ Row(f, e).height \in Int
    /\ \A i \in DOMAIN f.walls : /\ Length(f.walls[i].axis) \in Int
                                 /\ f.walls[i].height \in Int
    /\ \A i \in DOMAIN f.spaces : /\ f.spaces[i].area \in Nat
                                  /\ FloorArea(f.spaces[i]) \in Int

FilesAreMeasured == \A r \in Released : IsMeasured(r.file)

\* No two walls of an exported file answer to one id, once the gate has seen
\* that their global ids differ.
LEMMA WallsDiffer ==
  ASSUME NEW bim, NEW e, NEW f, f = IfcFile(bim, e), ~DuplicateGuids(f),
         NEW i \in DOMAIN f.walls, NEW j \in DOMAIN f.walls,
         f.walls[i].id = f.walls[j].id
  PROVE  i = j
<1>1. \A k \in DOMAIN f.walls : f.walls[k].guid = "IfcWall:" \o f.walls[k].id
  BY DEF IfcFile, Entities, WallEntity
<1>2. <<"walls", i>> \in Rooted(f) /\ <<"walls", j>> \in Rooted(f)
  BY DEF Rooted
<1>3. Row(f, <<"walls", i>>).guid = Row(f, <<"walls", j>>).guid
  BY <1>1 DEF Row
<1>4. <<"walls", i>> = <<"walls", j>>
  BY <1>2, <1>3 DEF DuplicateGuids
<1> QED BY <1>4

\* What each of the gate's codes stands for.
LEMMA GateSays ==
  ASSUME NEW f, GateIssues(f) = {}
  PROVE  /\ ~DuplicateGuids(f)
         /\ \A e \in OpeningRows(f) : /\ Recorded(f, Row(f, e), {"width", "height"})
                                      /\ InsideHost(f, Row(f, e), HostTol)
         /\ \A i \in DOMAIN f.spaces : AreaAgrees(f.spaces[i])
<1>1. \A c, code : When(c, code) = {} => ~c
  BY DEF When
<1> QED BY <1>1 DEF GateIssues

LEMMA AreaIsClose ==
  ASSUME NEW space, AreaAgrees(space), space.area \in Nat, FloorArea(space) \in Int,
         space.area # 0
  PROVE  \/ Size(FloorArea(space) - space.area) <= 10
         \/ 50 * Size(FloorArea(space) - space.area) <= space.area
<1> DEFINE off == Size(FloorArea(space) - space.area)
           part == (2 * space.area) \div 100
<1>1. off \in Int /\ part \in Int
  BY DEF Size
<1>2. off <= Max({10, part})
  BY DEF AreaAgrees
<1>3. Max({10, part}) \in {10, part}
  <2>1. \E x \in {10, part} : \A y \in {10, part} : x >= y
    BY <1>1
  <2> QED BY <2>1 DEF Max
<1>4. off <= 10 \/ off <= part
  BY <1>2, <1>3
<1>5. off <= part => 50 * off <= space.area
  BY <1>1
<1> QED BY <1>4, <1>5

LEMMA OpeningIsPlaced ==
  ASSUME NEW bim, NEW e, NEW f, f = IfcFile(bim, e), GateIssues(f) = {}, IsMeasured(f),
         NEW x \in OpeningRows(f)
  PROVE  LET o == Row(f, x)
             w == HostWall(f, o)
         IN  /\ o.chainage >= o.width \div 2 - HostTol
             /\ o.chainage + o.width \div 2 <= Length(w.axis) + HostTol
             /\ o.sill + o.height <= w.height + HostTol
             /\ o.prov["width"].value = o.width
             /\ o.prov["width"].scale = f.manifest.scale
<1> DEFINE o == Row(f, x)
<1>1. PICK i \in DOMAIN f.walls :
          /\ f.walls[i].id = o.wall
          /\ 2 * o.chainage - o.width >= -2 * HostTol
          /\ 2 * o.chainage + o.width <= 2 * (Length(f.walls[i].axis) + HostTol)
          /\ o.sill + o.height <= f.walls[i].height + HostTol
  BY GateSays DEF InsideHost
<1>2. Recorded(f, o, {"width", "height"}) /\ ~DuplicateGuids(f)
  BY GateSays
<1>3. HostWall(f, o) = f.walls[i]
  <2>1. \A j \in DOMAIN f.walls : f.walls[j].id = o.wall => j = i
    BY <1>1, <1>2, WallsDiffer
  <2> HIDE DEF o
  <2>2. \A w \in {f.walls[j] : j \in DOMAIN f.walls} : w.id = o.wall <=> w = f.walls[i]
    BY <1>1, <2>1
  <2>3. f.walls[i] \in {f.walls[j] : j \in DOMAIN f.walls}
    OBVIOUS
  <2> QED BY <2>2, <2>3 DEF HostWall
<1>4. /\ o.chainage \in Int /\ o.width \in Int /\ o.sill \in Int /\ o.height \in Int
      /\ Length(f.walls[i].axis) \in Int
  BY DEF IsMeasured
<1>5. /\ o.chainage >= o.width \div 2 - HostTol
      /\ o.chainage + o.width \div 2 <= Length(f.walls[i].axis) + HostTol
  <2> HIDE DEF o
  <2> QED BY <1>1, <1>4 DEF HostTol
<1>6. o.prov["width"].value = o.width /\ o.prov["width"].scale = f.manifest.scale
  BY <1>2 DEF Recorded
<1> QED BY <1>1, <1>3, <1>5, <1>6

\* Every file that was released came through the gate as it was built.
LEMMA ReleasedWasGated ==
  ASSUME Inv, FilesInv, NEW r \in Released
  PROVE  /\ r.file = IfcFile(Preflight(r.bim).bim, r.file.elevation)
         /\ GateIssues(r.file) = {}
<1>1. Leaves(plan, r)
  <2>1. CASE r = Written /\ request.step \notin Over /\ disk["artifact"] # "none"
    <3>1. request.step \in Serving
      BY <2>1 DEF FilesInv, RequestKept
    <3>2. \/ request.step \in {"renamed", "published"}
          \/ request.step \in {"sent", "unsent"} /\ request.kind # "post"
      BY <2>1, <3>1 DEF Serving, Inv, FilesByStep, Only, NoFiles
    <3> QED BY <2>1, <3>2 DEF FilesInv, RequestKept
  <2>2. CASE r = held /\ held # NoFile
    BY <2>2 DEF FilesInv, HeldKept
  <2>3. CASE r = job.of /\ job.of # NoFile
    BY <2>3 DEF FilesInv, JobKept, NoJob
  <2> QED BY <2>1, <2>2, <2>3 DEF Released
<1> QED BY <1>1 DEF Leaves, FromPlan

\* A released file is sound, as far as its numbers are whole: which wall the
\* engine takes for the host of an opening is the wall the gate measured it
\* in, because the gate has seen that no two walls share an id
\* (validation/ifc_checks.py, validation/ifc_geometry.py).
THEOREM GateMakesSound == Spec => [](FilesAreMeasured => ServedFileIsSound)
<1>1. Inv /\ FilesInv => (FilesAreMeasured => ServedFileIsSound)
  <2> SUFFICES ASSUME Inv, FilesInv, FilesAreMeasured, NEW r \in Released
               PROVE  LET f == r.file
        IN  /\ \A a, b \in Rooted(f) :
                   Row(f, a).guid = Row(f, b).guid => a = b
            /\ \A a, b \in OpeningRows(f) :
                   Row(f, a).hole = Row(f, b).hole => a = b
            /\ \A e \in OpeningRows(f) :
                   LET o == Row(f, e)
                       w == HostWall(f, o)
                   IN  /\ o.chainage >= o.width \div 2 - HostTol
                       /\ o.chainage + o.width \div 2
                              <= Length(w.axis) + HostTol
                       /\ o.sill + o.height <= w.height + HostTol
                       /\ o.prov["width"].value = o.width
                       /\ o.prov["width"].scale = f.manifest.scale
            /\ \A i \in DOMAIN f.spaces :
                   LET off == Size(Area(f.spaces[i].footprint) - f.spaces[i].area)
                   IN  f.spaces[i].area = 0 \/ off <= 10 \/ 50 * off <= f.spaces[i].area
    BY DEF ServedFileIsSound
  <2> DEFINE f == r.file
             b == Preflight(r.bim).bim
  <2>1. f = IfcFile(b, f.elevation) /\ GateIssues(f) = {}
    BY ReleasedWasGated
  <2>2. IsMeasured(f)
    BY DEF FilesAreMeasured
  <2> HIDE DEF f, b
  <2>3. ~DuplicateGuids(f) /\ \A i \in DOMAIN f.spaces : AreaAgrees(f.spaces[i])
    BY <2>1, GateSays
  <2>4. /\ \A a, c \in Rooted(f) : Row(f, a).guid = Row(f, c).guid => a = c
        /\ \A a, c \in OpeningRows(f) : Row(f, a).hole = Row(f, c).hole => a = c
    BY <2>3 DEF DuplicateGuids
  <2>5. \A i \in DOMAIN f.spaces :
            LET off == Size(Area(f.spaces[i].footprint) - f.spaces[i].area)
            IN  f.spaces[i].area = 0 \/ off <= 10 \/ 50 * off <= f.spaces[i].area
    BY <2>2, <2>3, AreaIsClose DEF IsMeasured, FloorArea
  <2>6. \A e \in OpeningRows(f) :
            LET o == Row(f, e)
                w == HostWall(f, o)
            IN  /\ o.chainage >= o.width \div 2 - HostTol
                /\ o.chainage + o.width \div 2 <= Length(w.axis) + HostTol
                /\ o.sill + o.height <= w.height + HostTol
                /\ o.prov["width"].value = o.width
                /\ o.prov["width"].scale = f.manifest.scale
    BY <2>1, <2>2, OpeningIsPlaced
  <2> QED BY <2>4, <2>5, <2>6 DEF f
<1> QED BY <1>1, FilesKeepThePlan, PTL
=============================================================================
