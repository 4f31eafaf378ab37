# A TLA+ model of Floor_Plan

Floor_Plan turns an image of a floor plan into a building model and an IFC file
(Stage 1, a Flask API) and checks such a model against the Iranian building
regulation, Mabhas 4 (the compliance engine, a FastAPI service with Celery
workers). This directory holds TLA+ modules for the parts of it that have
state, concurrency or a decision procedure worth checking, configurations that
model-check them with TLC, and proofs checked with TLAPS.

`PROJECT.json` is the index: components, runs, the source lines behind each
definition (`map`), for each property a plausible bug that breaks it
(`mutants`), the disagreements between code and documents (`findings`), the
hazards, and the theorems.

## 1. Inventory

### 1.1 Components

| Component | State it keeps | Operations | Talks to |
|---|---|---|---|
| Request boundary of Stage 1 (`utils/security.py`) | token buckets per key and category, semaphore of the heavy routes, `g.heavy_gate_acquired` | before, after and teardown of a request; sweep of old buckets | every Flask route |
| Inference executor (`utils/inference_executor.py`, `services/model_runtime.py`) | worker process, pipe, `_ready`, one lock | readiness test, start, request, shutdown, worker loop | Gunicorn hooks (`gunicorn.conf.py`), detection models |
| Orchestration (`routes/compliance_routes.py`, `services/compliance_client.py`) | a request-scoped IFC file | submit, status, wait, report | job API of the engine over HTTP |
| Job service (`compliance-engine/api/{main,tasks,job_store}.py`) | jobs, uploads and reports in Redis, or in memory and `status.json` | submit, run, store artifacts, status, download, TTL | Celery broker, workers, verdict pipeline |
| Verdict pipeline (`services/validation_pipeline.py`, `validation/compliance/runner.py`, `ingest/review_prepass.py`, `services/coverage.py`, `reporting/report_model.py` of the engine) | one run: plan, flags, findings, summary, statuses | parse, merge, normalise, quality, agents (LangGraph or in turn), downgrade, coverage, report | agents, checks, reports |
| Spatial graph and the four agents (`services/spatial_graph.py`, `numeric_checker.py`, `topology_agent.py`, `opening_agent.py`, `safety_agent.py`) | none (pure) | edges, exits, windows; one decision per clause form | pipeline |
| Review queue (`services/review_queue.py`) | items and decisions in memory and in a JSON file, one lock | enqueue, decide, resolve, suggest | results of the pipeline, reviewers |
| Manual inputs (`stage1_contracts/manual_inputs.py`, `compliance-engine/manual_inputs`) | none (pure), two implementations | accept, resolve or merge by precedence | analysis, export, pipeline |
| Image analysis of Stage 1 (`analysis/`, `services/bim_builder.py`, `routes/visualization_routes.py`) | the saved analysis file | from detections to `bim_data`: scale, walls, rooms, hosts, doubts | inference executor, export |
| IFC export (`services/ifc_workflow.py`, `export/ifc_exporter.py`, `validation/`, `routes/export_routes.py`) | a temporary file, an artifact and an upload per request | check a plan, build, write, gate, rename, serve or submit, clean up | orchestration, the engine's ingest |
| Ingest and adapter (`ingest/ifc_to_bim_data.py`, `validation/compliance/adapter.py`, `domain/`) | none | read a file or a payload into the building model, both passes of the adapter | pipeline |
| Schema and quality checks (`validation/schema`, `validation/quality`) | none | schema checks, quality plugins, what their crashes tell | pipeline, reports |
| Reports and BCF (`reporting/`) | files | overall status, identities, topics, elements, cameras | job service |
| Regulation corpus (`classification/mabhas_classify.py`, `rag/contextualize.py`, `rag/rag_index.py`, `rag/build_regulation_graph.py`, `services/graph_linker.py`) | clauses file, contextual file, index, graph | four commands an operator runs and reruns | retrieval |
| Retrieval and advisory pass (`rag/`, `api/pipeline.py`, `validation/compliance/runner.py`) | caches of a worker process under double-checked locks | retrieve, correct, extend by the graph, advise | language model, embeddings, cross-encoder |
| Visualization, detection models, configuration, evaluation and scripts | not modelled, see section 6 | | |

### 1.2 What is hard

* **Concurrency.** Gunicorn runs one synchronous thread per process, but the
  development server is threaded; the executor, the limiter, the local job
  store and the review queue carry locks for it. Celery runs several workers.
* **Failure between two steps.** No Redis transaction is used anywhere: a
  status is HSET and then EXPIRE, a report is a blob and then a name. Celery
  acknowledges early. Files are truncated and rewritten.
* **Ordering.** Reports before "completed", upload before publication,
  downgrade between the agents and the statuses.
* **Timeouts.** Inference 90 s, start of a worker 240 s, Gunicorn 150 s, wait
  up to 300 s, connect and read timeouts with retries.
* **Silent data loss.** A missing outline, width or category must not turn into
  a measurement, an exit or a verdict.
* **The same thing done twice.** Units are normalised at two places, manual
  inputs are resolved by two programs with an IFC file between them, the same
  clause lives in four files made by four commands that are rerun by hand.
* **Identity.** Findings, BCF topics and IFC entities get their ids from names;
  what has the same name gets the same id.
* **Fallbacks.** Plugins that raise, models that do not answer, caches that could
  not be filled, files that do not parse: each is caught somewhere, and a report
  has to tell.

### 1.3 What makes each component correct

The properties are named in section 3. In a sentence each: the gate never loses
a permit and the limiter never lets more through than it promises; an answer
belongs to its request and a hung worker blocks nobody for good; a submission
makes at most one job and every call is answered in bounded time; what a client
is told of a job is monotone, and reports exist when they are announced; every
verdict is true of the building as far as the document is trusted, and the
parts of a report agree; a decision that was answered is kept and resolves what
it was given for; a file that is served is the whole plan, and its request leaves
nothing behind; the engine judges what the operator stated last, and doubts what
the analysis doubted; findings are told apart, lengths are converted once, a
plugin that crashed is reported; a hit of the retrieval is accounted for, an
exception comes with its clause, and what a rerun of a corpus command found done
is not lost.

## 2. Modules

| Module | Models | Uses |
|---|---|---|
| `JobLifecycle` | abstract: what the job API promises its client | |
| `ComplianceJobs` | the job service with Celery and Redis, one action per Redis command | refines `JobLifecycle` |
| `LocalJobs` | the job service with `LocalJobStore`, by threads or by workers sharing the directory | refines `JobLifecycle` |
| `ComplianceProxy` | Stage 1's four endpoints, client, network | composed with `JobLifecycle`, as the engine |
| `InferenceExecutor` | threads, lock, pipe, worker, Gunicorn | |
| `AdmissionControl` | limiter and gate around Flask's request hooks | |
| `PlanGraph` | plans and `SpatialGraph` (external: a graph library) | |
| `ComplianceAgents` | the four agents as pure operators | extends `PlanGraph` |
| `ValidationPipeline` | a run of the pipeline | extends `ComplianceAgents` |
| `ReviewQueue` | the review queue, its store and its threads | |
| `ManualInputs` | both resolvers of manual inputs | |
| `PlanGeometry` | points, lines, polygons in the plane | |
| `PlanAnalysis` | from the detections to `bim_data` | extends `ManualInputs`, `PlanGeometry` |
| `PlanChecks` | the check of a plan before export | extends `PlanAnalysis` |
| `IfcExport` | the exporter, the gate, and the file as the engine reads it | extends `PlanChecks` |
| `ExportWorkflow` | analysis, exports, uploads and the engine's job, as requests that fail anywhere | extends `IfcExport` |
| `EngineModel` | identities, units, ingest and adapter of the engine | extends `PlanGeometry` |
| `QualityChecks`, `SchemaChecks` | the quality plugins; the schema checks | extend `EngineModel` |
| `CheckRun` | one run of the engine over one model, from source to BCF | extends `SchemaChecks` |
| `RegulationGraph` | the graph builder and the linker | |
| `CorpusPreparation` | the four corpus commands, killed and rerun | extends `RegulationGraph` |
| `ClauseRetrieval` | the retrievers as operators | extends `RegulationGraph` |
| `AdvisoryPass` | caches, jobs and evaluations over the prepared corpus | composes `CorpusPreparation` and `ClauseRetrieval` |
| `MC*` | instances for TLC | one per module with runs |
| `*_proofs` | theorems | `ComplianceJobs` (with `LocalJobs`), `InferenceExecutor`, `ValidationPipeline` (with `PlanGraph`), `ReviewQueue`, `ExportWorkflow`, `CheckRun` (with the adapter and the checks), `AdvisoryPass` (with the retrieval and the corpus); `StageOneRequests_proofs` is about `ComplianceProxy` and `AdmissionControl` |

How they meet in the program: a client's POST passes `AdmissionControl`, waits
for `InferenceExecutor`, and its result is submitted by `ComplianceProxy` to the
job API, which `JobLifecycle` promises and `ComplianceJobs` or `LocalJobs`
implements; a worker's step `Pipeline` (`Finish` in `LocalJobs`) is one run of
`ValidationPipeline` (the agents) or of `CheckRun` (ingest, checks, identities),
followed by a job of `AdvisoryPass`. The plan itself travels through
`ExportWorkflow`, from the detections to the model the engine makes of the file.
The composition of the job service is by refinement: the proxy is checked
against the abstract job API and each store is shown to implement it, instead of
multiplying the state spaces. The plan's way and the corpus are composed by
extension: one state machine over both ends of the contract.

### 2.1 JobLifecycle

`status`, `listed`, `published`, and `hit`, the jobs a fault has touched.
`Submit`, `Start`, `Complete`, `Fail`, one step each; `Fault` marks jobs, and may
lose their record if `MayForget` (an API process that is restarted forgets its
threads); `Retract` turns "completed" into "failed" for a job that was hit (see
5.2). Weak fairness of `Start` and of the end for jobs not hit: liveness is part
of the promise.

### 2.2 ComplianceJobs

Variables are Redis keys with their remaining TTL (`hash`, `upload`, `blob`,
`artname`; 0 is "absent", `Persistent` "no TTL"), the broker's `queue`, the
workers with the program counter of `_execute_ifc`, the API's request under way
and one client's download. Each Redis command is one action: `SubmitHSet`,
`SubmitExpire`, `StoreUploadData`, `StoreUploadName`, `Delay`; `Take`, `RunHSet`,
`RunExpire`, `Locate`, `FetchData`, `FetchName`, `FetchDelete`, `Pipeline`,
`StoreBlob`, `StoreName`, `FinalHSet`, `FailedHSet`, `LastExpire`; `Request`,
`ReadJob`, `ReadAgain`, `ReadData`, `ReadName`. Failures are actions of their own: a
command that raises (`SubmitFails`, `WorkerFails`, `ReadFails`), a process that
exits (`SubmitCrashes`, `WorkerCrashes`), a redelivered message, a tick that ages
every key. `submit_job` (a plan as JSON) is the same path without the upload
and shares the actions. Reports are sets of kinds; only the existence of a blob
and of a name matter.

### 2.3 LocalJobs

`memory` of each process, `file` (status.json; `Torn` while it is empty or half
written), a thread per job, and a client between the two reads of `get`.
`OpenWrite` and `CloseWrite` split `set_fields` where the file is empty. The
variable `deployment` is chosen initially: one API process with threads, or two
API processes and a worker that share the directory (the lock is per process).

### 2.4 ComplianceProxy

A request of Stage 1 becomes attempts; an attempt is sent, handled by the engine
(`HandleSubmit`, `HandleStatus`, `HandleReport`) or by a gateway, answered or
hung, and turned into a public answer by `PublicError`. `wait_for_job` loops over
status requests with its own deadline. The engine is `JobLifecycle` without
faults; the faults are those of the network.

### 2.5 InferenceExecutor

Each request thread has a program counter through `is_runtime_ready` (two
unlocked tests with a start between them) and `_request`; the worker process is a
state machine of its own that may hang (no fairness), fail to load, answer, give
up fatally or die. `Tick` is time in `poll`. `spent` counts the age of the one
request under Gunicorn and is `Untimed` without Gunicorn, where several threads
run. `GunicornAborts` is SIGABRT with the `worker_exit` hook; `Kill` is SIGKILL,
which leaves the worker behind.

### 2.6 AdmissionControl

A thread passes `Admit` or `Reject` or `Preflight`, `ReadClock`, `Consume` (the
clock is read before the lock), `Acquire` or `Busy`, the view (answered, failed,
or abandoned with a BaseException), `AfterRequest`, `Teardown`. Tokens are
integers in units of `1/One`, so the refill is exact. `Second` is the number of
ticks in a second: times are in ticks, Retry-After in whole seconds, rounded as the
code rounds it, by a ceiling that lets up to `Dropped` (its millisecond) fall.
Initially `Serving` is
one thread or several: time passes only as far as `Horizon` gives for that
number.

### 2.7 PlanGraph, ComplianceAgents, ValidationPipeline

A *plan* gives rooms with category, outline and area, doors with the rooms they
join and a width, windows with their glass; any of them may be `Missing`. The
pipeline sees `input.plan`, what the document says; the properties compare with
`input.site`, what the building is. `Recorded` ties the two: what the document
does not doubt is as it says. Geometry is abstracted to which rooms a door
touches; `RoomsOnEachSide` is then what `_rooms_on_each_side` finds when some
outlines are missing. The agents are operators from a clause and a plan to a set
of findings, with every clause form of the schema and each early return. The
pipeline has a step per stage; the agents run in any order under LangGraph,
which may fail after any of them (`LangGraphFails`) and is then followed by the
sequential path from the start.

### 2.8 ReviewQueue

`mem` of each process, `disk` and `tmp` (the store and the file written beside
it), `lock`, and threads that go through `enqueue_result`, `decide`,
`resolved_findings` and `suggestions` one step at a time: the verdict and the
reviewer are set before the save, the save writes the temporary file and moves
it, and either may fail. The queries walk the dictionary without the lock
(`choose`, `apply`, `tally`). A process may stop between any two steps and load
the store again. `told`, `tried` and `given` record what the callers were
answered and what they asked for.

### 2.9 The plan's way: PlanAnalysis to ExportWorkflow

A plan is `[seen, claim, resize, input]`: what the detectors found in pixels, the
scale the client claimed, the resize factor, the operator's payload. `Analyze` is
`POST /analyze` after detection: `scale_block` and its evidence, snapping and
classification of walls, rooms and their names from OCR, host walls, provenance,
resolution of manual inputs. `ValidateBim` gives the issues of `bim_checks.py`;
`Preflight`, `BuildIfc` and `IfcFile` are `bim_json_to_ifc` (segments of a wall,
choice of the segment that hosts an opening, manifests, ids); `GateIssues` is
`validate_ifc_contract`; `Ingest` reads the file on the engine's side and
`EngineMerge` merges the payload that came along. In `ExportWorkflow` a request
moves through `loaded`, `prepared`, `checked`, `writing`, `gate`, `renamed`,
`published`, `sent`, with a refusal or failure at each step, a delete that may fail,
and a worker that may die. `VerifyArtifact` is the second validation, of the file
already renamed: when it raises, nobody knows of the file any more. `orphans` holds
the files nothing will delete; `StartPost` is a client that posts the file it holds. The
client may edit `bim_data` before it uploads it.

### 2.10 EngineModel, QualityChecks, SchemaChecks, CheckRun

A row has identity, lengths, points, storey, provenance. Sources are an IFC file
(`LoadIfc`, `ReadIfc`) or a Stage 1 payload in several units (`LoadBimData`,
`NormaliseUnits`); `BuildingModel` and `ToBimData` are the two directions of the
adapter. `CheckRun` loads, checks the schema, merges (`Merge`), reviews confidences
and categories (`Prepare`), runs the quality plugins one by one (`Plugin`, or
`PluginRaises`, up to `MaxCrashes`), gives their findings ordinals (`EndQuality`,
`FindingId`), lets the clauses judge and withdraws what is doubted (`Judge`), and
writes the report files, any of which may fail (`WriteFile`, `WriteFails`); `Topic`
and `Camera` are the BCF topic of a finding. Clauses are reduced to "at least so
long" and "needs judgement"; the
agents proper are in `ComplianceAgents`.

### 2.11 RegulationGraph to AdvisoryPass

The four corpus commands read and write `file` (classified clauses), `contexts`
(contextualized clauses), `rows` (the index) and `graph`; classification goes
chunk by chunk, contextualisation run by run, a model may give no answer,
and a run may be killed among its calls or inside a write, which leaves a torn file
(`ClassifierKilled`, `ContextualizerKilled`). `ClauseRetrieval` has both legs, fusion, reranking, the
evaluator, the router, the transforms, the corrective loop, the graph layer and
the Qdrant leg as operators from the corpus and a request to hits. What the
models would answer is a table, the constant `Texts` and `Replies`. In
`AdvisoryPass` job threads meet at the caches (`Check`, `Enter`, `Build...`,
`PublishReranker`, `FinishReranker`, `LoadFails`), ask for context and advice per
clause, and evaluations (`Ask`, `AskQdrant`) query the same corpus.

## 3. Runs

All bounds are constants of the cfg files. Fairness is stated where a run needs
it and never for the environment.

| Run | Question | Properties | Size |
|---|---|---|---|
| `jobs_faulty` | Two jobs, one worker, a failing command and a crash anywhere: does a client ever see something that is not so? | `UploadAwaitsWorker`, `ServedReportWasPublished`, `KeepsLifecycle` (refinement with liveness) | 474k states |
| `jobs_redelivered` | One job delivered twice to overlapping workers, TTLs, a fault and a crash | `CompletedHasArtifacts`, `JobsAgeOut` | 480k |
| `local_store` | Two jobs in threads of one process with two failing writes or crashes, and one job over two API processes and a worker with three | `KeepsLifecycle`, `ToldDoesNotGoBack`, `EveryReplicaLearns` | 134k |
| `proxy_calls` | One request thread (a Gunicorn process has one), any calls about two jobs, two network faults, hanging requests | `SubmissionOutcome`, `EveryCallAnswered` | 225k |
| `inference_threads` | Two threads, or Gunicorn with one request at a time; hangs, deaths, aborts, one SIGKILL | `OneWorker`, `NoAbandonedWork`, `LockIsReleased` | 104k |
| `admission_requests` | Three threads at the gate; one thread and the clock | `PermitsConserved`, `RateBound`, `RetryAfterHonest`, `GateReopens` | 364k |
| `pipeline_runs` | Every combination of right, wrong, missing and doubted sizes under ten numeric clauses; every way three doors join three rooms with every set of missing outlines; all modes, sources, agent orders, faults | `MeasuredVerdictsAreTrue`, `TrustedElementsAreDecided`, `ResultIsConsistent`, `EgressFailuresAreReal`, `ConnectionsAreReal`, `StatusIsEarned` | 199k |
| `review_queue` | Two threads enqueue, decide, list and tally over one store; a save fails or the process restarts | `AnsweredDecisionKept`, `ResolvedByOwnDecision` | 1,708k |
| `stage1_export` | Drawings with one defect each, payloads at the analysis, at the export and at the engine, edits of an uploaded plan: what is served, what is left, what does the engine judge? | `ServedFileIsThePlan`, `ServedFileIsSound`, `NoFileOutlivesItsRequest`, `EngineValuesAreStated`, `DoubtReachesEngine` | 128k |
| `engine_checks` | One building from a file or a payload in several units, with one defect, under plugins that raise: are findings distinct, lengths right, crashes and doubts told? | `FindingsAreDistinct`, `TopicsNameTheElement`, `MeasuredOnce`, `NoDoubtIsSilent`, `CrashIsVisible` | 31k |
| `retrieval` | A corpus prepared by commands that fail, are killed and rerun; requests over every stack; two jobs that meet at the caches | `HitsAreAccountedFor`, `ExceptionTravelsWithItsClause`, `CorrectionNeverCosts`, `FilledOnce`, `WorkIsKept` | 76k |
| `pipeline_hidden` | a disagreement, section 5.1 | `FailureIsReported` (violated) | |

Why the bounds are enough:

* *Jobs.* Jobs interact only through workers and through one client, so two jobs
  and one worker show what a queue can do, and one job with two workers what an
  overlap can do. One report kind that is downloadable and one that is not
  (json). One fault and one crash hit any command, both together reach the
  paths in which the handler of a failure fails. A TTL of 2 is the least that
  tells "set now" from "set a step ago".
* *Local store.* The two deployments differ in who runs the job and who answers;
  a second API process is needed for stale memory, a third adds a copy. Two jobs
  compete for the lock of one process; between processes nothing is shared but the
  file of each job, so there one job is enough and leaves room for three faults: a
  write, the write that reports its failure, and a crash.
* *Proxy.* Two retries is the default; two faults spend all but one attempt, and
  a hanging attempt can use the third. Ticks: a wait of 3 against a read timeout of 2.
* *Inference.* Two threads suffice for one inside and one at the lock or
  reading flags; three process ids allow one orphan, one that dies and one that
  starts; two request ids allow one abandoned. The timeouts keep the order of the
  deployed ones, 1 < 2 < 3 for 90 < 150 < 240 s.
* *Admission.* One permit and three threads: one inside, one refused, one
  coming. Refills that are fractions of a token leave fractions in the bucket; two
  ticks to a second tell Retry-After from the time that is missing, and with one of
  them as `Dropped` the rounding falls short: without that allowance TLC finds
  `RetryAfterHonest` violated. Heavy requests have a burst of 2, so that a second
  one with tokens meets a gate that is shut; five ticks see a bucket swept and
  remade.
* *Pipeline.* Three rooms and three doors give a room behind a room behind an
  exit, a loop, and a room cut off; sizes are two values around a limit. The
  requests are the union of three families (numeric, spatial, modes and
  faults), because a numeric clause never looks at the graph.
* *Review queue.* Two open findings of one clause and one that is decided, so that
  a verdict could be taken for another's; two threads of which one writes while
  the other walks; a suggestion needs two verdicts. One fault is a failing write,
  a failing rename or a restart at any step.
* *Export.* A flat of one room with a wall around a corner, a door, a window and a
  stair: the least with a wall of two segments, a junction, hosts to confuse and
  every kind of row. Every other plan and payload differs from it in one thing
  (32 of them: junction ends, gaps, openings on corners or off walls, missing
  scale, names, hosts, values at and beyond each range, ambiguous ids). Two
  requests are an export and the post of its file, or a failure and a retry.
* *Engine.* 139 inputs, each with at most one defect and in each unit; one plugin
  crash; lengths are multiples of a metre so that a conversion done twice cannot
  be mistaken for one done once; four clauses.
* *Retrieval.* Six clauses in two chunks, one repeated, one an exception; ten texts
  that reach each branch of the router and the evaluator; pools of 3 and 4 that
  overflow. Two runs per command and one failure or kill: a rerun after a partial
  run, and one after a kill that tore the file. Evaluations and jobs start on the corpora that at most one run of each
  command leave; what more runs leave is checked for the preparation alone.

Fairness. `FairSpec` of the jobs: a worker that has begun goes on and an idle one
takes a message; API requests in progress go on; nothing makes anyone submit,
download or fail. `TimedSpec` adds that TTLs pass. The local store: threads go
on. The proxy: requests proceed, the engine handles them, `requests` times
out; not that a job ever ends. The executor: the API's threads run, time passes
while they poll, Gunicorn aborts what is overdue, and a worker that waits for an
image reads it; not that a worker loads, answers or dies. That last assumption is
needed because `send` has no deadline (line 219): without it the lock would stay
with a thread inside `send`, until Gunicorn ends it. The gate: requests end, as
Flask sees to, unless their view runs for ever. The review queue, the export, the
engine's checks and the retrieval are checked for safety only.

Deadlock is checked wherever the system goes on; the pipeline and the engine's
checks end with their run, and the review queue, the export and the retrieval
when their callers have used up the calls and requests of the bounds.

Each property has a mutant: a plausible bug in a mapped definition under which TLC
finds the property violated with the same cfg (for example `Timeout_KeepWorker`, a
timeout that leaves the worker running, or `HasAccess_OrExit`).

## 4. Proofs

| Theorem | Statement |
|---|---|
| `ComplianceJobs_proofs!TypeCorrect` | `Spec => []TypeOK` |
| `ComplianceJobs_proofs!CompletedServed`, `UploadIsThere`, `ServedWasPublished` | `~TtlPasses => (Spec => []P)` for `CompletedHasArtifacts`, `UploadAwaitsWorker`, `ServedReportWasPublished` |
| `ComplianceJobs_proofs!LifecycleKept` | without TTLs and redelivery, every step is a step of `JobLifecycle` or a stutter: the safety part of `KeepsLifecycle` |
| `ComplianceJobs_proofs!LocalLifecycleKept` | the same of `LocalJobs`, with a broker and without |
| `ComplianceJobs_proofs!ToldStays` | `Spec => ToldDoesNotGoBack` of `LocalJobs`, if a deployment without a broker has one API process |
| `ComplianceJobs_proofs!LocalTypes` | `Spec => []TypeOK` of `LocalJobs`, the lock included |
| `InferenceExecutor_proofs!ExecutorTypeCorrect`, `OneWorkerAlive`, `WorkIsAwaited`, `AnswersMatch` | `TypeOK`, `OneWorker`, `NoAbandonedWork`, `NoStaleAnswer` are invariants |
| `StageOneRequests_proofs!GateConservesPermits`, `GateBoundsHeavyRequests` | `PermitsConserved` and `HeavyBounded` are invariants |
| `StageOneRequests_proofs!LimiterBoundsRate`, `RetryAfterIsHonest` | `RateBound` is an invariant, `RetryAfterHonest` (to within `Dropped`) an action property |
| `StageOneRequests_proofs!ProxyInvariant`, `SubmissionHasOneOutcome` | `ProxyInv` (with `ProxyTypeOK`) and `SubmissionOutcome` are invariants |
| `ValidationPipeline_proofs!PathsAreReal`, `HolesHideNoExit` | what a room graph with holes may say of the building |
| `ValidationPipeline_proofs!PipelineInvariant`, `CourseInvariant` | findings tell of the plan; a run keeps sizes, doubts and answers to the end |
| `ValidationPipeline_proofs!EgressFailuresHold`, `ConnectionsHold`, `TrustedElementsHold`, `MeasuredVerdictsHold`, `ResultHolds`, `StatusHolds` | the six properties of `pipeline_runs` are invariants |
| `ReviewQueue_proofs!ReviewSafe` | `ResolvedByOwnDecision` is an invariant |
| `ReviewQueue_proofs!ReviewKept` | with one process, `AnsweredDecisionKept` is an invariant |
| `ExportWorkflow_proofs!RequestsLeaveNothing` | `Spec => []NoFileOutlivesItsRequest`: what is left of a request is in `orphans` |
| `ExportWorkflow_proofs!Stage1AcceptsEngineAccepts` | `\A m : Stage1Accepts(m) => EngineAccepts(m)` |
| `ExportWorkflow_proofs!FilesKeepThePlan`, `DoubtIsKept` | `Spec => [](Inv /\ FilesInv)`, `Spec => []DoubtReachesEngine` |
| `ExportWorkflow_proofs!GateMakesSound` | `Spec => [](FilesAreMeasured => ServedFileIsSound)` |
| `CheckRun_proofs!FindingIdsAreUnique`, `PluginsAreHeard`, `LengthsAreConvertedOnce`, `DoubtsAreTold`, `TopicsNameElements` | `FindingsAreDistinct`, `CrashIsVisible`, `MeasuredOnce`, `NoDoubtIsSilent`, `TopicsNameTheElement` are invariants |
| `AdvisoryPass_proofs!CachesFilledOnce` | `Spec => []FilledOnce` |
| `AdvisoryPass_proofs!PreparationKeepsWork` | `Spec => WorkIsKept` |
| `AdvisoryPass_proofs!CorrectionCostsNothing`, `HitsHaveAPath`, `ExceptionsTravel` | `CorrectionNeverCosts`, `HitsAreAccountedFor`, `ExceptionTravelsWithItsClause` are invariants |

They hold for all values of the constants under the assumptions the modules name
(`ASSUME ...Assumption`): distinct null values, natural numbers for bounds and
timeouts, finitely many threads for the gate (to count permits), no thread
with the name of a free lock, finitely many
doors and rooms, that the requests of the pipeline are of their type and
recorded correctly, that an edited upload changes what a CAD program
can change and adds no entity (`EditsAssumption`), that the corpus has finitely many
articles in one order, each text has its words and a score for every article, and
the requests, replies, chunks and manual links speak of those (`IdOrderAssumption`,
`TextsAssumption`, `RequestsAssumption`, ...), that a source has integer lengths, points
that are pairs of integers and ids that are sequences, and its
rows can be told apart (`InputsAssumption`), and that every clause has its own id and
one length it asks for (`ClausesAssumption`). `LocalJobs` is instantiated in
`ComplianceJobs_proofs` (as `Dev`), where its assumptions are hypotheses of the
theorems (`ProcessesApart`, `FaultsBounded`).

Arguments.

* **Completed means downloadable.** `CompletedHasArtifacts` is not inductive: the
  step that matters is the write of "completed", and what makes it safe is what a
  worker has stored before. `ArtifactInv` adds `StoredSoFar` (a worker that stores
  has the blobs and names of the kinds it is done with, and one past the loop has
  all it will list). Redis keys are only added until a TTL passes, hence the
  hypothesis; with TTLs the run `jobs_redelivered` checks it. Faults, crashes and
  a second worker are covered because nothing ever deletes a report.
* **One delivery.** `DeliveryInv` says, until the broker redelivers something, that
  a job has one owner: the API request, the message, or one worker
  (`OneOwner`), and for each of them what is in Redis by then (`JobInv`, `WorkInv`).
  The upload is there while the message waits because only the task of the job
  removes it; a download reads the status, the report, its data and its name
  one after the other, and once the first said "finished" nothing changes any
  more (`ReadInv`, `Settled`). The same invariant gives the step simulation of
  `JobLifecycle`: a write of a status finds the status the abstract action starts
  from. With redelivery a second owner exists, and `jobs_redelivered` shows what
  is left.
* **Memory and file.** `StageInv` of the development store says for each stage of a job's
  thread what its file and the memory of its process hold: torn while a write is
  under way, and then the memory has the status that is being written; so a
  reader sees the new status from the moment the lock is taken, and closing the
  file changes nothing (`LocalSteps`). The catch of a failed last write turns a
  "completed" that was shown into "failed", which `JobLifecycle` allows of a job
  that was hit. For `ToldDoesNotGoBack` the invariant must also say what a request
  between its two reads may still answer. With workers (`Shared`), an API process
  remembers nothing beyond "queued", and an outcome that was told is in the file
  for good, as no thread is at work on that job any more. With one process
  (`Alive`), what was read of the file lies between what was told and what the
  process knows. With two API processes and no broker that fails: the one that did
  not accept the job would call it unknown during a write. Hence `OneProcess`.
* **One POST, one job.** `ProxyInv` relates what the engine made for a request to the
  point the request has reached (`Made`): nothing before the engine took it, at
  most its own job after, and exactly that when it answered below 400. It needs
  that a submission is never at a second attempt (`Asked`), which is what "POST
  upload is deliberately NOT retried" buys.
* **One worker, its own answer.** `Inv` of `InferenceExecutor_proofs` says what is
  in the pipe at every step of the lock's holder: `Booting`, `Resting`, `Serving`.
  `LockInv` (the holder is exactly the thread inside `with self._lock`) lets each
  action be examined for one thread. `OrphanInv` deals with workers that outlive
  their API process.
* **The gate.** `GateInv`: a holder is inside its handler or on the way out
  (`HeldInside`), a heavy handler runs with a permit (`HeavyHolds`), permits and
  holders add up. The double release by `after_request` and `teardown_request` is
  harmless because the first clears the flag the second reads.
* **The rate.** `RateBound` sums over a span of time, so the invariant must say what a
  later span may still get: `Ledger` bounds, for every start `x` and every later
  time `y`, what was let through since `x` *and* what the bucket will hold at `y`
  by the capacity and the refill in between. A request moves a token from the
  second term to the first; the sweep drops only buckets that would be full, which
  counts the same (`Level`). It speaks of one serving thread: with two the clocks
  of the requests may run backwards (section 5.2). `PromiseKept` does not: a
  bucket that will hold a token at the promised time does so whoever comes first,
  or the promise is withdrawn. The promise is kept `Dropped` later than it was given
  for, because the code's rounding may have cut that much off; the proof is for any
  rates, seconds and roundings.
* **Holes hide no exit.** A room graph lacks edges when outlines are missing, so it
  might call a room trapped that is not. It does not: walk the real path from a
  room with an outline to the exit and stop at the first room without one; the
  door into it has a polygon on one side only, and the code takes that for an
  exterior door (the same mistake makes *passes* untrue, section 5.2).
  Formally the set of rooms reachable in the building is compared with a closed
  set of the graph. `FindingsTellOfPlan` then carries the fact from the agent to
  the report through collection and downgrade.
* **The course of a run.** `CourseInv` adds to `PipelineInv` what a run carries from
  the document to the report: no step puts a size where the document has none,
  but for the width 0 of an IFC door (`SizesOfDocument`), every doubted element is
  in `review` after the pre-pass (`DoubtIsKept`), `by_agent` and the summary
  are those of the findings (`AnswersAreKept`), and how a run can have got where it is
  (`CourseOfRun`). A measured verdict is then true of the building because its
  value is the document's, and a downgraded one is no verdict any more.
* **A decision stays.** `Core` of `ReviewQueue_proofs`: the thread inside the lock
  holds it (`Exclusive`), what it decides is there and was asked for (`Deciding`),
  and every verdict in memory, in the store and in the temporary file was given
  for its item (`AllJustified`). For the store, `Whole`: neither memory nor the
  store is behind what a reviewer was answered (`Kept`), and the file about to be
  moved is the memory of the thread that moves it (`Own`), which takes one process.
* **Nothing is left behind.** `Inv` of `ExportWorkflow_proofs` says which one file a
  request may have at each of its steps (`FilesByStep`): the sibling file until the
  gate, the artifact after the rename, the upload of a posted file. Every path that
  ends a request discards exactly that file, or names it an orphan: a delete that
  fails, a worker that dies, and `VerifyArtifact`, the one path of the program that
  forgets its file (`VerifyKeeps`).
* **The doubt travels.** `FilesInv` follows the plan through every place it is kept:
  the saved analysis, the request, the file on disk, the held file and the
  engine's job (`AnalysisKept`, `RequestKept`, `HeldKept`, `JobKept`). What is kept is the
  same at every station (`PlanKept`: the rows of the drawing and their marks), so
  each conversion (`Stage1Resolve`, `WithProvenance`, `Edited`, `Preflight`, `IfcFile`,
  `Ingest`, `EngineMerge`) has one lemma that it `Keeps` them.
* **The gate's wall is the engine's wall.** The gate measures an opening in the wall
  that holds its centre, the engine looks the host up by its id. They agree as
  the global id of a wall is made of its id, and the gate refuses two equal
  global ids (`WallsDiffer`). "In the wall" is to within `HostTol`, the 5 mm of the
  gate's placement tolerance (`validation/ifc_geometry.py:17`): the theorem says what the
  gate gives, not the closer fit (1 mm) the exporter asks for. Lengths and areas are folds, whose type the provers
  cannot find; `GateMakesSound` has it as the hypothesis `FilesAreMeasured`, which
  holds in every state of `stage_one_export` (as every coordinate there is an
  integer). The attempt to prove an earlier form of `ServedFileIsSound` failed
  for a reason: it asked for two per cent of the area, whereas the gate also accepts a
  tenth of a square metre, which is more for a small room. No instance had one.
* **One conversion.** `Inv` of `CheckRun_proofs` follows a building from the source to the
  report. `Holds(b, k, m)` says that the rows of `m` are those of the source `b`, in
  order, with the fields that no operator may touch (`Keeps`) and the lengths multiplied
  by `k` (`Measures`). Each operator of the adapter has a lemma that says which fields it
  touches (`Touches`), so that one lemma (`FromTouched`) deals with all that touch
  none of these. `DataIsOfInput` and `ModelIsOfInput` say `Holds` with one factor for what
  the agents and the plugins read; a second conversion would need the unit of the
  source to be still there, and the first has made it millimetres (`Converted`).
* **Every plugin heard.** `Running` says of a stage under way that what is left to run is
  the end of the registry, and that what it has found is what the plugins before had to
  say and one `QC-INTERNAL-001` for each that raised. It is needed that no plugin says
  that code itself (`Speaks`), and so that each of them returns findings and nothing
  else, which is a lemma for each.
* **Ids apart.** An id is what a finding is about and its ordinal among those of the
  same basis (`OrdinalsTellApart`); between stages the stage is in the basis. The schema
  stage has no ordinals, and its findings are distinct only as at most one is left in a
  run that was not blocked (`SchemaSays`).
* **No doubt lost.** A row in doubt is flagged under the id it has in `data`, and the plugin
  looks it up in `model`: they agree as both are made of the same fields
  (`SameIds`), and every row has an id (`Known`). The plugin passes over a flag whose
  reason another plugin tells (`ToldElsewhere`): there the other plugin must be shown
  to tell it of the same element.
* **A topic looks at its element.** What a finding says of its element must survive three
  lookups by name: of the agents' id in `data` (`Enriched`), of the GlobalId in the index of the
  archive, and of the same GlobalId in the snapshot. Every quality finding has tag and GlobalId of
  one row of the source (`ElementsAreNamed`, for which each plugin's lemma says which rows
  it speaks of), a judgement has the id of the row it judged, and a row that shares
  no name is the only one an alias finds (`LastIsOnly`, `OwnGuid`). The camera
  stands halfway between the ends of the element's corners, of which a finite set of
  integers has two (`Extremes`, by the same least counterexample). `Writing` adds that the topics
  of a finished report are those of its findings: the archive is the fourth file,
  and no file after it changes what it was made of.
* **Filled once.** `Inv` of `AdvisoryPass_proofs`: a builder holds the lock of its
  cache and a lock's holder builds behind it; a cache that is not set was never
  loaded; a cache under construction is not set, but for the reranker, which is
  published before it is finished. The second look under the lock is what keeps
  this when two threads saw the cache empty.
* **Work is kept.** `PrepInv`: while a classifier runs, what it has in memory is the
  file it read (`ClassifierFollowsFile`), so each save only adds to it; and a
  context is one of a clause the file holds (`ContextsOfFile`), so a run that
  takes the kept contexts of that file over drops none. A kill inside a write is the
  exception, in the property as in the code: it leaves a file that cannot be read,
  and nothing of what it held.
* **What a list of hits is.** The retrieval has no state of its own, and its three
  invariants are about how its operators compose. Lists are defined by rank
  (`Ranked`: the n-th element is the one with n - 1 before it; filters and
  first occurrences pick positions in that way), so one lemma, `RankedLists`, says of all of
  them that they list their set once and in order, by a count of smaller elements and no
  induction over the list. On it rest a lemma for each operator:
  the legs bring hits of the table within the filters (`DenseHolds`,
  `LexicalHolds`), fusion and reranking keep such lists (`FuseHolds`,
  `RerankTable`), a longer answer begins with the shorter one (`HybridHolds`),
  `Corrective` gives one of the results it judged (`CorrectiveHolds`), and the pool of
  the graph layer holds all three lists or is full (`PoolHolds`).
  For `CorrectionNeverCosts` the point is that the original query is among the
  texts of every transform but the hypothetical one, so its own best clause is a
  candidate, and the candidates are scored against the query itself (`Ranks`).
  `Answers` is the inductive invariant of the other two: an answer is read after it
  was given, and no job changes the corpus meanwhile.
* **One validator is enough.** `Stage1AcceptsEngineAccepts`: the engine checks the
  defaults twice, with and without the storey height; when the first applies it is
  the same height that Stage 1 checked.

Only model-checked:

* liveness (`LockIsReleased`, `GateReopens`, `EveryCallAnswered`, `EveryReplicaLearns`,
  `JobsAgeOut`, the fairness of the refinements): no reasoning about liveness under
  fairness or ENABLED here;
* the job service with redelivery or TTLs, but for `CompletedHasArtifacts` with
  redelivery;
* what selects and folds over sequences: `ServedFileIsThePlan` (sums and flattened
  segments of the walls) and `EngineValuesAreStated` (overrides laid over defaults
  row by row). To the provers `SelectSeq`, `FoldLeft` and `@@` are symbols without
  meaning, and what they compute is an induction over data;
* the hypothesis `FilesAreMeasured` above, for the same reason.

Inductions over data are avoided: reachability in `PlanGraph` is
defined through closed sets of rooms instead of recursion, the sorted and filtered
lists of the retrieval by rank, and no module that is
proved about declares a RECURSIVE operator. Where the code is a loop that appends to a
list (the plugins, the clauses), `FlattenSeq` stands for it, and what it contains is
proved from its own definition: of the recursive function it is defined by, the least
number of which the claim fails is taken and led to a contradiction (`LeastNumber`,
`Flattened` in `CheckRun_proofs`).

## 5. Disagreements between code and documents

### 5.1 Shown by a run

`pipeline_hidden`: a withdrawn failure hides real ones. The text is in
PROJECT.json.

### 5.2 Met while modelling, kept in the models as the code does it

Where a definition is named, it states what the text promises, TLC finds it
violated, and no run lists it: add it to the INVARIANTs of the run's cfg to see
the trace.

Job service, proxy, executor, gate:

* `tasks.py:157`: the task is acknowledged when it begins, against ADR-007:50. A
  crash loses an accepted job (`ComplianceJobs!AcceptedIsNotLost`).
* `inference_executor.py:193`: a worker may take 240 s to start while Gunicorn
  aborts after 150 s, against `gunicorn.conf.py:55-56`
  (`InferenceExecutor!InferenceTimeoutFirst`, with the timeouts 3, 8 and 5).
* `inference_executor.py:219`: `send` has no deadline; see Fairness.
* `compliance_client.py:91`: a 404 of the engine becomes a 502, against
  `tests/test_phase5_api_orchestration.py:158` (`ComplianceProxy!UnknownJobIs404`).
* `job_store.py:159`: HSET and EXPIRE are two commands; a failure between them
  leaves a hash without TTL, against `job_store.py:19` "Everything carries a TTL".
  `JobsAgeOut` exempts jobs that were hit.
* `tasks.py:144-148`: if only the EXPIRE of "completed" fails, the handler writes
  "failed" over it: `JobLifecycle!Retract`.
* `main.py:159`: the API's copy of an upload is never deleted, against
  ADR-005:73 "deleted after the worker consumes them".
* `main.py:211`: the engine refuses the kind json, against ADR-005:23 "Stage 1
  proxies JSON, HTML, PDF and BCF report downloads".
* `job_store.py:70`: `status.json` is truncated and rewritten, against ADR-005:33
  "Local status writes are atomic"; a crash in between makes the job unknown to
  later processes.
* `utils/security.py:232`: Retry-After is `int(retry_after + 0.999)`, which is up to a
  millisecond less than what is missing, so a client that comes back exactly then may
  get 429 again; `RetryAfterHonest` is stated from a millisecond later on.
* `utils/security.py:85`: the clock is read before the lock; with two threads a
  key gets more than its bucket. `RateBound` is stated for one thread, as Gunicorn
  is configured.
* `review_prepass.py:133`: a doubted door still decides topology clauses, against
  line 16 "any verdict depending on an uncertain element resolves to NEEDS_REVIEW".
* `review_prepass.py:92`: overwrites the mark `normalize_room_categories` set.
* `topology_agent.py:251`: an unknown object phrase is decided as an exit, against
  line 283 "Returns None if no confident match (→ caller emits NEEDS_REVIEW)".
* `spatial_graph.py:184`: a width of None raises and ends the run, and
  `ifc_to_bim_data.py:438`: a missing width is measured as 0; against
  "Missing model data remains `NOT_EVALUATED`".
* `opening_agent.py:160`: conditional glazing clauses are decided.
* `coverage.py:43`: a supported NEEDS_REVIEW of one agent hides the PASS of another.
* Waits of up to 300 s (`schemas.py:292`) against Gunicorn's 150 s.
* A Celery message that is delivered twice finds the upload deleted and turns
  "completed" into "failed"; `ServedReportWasPublished` and the lifecycle are
  stated without redelivery, `CompletedHasArtifacts` with it.
* The engine reads none of `STRICT_JOB_STORE`, `INCOMING_TTL_SECONDS` and
  `COMPLIANCE_JOB_*_TIME_LIMIT` that docker-compose.yml sets, and degrades to the
  local store at start-up (ADR-007:51 forbids it in production).
* `spatial_graph.py:192`: a door with one polygon is taken for an exterior door,
  so a room may pass on an exit that is none, against line 20 and
  `space_tagging.py:197` (`ValidationPipeline!EgressPassesAreReal`).

Review queue:

* Two processes over one store save each the whole of its memory, so one's
  decisions disappear with the other's next save (`review_queue.py:87`); hence
  `OneProcess` in `ReviewKept`.
* A store that cannot be read is taken for an empty one (line 85), and the next
  save removes every decision.
* Lines 183-186: the item is read without the lock between the verdict and the
  reviewer, and "reopen" may come in between: a finding is returned as resolved
  without a verdict (`ReviewQueue!ResolvedHasVerdict`).

Stage 1 and its export:

* `bim_builder.py:184-188`: keys are listed as provided that nobody stated
  (`ExportWorkflow!ProvidedWasStated`).
* `ifc_exporter.py:1157-1162`: a stair's doubt is not written, against lines
  153-157 (`ExportWorkflow!StairDoubtReachesEngine`).
* `bim_checks.py:268-272` refuses an opening that "would be cut in the wrong place",
  measured against the nearest segment of its wall; the exporter cuts it in a
  segment it fits in, which around a corner may be another one
  (`ExportWorkflow!OpeningsStayInPlace`).
* `manual_inputs.py:292-295`: a history entry is written for every field of a row
  that some override matched, against lines 199-201; a second export resolves
  again and writes it twice.
* A measured value is resolved as `model_property` with confidence 1.0 even where
  the scale was never verified.
* `finished_floor_level` never reaches the engine; an override on a polyline wall
  does not match its segments there.
* `scale_block` keeps the factor of the original image beside evidence of the
  resized one; one OCR label may name two rooms.
* Some plans that pass the check with warnings are refused by the exporter or the
  gate.
* `ifc_workflow.py:112-113` validates the artifact again after the rename; when that
  raises, the `finally` of `compliance_routes.py:145` has no artifact to delete and
  `export_routes.py` has not registered its clean-up, so the file stays, against
  ADR-005:72 "Stage 1 request-scoped IFC files are deleted in `finally` blocks".
  `NoFileOutlivesItsRequest` exempts it (`orphans`).

Engine checks:

* `identifiers.py:114-116` falls back to a name without saying so, against
  `identity_integrity.py:3-5` and `docs/FINAL_REVIEW_FIXES.md:67` (`CheckRun!FallbackIsReported`).
* In a file in metres the defaults of missing sizes (200, 2800) are multiplied by
  the factor like values that were read; a file in feet reads as
  millimetres, so QC-UNIT never fires.
* `level_elevation`, `insertion_offset_mm` and the placement of an opening are not
  scaled with their row, which makes QC-STOREY-003 fire on a payload in metres.
* The review pass ignores the mark the category normaliser sets on rooms of a file.
* `review_prepass.py:82-83` gives a mark without a reason that of a doubted scale, and
  `element_confidence.py:46` then passes over it: what the detector was unsure of for
  another reason is told with the scale only. An earlier form of `NoDoubtIsSilent` asked
  for a finding of its own and was false; no instance had such a mark.
* Findings of the schema stage get no ordinal: two of IFC-SCHEMA-011 share an id
  and their BCF topics a folder. `FindingsAreDistinct` is stated for the others.
* QC-PLACE-006 compares only neighbours among the spans of a wall.
* A BCF camera misses storeys that were renamed (`OriginalId`).

Retrieval and corpus:

* `qdrant_retriever.py:162`: the first use takes its lock twice and never returns
  (`AdvisoryPass!FirstUseReturns`). It also lacks the methods the corrective
  loop calls, though it says it may be wrapped unchanged.
* `query_transforms.py`: an answer without a word makes the lexical leg raise, in
  a transform that "must never crash" (`AdvisoryPass!TransformNeverRaises`); line
  91 asks without the tier `llm_client.py:38-47` provides for it.
* HyDE reranks and judges against the hypothetical text, so the best clause of the
  query may be lost (`AdvisoryPass!HypotheticalNeverCosts`).
* `reranker.py`: the model is published before it is converted
  (`AdvisoryPass!ModelIsReadyWhenUsed`).
* `rag_index.py` upserts and never deletes: after an ingest of another scope the
  index still has the old one's clauses (`CorpusPreparation!IndexIsInScope`).
* `mabhas_classify.py:184-186` truncates its output to save it; a kill in between
  leaves a file that later runs cannot read. "A restart never re-processes finished
  chunks" holds only for chunks that gave a clause.
* `contextualize.py:246-247` truncates its output and then writes it: a kill in
  between loses the contexts of every run so far and leaves a file that the next run,
  the graph builder and the retriever cannot read, against lines 28-29 "safe to re-run
  after an interruption". `WorkIsKept` exempts it. A kill before the write
  loses what the run has paid for, as contexts are written once, at the end. The
  graph and the retriever read the contextual file even when the classified one has
  grown since.
* A shared retriever that could not be built is cached as none, and every job then
  builds one of its own; a provider that is named without a key makes a client
  whose every call fails. `last_trace` of the corrective retriever is shared
  between threads.
* An article split over two chunks keeps its first half; the article id alone is
  the key across the parts of the regulation.

## 6. What is not modelled, and the plan

* *Detection*: `mrcnn/`, `models/`, `ocr_detector.py` and the tracing of masks are
  numerical programs over pixels. What they find is the constant `seen` of a plan,
  what they do to the process that runs them is in `InferenceExecutor`.
* *Geometry of solids*: tessellation and the STEP format, in the libraries.
* *Models of language*: embeddings, cross-encoder and replies are tables.
* *Layout*: HTML and PDF reports, visualization, printed summaries.
* *Configuration, metrics, scripts*: their results are constants of the models.
* *One thing at a time*: the export follows one plan with its requests in turn
  (file names carry fresh UUIDs, so requests share nothing but the saved analysis);
  the engine's checks follow one run.

What would come next: the openings' part of `EngineValuesAreStated`; two
evaluations at a time over the retriever's shared trace; a run of the corpus commands
beside jobs.
