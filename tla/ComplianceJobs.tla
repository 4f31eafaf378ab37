--------------------------- MODULE ComplianceJobs ---------------------------
(***************************************************************************)
(* The job service of the compliance engine in its production form: FastAPI*)
(* handlers (api/main.py) submit jobs, a Celery broker carries them to     *)
(* worker processes (api/tasks.py), and RedisJobStore (api/job_store.py)   *)
(* holds the status hash, the upload and the finished reports.  Every Redis*)
(* command is one step, because other processes run between two commands   *)
(* and each command can fail on its own.                                   *)
(*                                                                         *)
(* A Redis key is modelled by its remaining time to live: 0 when the key   *)
(* does not exist, Persistent when it exists without a TTL.                *)
(***************************************************************************)
EXTENDS Naturals, FiniteSets

CONSTANTS
    Jobs,               \* job ids, uuid4().hex[:12]
    Workers,            \* Celery worker processes (--concurrency=1 each)
    Kinds,              \* report kinds the pipeline can write
    ArtifactKinds,      \* ARTIFACT_KINDS: the kinds kept in Redis
    NoJob, NoKind,      \* "none" values
    Ttl,                \* JOB_TTL_SECONDS, in ticks
    TtlPasses,          \* TRUE if time passes far enough for a TTL to matter
    SharedVolume,       \* TRUE if a worker sees the API's INCOMING_DIR
    CorpusUsable,       \* _CLAUSES is not empty, or ALLOW_EMPTY_CLAUSES is set
    MaxFaults,          \* bound on Redis and broker commands that fail
    MaxCrashes,         \* bound on processes that die
    MaxRedeliveries     \* bound on messages the broker delivers once more

ASSUME KindsAssumption == ArtifactKinds \subseteq Kinds /\ NoKind \notin Kinds
ASSUME NoJobAssumption == NoJob \notin Jobs
ASSUME TtlAssumption == Ttl \in Nat \ {0}
ASSUME FlagsAssumption ==
    /\ TtlPasses \in BOOLEAN
    /\ SharedVolume \in BOOLEAN
    /\ CorpusUsable \in BOOLEAN
ASSUME BoundsAssumption ==
    MaxFaults \in Nat /\ MaxCrashes \in Nat /\ MaxRedeliveries \in Nat

VARIABLES
    hash,           \* compliance:job:{id}
    upload,         \* compliance:job:{id}:upload and its :name key
    blob,           \* compliance:job:{id}:artifact:{kind}
    artname,        \* compliance:job:{id}:artname:{kind}
    queue,          \* deliverable Celery messages of each job
    source,         \* how the job was submitted: "ifc" or "bim"
    api,            \* the step of the request that submits the job
    incoming,       \* jobs whose upload lies in the API's INCOMING_DIR
    worker,         \* what each worker process is doing
    reader,         \* one GET /jobs/{id}/report/{kind} request
    faults, crashes, redeliveries,   \* what has gone wrong so far
    hit             \* history: jobs a failed command or a crash has touched

store == <<hash, upload, blob, artname>>
budget == <<faults, crashes, redeliveries, hit>>
vars == <<store, queue, source, api, incoming, worker, reader, budget>>

Persistent == Ttl + 1
Keys == 0 .. Persistent
Exists(key) == key # 0

NoHash == [ttl |-> 0, status |-> "absent", result |-> {}, plan |-> FALSE]
Idle == [pc |-> "idle", job |-> NoJob, verdict |-> "none", reports |-> {},
         todo |-> {}, kind |-> NoKind]
NoRequest == [pc |-> "idle", job |-> NoJob, kind |-> NoKind, code |-> 0, named |-> TRUE]

Unfinished == {"queued", "running"}
Finished == {"completed", "failed"}

\* The steps of a submission, of a worker and of a download that issue a
\* command to Redis or to the broker.
SubmitSteps == {"queued_hset", "queued_expire", "upload_data", "upload_name", "delay"}
\* ... the ones outside the try block of _execute and _execute_ifc,
BareSteps == {"running_hset", "running_expire", "failed_hset", "failed_expire"}
\* ... and the ones inside it.
TrySteps == {"fetch_data", "fetch_name", "fetch_del_data", "fetch_del_name",
             "store_artifacts", "artname", "final_expire"}
WorkerSteps == BareSteps \cup TrySteps \cup {"locate", "pipeline"}
ReadSteps == {"get_job", "get_report", "get_data", "get_name"}

(***************************************************************************)
(* Redis.                                                                  *)
(***************************************************************************)
\* HSET creates the hash without a TTL, and leaves the TTL of an existing one.
HSet(j, s) ==
    [hash[j] EXCEPT !.ttl = IF Exists(@) THEN @ ELSE Persistent, !.status = s]

\* EXPIRE does nothing to a key that is gone.
Expire(j) ==
    hash' = [hash EXCEPT ![j].ttl = IF Exists(@) THEN Ttl ELSE @]

\* The report kinds whose two keys are both there.
Stored(j) == {k \in ArtifactKinds : Exists(blob[j][k]) /\ Exists(artname[j][k])}

Older(key) == IF key \in 1 .. Ttl THEN key - 1 ELSE key

(***************************************************************************)
(* POST /analyze and POST /analyze-ifc: the handler, then submit_job or    *)
(* submit_ifc_job.                                                         *)
(***************************************************************************)
Init ==
    /\ hash = [j \in Jobs |-> NoHash]
    /\ upload = [j \in Jobs |-> [f \in {"data", "name"} |-> 0]]
    /\ blob = [j \in Jobs |-> [k \in ArtifactKinds |-> 0]]
    /\ artname = [j \in Jobs |-> [k \in ArtifactKinds |-> 0]]
    /\ queue = [j \in Jobs |-> 0]
    /\ source \in [Jobs -> {"ifc", "bim"}]
    /\ api = [j \in Jobs |-> "new"]
    /\ incoming = {}
    /\ worker = [w \in Workers |-> Idle]
    /\ reader = NoRequest
    /\ faults = 0 /\ crashes = 0 /\ redeliveries = 0
    /\ hit = {}

\* The upload is copied to INCOMING_DIR before _guard_clauses is consulted.
Receive(j) ==
    /\ api[j] = "new"
    /\ incoming' = IF source[j] = "ifc" THEN incoming \cup {j} ELSE incoming
    /\ api' = [api EXCEPT ![j] = IF CorpusUsable THEN "queued_hset" ELSE "refused"]
    /\ UNCHANGED <<store, queue, source, worker, reader, budget>>

\* 413: the upload is over the limit, and the partial copy is removed.
ReceiveTooLarge(j) ==
    /\ api[j] = "new" /\ source[j] = "ifc"
    /\ api' = [api EXCEPT ![j] = "refused"]
    /\ UNCHANGED <<store, queue, source, incoming, worker, reader, budget>>

SubmitTo(j, from, to) ==
    /\ api[j] = from
    /\ api' = [api EXCEPT ![j] = to]
    /\ UNCHANGED <<blob, artname, source, incoming, worker, reader, budget>>

SubmitHSet(j) ==
    /\ SubmitTo(j, "queued_hset", "queued_expire")
    /\ hash' = [hash EXCEPT ![j] = [HSet(j, "queued") EXCEPT !.plan = TRUE]]
    /\ UNCHANGED <<upload, queue>>

SubmitExpire_PublishFirst(j) ==
    /\ SubmitTo(j, "queued_expire", "delay")
    /\ Expire(j)
    /\ UNCHANGED <<upload, queue>>

SubmitExpire(j) ==
    /\ SubmitTo(j, "queued_expire",
                IF source[j] = "ifc" THEN "upload_data" ELSE "delay")
    /\ Expire(j)
    /\ UNCHANGED <<upload, queue>>

StoreUploadData_NoTtl(j) ==
    /\ SubmitTo(j, "upload_data", "upload_name")
    /\ upload' = [upload EXCEPT ![j]["data"] = Persistent]
    /\ UNCHANGED <<hash, queue>>

StoreUploadData(j) ==
    /\ SubmitTo(j, "upload_data", "upload_name")
    /\ upload' = [upload EXCEPT ![j]["data"] = Ttl]
    /\ UNCHANGED <<hash, queue>>

StoreUploadName(j) ==
    /\ SubmitTo(j, "upload_name", "delay")
    /\ upload' = [upload EXCEPT ![j]["name"] = Ttl]
    /\ UNCHANGED <<hash, queue>>

Delay(j) ==
    /\ SubmitTo(j, "delay", "accepted")
    /\ queue' = [queue EXCEPT ![j] = @ + 1]
    /\ UNCHANGED <<hash, upload>>

\* A command of the submission fails: nothing catches it and the client gets a
\* 500.  A publish may fail after the broker has taken the message.
SubmitFails(j) ==
    /\ faults < MaxFaults
    /\ api[j] \in SubmitSteps
    /\ api' = [api EXCEPT ![j] = "error"]
    /\ \/ UNCHANGED queue
       \/ api[j] = "delay" /\ queue' = [queue EXCEPT ![j] = @ + 1]
    /\ faults' = faults + 1
    /\ hit' = hit \cup {j}
    /\ UNCHANGED <<store, source, incoming, worker, reader, crashes, redeliveries>>

\* The API process dies in the middle of a submission.
SubmitCrashes(j) ==
    /\ crashes < MaxCrashes
    /\ api[j] \in SubmitSteps
    /\ api' = [api EXCEPT ![j] = "error"]
    /\ crashes' = crashes + 1
    /\ hit' = hit \cup {j}
    /\ UNCHANGED <<store, queue, source, incoming, worker, reader, faults, redeliveries>>

\* The broker restores a message a worker has prefetched and not acknowledged,
\* while that worker still holds it.
Redeliver(j) ==
    /\ redeliveries < MaxRedeliveries
    /\ queue[j] > 0
    /\ queue' = [queue EXCEPT ![j] = @ + 1]
    /\ redeliveries' = redeliveries + 1
    /\ UNCHANGED <<store, source, api, incoming, worker, reader, faults, crashes, hit>>

(***************************************************************************)
(* _execute and _execute_ifc in a Celery worker.                           *)
(***************************************************************************)
Begin(w, j) ==
    /\ worker[w].pc = "idle"
    /\ queue[j] > 0
    /\ worker' = [worker EXCEPT ![w] = [Idle EXCEPT !.pc = "running_hset", !.job = j]]
    /\ UNCHANGED <<store, source, api, incoming, reader, budget>>

\* The message is acknowledged before the task runs.
Take(w, j) == Begin(w, j) /\ queue' = [queue EXCEPT ![j] = @ - 1]

Goto(w, from, to) ==
    /\ worker[w].pc = from
    /\ worker' = [worker EXCEPT ![w].pc = to]
    /\ UNCHANGED <<queue, source, api, incoming, reader, budget>>

RunHSet_Missing(w) == Goto(w, "running_hset", "running_expire") /\ UNCHANGED store

RunHSet(w) ==
    LET j == worker[w].job IN
    /\ Goto(w, "running_hset", "running_expire")
    /\ hash' = [hash EXCEPT ![j] = HSet(j, "running")]
    /\ UNCHANGED <<upload, blob, artname>>

RunExpire(w) ==
    /\ Goto(w, "running_expire", "locate")
    /\ Expire(worker[w].job)
    /\ UNCHANGED <<upload, blob, artname>>

\* os.path.exists(ifc_path): otherwise the upload has to come from the store.
Locate(w) ==
    LET j == worker[w].job
        here == source[j] = "bim" \/ (SharedVolume /\ j \in incoming)
    IN
    /\ Goto(w, "locate", IF here THEN "pipeline" ELSE "fetch_data")
    /\ UNCHANGED store

\* fetch_upload returns None for a missing blob: FileNotFoundError.
FetchData(w) ==
    LET found == Exists(upload[worker[w].job]["data"]) IN
    /\ Goto(w, "fetch_data", IF found THEN "fetch_name" ELSE "failed_hset")
    /\ UNCHANGED store

\* A missing name only changes the name of the local copy.
FetchName(w) ==
    /\ Goto(w, "fetch_name", "fetch_del_data")
    /\ UNCHANGED store

FetchDelete(w) ==
    LET j == worker[w].job IN
    /\ \/ /\ Goto(w, "fetch_del_data", "fetch_del_name")
          /\ upload' = [upload EXCEPT ![j]["data"] = 0]
       \/ /\ Goto(w, "fetch_del_name", "pipeline")
          /\ upload' = [upload EXCEPT ![j]["name"] = 0]
    /\ UNCHANGED <<hash, blob, artname>>

\* run_validation_pipeline writes its reports to the job directory.  Only an
\* IFC can be blocked (by its schema), and it still gets reports.
Pipeline(w) ==
    LET j == worker[w].job IN
    /\ worker[w].pc = "pipeline"
    /\ \/ \E verdict \in {"completed", "failed"}, reports \in SUBSET Kinds :
             /\ verdict = "failed" => source[j] = "ifc"
             /\ worker' = [worker EXCEPT ![w] =
                    [pc |-> "store_artifacts", job |-> j, verdict |-> verdict,
                     reports |-> reports, todo |-> reports \cap ArtifactKinds,
                     kind |-> NoKind]]
       \/ worker' = [worker EXCEPT ![w].pc = "failed_hset"]
    /\ UNCHANGED <<store, queue, source, api, incoming, reader, budget>>

\* Worker w, storing its reports: the ones left, and the one whose name is next.
Storing(w, pc, k, left) ==
    [pc |-> pc, job |-> worker[w].job, verdict |-> worker[w].verdict,
     reports |-> worker[w].reports, todo |-> left, kind |-> k]

\* One SET of the bytes of report k, with the given TTL, and what comes next.
SetBlob(w, k, ttl, next) ==
    LET j == worker[w].job IN
    /\ worker[w].pc = "store_artifacts"
    /\ k \in worker[w].todo
    /\ blob' = [blob EXCEPT ![j][k] = ttl]
    /\ worker' = [worker EXCEPT ![w] = next]
    /\ UNCHANGED <<hash, upload, artname, queue, source, api, incoming, reader, budget>>

NameNext(w, k) == Storing(w, "artname", k, worker[w].todo)

StoreBlob_NoName(w, k) ==
    SetBlob(w, k, Ttl, Storing(w, "store_artifacts", NoKind, worker[w].todo \ {k}))

\* store_artifacts: for each report two SETs, the bytes and then the file name.
StoreBlob(w, k) == SetBlob(w, k, Ttl, NameNext(w, k))

StoreName(w) ==
    LET j == worker[w].job
        k == worker[w].kind
    IN
    /\ worker[w].pc = "artname"
    /\ artname' = [artname EXCEPT ![j][k] = Ttl]
    /\ worker' = [worker EXCEPT ![w] =
                      Storing(w, "store_artifacts", NoKind, worker[w].todo \ {k})]
    /\ UNCHANGED <<hash, upload, blob, queue, source, api, incoming, reader, budget>>

FinalHSet_BeforeArtifacts(w) ==
    LET j == worker[w].job IN
    /\ Goto(w, "store_artifacts", "final_expire")
    /\ hash' = [hash EXCEPT ![j] = [HSet(j, worker[w].verdict) EXCEPT
                                        !.result = worker[w].reports]]
    /\ UNCHANGED <<upload, blob, artname>>

\* The status that announces the result comes after the last artifact.
FinalHSet(w) ==
    LET j == worker[w].job IN
    /\ worker[w].todo = {}
    /\ Goto(w, "store_artifacts", "final_expire")
    /\ hash' = [hash EXCEPT ![j] = [HSet(j, worker[w].verdict) EXCEPT
                                        !.result = worker[w].reports]]
    /\ UNCHANGED <<upload, blob, artname>>

\* The except block: HSET and EXPIRE once more, now with status failed.
FailedHSet(w) ==
    LET j == worker[w].job IN
    /\ Goto(w, "failed_hset", "failed_expire")
    /\ hash' = [hash EXCEPT ![j] = HSet(j, "failed")]
    /\ UNCHANGED <<upload, blob, artname>>

\* The EXPIRE that follows the last HSET ends the task.
LastExpire(w) ==
    /\ worker[w].pc \in {"final_expire", "failed_expire"}
    /\ Expire(worker[w].job)
    /\ worker' = [worker EXCEPT ![w] = Idle]
    /\ UNCHANGED <<upload, blob, artname, queue, source, api, incoming, reader, budget>>

\* A Redis command raises.  Inside the try block the job is marked failed, even
\* when the HSET of its result has already been applied; outside of it nothing
\* catches the exception and the task ends as it is.
WorkerFails(w) ==
    /\ faults < MaxFaults
    /\ \/ /\ worker[w].pc \in TrySteps
          /\ worker' = [worker EXCEPT ![w].pc = "failed_hset"]
       \/ /\ worker[w].pc \in BareSteps
          /\ worker' = [worker EXCEPT ![w] = Idle]
    /\ faults' = faults + 1
    /\ hit' = hit \cup {worker[w].job}
    /\ UNCHANGED <<store, queue, source, api, incoming, reader, crashes, redeliveries>>

\* The worker process dies; its message has been acknowledged already.
WorkerCrashes(w) ==
    /\ crashes < MaxCrashes
    /\ worker[w].pc # "idle"
    /\ worker' = [worker EXCEPT ![w] = Idle]
    /\ crashes' = crashes + 1
    /\ hit' = hit \cup {worker[w].job}
    /\ UNCHANGED <<store, queue, source, api, incoming, reader, faults, redeliveries>>

(***************************************************************************)
(* GET /jobs/{id} is one HGETALL; GET /jobs/{id}/report/{kind} is two      *)
(* HGETALLs and two GETs.                                                  *)
(***************************************************************************)
View(j) ==
    [status |-> hash[j].status,
     result |-> IF hash[j].status = "completed" THEN hash[j].result ELSE {}]

Respond(code, named) ==
    reader' = [pc |-> "idle", job |-> reader.job, kind |-> reader.kind,
               code |-> code, named |-> named]
Answer(code) == Respond(code, TRUE)
Continue(pc) == reader' = [reader EXCEPT !.pc = pc]
ReadOnly == UNCHANGED <<store, queue, source, api, incoming, worker, budget>>

\* 400 unless kind is in _MEDIA, whose keys are those of ARTIFACT_KINDS.
Request(j, k) ==
    /\ reader.pc = "idle"
    /\ reader' = [pc |-> IF k \in ArtifactKinds THEN "get_job" ELSE "idle",
                  job |-> j, kind |-> k, named |-> TRUE,
                  code |-> IF k \in ArtifactKinds THEN 0 ELSE 400]
    /\ ReadOnly

ReadJob ==
    /\ reader.pc = "get_job"
    /\ CASE View(reader.job).status = "completed" -> Continue("get_report")
         [] View(reader.job).status = "absent"    -> Answer(404)
         [] OTHER                                 -> Answer(409)
    /\ ReadOnly

\* get_report reads the job once more.
ReadAgain ==
    /\ reader.pc = "get_report"
    /\ IF View(reader.job).status = "completed" THEN Continue("get_data") ELSE Answer(404)
    /\ ReadOnly

ReadData ==
    /\ reader.pc = "get_data"
    /\ IF Exists(blob[reader.job][reader.kind]) THEN Continue("get_name") ELSE Answer(404)
    /\ ReadOnly

\* Without a stored name the report goes out under a made-up one.
ReadName ==
    /\ reader.pc = "get_name"
    /\ Respond(200, Exists(artname[reader.job][reader.kind]))
    /\ ReadOnly

ReadFails ==
    /\ faults < MaxFaults
    /\ reader.pc \in ReadSteps
    /\ Answer(500)
    /\ faults' = faults + 1
    /\ UNCHANGED <<store, queue, source, api, incoming, worker, crashes, redeliveries, hit>>

\* One tick of the server's clock: a key whose TTL runs out is gone.  A TTL is
\* days and a request or a task is minutes, so a tick falls between them: a
\* message may wait in the broker for longer than a TTL, a task does not run so
\* long.
Tick ==
    /\ TtlPasses
    /\ \A w \in Workers : worker[w].pc = "idle"
    /\ \A j \in Jobs : api[j] \notin SubmitSteps
    /\ hash' = [j \in Jobs |->
                    IF hash[j].ttl = 1 THEN NoHash
                    ELSE [hash[j] EXCEPT !.ttl = Older(@)]]
    /\ upload' = [j \in Jobs |-> [f \in {"data", "name"} |-> Older(upload[j][f])]]
    /\ blob' = [j \in Jobs |-> [k \in ArtifactKinds |-> Older(blob[j][k])]]
    /\ artname' = [j \in Jobs |-> [k \in ArtifactKinds |-> Older(artname[j][k])]]
    /\ UNCHANGED <<queue, source, api, incoming, worker, reader, budget>>

(***************************************************************************)
(* The specification.                                                      *)
(***************************************************************************)
SubmitStep(j) ==
    \/ SubmitHSet(j) \/ SubmitExpire(j)
    \/ StoreUploadData(j) \/ StoreUploadName(j)
    \/ Delay(j)

WorkerStep(w) ==
    \/ RunHSet(w) \/ RunExpire(w)
    \/ Locate(w) \/ FetchData(w) \/ FetchName(w) \/ FetchDelete(w)
    \/ Pipeline(w)
    \/ \E k \in ArtifactKinds : StoreBlob(w, k)
    \/ StoreName(w) \/ FinalHSet(w) \/ FailedHSet(w) \/ LastExpire(w)

Download ==
    \/ \E j \in Jobs, k \in Kinds : Request(j, k)
    \/ ReadJob \/ ReadAgain \/ ReadData \/ ReadName \/ ReadFails

Next ==
    \/ \E j \in Jobs :
          \/ Receive(j) \/ ReceiveTooLarge(j)
          \/ SubmitStep(j) \/ SubmitFails(j) \/ SubmitCrashes(j)
          \/ Redeliver(j)
          \/ \E w \in Workers : Take(w, j)
    \/ \E w \in Workers : WorkerStep(w) \/ WorkerFails(w) \/ WorkerCrashes(w)
    \/ Download
    \/ Tick

Spec == Init /\ [][Next]_vars

\* A request that has begun and a task that has begun keep going, and a free
\* worker takes a waiting message.
FairSpec ==
    /\ Spec
    /\ \A j \in Jobs : WF_vars(SubmitStep(j))
    /\ \A j \in Jobs : WF_vars(\E w \in Workers : Take(w, j))
    /\ \A w \in Workers : WF_vars(WorkerStep(w))

\* ... and the clock of the Redis server does not stop.
TimedSpec == FairSpec /\ WF_vars(Tick)

(***************************************************************************)
(* Properties.                                                             *)
(***************************************************************************)
HashType == [ttl : Keys, status : {"absent"} \cup Unfinished \cup Finished,
             result : SUBSET Kinds, plan : BOOLEAN]
WorkerType == [pc : {"idle"} \cup WorkerSteps, job : Jobs \cup {NoJob},
               verdict : {"none"} \cup Finished, reports : SUBSET Kinds,
               todo : SUBSET ArtifactKinds, kind : Kinds \cup {NoKind}]
ReaderType == [pc : {"idle"} \cup ReadSteps, job : Jobs \cup {NoJob}, kind : Kinds \cup {NoKind},
               code : {0, 200, 400, 404, 409, 500}, named : BOOLEAN]

\* The values the variables take.
TypeOK ==
    /\ hash \in [Jobs -> HashType]
    /\ upload \in [Jobs -> [{"data", "name"} -> Keys]]
    /\ blob \in [Jobs -> [ArtifactKinds -> Keys]]
    /\ artname \in [Jobs -> [ArtifactKinds -> Keys]]
    /\ queue \in [Jobs -> Nat]
    /\ source \in [Jobs -> {"ifc", "bim"}]
    /\ api \in [Jobs -> {"new", "refused", "error", "accepted"} \cup SubmitSteps]
    /\ incoming \in SUBSET Jobs
    /\ worker \in [Workers -> WorkerType]
    /\ reader \in ReaderType
    /\ faults \in 0 .. MaxFaults
    /\ crashes \in 0 .. MaxCrashes
    /\ redeliveries \in 0 .. MaxRedeliveries
    /\ hit \in SUBSET Jobs

\* Somebody still has to do something for job j.
Busy(j) ==
    \/ api[j] \in SubmitSteps
    \/ queue[j] > 0
    \/ \E w \in Workers : worker[w].job = j

\* A job that reads completed has every report its result lists in the store:
\* any API replica can serve it, whatever failed, crashed or ran twice
\* (tasks.py stores the artifacts before it sets the status).
CompletedHasArtifacts ==
    \A j \in Jobs :
        hash[j].status = "completed" => hash[j].result \cap ArtifactKinds \subseteq Stored(j)

\* A message never reaches a worker before the upload it needs, and nothing
\* removes the upload first (submit_ifc_job stores before it publishes,
\* fetch_upload deletes only after it has read).
UploadAwaitsWorker ==
    \A j \in Jobs :
        (queue[j] > 0 /\ source[j] = "ifc" /\ redeliveries = 0)
            => Exists(upload[j]["data"]) /\ Exists(upload[j]["name"])

\* An accepted job that is not over is never forgotten, a worker's death
\* included (ADR-007: Celery has acks_late and reject_on_worker_lost).
AcceptedIsNotLost ==
    \A j \in Jobs : (api[j] = "accepted" /\ hash[j].status \in Unfinished) => Busy(j)

\* A client that is handed a report is handed one the published result lists,
\* under its own name, although the status is read twice and the two keys of
\* the report are read after it.
ServedReportWasPublished ==
    (reader.code = 200 /\ redeliveries = 0)
        => reader.kind \in hash[reader.job].result /\ reader.named

\* Everything a job has put into Redis is gone in the end, with no one deleting it
\* ("Everything carries a TTL ... so finished jobs age out instead of
\* accumulating"); a fault between an HSET and its EXPIRE leaves a hash that stays.
JobsAgeOut ==
    \A j \in Jobs :
        [](Exists(hash[j].ttl) =>
              <>(\/ j \in hit
                 \/ /\ ~Exists(hash[j].ttl)
                    /\ \A f \in {"data", "name"} : ~Exists(upload[j][f])
                    /\ \A k \in ArtifactKinds : ~Exists(blob[j][k])))

(***************************************************************************)
(* The job service implements JobLifecycle: what a client can download is  *)
(* what the completed status lists and the store holds.                    *)
(***************************************************************************)
Lifecycle == INSTANCE JobLifecycle WITH
    Kinds <- ArtifactKinds,
    MayForget <- FALSE,
    status <- [j \in Jobs |-> View(j).status],
    listed <- [j \in Jobs |-> View(j).result \cap ArtifactKinds],
    published <- [j \in Jobs |-> IF View(j).status = "completed" THEN Stored(j) ELSE {}]

\* Whatever commands fail and whatever process dies, a client sees the promised
\* life of a job, and one that no fault hits comes to its end.
KeepsLifecycle == Lifecycle!Spec
=============================================================================
