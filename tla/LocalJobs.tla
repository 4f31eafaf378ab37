----------------------------- MODULE LocalJobs ------------------------------
(***************************************************************************)
(* The job service without Redis (LocalJobStore of api/job_store.py): each *)
(* process keeps the jobs in memory and mirrors a job to its status.json,  *)
(* which any process that shares the directory may read.  Without a broker *)
(* a job runs in a thread of the API process that accepted it; with one it *)
(* runs in a worker process.                                               *)
(***************************************************************************)
EXTENDS Naturals

CONSTANTS
    Jobs, Kinds,
    Processes, NoProcess,
    Deployments,        \* [apis, workers, jobs, faults]: the processes of a deployment,
                        \* without a broker if there are no workers, and bounds on the
                        \* jobs it accepts and on its faults
    MaxFaults           \* the largest of the bounds on process crashes and writes that
                        \* fail (a full disk)

ASSUME ProcessesAssumption ==
    /\ NoProcess \notin Processes
    /\ \A d \in Deployments : d.apis \cup d.workers \subseteq Processes /\ d.apis \cap d.workers = {}
ASSUME BoundsAssumption ==
    /\ MaxFaults \in Nat
    /\ \A d \in Deployments : d.jobs \subseteq Jobs /\ d.faults \in 0 .. MaxFaults

VARIABLES
    deployment, \* which processes there are; never changes
    memory,     \* _jobs of each process
    file,       \* status.json of each job
    stage,      \* how far the thread that is at work on a job is
    owner,      \* the process of that thread
    reader,     \* a client's GET, between the two reads of get
    told,       \* the last status a client was told
    crashes, faults,
    hit         \* history: jobs a failed write or a crash has touched

budget == <<crashes, faults, hit>>
vars == <<deployment, memory, file, stage, owner, reader, told, budget>>

Apis == deployment.apis
Workers == deployment.workers

\* A record of a job: its status, whether it has the fields of the submission
\* (created_at, plan_name), and the reports of its result.
Record(status, created, result) == [status |-> status, created |-> created, result |-> result]
NoRecord == Record("absent", FALSE, {})
Torn == Record("torn", FALSE, {})

\* The thread holds the lock of its process and is writing status.json.
Writing == {"queueing", "starting", "ending", "failing"}
Idle == [pc |-> "idle", at |-> NoProcess, disk |-> NoRecord, job |-> NoProcess]

Init ==
    /\ deployment \in Deployments
    /\ memory = [p \in Processes |-> [j \in Jobs |-> NoRecord]]
    /\ file = [j \in Jobs |-> NoRecord]
    /\ stage = [j \in Jobs |-> "new"]
    /\ owner = [j \in Jobs |-> NoProcess]
    /\ reader = Idle
    /\ told = [j \in Jobs |-> "absent"]
    /\ crashes = 0
    /\ faults = 0
    /\ hit = {}

(***************************************************************************)
(* LocalJobStore.                                                          *)
(***************************************************************************)
\* job.update(fields): what is not among the fields stays.
Updated(r, status, created, result) ==
    Record(status, created \/ r.created, IF result = {} THEN r.result ELSE result)

\* set_fields takes the lock, updates the memory and empties status.json;
OpenWrite(p, j, status, created, result) ==
    /\ \A k \in Jobs : stage[k] \in Writing => owner[k] # p
    /\ memory' = [memory EXCEPT ![p][j] = Updated(@, status, created, result)]
    /\ file' = [file EXCEPT ![j] = Torn]

\* ... the new text is there when the file is closed.
CloseWrite(j) ==
    /\ stage[j] \in Writing
    /\ file' = [file EXCEPT ![j] = memory[owner[j]][j]]
    /\ stage' = [stage EXCEPT ![j] = CASE @ = "queueing" -> "published"
                                       [] @ = "starting" -> "running"
                                       [] OTHER -> "ended"]
    /\ UNCHANGED <<deployment, memory, owner, reader, told, budget>>

Readable(disk) == disk.status \notin {"absent", "torn"}

View_NoFallback(disk, mem) == IF Readable(disk) THEN disk ELSE NoRecord
View_MemoryWins(disk, mem) == IF mem.status # "absent" \/ ~Readable(disk) THEN mem ELSE disk

\* get: the file wins over the memory, unless it is missing or cannot be parsed.
View(disk, mem) ==
    IF Readable(disk)
    THEN Record(disk.status, disk.created \/ mem.created,
                IF disk.result = {} THEN mem.result ELSE disk.result)
    ELSE mem

(***************************************************************************)
(* Submission and execution of a job.                                      *)
(***************************************************************************)
Submit(p, j) ==
    /\ j \in deployment.jobs
    /\ stage[j] = "new"
    /\ OpenWrite(p, j, "queued", TRUE, {})
    /\ stage' = [stage EXCEPT ![j] = "queueing"]
    /\ owner' = [owner EXCEPT ![j] = p]
    /\ UNCHANGED <<deployment, reader, told, budget>>

\* The thread is started in the process of the submission, or a worker takes
\* the task from the broker.
Start(p, j) ==
    /\ stage[j] = "published"
    /\ IF Workers = {} THEN p = owner[j] ELSE p \in Workers
    /\ OpenWrite(p, j, "running", FALSE, {})
    /\ stage' = [stage EXCEPT ![j] = "starting"]
    /\ owner' = [owner EXCEPT ![j] = p]
    /\ UNCHANGED <<deployment, reader, told, budget>>

Finish_Uncaught(j) ==
    /\ stage[j] = "running"
    /\ \/ \E reports \in SUBSET Kinds : OpenWrite(owner[j], j, "completed", FALSE, reports)
          /\ stage' = [stage EXCEPT ![j] = "ending"]
       \/ stage' = [stage EXCEPT ![j] = "lost"] /\ UNCHANGED <<memory, file>>
    /\ UNCHANGED <<deployment, owner, reader, told, budget>>

\* The pipeline ends, is blocked, or raises an exception that is caught.
Finish(j) ==
    /\ stage[j] = "running"
    /\ \E reports \in SUBSET Kinds :
          \/ /\ \E status \in {"completed", "failed"} :
                    OpenWrite(owner[j], j, status, FALSE, reports)
             /\ stage' = [stage EXCEPT ![j] = "ending"]
          \/ /\ OpenWrite(owner[j], j, "failed", FALSE, {})
             /\ stage' = [stage EXCEPT ![j] = "failing"]
    /\ UNCHANGED <<deployment, owner, reader, told, budget>>

\* The write raises an exception: the submission is refused or the thread dies,
\* but for the write of the outcome, whose failure is caught,
WriteFails(j) ==
    /\ crashes + faults < deployment.faults
    /\ faults' = faults + 1
    /\ stage[j] \in Writing
    /\ stage' = [stage EXCEPT ![j] = IF @ = "ending" THEN "caught" ELSE "lost"]
    /\ hit' = hit \cup {j}
    /\ UNCHANGED <<deployment, memory, file, owner, reader, told, crashes>>

\* ... and followed by another write.
Catch(j) ==
    /\ stage[j] = "caught"
    /\ OpenWrite(owner[j], j, "failed", FALSE, {})
    /\ stage' = [stage EXCEPT ![j] = "failing"]
    /\ UNCHANGED <<deployment, owner, reader, told, budget>>

\* A process ends and is started again with an empty memory; its threads are
\* daemons.  A task that only waits in the broker is not lost.
Crash(p) ==
    /\ crashes + faults < deployment.faults
    /\ crashes' = crashes + 1
    /\ memory' = [memory EXCEPT ![p] = [j \in Jobs |-> NoRecord]]
    /\ LET threads == Writing \cup {"running", "caught"}
                              \cup (IF Workers = {} THEN {"published"} ELSE {})
           lost == {j \in Jobs : owner[j] = p /\ stage[j] \in threads}
       IN /\ stage' = [j \in Jobs |-> IF j \in lost THEN "lost" ELSE stage[j]]
          /\ hit' = hit \cup lost
    /\ reader' = IF reader.at = p THEN Idle ELSE reader
    /\ UNCHANGED <<deployment, file, owner, told, faults>>

(***************************************************************************)
(* GET /jobs/{job_id}.                                                     *)
(***************************************************************************)
ReadDisk(p, j) ==
    /\ reader.pc = "idle"
    /\ reader' = [pc |-> "memory", at |-> p, disk |-> file[j], job |-> j]
    /\ UNCHANGED <<deployment, memory, file, stage, owner, told, budget>>

ReadMemory ==
    /\ reader.pc = "memory"
    /\ \A k \in Jobs : stage[k] \in Writing => owner[k] # reader.at
    /\ told' = [told EXCEPT ![reader.job] = View(reader.disk, memory[reader.at][reader.job]).status]
    /\ reader' = Idle
    /\ UNCHANGED <<deployment, memory, file, stage, owner, budget>>

Advance(j) == CloseWrite(j) \/ Finish(j) \/ Catch(j) \/ \E p \in Processes : Start(p, j)

Next ==
    \/ \E j \in Jobs : Advance(j) \/ WriteFails(j) \/ \E p \in Apis : Submit(p, j)
    \/ \E p \in Apis \cup Workers : Crash(p)
    \/ \E p \in Apis : \E j \in Jobs : ReadDisk(p, j)
    \/ ReadMemory

Spec == Init /\ [][Next]_vars
FairSpec == Spec /\ \A j \in Jobs : WF_vars(Advance(j))

(***************************************************************************)
(* Properties.                                                             *)
(***************************************************************************)
Terminal == {"completed", "failed"}
Records == [status : {"absent", "queued", "running", "torn"} \cup Terminal,
            created : BOOLEAN, result : SUBSET Kinds]
Shown(p, j) == View(file[j], memory[p][j])

\* The values the variables take; a process writes one file at a time.
TypeOK ==
    /\ deployment \in Deployments
    /\ memory \in [Processes -> [Jobs -> Records]]
    /\ file \in [Jobs -> Records]
    /\ stage \in [Jobs -> Writing \cup {"new", "published", "running", "caught", "ended", "lost"}]
    /\ owner \in [Jobs -> Processes \cup {NoProcess}]
    /\ \A j, k \in Jobs : j # k /\ {stage[j], stage[k]} \subseteq Writing => owner[j] # owner[k]
    /\ told \in [Jobs -> {"absent", "queued", "running"} \cup Terminal]
    /\ crashes \in 0 .. MaxFaults /\ faults \in 0 .. MaxFaults /\ hit \subseteq Jobs

\* What the GET of an idle client would be told by the process of a job's thread.
ShownByOwner(j) == IF owner[j] = NoProcess THEN NoRecord ELSE Shown(owner[j], j)
ListedByOwner(j) == IF ShownByOwner(j).status = "completed" THEN ShownByOwner(j).result ELSE {}

Lifecycle == INSTANCE JobLifecycle WITH
    MayForget <- TRUE,
    status <- [j \in Jobs |-> ShownByOwner(j).status],
    listed <- [j \in Jobs |-> ListedByOwner(j)],
    published <- [j \in Jobs |-> ListedByOwner(j)]

\* The dictionary and the file together keep the promise of the job API, with a
\* broker and without, although the file is empty or half written at times: every
\* job is queued, runs and ends, in this order and once, unless a write of its own
\* or its process fails.
KeepsLifecycle == Lifecycle!Spec

Rank == [absent |-> 0, queued |-> 1, running |-> 2, completed |-> 3, failed |-> 3]

\* What clients are told does not go back.  With one process, a job never returns
\* to an earlier status and never disappears, although get reads the file without
\* the lock ("partial write in flight"); with workers that share the directory, an
\* outcome stays, whichever API process is asked and whichever process crashes
\* ("disk wins on read").
ToldDoesNotGoBack ==
    [][\A j \in Jobs :
          /\ Workers = {} /\ crashes' = 0 => Rank[told'[j]] >= Rank[told[j]]
          /\ Workers # {} /\ told[j] \in Terminal => told'[j] = told[j]]_vars

\* Every API process ends up showing the outcome of a job no fault hits, the one
\* included that remembers it as queued.
EveryReplicaLearns ==
    \A j \in Jobs :
        stage[j] = "published"
            ~> (j \in hit \/ \A p \in Apis : Shown(p, j).status \in Terminal)
=============================================================================
